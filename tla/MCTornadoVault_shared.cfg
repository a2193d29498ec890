SPECIFICATION FairSpec
CONSTANTS
    p1 = p1
    p2 = p2
    None = None
    Proc = {a, b}
    Pool = {p1, p2}
    Included = {p1, p2}
    MaxNonce = 2
    MaxBlock = 0
    Requests <- Several
    Gap = 2
    Lagging = FALSE
    History <- NoHistory
INVARIANTS
    NoNonceReuse
PROPERTIES
    RecordedBeforeExposed
    LedgerSpec
    OperationsEnd
CHECK_DEADLOCK FALSE
