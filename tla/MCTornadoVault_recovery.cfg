SPECIFICATION Spec
CONSTANTS
    p1 = p1
    p2 = p2
    None = None
    Proc = {a}
    Pool = {p1, p2}
    Included = {p1, p2}
    MaxNonce = 3
    MaxBlock = 3
    Requests <- OneOrBoth
    Gap = 2
    Lagging = FALSE
    History <- OldHistory
INVARIANTS
    RecoveryComplete
    RecordsBelowCounter
PROPERTIES
    MarksNeverLost
CHECK_DEADLOCK FALSE
