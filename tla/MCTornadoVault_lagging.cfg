SPECIFICATION Spec
CONSTANTS
    p1 = p1
    p2 = p2
    None = None
    Proc = {a}
    Pool = {p1}
    Included = {p1}
    MaxNonce = 2
    MaxBlock = 3
    Requests <- Several
    Gap = 1
    Lagging = TRUE
    History <- NoHistory
INVARIANTS
    ChunksHoldEventsOnce
    NotesAgreeWithCursor
PROPERTIES
    OnlyUnminedForgotten
CHECK_DEADLOCK FALSE
