SPECIFICATION Spec
CONSTANTS
    Caller = {a, b}
    None = None
    HasSaga = TRUE
    Span = 2
    MaxBlock = 3
SYMMETRY Symmetry
INVARIANTS
    AnswerIsExact
    TreeIsPrefix
    ProofCoversEarlierSyncs
CHECK_DEADLOCK FALSE
