\* Two commands in a row, two wallets, two bundlers.
SPECIFICATION Spec
CONSTANTS
    Wallets <- SomeWallets
    Requests <- SomeRequests
    Gas <- Limits
    Bundlers = 2
    None = None
    MaxCommands = 2
INVARIANTS
    SelectionLeast
    Balanced
    GasCovered
    FollowedUp
    ReportHonest
PROPERTY QuoteKeepsNotes
CHECK_DEADLOCK FALSE
