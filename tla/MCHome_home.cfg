CONSTANTS
    None = None
    Refused = Refused
    Places <- SomePlaces
    Presets <- SomePresets
    DefaultAssets <- SomeAssets
    Holdings <- SomeHoldings
    Public = {"address", "simple"}
    Notes <- SomeNotes
    Listings <- SomeListings
    MaxAmount = 7
    Procs = {p, q}
    Commands <- SomeCommands
    Starts <- SomeStarts
    TTL = 1
    MaxTicks = 1
    MaxCommands = 2
SPECIFICATION Spec
SYMMETRY Symmetry
INVARIANTS
    OneKey
    LockHolds
    ActiveInUse
    ServicesUsable
    OptedIsRegistered
    TotalsExact
CHECK_DEADLOCK FALSE
