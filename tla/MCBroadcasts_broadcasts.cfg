SPECIFICATION Spec
CONSTANTS
    alice = alice
    bob = bob
    None = None
    Simple = Simple
    Other = Other
    Accounts = {alice, bob}
    Procs = {1, 2}
    Commands <- SomeCommands
    Pools <- SomePools
    Starts <- SomeStarts
    MaxCommands = 2
INVARIANTS
    CallsRunOnce
    AllOrNothing
    SuccessMeansRun
    DelegationRebuildable
    PlanFewest
CHECK_DEADLOCK FALSE
