\* Three commands, one at a time, over two batches of two addresses; address
\* activity comes at any time.
SPECIFICATION Spec
CONSTANTS
    Proc = {p}
    MaxIndex = 4
    Batch = 2
    MaxCommands = 3
INVARIANTS
    NotReused
    OneVaultEach
    RescanComplete
    SpentIsKept
CHECK_DEADLOCK FALSE
