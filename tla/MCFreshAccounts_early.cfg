\* One command at a time; a single address batch is enough.
SPECIFICATION Spec
CONSTANTS
    Proc = {p}
    MaxIndex = 2
    Batch = 2
    MaxCommands = 1
INVARIANT StoredBeforeSubmission
CHECK_DEADLOCK FALSE
