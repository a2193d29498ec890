\* Four commands, two at once, two phrases, indices 0 and 1 and their
\* standard names.
SPECIFICATION Spec
CONSTANTS
    Proc = {p, q}
    Phrase = {f, g}
    Label = {}
    MaxIndex = 1
    MaxCommands = 4
    None = None
SYMMETRY Symmetric
INVARIANTS
    ListsConsistent
    PhrasesAgree
    CheckedFirst
PROPERTY NothingLost
CHECK_DEADLOCK FALSE
