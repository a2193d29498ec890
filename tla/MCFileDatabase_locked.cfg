SPECIFICATION Spec
CONSTANTS
    Proc = {p, q}
    Value = {u, v}
    Inode = {i, j, k, l}
    MaxJournal = 3
    Guarded = TRUE
    None = None
    Empty = Empty
    Torn = Torn
SYMMETRY Symmetry
INVARIANTS
    ReturnedIsDurable
PROPERTIES
    RegisterSpec
