CONSTANTS
    Threads = {t1}
    Files = {users}
    Inodes = {i1, i2, i3}
    Keys = {k1, k2}
    Values = {x1, x2}
    Absent = Absent
    Empty = Empty
    Torn = Torn
    None = None
    Outcomes = {TRUE}
    CanCrash = TRUE
SPECIFICATION Spec
SYMMETRY Symmetry
INVARIANTS
    Recoverable
PROPERTIES
    SetStoresAndKeeps
    AloneNeverThrows
