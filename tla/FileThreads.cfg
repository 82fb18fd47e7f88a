CONSTANTS
    Threads = {t1, t2}
    Files = {users}
    Inodes = {i1, i2, i3, i4}
    Keys = {k1}
    Values = {x1}
    Absent = Absent
    Empty = Empty
    Torn = Torn
    None = None
    Outcomes = {TRUE, FALSE}
    CanCrash = FALSE
SPECIFICATION Spec
SYMMETRY Symmetry
INVARIANTS
    TypeOK
