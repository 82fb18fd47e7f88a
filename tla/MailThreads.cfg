CONSTANTS
    Callers = {t1, t2}
    Addresses = {a1, a2}
    Null = Null
SPECIFICATION Spec
SYMMETRY Symmetry
CHECK_DEADLOCK FALSE
INVARIANTS
    TypeOK
    UseExplained
    DeliversOwn
    NothingLeft
