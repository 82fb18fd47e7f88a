CONSTANTS
    Clients = {c1, c2}
    Storages = {users}
    Keys = {k1, k2}
    Names = {n1}
    Scalars = {a}
    MaxMore = 1
    None = None
SPECIFICATION Spec
SYMMETRY Symmetry
INVARIANTS
    TypeOK
    OneDocument
PROPERTIES
    SetsOnlyGrow
