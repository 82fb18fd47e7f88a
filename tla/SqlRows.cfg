CONSTANTS
    Storages = {users}
    Keys = {k1, k2}
    Fields = {f}
    Vals = {v1}
    Root = Root
    Null = Null
    Blank = Blank
    NoFrame = NoFrame
    NoBatch = NoBatch
    MaxBatch = 1
    Answers = {TRUE, FALSE}
SPECIFICATION Spec
SYMMETRY Symmetry
VIEW View
INVARIANTS
    TypeOK
    RootFrameCoherent
    FramesImplyTable
PROPERTIES
    SetStoresAndKeeps
    StaleFrameStartsHidden
