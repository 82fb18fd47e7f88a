CONSTANTS
    Workers = {w1}
    Sessions = {s1, s2}
    LocalSessions = {s1}
    Emails = {e1, e2}
    Locales = {en, ru}
    MaxPages = 2
    None = None
SPECIFICATION Spec
SYMMETRY Symmetry
INVARIANTS
    TypeOK
    PagesFit
    AuthedWasChecked
