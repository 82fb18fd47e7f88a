CONSTANTS
    Workers = {w1, w2}
    Sessions = {s1, s2}
    LocalSessions = {s1}
    Emails = {e1}
    Locales = {en}
    MaxPages = 1
    None = None
SPECIFICATION Spec
SYMMETRY Symmetry
PROPERTIES
    OwnSessionOnly
