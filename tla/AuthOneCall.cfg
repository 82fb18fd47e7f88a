CONSTANTS
    Threads = {t1}
    Emails = {e1, e2}
    Passwords = {p1, p2}
    Absent = Absent
    MAX_LOGIN_ATTEMPTS = 2
    Answers = {TRUE}
    CanCrash = FALSE
SPECIFICATION Spec
SYMMETRY Symmetry
INVARIANTS
    GuessesBounded
PROPERTIES
    PromiseKept
