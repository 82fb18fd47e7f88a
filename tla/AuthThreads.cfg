CONSTANTS
    Threads = {t1, t2}
    Emails = {e1}
    Passwords = {p1, p2}
    Absent = Absent
    MAX_LOGIN_ATTEMPTS = 2
    Answers = {TRUE, FALSE}
    CanCrash = TRUE
SPECIFICATION Spec
SYMMETRY Symmetry
INVARIANTS
    TypeOK
    HashesNameAccounts
PROPERTIES
    ChangeNeverActivates
