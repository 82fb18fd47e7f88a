CONSTANTS
    Threads = {t1}
    Emails = {e1}
    Passwords = {p1, p2}
    Absent = Absent
    MAX_LOGIN_ATTEMPTS = 3
    Answers = {TRUE}
    Root = Root
    Null = Null
    NoFrame = NoFrame
    NoBatch = NoBatch
SPECIFICATION Spec
SYMMETRY Symmetry
VIEW View
INVARIANTS
    RowsAreAccounts
    GuessesBounded
PROPERTIES
    LoginsAreCurrent
    BlockedStaysBlocked
    PromiseKept
