------------------------------ MODULE AuthData ------------------------------
(***************************************************************************)
(* The accounts of OPNCMS (class AuthData, src/module/auth.cpp): creation, *)
(* verification, login with a lockout, password change and reset, blocking.*)
(*                                                                         *)
(* The worker threads of the service call it at the same time.  A call is  *)
(* a sequence of driver calls (get_user, set_user, exists_user, and get or *)
(* set of "hashes") with local variables between them; one driver call is  *)
(* one step.  Driver calls are atomic here and reads are current: what the *)
(* SQL driver adds to that is the subject of DataSql.                      *)
(*                                                                         *)
(* Data abstraction.  A password stands for its bcrypt hash, equal only if *)
(* made from it; the sha512 of a hash key is its kind ("0": verify, "1":   *)
(* reset) and its account, the seed making all others unguessable.  The    *)
(* name and the "token" of a row are left out: nothing here depends on     *)
(* them.  hash(), name(email), active(email), block(email), exists and     *)
(* token_email only read, and are the reads inside the calls below.        *)
(***************************************************************************)
EXTENDS Naturals, FiniteSets

CONSTANTS
    Threads,            \* worker threads of the service
    Emails,             \* accounts
    Passwords,
    Absent,             \* a field the stored row does not have
    MAX_LOGIN_ATTEMPTS, \* 5 in auth.h
    Answers,            \* outcomes of a driver call: {TRUE}, or BOOLEAN if it may fail
    CanCrash            \* TRUE: the process may die between two driver calls

ASSUME AttemptsAssumption == MAX_LOGIN_ATTEMPTS \in Nat \ {0}
ASSUME AnswersAssumption == Answers \subseteq BOOLEAN /\ CanCrash \in BOOLEAN
ASSUME AbsentAssumption == Absent \notin Passwords /\ Absent \notin Nat /\ Absent \notin Emails

VARIABLES
    users,    \* the rows of "users": status 0 new, 1 active, 2 blocked
    hashes,   \* the rows of "hashes"
    call,     \* what each thread is doing, with its local variables
    guesses   \* history: wrong passwords tried since the count last restarted

vars == <<users, hashes, call, guesses>>

New == 0
Active == 1
Blocked == 2
\* A row that active(email, flag) made has a status only.
Account == {a \in [password : Passwords \cup {Absent}, status : {New, Active, Blocked},
                   attempts : 0..MAX_LOGIN_ATTEMPTS \cup {Absent}] :
               a.password # Absent => a.attempts # Absent}
NoUser == [password |-> Absent, status |-> Absent, attempts |-> Absent]
HashType == {"verify", "reset"} \X Emails

\* What get_user finds: a driver that does not answer looks like a missing row.
Found(e, up) == IF up THEN users[e] ELSE NoUser

\* Mutant: the fields take the place of the row.
MergeReplaces(old, v) == v

\* set_user(email, v): the fields of v over those of the row (json_set merges).
Merge(old, v) ==
    [password |-> IF v.password = Absent THEN old.password ELSE v.password,
     status |-> IF v.status = Absent THEN old.status ELSE v.status,
     attempts |-> IF v.attempts = Absent THEN old.attempts ELSE v.attempts]
SetUser(e, v) == users' = [users EXCEPT ![e] = Merge(@, v)]
Field(f, x) == [NoUser EXCEPT ![f] = x]

----------------------------------------------------------------------------
(* The local state of a call: op, where it is, and its variables.          *)

Ops == {"none", "create", "reset", "forgot", "check", "change", "block", "unblock",
        "verify", "activate", "deactivate", "count"}
Steps == {"idle", "create user", "create hash", "reset write", "reset hash",
          "forgot write", "exists", "authorize", "clear active", "clear",
          "change write", "fail active", "fail count", "count active", "count write",
          "block read", "block write", "verify user", "activate", "set active"}

Calling(op, pc, e, pw, new) == [op |-> op, pc |-> pc, email |-> e, password |-> pw,
                                new |-> new, v |-> NoUser, n |-> 0]
NoCall == Calling("none", "idle", Absent, Absent, Absent)
Ready(t) == call[t].pc = "idle"
At(t, pc) == call[t].pc = pc
Become(t, c) == call' = [call EXCEPT ![t] = c]
Goto(t, pc) == call' = [call EXCEPT ![t].pc = pc]
Finish(t) == Become(t, NoCall)

\* create(email, password, name): its two create(storage) calls change nothing here.
CreateExists(t, e, pw, up) ==
    /\ Ready(t)
    /\ Found(e, up) = NoUser
    /\ Become(t, Calling("create", "create user", e, pw, Absent))
    /\ UNCHANGED <<users, hashes, guesses>>

\* Mutant: the result of set_user is not looked at.
CreateUserUnchecked(t, up) ==
    LET c == call[t] IN
    /\ At(t, "create user")
    /\ \/ up /\ SetUser(c.email, [password |-> c.password, status |-> New, attempts |-> 0])
       \/ ~up /\ UNCHANGED users
    /\ Goto(t, "create hash")
    /\ UNCHANGED <<hashes, guesses>>

CreateUser(t, up) ==
    LET c == call[t] IN
    /\ At(t, "create user")
    /\ \/ /\ up
          /\ SetUser(c.email, [password |-> c.password, status |-> New, attempts |-> 0])
          /\ guesses' = [guesses EXCEPT ![c.email] = 0]
          /\ Goto(t, "create hash")
       \/ ~up /\ Finish(t) /\ UNCHANGED <<users, guesses>>
    /\ UNCHANGED hashes

SaveHash(t, kind, up) ==
    /\ hashes' = IF up THEN hashes \cup {<<kind, call[t].email>>} ELSE hashes
    /\ Finish(t)
    /\ UNCHANGED <<users, guesses>>

CreateHash(t, up) == At(t, "create hash") /\ SaveHash(t, "verify", up)

\* reset(email): the row is read, and written back as it was read.
ResetRead(t, e, up) ==
    /\ Ready(t)
    /\ Found(e, up) # NoUser
    /\ Become(t, [Calling("reset", "reset write", e, Absent, Absent) EXCEPT !.v = users[e]])
    /\ UNCHANGED <<users, hashes, guesses>>

ResetWrite(t, up) ==
    LET c == call[t] IN
    /\ At(t, "reset write")
    /\ \/ up /\ SetUser(c.email, c.v) /\ Become(t, Calling("reset", "reset hash", c.email, Absent, Absent))
       \/ ~up /\ Finish(t) /\ UNCHANGED users
    /\ UNCHANGED <<hashes, guesses>>

ResetHash(t, up) == At(t, "reset hash") /\ SaveHash(t, "reset", up)

\* password(email, newpassword): whatever the status was, it becomes active.
ForgotExists(t, e, new, up) ==
    /\ Ready(t)
    /\ Found(e, up) # NoUser
    /\ Become(t, Calling("forgot", "forgot write", e, Absent, new))
    /\ UNCHANGED <<users, hashes, guesses>>

ForgotWrite(t, up) ==
    LET c == call[t] IN
    /\ At(t, "forgot write")
    /\ \/ /\ up
          /\ SetUser(c.email, [password |-> c.new, status |-> Active, attempts |-> 0])
          /\ guesses' = [guesses EXCEPT ![c.email] = 0]
       \/ ~up /\ UNCHANGED <<users, guesses>>
    /\ Finish(t)
    /\ UNCHANGED hashes

----------------------------------------------------------------------------
(* check(email, password), by itself or inside password(email, old, new).  *)

CheckActive(t, op, e, pw, new, up) ==
    /\ Ready(t)
    /\ Found(e, up).status = Active
    /\ Become(t, Calling(op, "exists", e, pw, new))
    /\ UNCHANGED <<users, hashes, guesses>>

CheckExists(t, up) ==
    /\ At(t, "exists")
    /\ Goto(t, IF Found(call[t].email, up) # NoUser THEN "authorize" ELSE "fail active")
    /\ UNCHANGED <<users, hashes, guesses>>

\* authorize(): an active account, and the password it has now.
Authorizes(v, pw) == v.status = Active /\ v.password = pw

Authorize(t, up) ==
    LET c == call[t]
        v == Found(c.email, up) IN
    /\ At(t, "authorize")
    /\ Goto(t, IF Authorizes(v, c.password) THEN "clear active" ELSE "fail active")
    /\ guesses' = [guesses EXCEPT ![c.email] =
                      IF v.status = Active /\ v.password \notin {Absent, c.password}
                         /\ @ <= MAX_LOGIN_ATTEMPTS
                      THEN @ + 1 ELSE @]
    /\ UNCHANGED <<users, hashes>>

\* Where a successful check returns to.
Succeed(t) == IF call[t].op = "change" THEN Goto(t, "change write") ELSE Finish(t)

\* attempts(email, 0), whose result is not looked at.
ClearActive(t, up) ==
    /\ At(t, "clear active")
    /\ IF Found(call[t].email, up).status = Active THEN Goto(t, "clear") ELSE Succeed(t)
    /\ UNCHANGED <<users, hashes, guesses>>

Clear(t, up) ==
    LET e == call[t].email IN
    /\ At(t, "clear")
    /\ \/ /\ up
          /\ SetUser(e, Field("attempts", 0))
          /\ guesses' = [guesses EXCEPT ![e] = 0]
       \/ ~up /\ UNCHANGED <<users, guesses>>
    /\ Succeed(t)
    /\ UNCHANGED hashes

\* Mutant: the change also makes the account active, as the reset does.
ChangedFieldsActivate(c) == [password |-> c.new, status |-> Active, attempts |-> 0]

\* "change the password is not the way to unblock the account": no status here.
ChangedFields(c) == [password |-> c.new, status |-> Absent, attempts |-> 0]

ChangeWrite(t, up) ==
    LET c == call[t] IN
    /\ At(t, "change write")
    /\ \/ /\ up
          /\ SetUser(c.email, ChangedFields(c))
          /\ guesses' = [guesses EXCEPT ![c.email] = 0]
       \/ ~up /\ UNCHANGED <<users, guesses>>
    /\ Finish(t)
    /\ UNCHANGED hashes

\* attempts(email): -1, and an end without counting, unless the account is active.
FailActive(t, up) ==
    /\ At(t, "fail active")
    /\ IF Found(call[t].email, up).status = Active THEN Goto(t, "fail count") ELSE Finish(t)
    /\ UNCHANGED <<users, hashes, guesses>>

\* Mutant: one attempt more is allowed.
LocksOutLate(count) == count > MAX_LOGIN_ATTEMPTS

LocksOut(count) == count >= MAX_LOGIN_ATTEMPTS

FailCount(t, up) ==
    LET c == call[t]
        cnt == Found(c.email, up).attempts IN
    /\ At(t, "fail count")
    /\ IF cnt = Absent THEN Finish(t)
       ELSE Become(t, [Calling(c.op, IF LocksOut(cnt + 1) THEN "block read" ELSE "count active",
                               c.email, Absent, Absent) EXCEPT !.n =
                         IF LocksOut(cnt + 1) THEN 0 ELSE cnt + 1])
    /\ UNCHANGED <<users, hashes, guesses>>

----------------------------------------------------------------------------
(* attempts(email, count), block(email, flag), verify(hash), active(email, *)
(* flag): called from check and verify, and by themselves.                 *)

CountActive(t, up) ==
    /\ At(t, "count active")
    /\ IF Found(call[t].email, up).status = Active /\ call[t].n <= MAX_LOGIN_ATTEMPTS
       THEN Goto(t, "count write") ELSE Finish(t)
    /\ UNCHANGED <<users, hashes, guesses>>

CountWrite(t, up) ==
    LET c == call[t] IN
    /\ At(t, "count write")
    /\ \/ /\ up
          /\ SetUser(c.email, Field("attempts", c.n))
          /\ guesses' = IF c.op = "count" THEN [guesses EXCEPT ![c.email] = 0] ELSE guesses
       \/ ~up /\ UNCHANGED <<users, guesses>>
    /\ Finish(t)
    /\ UNCHANGED hashes

SetAttempts(t, e, count, up) ==
    /\ Ready(t)
    /\ Found(e, up).status = Active
    /\ Become(t, [Calling("count", "count write", e, Absent, Absent) EXCEPT !.n = count])
    /\ UNCHANGED <<users, hashes, guesses>>

BlockCall(t, e, flag) ==
    /\ Ready(t)
    /\ Become(t, Calling(IF flag THEN "block" ELSE "unblock", "block read", e, Absent, Absent))
    /\ UNCHANGED <<users, hashes, guesses>>

BlockRead(t, up) ==
    LET c == call[t] IN
    /\ At(t, "block read")
    /\ IF Found(c.email, up) = NoUser THEN Finish(t)
       ELSE Become(t, [Calling(c.op, "block write", c.email, Absent, Absent) EXCEPT
                         !.v = [users[c.email] EXCEPT !.status =
                                   IF c.op = "unblock" THEN Active ELSE Blocked]])
    /\ UNCHANGED <<users, hashes, guesses>>

BlockWrite(t, up) ==
    LET c == call[t] IN
    /\ At(t, "block write")
    /\ \/ /\ up /\ SetUser(c.email, c.v)
          /\ guesses' = IF c.op = "unblock" THEN [guesses EXCEPT ![c.email] = 0] ELSE guesses
       \/ ~up /\ UNCHANGED <<users, guesses>>
    /\ Finish(t)
    /\ UNCHANGED hashes

\* get("hashes", hash): a reset hash is as good as a verify hash.
VerifyHash(t, h) ==
    /\ Ready(t)
    /\ h \in hashes
    /\ Become(t, Calling("verify", "verify user", h[2], Absent, Absent))
    /\ UNCHANGED <<users, hashes, guesses>>

\* Mutant: the switch on the status has no case 1 and no default.
VerifiableAny(v) == TRUE

\* case 0 of the switch; case 1 only returns the email, the others "".
Verifiable(v) == v.status = New

VerifyUser(t, up) ==
    LET v == Found(call[t].email, up) IN
    /\ At(t, "verify user")
    /\ IF v # NoUser /\ Verifiable(v) THEN Goto(t, "activate") ELSE Finish(t)
    /\ UNCHANGED <<users, hashes, guesses>>

\* active(email, flag) writes the status without a look at the row.
SetStatus(t, flag, up) ==
    /\ IF up THEN SetUser(call[t].email, Field("status", IF flag THEN Active ELSE New))
       ELSE UNCHANGED users
    /\ Finish(t)
    /\ UNCHANGED hashes

Activate(t, up) == At(t, "activate") /\ SetStatus(t, TRUE, up) /\ UNCHANGED guesses

\* Nor does it ask whether there is one: a row that is missing is made.
ActiveCall(t, e, flag) ==
    /\ Ready(t)
    /\ Become(t, Calling(IF flag THEN "activate" ELSE "deactivate", "set active", e, Absent, Absent))
    /\ UNCHANGED <<users, hashes, guesses>>

SetActive(t, up) ==
    LET c == call[t] IN
    /\ At(t, "set active")
    /\ SetStatus(t, c.op = "activate", up)
    /\ guesses' = IF up THEN [guesses EXCEPT ![c.email] = 0] ELSE guesses

\* The process dies: what was between two driver calls is never finished.
Crash ==
    /\ CanCrash
    /\ call' = [t \in Threads |-> NoCall]
    /\ UNCHANGED <<users, hashes, guesses>>

----------------------------------------------------------------------------
Init ==
    /\ users = [e \in Emails |-> NoUser]
    /\ hashes = {}
    /\ call = [t \in Threads |-> NoCall]
    /\ guesses = [e \in Emails |-> 0]

Begin(t, e, up) ==
    \/ \E pw \in Passwords : CreateExists(t, e, pw, up)
    \/ ResetRead(t, e, up)
    \/ \E new \in Passwords : ForgotExists(t, e, new, up)
    \/ \E pw \in Passwords : CheckActive(t, "check", e, pw, Absent, up)
    \/ \E pw, new \in Passwords : CheckActive(t, "change", e, pw, new, up)
    \/ \E count \in 0..MAX_LOGIN_ATTEMPTS : SetAttempts(t, e, count, up)
    \/ \E flag \in BOOLEAN : BlockCall(t, e, flag) \/ ActiveCall(t, e, flag)

Continue(t, up) ==
    \/ CreateUser(t, up) \/ CreateHash(t, up)
    \/ ResetWrite(t, up) \/ ResetHash(t, up)
    \/ ForgotWrite(t, up)
    \/ CheckExists(t, up) \/ Authorize(t, up)
    \/ ClearActive(t, up) \/ Clear(t, up) \/ ChangeWrite(t, up)
    \/ FailActive(t, up) \/ FailCount(t, up)
    \/ CountActive(t, up) \/ CountWrite(t, up)
    \/ BlockRead(t, up) \/ BlockWrite(t, up)
    \/ VerifyUser(t, up) \/ Activate(t, up)
    \/ SetActive(t, up)

Next ==
    \/ \E t \in Threads, up \in Answers :
          (\E e \in Emails : Begin(t, e, up)) \/ Continue(t, up)
    \/ \E t \in Threads, h \in HashType : VerifyHash(t, h)
    \/ Crash

Spec == Init /\ [][Next]_vars
----------------------------------------------------------------------------
(* Properties.                                                             *)

CallType == [op : Ops, pc : Steps, email : Emails \cup {Absent},
             password : Passwords \cup {Absent}, new : Passwords \cup {Absent},
             v : Account \cup {NoUser}, n : 0..MAX_LOGIN_ATTEMPTS]

\* A row of "users" has a status, and a count of attempts as soon as it has a
\* password to guess at, in whatever order the calls of several threads store some
\* fields of it: active(email, flag) and attempts(email, count) one, a change of
\* password two, block() and reset() those that they read a few driver calls ago.
TypeOK ==
    /\ users \in [Emails -> Account \cup {NoUser}]
    /\ hashes \subseteq HashType
    /\ call \in [Threads -> CallType]
    /\ guesses \in [Emails -> 0..MAX_LOGIN_ATTEMPTS + 1]

\* check() lets at most MAX_LOGIN_ATTEMPTS wrong passwords be tried at an active
\* account between two restarts of its count (login, change, reset, unblock, a new
\* activation), however the counter and the block got there.  Not so when two
\* threads check at once: each counts from the value it read.
GuessesBounded == \A e \in Emails : guesses[e] <= MAX_LOGIN_ATTEMPTS

\* A blocked account leaves that state only through block(e, false), active(e, .)
\* or password(e, newpassword), never as a side effect of reset(), verify(),
\* check() or a change of password.  Not so with two threads: reset() and block()
\* write back a row they read before.
BlockedStaysBlocked ==
    [][\A e \in Emails :
          (users[e].status = Blocked /\ users'[e].status # Blocked) =>
              \E t \in Threads :
                  /\ call[t].email = e
                  /\ call'[t] # call[t]
                  /\ call[t].op \in {"forgot", "unblock", "activate", "deactivate"}]_vars

\* A password change is not the way to unblock the account (auth.cpp:274), and
\* neither is the check inside it, even if the account is blocked, reset or
\* deactivated by another thread between that check and the write.
ChangeNeverActivates ==
    [][\A t \in Threads, e \in Emails :
          (call[t].op = "change" /\ call'[t] # call[t] /\ users'[e].status = Active) =>
              users[e].status = Active]_vars

\* Every hash that create() or reset() handed out names an account, although the
\* two rows are written one after the other and either write may fail.
HashesNameAccounts == \A h \in hashes : users[h[2]] # NoUser

\* The call in progress, when there is one thread.
Doing ==
    IF \A t \in Threads : Ready(t) THEN [op |-> "none", email |-> Absent]
    ELSE LET t == CHOOSE t \in Threads : ~Ready(t) IN
         [op |-> call[t].op, email |-> call[t].email]

\* What the calls promise, each change a step that depends on nothing but the call
\* and the account as it is (see Accounts).  The service keeps the promise when one
\* thread is at work at a time and the driver answers.
Promise == INSTANCE Accounts WITH account <- users, doing <- Doing,
                                  None <- NoUser, Nobody <- Absent, Lagging <- FALSE
PromiseKept == Promise!Spec
=============================================================================
