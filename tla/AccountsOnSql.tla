--------------------------- MODULE AccountsOnSql ---------------------------
(***************************************************************************)
(* The accounts (AuthData) on the SQL driver (DataSql): each step of a     *)
(* call is the driver call that AuthData makes there, on the table "users" *)
(* and its cache frames, and what the call does with its result.  AuthData *)
(* by itself reads what was written; here active(email) and                *)
(* attempts(email) read the frames "e.status" and "e.attempts", which only *)
(* a write of that field refreshes, while create, reset, a new password    *)
(* and block write whole rows.                                             *)
(*                                                                         *)
(* users holds the accounts as AuthData's own calls have left them, row    *)
(* what the driver stored: that they agree is a property, and no driver    *)
(* call reads users.  The rows of "hashes" stay abstract: the driver calls *)
(* on them matter here only for storage_changed_, which is one flag for    *)
(* all storages.                                                           *)
(***************************************************************************)
EXTENDS Naturals, FiniteSets

CONSTANTS Threads, Emails, Passwords, Absent, MAX_LOGIN_ATTEMPTS, Answers,
          Root, Null, NoFrame, NoBatch

VARIABLES
    users, hashes, call, guesses,   \* AuthData
    created, row, rowsFrame, storageFrame, frame, storage_changed_, batch, ret

Store == "users"
Statuses == {0, 1, 2}
Fields == {"password", "status", "attempts"}

Auth == INSTANCE AuthData WITH CanCrash <- FALSE

\* A step of AuthData that reads: u is what the driver call found, whichever
\* account the step asked for.
Seeing(u) == INSTANCE AuthData WITH CanCrash <- FALSE, users <- [x \in Emails |-> u]

\* An undefined JSON value is a field the row does not have.
Sql == INSTANCE DataSql WITH
    Storages <- {Store}, Keys <- Emails,
    Fields <- Fields,
    Vals <- Passwords \cup Statuses \cup 0..MAX_LOGIN_ATTEMPTS,
    Blank <- Absent, MaxBatch <- 0

auth == <<users, hashes, call, guesses>>
vars == <<auth, created, row, rowsFrame, storageFrame, frame, storage_changed_, batch, ret>>

ASSUME AttemptsAssumption == MAX_LOGIN_ATTEMPTS \in Nat \ {0}
ASSUME AnswersAssumption == Answers \subseteq BOOLEAN
ASSUME RootAssumption == Root \notin Fields
ASSUME SentinelAssumption ==
    /\ Absent # Null /\ Absent # NoFrame /\ Null # NoFrame
    /\ \A x \in {Absent, Null, NoFrame} : x \notin Passwords /\ x \notin Nat /\ x \notin Sql!Row

----------------------------------------------------------------------------
(* Driver calls of AuthData.                                               *)

\* What user_data(email) and user_data(email, f) give get_user.
RowSeen(e, up) ==
    LET v == Sql!RootValue(Store, e, up) IN
    IF v = Absent THEN Auth!NoUser ELSE v
ReadRow(e, up) == Sql!GetRoot(Store, e, up, TRUE)

FieldSeen(e, f, up) ==
    LET v == IF Sql!Cached(Store, e, f) THEN frame[Store][e][f]
             ELSE IF Sql!Selected(Store, e, up) THEN Sql!Find(row[Store][e], f)
             ELSE Absent IN
    Auth!Field(f, v)
ReadField(e, f, up) ==
    \/ Sql!GetFieldCached(Store, e, f, TRUE)
    \/ Sql!GetFieldFromRow(Store, e, f, up)
    \/ Sql!GetFieldNothing(Store, e, f, up, TRUE)

\* set_user(email, v) and set_user(email, v, f).
WriteAt(e, p, val, up) ==
    \/ Sql!SetEqual(Store, e, p, val, up)
    \/ Sql!SetInsert(Store, e, p, val, up)
    \/ Sql!SetUpdate(Store, e, p, val, up)

----------------------------------------------------------------------------
(* The steps.  u is a value, so that "UNCHANGED users" of AuthData says    *)
(* nothing of it.                                                          *)

StartsOnRow(t, e, u) ==
    \/ \E pw \in Passwords : created[Store] /\ Seeing(u)!CreateExists(t, e, pw, TRUE)
    \/ Seeing(u)!ResetRead(t, e, TRUE)
    \/ \E new \in Passwords : Seeing(u)!ForgotExists(t, e, new, TRUE)

StartsOnStatus(t, e, u) ==
    \/ \E pw \in Passwords : Seeing(u)!CheckActive(t, "check", e, pw, Absent, TRUE)
    \/ \E pw, new \in Passwords : Seeing(u)!CheckActive(t, "change", e, pw, new, TRUE)
    \/ \E n \in 0..MAX_LOGIN_ATTEMPTS : Seeing(u)!SetAttempts(t, e, n, TRUE)

GoesOnRow(t, u) ==
    \/ Seeing(u)!CheckExists(t, TRUE)
    \/ Seeing(u)!Authorize(t, TRUE)
    \/ Seeing(u)!BlockRead(t, TRUE)
    \/ Seeing(u)!VerifyUser(t, TRUE)

GoesOnStatus(t, u) ==
    \/ Seeing(u)!ClearActive(t, TRUE)
    \/ Seeing(u)!FailActive(t, TRUE)
    \/ Seeing(u)!CountActive(t, TRUE)

Start(t, e, up) ==
    /\ Auth!Ready(t)
    /\ \/ \E u \in {RowSeen(e, up)} : StartsOnRow(t, e, u) /\ ReadRow(e, up)
       \/ \E u \in {FieldSeen(e, "status", up)} :
             StartsOnStatus(t, e, u) /\ ReadField(e, "status", up)
    /\ UNCHANGED users

Read(t, up) ==
    LET e == call[t].email IN
    /\ ~Auth!Ready(t)
    /\ \/ \E u \in {RowSeen(e, up)} : GoesOnRow(t, u) /\ ReadRow(e, up)
       \/ \E u \in {FieldSeen(e, "status", up)} :
             GoesOnStatus(t, u) /\ ReadField(e, "status", up)
       \/ \E u \in {FieldSeen(e, "attempts", up)} :
             Seeing(u)!FailCount(t, TRUE) /\ ReadField(e, "attempts", up)
    /\ UNCHANGED users

\* The fields that a call stores with set_user(email, v).
RowToStore(c) ==
    CASE c.pc = "create user" -> [password |-> c.password, status |-> Auth!New, attempts |-> 0]
      [] c.pc = "forgot write" -> [password |-> c.new, status |-> Auth!Active, attempts |-> 0]
      [] c.pc = "change write" -> Auth!ChangedFields(c)
      [] OTHER -> c.v

\* ok is what the driver answered.
AfterRowStored(t, ok) ==
    \/ Auth!CreateUser(t, ok)
    \/ Auth!ResetWrite(t, ok)
    \/ Auth!ForgotWrite(t, ok)
    \/ Auth!ChangeWrite(t, ok)
    \/ Auth!BlockWrite(t, ok)

AfterStatusStored(t, ok) == Auth!Activate(t, ok) \/ Auth!SetActive(t, ok)

AfterCountStored(t, ok) == Auth!Clear(t, ok) \/ Auth!CountWrite(t, ok)

Write(t, up) ==
    LET c == call[t] IN
    \/ /\ c.pc \in {"create user", "reset write", "forgot write", "change write", "block write"}
       /\ WriteAt(c.email, Root, RowToStore(c), up)
       /\ AfterRowStored(t, ret'.ok)
    \/ /\ c.pc \in {"activate", "set active"}
       /\ WriteAt(c.email, "status",
                  IF c.op \in {"verify", "activate"} THEN Auth!Active ELSE Auth!New, up)
       /\ AfterStatusStored(t, ret'.ok)
    \/ /\ c.pc \in {"clear", "count write"}
       /\ WriteAt(c.email, "attempts", IF c.pc = "clear" THEN 0 ELSE c.n, up)
       /\ AfterCountStored(t, ret'.ok)

\* The row of a new hash is inserted; a hash that is found was read from the
\* database, or from a frame while storage_changed_ was FALSE.
Hashes(t, up) ==
    /\ \/ /\ Auth!CreateHash(t, up) \/ Auth!ResetHash(t, up)
          /\ storage_changed_' = (storage_changed_ \/ up)
       \/ /\ up
          /\ \E h \in Auth!HashType : Auth!VerifyHash(t, h)
          /\ storage_changed_' = FALSE
    /\ UNCHANGED <<created, row, rowsFrame, storageFrame, frame, batch, ret>>

\* block(email, flag) and active(email, flag) begin without a driver call.
Enter(t, e) ==
    /\ \E flag \in BOOLEAN : Auth!BlockCall(t, e, flag) \/ Auth!ActiveCall(t, e, flag)
    /\ UNCHANGED <<created, row, rowsFrame, storageFrame, frame, storage_changed_, batch, ret>>

\* What other code does with the driver meanwhile: create() of the tables, the
\* calls of IAuth that only read, and the end of a frame's lifetime.
Elsewhere ==
    /\ \E up \in Answers :
          \/ Sql!Create(Store, up)
          \/ \E e \in Emails :
                \/ ReadRow(e, up)
                \/ \E f \in {"status", "attempts"} : ReadField(e, f, up)
    /\ UNCHANGED auth

Forget ==
    /\ Sql!Expire
    /\ UNCHANGED auth

\* The service is started again while no call is in progress.
Restart ==
    /\ \A t \in Threads : Auth!Ready(t)
    /\ Sql!Restart
    /\ UNCHANGED auth

Init == Auth!Init /\ Sql!Init

Next ==
    \/ \E t \in Threads, e \in Emails :
          (\E up \in Answers : Start(t, e, up)) \/ Enter(t, e)
    \/ \E t \in Threads, up \in Answers : Read(t, up) \/ Write(t, up) \/ Hashes(t, up)
    \/ Elsewhere
    \/ Forget
    \/ Restart

Spec == Init /\ [][Next]_vars
----------------------------------------------------------------------------
(* Properties.                                                             *)

\* The driver has stored what the calls of AuthData ask for when each set_user is
\* a merge of its fields into the row as it is, although the row it merges into
\* comes out of a cache that field writes, row writes, reads and expiries of
\* frames change in every order.
RowsAreAccounts ==
    \A e \in Emails :
        users[e] = IF row[Store][e] = Absent THEN Auth!NoUser ELSE row[Store][e]

\* The lockout holds although the count and the status it goes by are read from
\* frames that may be older than the row: between two restarts of its count an
\* account takes at most MAX_LOGIN_ATTEMPTS wrong passwords.
GuessesBounded == Auth!GuessesBounded

\* A login succeeds only while the stored account is active and with the password
\* it has now: authorize() reads the whole row, whose frame every write refreshes,
\* so a block, a deactivation or a new password is never missed.
LoginsAreCurrent ==
    [][\A t \in Threads :
          (call[t].pc = "authorize" /\ call'[t].pc = "clear active") =>
              Auth!Authorizes(row[Store][call[t].email], call[t].password)]_vars

\* A blocked account's row leaves that state only through a call meant for it,
\* although the status that check(), attempts() and active() go by may be an older
\* one, and although every write of a field or of some fields stores the whole row as
\* the cache has it: none brings an old status back.  One thread only: reset() and
\* block() write back the row they read.
BlockedStaysBlocked ==
    [][\A e \in Emails :
          (/\ row[Store][e] # Absent /\ row[Store][e].status = Auth!Blocked
           /\ row'[Store][e].status # Auth!Blocked) =>
              \E t \in Threads :
                  /\ call[t].email = e
                  /\ call'[t] # call[t]
                  /\ call[t].op \in {"forgot", "unblock", "activate", "deactivate"}]_vars

\* The account e as the database has it.
AccountAt(e) == IF row[Store][e] = Absent THEN Auth!NoUser ELSE row[Store][e]

\* The calls keep what they promise (see Accounts) on the rows that are stored, with
\* the one exception that the frames make: what check() counts or blocks may follow
\* an older status or count, and then it counts more or blocks early.  It never
\* counts less, and every other call is as it is without the cache.  One thread and a
\* driver that answers only.
Promise == INSTANCE Accounts WITH
    account <- [e \in Emails |-> AccountAt(e)], doing <- Auth!Doing,
    None <- Auth!NoUser, Nobody <- Absent, Lagging <- TRUE
PromiseKept == Promise!Spec
=============================================================================
