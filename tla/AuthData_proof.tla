--------------------------- MODULE AuthData_proof ---------------------------
(***************************************************************************)
(* Theorems about AuthData: what holds for any number of threads, accounts *)
(* and passwords with failing driver calls and crashes, and what needs one *)
(* thread and a driver that answers.                                       *)
(***************************************************************************)
EXTENDS AuthData, TLAPS

\* Which calls can be at which step.
Fits(c) ==
    /\ c.pc = "idle" => c.op = "none"
    /\ c.pc \in {"create user", "create hash"} => c.op = "create"
    /\ c.pc \in {"reset write", "reset hash"} => c.op = "reset"
    /\ c.pc = "forgot write" => c.op = "forgot"
    /\ c.pc \in {"exists", "authorize", "clear active", "clear", "fail active",
                 "fail count", "count active"} => c.op \in {"check", "change"}
    /\ c.pc = "change write" => c.op = "change"
    /\ c.pc = "count write" => c.op \in {"check", "change", "count"}
    /\ c.pc \in {"block read", "block write"} => c.op \in {"check", "change", "block", "unblock"}
    /\ c.pc \in {"verify user", "activate"} => c.op = "verify"
    /\ c.pc = "set active" => c.op \in {"activate", "deactivate"}

\* What a call in progress knows about the accounts u.
Knows(c, u) ==
    /\ c.pc # "idle" => c.email \in Emails
    /\ c.pc \notin {"idle", "create user", "block read", "set active"} => u[c.email] # NoUser
    /\ c.pc = "create user" => c.password \in Passwords
    /\ c.pc = "forgot write" => c.new \in Passwords
    /\ c.op = "change" /\ c.pc \in {"exists", "authorize", "clear active", "clear", "change write"}
          => c.new \in Passwords
    /\ c.pc \in {"reset write", "block write"} => c.v \in Account
    /\ c.pc = "block write" => c.v.status = IF c.op = "unblock" THEN Active ELSE Blocked

\* The inductive invariant: types, and what every call may rely on.
IInv ==
    /\ TypeOK
    /\ HashesNameAccounts
    /\ \A t \in Threads : Fits(call[t]) /\ Knows(call[t], users)
----------------------------------------------------------------------------
(* Rows.                                                                   *)

\* What is handed to set_user(): no password without a count of attempts.
PartialType == {v \in [password : Passwords \cup {Absent},
                       status : {New, Active, Blocked, Absent},
                       attempts : 0..MAX_LOGIN_ATTEMPTS \cup {Absent}] :
                   v.password # Absent => v.attempts # Absent}

\* What may be handed to it for the account e: a status, if there is no row yet.
Storable(e, v) == v \in PartialType /\ (v.status # Absent \/ users[e] # NoUser)

\* The marker of a missing row is not a row.
LEMMA NoUserIsNoAccount == NoUser \notin Account
BY AbsentAssumption DEF NoUser, Account, New, Active, Blocked

\* set_user() with a status, or over a row, gives a row; a password in it comes
\* with the count, and the two with a status replace the row.
LEMMA MergeGivesAccount ==
    /\ \A old \in Account \cup {NoUser}, v \in PartialType :
          /\ v.status # Absent \/ old # NoUser => Merge(old, v) \in Account
          /\ v.status = Absent => Merge(old, v).status = old.status
          /\ v.status # Absent => Merge(old, v).status = v.status
    /\ \A old \in Account \cup {NoUser}, v \in Account :
          v.password # Absent => Merge(old, v) = v
    /\ \A v \in Account : v \in PartialType /\ v.status # Absent
<1>1. ASSUME NEW old \in Account \cup {NoUser}, NEW v \in PartialType
      PROVE  /\ v.status # Absent \/ old # NoUser => Merge(old, v) \in Account
             /\ v.status = Absent => Merge(old, v).status = old.status
             /\ v.status # Absent => Merge(old, v).status = v.status
  <2>1. /\ v.status = Absent => Merge(old, v).status = old.status
        /\ v.status # Absent => Merge(old, v).status = v.status
    BY DEF Merge
  <2>2. ASSUME v.status # Absent \/ old # NoUser
        PROVE  Merge(old, v) \in Account
    <3>1. CASE old \in Account
      BY <3>1, AbsentAssumption DEF Merge, Account, PartialType
    <3>2. CASE old = NoUser
      BY <2>2, <3>2, AbsentAssumption DEF Merge, Account, PartialType, NoUser
    <3> QED
      BY <3>1, <3>2
  <2> QED
    BY <2>1, <2>2
<1>2. ASSUME NEW old \in Account \cup {NoUser}, NEW v \in Account, v.password # Absent
      PROVE  Merge(old, v) = v
  BY <1>2, AbsentAssumption DEF Merge, Account, New, Active, Blocked
<1>3. ASSUME NEW v \in Account
      PROVE  v \in PartialType /\ v.status # Absent
  BY AbsentAssumption DEF Account, PartialType, New, Active, Blocked
<1> QED
  BY <1>1, <1>2, <1>3

\* What a successful set_user() does to the accounts.
LEMMA SetUserEffect ==
    ASSUME TypeOK, NEW e \in Emails, NEW v, SetUser(e, v),
           v \in Account \/ Storable(e, v)
    PROVE  /\ users' \in [Emails -> Account \cup {NoUser}]
           /\ users'[e] = Merge(users[e], v) /\ users'[e] \in Account
           /\ \A x \in Emails : x # e => users'[x] = users[x]
           /\ \A x \in Emails : users[x] # NoUser => users'[x] # NoUser
<1>1. users \in [Emails -> Account \cup {NoUser}]
  BY DEF TypeOK
<1>2. Merge(users[e], v) \in Account
  BY <1>1, MergeGivesAccount DEF Storable
<1>3. users' = [users EXCEPT ![e] = Merge(users[e], v)]
  BY <1>1 DEF SetUser
<1> QED
  BY <1>1, <1>2, <1>3, NoUserIsNoAccount

\* The field sets that the calls store.
LEMMA StoredFields ==
    /\ \A pw \in Passwords, s \in {New, Active, Blocked}, n \in 0..MAX_LOGIN_ATTEMPTS :
          [password |-> pw, status |-> s, attempts |-> n] \in Account
    /\ \A pw \in Passwords :
          [password |-> pw, status |-> Absent, attempts |-> 0] \in PartialType
    /\ \A n \in 0..MAX_LOGIN_ATTEMPTS : /\ Field("attempts", n) \in PartialType
                                       /\ Field("attempts", n).status = Absent
    /\ \A s \in {New, Active, Blocked} : /\ Field("status", s) \in PartialType
                                         /\ Field("status", s).status = s /\ s # Absent
BY AttemptsAssumption, AbsentAssumption
   DEF Account, PartialType, Field, NoUser, New, Active, Blocked

----------------------------------------------------------------------------
(* Calls.                                                                  *)

\* A step of one call that keeps accounts in existence keeps the invariant, if it
\* leaves the call itself in order.
LEMMA CallStep ==
    ASSUME IInv, NEW t \in Threads, NEW c \in CallType, Fits(c), Knows(c, users'),
           Become(t, c),
           users' \in [Emails -> Account \cup {NoUser}],
           \A x \in Emails : users[x] # NoUser => users'[x] # NoUser,
           hashes' \subseteq HashType, HashesNameAccounts',
           guesses' \in [Emails -> 0..MAX_LOGIN_ATTEMPTS + 1]
    PROVE  IInv'
<1>1. call \in [Threads -> CallType] /\ call' = [call EXCEPT ![t] = c]
  BY DEF IInv, TypeOK, Become
<1>2. TypeOK'
  BY <1>1 DEF TypeOK
<1>3. ASSUME NEW x \in Threads
      PROVE  Fits(call'[x]) /\ Knows(call'[x], users')
  <2>1. CASE x = t
    BY <2>1, <1>1
  <2>2. CASE x # t
    <3>1. call'[x] = call[x] /\ call[x] \in CallType /\ Fits(call[x]) /\ Knows(call[x], users)
      BY <2>2, <1>1 DEF IInv
    <3>2. Knows(call[x], users')
      BY <3>1 DEF Knows
    <3> QED
      BY <3>1, <3>2
  <2> QED
    BY <2>1, <2>2
<1> QED
  BY <1>2, <1>3 DEF IInv

\* The same for a step that leaves rows, hashes and the history alone.
LEMMA QuietStep ==
    ASSUME IInv, NEW t \in Threads, NEW c \in CallType, Fits(c), Knows(c, users),
           Become(t, c), UNCHANGED <<users, hashes>>,
           guesses' \in [Emails -> 0..MAX_LOGIN_ATTEMPTS + 1]
    PROVE  IInv'
<1>1. /\ users' = users /\ hashes' = hashes
      /\ users \in [Emails -> Account \cup {NoUser}]
      /\ hashes \subseteq HashType /\ HashesNameAccounts
  BY DEF IInv, TypeOK
<1>2. HashesNameAccounts'
  BY <1>1 DEF HashesNameAccounts
<1> QED
  BY <1>1, <1>2, CallStep

\* The same for a successful set_user().
LEMMA WriteStep ==
    ASSUME IInv, NEW t \in Threads, NEW c \in CallType, Fits(c), Become(t, c),
           NEW e \in Emails, NEW v, SetUser(e, v),
           v \in Account \/ Storable(e, v),
           c = NoCall \/ (c.pc \in {"create hash", "reset hash", "change write"}
                         /\ c.email = e /\ (c.op = "change" => c.new \in Passwords)),
           UNCHANGED hashes,
           guesses' \in [Emails -> 0..MAX_LOGIN_ATTEMPTS + 1]
    PROVE  IInv'
<1>1. /\ hashes' = hashes /\ hashes \subseteq HashType /\ HashesNameAccounts /\ TypeOK
  BY DEF IInv, TypeOK
<1>2. /\ users' \in [Emails -> Account \cup {NoUser}]
      /\ \A x \in Emails : users[x] # NoUser => users'[x] # NoUser
      /\ users'[e] # NoUser
  BY <1>1, SetUserEffect, NoUserIsNoAccount
<1>3. HashesNameAccounts'
  BY <1>1, <1>2 DEF HashesNameAccounts, HashType
<1>4. Knows(c, users')
  <2>1. CASE c = NoCall
    BY <2>1 DEF Knows, NoCall, Calling
  <2>2. CASE c # NoCall
    <3>1. /\ c.pc \in {"create hash", "reset hash", "change write"}
          /\ c.email = e /\ (c.op = "change" => c.new \in Passwords)
      BY <2>2
    <3> QED
      BY <3>1, <1>2 DEF Knows
  <2> QED
    BY <2>1, <2>2
<1> QED
  BY <1>1, <1>2, <1>3, <1>4, CallStep

LEMMA IdleCall == NoCall \in CallType /\ Fits(NoCall) /\ \A u : Knows(NoCall, u)
BY AttemptsAssumption DEF NoCall, Calling, CallType, Ops, Steps, Fits, Knows

\* Ending a call without a write.
LEMMA FinishStep ==
    ASSUME IInv, NEW t \in Threads, Finish(t), UNCHANGED <<users, hashes, guesses>>
    PROVE  IInv'
BY QuietStep, IdleCall DEF Finish, IInv, TypeOK

\* The records of the calls.
LEMMA Names ==
    /\ "none" \in Ops
    /\ "create" \in Ops
    /\ "reset" \in Ops
    /\ "forgot" \in Ops
    /\ "check" \in Ops
    /\ "change" \in Ops
    /\ "block" \in Ops
    /\ "unblock" \in Ops
    /\ "verify" \in Ops
    /\ "activate" \in Ops
    /\ "deactivate" \in Ops
    /\ "count" \in Ops
    /\ "idle" \in Steps
    /\ "create user" \in Steps
    /\ "create hash" \in Steps
    /\ "reset write" \in Steps
    /\ "reset hash" \in Steps
    /\ "forgot write" \in Steps
    /\ "exists" \in Steps
    /\ "authorize" \in Steps
    /\ "clear active" \in Steps
    /\ "clear" \in Steps
    /\ "change write" \in Steps
    /\ "fail active" \in Steps
    /\ "fail count" \in Steps
    /\ "count active" \in Steps
    /\ "count write" \in Steps
    /\ "block read" \in Steps
    /\ "block write" \in Steps
    /\ "verify user" \in Steps
    /\ "activate" \in Steps
    /\ "set active" \in Steps
BY DEF Ops, Steps

LEMMA CallingTyped ==
    ASSUME NEW op \in Ops, NEW pc \in Steps, NEW e \in Emails,
           NEW pw \in Passwords \cup {Absent}, NEW new \in Passwords \cup {Absent}
    PROVE  Calling(op, pc, e, pw, new) \in CallType
BY AttemptsAssumption DEF Calling, CallType

LEMMA ChangedCallTyped ==
    ASSUME NEW c \in CallType
    PROVE  /\ \A pc \in Steps : [c EXCEPT !.pc = pc] \in CallType
           /\ \A v \in Account \cup {NoUser} : [c EXCEPT !.v = v] \in CallType
           /\ \A n \in 0..MAX_LOGIN_ATTEMPTS : [c EXCEPT !.n = n] \in CallType
BY DEF CallType

\* A row that was found is the row, and one found active is active.
LEMMA FoundIs ==
    ASSUME TypeOK, NEW e \in Emails, NEW up
    PROVE  /\ Found(e, up) # NoUser => Found(e, up) = users[e] /\ users[e] \in Account
           /\ Found(e, up).status = Active => /\ Found(e, up) = users[e]
                                             /\ users[e] \in Account /\ users[e] # NoUser
<1>1. users[e] \in Account \cup {NoUser}
  BY DEF TypeOK
<1>2. NoUser.status # Active
  BY AbsentAssumption DEF NoUser, Active
<1> QED
  BY <1>1, <1>2, NoUserIsNoAccount DEF Found

\* The history stays in its range.
LEMMA GuessesTyped ==
    ASSUME TypeOK, NEW e \in Emails
    PROVE  /\ guesses \in [Emails -> 0..MAX_LOGIN_ATTEMPTS + 1]
           /\ [guesses EXCEPT ![e] = 0] \in [Emails -> 0..MAX_LOGIN_ATTEMPTS + 1]
BY AttemptsAssumption DEF TypeOK

\* A call in progress, with all that the invariant says of it.
LEMMA InProgress ==
    ASSUME IInv, NEW t \in Threads
    PROVE  TypeOK /\ call[t] \in CallType /\ Fits(call[t]) /\ Knows(call[t], users)
BY DEF IInv, TypeOK

----------------------------------------------------------------------------
(* Every operation preserves the invariant.                                *)

LEMMA BeginInv ==
    ASSUME IInv, NEW t \in Threads, NEW e \in Emails, NEW up \in Answers, Begin(t, e, up)
    PROVE  IInv'
<1>0. /\ TypeOK /\ users[e] \in Account \cup {NoUser}
      /\ guesses \in [Emails -> 0..MAX_LOGIN_ATTEMPTS + 1]
  BY InProgress DEF TypeOK
<1>1. ASSUME NEW pw \in Passwords, CreateExists(t, e, pw, up)
      PROVE  IInv'
  <2> DEFINE c == Calling("create", "create user", e, pw, Absent)
  <2>1. c \in CallType /\ Fits(c) /\ Knows(c, users)
    <3>1. c \in CallType
      BY Names, CallingTyped, ChangedCallTyped
    <3>1a. c.op = "create" /\ c.pc = "create user" /\ c.email = e /\ c.password = pw
      BY DEF Calling
    <3> HIDE DEF c
    <3>2. Fits(c)
      BY <3>1a DEF Fits
    <3>3. Knows(c, users)
      BY <3>1a DEF Knows
    <3> QED
      BY <3>1, <3>2, <3>3
  <2>2. Become(t, c) /\ UNCHANGED <<users, hashes, guesses>>
    BY <1>1 DEF CreateExists
  <2> QED
    BY <1>0, <2>1, <2>2, QuietStep
<1>2. ASSUME ResetRead(t, e, up)
      PROVE  IInv'
  <2> DEFINE c == [Calling("reset", "reset write", e, Absent, Absent) EXCEPT !.v = users[e]]
  <2>1. users[e] \in Account /\ users[e] # NoUser
    BY <1>0, <1>2, FoundIs, NoUserIsNoAccount DEF ResetRead
  <2>2. c \in CallType /\ Fits(c) /\ Knows(c, users)
    <3>1. c \in CallType
      BY <2>1, Names, CallingTyped, ChangedCallTyped
    <3>1a. c.op = "reset" /\ c.pc = "reset write" /\ c.email = e /\ c.v = users[e]
      BY DEF Calling
    <3> HIDE DEF c
    <3>2. Fits(c)
      BY <3>1a DEF Fits
    <3>3. Knows(c, users)
      BY <2>1, <3>1a DEF Knows
    <3> QED
      BY <3>1, <3>2, <3>3
  <2>3. Become(t, c) /\ UNCHANGED <<users, hashes, guesses>>
    BY <1>2 DEF ResetRead
  <2> QED
    BY <1>0, <2>2, <2>3, QuietStep
<1>3. ASSUME NEW new \in Passwords, ForgotExists(t, e, new, up)
      PROVE  IInv'
  <2> DEFINE c == Calling("forgot", "forgot write", e, Absent, new)
  <2>1. users[e] # NoUser
    BY <1>0, <1>3, FoundIs, NoUserIsNoAccount DEF ForgotExists
  <2>2. c \in CallType /\ Fits(c) /\ Knows(c, users)
    <3>1. c \in CallType
      BY Names, CallingTyped, ChangedCallTyped
    <3>1a. c.op = "forgot" /\ c.pc = "forgot write" /\ c.email = e /\ c.new = new
      BY DEF Calling
    <3> HIDE DEF c
    <3>2. Fits(c)
      BY <3>1a DEF Fits
    <3>3. Knows(c, users)
      BY <2>1, <3>1a DEF Knows
    <3> QED
      BY <3>1, <3>2, <3>3
  <2>3. Become(t, c) /\ UNCHANGED <<users, hashes, guesses>>
    BY <1>3 DEF ForgotExists
  <2> QED
    BY <1>0, <2>2, <2>3, QuietStep
<1>4. ASSUME NEW op \in {"check", "change"}, NEW pw \in Passwords, NEW new \in Passwords \cup {Absent},
             op = "change" => new \in Passwords, CheckActive(t, op, e, pw, new, up)
      PROVE  IInv'
  <2> DEFINE c == Calling(op, "exists", e, pw, new)
  <2>1. users[e] # NoUser
    BY <1>0, <1>4, FoundIs DEF CheckActive
  <2>3. c \in CallType /\ Fits(c) /\ Knows(c, users)
    <3>1. c \in CallType
      BY <1>4, <2>1, Names, CallingTyped, ChangedCallTyped
    <3>1a. c.op = op /\ c.pc = "exists" /\ c.email = e /\ c.new = new
      BY <1>4 DEF Calling
    <3> HIDE DEF c
    <3>2. Fits(c)
      BY <1>4, <3>1a DEF Fits
    <3>3. Knows(c, users)
      BY <1>4, <2>1, <3>1a DEF Knows
    <3> QED
      BY <3>1, <3>2, <3>3
  <2>4. Become(t, c) /\ UNCHANGED <<users, hashes, guesses>>
    BY <1>4 DEF CheckActive
  <2> QED
    BY <1>0, <2>3, <2>4, QuietStep
<1>5. ASSUME NEW count \in 0..MAX_LOGIN_ATTEMPTS, SetAttempts(t, e, count, up)
      PROVE  IInv'
  <2> DEFINE c == [Calling("count", "count write", e, Absent, Absent) EXCEPT !.n = count]
  <2>1. users[e] # NoUser
    BY <1>0, <1>5, FoundIs DEF SetAttempts
  <2>2. c \in CallType /\ Fits(c) /\ Knows(c, users)
    <3>1. c \in CallType
      BY Names, CallingTyped, ChangedCallTyped
    <3>1a. c.op = "count" /\ c.pc = "count write" /\ c.email = e
      BY DEF Calling
    <3> HIDE DEF c
    <3>2. Fits(c)
      BY <3>1a DEF Fits
    <3>3. Knows(c, users)
      BY <2>1, <3>1a DEF Knows
    <3> QED
      BY <3>1, <3>2, <3>3
  <2>3. Become(t, c) /\ UNCHANGED <<users, hashes, guesses>>
    BY <1>5 DEF SetAttempts
  <2> QED
    BY <1>0, <2>2, <2>3, QuietStep
<1>6. ASSUME NEW flag \in BOOLEAN, BlockCall(t, e, flag)
      PROVE  IInv'
  <2> DEFINE c == Calling(IF flag THEN "block" ELSE "unblock", "block read", e, Absent, Absent)
  <2>1. c \in CallType /\ Fits(c) /\ Knows(c, users)
    <3>1. c \in CallType
      BY Names, CallingTyped, ChangedCallTyped
    <3>1a. c.op \in {"block", "unblock"} /\ c.pc = "block read" /\ c.email = e
      BY DEF Calling
    <3> HIDE DEF c
    <3>2. Fits(c)
      BY <3>1a DEF Fits
    <3>3. Knows(c, users)
      BY <3>1a DEF Knows
    <3> QED
      BY <3>1, <3>2, <3>3
  <2>2. Become(t, c) /\ UNCHANGED <<users, hashes, guesses>>
    BY <1>6 DEF BlockCall
  <2> QED
    BY <1>0, <2>1, <2>2, QuietStep
<1>7. ASSUME NEW flag \in BOOLEAN, ActiveCall(t, e, flag)
      PROVE  IInv'
  <2> DEFINE c == Calling(IF flag THEN "activate" ELSE "deactivate", "set active", e, Absent, Absent)
  <2>2. c \in CallType /\ Fits(c) /\ Knows(c, users)
    <3>1. c \in CallType
      BY Names, CallingTyped, ChangedCallTyped
    <3>1a. c.op \in {"activate", "deactivate"} /\ c.pc = "set active" /\ c.email = e
      BY DEF Calling
    <3> HIDE DEF c
    <3>2. Fits(c)
      BY <3>1a DEF Fits
    <3>3. Knows(c, users)
      BY <3>1a DEF Knows
    <3> QED
      BY <3>1, <3>2, <3>3
  <2>3. Become(t, c) /\ UNCHANGED <<users, hashes, guesses>>
    BY <1>7 DEF ActiveCall
  <2> QED
    BY <1>0, <2>2, <2>3, QuietStep
<1> QED
  BY <1>1, <1>2, <1>3, <1>4, <1>5, <1>6, <1>7 DEF Begin

\* A call that goes on to another step without a write: what it must satisfy there.
LEMMA GotoStep ==
    ASSUME IInv, NEW t \in Threads, NEW pc \in Steps, Goto(t, pc), UNCHANGED <<users, hashes>>,
           guesses' \in [Emails -> 0..MAX_LOGIN_ATTEMPTS + 1],
           ~Ready(t),
           \/ pc \in {"fail active", "fail count"} /\ call[t].op \in {"check", "change"}
           \/ /\ call[t].op \in {"check", "change"}
              /\ call[t].op = "change" => call[t].new \in Passwords
              /\ \/ pc \in {"authorize", "clear active", "clear"}
                 \/ pc = "change write" /\ call[t].op = "change"
           \/ pc = "count write" /\ call[t].op \in {"check", "change", "count"}
           \/ pc = "activate" /\ call[t].op = "verify",
           users[call[t].email] # NoUser
    PROVE  IInv'
<1> DEFINE c == [call[t] EXCEPT !.pc = pc]
<1>1. call[t] \in CallType /\ call[t].email \in Emails
  BY InProgress DEF Knows, Ready
<1>2. c \in CallType
  BY <1>1, ChangedCallTyped
<1>3. c.pc = pc /\ c.op = call[t].op /\ c.email = call[t].email /\ c.new = call[t].new
  BY <1>1 DEF CallType
<1>4. Become(t, c)
  BY <1>1 DEF Goto, Become, IInv, TypeOK
<1> HIDE DEF c
<1>5. Fits(c)
  BY <1>3 DEF Fits
<1>6. Knows(c, users)
  BY <1>1, <1>3 DEF Knows
<1> QED
  BY <1>2, <1>4, <1>5, <1>6, QuietStep

\* A call that changes one row and ends.
LEMMA WriteAndFinish ==
    ASSUME IInv, NEW t \in Threads, Finish(t), NEW e \in Emails, NEW v, SetUser(e, v),
           v \in Account \/ Storable(e, v),
           UNCHANGED hashes, guesses' \in {guesses, [guesses EXCEPT ![e] = 0]}
    PROVE  IInv'
<1>1. guesses' \in [Emails -> 0..MAX_LOGIN_ATTEMPTS + 1]
  BY InProgress, GuessesTyped
<1> QED
  BY <1>1, WriteStep, IdleCall DEF Finish

LEMMA CreateUserInv ==
    ASSUME IInv, NEW t \in Threads, NEW up, CreateUser(t, up)
    PROVE  IInv'
<1> DEFINE c == call[t]
           d == Calling("create", "create hash", c.email, c.password, Absent)
<1>1. /\ c \in CallType /\ c.email \in Emails /\ c.password \in Passwords
      /\ c.op = "create" /\ c.pc = "create user"
  BY InProgress DEF CreateUser, At, Fits, Knows
<1>2. CASE ~up
  BY <1>2, FinishStep DEF CreateUser
<1>3. CASE up
  <2> DEFINE n == [c EXCEPT !.pc = "create hash"]
  <2>1. SetUser(c.email, [password |-> c.password, status |-> New, attempts |-> 0])
    BY <1>3 DEF CreateUser
  <2>2. [password |-> c.password, status |-> New, attempts |-> 0] \in Account
    <3>1. 0 \in 0..MAX_LOGIN_ATTEMPTS /\ New \in {New, Active, Blocked}
      BY AttemptsAssumption
    <3> QED
      BY <1>1, <3>1, StoredFields
  <2>3. Become(t, n)
    BY <1>3 DEF CreateUser, Goto, Become
  <2>4. n \in CallType
    BY <1>1, Names, ChangedCallTyped
  <2>5. n.pc = "create hash" /\ n.op = "create" /\ n.email = c.email
    BY <1>1 DEF CallType
  <2>6. UNCHANGED hashes /\ guesses' = [guesses EXCEPT ![c.email] = 0]
    BY <1>3 DEF CreateUser
  <2>7. guesses' \in [Emails -> 0..MAX_LOGIN_ATTEMPTS + 1]
    BY <1>1, <2>6, InProgress, GuessesTyped
  <2> HIDE DEF n, c
  <2>8. Fits(n)
    BY <2>5 DEF Fits
  <2> QED
    BY <1>1, <2>1, <2>2, <2>3, <2>4, <2>5, <2>6, <2>7, <2>8, WriteStep
<1> QED
  BY <1>2, <1>3

\* The second write of create() and reset().
LEMMA SaveHashInv ==
    ASSUME IInv, NEW t \in Threads, NEW up, NEW kind \in {"verify", "reset"},
           At(t, "create hash") \/ At(t, "reset hash"), SaveHash(t, kind, up)
    PROVE  IInv'
<1>1. call[t].email \in Emails /\ users[call[t].email] # NoUser
  BY InProgress DEF At, Knows
<1>2. hashes' \subseteq HashType /\ hashes' \subseteq hashes \cup {<<kind, call[t].email>>}
  <2>1. hashes \subseteq HashType
    BY DEF IInv, TypeOK
  <2>2. <<kind, call[t].email>> \in HashType
    BY <1>1 DEF HashType
  <2>3. hashes' = hashes \/ hashes' = hashes \cup {<<kind, call[t].email>>}
    BY DEF SaveHash
  <2> QED
    BY <2>1, <2>2, <2>3
<1>3. UNCHANGED <<users, guesses>> /\ Become(t, NoCall)
  BY DEF SaveHash, Finish
<1>4. HashesNameAccounts'
  <2>1. ASSUME NEW h \in hashes'
        PROVE  users[h[2]] # NoUser
    <3>1. h \in hashes \/ h = <<kind, call[t].email>>
      BY <1>2
    <3>2. \A g \in hashes : users[g[2]] # NoUser
      BY DEF IInv, HashesNameAccounts
    <3>3. CASE h \in hashes
      BY <3>2, <3>3
    <3>4. CASE h = <<kind, call[t].email>>
      <4>1. h[2] = call[t].email
        BY <3>4
      <4> QED
        BY <4>1, <1>1
    <3> QED
      BY <3>1, <3>3, <3>4
  <2> QED
    BY <2>1, <1>3 DEF HashesNameAccounts
<1>5. /\ users' \in [Emails -> Account \cup {NoUser}]
      /\ guesses' \in [Emails -> 0..MAX_LOGIN_ATTEMPTS + 1]
      /\ \A x \in Emails : users[x] # NoUser => users'[x] # NoUser
  BY <1>3 DEF IInv, TypeOK
<1> QED
  BY <1>2, <1>3, <1>4, <1>5, IdleCall, CallStep

LEMMA ResetWriteInv ==
    ASSUME IInv, NEW t \in Threads, NEW up, ResetWrite(t, up)
    PROVE  IInv'
<1> DEFINE c == call[t]
           n == Calling("reset", "reset hash", c.email, Absent, Absent)
<1>1. c.email \in Emails /\ c.v \in Account
  BY InProgress DEF ResetWrite, At, Knows
<1>2. CASE ~up
  BY <1>2, FinishStep DEF ResetWrite
<1>3. CASE up
  <2>1. SetUser(c.email, c.v) /\ Become(t, n) /\ UNCHANGED <<hashes, guesses>>
    BY <1>3 DEF ResetWrite
  <2>2. n \in CallType
    BY <1>1, Names, CallingTyped
  <2>3. n.pc = "reset hash" /\ n.op = "reset" /\ n.email = c.email
    BY DEF Calling
  <2>4. guesses' \in [Emails -> 0..MAX_LOGIN_ATTEMPTS + 1]
    BY <2>1 DEF IInv, TypeOK
  <2> HIDE DEF n, c
  <2>5. Fits(n)
    BY <2>3 DEF Fits
  <2> QED
    BY <1>1, <2>1, <2>2, <2>3, <2>4, <2>5, WriteStep
<1> QED
  BY <1>2, <1>3

LEMMA ForgotWriteInv ==
    ASSUME IInv, NEW t \in Threads, NEW up, ForgotWrite(t, up)
    PROVE  IInv'
<1> DEFINE c == call[t]
           v == [password |-> c.new, status |-> Active, attempts |-> 0]
<1>1. c.email \in Emails /\ c.new \in Passwords
  BY InProgress DEF ForgotWrite, At, Knows
<1>2. v \in Account
  BY <1>1, AttemptsAssumption, StoredFields
<1>3. Finish(t) /\ UNCHANGED hashes
  BY DEF ForgotWrite
<1>4. CASE ~up
  BY <1>4, FinishStep DEF ForgotWrite
<1>5. CASE up
  <2>1. SetUser(c.email, v) /\ guesses' = [guesses EXCEPT ![c.email] = 0]
    BY <1>5 DEF ForgotWrite
  <2> HIDE DEF v, c
  <2> QED
    BY <1>1, <1>2, <1>3, <2>1, WriteAndFinish
<1> QED
  BY <1>4, <1>5

\* What the steps of check() start from.
LEMMA Checking ==
    ASSUME IInv, NEW t \in Threads,
           call[t].pc \in {"exists", "authorize", "clear active", "clear", "fail active",
                           "fail count", "count active"}
    PROVE  /\ call[t].email \in Emails /\ users[call[t].email] # NoUser /\ ~Ready(t)
           /\ call[t].op \in {"check", "change"}
           /\ call[t].op = "change" /\ call[t].pc \in {"exists", "authorize", "clear active", "clear"}
                 => call[t].new \in Passwords
BY InProgress DEF Ready, Fits, Knows

LEMMA CheckExistsInv ==
    ASSUME IInv, NEW t \in Threads, NEW up, CheckExists(t, up)
    PROVE  IInv'
<1>1. \/ Goto(t, "authorize")
      \/ Goto(t, "fail active")
  BY DEF CheckExists
<1>2. /\ UNCHANGED <<users, hashes>> /\ call[t].pc = "exists"
      /\ guesses' \in [Emails -> 0..MAX_LOGIN_ATTEMPTS + 1]
  BY InProgress DEF CheckExists, At, TypeOK
<1> QED
  BY <1>1, <1>2, Checking, Names, GotoStep

LEMMA AuthorizeInv ==
    ASSUME IInv, NEW t \in Threads, NEW up, Authorize(t, up)
    PROVE  IInv'
<1>1. \/ Goto(t, "clear active")
      \/ Goto(t, "fail active")
  BY DEF Authorize
<1>2. UNCHANGED <<users, hashes>> /\ call[t].pc = "authorize"
  BY DEF Authorize, At
<1>3. guesses' \in [Emails -> 0..MAX_LOGIN_ATTEMPTS + 1]
  <2>1. guesses \in [Emails -> 0..MAX_LOGIN_ATTEMPTS + 1]
    BY InProgress DEF TypeOK
  <2>2. ASSUME NEW e \in Emails, guesses[e] <= MAX_LOGIN_ATTEMPTS
        PROVE  guesses[e] + 1 \in 0..MAX_LOGIN_ATTEMPTS + 1
    BY <2>1, <2>2, AttemptsAssumption
  <2>3. \/ guesses' = guesses
        \/ \E e \in Emails : /\ guesses[e] <= MAX_LOGIN_ATTEMPTS
                              /\ guesses' = [guesses EXCEPT ![e] = guesses[e] + 1]
    <3> DEFINE e == call[t].email
    <3>1. e \in Emails
      BY <1>2, Checking
    <3>2. \/ guesses' = [guesses EXCEPT ![e] = guesses[e]]
          \/ /\ guesses[e] <= MAX_LOGIN_ATTEMPTS
             /\ guesses' = [guesses EXCEPT ![e] = guesses[e] + 1]
      BY DEF Authorize
    <3> QED
      BY <2>1, <3>1, <3>2
  <2> QED
    BY <2>1, <2>2, <2>3
<1> QED
  BY <1>1, <1>2, <1>3, Checking, Names, GotoStep

LEMMA ClearActiveInv ==
    ASSUME IInv, NEW t \in Threads, NEW up, ClearActive(t, up)
    PROVE  IInv'
<1>1. /\ UNCHANGED <<users, hashes, guesses>> /\ call[t].pc = "clear active"
      /\ guesses' \in [Emails -> 0..MAX_LOGIN_ATTEMPTS + 1]
  BY InProgress DEF ClearActive, At, TypeOK
<1>2. CASE Goto(t, "clear")
  BY <1>1, <1>2, Checking, Names, GotoStep
<1>3. CASE call[t].op = "change" /\ Goto(t, "change write")
  BY <1>1, <1>3, Checking, Names, GotoStep
<1>4. CASE Finish(t)
  BY <1>1, <1>4, FinishStep
<1> QED
  BY <1>2, <1>3, <1>4 DEF ClearActive, Succeed

LEMMA ClearInv ==
    ASSUME IInv, NEW t \in Threads, NEW up, Clear(t, up)
    PROVE  IInv'
<1> DEFINE c == call[t]
           n == [c EXCEPT !.pc = "change write"]
           v == Field("attempts", 0)
<1>1. /\ UNCHANGED hashes /\ c.pc = "clear" /\ Succeed(t)
      /\ c.email \in Emails /\ users[c.email] # NoUser
      /\ c \in CallType /\ (c.op = "change" => c.new \in Passwords)
  BY Checking, InProgress DEF Clear, At
<1>2. v \in PartialType
  BY AttemptsAssumption, StoredFields
<1>3. CASE ~up
  <2>1. UNCHANGED <<users, guesses>> /\ guesses' \in [Emails -> 0..MAX_LOGIN_ATTEMPTS + 1]
    BY <1>3, InProgress DEF Clear, TypeOK
  <2>2. CASE c.op = "change" /\ Goto(t, "change write")
    BY <1>1, <2>1, <2>2, Checking, Names, GotoStep
  <2>3. CASE Finish(t)
    BY <1>1, <2>1, <2>3, FinishStep
  <2> QED
    BY <1>1, <2>2, <2>3 DEF Succeed
<1>4. CASE up
  <2>1. SetUser(c.email, v) /\ guesses' = [guesses EXCEPT ![c.email] = 0]
    BY <1>4 DEF Clear
  <2>2. CASE c.op = "change" /\ Goto(t, "change write")
    <3>1. n \in CallType
      BY <1>1, Names, ChangedCallTyped
    <3>2. n.pc = "change write" /\ n.op = "change" /\ n.email = c.email /\ n.new = c.new
      BY <1>1, <2>2 DEF CallType
    <3>3. Become(t, n)
      BY <2>2 DEF Goto, Become
    <3>4. guesses' \in [Emails -> 0..MAX_LOGIN_ATTEMPTS + 1]
      BY <1>1, <2>1, InProgress, GuessesTyped
    <3> HIDE DEF n, c, v
    <3>5. Fits(n)
      BY <3>2 DEF Fits
    <3> QED
      BY <1>1, <1>2, <2>1, <2>2, <3>1, <3>2, <3>3, <3>4, <3>5, WriteStep DEF Storable
  <2>3. CASE Finish(t)
    <3> HIDE DEF c, v
    <3> QED
      BY <1>1, <1>2, <2>1, <2>3, WriteAndFinish DEF Storable
  <2> QED
    BY <1>1, <2>2, <2>3 DEF Succeed
<1> QED
  BY <1>3, <1>4

LEMMA ChangeWriteInv ==
    ASSUME IInv, NEW t \in Threads, NEW up, ChangeWrite(t, up)
    PROVE  IInv'
<1> DEFINE c == call[t]
           v == ChangedFields(c)
<1>1. c.email \in Emails /\ users[c.email] # NoUser /\ c.new \in Passwords
  BY InProgress DEF ChangeWrite, At, Fits, Knows
<1>2. v \in PartialType
  BY <1>1, StoredFields DEF ChangedFields
<1>3. Finish(t) /\ UNCHANGED hashes
  BY DEF ChangeWrite
<1>4. CASE ~up
  BY <1>4, FinishStep DEF ChangeWrite
<1>5. CASE up
  <2>1. SetUser(c.email, v) /\ guesses' = [guesses EXCEPT ![c.email] = 0]
    BY <1>5 DEF ChangeWrite
  <2> HIDE DEF v, c
  <2> QED
    BY <1>1, <1>2, <1>3, <2>1, WriteAndFinish DEF Storable
<1> QED
  BY <1>4, <1>5

LEMMA FailActiveInv ==
    ASSUME IInv, NEW t \in Threads, NEW up, FailActive(t, up)
    PROVE  IInv'
<1>1. /\ UNCHANGED <<users, hashes, guesses>> /\ call[t].pc = "fail active"
      /\ guesses' \in [Emails -> 0..MAX_LOGIN_ATTEMPTS + 1]
  BY InProgress DEF FailActive, At, TypeOK
<1>2. CASE Goto(t, "fail count")
  <2>1. /\ call[t].email \in Emails /\ users[call[t].email] # NoUser /\ ~Ready(t)
        /\ call[t].op \in {"check", "change"}
    BY <1>1, Checking
  <2> QED
    BY <1>1, <1>2, <2>1, Names, GotoStep
<1>3. CASE Finish(t)
  BY <1>1, <1>3, FinishStep
<1> QED
  BY <1>2, <1>3 DEF FailActive

LEMMA CountActiveInv ==
    ASSUME IInv, NEW t \in Threads, NEW up, CountActive(t, up)
    PROVE  IInv'
<1>1. /\ UNCHANGED <<users, hashes, guesses>> /\ call[t].pc = "count active"
      /\ guesses' \in [Emails -> 0..MAX_LOGIN_ATTEMPTS + 1]
  BY InProgress DEF CountActive, At, TypeOK
<1>2. CASE Goto(t, "count write")
  BY <1>1, <1>2, Checking, Names, GotoStep
<1>3. CASE Finish(t)
  BY <1>1, <1>3, FinishStep
<1> QED
  BY <1>2, <1>3 DEF CountActive

LEMMA FailCountInv ==
    ASSUME IInv, NEW t \in Threads, NEW up, FailCount(t, up)
    PROVE  IInv'
<1> DEFINE c == call[t]
           cnt == Found(c.email, up).attempts
           b == Calling(c.op, IF LocksOut(cnt + 1) THEN "block read" ELSE "count active",
                        c.email, Absent, Absent)
           m == IF LocksOut(cnt + 1) THEN 0 ELSE cnt + 1
           n == [b EXCEPT !.n = m]
<1>1. /\ UNCHANGED <<users, hashes, guesses>> /\ TypeOK
      /\ guesses' \in [Emails -> 0..MAX_LOGIN_ATTEMPTS + 1]
  BY InProgress DEF FailCount, TypeOK
<1>2. /\ c.email \in Emails /\ users[c.email] # NoUser /\ c \in CallType
      /\ c.op \in {"check", "change"}
  BY Checking, InProgress DEF FailCount, At
<1>3. CASE cnt = Absent
  BY <1>1, <1>3, FinishStep DEF FailCount
<1>4. CASE cnt # Absent
  <2>1. cnt \in 0..MAX_LOGIN_ATTEMPTS
    <3>1. Found(c.email, up) \in Account \cup {NoUser}
      BY <1>1, <1>2 DEF Found, TypeOK
    <3> QED
      BY <1>4, <3>1 DEF Account, NoUser
  <2>2. m \in 0..MAX_LOGIN_ATTEMPTS
    BY <2>1, AttemptsAssumption DEF LocksOut
  <2>3. b \in CallType
    BY <1>2, Names, CallingTyped
  <2>4. n \in CallType
    BY <2>2, <2>3, ChangedCallTyped
  <2>5. b.op = c.op /\ b.pc \in {"block read", "count active"} /\ b.email = c.email
    BY DEF Calling
  <2> HIDE DEF b
  <2>6. n.op = c.op /\ n.pc \in {"block read", "count active"} /\ n.email = c.email
    BY <2>3, <2>5 DEF CallType
  <2>7. Become(t, n)
    BY <1>4 DEF FailCount, b
  <2> HIDE DEF n
  <2>8. Fits(n) /\ Knows(n, users)
    BY <1>2, <2>6 DEF Fits, Knows
  <2> QED
    BY <1>1, <2>4, <2>7, <2>8, QuietStep
<1> QED
  BY <1>3, <1>4

LEMMA CountWriteInv ==
    ASSUME IInv, NEW t \in Threads, NEW up, CountWrite(t, up)
    PROVE  IInv'
<1> DEFINE c == call[t]
           v == Field("attempts", c.n)
<1>1. c.email \in Emails /\ users[c.email] # NoUser /\ c.n \in 0..MAX_LOGIN_ATTEMPTS
  BY InProgress DEF CountWrite, At, Knows, CallType
<1>2. v \in PartialType
  BY <1>1, StoredFields
<1>3. Finish(t) /\ UNCHANGED hashes
  BY DEF CountWrite
<1>4. CASE ~up
  BY <1>4, FinishStep DEF CountWrite
<1>5. CASE up
  <2>1. SetUser(c.email, v) /\ guesses' \in {guesses, [guesses EXCEPT ![c.email] = 0]}
    BY <1>5 DEF CountWrite
  <2> HIDE DEF v, c
  <2> QED
    BY <1>1, <1>2, <1>3, <2>1, WriteAndFinish DEF Storable
<1> QED
  BY <1>4, <1>5

LEMMA BlockReadInv ==
    ASSUME IInv, NEW t \in Threads, NEW up, BlockRead(t, up)
    PROVE  IInv'
<1> DEFINE c == call[t]
           v == [users[c.email] EXCEPT !.status = IF c.op = "unblock" THEN Active ELSE Blocked]
           b == Calling(c.op, "block write", c.email, Absent, Absent)
           n == [b EXCEPT !.v = v]
<1>1. /\ UNCHANGED <<users, hashes, guesses>> /\ TypeOK
      /\ guesses' \in [Emails -> 0..MAX_LOGIN_ATTEMPTS + 1]
  BY InProgress DEF BlockRead, TypeOK
<1>2. /\ c.email \in Emails /\ c \in CallType
      /\ c.op \in {"check", "change", "block", "unblock"}
  BY InProgress DEF BlockRead, At, Fits, Knows
<1>3. CASE Found(c.email, up) = NoUser
  BY <1>1, <1>3, FinishStep DEF BlockRead
<1>4. CASE Found(c.email, up) # NoUser
  <2>1. users[c.email] \in Account
    BY <1>1, <1>2, <1>4, FoundIs
  <2>2. v \in Account /\ v.status = IF c.op = "unblock" THEN Active ELSE Blocked
    BY <2>1 DEF Account
  <2>3. b \in CallType
    BY <1>2, Names, CallingTyped
  <2>4. Become(t, n)
    BY <1>4 DEF BlockRead
  <2>5. b.op = c.op /\ b.pc = "block write" /\ b.email = c.email
    BY DEF Calling
  <2> HIDE DEF v, b
  <2>6. n \in CallType
    BY <2>2, <2>3, ChangedCallTyped
  <2>7. n.op = c.op /\ n.pc = "block write" /\ n.email = c.email /\ n.v = v
    BY <2>3, <2>5 DEF CallType
  <2> HIDE DEF n
  <2>8. Fits(n)
    BY <1>2, <2>7 DEF Fits
  <2>9. Knows(n, users)
    BY <1>2, <2>1, <2>2, <2>7, NoUserIsNoAccount DEF Knows
  <2> QED
    BY <1>1, <2>4, <2>6, <2>8, <2>9, QuietStep
<1> QED
  BY <1>3, <1>4

LEMMA BlockWriteInv ==
    ASSUME IInv, NEW t \in Threads, NEW up, BlockWrite(t, up)
    PROVE  IInv'
<1> DEFINE c == call[t]
<1>1. c.email \in Emails /\ c.v \in Account
  BY InProgress DEF BlockWrite, At, Knows
<1>2. Finish(t) /\ UNCHANGED hashes
  BY DEF BlockWrite
<1>3. CASE ~up
  BY <1>3, FinishStep DEF BlockWrite
<1>4. CASE up
  <2>1. SetUser(c.email, c.v) /\ guesses' \in {guesses, [guesses EXCEPT ![c.email] = 0]}
    BY <1>4 DEF BlockWrite
  <2> HIDE DEF c
  <2> QED
    BY <1>1, <1>2, <2>1, WriteAndFinish
<1> QED
  BY <1>3, <1>4

LEMMA VerifyUserInv ==
    ASSUME IInv, NEW t \in Threads, NEW up, VerifyUser(t, up)
    PROVE  IInv'
<1>1. /\ UNCHANGED <<users, hashes, guesses>>
      /\ guesses' \in [Emails -> 0..MAX_LOGIN_ATTEMPTS + 1]
      /\ users[call[t].email] # NoUser /\ ~Ready(t) /\ call[t].op = "verify"
  BY InProgress DEF VerifyUser, At, Ready, Fits, Knows, TypeOK
<1>2. CASE Goto(t, "activate")
  BY <1>1, <1>2, Names, GotoStep
<1>3. CASE Finish(t)
  BY <1>1, <1>3, FinishStep
<1> QED
  BY <1>2, <1>3 DEF VerifyUser

LEMMA ActivateInv ==
    ASSUME IInv, NEW t \in Threads, NEW up, Activate(t, up) \/ SetActive(t, up)
    PROVE  IInv'
<1> DEFINE c == call[t]
<1>1. c.email \in Emails
  BY InProgress DEF Activate, SetActive, At, Knows
<1>2. /\ Finish(t) /\ UNCHANGED hashes
      /\ ~up => UNCHANGED <<users, guesses>>
      /\ guesses' \in {guesses, [guesses EXCEPT ![c.email] = 0]}
  BY DEF Activate, SetActive, SetStatus
<1>3. CASE ~up
  BY <1>2, <1>3, FinishStep
<1>4. CASE up
  <2>1. \E s \in {New, Active, Blocked} : SetUser(c.email, Field("status", s))
    BY <1>4 DEF Activate, SetActive, SetStatus
  <2>2. PICK s \in {New, Active, Blocked} : SetUser(c.email, Field("status", s))
    BY <2>1
  <2>3. Storable(c.email, Field("status", s))
    BY StoredFields DEF Storable
  <2> HIDE DEF c
  <2> QED
    BY <1>1, <1>2, <2>2, <2>3, WriteAndFinish
<1> QED
  BY <1>3, <1>4

LEMMA VerifyHashInv ==
    ASSUME IInv, NEW t \in Threads, NEW h \in HashType, VerifyHash(t, h)
    PROVE  IInv'
<1> DEFINE n == Calling("verify", "verify user", h[2], Absent, Absent)
<1>1. h[2] \in Emails
  BY DEF HashType
<1>2. users[h[2]] # NoUser
  BY DEF VerifyHash, IInv, HashesNameAccounts
<1>3. /\ UNCHANGED <<users, hashes, guesses>> /\ Become(t, n)
      /\ guesses' \in [Emails -> 0..MAX_LOGIN_ATTEMPTS + 1]
  BY InProgress DEF VerifyHash, TypeOK
<1>4. n \in CallType
  BY <1>1, Names, CallingTyped
<1>5. n.op = "verify" /\ n.pc = "verify user" /\ n.email = h[2]
  BY DEF Calling
<1> HIDE DEF n
<1>6. Fits(n) /\ Knows(n, users)
  BY <1>1, <1>2, <1>5 DEF Fits, Knows
<1> QED
  BY <1>3, <1>4, <1>6, QuietStep

LEMMA CrashInv ==
    ASSUME IInv, Crash
    PROVE  IInv'
<1>1. /\ users' = users /\ hashes' = hashes /\ guesses' = guesses
      /\ call' = [t \in Threads |-> NoCall]
  BY DEF Crash
<1>2. TypeOK'
  BY <1>1, IdleCall DEF IInv, TypeOK
<1>3. HashesNameAccounts'
  BY <1>1 DEF IInv, HashesNameAccounts
<1>4. ASSUME NEW t \in Threads
      PROVE  Fits(call'[t]) /\ Knows(call'[t], users')
  BY <1>1, IdleCall
<1> QED
  BY <1>2, <1>3, <1>4 DEF IInv

\* The invariant is inductive.
LEMMA InitIInv == Init => IInv
<1> SUFFICES ASSUME Init PROVE IInv
  OBVIOUS
<1>1. TypeOK
  BY IdleCall, AttemptsAssumption DEF Init, TypeOK
<1>2. HashesNameAccounts
  BY DEF Init, HashesNameAccounts
<1>3. ASSUME NEW t \in Threads
      PROVE  Fits(call[t]) /\ Knows(call[t], users)
  BY IdleCall DEF Init
<1> QED
  BY <1>1, <1>2, <1>3 DEF IInv

LEMMA NextIInv == IInv /\ [Next]_vars => IInv'
<1> SUFFICES ASSUME IInv, [Next]_vars PROVE IInv'
  OBVIOUS
<1>1. ASSUME NEW t \in Threads, NEW e \in Emails, NEW up \in Answers, Begin(t, e, up)
      PROVE  IInv'
  BY <1>1, BeginInv
<1>2. ASSUME NEW t \in Threads, NEW up \in Answers, Continue(t, up)
      PROVE  IInv'
  <2>1. CASE CreateHash(t, up) \/ ResetHash(t, up)
    BY <2>1, SaveHashInv DEF CreateHash, ResetHash
  <2> QED
    BY <1>2, <2>1, CreateUserInv, ResetWriteInv, ForgotWriteInv, CheckExistsInv, AuthorizeInv,
       ClearActiveInv, ClearInv, ChangeWriteInv, FailActiveInv, FailCountInv, CountActiveInv,
       CountWriteInv, BlockReadInv, BlockWriteInv, VerifyUserInv, ActivateInv DEF Continue
<1>3. ASSUME NEW t \in Threads, NEW h \in HashType, VerifyHash(t, h)
      PROVE  IInv'
  BY <1>3, VerifyHashInv
<1>4. CASE Crash
  BY <1>4, CrashInv
<1>5. CASE UNCHANGED vars
  <2>1. /\ users' = users /\ hashes' = hashes /\ guesses' = guesses /\ call' = call
    BY <1>5 DEF vars
  <2> QED
    BY <2>1 DEF IInv, TypeOK, HashesNameAccounts
<1> QED
  BY <1>1, <1>2, <1>3, <1>4, <1>5 DEF Next

----------------------------------------------------------------------------
(* Theorems for every number of threads, with failures and crashes.        *)

\* A row of "users" has what its calls stored: all the fields of an account, or the
\* status alone, or that and a password with its count; whatever calls overlap.
THEOREM AuthTypeCorrect == Spec => []TypeOK
<1>1. IInv => TypeOK
  BY DEF IInv
<1> QED
  BY <1>1, InitIInv, NextIInv, PTL DEF Spec

\* Every hash that was handed out names an account.
THEOREM HashesAreOfAccounts == Spec => []HashesNameAccounts
<1>1. IInv => HashesNameAccounts
  BY DEF IInv
<1> QED
  BY <1>1, InitIInv, NextIInv, PTL DEF Spec

\* What a change of password, with the check in it, may store: a row that is blocked,
\* or fields without a status.
LEMMA ChangeStores ==
    ASSUME IInv, NEW t \in Threads, NEW up \in Answers, Continue(t, up), call[t].op = "change"
    PROVE  \/ users' = users
           \/ \E v \in Account : SetUser(call[t].email, v) /\ v.status = Blocked
           \/ /\ users[call[t].email] # NoUser
              /\ \E v \in PartialType : SetUser(call[t].email, v) /\ v.status = Absent
<1> DEFINE c == call[t]
<1>1. Fits(c) /\ Knows(c, users) /\ c \in CallType
  BY InProgress
<1>2. CASE CreateUser(t, up) \/ CreateHash(t, up) \/ ResetWrite(t, up) \/ ResetHash(t, up)
           \/ ForgotWrite(t, up) \/ VerifyUser(t, up) \/ Activate(t, up) \/ SetActive(t, up)
  BY <1>1, <1>2 DEF CreateUser, CreateHash, ResetWrite, ResetHash, ForgotWrite, VerifyUser,
     Activate, SetActive, At, Fits
<1>3. CASE CheckExists(t, up) \/ Authorize(t, up) \/ ClearActive(t, up) \/ FailActive(t, up)
           \/ FailCount(t, up) \/ CountActive(t, up) \/ BlockRead(t, up)
  BY <1>3 DEF CheckExists, Authorize, ClearActive, FailActive, FailCount, CountActive, BlockRead
<1>4. CASE Clear(t, up)
  <2>1. users[c.email] # NoUser
    BY <1>1, <1>4 DEF Clear, At, Knows
  <2>2. users' = users \/ SetUser(c.email, Field("attempts", 0))
    BY <1>4 DEF Clear
  <2>3. Field("attempts", 0) \in PartialType /\ Field("attempts", 0).status = Absent
    BY StoredFields, AttemptsAssumption
  <2> QED
    BY <2>1, <2>2, <2>3
<1>5. CASE CountWrite(t, up)
  <2>1. users[c.email] # NoUser
    BY <1>1, <1>5 DEF CountWrite, At, Knows
  <2>2. users' = users \/ SetUser(c.email, Field("attempts", c.n))
    BY <1>5 DEF CountWrite
  <2>3. c.n \in 0..MAX_LOGIN_ATTEMPTS
    BY <1>1 DEF CallType
  <2>4. Field("attempts", c.n) \in PartialType /\ Field("attempts", c.n).status = Absent
    BY <2>3, StoredFields
  <2> QED
    BY <2>1, <2>2, <2>4
<1>6. CASE ChangeWrite(t, up)
  <2>1. users[c.email] # NoUser /\ c.new \in Passwords
    BY <1>1, <1>6 DEF ChangeWrite, At, Knows
  <2>2. users' = users \/ SetUser(c.email, ChangedFields(c))
    BY <1>6 DEF ChangeWrite
  <2>3. ChangedFields(c) \in PartialType /\ ChangedFields(c).status = Absent
    BY <2>1, StoredFields DEF ChangedFields
  <2> QED
    BY <2>1, <2>2, <2>3
<1>7. CASE BlockWrite(t, up)
  <2>1. c.v \in Account /\ c.v.status = Blocked
    BY <1>1, <1>7 DEF BlockWrite, At, Knows
  <2>2. users' = users \/ SetUser(c.email, c.v)
    BY <1>7 DEF BlockWrite
  <2> QED
    BY <2>1, <2>2
<1> QED
  BY <1>2, <1>3, <1>4, <1>5, <1>6, <1>7 DEF Continue

\* Only the step of a call changes what its thread is doing, a crash apart.
LEMMA OneCallMoves ==
    ASSUME IInv, [Next]_vars, NEW t \in Threads, call'[t] # call[t]
    PROVE  \/ users' = users
           \/ \E up \in Answers : Continue(t, up)
<1>1. ASSUME NEW u \in Threads, NEW c, Become(u, c), u # t
      PROVE  FALSE
  BY <1>1 DEF Become, IInv, TypeOK
<1>2. ASSUME NEW u \in Threads, NEW pc, Goto(u, pc), u # t
      PROVE  FALSE
  BY <1>2 DEF Goto, IInv, TypeOK
<1>3. ASSUME NEW u \in Threads, NEW e \in Emails, NEW up \in Answers, Begin(u, e, up)
      PROVE  users' = users
  BY <1>3 DEF Begin, CreateExists, ResetRead, ForgotExists, CheckActive, SetAttempts,
     BlockCall, ActiveCall
<1>4. ASSUME NEW u \in Threads, NEW up \in Answers, Continue(u, up), u # t
      PROVE  FALSE
  <2>1. (\E c : Become(u, c)) \/ (\E pc : Goto(u, pc))
    BY <1>4 DEF Continue, CreateUser, CreateHash, ResetWrite, ResetHash, ForgotWrite, SaveHash,
       CheckExists, Authorize, ClearActive, Clear, Succeed, ChangeWrite, FailActive, FailCount,
       CountActive, CountWrite, BlockRead, BlockWrite, VerifyUser, Activate, SetActive,
       SetStatus, Finish
  <2> QED
    BY <1>1, <1>2, <1>4, <2>1
<1>5. ASSUME NEW u \in Threads, NEW h \in HashType, VerifyHash(u, h)
      PROVE  users' = users
  BY <1>5 DEF VerifyHash
<1>6. CASE Crash \/ UNCHANGED vars
  BY <1>6 DEF Crash, vars
<1> QED
  BY <1>3, <1>4, <1>5, <1>6 DEF Next

\* A password change never makes an account active, whatever other calls do to the
\* account between its check and its write.
THEOREM ChangesNeverActivate == Spec => ChangeNeverActivates
<1>1. ASSUME IInv, [Next]_vars, NEW t \in Threads, NEW e \in Emails,
             call[t].op = "change", call'[t] # call[t], users'[e].status = Active
      PROVE  users[e].status = Active
  <2>1. TypeOK /\ Knows(call[t], users) /\ Fits(call[t]) /\ call[t].email \in Emails
    BY <1>1, InProgress DEF Knows, Fits
  <2>2. CASE users' = users
    BY <1>1, <2>2
  <2>3. CASE \E v \in Account : SetUser(call[t].email, v) /\ v.status = Blocked
    <3>1. PICK v \in Account : SetUser(call[t].email, v) /\ v.status = Blocked
      BY <2>3
    <3>2. /\ users'[call[t].email] = Merge(users[call[t].email], v)
          /\ \A x \in Emails : x # call[t].email => users'[x] = users[x]
      BY <2>1, <3>1, SetUserEffect
    <3>3. Merge(users[call[t].email], v).status = v.status
      BY <2>1, <3>1, MergeGivesAccount DEF TypeOK
    <3> QED
      BY <1>1, <3>1, <3>2, <3>3 DEF Active, Blocked
  <2>4. CASE /\ users[call[t].email] # NoUser
             /\ \E v \in PartialType : SetUser(call[t].email, v) /\ v.status = Absent
    <3>1. PICK v \in PartialType : SetUser(call[t].email, v) /\ v.status = Absent
      BY <2>4
    <3>2. /\ users'[call[t].email] = Merge(users[call[t].email], v)
          /\ \A x \in Emails : x # call[t].email => users'[x] = users[x]
      BY <2>1, <2>4, <3>1, SetUserEffect DEF Storable
    <3>3. users[call[t].email] \in Account
      BY <2>1, <2>4 DEF TypeOK
    <3>4. Merge(users[call[t].email], v).status = users[call[t].email].status
      BY <3>1, <3>3, MergeGivesAccount
    <3> QED
      BY <1>1, <3>2, <3>4
  <2> QED
    BY <1>1, <2>2, <2>3, <2>4, OneCallMoves, ChangeStores
<1>2. IInv /\ [Next]_vars => [\A t \in Threads, e \in Emails :
          (call[t].op = "change" /\ call'[t] # call[t] /\ users'[e].status = Active) =>
              users[e].status = Active]_vars
  BY <1>1
<1> QED
  BY <1>2, InitIInv, NextIInv, PTL DEF Spec, ChangeNeverActivates

----------------------------------------------------------------------------
(* One thread on a driver that answers, in a process that lives: the       *)
(* lockout, what a block may rely on, and that the calls implement        *)
(* Accounts.  With two threads none of them holds.               *)


\* me is the only thread; nothing fails and the process does not die.
OneThread(me) == Threads = {me} /\ Answers = {TRUE} /\ ~CanCrash

\* A wrong password was tried at e, and check() has yet to count it.
Counting(c, e) ==
    /\ c.email = e /\ c.op \in {"check", "change"}
    /\ c.pc \in {"fail active", "fail count", "count active", "count write",
                 "block read", "block write"}

\* The guesses g at a row u: counted, but for the one being counted.
Room(u, g, counting) ==
    /\ g <= MAX_LOGIN_ATTEMPTS
    /\ u.password = Absent \/ u.status = New => g = 0
    /\ u.status = Active /\ u.password # Absent =>
          /\ g <= u.attempts + 1
          /\ ~counting => g <= u.attempts /\ g < MAX_LOGIN_ATTEMPTS

\* What a call has read is still so.
Current(c, u) ==
    /\ c.pc \in {"exists", "authorize", "clear active", "clear", "change write", "fail active",
                 "fail count", "count active", "count write"} => u[c.email].status = Active
    /\ c.op \in {"check", "change"} /\ c.pc \in {"count active", "count write"}
          => /\ u[c.email].attempts # Absent
             /\ c.n = u[c.email].attempts + 1 /\ c.n < MAX_LOGIN_ATTEMPTS
    /\ c.op \in {"check", "change"} /\ c.pc \in {"block read", "block write"}
          => /\ u[c.email].status = Active /\ u[c.email].attempts # Absent
             /\ LocksOut(u[c.email].attempts + 1)
    /\ c.pc \in {"exists", "authorize"} => c.password # Absent
    /\ c.pc \in {"clear active", "clear", "change write"} => u[c.email].password # Absent
    /\ c.pc = "block write"
          => c.v = [u[c.email] EXCEPT !.status = IF c.op = "unblock" THEN Active ELSE Blocked]
    /\ c.pc = "create user" => u[c.email] = NoUser
    /\ c.pc = "reset write" => c.v = u[c.email]
    /\ c.pc = "activate" => u[c.email].status = New

\* The invariant of the only thread.
AloneInv(me) ==
    /\ Current(call[me], users)
    /\ \A e \in Emails : Room(users[e], guesses[e], Counting(call[me], e))
----------------------------------------------------------------------------
LEMMA Mine ==
    ASSUME NEW CONSTANT me, OneThread(me), IInv
    PROVE  /\ me \in Threads /\ TypeOK
           /\ call \in [Threads -> CallType] /\ call[me] \in CallType
           /\ Fits(call[me]) /\ Knows(call[me], users)
           /\ users \in [Emails -> Account \cup {NoUser}]
           /\ guesses \in [Emails -> 0..MAX_LOGIN_ATTEMPTS + 1]
BY InProgress DEF OneThread, TypeOK

\* An idle call is current and counts nothing.
LEMMA IdleIsCurrent == \A u, e : Current(NoCall, u) /\ ~Counting(NoCall, e)
BY DEF Current, Counting, NoCall, Calling

\* What Goto and Become leave in the call.
LEMMA NextCall ==
    ASSUME NEW CONSTANT me, OneThread(me), IInv
    PROVE  /\ \A c : Become(me, c) => call'[me] = c
           /\ \A pc : Goto(me, pc) => /\ call'[me].pc = pc
                                      /\ call'[me].op = call[me].op
                                      /\ call'[me].email = call[me].email
                                      /\ call'[me].v = call[me].v
                                      /\ call'[me].password = call[me].password
                                      /\ call'[me].n = call[me].n
BY Mine DEF Become, Goto, CallType

\* A step that changes no row and no guess.
LEMMA QuietAlone ==
    ASSUME NEW CONSTANT me, OneThread(me), IInv, AloneInv(me), users' = users, guesses' = guesses,
           Current(call'[me], users),
           \A e \in Emails : Counting(call[me], e) => Counting(call'[me], e)
    PROVE  AloneInv(me)'
<1>1. ASSUME NEW e \in Emails
      PROVE  Room(users[e], guesses[e], Counting(call'[me], e))
  <2>1. Room(users[e], guesses[e], Counting(call[me], e))
    BY DEF AloneInv
  <2>2. Counting(call[me], e) => Counting(call'[me], e)
    OBVIOUS
  <2> QED
    BY <2>1, <2>2 DEF Room
<1> QED
  BY <1>1 DEF AloneInv

\* A step of a call that writes the row of its account and counts nothing afterwards.
LEMMA WriteAlone ==
    ASSUME NEW CONSTANT me, OneThread(me), IInv, AloneInv(me), NEW e \in Emails, call[me].email = e,
           \A x \in Emails : x # e => users'[x] = users[x] /\ guesses'[x] = guesses[x],
           Room(users'[e], guesses'[e], FALSE),
           Current(call'[me], users'), \A x \in Emails : ~Counting(call'[me], x)
    PROVE  AloneInv(me)'
<1>1. ASSUME NEW x \in Emails
      PROVE  Room(users'[x], guesses'[x], Counting(call'[me], x))
  <2>1. CASE x = e
    BY <2>1 DEF Room
  <2>2. CASE x # e
    <3>1. ~Counting(call[me], x) /\ ~Counting(call'[me], x)
      BY <2>2 DEF Counting
    <3>2. Room(users[x], guesses[x], Counting(call[me], x))
      BY DEF AloneInv
    <3> QED
      BY <2>2, <3>1, <3>2 DEF Room
  <2> QED
    BY <2>1, <2>2
<1> QED
  BY <1>1 DEF AloneInv

\* The same, for a successful set_user() that ends the call.
LEMMA WriteEnds ==
    ASSUME NEW CONSTANT me, OneThread(me), IInv, AloneInv(me),
           NEW e \in Emails, call[me].email = e, Finish(me),
           NEW v, SetUser(e, v), v \in Account \/ Storable(e, v),
           guesses' \in {guesses, [guesses EXCEPT ![e] = 0]},
           Room(Merge(users[e], v), guesses'[e], FALSE)
    PROVE  AloneInv(me)'
<1>1. /\ users'[e] = Merge(users[e], v)
      /\ \A x \in Emails : x # e => users'[x] = users[x] /\ guesses'[x] = guesses[x]
  BY Mine, SetUserEffect
<1>2. call'[me] = NoCall
  BY NextCall DEF Finish
<1> QED
  BY <1>1, <1>2, IdleIsCurrent, WriteAlone

\* A row that is stored with another status is what is stored.
LEMMA MergeOfStatus ==
    ASSUME NEW u \in Account, NEW s \in {New, Active, Blocked}
    PROVE  Merge(u, [u EXCEPT !.status = s]) = [u EXCEPT !.status = s]
<1> DEFINE v == [u EXCEPT !.status = s]
<1>1. v = [password |-> u.password, status |-> s, attempts |-> u.attempts]
  BY DEF Account
<1>2. s # Absent
  BY AbsentAssumption DEF New, Active, Blocked
<1> HIDE DEF v
<1>3. Merge(u, v) = v
  BY <1>1, <1>2 DEF Merge
<1> QED
  BY <1>3 DEF v

\* What storing one or two fields makes of a row.
LEMMA MergeIs ==
    ASSUME NEW u \in Account
    PROVE  /\ \A n \in 0..MAX_LOGIN_ATTEMPTS :
                 Merge(u, Field("attempts", n)) = [u EXCEPT !.attempts = n]
           /\ \A s \in {New, Active, Blocked} :
                 Merge(u, Field("status", s)) = [u EXCEPT !.status = s]
           /\ \A pw \in Passwords :
                 Merge(u, [password |-> pw, status |-> Absent, attempts |-> 0])
                    = [u EXCEPT !.password = pw, !.attempts = 0]
           /\ Merge(u, u) = u
           /\ \A s \in {New, Active, Blocked} :
                 Merge(u, [u EXCEPT !.status = s]) = [u EXCEPT !.status = s]
<1>1. ASSUME NEW n \in 0..MAX_LOGIN_ATTEMPTS
      PROVE  Merge(u, Field("attempts", n)) = [u EXCEPT !.attempts = n]
  <2> DEFINE v == Field("attempts", n)
  <2>1. v.password = Absent /\ v.status = Absent /\ v.attempts = n
    BY DEF Field, NoUser
  <2>2. n # Absent
    BY AttemptsAssumption, AbsentAssumption
  <2> HIDE DEF v
  <2>3. Merge(u, v) = [u EXCEPT !.attempts = n]
    BY <2>1, <2>2 DEF Merge, Account
  <2> QED
    BY <2>3 DEF v
<1>2. ASSUME NEW s \in {New, Active, Blocked}
      PROVE  Merge(u, Field("status", s)) = [u EXCEPT !.status = s]
  <2> DEFINE v == Field("status", s)
  <2>1. v.password = Absent /\ v.status = s /\ v.attempts = Absent
    BY DEF Field, NoUser
  <2>2. s # Absent
    BY AbsentAssumption DEF New, Active, Blocked
  <2> HIDE DEF v
  <2>3. Merge(u, v) = [u EXCEPT !.status = s]
    BY <2>1, <2>2 DEF Merge, Account
  <2> QED
    BY <2>3 DEF v
<1>3. ASSUME NEW pw \in Passwords
      PROVE  Merge(u, [password |-> pw, status |-> Absent, attempts |-> 0])
                = [u EXCEPT !.password = pw, !.attempts = 0]
  <2> DEFINE v == [password |-> pw, status |-> Absent, attempts |-> 0]
             w == [u EXCEPT !.password = pw]
  <2>1. v.password = pw /\ v.status = Absent /\ v.attempts = 0
    OBVIOUS
  <2>2. pw # Absent /\ 0 # Absent
    BY AbsentAssumption
  <2>3. w = [password |-> pw, status |-> u.status, attempts |-> u.attempts]
    BY DEF Account
  <2> HIDE DEF v, w
  <2>4. Merge(u, v) = [w EXCEPT !.attempts = 0]
    BY <2>1, <2>2, <2>3 DEF Merge
  <2> QED
    BY <2>4 DEF v, w
<1>4. Merge(u, u) = u
  BY DEF Merge, Account
<1>5. \A s \in {New, Active, Blocked} :
         Merge(u, [u EXCEPT !.status = s]) = [u EXCEPT !.status = s]
  BY MergeOfStatus
<1> QED
  BY <1>1, <1>2, <1>3, <1>4, <1>5

\* Nothing has been guessed at a row whose count has just restarted.
LEMMA RoomAtZero ==
    \A u \in Account : \A counting : Room(u, 0, counting)
BY AttemptsAssumption, AbsentAssumption DEF Room, Account
----------------------------------------------------------------------------
(* The steps of the only thread.                                           *)

LEMMA BeginAlone ==
    ASSUME NEW CONSTANT me, OneThread(me), IInv, AloneInv(me),
           (\E e \in Emails : Begin(me, e, TRUE)) \/ (\E h \in HashType : VerifyHash(me, h))
    PROVE  AloneInv(me)'
<1>1. users' = users /\ guesses' = guesses /\ Ready(me)
  BY DEF Begin, CreateExists, ResetRead, ForgotExists, CheckActive, SetAttempts,
     BlockCall, ActiveCall, VerifyHash
<1>2. \A x \in Emails : ~Counting(call[me], x)
  BY <1>1 DEF Ready, Counting
<1>3. \E c : call'[me] = c /\ Current(c, users)
  <2>1. ASSUME NEW op, NEW pc, NEW e, NEW pw, NEW new, Become(me, Calling(op, pc, e, pw, new)),
               \/ pc = "create user" /\ users[e] = NoUser
               \/ pc \in {"forgot write", "set active", "verify user"}
               \/ pc = "block read" /\ op \in {"block", "unblock"}
               \/ pc = "exists" /\ users[e].status = Active /\ pw # Absent
        PROVE  \E c : call'[me] = c /\ Current(c, users)
    <3> DEFINE c == Calling(op, pc, e, pw, new)
    <3>1. c.op = op /\ c.pc = pc /\ c.email = e /\ c.password = pw
      BY DEF Calling
    <3>2. call'[me] = c
      BY <2>1, NextCall
    <3> HIDE DEF c
    <3>3. Current(c, users)
      BY <2>1, <3>1 DEF Current
    <3> QED
      BY <3>2, <3>3
  <2>2. ASSUME NEW e \in Emails, NEW pw \in Passwords, CreateExists(me, e, pw, TRUE)
        PROVE  \E c : call'[me] = c /\ Current(c, users)
    <3>1. users[e] = NoUser /\ Become(me, Calling("create", "create user", e, pw, Absent))
      BY <2>2 DEF CreateExists, Found
    <3> QED
      BY <2>1, <3>1
  <2>3. ASSUME NEW e \in Emails, ResetRead(me, e, TRUE)
        PROVE  \E c : call'[me] = c /\ Current(c, users)
    <3> DEFINE b == Calling("reset", "reset write", e, Absent, Absent)
               c == [b EXCEPT !.v = users[e]]
    <3>0. b \in CallType
      BY Names, CallingTyped
    <3>1. b.op = "reset" /\ b.pc = "reset write" /\ b.email = e
      BY DEF Calling
    <3>2. call'[me] = c
      BY <2>3, NextCall DEF ResetRead
    <3> HIDE DEF b
    <3>3. c.op = "reset" /\ c.pc = "reset write" /\ c.email = e /\ c.v = users[e]
      BY <3>0, <3>1 DEF CallType
    <3> HIDE DEF c
    <3>4. Current(c, users)
      BY <3>3 DEF Current
    <3> QED
      BY <3>2, <3>4
  <2>4. ASSUME NEW e \in Emails, NEW new \in Passwords, ForgotExists(me, e, new, TRUE)
        PROVE  \E c : call'[me] = c /\ Current(c, users)
    <3>1. Become(me, Calling("forgot", "forgot write", e, Absent, new))
      BY <2>4 DEF ForgotExists
    <3> QED
      BY <2>1, <3>1
  <2>5. ASSUME NEW e \in Emails, NEW op, NEW pw \in Passwords, NEW new, CheckActive(me, op, e, pw, new, TRUE)
        PROVE  \E c : call'[me] = c /\ Current(c, users)
    <3>1. /\ users[e].status = Active /\ pw # Absent
          /\ Become(me, Calling(op, "exists", e, pw, new))
      BY <2>5, AbsentAssumption DEF CheckActive, Found
    <3> QED
      BY <2>1, <3>1
  <2>6. ASSUME NEW e \in Emails, NEW count, SetAttempts(me, e, count, TRUE)
        PROVE  \E c : call'[me] = c /\ Current(c, users)
    <3> DEFINE b == Calling("count", "count write", e, Absent, Absent)
               c == [b EXCEPT !.n = count]
    <3>0. b \in CallType
      BY Names, CallingTyped
    <3>1. b.op = "count" /\ b.pc = "count write" /\ b.email = e
      BY DEF Calling
    <3>2. call'[me] = c
      BY <2>6, NextCall DEF SetAttempts
    <3> HIDE DEF b
    <3>3. /\ c.op = "count" /\ c.pc = "count write" /\ c.email = e
          /\ users[e].status = Active
      BY <2>6, <3>0, <3>1 DEF CallType, SetAttempts, Found
    <3> HIDE DEF c
    <3>4. Current(c, users)
      BY <3>3 DEF Current
    <3> QED
      BY <3>2, <3>4
  <2>7. ASSUME NEW e \in Emails, NEW flag \in BOOLEAN, BlockCall(me, e, flag)
        PROVE  \E c : call'[me] = c /\ Current(c, users)
    <3>1. \E op \in {"block", "unblock"} : Become(me, Calling(op, "block read", e, Absent, Absent))
      BY <2>7 DEF BlockCall
    <3> QED
      BY <2>1, <3>1
  <2>8. ASSUME NEW e \in Emails, NEW flag \in BOOLEAN, ActiveCall(me, e, flag)
        PROVE  \E c : call'[me] = c /\ Current(c, users)
    <3>1. \E op : Become(me, Calling(op, "set active", e, Absent, Absent))
      BY <2>8 DEF ActiveCall
    <3> QED
      BY <2>1, <3>1
  <2>9. ASSUME NEW h \in HashType, VerifyHash(me, h)
        PROVE  \E c : call'[me] = c /\ Current(c, users)
    <3>1. Become(me, Calling("verify", "verify user", h[2], Absent, Absent))
      BY <2>9 DEF VerifyHash
    <3> QED
      BY <2>1, <3>1
  <2> QED
    BY <2>2, <2>3, <2>4, <2>5, <2>6, <2>7, <2>8, <2>9 DEF Begin
<1> QED
  BY <1>1, <1>2, <1>3, QuietAlone

LEMMA CreateAlone ==
    ASSUME NEW CONSTANT me, OneThread(me), IInv, AloneInv(me), CreateUser(me, TRUE)
    PROVE  AloneInv(me)'
<1> DEFINE c == call[me]
           v == [password |-> c.password, status |-> New, attempts |-> 0]
<1>1. c.email \in Emails /\ c.password \in Passwords
  BY Mine DEF CreateUser, At, Knows
<1>2. v \in Account
  BY <1>1, StoredFields, AttemptsAssumption
<1>3. /\ SetUser(c.email, v) /\ Goto(me, "create hash")
      /\ guesses' = [guesses EXCEPT ![c.email] = 0]
  BY DEF CreateUser
<1> HIDE DEF v
<1>4. /\ users'[c.email] \in Account
      /\ \A x \in Emails : x # c.email => users'[x] = users[x]
  BY <1>1, <1>2, <1>3, Mine, SetUserEffect
<1>5. /\ guesses'[c.email] = 0
      /\ \A x \in Emails : x # c.email => guesses'[x] = guesses[x]
  BY <1>1, <1>3, Mine
<1>6. call'[me].pc = "create hash"
  BY <1>3, NextCall
<1>7. Current(call'[me], users') /\ \A x \in Emails : ~Counting(call'[me], x)
  BY <1>6 DEF Current, Counting
<1> QED
  BY <1>1, <1>4, <1>5, <1>7, RoomAtZero, WriteAlone

LEMMA SaveHashAlone ==
    ASSUME NEW CONSTANT me, OneThread(me), IInv, AloneInv(me), CreateHash(me, TRUE) \/ ResetHash(me, TRUE)
    PROVE  AloneInv(me)'
<1>1. users' = users /\ guesses' = guesses /\ Finish(me)
  BY DEF CreateHash, ResetHash, SaveHash
<1>2. \A e \in Emails : ~Counting(call[me], e)
  BY DEF CreateHash, ResetHash, At, Counting
<1> QED
  BY <1>1, <1>2, NextCall, IdleIsCurrent, QuietAlone DEF Finish

\* reset() writes back the row as it is.
LEMMA ResetWriteAlone ==
    ASSUME NEW CONSTANT me, OneThread(me), IInv, AloneInv(me), ResetWrite(me, TRUE)
    PROVE  users' = users /\ AloneInv(me)'
<1> DEFINE c == call[me]
<1>1. /\ c.email \in Emails /\ c.v \in Account /\ c.v = users[c.email]
      /\ \A e \in Emails : ~Counting(c, e)
  BY Mine DEF ResetWrite, At, Knows, AloneInv, Current, Counting
<1>2. /\ SetUser(c.email, c.v) /\ guesses' = guesses
      /\ Become(me, Calling("reset", "reset hash", c.email, Absent, Absent))
  BY DEF ResetWrite
<1>3. users' = users
  <2>1. Merge(users[c.email], c.v) = users[c.email]
    BY <1>1, MergeIs
  <2> QED
    BY <1>1, <1>2, <2>1, Mine DEF SetUser
<1>4. Current(call'[me], users)
  <2>1. call'[me].pc = "reset hash"
    <3> DEFINE n == Calling("reset", "reset hash", c.email, Absent, Absent)
    <3>1. n.pc = "reset hash"
      BY DEF Calling
    <3>2. call'[me] = n
      BY <1>2, NextCall
    <3> HIDE DEF n
    <3> QED
      BY <3>1, <3>2
  <2> QED
    BY <2>1 DEF Current
<1> QED
  BY <1>1, <1>2, <1>3, <1>4, QuietAlone

\* The writes after which the count is 0.
LEMMA RestartsAlone ==
    ASSUME NEW CONSTANT me, OneThread(me), IInv, AloneInv(me),
           \/ ForgotWrite(me, TRUE) \/ ChangeWrite(me, TRUE) \/ SetActive(me, TRUE)
           \/ CountWrite(me, TRUE) /\ call[me].op = "count"
           \/ BlockWrite(me, TRUE) /\ call[me].op = "unblock"
    PROVE  AloneInv(me)'
<1> DEFINE c == call[me]
<1>1. c.email \in Emails
  BY Mine DEF ForgotWrite, ChangeWrite, SetActive, CountWrite, BlockWrite, At, Knows
<1>2. Finish(me) /\ guesses' = [guesses EXCEPT ![c.email] = 0]
  BY DEF ForgotWrite, ChangeWrite, SetActive, SetStatus, CountWrite, BlockWrite
<1>3. \E v : SetUser(c.email, v) /\ (v \in Account \/ Storable(c.email, v))
  <2>1. CASE ForgotWrite(me, TRUE)
    <3>1. c.new \in Passwords
      BY <2>1, Mine DEF ForgotWrite, At, Knows
    <3>2. [password |-> c.new, status |-> Active, attempts |-> 0] \in Account
      BY <3>1, StoredFields, AttemptsAssumption
    <3> QED
      BY <2>1, <3>2 DEF ForgotWrite
  <2>2. CASE ChangeWrite(me, TRUE)
    <3>1. c.new \in Passwords
      BY <2>2, Mine DEF ChangeWrite, At, Knows, Fits
    <3>2. users[c.email] # NoUser
      BY <2>2, Mine DEF ChangeWrite, At, Knows
    <3> QED
      BY <2>2, <3>1, <3>2, StoredFields DEF ChangeWrite, ChangedFields, Storable
  <2>3. CASE SetActive(me, TRUE)
    BY <2>3, StoredFields DEF SetActive, SetStatus, Storable
  <2>4. CASE CountWrite(me, TRUE)
    <3>1. c.n \in 0..MAX_LOGIN_ATTEMPTS
      BY Mine DEF CallType
    <3>2. users[c.email] # NoUser
      BY <2>4, Mine DEF CountWrite, At, Knows
    <3> QED
      BY <2>4, <3>1, <3>2, StoredFields DEF CountWrite, Storable
  <2>5. CASE BlockWrite(me, TRUE)
    <3>1. c.v \in Account
      BY <2>5, Mine DEF BlockWrite, At, Knows
    <3> QED
      BY <2>5, <3>1 DEF BlockWrite
  <2> QED
    BY <2>1, <2>2, <2>3, <2>4, <2>5
<1>4. PICK v : SetUser(c.email, v) /\ (v \in Account \/ Storable(c.email, v))
  BY <1>3
<1>5. users[c.email] \in Account \cup {NoUser}
  BY <1>1, Mine
<1>6. Merge(users[c.email], v) \in Account
  BY <1>4, <1>5, MergeGivesAccount DEF Storable
<1>7. guesses'[c.email] = 0
  BY <1>1, <1>2, Mine
<1>8. Room(Merge(users[c.email], v), guesses'[c.email], FALSE)
  BY <1>6, <1>7, RoomAtZero
<1> HIDE DEF c
<1> QED
  BY <1>1, <1>2, <1>4, <1>8, WriteEnds DEF c

\* check() finds the account still there and active.
LEMMA CheckExistsAlone ==
    ASSUME NEW CONSTANT me, OneThread(me), IInv, AloneInv(me), CheckExists(me, TRUE)
    PROVE  AloneInv(me)'
<1> DEFINE c == call[me]
<1>1. c.pc = "exists" /\ users[c.email].status = Active /\ c.password # Absent
  BY DEF CheckExists, At, AloneInv, Current
<1>2. c.email \in Emails
  BY <1>1, Mine DEF Knows
<1>3. users[c.email] # NoUser
  BY <1>1, <1>2, Mine, FoundIs DEF Found
<1>4. users' = users /\ guesses' = guesses /\ Goto(me, "authorize")
  BY <1>3 DEF CheckExists, Found
<1>5. /\ call'[me].pc = "authorize" /\ call'[me].email = c.email
      /\ call'[me].password = c.password
  BY <1>4, NextCall
<1>6. Current(call'[me], users)
  BY <1>1, <1>5 DEF Current
<1>7. \A e \in Emails : ~Counting(c, e)
  BY <1>1 DEF Counting
<1> QED
  BY <1>4, <1>6, <1>7, QuietAlone

\* A wrong password finds room in the count, as the account is active.
LEMMA AuthorizeAlone ==
    ASSUME NEW CONSTANT me, OneThread(me), IInv, AloneInv(me), Authorize(me, TRUE)
    PROVE  AloneInv(me)'
<1> DEFINE c == call[me]
           u == users[c.email]
<1>1. c.pc = "authorize" /\ u.status = Active /\ c.password # Absent
  BY DEF Authorize, At, AloneInv, Current
<1>2. c.email \in Emails /\ c.op \in {"check", "change"}
  BY <1>1, Mine DEF Knows, Fits
<1>3. \A e \in Emails : ~Counting(c, e)
  BY <1>1 DEF Counting
<1>4. Room(u, guesses[c.email], FALSE)
  BY <1>2, <1>3 DEF AloneInv, Room
<1>5. users' = users
  BY DEF Authorize
<1>6. CASE u.password = c.password
  <2>1. Goto(me, "clear active") /\ guesses' = [guesses EXCEPT ![c.email] = guesses[c.email]]
    BY <1>1, <1>6 DEF Authorize, Authorizes, Found
  <2>2. guesses' = guesses
    BY <1>2, <2>1, Mine
  <2>3. call'[me].pc = "clear active" /\ call'[me].email = c.email
    BY <2>1, NextCall
  <2>4. Current(call'[me], users)
    BY <1>1, <1>6, <2>3 DEF Current
  <2> QED
    BY <1>3, <1>5, <2>2, <2>4, QuietAlone
<1>8. CASE u.password = Absent
  <2>1. /\ Goto(me, "fail active")
        /\ guesses' = [guesses EXCEPT ![c.email] = guesses[c.email]]
    BY <1>1, <1>8 DEF Authorize, Authorizes, Found
  <2>2. guesses' = guesses
    BY <1>2, <2>1, Mine
  <2>3. call'[me].pc = "fail active" /\ call'[me].email = c.email
    BY <2>1, NextCall
  <2>4. Current(call'[me], users)
    BY <1>1, <2>3 DEF Current
  <2> QED
    BY <1>3, <1>5, <2>2, <2>4, QuietAlone
<1>7. CASE u.password # c.password /\ u.password # Absent
  <2>1. guesses[c.email] < MAX_LOGIN_ATTEMPTS
    BY <1>1, <1>4, <1>7 DEF Room
  <2>2. /\ guesses[c.email] \in Nat /\ MAX_LOGIN_ATTEMPTS \in Nat
        /\ guesses[c.email] <= MAX_LOGIN_ATTEMPTS
    BY <1>2, <2>1, Mine, AttemptsAssumption
  <2>3. /\ Goto(me, "fail active")
        /\ guesses' = [guesses EXCEPT ![c.email] = guesses[c.email] + 1]
    <3>1. Goto(me, "fail active")
      BY <1>1, <1>7 DEF Authorize, Authorizes, Found
    <3>2. guesses' = [guesses EXCEPT ![c.email] =
                         IF u.status = Active /\ u.password \notin {Absent, c.password}
                            /\ guesses[c.email] <= MAX_LOGIN_ATTEMPTS
                         THEN guesses[c.email] + 1 ELSE guesses[c.email]]
      BY DEF Authorize, Found
    <3> QED
      BY <1>1, <1>7, <2>2, <3>1, <3>2
  <2>4. call'[me].pc = "fail active" /\ call'[me].email = c.email /\ call'[me].op = c.op
    BY <2>3, NextCall
  <2>5. Current(call'[me], users')
    BY <1>1, <1>5, <2>4 DEF Current
  <2>6. Counting(call'[me], c.email)
    BY <1>2, <2>4 DEF Counting
  <2>7. ASSUME NEW e \in Emails
        PROVE  Room(users'[e], guesses'[e], Counting(call'[me], e))
    <3>1. CASE e = c.email
      <4>1. guesses'[e] = guesses[e] + 1
        BY <1>2, <2>3, <3>1, Mine
      <4>2. u # NoUser /\ u.status # New
        BY <1>1, <1>2, Mine, FoundIs DEF Found, New, Active
      <4>3. u.attempts \in Nat
        BY <1>2, <1>7, <4>2, Mine DEF Account
      <4>4. /\ guesses[e] + 1 <= MAX_LOGIN_ATTEMPTS
            /\ guesses[e] + 1 <= u.attempts + 1
        BY <1>1, <1>4, <1>7, <2>1, <2>2, <3>1, <4>3 DEF Room
      <4> QED
        BY <1>5, <1>7, <2>6, <3>1, <4>1, <4>2, <4>4 DEF Room
    <3>2. CASE e # c.email
      <4>1. guesses'[e] = guesses[e]
        BY <2>3, <3>2, Mine
      <4>2. ~Counting(c, e) /\ ~Counting(call'[me], e)
        BY <2>4, <3>2 DEF Counting
      <4>3. Room(users[e], guesses[e], Counting(c, e))
        BY DEF AloneInv
      <4> QED
        BY <1>5, <4>1, <4>2, <4>3 DEF Room
    <3> QED
      BY <3>1, <3>2
  <2> QED
    BY <2>5, <2>7 DEF AloneInv
<1> QED
  BY <1>6, <1>7, <1>8

\* attempts() finds the account active, before it clears the count or raises it.
LEMMA ActiveAlone ==
    ASSUME NEW CONSTANT me, OneThread(me), IInv, AloneInv(me),
           ClearActive(me, TRUE) \/ FailActive(me, TRUE) \/ CountActive(me, TRUE)
    PROVE  AloneInv(me)'
<1> DEFINE c == call[me]
<1>1. /\ c.pc \in {"clear active", "fail active", "count active"}
      /\ users[c.email].status = Active
  BY DEF ClearActive, FailActive, CountActive, At, AloneInv, Current
<1>2. c.op \in {"check", "change"}
  BY <1>1, Mine DEF Fits
<1>3. users' = users /\ guesses' = guesses
  BY DEF ClearActive, FailActive, CountActive
<1>4. CASE c.pc = "clear active"
  <2>0. users[c.email].password # Absent
    BY <1>4 DEF AloneInv, Current
  <2>1. Goto(me, "clear")
    BY <1>1, <1>4 DEF ClearActive, FailActive, CountActive, At, Found
  <2>2. call'[me].pc = "clear" /\ call'[me].email = c.email
    BY <2>1, NextCall
  <2>3. Current(call'[me], users)
    BY <1>1, <2>0, <2>2 DEF Current
  <2>4. \A e \in Emails : ~Counting(c, e)
    BY <1>4 DEF Counting
  <2> QED
    BY <1>3, <2>3, <2>4, QuietAlone
<1>5. CASE c.pc = "fail active"
  <2>1. Goto(me, "fail count")
    BY <1>1, <1>5 DEF ClearActive, FailActive, CountActive, At, Found
  <2>2. call'[me].pc = "fail count" /\ call'[me].email = c.email /\ call'[me].op = c.op
    BY <2>1, NextCall
  <2>3. Current(call'[me], users)
    BY <1>1, <2>2 DEF Current
  <2>4. \A e \in Emails : Counting(c, e) => Counting(call'[me], e)
    BY <2>2 DEF Counting
  <2> QED
    BY <1>3, <2>3, <2>4, QuietAlone
<1>6. CASE c.pc = "count active"
  <2>1. /\ c.n = users[c.email].attempts + 1 /\ c.n < MAX_LOGIN_ATTEMPTS
        /\ users[c.email].attempts # Absent
    BY <1>2, <1>6 DEF AloneInv, Current
  <2>2. c.n <= MAX_LOGIN_ATTEMPTS
    BY <2>1, Mine, AttemptsAssumption DEF CallType
  <2>3. Goto(me, "count write")
    BY <1>1, <1>6, <2>2 DEF ClearActive, FailActive, CountActive, At, Found
  <2>4. /\ call'[me].pc = "count write" /\ call'[me].email = c.email
        /\ call'[me].op = c.op /\ call'[me].n = c.n
    BY <2>3, NextCall
  <2>5. Current(call'[me], users)
    BY <1>1, <1>2, <2>1, <2>4 DEF Current
  <2>6. \A e \in Emails : Counting(c, e) => Counting(call'[me], e)
    BY <2>4 DEF Counting
  <2> QED
    BY <1>3, <2>5, <2>6, QuietAlone
<1> QED
  BY <1>1, <1>4, <1>5, <1>6

\* A field set without a status leaves the status of every account.
LEMMA KeepsStatus ==
    ASSUME IInv, NEW e \in Emails, users[e] # NoUser, NEW v \in PartialType,
           SetUser(e, v), v.status = Absent
    PROVE  \A x \in Emails : users'[x].status = users[x].status
<1>1. TypeOK
  BY DEF IInv
<1>2. users[e] \in Account
  BY <1>1 DEF TypeOK
<1>3. Merge(users[e], v).status = users[e].status
  BY <1>2, MergeGivesAccount
<1>4. /\ users'[e] = Merge(users[e], v)
      /\ \A x \in Emails : x # e => users'[x] = users[x]
  BY <1>1, SetUserEffect DEF Storable
<1> QED
  BY <1>3, <1>4

\* A successful check restarts the count.
LEMMA ClearAlone ==
    ASSUME NEW CONSTANT me, OneThread(me), IInv, AloneInv(me), Clear(me, TRUE)
    PROVE  AloneInv(me)'
<1> DEFINE c == call[me]
           v == Field("attempts", 0)
<1>1. c.email \in Emails /\ users[c.email] # NoUser
  BY Mine DEF Clear, At, Knows
<1>2. v \in PartialType
  BY StoredFields, AttemptsAssumption
<1>3. /\ SetUser(c.email, v) /\ guesses' = [guesses EXCEPT ![c.email] = 0]
      /\ Goto(me, "change write") \/ Finish(me)
  BY DEF Clear, Succeed
<1> HIDE DEF v
<1>4. /\ users'[c.email] \in Account
      /\ \A x \in Emails : x # c.email => users'[x] = users[x]
  BY <1>1, <1>2, <1>3, Mine, SetUserEffect DEF Storable
<1>5. /\ guesses'[c.email] = 0
      /\ \A x \in Emails : x # c.email => guesses'[x] = guesses[x]
  BY <1>1, <1>3, Mine
<1>6. users'[c.email].status = Active
  <2>1. users[c.email].status = Active
    BY DEF Clear, At, AloneInv, Current
  <2>2. v.status = Absent
    BY StoredFields, AttemptsAssumption DEF v
  <2> QED
    BY <1>1, <1>2, <1>3, <2>1, <2>2, Mine, KeepsStatus
<1>9. users'[c.email].password # Absent
  <2>1. users[c.email].password # Absent
    BY DEF Clear, At, AloneInv, Current
  <2>2. v.password = Absent
    BY DEF v, Field, NoUser
  <2>3. users'[c.email] = Merge(users[c.email], v)
    BY <1>1, <1>3, Mine DEF SetUser
  <2> QED
    BY <2>1, <2>2, <2>3 DEF Merge
<1>7. CASE Goto(me, "change write")
  <2>1. call'[me].pc = "change write" /\ call'[me].email = c.email
    BY <1>7, NextCall
  <2>2. Current(call'[me], users') /\ \A x \in Emails : ~Counting(call'[me], x)
    BY <1>6, <1>9, <2>1 DEF Current, Counting
  <2> QED
    BY <1>1, <1>4, <1>5, <2>2, RoomAtZero, WriteAlone
<1>8. CASE Finish(me)
  <2>1. call'[me] = NoCall
    BY <1>8, NextCall DEF Finish
  <2> QED
    BY <1>1, <1>4, <1>5, <2>1, IdleIsCurrent, RoomAtZero, WriteAlone
<1> QED
  BY <1>3, <1>7, <1>8

\* The count that was read decides between the block and the next count.
LEMMA FailCountAlone ==
    ASSUME NEW CONSTANT me, OneThread(me), IInv, AloneInv(me), FailCount(me, TRUE)
    PROVE  AloneInv(me)'
<1> DEFINE c == call[me]
           cnt == users[c.email].attempts
           m == IF LocksOut(cnt + 1) THEN 0 ELSE cnt + 1
           pc == IF LocksOut(cnt + 1) THEN "block read" ELSE "count active"
           b == Calling(c.op, pc, c.email, Absent, Absent)
           n == [b EXCEPT !.n = m]
<1>1. c.pc = "fail count" /\ users[c.email].status = Active
  BY DEF FailCount, At, AloneInv, Current
<1>2. c.email \in Emails /\ c.op \in {"check", "change"}
  BY <1>1, Mine DEF Knows, Fits
<1>3. users[c.email] \in Account
  BY <1>1, <1>2, Mine, FoundIs DEF Found
<1>5. users' = users /\ guesses' = guesses
  BY DEF FailCount
<1>13. CASE cnt = Absent
  <2>1. call'[me] = NoCall
    BY <1>13, NextCall DEF FailCount, Found, Finish
  <2>2. users[c.email].password = Absent
    BY <1>3, <1>13 DEF Account
  <2>3. Room(users[c.email], guesses[c.email], FALSE)
    BY <1>2, <2>2 DEF AloneInv, Room
  <2> QED
    BY <1>2, <1>5, <2>1, <2>3, IdleIsCurrent, WriteAlone
<1>14. CASE cnt # Absent
  <2>4. cnt \in Nat /\ cnt # Absent
    BY <1>3, <1>14 DEF Account
  <2>6. call'[me] = n
    <3>1. Become(me, n)
      BY <2>4 DEF FailCount, Found
    <3> QED
      BY <3>1, NextCall
  <2>7. b \in CallType
    BY <1>2, Mine, Names, CallingTyped DEF CallType
  <2>8. b.op = c.op /\ b.pc = pc /\ b.email = c.email
    BY DEF Calling
  <2> HIDE DEF b
  <2>9. n.op = c.op /\ n.pc = pc /\ n.email = c.email /\ n.n = m
    BY <2>7, <2>8 DEF CallType
  <2>10. /\ pc \in {"block read", "count active"}
         /\ pc = "block read" => LocksOut(cnt + 1)
         /\ pc = "count active" => m = cnt + 1 /\ m < MAX_LOGIN_ATTEMPTS
    BY <2>4, AttemptsAssumption DEF LocksOut
  <2> HIDE DEF n, pc, m
  <2>11. Current(n, users)
    BY <1>1, <1>14, <2>9, <2>10 DEF Current
  <2>12. \A e \in Emails : Counting(c, e) => Counting(n, e)
    BY <2>9, <2>10 DEF Counting
  <2> QED
    BY <1>5, <2>6, <2>11, <2>12, QuietAlone
<1> QED
  BY <1>13, <1>14

\* The count that check() stores makes up for the guess.
LEMMA CountWriteAlone ==
    ASSUME NEW CONSTANT me, OneThread(me), IInv, AloneInv(me), CountWrite(me, TRUE),
           call[me].op # "count"
    PROVE  AloneInv(me)'
<1> DEFINE c == call[me]
           u == users[c.email]
           v == Field("attempts", c.n)
<1>1. c.pc = "count write" /\ c.op \in {"check", "change"}
  BY Mine DEF CountWrite, At, Fits
<1>2. /\ c.email \in Emails /\ u # NoUser /\ u \in Account
      /\ c.n \in 0..MAX_LOGIN_ATTEMPTS
  BY <1>1, Mine DEF Knows, CallType
<1>3. /\ u.status = Active /\ c.n = u.attempts + 1 /\ u.attempts # Absent
      /\ c.n < MAX_LOGIN_ATTEMPTS
  BY <1>1 DEF AloneInv, Current
<1>4. Room(u, guesses[c.email], TRUE)
  BY <1>2 DEF AloneInv, Room
<1>5. SetUser(c.email, v) /\ Finish(me) /\ guesses' = guesses
  BY <1>1 DEF CountWrite
<1>6. v \in PartialType
  BY <1>2, StoredFields
<1>7. Merge(u, v) = [u EXCEPT !.attempts = c.n]
  BY <1>2, MergeIs
<1>8. Room(Merge(u, v), guesses[c.email], FALSE)
  <2>1. /\ Merge(u, v).status = Active /\ Merge(u, v).attempts = c.n
        /\ Merge(u, v).password = u.password
    BY <1>2, <1>3, <1>7 DEF Account
  <2>2. guesses[c.email] \in Nat /\ MAX_LOGIN_ATTEMPTS \in Nat /\ u.attempts \in Nat
    BY <1>2, <1>3, Mine, AttemptsAssumption DEF Account
  <2>3. /\ guesses[c.email] <= MAX_LOGIN_ATTEMPTS
        /\ u.password = Absent => guesses[c.email] = 0
        /\ u.password # Absent =>
              guesses[c.email] <= c.n /\ guesses[c.email] < MAX_LOGIN_ATTEMPTS
    BY <1>2, <1>3, <1>4, <2>2 DEF Room
  <2> HIDE DEF u, v
  <2> QED
    BY <1>2, <2>1, <2>2, <2>3 DEF Room, New, Active
<1> HIDE DEF v
<1> QED
  BY <1>2, <1>5, <1>6, <1>8, WriteEnds DEF Storable

\* block() reads the row that it is going to write back.
LEMMA BlockReadAlone ==
    ASSUME NEW CONSTANT me, OneThread(me), IInv, AloneInv(me), BlockRead(me, TRUE)
    PROVE  AloneInv(me)'
<1> DEFINE c == call[me]
           u == users[c.email]
           v == [u EXCEPT !.status = IF c.op = "unblock" THEN Active ELSE Blocked]
           b == Calling(c.op, "block write", c.email, Absent, Absent)
           n == [b EXCEPT !.v = v]
<1>1. /\ c.pc = "block read" /\ users' = users /\ guesses' = guesses
      /\ c.op \in {"check", "change"} =>
            u.status = Active /\ u.attempts # Absent /\ LocksOut(u.attempts + 1)
  BY DEF BlockRead, At, AloneInv, Current
<1>2. c.email \in Emails /\ c \in CallType
  BY <1>1, Mine DEF Knows
<1>3. CASE u = NoUser
  <2>1. u.status # Active
    BY <1>3, AbsentAssumption DEF NoUser, Active
  <2>2. \A e \in Emails : ~Counting(c, e)
    BY <1>1, <2>1 DEF Counting
  <2>3. call'[me] = NoCall
    BY <1>3, NextCall DEF BlockRead, Found, Finish
  <2> QED
    BY <1>1, <2>2, <2>3, IdleIsCurrent, QuietAlone
<1>4. CASE u # NoUser
  <2>1. call'[me] = n
    <3>1. Become(me, n)
      BY <1>4 DEF BlockRead, Found
    <3> QED
      BY <3>1, NextCall
  <2>2. b \in CallType
    BY <1>2, Names, CallingTyped DEF CallType
  <2>3. b.op = c.op /\ b.pc = "block write" /\ b.email = c.email
    BY DEF Calling
  <2> HIDE DEF b, v
  <2>4. n.op = c.op /\ n.pc = "block write" /\ n.email = c.email /\ n.v = v
    BY <2>2, <2>3 DEF CallType
  <2> HIDE DEF n
  <2>5. Current(n, users)
    BY <1>1, <2>4 DEF Current, v
  <2>6. \A e \in Emails : Counting(c, e) => Counting(n, e)
    BY <2>4 DEF Counting
  <2> QED
    BY <1>1, <2>1, <2>5, <2>6, QuietAlone
<1> QED
  BY <1>3, <1>4

\* A guess that blocks the account needs no count any more.
LEMMA BlockWriteAlone ==
    ASSUME NEW CONSTANT me, OneThread(me), IInv, AloneInv(me), BlockWrite(me, TRUE),
           call[me].op # "unblock"
    PROVE  AloneInv(me)'
<1> DEFINE c == call[me]
           u == users[c.email]
<1>1. c.email \in Emails /\ c.v \in Account /\ c.v.status = Blocked
  BY Mine DEF BlockWrite, At, Knows
<1>2. SetUser(c.email, c.v) /\ Finish(me) /\ guesses' = guesses
  BY DEF BlockWrite
<1>7. c.pc = "block write" /\ u # NoUser
  BY Mine DEF BlockWrite, At, Knows
<1>8. u \in Account
  BY <1>1, <1>7, Mine
<1>6. c.v = [u EXCEPT !.status = IF c.op = "unblock" THEN Active ELSE Blocked]
  BY <1>7 DEF AloneInv, Current
<1>3. Merge(u, c.v) = c.v /\ c.v.password = u.password
  BY <1>6, <1>8, MergeIs DEF Account
<1>4. /\ guesses[c.email] <= MAX_LOGIN_ATTEMPTS
      /\ u.password = Absent => guesses[c.email] = 0
  BY <1>1 DEF AloneInv, Room
<1>5. Room(c.v, guesses[c.email], FALSE)
  BY <1>1, <1>3, <1>4 DEF Room, New, Active, Blocked
<1> HIDE DEF c
<1> QED
  BY <1>1, <1>2, <1>3, <1>5, WriteEnds DEF c

\* verify() finds the account still new when it makes it active.
LEMMA VerifyAlone ==
    ASSUME NEW CONSTANT me, OneThread(me), IInv, AloneInv(me),
           VerifyUser(me, TRUE) \/ Activate(me, TRUE)
    PROVE  AloneInv(me)'
<1> DEFINE c == call[me]
           u == users[c.email]
<1>1. c.pc \in {"verify user", "activate"} /\ guesses' = guesses
  BY DEF VerifyUser, Activate, At
<1>2. c.email \in Emails /\ u # NoUser /\ u \in Account
  BY <1>1, Mine DEF Knows
<1>3. \A e \in Emails : ~Counting(c, e)
  BY <1>1 DEF Counting
<1>4. CASE VerifyUser(me, TRUE)
  <2>1. users' = users
    BY <1>4 DEF VerifyUser
  <2>2. CASE u.status = New /\ Goto(me, "activate")
    <3>1. call'[me].pc = "activate" /\ call'[me].email = c.email
      BY <2>2, NextCall
    <3>2. Current(call'[me], users)
      BY <2>2, <3>1 DEF Current
    <3> QED
      BY <1>1, <1>3, <2>1, <3>2, QuietAlone
  <2>3. CASE Finish(me)
    <3>1. call'[me] = NoCall
      BY <2>3, NextCall DEF Finish
    <3> QED
      BY <1>1, <1>3, <2>1, <3>1, IdleIsCurrent, QuietAlone
  <2> QED
    BY <1>4, <2>2, <2>3 DEF VerifyUser, Found, Verifiable
<1>5. CASE Activate(me, TRUE)
  <2> DEFINE v == Field("status", Active)
  <2>1. u.status = New
    BY <1>5 DEF Activate, At, AloneInv, Current
  <2>2. guesses[c.email] = 0
    BY <1>2, <2>1 DEF AloneInv, Room
  <2>3. SetUser(c.email, v) /\ Finish(me)
    BY <1>5 DEF Activate, SetStatus
  <2>4. v \in PartialType /\ v.status # Absent
    BY StoredFields
  <2>5. Room(Merge(u, v), guesses'[c.email], FALSE)
    BY <1>1, <1>2, <2>2, <2>4, MergeGivesAccount, RoomAtZero
  <2> HIDE DEF c, v
  <2> QED
    BY <1>1, <1>2, <2>3, <2>4, <2>5, WriteEnds DEF c, Storable
<1> QED
  BY <1>4, <1>5

\* The invariant of the only thread is inductive, beside that of every thread.
LEMMA NextAlone ==
    ASSUME NEW CONSTANT me, OneThread(me), IInv, AloneInv(me), [Next]_vars
    PROVE  AloneInv(me)'
<1>1. CASE (\E e \in Emails : Begin(me, e, TRUE)) \/ (\E h \in HashType : VerifyHash(me, h))
  BY <1>1, BeginAlone
<1>2. CASE Continue(me, TRUE)
  <2>1. CASE CountWrite(me, TRUE)
    BY <2>1, CountWriteAlone, RestartsAlone
  <2>2. CASE BlockWrite(me, TRUE)
    BY <2>2, BlockWriteAlone, RestartsAlone
  <2> QED
    BY <1>2, <2>1, <2>2, CreateAlone, SaveHashAlone, ResetWriteAlone, RestartsAlone,
       CheckExistsAlone, AuthorizeAlone, ActiveAlone, ClearAlone, FailCountAlone,
       BlockReadAlone, VerifyAlone DEF Continue
<1>3. CASE UNCHANGED vars
  BY <1>3 DEF vars, AloneInv
<1> QED
  BY <1>1, <1>2, <1>3 DEF Next, Crash, OneThread

LEMMA InitAlone ==
    ASSUME NEW CONSTANT me, OneThread(me), Init
    PROVE  AloneInv(me)
<1>1. call[me] = NoCall
  BY DEF Init, OneThread
<1>2. \A e \in Emails : users[e] = NoUser /\ guesses[e] = 0
  BY DEF Init
<1>3. NoUser.status # Active
  BY AbsentAssumption DEF NoUser, Active
<1> QED
  BY <1>1, <1>2, <1>3, IdleIsCurrent, AttemptsAssumption DEF AloneInv, Room
----------------------------------------------------------------------------
(* Blocked accounts.                                                       *)

\* The only thread unblocks an account only in the last step of a call meant for it.
LEMMA OnlyUnblocks ==
    ASSUME NEW CONSTANT me, OneThread(me), IInv, AloneInv(me), Continue(me, TRUE),
           NEW e \in Emails, users[e].status = Blocked, users'[e].status # Blocked
    PROVE  /\ call[me].email = e /\ call'[me] # call[me]
           /\ call[me].op \in {"forgot", "unblock", "activate", "deactivate"}
<1> DEFINE c == call[me]
<1>1. users[e] # NoUser
  BY AbsentAssumption DEF NoUser, Blocked
<1>2. ASSUME NEW v, SetUser(c.email, v), e # c.email
      PROVE  FALSE
  BY <1>2, Mine DEF SetUser
<1>3. ASSUME Finish(me), c.pc # "idle"
      PROVE  call'[me] # c
  <2>1. call'[me] = NoCall /\ NoCall.pc = "idle"
    BY <1>3, NextCall DEF Finish, NoCall, Calling
  <2> QED
    BY <1>3, <2>1
<1>4. CASE CreateHash(me, TRUE) \/ ResetHash(me, TRUE) \/ CheckExists(me, TRUE)
           \/ Authorize(me, TRUE) \/ ClearActive(me, TRUE) \/ FailActive(me, TRUE)
           \/ FailCount(me, TRUE) \/ CountActive(me, TRUE) \/ BlockRead(me, TRUE)
           \/ VerifyUser(me, TRUE)
  BY <1>4 DEF CreateHash, ResetHash, SaveHash, CheckExists, Authorize, ClearActive, FailActive,
     FailCount, CountActive, BlockRead, VerifyUser
<1>5. CASE CreateUser(me, TRUE)
  <2>1. users[c.email] = NoUser
    BY <1>5 DEF CreateUser, At, AloneInv, Current
  <2>2. \E v : SetUser(c.email, v)
    BY <1>5 DEF CreateUser
  <2> QED
    BY <1>1, <1>2, <2>1, <2>2
<1>6. CASE ResetWrite(me, TRUE)
  BY <1>6, ResetWriteAlone
<1>7. CASE ForgotWrite(me, TRUE) \/ SetActive(me, TRUE)
           \/ (BlockWrite(me, TRUE) /\ c.op = "unblock")
  <2>1. /\ Finish(me) /\ c.pc # "idle" /\ \E v : SetUser(c.email, v)
        /\ c.op \in {"forgot", "unblock", "activate", "deactivate"}
    BY <1>7, Mine DEF ForgotWrite, SetActive, SetStatus, BlockWrite, At, Fits
  <2> QED
    BY <1>2, <1>3, <2>1
<1>8. CASE Clear(me, TRUE)
  <2>1. c.email \in Emails /\ users[c.email] # NoUser /\ SetUser(c.email, Field("attempts", 0))
    BY <1>8, Mine DEF Clear, At, Knows
  <2>2. Field("attempts", 0) \in PartialType /\ Field("attempts", 0).status = Absent
    BY StoredFields, AttemptsAssumption
  <2> QED
    BY <2>1, <2>2, KeepsStatus
<1>9. CASE ChangeWrite(me, TRUE)
  <2>1. /\ c.email \in Emails /\ users[c.email] # NoUser /\ c.new \in Passwords
        /\ SetUser(c.email, ChangedFields(c))
    BY <1>9, Mine DEF ChangeWrite, At, Knows, Fits
  <2>2. ChangedFields(c) \in PartialType /\ ChangedFields(c).status = Absent
    BY <2>1, StoredFields DEF ChangedFields
  <2> QED
    BY <2>1, <2>2, KeepsStatus
<1>10. CASE CountWrite(me, TRUE)
  <2>1. /\ c.email \in Emails /\ users[c.email] # NoUser /\ c.n \in 0..MAX_LOGIN_ATTEMPTS
        /\ SetUser(c.email, Field("attempts", c.n))
    BY <1>10, Mine DEF CountWrite, At, Knows, CallType
  <2>2. Field("attempts", c.n) \in PartialType /\ Field("attempts", c.n).status = Absent
    BY <2>1, StoredFields
  <2> QED
    BY <2>1, <2>2, KeepsStatus
<1>11. CASE BlockWrite(me, TRUE) /\ c.op # "unblock"
  <2>1. /\ c.email \in Emails /\ c.v \in Account /\ c.v.status = Blocked
        /\ SetUser(c.email, c.v)
    BY <1>11, Mine DEF BlockWrite, At, Knows
  <2>2. users'[c.email] = Merge(users[c.email], c.v)
    BY <2>1, Mine, SetUserEffect
  <2>3. users[c.email] \in Account \cup {NoUser}
    BY <2>1, Mine DEF TypeOK
  <2>4. c.v \in PartialType /\ c.v.status # Absent
    BY <2>1, MergeGivesAccount
  <2>5. Merge(users[c.email], c.v).status = c.v.status
    BY <2>3, <2>4, MergeGivesAccount
  <2> QED
    BY <1>2, <2>1, <2>2, <2>5
<1>12. CASE Activate(me, TRUE)
  <2>1. users[c.email].status = New
    BY <1>12 DEF Activate, At, AloneInv, Current
  <2>2. \E v : SetUser(c.email, v)
    BY <1>12 DEF Activate, SetStatus
  <2> QED
    BY <1>2, <2>1, <2>2 DEF New, Blocked
<1> QED
  BY <1>4, <1>5, <1>6, <1>7, <1>8, <1>9, <1>10, <1>11, <1>12 DEF Continue

----------------------------------------------------------------------------
(* The calls of one thread keep the promise of Accounts.                   *)

\* What the only thread is doing.
LEMMA DoingIs ==
    ASSUME NEW CONSTANT me, OneThread(me)
    PROVE  /\ Ready(me) => Doing = [op |-> "none", email |-> Absent]
           /\ ~Ready(me) => Doing = [op |-> call[me].op, email |-> call[me].email]
           /\ call'[me].pc = "idle" => Doing' = [op |-> "none", email |-> Absent]
           /\ call'[me].pc # "idle" => Doing' = [op |-> call'[me].op, email |-> call'[me].email]
<1>1. Threads = {me}
  BY DEF OneThread
<1> QED
  BY <1>1 DEF Doing, Ready

LEMMA SameAccount == Promise!Account = Account
BY DEF Promise!Account, Account, Promise!New, New, Promise!Active, Active, Promise!Blocked, Blocked

\* A call that begins.
LEMMA BeginsAsPromised ==
    ASSUME NEW CONSTANT me, OneThread(me), IInv, IInv',
           (\E e \in Emails : Begin(me, e, TRUE)) \/ (\E h \in HashType : VerifyHash(me, h))
    PROVE  Promise!Next \/ UNCHANGED <<users, Doing>>
<1>1. Ready(me) /\ users' = users
  BY DEF Begin, CreateExists, ResetRead, ForgotExists, CheckActive, SetAttempts,
     BlockCall, ActiveCall, VerifyHash
<1>2. Doing = Promise!Nothing
  BY <1>1, DoingIs DEF Promise!Nothing
<1>3. CASE call'[me].pc = "idle"
  BY <1>1, <1>2, <1>3, DoingIs DEF Promise!Nothing
<1>4. CASE call'[me].pc # "idle"
  <2>1. call'[me].op \in Ops \ {"none"} /\ call'[me].email \in Emails
    <3>1. call'[me] \in CallType /\ me \in Threads /\ Knows(call'[me], users')
      BY DEF IInv, TypeOK, OneThread
    <3>2. call'[me].email \in Emails
      BY <1>4, <3>1 DEF Knows
    <3>3. call'[me].op # "none"
      <4>1. Fits(call'[me]) /\ call'[me].pc \in Steps
        BY <3>1 DEF IInv, CallType
      <4> QED
        BY <1>4, <4>1 DEF Fits, Steps
    <3> QED
      BY <3>1, <3>2, <3>3 DEF CallType
  <2>2. Ops \ {"none"} = Promise!Ops
    BY DEF Ops, Promise!Ops
  <2>3. Doing' = [op |-> call'[me].op, email |-> call'[me].email]
    BY <1>4, DoingIs
  <2>4. Promise!Begin
    BY <1>1, <1>2, <2>1, <2>2, <2>3 DEF Promise!Begin
  <2> QED
    BY <2>4 DEF Promise!Next
<1> QED
  BY <1>3, <1>4

\* A step inside a call that changes no row.
LEMMA QuietAsPromised ==
    ASSUME NEW CONSTANT me, OneThread(me), users' = users, ~Ready(me),
           \/ call'[me].pc = "idle"
           \/ call'[me].op = call[me].op /\ call'[me].email = call[me].email
    PROVE  Promise!Next \/ UNCHANGED <<users, Doing>>
<1>1. Doing = [op |-> call[me].op, email |-> call[me].email]
  BY DoingIs
<1>2. CASE call'[me].pc = "idle"
  <2>1. Promise!End
    BY <1>2, DoingIs DEF Promise!End, Promise!Nothing
  <2> QED
    BY <2>1 DEF Promise!Next
<1>3. CASE call'[me].pc # "idle"
  BY <1>1, <1>3, DoingIs
<1> QED
  BY <1>2, <1>3

\* A step inside a call that stores what the call may store.
LEMMA ChangeAsPromised ==
    ASSUME NEW CONSTANT me, OneThread(me), IInv, ~Ready(me), NEW v,
           SetUser(call[me].email, v), Merge(users[call[me].email], v) \in Account,
           Promise!Becomes(call[me].op, call[me].email, Merge(users[call[me].email], v)),
           \/ call'[me].pc = "idle"
           \/ call'[me].op = call[me].op /\ call'[me].email = call[me].email
    PROVE  Promise!Next
<1> DEFINE c == call[me]
           a == Merge(users[c.email], v)
<1>1. Doing = [op |-> c.op, email |-> c.email] /\ c.email \in Emails
  BY DoingIs, Mine DEF Ready, Knows
<1>2. Doing # Promise!Nothing
  BY <1>1, AbsentAssumption DEF Promise!Nothing
<1>3. users' = [users EXCEPT ![c.email] = a]
  BY <1>1, Mine DEF SetUser
<1>4. Doing' \in {Doing, Promise!Nothing}
  BY <1>1, DoingIs DEF Promise!Nothing
<1>5. Doing.op = c.op /\ Doing.email = c.email
  BY <1>1
<1>6. a \in Promise!Account /\ Promise!Becomes(Doing.op, Doing.email, a)
  BY <1>5, SameAccount
<1>7. users' = [users EXCEPT ![Doing.email] = a]
  BY <1>3, <1>5
<1> HIDE DEF a, c
<1>8. Promise!Change
  BY <1>2, <1>4, <1>6, <1>7 DEF Promise!Change
<1> QED
  BY <1>8 DEF Promise!Next

\* The rows that the calls of one thread store are those that Accounts promises.
LEMMA WritesAsPromised ==
    ASSUME NEW CONSTANT me, OneThread(me), IInv, AloneInv(me),
           \/ CreateUser(me, TRUE) \/ ForgotWrite(me, TRUE) \/ Clear(me, TRUE)
           \/ ChangeWrite(me, TRUE) \/ CountWrite(me, TRUE) \/ BlockWrite(me, TRUE)
           \/ Activate(me, TRUE) \/ SetActive(me, TRUE)
    PROVE  \E v : /\ SetUser(call[me].email, v)
                  /\ Merge(users[call[me].email], v) \in Account
                  /\ Promise!Becomes(call[me].op, call[me].email, Merge(users[call[me].email], v))
<1> DEFINE c == call[me]
           e == c.email
           u == users[e]
<1>1. /\ c \in CallType /\ Fits(c) /\ Knows(c, users) /\ Current(c, users)
      /\ users \in [Emails -> Account \cup {NoUser}]
  BY Mine DEF AloneInv
<1>2. ASSUME NEW v \in Account, v.password # Absent, e \in Emails
      PROVE  Merge(u, v) = v
  BY <1>1, <1>2, MergeGivesAccount
<1>3. CASE CreateUser(me, TRUE)
  <2> DEFINE v == [password |-> c.password, status |-> New, attempts |-> 0]
  <2>1. c.pc = "create user" /\ SetUser(e, v)
    BY <1>3 DEF CreateUser, At
  <2>2. c.op = "create" /\ e \in Emails /\ c.password \in Passwords /\ u = NoUser
    BY <1>1, <2>1 DEF Fits, Knows, Current
  <2>3. v \in Account /\ v.password # Absent
    BY <2>2, StoredFields, AttemptsAssumption, AbsentAssumption
  <2>4. Promise!Becomes(c.op, e, v)
    BY <2>2 DEF Promise!Becomes, Promise!New, New
  <2> QED
    BY <1>2, <2>1, <2>2, <2>3, <2>4
<1>4. CASE ForgotWrite(me, TRUE)
  <2> DEFINE v == [password |-> c.new, status |-> Active, attempts |-> 0]
  <2>1. c.pc = "forgot write" /\ SetUser(e, v)
    BY <1>4 DEF ForgotWrite, At
  <2>2. c.op = "forgot" /\ e \in Emails /\ c.new \in Passwords /\ u # NoUser
    BY <1>1, <2>1 DEF Fits, Knows
  <2>3. v \in Account /\ v.password # Absent
    BY <2>2, StoredFields, AttemptsAssumption, AbsentAssumption
  <2>4. Promise!Becomes(c.op, e, v)
    BY <2>2 DEF Promise!Becomes, Promise!Active, Active
  <2> QED
    BY <1>2, <2>1, <2>2, <2>3, <2>4
<1>5. CASE Clear(me, TRUE)
  <2> DEFINE v == Field("attempts", 0)
  <2>1. c.pc = "clear" /\ SetUser(e, v)
    BY <1>5 DEF Clear, At
  <2>2. /\ c.op \in {"check", "change"} /\ e \in Emails
        /\ u # NoUser /\ u \in Account /\ u.status = Active /\ u.password # Absent
    BY <1>1, <2>1 DEF Fits, Knows, Current
  <2>3. Merge(u, v) = [u EXCEPT !.attempts = 0]
    <3>1. 0 \in 0..MAX_LOGIN_ATTEMPTS
      BY AttemptsAssumption
    <3> QED
      BY <2>2, <3>1, MergeIs
  <2>4. Merge(u, v) \in Account
    BY <2>2, MergeGivesAccount, StoredFields, AttemptsAssumption
  <2>5. Promise!Becomes(c.op, e, Merge(u, v))
    BY <2>2, <2>3 DEF Promise!Becomes, Promise!Is, Promise!Active, Active
  <2> QED
    BY <2>1, <2>4, <2>5
<1>6. CASE ChangeWrite(me, TRUE)
  <2> DEFINE v == ChangedFields(c)
  <2>1. c.pc = "change write" /\ SetUser(e, v)
    BY <1>6 DEF ChangeWrite, At
  <2>2. /\ c.op = "change" /\ e \in Emails /\ c.new \in Passwords
        /\ u # NoUser /\ u \in Account /\ u.status = Active /\ u.password # Absent
    BY <1>1, <2>1 DEF Fits, Knows, Current
  <2>3. Merge(u, v) = [u EXCEPT !.password = c.new, !.attempts = 0]
    BY <2>2, MergeIs DEF ChangedFields
  <2>4. v \in PartialType
    BY <2>2, StoredFields DEF ChangedFields
  <2>5. Merge(u, v) \in Account
    BY <2>2, <2>4, MergeGivesAccount
  <2>6. Promise!Becomes(c.op, e, Merge(u, v))
    BY <2>2, <2>3 DEF Promise!Becomes, Promise!Is, Promise!Active, Active
  <2> QED
    BY <2>1, <2>5, <2>6
<1>7. CASE CountWrite(me, TRUE)
  <2> DEFINE v == Field("attempts", c.n)
  <2>1. c.pc = "count write" /\ SetUser(e, v)
    BY <1>7 DEF CountWrite, At
  <2>2. /\ c.op \in {"check", "change", "count"} /\ e \in Emails
        /\ c.n \in 0..MAX_LOGIN_ATTEMPTS
        /\ u # NoUser /\ u \in Account /\ u.status = Active
    BY <1>1, <2>1 DEF Fits, Knows, Current, CallType
  <2>3. Merge(u, v) = [u EXCEPT !.attempts = c.n]
    BY <2>2, MergeIs
  <2>4. Merge(u, v) \in Account
    BY <2>2, MergeGivesAccount, StoredFields
  <2>5. CASE c.op = "count"
    <3>1. Promise!Becomes(c.op, e, Merge(u, v))
      BY <2>2, <2>3, <2>5 DEF Promise!Becomes, Promise!Counts, Promise!Is, Promise!Active, Active
    <3> QED
      BY <2>1, <2>4, <3>1
  <2>6. CASE c.op # "count"
    <3>1. c.n = u.attempts + 1 /\ c.n < MAX_LOGIN_ATTEMPTS /\ u.attempts # Absent
      BY <1>1, <2>1, <2>2, <2>6 DEF Current
    <3>2. ~(u.attempts + 1 >= MAX_LOGIN_ATTEMPTS)
      BY <2>2, <3>1, AttemptsAssumption DEF Account
    <3>3. Promise!Becomes(c.op, e, Merge(u, v))
      BY <2>2, <2>3, <2>6, <3>1, <3>2 DEF Promise!Becomes, Promise!Is, Promise!Active, Active
    <3> QED
      BY <2>1, <2>4, <3>3
  <2> QED
    BY <2>5, <2>6
<1>8. CASE BlockWrite(me, TRUE)
  <2>1. c.pc = "block write" /\ SetUser(e, c.v)
    BY <1>8 DEF BlockWrite, At
  <2>2. /\ c.op \in {"check", "change", "block", "unblock"} /\ e \in Emails
        /\ c.v \in Account /\ u # NoUser
        /\ c.v = [u EXCEPT !.status = IF c.op = "unblock" THEN Active ELSE Blocked]
    BY <1>1, <2>1 DEF Fits, Knows, Current
  <2>0. u \in Account
    BY <1>1, <2>2
  <2>5. Merge(u, c.v) = c.v
    <3> DEFINE s == IF c.op = "unblock" THEN Active ELSE Blocked
    <3>1. s \in {New, Active, Blocked} /\ c.v = [u EXCEPT !.status = s]
      BY <2>2
    <3> HIDE DEF s
    <3> QED
      BY <2>0, <3>1, MergeOfStatus
  <2>3. CASE c.op \in {"check", "change"}
    <3>1. u.status = Active /\ u.attempts + 1 >= MAX_LOGIN_ATTEMPTS /\ u.attempts # Absent
      BY <1>1, <2>1, <2>3 DEF Current, LocksOut
    <3>2. Promise!Becomes(c.op, e, c.v)
      BY <2>2, <2>3, <3>1 DEF Promise!Becomes, Promise!Is, Promise!Active, Active,
         Promise!Blocked, Blocked
    <3> QED
      BY <2>1, <2>2, <2>5, <3>2
  <2>4. CASE c.op \in {"block", "unblock"}
    <3>1. Promise!Becomes(c.op, e, c.v)
      BY <2>2, <2>4 DEF Promise!Becomes, Promise!Active, Active, Promise!Blocked, Blocked
    <3> QED
      BY <2>1, <2>2, <2>5, <3>1
  <2> QED
    BY <2>2, <2>3, <2>4
<1>9. CASE Activate(me, TRUE)
  <2> DEFINE v == Field("status", Active)
  <2>1. c.pc = "activate" /\ SetUser(e, v)
    BY <1>9 DEF Activate, SetStatus, At
  <2>2. c.op = "verify" /\ e \in Emails /\ u # NoUser /\ u \in Account /\ u.status = New
    BY <1>1, <2>1 DEF Fits, Knows, Current
  <2>3. Merge(u, v) = [u EXCEPT !.status = Active] /\ Merge(u, v) \in Account
    BY <2>2, MergeIs, MergeGivesAccount, StoredFields
  <2>4. Promise!Becomes(c.op, e, Merge(u, v))
    BY <2>2, <2>3 DEF Promise!Becomes, Promise!Is, Promise!Active, Active, Promise!New, New
  <2> QED
    BY <2>1, <2>3, <2>4
<1>10. CASE SetActive(me, TRUE)
  <2> DEFINE s == IF c.op = "activate" THEN Active ELSE New
             v == Field("status", s)
  <2>1. c.pc = "set active" /\ SetUser(e, v)
    BY <1>10 DEF SetActive, SetStatus, At
  <2>2. /\ c.op \in {"activate", "deactivate"} /\ e \in Emails
        /\ u \in Account \cup {NoUser}
    BY <1>1, <2>1 DEF Fits, Knows
  <2>3. Merge(u, v) \in Account
    BY <2>2, MergeGivesAccount, StoredFields
  <2>4. CASE u \in Account
    <3>1. Merge(u, v) = [u EXCEPT !.status = s] /\ u # NoUser
      BY <2>4, MergeIs, NoUserIsNoAccount
    <3>2. Promise!Becomes(c.op, e, Merge(u, v))
      BY <2>2, <3>1 DEF Promise!Becomes, Promise!Active, Active, Promise!New, New
    <3> QED
      BY <2>1, <2>3, <3>2
  <2>5. CASE u = NoUser
    <3>1. Merge(u, v) = Promise!Bare(s)
      BY <2>5, AbsentAssumption DEF Merge, Field, NoUser, Promise!Bare, Active, New
    <3>2. Promise!Becomes(c.op, e, Merge(u, v))
      BY <2>2, <2>5, <3>1 DEF Promise!Becomes, Promise!Active, Active, Promise!New, New
    <3> QED
      BY <2>1, <2>3, <3>2
  <2> QED
    BY <2>2, <2>4, <2>5
<1> QED
  BY <1>3, <1>4, <1>5, <1>6, <1>7, <1>8, <1>9, <1>10

\* Every step of the only thread is a step of Accounts, or none.
LEMMA StepAsPromised ==
    ASSUME NEW CONSTANT me, OneThread(me), IInv, IInv', AloneInv(me), [Next]_vars
    PROVE  Promise!Next \/ UNCHANGED <<users, Doing>>
<1> DEFINE c == call[me]
<1>1. CASE (\E e \in Emails : Begin(me, e, TRUE)) \/ (\E h \in HashType : VerifyHash(me, h))
  BY <1>1, BeginsAsPromised
<1>2. CASE Continue(me, TRUE)
  <2>1. ~Ready(me)
    BY <1>2 DEF Continue, CreateUser, CreateHash, ResetWrite, ResetHash, ForgotWrite,
       CheckExists, Authorize, ClearActive, Clear, ChangeWrite, FailActive, FailCount,
       CountActive, CountWrite, BlockRead, BlockWrite, VerifyUser, Activate, SetActive,
       At, Ready
  <2>2. \/ call'[me].pc = "idle"
        \/ call'[me].op = c.op /\ call'[me].email = c.email
    <3>1. \/ Finish(me) \/ \E pc : Goto(me, pc)
          \/ Become(me, Calling("reset", "reset hash", c.email, Absent, Absent)) /\ c.pc = "reset write"
          \/ FailCount(me, TRUE) \/ BlockRead(me, TRUE)
      BY <1>2 DEF Continue, CreateUser, CreateHash, ResetWrite, ResetHash, SaveHash, ForgotWrite,
         CheckExists, Authorize, ClearActive, Clear, Succeed, ChangeWrite, FailActive,
         CountActive, CountWrite, BlockWrite, VerifyUser, Activate, SetActive, SetStatus, At
    <3>2. CASE Finish(me)
      BY <3>2, NextCall DEF Finish, NoCall, Calling
    <3>3. CASE \E pc : Goto(me, pc)
      BY <3>3, NextCall
    <3>4. CASE Become(me, Calling("reset", "reset hash", c.email, Absent, Absent)) /\ c.pc = "reset write"
      <4>1. c.op = "reset"
        BY <3>4, Mine DEF Fits
      <4> DEFINE n == Calling("reset", "reset hash", c.email, Absent, Absent)
      <4>2. call'[me] = n
        BY <3>4, NextCall
      <4>3. n.op = "reset" /\ n.email = c.email
        BY DEF Calling
      <4> HIDE DEF n
      <4> QED
        BY <4>1, <4>2, <4>3
    <3>5. ASSUME NEW x \in Steps, NEW y, NEW z, c.email \in Emails,
                 \/ Become(me, [Calling(c.op, x, c.email, Absent, Absent) EXCEPT !.n = y])
                 \/ Become(me, [Calling(c.op, x, c.email, Absent, Absent) EXCEPT !.v = z])
          PROVE  call'[me].op = c.op /\ call'[me].email = c.email
      <4> DEFINE b == Calling(c.op, x, c.email, Absent, Absent)
      <4>1. b \in CallType /\ b.op = c.op /\ b.email = c.email
        <5>1. b \in CallType
          BY <3>5, Mine, CallingTyped DEF CallType
        <5> QED
          BY <5>1 DEF Calling
      <4>2. call'[me] = [b EXCEPT !.n = y] \/ call'[me] = [b EXCEPT !.v = z]
        BY <3>5, NextCall
      <4> HIDE DEF b
      <4> QED
        BY <4>1, <4>2 DEF CallType
    <3>6. CASE FailCount(me, TRUE)
      <4>1. c.email \in Emails
        BY <3>6, Mine DEF FailCount, At, Knows
      <4>2. \/ Finish(me)
            \/ \E x \in Steps : \E y : Become(me, [Calling(c.op, x, c.email, Absent, Absent) EXCEPT !.n = y])
        BY <3>6, Names DEF FailCount
      <4> QED
        BY <3>2, <3>5, <4>1, <4>2
    <3>7. CASE BlockRead(me, TRUE)
      <4>1. c.email \in Emails
        BY <3>7, Mine DEF BlockRead, At, Knows
      <4>2. \/ Finish(me)
            \/ \E x \in Steps : \E z : Become(me, [Calling(c.op, x, c.email, Absent, Absent) EXCEPT !.v = z])
        BY <3>7, Names DEF BlockRead
      <4> QED
        BY <3>2, <3>5, <4>1, <4>2
    <3> QED
      BY <3>1, <3>2, <3>3, <3>4, <3>6, <3>7
  <2>3. CASE users' = users
    BY <2>1, <2>2, <2>3, QuietAsPromised
  <2>4. CASE \/ CreateUser(me, TRUE) \/ ForgotWrite(me, TRUE) \/ Clear(me, TRUE)
             \/ ChangeWrite(me, TRUE) \/ CountWrite(me, TRUE) \/ BlockWrite(me, TRUE)
             \/ Activate(me, TRUE) \/ SetActive(me, TRUE)
    BY <2>1, <2>2, <2>4, WritesAsPromised, ChangeAsPromised
  <2>5. CASE ResetWrite(me, TRUE)
    BY <2>3, <2>5, ResetWriteAlone
  <2>6. CASE CreateHash(me, TRUE) \/ ResetHash(me, TRUE) \/ CheckExists(me, TRUE)
             \/ Authorize(me, TRUE) \/ ClearActive(me, TRUE) \/ FailActive(me, TRUE)
             \/ FailCount(me, TRUE) \/ CountActive(me, TRUE) \/ BlockRead(me, TRUE)
             \/ VerifyUser(me, TRUE)
    <3>1. users' = users
      BY <2>6 DEF CreateHash, ResetHash, SaveHash, CheckExists, Authorize, ClearActive,
         FailActive, FailCount, CountActive, BlockRead, VerifyUser
    <3> QED
      BY <2>3, <3>1
  <2> QED
    BY <1>2, <2>4, <2>5, <2>6 DEF Continue
<1>3. CASE UNCHANGED vars
  <2>1. users' = users /\ call' = call
    BY <1>3 DEF vars
  <2> QED
    BY <2>1 DEF Doing, Ready
<1> QED
  BY <1>1, <1>2, <1>3 DEF Next, Crash, OneThread
----------------------------------------------------------------------------
(* Theorems for one thread.                                                *)

\* The lockout: with one thread at work, at most MAX_LOGIN_ATTEMPTS wrong passwords
\* are tried at an account before its count restarts.
THEOREM LockoutHolds ==
    ASSUME NEW CONSTANT me, OneThread(me)
    PROVE  Spec => []GuessesBounded
<1>1. Init => AloneInv(me)
  BY InitAlone
<1>2. IInv /\ AloneInv(me) /\ [Next]_vars => AloneInv(me)'
  BY NextAlone
<1>3. AloneInv(me) => GuessesBounded
  BY DEF AloneInv, Room, GuessesBounded
<1> QED
  BY <1>1, <1>2, <1>3, InitIInv, NextIInv, PTL DEF Spec

\* With one thread at work, a blocked account is unblocked by no other call than those
\* meant to do it: not by reset(), verify(), check() or a change of password.
THEOREM BlockedAccountsStay ==
    ASSUME NEW CONSTANT me, OneThread(me)
    PROVE  Spec => BlockedStaysBlocked
<1>1. Init => AloneInv(me)
  BY InitAlone
<1>2. IInv /\ AloneInv(me) /\ [Next]_vars => AloneInv(me)'
  BY NextAlone
<1>3. ASSUME IInv, AloneInv(me), [Next]_vars, NEW e \in Emails,
             users[e].status = Blocked, users'[e].status # Blocked
      PROVE  \E t \in Threads :
                /\ call[t].email = e /\ call'[t] # call[t]
                /\ call[t].op \in {"forgot", "unblock", "activate", "deactivate"}
  <2>1. CASE users' = users
    BY <1>3, <2>1
  <2>2. CASE Continue(me, TRUE)
    BY <1>3, <2>2, OnlyUnblocks DEF OneThread
  <2>3. (\E x \in Emails : Begin(me, x, TRUE)) \/ (\E h \in HashType : VerifyHash(me, h))
           => users' = users
    BY DEF Begin, CreateExists, ResetRead, ForgotExists, CheckActive, SetAttempts,
       BlockCall, ActiveCall, VerifyHash
  <2> QED
    BY <1>3, <2>1, <2>2, <2>3 DEF Next, Crash, OneThread, vars
<1>4. IInv /\ AloneInv(me) /\ [Next]_vars => [\A e \in Emails :
          (users[e].status = Blocked /\ users'[e].status # Blocked) =>
              \E t \in Threads :
                  /\ call[t].email = e
                  /\ call'[t] # call[t]
                  /\ call[t].op \in {"forgot", "unblock", "activate", "deactivate"}]_vars
  BY <1>3
<1> QED
  BY <1>1, <1>2, <1>4, InitIInv, NextIInv, PTL DEF Spec, BlockedStaysBlocked

\* With one thread at work, the service keeps the promise of Accounts: whatever it does
\* between two driver calls, each account changes in single steps that depend on nothing
\* but the call and the account as it is.
THEOREM PromiseHolds ==
    ASSUME NEW CONSTANT me, OneThread(me)
    PROVE  Spec => PromiseKept
<1>1. Init => AloneInv(me)
  BY InitAlone
<1>2. IInv /\ AloneInv(me) /\ [Next]_vars => AloneInv(me)'
  BY NextAlone
<1>3. Init => Promise!Init
  <2>1. Init => Ready(me) /\ users = [e \in Emails |-> NoUser]
    BY DEF Init, Ready, OneThread, NoCall, Calling
  <2> QED
    BY <2>1, DoingIs DEF Promise!Init, Promise!Nothing
<1>4. IInv /\ IInv' /\ AloneInv(me) /\ [Next]_vars => [Promise!Next]_<<users, Doing>>
  BY StepAsPromised
<1> QED
  BY <1>1, <1>2, <1>3, <1>4, InitIInv, NextIInv, PTL DEF Spec, PromiseKept, Promise!Spec
=============================================================================
