------------------------ MODULE AccountsOnSql_proof ------------------------
(***************************************************************************)
(* Theorems about AccountsOnSql: the rows are what the calls made of them  *)
(* and a login goes by the row as it is, for any number of threads and     *)
(* accounts on a driver that may fail; and the lockout and a block hold    *)
(* for one thread on a driver that answers, although it reads its count    *)
(* and its status from frames that may be older than the row.  Last, that  *)
(* such a thread implements Accounts, each write one change of an account. *)
(***************************************************************************)
EXTENDS AccountsOnSql, TLAPS

Counts == 0..MAX_LOGIN_ATTEMPTS
FieldVals == Passwords \cup Statuses \cup Counts
FrameVals == Auth!Account \cup FieldVals \cup {NoFrame}

\* The values of one field.
Of(f) == CASE f = "password" -> Passwords
           [] f = "status" -> Statuses
           [] OTHER -> Counts

\* Rows are accounts, in a table that is there.
RowsOK ==
    /\ row \in [{Store} -> [Emails -> Auth!Account \cup {Absent}]]
    /\ created \in [{Store} -> BOOLEAN]
    /\ \A e \in Emails : row[Store][e] # Absent => created[Store]
    /\ batch = NoBatch

\* What the frame of path p of account e may hold: the row itself, or a value that
\* the field, if the row has it, had once.
FrameFits(e, p) ==
    LET v == frame[Store][e][p] IN
    v # NoFrame =>
        /\ row[Store][e] # Absent
        /\ IF p = Root THEN v = row[Store][e]
           ELSE v \in Of(p) /\ row[Store][e][p] # Absent

FramesOK ==
    /\ frame \in [{Store} -> [Emails -> [Sql!Paths -> FrameVals]]]
    /\ \A e \in Emails, p \in Sql!Paths : FrameFits(e, p)

\* The call c is at a step of its operation and has what it needs there, r being
\* the rows.
Working(c, r) ==
    /\ c.pc # "idle" => c.email \in Emails
    /\ c.pc \notin {"idle", "create user", "create hash", "reset hash", "block read",
                    "verify user", "set active"} => r[c.email] # Absent
    /\ c.pc = "create user" => c.password \in Passwords
    /\ c.pc = "forgot write" => c.new \in Passwords /\ c.op = "forgot"
    /\ c.op = "change" /\ c.pc \in {"exists", "authorize", "clear active", "clear", "change write"}
          => c.new \in Passwords
    /\ c.pc = "change write" => c.op = "change"
    /\ c.pc \in {"reset write", "block write"} => c.v \in Auth!Account
    /\ c.pc \in {"verify user", "activate"} => c.op = "verify"
    /\ c.pc = "set active" => c.op \in {"activate", "deactivate"}

CallsOK ==
    /\ call \in [Threads -> Auth!CallType]
    /\ \A t \in Threads : Working(call[t], row[Store])

HistoryOK ==
    /\ users \in [Emails -> Auth!Account \cup {Auth!NoUser}]
    /\ guesses \in [Emails -> 0..MAX_LOGIN_ATTEMPTS + 1]

\* The inductive invariant for any number of threads, failing drivers included.
Inv == RowsOK /\ FramesOK /\ CallsOK /\ HistoryOK /\ RowsAreAccounts
----------------------------------------------------------------------------
(* One thread on a driver that answers.                                    *)

OneThread(me) == Threads = {me} /\ Answers = {TRUE}

\* A wrong password was tried, and check() has yet to count it.
Counting(c, e) ==
    /\ c.email = e /\ c.op \in {"check", "change"}
    /\ c.pc \in {"fail active", "fail count", "count active", "count write",
                 "block read", "block write"}

\* The guesses g at a row v: counted, but for the one being counted.
Room(v, g, counting) ==
    /\ g <= MAX_LOGIN_ATTEMPTS
    /\ v = Absent \/ v.password = Absent \/ v.status = Auth!New => g = 0
    /\ v # Absent /\ v.password # Absent /\ v.status = Auth!Active =>
          /\ g <= v.attempts + 1
          /\ ~counting => g <= v.attempts /\ g < MAX_LOGIN_ATTEMPTS

\* A frame of the count may be old, but no older than a restart of the count.
FrameAbove(e) ==
    frame[Store][e]["attempts"] # NoFrame =>
        frame[Store][e]["attempts"] >= row[Store][e].attempts

\* The frame of the status, as check() reads it, does not deny that e is active.
StatusFits(e) ==
    row[Store][e] # Absent /\ row[Store][e].status = Auth!Active =>
        frame[Store][e]["status"] \in {NoFrame, Auth!Active}

\* check() is where it found the account active and may find so again.
Watching(c) ==
    /\ c.op \in {"check", "change"}
    /\ c.pc \in {"exists", "authorize", "fail active", "fail count", "count active"}

\* What a lone call has read is still so.
Current(c) ==
    LET v == row[Store][c.email] IN
    /\ c.op \in {"check", "change"}
       /\ c.pc \in {"count active", "count write", "block read", "block write"}
          => v.attempts # Absent
    /\ c.op \in {"check", "change"} /\ c.pc \in {"count active", "count write"}
          => v.attempts < c.n /\ c.n < MAX_LOGIN_ATTEMPTS
    /\ c.pc \in {"exists", "authorize"} => c.password # Absent
    /\ c.pc \in {"clear active", "clear", "change write"} => v.password # Absent
    /\ c.pc = "reset write" => c.v = v
    /\ c.pc = "block write" =>
          /\ c.op \in {"check", "change", "block", "unblock"}
          /\ c.v = [v EXCEPT !.status = IF c.op = "unblock" THEN Auth!Active ELSE Auth!Blocked]
    /\ c.pc = "create user" => v = Absent
    /\ c.pc = "activate" => v.status = Auth!New

\* Which operations can be at a step that tells them apart.
Fits(c) ==
    /\ c.pc \in {"exists", "authorize", "clear active", "clear", "fail active",
                 "fail count", "count active"} => c.op \in {"check", "change"}
    /\ c.pc = "count write" => c.op \in {"check", "change", "count"}
    /\ c.pc \in {"block read", "block write"} => c.op \in {"check", "change", "block", "unblock"}

LoneInv(me) ==
    /\ \A e \in Emails : Room(row[Store][e], guesses[e], Counting(call[me], e)) /\ FrameAbove(e)
    /\ Watching(call[me]) => StatusFits(call[me].email)
    /\ call[me].pc # "idle" => Current(call[me])
    /\ Fits(call[me])
----------------------------------------------------------------------------
(* Rows and what is read of them.                                          *)

LEMMA Numbers ==
    /\ MAX_LOGIN_ATTEMPTS \in Nat \ {0}
    /\ Auth!New = 0 /\ Auth!Active = 1 /\ Auth!Blocked = 2
    /\ Statuses \subseteq Nat /\ Counts \subseteq Nat /\ 0 \in Counts
  BY AttemptsAssumption DEF Auth!New, Auth!Active, Auth!Blocked, Statuses, Counts

LEMMA Distinct ==
    /\ Root \notin Fields
    /\ Absent # Null /\ Absent # NoFrame /\ Null # NoFrame
    /\ \A x \in {Absent, Null, NoFrame} : x \notin FieldVals /\ x \notin Sql!Row
  <1>1. FieldVals \subseteq Passwords \cup Nat
    BY Numbers DEF FieldVals
  <1> QED
    BY <1>1, RootAssumption, SentinelAssumption

\* An account is a row with a status, and with a count if it has a password.
LEMMA AccountIsRow ==
  ASSUME NEW v \in Auth!Account
  PROVE  /\ v \in Sql!Row
         /\ \A x \in {Absent, Null, NoFrame} : v # x
         /\ v = [password |-> v.password, status |-> v.status, attempts |-> v.attempts]
         /\ v.password = v["password"] /\ v.status = v["status"] /\ v.attempts = v["attempts"]
         /\ \A f \in Fields : v[f] \in Of(f) \cup {Absent}
         /\ v.status \in Statuses /\ v.status # Absent
         /\ v.attempts \in Counts \cup {Absent} /\ v.password \in Passwords \cup {Absent}
         /\ v.password # Absent => v.attempts \in Counts
         /\ v # Auth!NoUser
  <1>1. v \in Sql!Row
    BY DEF Auth!Account, Sql!Row, Sql!FieldVals, Fields, Statuses, Auth!New, Auth!Active, Auth!Blocked
  <1>2. /\ v.status \in Statuses
        /\ v.attempts \in Counts \cup {Absent} /\ v.password \in Passwords \cup {Absent}
        /\ v.password # Absent => v.attempts \in Counts
    BY DEF Auth!Account, Statuses, Counts, Auth!New, Auth!Active, Auth!Blocked
  <1>3. v.status # Absent
    BY <1>2, Numbers, SentinelAssumption
  <1>4. v # Auth!NoUser
    BY <1>3 DEF Auth!NoUser
  <1>5. \A f \in Fields : v[f] \in Of(f) \cup {Absent}
    BY <1>2 DEF Fields, Of
  <1> QED
    BY <1>1, <1>2, <1>3, <1>4, <1>5, Distinct DEF Auth!Account

LEMMA OfIs ==
  ASSUME NEW f \in Fields
  PROVE  Of(f) \subseteq FieldVals /\ \A x \in {Absent, Null, NoFrame} : x \notin Of(f)
  <1>1. Of(f) \subseteq FieldVals
    BY DEF Of, FieldVals, Fields
  <1> QED
    BY <1>1, Distinct

LEMMA Paths ==
    /\ Sql!Paths = Fields \cup {Root}
    /\ "status" \in Fields /\ "attempts" \in Fields /\ "password" \in Fields
    /\ "status" # Root /\ "attempts" # Root
  BY Distinct DEF Sql!Paths, Fields

\* A frame of an account, with what FramesOK says of it.
LEMMA FrameIs ==
  ASSUME FramesOK, NEW e \in Emails, NEW p \in Sql!Paths, frame[Store][e][p] # NoFrame
  PROVE  /\ row[Store][e] # Absent
         /\ p = Root => frame[Store][e][p] = row[Store][e]
         /\ p # Root => frame[Store][e][p] \in Of(p) /\ row[Store][e][p] # Absent
  BY DEF FramesOK, FrameFits

\* What the driver finds at the root key of e.
LEMMA RootValueIs ==
  ASSUME RowsOK, FramesOK, NEW e \in Emails, NEW up
  PROVE  /\ Sql!RootValue(Store, e, up) \in {Absent, row[Store][e]}
         /\ up => Sql!RootValue(Store, e, up) = row[Store][e]
         /\ row[Store][e] \in Auth!Account \cup {Absent}
         /\ row[Store][e] = Absent \/ row[Store][e] # Null
         /\ Sql!Cached(Store, e, Root) => Sql!RootValue(Store, e, up) # Absent
  <1>1. row[Store][e] \in Auth!Account \cup {Absent}
    BY DEF RowsOK
  <1>2. row[Store][e] = Absent \/ row[Store][e] # Null
    BY <1>1, AccountIsRow
  <1>3. Sql!Cached(Store, e, Root) =>
           frame[Store][e][Root] = row[Store][e] /\ row[Store][e] # Absent
    BY Paths, FrameIs DEF Sql!Cached
  <1>4. row[Store][e] # Absent => created[Store]
    BY DEF RowsOK
  <1> QED
    BY <1>1, <1>2, <1>3, <1>4 DEF Sql!RootValue, Sql!Selected

LEMMA RowSeenIs ==
  ASSUME RowsOK, FramesOK, NEW e \in Emails, NEW up
  PROVE  /\ RowSeen(e, up) = Auth!NoUser \/ (RowSeen(e, up) = row[Store][e] /\ row[Store][e] \in Auth!Account)
         /\ up /\ row[Store][e] # Absent => RowSeen(e, up) = row[Store][e]
         /\ up /\ row[Store][e] = Absent => RowSeen(e, up) = Auth!NoUser
         /\ RowSeen(e, up) \in Auth!Account \cup {Auth!NoUser}
  BY RootValueIs, AccountIsRow DEF RowSeen

\* Frames that keep their types, and of which every new one is the field of the row.
FramesFresh ==
    /\ frame' \in [{Store} -> [Emails -> [Sql!Paths -> FrameVals]]]
    /\ \A e \in Emails, p \in Sql!Paths :
          \/ frame'[Store][e][p] \in {NoFrame, frame[Store][e][p]}
          \/ /\ row[Store][e] # Absent /\ Sql!Find(row[Store][e], p) # Absent
             /\ frame'[Store][e][p] = Sql!Find(row[Store][e], p)

\* A driver call that writes nothing.
Quiet ==
    /\ row' = row /\ batch' = batch
    /\ created' \in [{Store} -> BOOLEAN] /\ (created[Store] => created'[Store])
    /\ FramesFresh

LEMMA QuietKeeps ==
  ASSUME RowsOK, FramesOK, Quiet
  PROVE  RowsOK' /\ FramesOK'
  <1>1. RowsOK'
    BY DEF RowsOK, Quiet
  <1>2. ASSUME NEW e \in Emails, NEW p \in Sql!Paths
        PROVE  FrameFits(e, p)'
    <2>1. CASE frame'[Store][e][p] \in {NoFrame, frame[Store][e][p]}
      BY <2>1 DEF FramesOK, FrameFits, Quiet
    <2>2. CASE /\ row[Store][e] # Absent /\ Sql!Find(row[Store][e], p) # Absent
               /\ frame'[Store][e][p] = Sql!Find(row[Store][e], p)
      <3>1. row[Store][e] \in Auth!Account
        BY <2>2 DEF RowsOK
      <3> QED
        BY <2>2, <3>1, AccountIsRow, Paths DEF FrameFits, Quiet, Sql!Find
    <2> QED
      BY <2>1, <2>2 DEF Quiet, FramesFresh
  <1> QED
    BY <1>1, <1>2 DEF FramesOK, Quiet, FramesFresh

LEMMA StillIsQuiet ==
  ASSUME RowsOK, FramesOK, UNCHANGED <<created, row, frame, batch>>
  PROVE  Quiet
  BY DEF Quiet, FramesFresh, RowsOK, FramesOK

\* The frames of fields are as they were.
FieldFramesStay == \A e \in Emails, f \in Fields : frame'[Store][e][f] = frame[Store][e][f]

LEMMA FrameTypes ==
  ASSUME RowsOK, NEW e \in Emails, NEW p \in Sql!Paths, row[Store][e] # Absent
  PROVE  /\ row[Store][e] \in Auth!Account
         /\ Sql!Find(row[Store][e], p) \in FrameVals \cup {Absent}
  <1>1. row[Store][e] \in Auth!Account
    BY DEF RowsOK
  <1> QED
    BY <1>1, AccountIsRow, OfIs, Paths DEF Sql!Find, FrameVals

LEMMA OnlyReadIsQuiet ==
  ASSUME RowsOK, FramesOK, NEW e \in Emails, NEW up, NEW string, Sql!OnlyRead(Store, e, up, string)
  PROVE  Quiet /\ FieldFramesStay
  <1>1. UNCHANGED <<created, row, batch>> /\ frame' = Sql!FrameAfterRead(Store, e, up)
    BY DEF Sql!OnlyRead, Sql!database
  <1>2. CASE Sql!Cached(Store, e, Root) \/ ~Sql!Selected(Store, e, up)
    BY <1>1, <1>2, StillIsQuiet DEF Sql!FrameAfterRead, FieldFramesStay
  <1>3. CASE ~Sql!Cached(Store, e, Root) /\ Sql!Selected(Store, e, up)
    <2>1. row[Store][e] \in Auth!Account /\ row[Store][e] # Null
      BY <1>3, RootValueIs DEF Sql!Selected
    <2>2. frame' = [frame EXCEPT ![Store][e][Root] = row[Store][e]]
      BY <1>1, <1>3, <2>1 DEF Sql!FrameAfterRead
    <2>3. /\ Root \in Sql!Paths /\ row[Store][e] # Absent
          /\ Sql!Find(row[Store][e], Root) = row[Store][e]
      BY <2>1, AccountIsRow, Paths DEF Sql!Find
    <2>4. FramesFresh
      BY <2>1, <2>2, <2>3, FrameTypes DEF FramesFresh, FramesOK
    <2>5. FieldFramesStay
      BY <2>2, Paths, Distinct DEF FieldFramesStay, FramesOK
    <2> QED
      BY <1>1, <2>4, <2>5 DEF Quiet, RowsOK
  <1> QED
    BY <1>2, <1>3

LEMMA ReadRowIsQuiet ==
  ASSUME RowsOK, FramesOK, NEW e \in Emails, NEW up, ReadRow(e, up)
  PROVE  Quiet /\ FieldFramesStay
  BY OnlyReadIsQuiet DEF ReadRow, Sql!GetRoot

\* What the driver finds for a field: the value in its frame, or in the row.
ValueSeen(e, f, up) ==
    IF Sql!Cached(Store, e, f) THEN frame[Store][e][f]
    ELSE IF Sql!Selected(Store, e, up) THEN Sql!Find(row[Store][e], f)
    ELSE Absent

LEMMA FieldSeenIs ==
  ASSUME RowsOK, FramesOK, NEW e \in Emails, NEW f \in Fields, NEW up
  PROVE  /\ FieldSeen(e, f, up) = Auth!Field(f, ValueSeen(e, f, up))
         /\ ValueSeen(e, f, up) # Absent =>
               /\ row[Store][e] # Absent /\ row[Store][e][f] # Absent
               /\ ValueSeen(e, f, up) \in Of(f)
         /\ up /\ row[Store][e] # Absent =>
               /\ row[Store][e][f] # Absent => ValueSeen(e, f, up) # Absent
               /\ \/ frame[Store][e][f] # NoFrame /\ ValueSeen(e, f, up) = frame[Store][e][f]
                  \/ ValueSeen(e, f, up) = row[Store][e][f]
  <1>1. FieldSeen(e, f, up) = Auth!Field(f, ValueSeen(e, f, up))
    BY DEF FieldSeen, ValueSeen
  <1>2. CASE Sql!Cached(Store, e, f)
    <2>1. frame[Store][e][f] # NoFrame /\ f \in Sql!Paths /\ f # Root
      BY <1>2, Paths, Distinct DEF Sql!Cached
    <2>2. /\ row[Store][e] # Absent /\ row[Store][e][f] # Absent
          /\ frame[Store][e][f] \in Of(f)
      BY <2>1, FrameIs
    <2> QED
      BY <1>1, <1>2, <2>1, <2>2, OfIs DEF ValueSeen
  <1>3. CASE ~Sql!Cached(Store, e, f) /\ Sql!Selected(Store, e, up)
    <2>1. row[Store][e] # Absent /\ row[Store][e] \in Auth!Account
      BY <1>3, RootValueIs DEF Sql!Selected
    <2>2. Sql!Find(row[Store][e], f) = row[Store][e][f] /\ row[Store][e][f] \in Of(f) \cup {Absent}
      BY <2>1, AccountIsRow, Distinct DEF Sql!Find
    <2> QED
      BY <1>1, <1>3, <2>1, <2>2, OfIs DEF ValueSeen
  <1>4. CASE ~Sql!Cached(Store, e, f) /\ ~Sql!Selected(Store, e, up)
    <2>1. ~(up /\ row[Store][e] # Absent)
      BY <1>4 DEF Sql!Selected, RowsOK
    <2> QED
      BY <1>1, <1>4, <2>1 DEF ValueSeen
  <1> QED
    BY <1>2, <1>3, <1>4

\* After a read of a field that the row has its frame holds what was found.
LEMMA ReadFieldIsQuiet ==
  ASSUME RowsOK, FramesOK, NEW e \in Emails, NEW f \in Fields, NEW up, ReadField(e, f, up)
  PROVE  /\ Quiet
         /\ up /\ row[Store][e] # Absent /\ row[Store][e][f] # Absent =>
               frame'[Store][e][f] = ValueSeen(e, f, up)
  <1>1. CASE Sql!GetFieldCached(Store, e, f, TRUE)
    <2>1. UNCHANGED <<created, row, frame, batch>> /\ Sql!Cached(Store, e, f)
      BY <1>1 DEF Sql!GetFieldCached, Sql!database, Sql!cache
    <2> QED
      BY <2>1, StillIsQuiet DEF ValueSeen
  <1>2. CASE Sql!GetFieldFromRow(Store, e, f, up)
    <2>1. row[Store][e] # Absent /\ row[Store][e] \in Auth!Account
      BY <1>2, RootValueIs DEF Sql!GetFieldFromRow, Sql!Selected
    <2>2. Sql!Find(row[Store][e], f) = row[Store][e][f] /\ row[Store][e][f] \in Of(f) \cup {Absent}
      BY <2>1, AccountIsRow, Distinct DEF Sql!Find
    <2>3. Sql!Undefined(Sql!Find(row[Store][e], f)) <=> row[Store][e][f] = Absent
      BY <2>2, OfIs DEF Sql!Undefined
    <2>4. UNCHANGED <<created, row, batch>> /\ ~Sql!Cached(Store, e, f) /\ Sql!Selected(Store, e, up)
      BY <1>2 DEF Sql!GetFieldFromRow, Sql!database
    <2>5. CASE row[Store][e][f] = Absent
      <3>1. UNCHANGED frame
        BY <1>2, <2>3, <2>5 DEF Sql!GetFieldFromRow
      <3> QED
        BY <2>4, <2>5, <3>1, StillIsQuiet
    <2>6. CASE row[Store][e][f] # Absent
      <3>1. frame' = [frame EXCEPT ![Store][e][f] = row[Store][e][f]]
        BY <1>2, <2>2, <2>3, <2>6 DEF Sql!GetFieldFromRow
      <3>2. f \in Sql!Paths /\ row[Store][e][f] \in FrameVals
        BY <2>1, <2>2, <2>6, FrameTypes, Paths
      <3>3. FramesFresh
        BY <2>1, <2>2, <2>6, <3>1, <3>2 DEF FramesFresh, FramesOK
      <3>4. frame'[Store][e][f] = row[Store][e][f]
        BY <3>1, <3>2, Paths DEF FramesOK
      <3>5. ValueSeen(e, f, up) = row[Store][e][f]
        BY <2>2, <2>4 DEF ValueSeen
      <3> QED
        BY <2>1, <2>4, <3>3, <3>4, <3>5 DEF Quiet, RowsOK
    <2> QED
      BY <2>5, <2>6
  <1>3. CASE Sql!GetFieldNothing(Store, e, f, up, TRUE)
    <2>1. row[Store][e] = Absent \/ row[Store][e] # Null
      BY RootValueIs
    <2>2. UNCHANGED <<created, row, frame, batch>> /\ ~Sql!Selected(Store, e, up)
      BY <1>3, <2>1 DEF Sql!GetFieldNothing, Sql!database, Sql!Selected
    <2>3. ~(up /\ row[Store][e] # Absent)
      BY <2>2 DEF Sql!Selected, RowsOK
    <2> QED
      BY <2>2, <2>3, StillIsQuiet
  <1> QED
    BY <1>1, <1>2, <1>3 DEF ReadField
----------------------------------------------------------------------------
(* Writes.                                                                 *)

\* What a call stores at the root of an account: no password without a count.
Partial == {v \in [password : Passwords \cup {Absent}, status : Statuses \cup {Absent},
                   attempts : Counts \cup {Absent}] :
               v.password # Absent => v.attempts # Absent}

\* What a call stores at the path p of an account: a status alone makes a row too.
Storable(e, p, val) ==
    \/ p = Root /\ val \in Partial /\ (row[Store][e] = Absent => val \in Auth!Account)
    \/ p = "status" /\ val \in Of(p)
    \/ p = "attempts" /\ val \in Of(p) /\ row[Store][e] # Absent

\* The fields that AuthData merges when it stores val at p.
FieldsOf(p, val) == IF p = Root THEN val ELSE Auth!Field(p, val)

LEMMA AccountIsPartial == Auth!Account \subseteq Partial
  BY DEF Auth!Account, Partial, Statuses, Counts, Auth!New, Auth!Active, Auth!Blocked

\* A merge into an account is one, and none of its fields is lost.
LEMMA MergeIsAccount ==
  ASSUME NEW v \in Auth!Account, NEW w \in Partial
  PROVE  /\ Auth!Merge(v, w) \in Auth!Account
         /\ \A f \in Fields : v[f] # Absent => Auth!Merge(v, w)[f] # Absent
  <1>1. Auth!Merge(v, w) \in Auth!Account
    BY DEF Auth!Merge, Partial, Auth!Account, Statuses, Counts, Auth!New, Auth!Active, Auth!Blocked
  <1>2. \A f \in Fields : v[f] # Absent => Auth!Merge(v, w)[f] # Absent
    BY DEF Auth!Merge, Fields
  <1> QED
    BY <1>1, <1>2

LEMMA MergeOfAccount ==
  ASSUME NEW v \in Auth!Account, NEW w \in Partial
  PROVE  /\ Sql!JsonSet(v, Root, w) = Auth!Merge(v, w)
         /\ w \in Sql!Row
  <1>1. w \in Sql!Row
    BY DEF Partial, Sql!Row, Sql!FieldVals, Fields, Counts
  <1>2. Sql!JsonSet(v, Root, w) = [f \in Fields |-> IF w[f] = Absent THEN v[f] ELSE w[f]]
    BY <1>1 DEF Sql!JsonSet
  <1>3. Sql!JsonSet(v, Root, w) = Auth!Merge(v, w)
    BY <1>2 DEF Auth!Merge, Fields, Auth!Account, Partial
  <1> QED
    BY <1>1, <1>3

LEMMA MergeOfField ==
  ASSUME NEW v \in Auth!Account, NEW p \in {"status", "attempts"}, NEW val \in Of(p)
  PROVE  /\ Auth!Field(p, val) \in Partial
         /\ Sql!JsonSet(v, p, val) = Auth!Merge(v, Auth!Field(p, val))
         /\ Auth!Merge(v, Auth!Field(p, val)) = [v EXCEPT ![p] = val]
         /\ v[p] = val => Auth!Merge(v, Auth!Field(p, val)) = v
  <1>1. val # Absent /\ p # Root
    BY OfIs, Paths
  <1>2. Auth!Field(p, val) \in Partial
    BY DEF Auth!Field, Auth!NoUser, Of, Partial
  <1>3. Auth!Merge(v, Auth!Field(p, val)) = [v EXCEPT ![p] = val]
    <2>1. CASE p = "status"
      <3>1. Auth!Field(p, val) = [password |-> Absent, status |-> val, attempts |-> Absent]
        BY <2>1 DEF Auth!Field, Auth!NoUser
      <3>2. [v EXCEPT ![p] = val] = [f \in Fields |-> IF f = p THEN val ELSE v[f]]
        BY <2>1 DEF Auth!Account, Fields
      <3>3. [v EXCEPT ![p] = val] = [password |-> v.password, status |-> val, attempts |-> v.attempts]
        BY <2>1, <3>2 DEF Auth!Account, Fields
      <3> QED
        BY <1>1, <3>1, <3>3 DEF Auth!Merge
    <2>2. CASE p = "attempts"
      <3>1. Auth!Field(p, val) = [password |-> Absent, status |-> Absent, attempts |-> val]
        BY <2>2 DEF Auth!Field, Auth!NoUser
      <3>2. [v EXCEPT ![p] = val] = [f \in Fields |-> IF f = p THEN val ELSE v[f]]
        BY <2>2 DEF Auth!Account, Fields
      <3>3. [v EXCEPT ![p] = val] = [password |-> v.password, status |-> v.status, attempts |-> val]
        BY <2>2, <3>2 DEF Auth!Account, Fields
      <3> QED
        BY <1>1, <3>1, <3>3 DEF Auth!Merge
    <2> QED
      BY <2>1, <2>2
  <1>4. [v EXCEPT ![p] = val] = v \/ v[p] # val
    BY DEF Auth!Account
  <1> QED
    BY <1>1, <1>2, <1>3, <1>4 DEF Sql!JsonSet

LEMMA MergeOfSame ==
  ASSUME NEW v \in Auth!Account
  PROVE  Auth!Merge(v, v) = v /\ Auth!Merge(Auth!NoUser, v) = v
  BY AccountIsRow DEF Auth!Merge, Auth!NoUser, Auth!Account

\* The account that a status alone makes.
LEMMA MergeOfNothing ==
  ASSUME NEW val \in Of("status")
  PROVE  /\ Auth!Field("status", val) \in Auth!Account
         /\ Auth!Field("status", val) = Sql!NewRow("status", val)
         /\ Auth!Merge(Auth!NoUser, Auth!Field("status", val)) = Auth!Field("status", val)
         /\ Auth!Field("status", val)["status"] = val
  <1>1. Auth!Field("status", val) = [password |-> Absent, status |-> val, attempts |-> Absent]
    BY DEF Auth!Field, Auth!NoUser
  <1>2. Auth!Field("status", val) \in Auth!Account
    BY <1>1 DEF Of, Statuses, Auth!Account, Auth!New, Auth!Active, Auth!Blocked
  <1>3. Sql!NewRow("status", val) = [f \in Fields |-> IF f = "status" THEN val ELSE Absent]
    BY Paths DEF Sql!NewRow
  <1>4. Auth!Field("status", val) = Sql!NewRow("status", val)
    BY <1>1, <1>3 DEF Fields
  <1> QED
    BY <1>1, <1>2, <1>4, MergeOfSame

\* The row that a successful write leaves.
NewRowOf(e, p, val) == Auth!Merge(AccountAt(e), FieldsOf(p, val))

\* A write of one field of a stored account leaves the others.
LEMMA FieldWrite ==
  ASSUME NEW e, row[Store][e] # Absent, row[Store][e] \in Auth!Account,
         NEW p \in {"status", "attempts"}, NEW val \in Of(p)
  PROVE  NewRowOf(e, p, val) = [row[Store][e] EXCEPT ![p] = val]
  <1>1. AccountAt(e) = row[Store][e]
    BY DEF AccountAt
  <1>2. FieldsOf(p, val) = Auth!Field(p, val)
    BY Paths DEF FieldsOf
  <1> QED
    BY <1>1, <1>2, MergeOfField DEF NewRowOf

LEMMA NewRowIsAccount ==
  ASSUME RowsOK, NEW e \in Emails, NEW p, NEW val, Storable(e, p, val)
  PROVE  /\ NewRowOf(e, p, val) \in Auth!Account
         /\ row[Store][e] # Absent =>
               /\ NewRowOf(e, p, val) = Sql!JsonSet(row[Store][e], p, val)
               /\ \A f \in Fields : row[Store][e][f] # Absent => NewRowOf(e, p, val)[f] # Absent
         /\ row[Store][e] = Absent =>
               p \in {Root, "status"} /\ NewRowOf(e, p, val) = Sql!NewRow(p, val)
         /\ p # Root => val \in Of(p) /\ p \in Fields /\ NewRowOf(e, p, val)[p] = val
  <1>1. CASE row[Store][e] = Absent /\ p = Root
    BY <1>1, MergeOfSame, Paths DEF Storable, NewRowOf, AccountAt, FieldsOf, Sql!NewRow
  <1>2. CASE row[Store][e] = Absent /\ p # Root
    <2>1. p = "status" /\ val \in Of("status")
      BY <1>2 DEF Storable
    <2>2. NewRowOf(e, p, val) = Auth!Merge(Auth!NoUser, Auth!Field("status", val))
      BY <1>2, <2>1 DEF NewRowOf, AccountAt, FieldsOf
    <2> QED
      BY <1>2, <2>1, <2>2, MergeOfNothing, Paths
  <1>3. CASE row[Store][e] # Absent /\ p = Root
    <2>1. row[Store][e] \in Auth!Account /\ val \in Partial
      BY <1>3, Paths DEF RowsOK, Storable
    <2>2. NewRowOf(e, p, val) = Auth!Merge(row[Store][e], val)
      BY <1>3 DEF NewRowOf, AccountAt, FieldsOf
    <2> QED
      BY <1>3, <2>1, <2>2, MergeOfAccount, MergeIsAccount
  <1>4. CASE row[Store][e] # Absent /\ p # Root
    <2>1. row[Store][e] \in Auth!Account /\ p \in {"status", "attempts"} /\ val \in Of(p)
      BY <1>4 DEF RowsOK, Storable
    <2>2. NewRowOf(e, p, val) = Auth!Merge(row[Store][e], Auth!Field(p, val))
      BY <1>4 DEF NewRowOf, AccountAt, FieldsOf
    <2>3. [row[Store][e] EXCEPT ![p] = val][p] = val
      BY <2>1 DEF Auth!Account
    <2> QED
      BY <1>4, <2>1, <2>2, <2>3, MergeOfField, MergeIsAccount, Paths
  <1> QED
    BY <1>1, <1>2, <1>3, <1>4

\* The statement of a write has run.
LEMMA WrittenKeeps ==
  ASSUME RowsOK, FramesOK, NEW e \in Emails, NEW p, NEW val, Storable(e, p, val), created[Store],
         Sql!Written(Store, e, p, NewRowOf(e, p, val), NewRowOf(e, p, val), val)
  PROVE  /\ RowsOK' /\ FramesOK'
         /\ row' = [row EXCEPT ![Store][e] = NewRowOf(e, p, val)]
         /\ \A x \in Emails, g \in Fields :
               <<x, g>> # <<e, p>> => frame'[Store][x][g] = frame[Store][x][g]
         /\ p # Root => frame'[Store][e][p] = val
  <1> DEFINE new == NewRowOf(e, p, val)
  <1>1. /\ row' = [row EXCEPT ![Store][e] = new]
        /\ frame' = Sql!WriteFrames(frame, Store, e, p, new, val)
        /\ UNCHANGED <<created, batch>>
    BY DEF Sql!Written
  <1>2. new \in Auth!Account /\ (p # Root => val \in Of(p) /\ p \in Fields)
    BY NewRowIsAccount
  <1>3. p \in Sql!Paths /\ Root \in Sql!Paths
    BY <1>2, Paths
  <1>4. /\ frame'[Store][e][Root] = new
        /\ p # Root => frame'[Store][e][p] = val
        /\ \A x \in Emails, q \in Sql!Paths :
              x # e \/ q \notin {p, Root} => frame'[Store][x][q] = frame[Store][x][q]
        /\ frame' \in [{Store} -> [Emails -> [Sql!Paths -> FrameVals]]]
    <2>1. CASE p = Root
      <3>1. frame' = [frame EXCEPT ![Store][e][Root] = new]
        BY <1>1, <2>1 DEF Sql!WriteFrames
      <3> QED
        BY <1>2, <1>3, <2>1, <3>1 DEF FramesOK, FrameVals
    <2>2. CASE p # Root
      <3>1. frame' = [frame EXCEPT ![Store][e][Root] = new, ![Store][e][p] = val]
        BY <1>1, <2>2 DEF Sql!WriteFrames
      <3>2. val \in FrameVals /\ new \in FrameVals
        BY <1>2, <2>2, OfIs DEF FrameVals
      <3> HIDE DEF new
      <3> QED
        BY <1>3, <2>2, <3>1, <3>2 DEF FramesOK
    <2> QED
      BY <2>1, <2>2
  <1>5. RowsOK'
    BY <1>1, <1>2 DEF RowsOK
  <1>6. /\ row'[Store][e] = new /\ new # Absent
        /\ \A x \in Emails : x # e => row'[Store][x] = row[Store][x]
    BY <1>1, <1>2, AccountIsRow DEF RowsOK
  <1> HIDE DEF new
  <1>7. ASSUME NEW x \in Emails, NEW q \in Sql!Paths
        PROVE  FrameFits(x, q)'
    <2>1. CASE x # e
      BY <1>4, <1>6, <2>1 DEF FramesOK, FrameFits
    <2>2. CASE x = e /\ q = Root
      BY <1>4, <1>6, <2>2 DEF FrameFits
    <2>3. CASE x = e /\ q = p /\ q # Root
      <3>1. val \in Of(p) /\ val # Absent /\ new[p] = val
        BY <2>3, NewRowIsAccount, OfIs DEF new
      <3> QED
        BY <1>4, <1>6, <2>3, <3>1 DEF FrameFits
    <2>4. CASE x = e /\ q # p /\ q # Root
      <3>1. q \in Fields /\ frame'[Store][x][q] = frame[Store][x][q]
        BY <1>4, <2>4, Paths
      <3>2. CASE frame[Store][x][q] = NoFrame
        BY <3>1, <3>2 DEF FrameFits
      <3>3. CASE frame[Store][x][q] # NoFrame
        <4>1. row[Store][x] # Absent /\ frame[Store][x][q] \in Of(q) /\ row[Store][x][q] # Absent
          BY <2>4, <3>3, FrameIs
        <4>2. new[q] # Absent
          BY <2>4, <3>1, <4>1, NewRowIsAccount DEF new
        <4> QED
          BY <1>6, <2>4, <3>1, <4>1, <4>2 DEF FrameFits
      <3> QED
        BY <3>2, <3>3
    <2> QED
      BY <2>1, <2>2, <2>3, <2>4
  <1>8. \A x \in Emails, g \in Fields :
           <<x, g>> # <<e, p>> => frame'[Store][x][g] = frame[Store][x][g]
    BY <1>4, Paths, Distinct
  <1> QED
    BY <1>1, <1>4, <1>5, <1>7, <1>8 DEF FramesOK, new

\* What set_user does, whichever statement the driver chooses: it stores the row with
\* the fields merged into it and says so, or leaves the rows and says that.
LEMMA WriteDoes ==
  ASSUME RowsOK, FramesOK, NEW e \in Emails, NEW p, NEW val, NEW up \in BOOLEAN,
         Storable(e, p, val), WriteAt(e, p, val, up)
  PROVE  /\ RowsOK' /\ FramesOK'
         /\ ret'.ok \in BOOLEAN
         /\ ret'.ok => row' = [row EXCEPT ![Store][e] = NewRowOf(e, p, val)]
         /\ ~ret'.ok => row' = row
         /\ up /\ row[Store][e] # Absent /\ (p = "attempts" => row[Store][e].attempts # Absent)
               => ret'.ok
         /\ \A x \in Emails, g \in Fields :
               <<x, g>> # <<e, p>> => frame'[Store][x][g] = frame[Store][x][g]
         /\ p # Root =>
               \/ frame'[Store][e][p] = frame[Store][e][p] /\ row' = row
               \/ ret'.ok /\ frame'[Store][e][p] = val
  <1> DEFINE v == Sql!RootValue(Store, e, up)
  <1>1. /\ v \in {Absent, row[Store][e]} /\ (up => v = row[Store][e])
        /\ row[Store][e] \in Auth!Account \cup {Absent}
    BY RootValueIs
  <1>2. p # Root => p \in Fields /\ val \in Of(p) /\ val # Absent /\ val # Null
    BY NewRowIsAccount, OfIs
  <1>3. row[Store][e] # Absent =>
           /\ row[Store][e] \in Auth!Account /\ row[Store][e] \in Sql!Row
           /\ ~Sql!Undefined(row[Store][e])
           /\ p # Root => Sql!Find(row[Store][e], p) = row[Store][e][p]
           /\ p # Root /\ (p = "attempts" => row[Store][e].attempts # Absent)
                 => ~Sql!Undefined(Sql!Find(row[Store][e], p))
    <2>1. p # Root => p \in {"status", "attempts"}
      BY DEF Storable
    <2> QED
      BY <2>1, <1>1, <1>2, AccountIsRow, OfIs DEF Sql!Undefined, Sql!Find
  <1>4. p # Root => Sql!Find(Absent, p) = Absent
    BY Distinct DEF Sql!Find
  <1>5. ASSUME NEW string, Sql!OnlyRead(Store, e, up, string)
        PROVE  /\ RowsOK' /\ FramesOK' /\ row' = row
               /\ \A x \in Emails, g \in Fields : frame'[Store][x][g] = frame[Store][x][g]
    BY <1>5, OnlyReadIsQuiet, QuietKeeps DEF Quiet, FieldFramesStay
  <1>6. CASE Sql!SetEqual(Store, e, p, val, up)
    <2>1. ret'.ok = TRUE /\ Sql!OnlyRead(Store, e, up, FALSE)
      BY <1>6 DEF Sql!SetEqual, Sql!Returns
    <2>2. CASE p = Root
      <3>1. v = val /\ v = row[Store][e] /\ v \in Auth!Account
        BY <1>1, <1>6, <2>2 DEF Sql!SetEqual, Sql!Undefined
      <3>2. NewRowOf(e, p, val) = row[Store][e]
        BY <2>2, <3>1, MergeOfSame, AccountIsRow DEF NewRowOf, AccountAt, FieldsOf
      <3> QED
        BY <1>5, <2>1, <2>2, <3>2 DEF RowsOK
    <2>3. CASE p # Root
      <3>1. Sql!Find(v, p) = val
        BY <1>6, <2>3 DEF Sql!SetEqual
      <3>2. v = row[Store][e] /\ v # Absent
        BY <1>1, <1>2, <1>4, <2>3, <3>1
      <3>3. row[Store][e][p] = val /\ p \in {"status", "attempts"} /\ row[Store][e] \in Auth!Account
        BY <1>3, <2>3, <3>1, <3>2 DEF Storable
      <3>4. NewRowOf(e, p, val) = row[Store][e]
        BY <1>2, <2>3, <3>2, <3>3, MergeOfField DEF NewRowOf, AccountAt, FieldsOf
      <3> QED
        BY <1>2, <1>5, <2>1, <3>4, ZenonT(40) DEF RowsOK
    <2> QED
      BY <2>2, <2>3
  <1>7. CASE Sql!SetInsert(Store, e, p, val, up)
    <2>1. Sql!SetInserts(v, p)
      BY <1>7 DEF Sql!SetInsert
    <2>2. ~(up /\ row[Store][e] # Absent /\ (p = "attempts" => row[Store][e].attempts # Absent))
      BY <1>1, <1>3, <2>1 DEF Sql!SetInserts
    <2>3. CASE up /\ created[Store] /\ row[Store][e] = Absent
      <3>1. NewRowOf(e, p, val) = Sql!NewRow(p, val)
        BY <2>3, NewRowIsAccount
      <3>2. /\ Sql!Written(Store, e, p, NewRowOf(e, p, val), NewRowOf(e, p, val), val)
            /\ ret'.ok = TRUE
        BY <1>7, <2>3, <3>1 DEF Sql!SetInsert, Sql!Returns
      <3>3. /\ RowsOK' /\ FramesOK'
            /\ row' = [row EXCEPT ![Store][e] = NewRowOf(e, p, val)]
            /\ \A x \in Emails, g \in Fields :
                  <<x, g>> # <<e, p>> => frame'[Store][x][g] = frame[Store][x][g]
            /\ p # Root => frame'[Store][e][p] = val
        BY <2>3, <3>2, WrittenKeeps
      <3> QED
        BY <3>2, <3>3
    <2>4. CASE ~(up /\ created[Store] /\ row[Store][e] = Absent)
      <3>1. /\ Sql!OnlyRead(Store, e, up, FALSE)
            /\ Sql!Returns("set", Store, e, p, FALSE, val)
        BY <1>7, <2>4 DEF Sql!SetInsert
      <3>2. ret'.ok = FALSE
        BY <3>1 DEF Sql!Returns
      <3> QED
        BY <1>2, <1>5, <2>2, <3>1, <3>2
    <2> QED
      BY <2>3, <2>4
  <1>8. CASE Sql!SetUpdate(Store, e, p, val, up)
    <2>1. ~Sql!SetInserts(v, p)
      BY <1>8 DEF Sql!SetUpdate
    <2>2. v = row[Store][e] /\ row[Store][e] # Absent
      BY <1>1, <2>1 DEF Sql!SetInserts, Sql!Undefined
    <2>3. created[Store]
      BY <2>2 DEF RowsOK
    <2>4. NewRowOf(e, p, val) = Sql!JsonSet(v, p, val)
      BY <2>2, NewRowIsAccount
    <2>5. CASE up
      <3>1. /\ Sql!Written(Store, e, p, NewRowOf(e, p, val), NewRowOf(e, p, val), val)
            /\ ret'.ok = TRUE
        BY <1>8, <2>2, <2>3, <2>4, <2>5 DEF Sql!SetUpdate, Sql!Update, Sql!Returns
      <3>2. /\ RowsOK' /\ FramesOK'
            /\ row' = [row EXCEPT ![Store][e] = NewRowOf(e, p, val)]
            /\ \A x \in Emails, g \in Fields :
                  <<x, g>> # <<e, p>> => frame'[Store][x][g] = frame[Store][x][g]
            /\ p # Root => frame'[Store][e][p] = val
        BY <2>3, <3>1, WrittenKeeps
      <3> QED
        BY <3>1, <3>2
    <2>6. CASE ~up
      <3>1. /\ Sql!OnlyRead(Store, e, up, FALSE)
            /\ Sql!Returns("set", Store, e, p, FALSE, val)
        BY <1>8, <2>6 DEF Sql!SetUpdate
      <3>2. ret'.ok = FALSE
        BY <3>1 DEF Sql!Returns
      <3> QED
        BY <1>2, <1>5, <2>6, <3>1, <3>2
    <2> QED
      BY <2>5, <2>6
  <1> QED
    BY <1>6, <1>7, <1>8 DEF WriteAt
----------------------------------------------------------------------------
(* The steps of the calls.                                                 *)

\* Thread t goes on to a step for which it has what it needs; the others stay.
Advance(t) ==
    /\ call' = [call EXCEPT ![t] = call'[t]]
    /\ call'[t] \in Auth!CallType
    /\ Working(call'[t], row[Store])

LEMMA Becoming ==
  ASSUME CallsOK, NEW t \in Threads, NEW c \in Auth!CallType, call' = [call EXCEPT ![t] = c],
         Working(c, row[Store])
  PROVE  Advance(t) /\ call'[t] = c
  BY DEF Advance, CallsOK

LEMMA Going ==
  ASSUME CallsOK, NEW t \in Threads, NEW pc \in Auth!Steps, call' = [call EXCEPT ![t].pc = pc],
         Working([call[t] EXCEPT !.pc = pc], row[Store])
  PROVE  Advance(t) /\ call'[t] = [call[t] EXCEPT !.pc = pc]
  <1>1. [call[t] EXCEPT !.pc = pc] \in Auth!CallType
    BY DEF CallsOK, Auth!CallType
  <1>2. call' = [call EXCEPT ![t] = [call[t] EXCEPT !.pc = pc]]
    BY DEF CallsOK
  <1> QED
    BY <1>1, <1>2, Becoming

LEMMA CallingIsCall ==
  ASSUME NEW op \in Auth!Ops, NEW pc \in Auth!Steps, NEW e \in Emails \cup {Absent},
         NEW pw \in Passwords \cup {Absent}, NEW new \in Passwords \cup {Absent}
  PROVE  Auth!Calling(op, pc, e, pw, new) \in Auth!CallType
  BY AttemptsAssumption DEF Auth!Calling, Auth!CallType

LEMMA CarryingIsCall ==
  ASSUME NEW c \in Auth!CallType, NEW v \in Auth!Account \cup {Auth!NoUser}, NEW n \in Counts
  PROVE  [c EXCEPT !.v = v] \in Auth!CallType /\ [c EXCEPT !.n = n] \in Auth!CallType
  BY DEF Auth!CallType, Counts

LEMMA Finishing ==
  ASSUME CallsOK, NEW t \in Threads, call' = [call EXCEPT ![t] = Auth!NoCall]
  PROVE  Advance(t) /\ call'[t] = Auth!NoCall
  <1>1. Auth!NoCall \in Auth!CallType
    BY CallingIsCall DEF Auth!NoCall, Auth!Ops, Auth!Steps
  <1>2. Working(Auth!NoCall, row[Store])
    BY DEF Working, Auth!NoCall, Auth!Calling
  <1> QED
    BY <1>1, <1>2, Becoming

\* What a driver call on the row of e found.
SeenRow(e, u) == u = Auth!NoUser \/ (u = row[Store][e] /\ u \in Auth!Account)

LEMMA SeenRowIs ==
  ASSUME NEW e, NEW u, SeenRow(e, u), u # Auth!NoUser
  PROVE  row[Store][e] # Absent /\ u \in Auth!Account
  BY AccountIsRow DEF SeenRow

LEMMA StartsOnRowAdvances ==
  ASSUME CallsOK, NEW t \in Threads, NEW e \in Emails, NEW u, SeenRow(e, u), StartsOnRow(t, e, u)
  PROVE  Advance(t) /\ UNCHANGED <<hashes, guesses>> /\ call[t].pc = "idle"
  <1>1. ASSUME NEW pw \in Passwords, Seeing(u)!CreateExists(t, e, pw, TRUE)
        PROVE  Advance(t) /\ UNCHANGED <<hashes, guesses>> /\ call[t].pc = "idle"
    <2> DEFINE c == Auth!Calling("create", "create user", e, pw, Absent)
    <2>1. /\ call' = [call EXCEPT ![t] = c]
          /\ UNCHANGED <<hashes, guesses>> /\ call[t].pc = "idle"
      BY <1>1 DEF Seeing!CreateExists, Seeing!Become, Seeing!Calling, Seeing!Ready, Seeing!NoUser,
                  Auth!Calling, Auth!NoUser
    <2>2. c \in Auth!CallType
      BY CallingIsCall DEF Auth!Ops, Auth!Steps
    <2>3. Working(c, row[Store])
      BY DEF Working, Auth!Calling
    <2> QED
      BY <2>1, <2>2, <2>3, Becoming
  <1>2. ASSUME Seeing(u)!ResetRead(t, e, TRUE)
        PROVE  Advance(t) /\ UNCHANGED <<hashes, guesses>> /\ call[t].pc = "idle"
    <2> DEFINE c == [Auth!Calling("reset", "reset write", e, Absent, Absent) EXCEPT !.v = u]
    <2>1. /\ call' = [call EXCEPT ![t] = c] /\ u # Auth!NoUser
          /\ UNCHANGED <<hashes, guesses>> /\ call[t].pc = "idle"
      BY <1>2 DEF Seeing!ResetRead, Seeing!Become, Seeing!Calling, Seeing!Ready, Seeing!NoUser,
                  Seeing!Found, Auth!Calling, Auth!NoUser
    <2>2. Auth!Calling("reset", "reset write", e, Absent, Absent) \in Auth!CallType
      BY CallingIsCall DEF Auth!Ops, Auth!Steps
    <2>3. c \in Auth!CallType
      BY <2>1, <2>2, SeenRowIs, CarryingIsCall, Numbers
    <2>4. Working(c, row[Store])
      BY <2>1, SeenRowIs DEF Working, Auth!Calling
    <2> QED
      BY <2>1, <2>3, <2>4, Becoming
  <1>3. ASSUME NEW new \in Passwords, Seeing(u)!ForgotExists(t, e, new, TRUE)
        PROVE  Advance(t) /\ UNCHANGED <<hashes, guesses>> /\ call[t].pc = "idle"
    <2> DEFINE c == Auth!Calling("forgot", "forgot write", e, Absent, new)
    <2>1. /\ call' = [call EXCEPT ![t] = c] /\ u # Auth!NoUser
          /\ UNCHANGED <<hashes, guesses>> /\ call[t].pc = "idle"
      BY <1>3 DEF Seeing!ForgotExists, Seeing!Become, Seeing!Calling, Seeing!Ready, Seeing!NoUser,
                  Seeing!Found, Auth!Calling, Auth!NoUser
    <2>2. c \in Auth!CallType
      BY CallingIsCall DEF Auth!Ops, Auth!Steps
    <2>3. Working(c, row[Store])
      BY <2>1, SeenRowIs DEF Working, Auth!Calling
    <2> QED
      BY <2>1, <2>2, <2>3, Becoming
  <1> QED
    BY <1>1, <1>2, <1>3 DEF StartsOnRow

\* What a driver call on the field f of e found: x.
SeenField(e, f, x) == x # Absent => row[Store][e] # Absent /\ x \in Of(f)

LEMMA StartsOnStatusAdvances ==
  ASSUME CallsOK, NEW t \in Threads, NEW e \in Emails, NEW x, SeenField(e, "status", x),
         StartsOnStatus(t, e, Auth!Field("status", x))
  PROVE  Advance(t) /\ UNCHANGED <<hashes, guesses>> /\ call[t].pc = "idle" /\ x = Auth!Active
  <1> DEFINE u == Auth!Field("status", x)
  <1>0. u.status = x /\ (x = Auth!Active => row[Store][e] # Absent)
    BY Numbers, SentinelAssumption DEF Auth!Field, Auth!NoUser, SeenField
  <1> HIDE DEF u
  <1>1. ASSUME NEW pw \in Passwords, NEW new \in Passwords \cup {Absent},
               NEW op \in {"check", "change"}, op = "change" => new \in Passwords,
               Seeing(u)!CheckActive(t, op, e, pw, new, TRUE)
        PROVE  Advance(t) /\ UNCHANGED <<hashes, guesses>> /\ call[t].pc = "idle" /\ x = Auth!Active
    <2> DEFINE c == Auth!Calling(op, "exists", e, pw, new)
    <2>1. /\ call' = [call EXCEPT ![t] = c] /\ x = Auth!Active
          /\ UNCHANGED <<hashes, guesses>> /\ call[t].pc = "idle"
      BY <1>0, <1>1 DEF Seeing!CheckActive, Seeing!Become, Seeing!Calling, Seeing!Ready, Seeing!Active,
                  Seeing!Found, Seeing!NoUser, Auth!NoUser, Auth!Calling, Auth!Active
    <2>2. c \in Auth!CallType
      BY <1>1, CallingIsCall DEF Auth!Ops, Auth!Steps
    <2>3. Working(c, row[Store])
      BY <1>0, <1>1, <2>1 DEF Working, Auth!Calling
    <2> QED
      BY <2>1, <2>2, <2>3, Becoming
  <1>2. ASSUME NEW n \in 0..MAX_LOGIN_ATTEMPTS, Seeing(u)!SetAttempts(t, e, n, TRUE)
        PROVE  Advance(t) /\ UNCHANGED <<hashes, guesses>> /\ call[t].pc = "idle" /\ x = Auth!Active
    <2> DEFINE c == [Auth!Calling("count", "count write", e, Absent, Absent) EXCEPT !.n = n]
    <2>1. /\ call' = [call EXCEPT ![t] = c] /\ x = Auth!Active
          /\ UNCHANGED <<hashes, guesses>> /\ call[t].pc = "idle"
      BY <1>0, <1>2 DEF Seeing!SetAttempts, Seeing!Become, Seeing!Calling, Seeing!Ready, Seeing!Active,
                  Seeing!Found, Seeing!NoUser, Auth!NoUser, Auth!Calling, Auth!Active
    <2>2. Auth!Calling("count", "count write", e, Absent, Absent) \in Auth!CallType
      BY CallingIsCall DEF Auth!Ops, Auth!Steps
    <2>3. c \in Auth!CallType
      BY <1>2, <2>2, CarryingIsCall DEF Counts
    <2>4. Working(c, row[Store])
      BY <1>0, <2>1 DEF Working, Auth!Calling
    <2> QED
      BY <2>1, <2>3, <2>4, Becoming
  <1> QED
    BY <1>1, <1>2 DEF StartsOnStatus, u

(* What the steps that read do to the call, u being what the driver found.  *)

LEMMA CheckExistsDoes ==
  ASSUME NEW t, call[t].email \in Emails, NEW u, Seeing(u)!CheckExists(t, TRUE)
  PROVE  /\ call[t].pc = "exists"
         /\ call' = [call EXCEPT ![t].pc =
                        IF u # Auth!NoUser THEN "authorize" ELSE "fail active"]
         /\ UNCHANGED <<hashes, guesses>>
  BY DEF Seeing!CheckExists, Seeing!At, Seeing!Goto, Seeing!Found, Seeing!NoUser, Auth!NoUser

LEMMA AuthorizeDoes ==
  ASSUME NEW t, call[t].email \in Emails, NEW u, Seeing(u)!Authorize(t, TRUE)
  PROVE  /\ call[t].pc = "authorize"
         /\ call' = [call EXCEPT ![t].pc =
                        IF Auth!Authorizes(u, call[t].password) THEN "clear active" ELSE "fail active"]
         /\ guesses' = [guesses EXCEPT ![call[t].email] =
                           IF u.status = Auth!Active /\ u.password \notin {Absent, call[t].password}
                              /\ @ <= MAX_LOGIN_ATTEMPTS THEN @ + 1 ELSE @]
         /\ UNCHANGED hashes
  BY DEF Seeing!Authorize, Seeing!At, Seeing!Goto, Seeing!Found, Seeing!Authorizes, Seeing!Active,
         Auth!Authorizes, Auth!Active

LEMMA BlockReadDoes ==
  ASSUME NEW t, call[t].email \in Emails, NEW u, Seeing(u)!BlockRead(t, TRUE)
  PROVE  /\ call[t].pc = "block read"
         /\ \/ u = Auth!NoUser /\ call' = [call EXCEPT ![t] = Auth!NoCall]
            \/ /\ u # Auth!NoUser
               /\ call' = [call EXCEPT ![t] =
                     [Auth!Calling(call[t].op, "block write", call[t].email, Absent, Absent) EXCEPT
                        !.v = [u EXCEPT !.status =
                                  IF call[t].op = "unblock" THEN Auth!Active ELSE Auth!Blocked]]]
         /\ UNCHANGED <<hashes, guesses>>
  BY DEF Seeing!BlockRead, Seeing!At, Seeing!Become, Seeing!Finish, Seeing!NoCall, Seeing!Calling,
         Seeing!Found, Seeing!NoUser, Seeing!Active, Seeing!Blocked,
         Auth!NoUser, Auth!NoCall, Auth!Calling, Auth!Active, Auth!Blocked

LEMMA VerifyUserDoes ==
  ASSUME NEW t, call[t].email \in Emails, NEW u, Seeing(u)!VerifyUser(t, TRUE)
  PROVE  /\ call[t].pc = "verify user"
         /\ \/ call' = [call EXCEPT ![t] = Auth!NoCall]
            \/ /\ u # Auth!NoUser /\ u.status = Auth!New
               /\ call' = [call EXCEPT ![t].pc = "activate"]
         /\ UNCHANGED <<hashes, guesses>>
  BY DEF Seeing!VerifyUser, Seeing!At, Seeing!Become, Seeing!Finish, Seeing!NoCall, Seeing!Calling,
         Seeing!Found, Seeing!NoUser, Seeing!Goto, Seeing!Verifiable, Seeing!New,
         Auth!NoUser, Auth!NoCall, Auth!Calling, Auth!New

LEMMA ClearActiveDoes ==
  ASSUME NEW t, call[t].email \in Emails, NEW u, Seeing(u)!ClearActive(t, TRUE)
  PROVE  /\ call[t].pc = "clear active"
         /\ \/ u.status = Auth!Active /\ call' = [call EXCEPT ![t].pc = "clear"]
            \/ call[t].op = "change" /\ call' = [call EXCEPT ![t].pc = "change write"]
            \/ call[t].op # "change" /\ call' = [call EXCEPT ![t] = Auth!NoCall]
         /\ UNCHANGED <<hashes, guesses>>
  BY DEF Seeing!ClearActive, Seeing!At, Seeing!Become, Seeing!Finish, Seeing!NoCall, Seeing!Calling,
         Seeing!Found, Seeing!NoUser, Seeing!Goto, Seeing!Succeed, Seeing!Active,
         Auth!NoUser, Auth!NoCall, Auth!Calling, Auth!Active

LEMMA FailActiveDoes ==
  ASSUME NEW t, call[t].email \in Emails, NEW u, Seeing(u)!FailActive(t, TRUE)
  PROVE  /\ call[t].pc = "fail active"
         /\ \/ u.status = Auth!Active /\ call' = [call EXCEPT ![t].pc = "fail count"]
            \/ u.status # Auth!Active /\ call' = [call EXCEPT ![t] = Auth!NoCall]
         /\ UNCHANGED <<hashes, guesses>>
  BY DEF Seeing!FailActive, Seeing!At, Seeing!Become, Seeing!Finish, Seeing!NoCall, Seeing!Calling,
         Seeing!Found, Seeing!NoUser, Seeing!Goto, Seeing!Active,
         Auth!NoUser, Auth!NoCall, Auth!Calling, Auth!Active

LEMMA CountActiveDoes ==
  ASSUME NEW t, call[t].email \in Emails, NEW u, Seeing(u)!CountActive(t, TRUE)
  PROVE  /\ call[t].pc = "count active"
         /\ \/ u.status = Auth!Active /\ call' = [call EXCEPT ![t].pc = "count write"]
            \/ /\ u.status # Auth!Active \/ ~(call[t].n <= MAX_LOGIN_ATTEMPTS)
               /\ call' = [call EXCEPT ![t] = Auth!NoCall]
         /\ UNCHANGED <<hashes, guesses>>
  BY DEF Seeing!CountActive, Seeing!At, Seeing!Become, Seeing!Finish, Seeing!NoCall, Seeing!Calling,
         Seeing!Found, Seeing!NoUser, Seeing!Goto, Seeing!Active,
         Auth!NoUser, Auth!NoCall, Auth!Calling, Auth!Active

LEMMA FailCountDoes ==
  ASSUME NEW t, call[t].email \in Emails, NEW u, Seeing(u)!FailCount(t, TRUE)
  PROVE  /\ call[t].pc = "fail count"
         /\ \/ u.attempts = Absent /\ call' = [call EXCEPT ![t] = Auth!NoCall]
            \/ /\ u.attempts # Absent /\ u.attempts + 1 >= MAX_LOGIN_ATTEMPTS
               /\ call' = [call EXCEPT ![t] =
                     [Auth!Calling(call[t].op, "block read", call[t].email, Absent, Absent) EXCEPT
                        !.n = 0]]
            \/ /\ u.attempts # Absent /\ ~(u.attempts + 1 >= MAX_LOGIN_ATTEMPTS)
               /\ call' = [call EXCEPT ![t] =
                     [Auth!Calling(call[t].op, "count active", call[t].email, Absent, Absent) EXCEPT
                        !.n = u.attempts + 1]]
         /\ UNCHANGED <<hashes, guesses>>
  BY DEF Seeing!FailCount, Seeing!At, Seeing!Become, Seeing!Finish, Seeing!NoCall, Seeing!Calling,
         Seeing!Found, Seeing!NoUser, Seeing!LocksOut,
         Auth!NoUser, Auth!NoCall, Auth!Calling

LEMMA StepIs ==
  ASSUME CallsOK, NEW t \in Threads
  PROVE  /\ call[t] \in Auth!CallType /\ Working(call[t], row[Store])
         /\ call[t].pc # "idle" => call[t].email \in Emails
  BY DEF CallsOK, Working, Auth!CallType

LEMMA OneMoreGuess ==
  ASSUME NEW k \in 0..MAX_LOGIN_ATTEMPTS + 1
  PROVE  k <= MAX_LOGIN_ATTEMPTS => k + 1 \in 0..MAX_LOGIN_ATTEMPTS + 1
  BY AttemptsAssumption

LEMMA GoesOnRowAdvances ==
  ASSUME CallsOK, NEW t \in Threads, NEW u, SeenRow(call[t].email, u), ~Auth!Ready(t),
         GoesOnRow(t, u)
  PROVE  /\ Advance(t) /\ UNCHANGED hashes
         /\ guesses \in [Emails -> 0..MAX_LOGIN_ATTEMPTS + 1] =>
               guesses' \in [Emails -> 0..MAX_LOGIN_ATTEMPTS + 1]
  <1> DEFINE e == call[t].email
  <1>1. /\ call[t] \in Auth!CallType /\ Working(call[t], row[Store])
        /\ e \in Emails /\ call[t].pc # "idle"
    BY StepIs DEF Auth!Ready
  <1>2. CASE Seeing(u)!CheckExists(t, TRUE)
    <2>1. PICK pc \in {"authorize", "fail active"} : call' = [call EXCEPT ![t].pc = pc]
      BY <1>1, <1>2, CheckExistsDoes
    <2>2. call[t].pc = "exists" /\ UNCHANGED <<hashes, guesses>>
      BY <1>1, <1>2, CheckExistsDoes
    <2> DEFINE d == [call[t] EXCEPT !.pc = pc]
    <2>3. Working(d, row[Store])
      <3>1. /\ d.pc = pc /\ d.op = call[t].op /\ d.email = e
            /\ d.password = call[t].password /\ d.new = call[t].new
        BY <1>1 DEF Auth!CallType
      <3> HIDE DEF d
      <3> QED
        BY <1>1, <2>2, <3>1 DEF Working
    <2> QED
      BY <2>1, <2>2, <2>3, Going DEF Auth!Steps
  <1>3. CASE Seeing(u)!Authorize(t, TRUE)
    <2>1. PICK pc \in {"clear active", "fail active"} : call' = [call EXCEPT ![t].pc = pc]
      BY <1>1, <1>3, AuthorizeDoes
    <2>2. call[t].pc = "authorize" /\ UNCHANGED hashes
      BY <1>1, <1>3, AuthorizeDoes
    <2> DEFINE d == [call[t] EXCEPT !.pc = pc]
    <2>3. Working(d, row[Store])
      <3>1. /\ d.pc = pc /\ d.op = call[t].op /\ d.email = e
            /\ d.password = call[t].password /\ d.new = call[t].new
        BY <1>1 DEF Auth!CallType
      <3> HIDE DEF d
      <3> QED
        BY <1>1, <2>2, <3>1 DEF Working
    <2>4. ASSUME guesses \in [Emails -> 0..MAX_LOGIN_ATTEMPTS + 1]
          PROVE  guesses' \in [Emails -> 0..MAX_LOGIN_ATTEMPTS + 1]
      <3> DEFINE g == IF u.status = Auth!Active /\ u.password \notin {Absent, call[t].password}
                         /\ guesses[e] <= MAX_LOGIN_ATTEMPTS THEN guesses[e] + 1 ELSE guesses[e]
      <3>1. guesses' = [guesses EXCEPT ![e] = g]
        BY <1>1, <1>3, <2>4, AuthorizeDoes
      <3>2. guesses[e] \in 0..MAX_LOGIN_ATTEMPTS + 1
        BY <1>1, <2>4
      <3>3. g \in 0..MAX_LOGIN_ATTEMPTS + 1
        BY <3>2, OneMoreGuess
      <3> HIDE DEF g
      <3> QED
        BY <1>1, <2>4, <3>1, <3>3
    <2> QED
      BY <2>1, <2>2, <2>3, <2>4, Going DEF Auth!Steps
  <1>4. CASE Seeing(u)!BlockRead(t, TRUE)
    <2>1. call[t].pc = "block read" /\ UNCHANGED <<hashes, guesses>>
      BY <1>1, <1>4, BlockReadDoes
    <2>2. CASE u = Auth!NoUser /\ call' = [call EXCEPT ![t] = Auth!NoCall]
      BY <2>1, <2>2, Finishing
    <2>3. CASE u # Auth!NoUser
      <3> DEFINE v == [u EXCEPT !.status =
                         IF call[t].op = "unblock" THEN Auth!Active ELSE Auth!Blocked]
                 c == [Auth!Calling(call[t].op, "block write", e, Absent, Absent) EXCEPT !.v = v]
      <3>1. call' = [call EXCEPT ![t] = c]
        BY <1>1, <1>4, <2>3, BlockReadDoes
      <3>2. row[Store][e] # Absent /\ u \in Auth!Account
        BY <2>3, SeenRowIs
      <3>3. v \in Auth!Account
        BY <3>2 DEF Auth!Account
      <3>4. Auth!Calling(call[t].op, "block write", e, Absent, Absent) \in Auth!CallType
        BY <1>1, CallingIsCall DEF Auth!CallType, Auth!Steps
      <3> HIDE DEF v
      <3>5. c \in Auth!CallType
        BY <3>3, <3>4, CarryingIsCall, Numbers
      <3>6. Working(c, row[Store])
        BY <1>1, <3>2, <3>3 DEF Working, Auth!Calling
      <3> QED
        BY <2>1, <3>1, <3>5, <3>6, Becoming
    <2> QED
      BY <1>1, <1>4, <2>2, <2>3, BlockReadDoes
  <1>5. CASE Seeing(u)!VerifyUser(t, TRUE)
    <2>1. call[t].pc = "verify user" /\ UNCHANGED <<hashes, guesses>>
      BY <1>1, <1>5, VerifyUserDoes
    <2>2. CASE call' = [call EXCEPT ![t] = Auth!NoCall]
      BY <2>1, <2>2, Finishing
    <2>3. CASE u # Auth!NoUser /\ call' = [call EXCEPT ![t].pc = "activate"]
      <3>1. row[Store][e] # Absent
        BY <2>3, SeenRowIs
      <3> DEFINE d == [call[t] EXCEPT !.pc = "activate"]
      <3>2. Working(d, row[Store])
        <4>1. /\ d.pc = "activate" /\ d.op = call[t].op /\ d.email = e
              /\ d.password = call[t].password /\ d.new = call[t].new
          BY <1>1 DEF Auth!CallType
        <4> HIDE DEF d
        <4> QED
          BY <1>1, <2>1, <3>1, <4>1 DEF Working
      <3> QED
        BY <2>1, <2>3, <3>2, Going DEF Auth!Steps
    <2> QED
      BY <1>1, <1>5, <2>2, <2>3, VerifyUserDoes
  <1> QED
    BY <1>2, <1>3, <1>4, <1>5 DEF GoesOnRow

LEMMA GoesOnStatusAdvances ==
  ASSUME CallsOK, NEW t \in Threads, NEW u, ~Auth!Ready(t), GoesOnStatus(t, u)
  PROVE  Advance(t) /\ UNCHANGED <<hashes, guesses>>
  <1> DEFINE e == call[t].email
             d(pc) == [call[t] EXCEPT !.pc = pc]
  <1>1. /\ call[t] \in Auth!CallType /\ Working(call[t], row[Store])
        /\ e \in Emails /\ call[t].pc # "idle"
    BY StepIs DEF Auth!Ready
  <1>2. \A pc \in Auth!Steps :
           /\ d(pc).pc = pc /\ d(pc).op = call[t].op /\ d(pc).email = e
           /\ d(pc).password = call[t].password /\ d(pc).new = call[t].new
    BY <1>1 DEF Auth!CallType
  <1> HIDE DEF d
  <1>3. CASE Seeing(u)!ClearActive(t, TRUE)
    <2>1. call[t].pc = "clear active" /\ UNCHANGED <<hashes, guesses>>
      BY <1>1, <1>3, ClearActiveDoes
    <2>2. CASE call' = [call EXCEPT ![t].pc = "clear"]
      <3>1. Working(d("clear"), row[Store])
        BY <1>1, <1>2, <2>1, ZenonT(40) DEF Working, Auth!Steps
      <3> QED
        BY <2>1, <2>2, <3>1, Going DEF Auth!Steps, d
    <2>3. CASE call[t].op = "change" /\ call' = [call EXCEPT ![t].pc = "change write"]
      <3>1. Working(d("change write"), row[Store])
        BY <1>1, <1>2, <2>1, <2>3 DEF Working, Auth!Steps
      <3> QED
        BY <2>1, <2>3, <3>1, Going DEF Auth!Steps, d
    <2>4. CASE call' = [call EXCEPT ![t] = Auth!NoCall]
      BY <2>1, <2>4, Finishing
    <2> QED
      BY <1>1, <1>3, <2>2, <2>3, <2>4, ClearActiveDoes
  <1>4. CASE Seeing(u)!FailActive(t, TRUE)
    <2>1. call[t].pc = "fail active" /\ UNCHANGED <<hashes, guesses>>
      BY <1>1, <1>4, FailActiveDoes
    <2>2. CASE call' = [call EXCEPT ![t].pc = "fail count"]
      <3>1. Working(d("fail count"), row[Store])
        BY <1>1, <1>2, <2>1 DEF Working, Auth!Steps
      <3> QED
        BY <2>1, <2>2, <3>1, Going DEF Auth!Steps, d
    <2>3. CASE call' = [call EXCEPT ![t] = Auth!NoCall]
      BY <2>1, <2>3, Finishing
    <2> QED
      BY <1>1, <1>4, <2>2, <2>3, FailActiveDoes
  <1>5. CASE Seeing(u)!CountActive(t, TRUE)
    <2>1. call[t].pc = "count active" /\ UNCHANGED <<hashes, guesses>>
      BY <1>1, <1>5, CountActiveDoes
    <2>2. CASE call' = [call EXCEPT ![t].pc = "count write"]
      <3>1. Working(d("count write"), row[Store])
        BY <1>1, <1>2, <2>1 DEF Working, Auth!Steps
      <3> QED
        BY <2>1, <2>2, <3>1, Going DEF Auth!Steps, d
    <2>3. CASE call' = [call EXCEPT ![t] = Auth!NoCall]
      BY <2>1, <2>3, Finishing
    <2> QED
      BY <1>1, <1>5, <2>2, <2>3, CountActiveDoes
  <1> QED
    BY <1>3, <1>4, <1>5 DEF GoesOnStatus

LEMMA OneMoreCount ==
  ASSUME NEW k \in Counts, ~(k + 1 >= MAX_LOGIN_ATTEMPTS)
  PROVE  k + 1 \in Counts
  BY AttemptsAssumption DEF Counts

LEMMA FailCountAdvances ==
  ASSUME CallsOK, NEW t \in Threads, NEW x, SeenField(call[t].email, "attempts", x),
         ~Auth!Ready(t), Seeing(Auth!Field("attempts", x))!FailCount(t, TRUE)
  PROVE  Advance(t) /\ UNCHANGED <<hashes, guesses>>
  <1> DEFINE e == call[t].email
             u == Auth!Field("attempts", x)
             c(pc, n) == [Auth!Calling(call[t].op, pc, e, Absent, Absent) EXCEPT !.n = n]
  <1>1. /\ call[t] \in Auth!CallType /\ Working(call[t], row[Store])
        /\ e \in Emails /\ call[t].pc # "idle" /\ call[t].op \in Auth!Ops
    BY StepIs DEF Auth!Ready, Auth!CallType
  <1>2. u.attempts = x
    BY DEF Auth!Field, Auth!NoUser
  <1> HIDE DEF u
  <1>3. call[t].pc = "fail count" /\ UNCHANGED <<hashes, guesses>>
    BY <1>1, FailCountDoes DEF u
  <1>4. row[Store][e] # Absent
    BY <1>1, <1>3 DEF Working
  <1>5. ASSUME NEW pc \in {"block read", "count active"}, NEW n \in Counts,
               call' = [call EXCEPT ![t] = c(pc, n)]
        PROVE  Advance(t)
    <2>1. Auth!Calling(call[t].op, pc, e, Absent, Absent) \in Auth!CallType
      BY <1>1, CallingIsCall DEF Auth!Steps
    <2>2. c(pc, n) \in Auth!CallType
      BY <2>1, CarryingIsCall
    <2>3. Working(c(pc, n), row[Store])
      BY <1>1, <1>4 DEF Working, Auth!Calling
    <2> QED
      BY <1>5, <2>2, <2>3, Becoming
  <1>6. x # Absent => x \in Counts
    BY DEF SeenField, Of
  <1>7. CASE call' = [call EXCEPT ![t] = Auth!NoCall]
    BY <1>3, <1>7, Finishing
  <1>8. CASE call' = [call EXCEPT ![t] = c("block read", 0)]
    BY <1>3, <1>5, <1>8, Numbers
  <1>9. CASE x # Absent /\ ~(x + 1 >= MAX_LOGIN_ATTEMPTS) /\ call' = [call EXCEPT ![t] = c("count active", x + 1)]
    <2>1. x + 1 \in Counts
      BY <1>6, <1>9, OneMoreCount
    <2> QED
      BY <1>3, <1>5, <1>9, <2>1
  <1> QED
    BY <1>1, <1>2, <1>7, <1>8, <1>9, FailCountDoes, ZenonT(40) DEF u

\* block and active begin without a look at the account.
LEMMA EnterAdvances ==
  ASSUME CallsOK, NEW t \in Threads, NEW e \in Emails, Enter(t, e)
  PROVE  /\ Advance(t) /\ call[t].pc = "idle"
         /\ UNCHANGED <<users, hashes, guesses, created, row, frame, batch>>
         /\ \/ call'[t].pc = "block read" /\ call'[t].op \in {"block", "unblock"}
            \/ call'[t].pc = "set active"
  <1>1. /\ UNCHANGED <<created, row, frame, batch>>
        /\ \E flag \in BOOLEAN : Auth!BlockCall(t, e, flag) \/ Auth!ActiveCall(t, e, flag)
    BY DEF Enter
  <1>2. ASSUME NEW flag \in BOOLEAN, Auth!BlockCall(t, e, flag)
        PROVE  /\ Advance(t) /\ call[t].pc = "idle" /\ UNCHANGED <<users, hashes, guesses>>
               /\ call'[t].pc = "block read" /\ call'[t].op \in {"block", "unblock"}
    <2> DEFINE op == IF flag THEN "block" ELSE "unblock"
               c == Auth!Calling(op, "block read", e, Absent, Absent)
    <2>1. /\ call' = [call EXCEPT ![t] = c] /\ call[t].pc = "idle"
          /\ UNCHANGED <<users, hashes, guesses>>
      BY <1>2 DEF Auth!BlockCall, Auth!Become, Auth!Ready
    <2>2. op \in Auth!Ops /\ op \in {"block", "unblock"}
      BY DEF Auth!Ops
    <2> HIDE DEF op
    <2>3. c \in Auth!CallType
      BY <2>2, CallingIsCall DEF Auth!Steps
    <2>4. Working(c, row[Store])
      BY <2>2 DEF Working, Auth!Calling
    <2>5. c.pc = "block read" /\ c.op \in {"block", "unblock"}
      BY <2>2 DEF Auth!Calling
    <2> QED
      BY <2>1, <2>3, <2>4, <2>5, Becoming
  <1>3. ASSUME NEW flag \in BOOLEAN, Auth!ActiveCall(t, e, flag)
        PROVE  /\ Advance(t) /\ call[t].pc = "idle" /\ UNCHANGED <<users, hashes, guesses>>
               /\ call'[t].pc = "set active"
    <2> DEFINE op == IF flag THEN "activate" ELSE "deactivate"
               c == Auth!Calling(op, "set active", e, Absent, Absent)
    <2>1. /\ call' = [call EXCEPT ![t] = c] /\ call[t].pc = "idle"
          /\ UNCHANGED <<users, hashes, guesses>>
      BY <1>3 DEF Auth!ActiveCall, Auth!Become, Auth!Ready
    <2>2. op \in Auth!Ops /\ op \in {"activate", "deactivate"}
      BY DEF Auth!Ops
    <2> HIDE DEF op
    <2>4. c \in Auth!CallType
      BY <2>2, CallingIsCall DEF Auth!Steps
    <2>5. Working(c, row[Store])
      BY <2>2 DEF Working, Auth!Calling
    <2>6. c.pc = "set active"
      BY DEF Auth!Calling
    <2> QED
      BY <2>1, <2>4, <2>5, <2>6, Becoming
  <1> QED
    BY <1>1, <1>2, <1>3

LEMMA HashesAdvances ==
  ASSUME CallsOK, NEW t \in Threads, NEW up, Hashes(t, up)
  PROVE  /\ Advance(t)
         /\ UNCHANGED <<users, guesses, created, row, frame, batch>>
         /\ call'[t] = Auth!NoCall \/ (call'[t].pc = "verify user" /\ call[t].pc = "idle")
  <1>1. UNCHANGED <<created, row, frame, batch>>
    BY DEF Hashes
  <1>2. CASE Auth!CreateHash(t, up) \/ Auth!ResetHash(t, up)
    <2>1. call' = [call EXCEPT ![t] = Auth!NoCall] /\ UNCHANGED <<users, guesses>>
      BY <1>2 DEF Auth!CreateHash, Auth!ResetHash, Auth!SaveHash, Auth!Finish, Auth!Become
    <2> QED
      BY <1>1, <2>1, Finishing
  <1>3. CASE \E h \in Auth!HashType : Auth!VerifyHash(t, h)
    <2>1. PICK h \in Auth!HashType : Auth!VerifyHash(t, h)
      BY <1>3
    <2> DEFINE c == Auth!Calling("verify", "verify user", h[2], Absent, Absent)
    <2>2. /\ call' = [call EXCEPT ![t] = c] /\ UNCHANGED <<users, guesses>> /\ call[t].pc = "idle"
      BY <2>1 DEF Auth!VerifyHash, Auth!Become, Auth!Ready
    <2>3. h[2] \in Emails
      BY DEF Auth!HashType
    <2>4. c \in Auth!CallType
      BY <2>3, CallingIsCall DEF Auth!Ops, Auth!Steps
    <2>5. Working(c, row[Store]) /\ c.pc = "verify user"
      BY <2>3 DEF Working, Auth!Calling
    <2> QED
      BY <1>1, <2>2, <2>4, <2>5, Becoming
  <1> QED
    BY <1>2, <1>3 DEF Hashes
----------------------------------------------------------------------------
(* The steps that write.                                                   *)

RowSteps == {"create user", "reset write", "forgot write", "change write", "block write"}
StatusSteps == {"activate", "set active"}
CountSteps == {"clear", "count write"}

\* Where the call c stores, and what.
PathOf(c) == CASE c.pc \in RowSteps -> Root
               [] c.pc \in StatusSteps -> "status"
               [] OTHER -> "attempts"
ValOf(c) == CASE c.pc \in RowSteps -> RowToStore(c)
              [] c.pc \in StatusSteps ->
                    IF c.op \in {"verify", "activate"} THEN Auth!Active ELSE Auth!New
              [] OTHER -> IF c.pc = "clear" THEN 0 ELSE c.n

\* The writes that restart the count of wrong passwords.
Restarts(c) ==
    \/ c.pc \in {"create user", "forgot write", "change write", "clear", "set active"}
    \/ c.pc = "block write" /\ c.op = "unblock"
    \/ c.pc = "count write" /\ c.op = "count"

\* What a call does when its write is answered with ok.
Stored(t, ok) ==
    /\ users' = IF ok THEN [users EXCEPT ![call[t].email] =
                               Auth!Merge(@, FieldsOf(PathOf(call[t]), ValOf(call[t])))]
                ELSE users
    /\ guesses' = IF ok /\ Restarts(call[t]) THEN [guesses EXCEPT ![call[t].email] = 0]
                  ELSE guesses
    /\ Advance(t)
    /\ call'[t].pc \in {"idle", "create hash", "reset hash", "change write"}
    /\ call'[t].pc = "change write" => call[t].pc = "clear" /\ call'[t].email = call[t].email

LEMMA WriteIs ==
  ASSUME NEW t, NEW up, Write(t, up)
  PROVE  /\ WriteAt(call[t].email, PathOf(call[t]), ValOf(call[t]), up)
         /\ \/ call[t].pc \in RowSteps /\ AfterRowStored(t, ret'.ok)
            \/ call[t].pc \in StatusSteps /\ AfterStatusStored(t, ret'.ok)
            \/ call[t].pc \in CountSteps /\ AfterCountStored(t, ret'.ok)
  <1>1. CASE call[t].pc \in RowSteps
    <2>1. PathOf(call[t]) = Root /\ ValOf(call[t]) = RowToStore(call[t])
      BY <1>1 DEF PathOf, ValOf, RowSteps, StatusSteps
    <2> QED
      BY <1>1, <2>1 DEF Write, RowSteps
  <1>2. CASE call[t].pc \in StatusSteps
    <2>1. /\ PathOf(call[t]) = "status"
          /\ ValOf(call[t]) = IF call[t].op \in {"verify", "activate"} THEN Auth!Active ELSE Auth!New
      BY <1>2 DEF PathOf, ValOf, RowSteps, StatusSteps
    <2> QED
      BY <1>2, <2>1 DEF Write, StatusSteps
  <1>3. CASE call[t].pc \in CountSteps
    <2>1. /\ PathOf(call[t]) = "attempts"
          /\ ValOf(call[t]) = IF call[t].pc = "clear" THEN 0 ELSE call[t].n
      BY <1>3 DEF PathOf, ValOf, RowSteps, StatusSteps, CountSteps
    <2> QED
      BY <1>3, <2>1 DEF Write, CountSteps
  <1> QED
    BY <1>1, <1>2, <1>3 DEF Write, RowSteps, StatusSteps, CountSteps

\* Every write of a call is one the driver can store.
LEMMA StoresStorable ==
  ASSUME CallsOK, NEW t \in Threads, call[t].pc \in RowSteps \cup StatusSteps \cup CountSteps
  PROVE  Storable(call[t].email, PathOf(call[t]), ValOf(call[t])) /\ call[t].email \in Emails
  <1> DEFINE c == call[t]
  <1>1. c \in Auth!CallType /\ Working(c, row[Store]) /\ c.email \in Emails
    BY StepIs DEF RowSteps, StatusSteps, CountSteps
  <1> HIDE DEF c
  <1>2. CASE c.pc \in RowSteps
    <2>1. PathOf(c) = Root /\ ValOf(c) = RowToStore(c)
      BY <1>2 DEF PathOf, ValOf, RowSteps, StatusSteps
    <2>2. CASE c.pc = "create user"
      <3>1. c.password \in Passwords
        BY <1>1, <2>2 DEF Working
      <3>2. RowToStore(c) \in Auth!Account
        BY <2>2, <3>1, Numbers, SentinelAssumption DEF RowToStore, Auth!Account, Counts
      <3> QED
        BY <2>1, <3>2, <1>1, AccountIsPartial DEF Storable, c
    <2>3. CASE c.pc = "forgot write"
      <3>1. c.new \in Passwords
        BY <1>1, <2>3 DEF Working
      <3>2. RowToStore(c) \in Auth!Account
        BY <2>3, <3>1, Numbers, SentinelAssumption DEF RowToStore, Auth!Account, Counts
      <3> QED
        BY <2>1, <3>2, <1>1, AccountIsPartial DEF Storable, c
    <2>4. CASE c.pc = "change write"
      <3>1. c.new \in Passwords /\ row[Store][c.email] # Absent
        BY <1>1, <2>4 DEF Working
      <3>2. RowToStore(c) \in Partial
        BY <2>4, <3>1, Numbers, SentinelAssumption DEF RowToStore, Auth!ChangedFields, Partial
      <3> QED
        BY <2>1, <3>1, <3>2, <1>1 DEF Storable, c
    <2>5. CASE c.pc \in {"reset write", "block write"}
      <3>1. c.v \in Auth!Account /\ RowToStore(c) = c.v
        BY <1>1, <2>5 DEF Working, RowToStore
      <3> QED
        BY <2>1, <3>1, <1>1, AccountIsPartial DEF Storable, c
    <2> QED
      BY <1>2, <2>2, <2>3, <2>4, <2>5 DEF RowSteps
  <1>3. CASE c.pc \in StatusSteps
    <2>1. PathOf(c) = "status" /\ ValOf(c) \in {Auth!Active, Auth!New}
      BY <1>3 DEF PathOf, ValOf, RowSteps, StatusSteps
    <2>2. ValOf(c) \in Of("status")
      BY <2>1, Numbers DEF Of, Statuses
    <2> QED
      BY <1>1, <2>1, <2>2 DEF Storable, c
  <1>4. CASE c.pc \in CountSteps
    <2>1. PathOf(c) = "attempts" /\ ValOf(c) \in {0, c.n}
      BY <1>4 DEF PathOf, ValOf, RowSteps, StatusSteps, CountSteps
    <2>2. row[Store][c.email] # Absent
      BY <1>1, <1>4 DEF Working, CountSteps
    <2>3. c.n \in Counts
      BY <1>1 DEF Auth!CallType, Counts
    <2>4. ValOf(c) \in Of("attempts")
      BY <2>1, <2>3, Numbers DEF Of
    <2> QED
      BY <1>1, <2>1, <2>2, <2>4 DEF Storable, c
  <1> QED
    BY <1>2, <1>3, <1>4 DEF c

LEMMA AfterWrite ==
  ASSUME CallsOK, NEW t \in Threads, NEW ok \in BOOLEAN,
         \/ call[t].pc \in RowSteps /\ AfterRowStored(t, ok)
         \/ call[t].pc \in StatusSteps /\ AfterStatusStored(t, ok)
         \/ call[t].pc \in CountSteps /\ AfterCountStored(t, ok)
  PROVE  Stored(t, ok)
  <1> DEFINE c == call[t]
             e == c.email
             hash(op, pc) == Auth!Calling(op, pc, e, Absent, Absent)
  <1>1. c \in Auth!CallType /\ Working(c, row[Store]) /\ e \in Emails
    BY StepIs DEF RowSteps, StatusSteps, CountSteps
  <1>2. ASSUME call' = [call EXCEPT ![t] = Auth!NoCall]
        PROVE  Advance(t) /\ call'[t].pc = "idle"
    <2>1. Auth!NoCall.pc = "idle"
      BY DEF Auth!NoCall, Auth!Calling
    <2> QED
      BY <1>2, <2>1, Finishing
  <1>3. ASSUME call' = [call EXCEPT ![t] = hash("reset", "reset hash")]
        PROVE  Advance(t) /\ call'[t].pc = "reset hash"
    <2>1. hash("reset", "reset hash") \in Auth!CallType
      BY <1>1, CallingIsCall DEF Auth!Ops, Auth!Steps
    <2>2. Working(hash("reset", "reset hash"), row[Store])
      BY <1>1 DEF Working, Auth!Calling
    <2>3. hash("reset", "reset hash").pc = "reset hash"
      BY DEF Auth!Calling
    <2> QED
      BY <1>3, <2>1, <2>2, <2>3, Becoming
  <1>4. ASSUME c.pc = "create user", call' = [call EXCEPT ![t].pc = "create hash"]
        PROVE  Advance(t) /\ call'[t].pc = "create hash"
    <2> DEFINE d == [c EXCEPT !.pc = "create hash"]
    <2>1. d.pc = "create hash" /\ d.op = c.op /\ d.email = e
      BY <1>1 DEF Auth!CallType
    <2>2. Working(d, row[Store])
      BY <1>1, <2>1 DEF Working
    <2> QED
      BY <1>4, <2>1, <2>2, Going DEF Auth!Steps
  <1>5. ASSUME c.pc = "clear", c.op = "change", call' = [call EXCEPT ![t].pc = "change write"]
        PROVE  Advance(t) /\ call'[t].pc = "change write" /\ call'[t].email = e
    <2> DEFINE d == [c EXCEPT !.pc = "change write"]
    <2>1. d.pc = "change write" /\ d.op = c.op /\ d.email = e /\ d.new = c.new
      BY <1>1 DEF Auth!CallType
    <2>2. Working(d, row[Store])
      BY <1>1, <1>5, <2>1 DEF Working
    <2> QED
      BY <1>5, <2>1, <2>2, Going DEF Auth!Steps
  <1>6. CASE c.pc \in RowSteps
    <2>1. PathOf(c) = Root /\ ValOf(c) = RowToStore(c) /\ FieldsOf(PathOf(c), ValOf(c)) = RowToStore(c)
      BY <1>6 DEF PathOf, ValOf, RowSteps, StatusSteps, FieldsOf
    <2>2. CASE c.pc = "create user"
      <3>1. Auth!CreateUser(t, ok) /\ Restarts(c)
        BY <2>2 DEF AfterRowStored, RowSteps, StatusSteps, CountSteps, Restarts, Auth!At,
                    Auth!CreateUser, Auth!ResetWrite, Auth!ForgotWrite, Auth!ChangeWrite, Auth!BlockWrite
      <3>2. RowToStore(c) = [password |-> c.password, status |-> Auth!New, attempts |-> 0]
        BY <2>2 DEF RowToStore
      <3>3. \/ /\ ok /\ users' = [users EXCEPT ![e] = Auth!Merge(@, RowToStore(c))]
               /\ guesses' = [guesses EXCEPT ![e] = 0]
               /\ call' = [call EXCEPT ![t].pc = "create hash"]
            \/ ~ok /\ call' = [call EXCEPT ![t] = Auth!NoCall] /\ users' = users /\ guesses' = guesses
        BY <3>1, <3>2 DEF Auth!CreateUser, Auth!SetUser, Auth!Goto, Auth!Finish, Auth!Become
      <3> QED
        BY <1>2, <1>4, <2>1, <2>2, <3>1, <3>3 DEF Stored
    <2>3. CASE c.pc = "reset write"
      <3>1. Auth!ResetWrite(t, ok) /\ ~Restarts(c) /\ RowToStore(c) = c.v
        BY <2>3 DEF AfterRowStored, RowSteps, StatusSteps, CountSteps, Restarts, RowToStore, Auth!At,
                    Auth!CreateUser, Auth!ResetWrite, Auth!ForgotWrite, Auth!ChangeWrite, Auth!BlockWrite
      <3>2. /\ guesses' = guesses
            /\ \/ /\ ok /\ users' = [users EXCEPT ![e] = Auth!Merge(@, RowToStore(c))]
                  /\ call' = [call EXCEPT ![t] = hash("reset", "reset hash")]
               \/ ~ok /\ call' = [call EXCEPT ![t] = Auth!NoCall] /\ users' = users
        BY <3>1 DEF Auth!ResetWrite, Auth!SetUser, Auth!Finish, Auth!Become
      <3> QED
        BY <1>2, <1>3, <2>1, <3>1, <3>2 DEF Stored
    <2>4. CASE c.pc = "forgot write"
      <3>1. Auth!ForgotWrite(t, ok) /\ Restarts(c)
        BY <2>4 DEF AfterRowStored, RowSteps, StatusSteps, CountSteps, Restarts, Auth!At,
                    Auth!CreateUser, Auth!ResetWrite, Auth!ForgotWrite, Auth!ChangeWrite, Auth!BlockWrite
      <3>2. RowToStore(c) = [password |-> c.new, status |-> Auth!Active, attempts |-> 0]
        BY <2>4 DEF RowToStore
      <3>3. /\ call' = [call EXCEPT ![t] = Auth!NoCall]
            /\ \/ /\ ok /\ users' = [users EXCEPT ![e] = Auth!Merge(@, RowToStore(c))]
                  /\ guesses' = [guesses EXCEPT ![e] = 0]
               \/ ~ok /\ users' = users /\ guesses' = guesses
        BY <3>1, <3>2 DEF Auth!ForgotWrite, Auth!SetUser, Auth!Finish, Auth!Become
      <3> QED
        BY <1>2, <2>1, <3>1, <3>3 DEF Stored
    <2>5. CASE c.pc = "change write"
      <3>1. Auth!ChangeWrite(t, ok) /\ Restarts(c) /\ RowToStore(c) = Auth!ChangedFields(c)
        BY <2>5 DEF AfterRowStored, RowSteps, StatusSteps, CountSteps, Restarts, RowToStore, Auth!At,
                    Auth!CreateUser, Auth!ResetWrite, Auth!ForgotWrite, Auth!ChangeWrite, Auth!BlockWrite
      <3>2. /\ call' = [call EXCEPT ![t] = Auth!NoCall]
            /\ \/ /\ ok /\ users' = [users EXCEPT ![e] = Auth!Merge(@, RowToStore(c))]
                  /\ guesses' = [guesses EXCEPT ![e] = 0]
               \/ ~ok /\ users' = users /\ guesses' = guesses
        BY <3>1 DEF Auth!ChangeWrite, Auth!SetUser, Auth!Finish, Auth!Become
      <3> QED
        BY <1>2, <2>1, <3>1, <3>2 DEF Stored
    <2>6. CASE c.pc = "block write"
      <3>1. Auth!BlockWrite(t, ok) /\ (Restarts(c) <=> c.op = "unblock") /\ RowToStore(c) = c.v
        BY <2>6 DEF AfterRowStored, RowSteps, StatusSteps, CountSteps, Restarts, RowToStore, Auth!At,
                    Auth!CreateUser, Auth!ResetWrite, Auth!ForgotWrite, Auth!ChangeWrite, Auth!BlockWrite
      <3>2. /\ call' = [call EXCEPT ![t] = Auth!NoCall]
            /\ \/ /\ ok /\ users' = [users EXCEPT ![e] = Auth!Merge(@, RowToStore(c))]
                  /\ guesses' = IF c.op = "unblock" THEN [guesses EXCEPT ![e] = 0] ELSE guesses
               \/ ~ok /\ users' = users /\ guesses' = guesses
        BY <3>1 DEF Auth!BlockWrite, Auth!SetUser, Auth!Finish, Auth!Become
      <3> QED
        BY <1>2, <2>1, <3>1, <3>2 DEF Stored
    <2> QED
      BY <1>6, <2>2, <2>3, <2>4, <2>5, <2>6 DEF RowSteps
  <1>7. CASE c.pc \in StatusSteps
    <2> DEFINE val == IF c.op \in {"verify", "activate"} THEN Auth!Active ELSE Auth!New
    <2>1. FieldsOf(PathOf(c), ValOf(c)) = Auth!Field("status", val)
      BY <1>7, RootAssumption DEF PathOf, ValOf, RowSteps, StatusSteps, FieldsOf, Fields
    <2>2. Auth!Activate(t, ok) \/ Auth!SetActive(t, ok)
      BY <1>7 DEF AfterStatusStored, RowSteps, StatusSteps, CountSteps
    <2>3. CASE Auth!Activate(t, ok)
      <3>1. c.pc = "activate" /\ c.op = "verify" /\ ~Restarts(c)
        BY <1>1, <2>3 DEF Auth!Activate, Auth!At, Working, Restarts
      <3>2. /\ call' = [call EXCEPT ![t] = Auth!NoCall] /\ guesses' = guesses
            /\ users' = IF ok THEN [users EXCEPT ![e] = Auth!Merge(@, Auth!Field("status", Auth!Active))]
                        ELSE users
        BY <2>3 DEF Auth!Activate, Auth!SetStatus, Auth!SetUser, Auth!Finish, Auth!Become
      <3> QED
        BY <1>2, <2>1, <3>1, <3>2 DEF Stored
    <2>4. CASE Auth!SetActive(t, ok)
      <3>1. c.pc = "set active" /\ c.op \in {"activate", "deactivate"} /\ Restarts(c)
        BY <1>1, <2>4 DEF Auth!SetActive, Auth!At, Working, Restarts
      <3>2. /\ call' = [call EXCEPT ![t] = Auth!NoCall]
            /\ guesses' = IF ok THEN [guesses EXCEPT ![e] = 0] ELSE guesses
            /\ users' = IF ok THEN [users EXCEPT ![e] = Auth!Merge(@, Auth!Field("status",
                                       IF c.op = "activate" THEN Auth!Active ELSE Auth!New))]
                        ELSE users
        BY <2>4 DEF Auth!SetActive, Auth!SetStatus, Auth!SetUser, Auth!Finish, Auth!Become
      <3> QED
        BY <1>2, <2>1, <3>1, <3>2 DEF Stored
    <2> QED
      BY <2>2, <2>3, <2>4
  <1>8. CASE c.pc \in CountSteps
    <2>1. FieldsOf(PathOf(c), ValOf(c)) = Auth!Field("attempts", IF c.pc = "clear" THEN 0 ELSE c.n)
      BY <1>8, RootAssumption DEF PathOf, ValOf, RowSteps, StatusSteps, CountSteps, FieldsOf, Fields
    <2>2. Auth!Clear(t, ok) \/ Auth!CountWrite(t, ok)
      BY <1>8 DEF AfterCountStored, RowSteps, StatusSteps, CountSteps
    <2>3. CASE Auth!Clear(t, ok)
      <3>1. c.pc = "clear" /\ Restarts(c)
        BY <2>3 DEF Auth!Clear, Auth!At, Restarts
      <3>2. /\ \/ /\ ok /\ users' = [users EXCEPT ![e] = Auth!Merge(@, Auth!Field("attempts", 0))]
                  /\ guesses' = [guesses EXCEPT ![e] = 0]
               \/ ~ok /\ users' = users /\ guesses' = guesses
            /\ \/ c.op = "change" /\ call' = [call EXCEPT ![t].pc = "change write"]
               \/ call' = [call EXCEPT ![t] = Auth!NoCall]
        BY <2>3 DEF Auth!Clear, Auth!Succeed, Auth!SetUser, Auth!Finish, Auth!Become, Auth!Goto
      <3> QED
        BY <1>2, <1>5, <2>1, <3>1, <3>2 DEF Stored
    <2>4. CASE Auth!CountWrite(t, ok)
      <3>1. c.pc = "count write" /\ (Restarts(c) <=> c.op = "count")
        BY <2>4 DEF Auth!CountWrite, Auth!At, Restarts
      <3>2. /\ call' = [call EXCEPT ![t] = Auth!NoCall]
            /\ \/ /\ ok /\ users' = [users EXCEPT ![e] = Auth!Merge(@, Auth!Field("attempts", c.n))]
                  /\ guesses' = IF c.op = "count" THEN [guesses EXCEPT ![e] = 0] ELSE guesses
               \/ ~ok /\ users' = users /\ guesses' = guesses
        BY <2>4 DEF Auth!CountWrite, Auth!SetUser, Auth!Finish, Auth!Become
      <3> QED
        BY <1>2, <2>1, <3>1, <3>2 DEF Stored
    <2> QED
      BY <2>2, <2>3, <2>4
  <1> QED
    BY <1>6, <1>7, <1>8
----------------------------------------------------------------------------
(* The rows are what the calls made of them.                               *)

\* A row, once there, stays.
LEMMA WorkingStays ==
  ASSUME NEW c, NEW r, NEW s, Working(c, r), c.email \in Emails \/ c.pc = "idle",
         \A e \in Emails : r[e] # Absent => s[e] # Absent
  PROVE  Working(c, s)
  BY DEF Working

LEMMA StepKeeps ==
  ASSUME Inv, RowsOK', FramesOK', RowsAreAccounts', HistoryOK',
         \A e \in Emails : row[Store][e] # Absent => row'[Store][e] # Absent,
         call' = call \/ \E t \in Threads : Advance(t)
  PROVE  Inv'
  <1>1. ASSUME NEW x \in Threads
        PROVE  call'[x] \in Auth!CallType /\ Working(call'[x], row[Store])
    BY DEF Inv, CallsOK, Advance
  <1>2. ASSUME NEW x \in Threads
        PROVE  Working(call'[x], row'[Store])
    <2>1. Working(call'[x], row[Store])
      BY <1>1
    <2>2. call'[x].email \in Emails \/ call'[x].pc = "idle"
      BY <2>1 DEF Working
    <2> QED
      BY <2>1, <2>2, WorkingStays
  <1>3. call' \in [Threads -> Auth!CallType]
    BY <1>1 DEF Inv, CallsOK, Advance
  <1> QED
    BY <1>2, <1>3 DEF Inv, CallsOK

\* The steps that leave the rows alone.
LEMMA QuietStepKeeps ==
  ASSUME Inv, Quiet, users' = users, guesses' \in [Emails -> 0..MAX_LOGIN_ATTEMPTS + 1],
         call' = call \/ \E t \in Threads : Advance(t)
  PROVE  Inv'
  <1>1. RowsOK' /\ FramesOK' /\ row' = row
    BY QuietKeeps DEF Inv, Quiet
  <1>2. RowsAreAccounts' /\ HistoryOK'
    BY <1>1 DEF Inv, RowsAreAccounts, HistoryOK
  <1> QED
    BY <1>1, <1>2, StepKeeps

LEMMA StartIsQuiet ==
  ASSUME Inv, NEW t \in Threads, NEW e \in Emails, NEW up, Start(t, e, up)
  PROVE  Quiet /\ Advance(t) /\ UNCHANGED <<users, guesses>> /\ call[t].pc = "idle"
  <1>1. CASE \E u \in {RowSeen(e, up)} : StartsOnRow(t, e, u) /\ ReadRow(e, up)
    <2>1. StartsOnRow(t, e, RowSeen(e, up)) /\ ReadRow(e, up)
      BY <1>1
    <2>2. SeenRow(e, RowSeen(e, up))
      BY RowSeenIs DEF Inv, SeenRow
    <2> QED
      BY <2>1, <2>2, StartsOnRowAdvances, ReadRowIsQuiet DEF Inv, Start
  <1>2. CASE \E u \in {FieldSeen(e, "status", up)} :
               StartsOnStatus(t, e, u) /\ ReadField(e, "status", up)
    <2>1. StartsOnStatus(t, e, FieldSeen(e, "status", up)) /\ ReadField(e, "status", up)
      BY <1>2
    <2>2. "status" \in Fields
      BY DEF Fields
    <2>3. /\ FieldSeen(e, "status", up) = Auth!Field("status", ValueSeen(e, "status", up))
          /\ SeenField(e, "status", ValueSeen(e, "status", up))
      BY <2>2, FieldSeenIs DEF Inv, SeenField
    <2>4. StartsOnStatus(t, e, Auth!Field("status", ValueSeen(e, "status", up)))
      BY <2>1, <2>3
    <2>5. Advance(t) /\ guesses' = guesses /\ call[t].pc = "idle"
      BY <2>3, <2>4, StartsOnStatusAdvances DEF Inv
    <2> QED
      BY <2>1, <2>2, <2>5, ReadFieldIsQuiet DEF Inv, Start
  <1> QED
    BY <1>1, <1>2 DEF Start

LEMMA ReadIsQuiet ==
  ASSUME Inv, NEW t \in Threads, NEW up, Read(t, up)
  PROVE  /\ Quiet /\ Advance(t) /\ users' = users
         /\ guesses' \in [Emails -> 0..MAX_LOGIN_ATTEMPTS + 1]
  <1> DEFINE e == call[t].email
  <1>0. e \in Emails /\ ~Auth!Ready(t) /\ users' = users
        /\ guesses \in [Emails -> 0..MAX_LOGIN_ATTEMPTS + 1]
    BY StepIs DEF Inv, HistoryOK, Read, Auth!Ready
  <1>1. CASE \E u \in {RowSeen(e, up)} : GoesOnRow(t, u) /\ ReadRow(e, up)
    <2>1. GoesOnRow(t, RowSeen(e, up)) /\ ReadRow(e, up)
      BY <1>1
    <2>2. SeenRow(e, RowSeen(e, up))
      BY <1>0, RowSeenIs DEF Inv, SeenRow
    <2> QED
      BY <1>0, <2>1, <2>2, GoesOnRowAdvances, ReadRowIsQuiet DEF Inv
  <1>2. CASE \E u \in {FieldSeen(e, "status", up)} :
               GoesOnStatus(t, u) /\ ReadField(e, "status", up)
    <2>1. GoesOnStatus(t, FieldSeen(e, "status", up)) /\ ReadField(e, "status", up)
      BY <1>2
    <2>2. "status" \in Fields
      BY DEF Fields
    <2>3. Advance(t) /\ guesses' = guesses
      BY <1>0, <2>1, GoesOnStatusAdvances DEF Inv
    <2> QED
      BY <1>0, <2>1, <2>2, <2>3, ReadFieldIsQuiet DEF Inv
  <1>3. CASE \E u \in {FieldSeen(e, "attempts", up)} :
               Seeing(u)!FailCount(t, TRUE) /\ ReadField(e, "attempts", up)
    <2>1. Seeing(FieldSeen(e, "attempts", up))!FailCount(t, TRUE) /\ ReadField(e, "attempts", up)
      BY <1>3
    <2>2. "attempts" \in Fields
      BY DEF Fields
    <2>3. /\ FieldSeen(e, "attempts", up) = Auth!Field("attempts", ValueSeen(e, "attempts", up))
          /\ SeenField(e, "attempts", ValueSeen(e, "attempts", up))
      BY <1>0, <2>2, FieldSeenIs DEF Inv, SeenField
    <2>4. Seeing(Auth!Field("attempts", ValueSeen(e, "attempts", up)))!FailCount(t, TRUE)
      BY <2>1, <2>3
    <2>5. Advance(t) /\ guesses' = guesses
      BY <1>0, <2>3, <2>4, FailCountAdvances DEF Inv
    <2> QED
      BY <1>0, <2>1, <2>2, <2>5, ReadFieldIsQuiet DEF Inv
  <1> QED
    BY <1>1, <1>2, <1>3 DEF Read

\* What other code does with the driver.
LEMMA ElsewhereIsQuiet ==
  ASSUME Inv, Elsewhere \/ Forget \/ Restart
  PROVE  Quiet /\ UNCHANGED auth
  <1>1. CASE Elsewhere
    <2>1. PICK up \in Answers :
             \/ Sql!Create(Store, up)
             \/ \E e \in Emails : ReadRow(e, up) \/ \E f \in {"status", "attempts"} : ReadField(e, f, up)
      BY <1>1 DEF Elsewhere
    <2>2. CASE Sql!Create(Store, up)
      <3>1. /\ UNCHANGED <<row, frame, batch>>
            /\ created' = created \/ created' = [created EXCEPT ![Store] = TRUE]
        BY <2>2 DEF Sql!Create
      <3>2. FramesFresh
        BY <3>1 DEF FramesFresh, Inv, FramesOK
      <3> QED
        BY <1>1, <3>1, <3>2 DEF Quiet, Inv, RowsOK, Elsewhere
    <2>3. CASE \E e \in Emails : ReadRow(e, up)
      BY <1>1, <2>3, ReadRowIsQuiet DEF Inv, Elsewhere
    <2>4. CASE \E e \in Emails : \E f \in {"status", "attempts"} : ReadField(e, f, up)
      BY <1>1, <2>4, ReadFieldIsQuiet DEF Inv, Elsewhere, Fields
    <2> QED
      BY <2>1, <2>2, <2>3, <2>4
  <1>2. ASSUME NEW x \in Emails, NEW p \in Sql!Paths,
               frame' = [frame EXCEPT ![Store][x][p] = NoFrame], UNCHANGED <<created, row, batch>>
        PROVE  Quiet
    BY <1>2 DEF Quiet, FramesFresh, Inv, FramesOK, RowsOK, FrameVals
  <1>3. CASE Forget
    BY <1>2, <1>3, StillIsQuiet DEF Forget, Sql!Expire, Sql!database, Inv
  <1>4. CASE Restart
    <2>1. /\ UNCHANGED <<created, row>> /\ batch' = NoBatch /\ UNCHANGED auth
          /\ frame' = [x \in {Store} |-> [k \in Emails |-> [p \in Sql!Paths |-> NoFrame]]]
      BY <1>4 DEF Restart, Sql!Restart, Sql!database
    <2>2. FramesFresh
      BY <2>1 DEF FramesFresh, FrameVals
    <2> QED
      BY <2>1, <2>2 DEF Quiet, Inv, RowsOK
  <1> QED
    BY <1>1, <1>3, <1>4

\* A write: what the driver does to the rows is what the call thinks it did.
LEMMA WriteStepIs ==
  ASSUME Inv, NEW t \in Threads, NEW up \in BOOLEAN, Write(t, up)
  PROVE  LET c == call[t]
             e == c.email
             p == PathOf(c)
             val == ValOf(c) IN
         /\ c.pc \in RowSteps \cup StatusSteps \cup CountSteps
         /\ e \in Emails /\ Storable(e, p, val)
         /\ RowsOK' /\ FramesOK'
         /\ ret'.ok \in BOOLEAN /\ Stored(t, ret'.ok)
         /\ row' = IF ret'.ok THEN [row EXCEPT ![Store][e] = NewRowOf(e, p, val)] ELSE row
         /\ up /\ row[Store][e] # Absent /\ (p = "attempts" => row[Store][e].attempts # Absent)
               => ret'.ok
         /\ \A x \in Emails, g \in Fields :
               <<x, g>> # <<e, p>> => frame'[Store][x][g] = frame[Store][x][g]
         /\ p # Root =>
               \/ frame'[Store][e][p] = frame[Store][e][p] /\ row' = row
               \/ ret'.ok /\ frame'[Store][e][p] = val
  <1> DEFINE c == call[t]
             e == c.email
             p == PathOf(c)
             val == ValOf(c)
  <1>1. /\ WriteAt(e, p, val, up)
        /\ \/ c.pc \in RowSteps /\ AfterRowStored(t, ret'.ok)
           \/ c.pc \in StatusSteps /\ AfterStatusStored(t, ret'.ok)
           \/ c.pc \in CountSteps /\ AfterCountStored(t, ret'.ok)
    BY WriteIs
  <1>2. e \in Emails /\ Storable(e, p, val)
    BY <1>1, StoresStorable DEF Inv
  <1> HIDE DEF p, val
  <1>3. /\ RowsOK' /\ FramesOK'
        /\ ret'.ok \in BOOLEAN
        /\ ret'.ok => row' = [row EXCEPT ![Store][e] = NewRowOf(e, p, val)]
        /\ ~ret'.ok => row' = row
        /\ up /\ row[Store][e] # Absent /\ (p = "attempts" => row[Store][e].attempts # Absent)
              => ret'.ok
        /\ \A x \in Emails, g \in Fields :
              <<x, g>> # <<e, p>> => frame'[Store][x][g] = frame[Store][x][g]
        /\ p # Root =>
              \/ frame'[Store][e][p] = frame[Store][e][p] /\ row' = row
              \/ ret'.ok /\ frame'[Store][e][p] = val
    BY <1>1, <1>2, WriteDoes DEF Inv
  <1>4. Stored(t, ret'.ok)
    BY <1>1, <1>3, AfterWrite DEF Inv
  <1> QED
    BY <1>1, <1>2, <1>3, <1>4 DEF p, val

LEMMA WriteStepKeeps ==
  ASSUME Inv, NEW t \in Threads, NEW up \in BOOLEAN, Write(t, up)
  PROVE  Inv'
  <1> DEFINE c == call[t]
             e == c.email
             new == NewRowOf(e, PathOf(c), ValOf(c))
  <1>1. /\ e \in Emails /\ Storable(e, PathOf(c), ValOf(c))
        /\ RowsOK' /\ FramesOK' /\ Stored(t, ret'.ok) /\ ret'.ok \in BOOLEAN
        /\ row' = IF ret'.ok THEN [row EXCEPT ![Store][e] = new] ELSE row
    BY WriteStepIs
  <1>2. new \in Auth!Account /\ new # Absent
    BY <1>1, NewRowIsAccount, AccountIsRow DEF Inv
  <1>3. users[e] = AccountAt(e)
    BY <1>1 DEF Inv, RowsAreAccounts, AccountAt
  <1>4. users' = IF ret'.ok THEN [users EXCEPT ![e] = new] ELSE users
    BY <1>1, <1>3 DEF Stored, NewRowOf, Inv, HistoryOK
  <1> HIDE DEF new
  <1>5. guesses' \in [Emails -> 0..MAX_LOGIN_ATTEMPTS + 1]
    <2>1. 0 \in 0..MAX_LOGIN_ATTEMPTS + 1
      BY AttemptsAssumption
    <2>2. guesses' = guesses \/ guesses' = [guesses EXCEPT ![e] = 0]
      BY <1>1 DEF Stored
    <2> QED
      BY <1>1, <2>1, <2>2 DEF Inv, HistoryOK
  <1>6. RowsAreAccounts' /\ HistoryOK'
    BY <1>1, <1>2, <1>4, <1>5 DEF Inv, RowsAreAccounts, HistoryOK, RowsOK
  <1>7. \A x \in Emails : row[Store][x] # Absent => row'[Store][x] # Absent
    BY <1>1, <1>2 DEF Inv, RowsOK
  <1> QED
    BY <1>1, <1>6, <1>7, StepKeeps DEF Stored

LEMMA InitInv == Init => Inv
  <1> SUFFICES ASSUME Init
               PROVE  Inv
    OBVIOUS
  <1> USE DEF Init, Auth!Init, Sql!Init
  <1>1. RowsOK
    BY DEF RowsOK
  <1>2. FramesOK
    BY DEF FramesOK, FrameFits, FrameVals
  <1>3. CallsOK
    <2>1. Auth!NoCall \in Auth!CallType
      BY CallingIsCall DEF Auth!NoCall, Auth!Ops, Auth!Steps
    <2>2. Working(Auth!NoCall, row[Store])
      BY DEF Working, Auth!NoCall, Auth!Calling
    <2> QED
      BY <2>1, <2>2 DEF CallsOK
  <1>4. HistoryOK /\ RowsAreAccounts
    BY Numbers DEF HistoryOK, RowsAreAccounts
  <1> QED
    BY <1>1, <1>2, <1>3, <1>4 DEF Inv

LEMMA InvStutters ==
  ASSUME Inv, UNCHANGED vars
  PROVE  Inv'
  BY StillIsQuiet, QuietStepKeeps DEF vars, auth, Inv, HistoryOK

LEMMA InvSteps == Inv /\ [Next]_vars => Inv'
  <1> SUFFICES ASSUME Inv, [Next]_vars
               PROVE  Inv'
    OBVIOUS
  <1> USE AnswersAssumption
  <1>1. ASSUME NEW t \in Threads, NEW e \in Emails, NEW up \in Answers, Start(t, e, up)
        PROVE  Inv'
    BY <1>1, StartIsQuiet, QuietStepKeeps DEF Inv, HistoryOK
  <1>2. ASSUME NEW t \in Threads, NEW e \in Emails, Enter(t, e)
        PROVE  Inv'
    BY <1>2, EnterAdvances, StillIsQuiet, QuietStepKeeps DEF Inv, HistoryOK
  <1>3. ASSUME NEW t \in Threads, NEW up \in Answers, Read(t, up)
        PROVE  Inv'
    BY <1>3, ReadIsQuiet, QuietStepKeeps
  <1>4. ASSUME NEW t \in Threads, NEW up \in Answers, Write(t, up)
        PROVE  Inv'
    BY <1>4, WriteStepKeeps
  <1>5. ASSUME NEW t \in Threads, NEW up \in Answers, Hashes(t, up)
        PROVE  Inv'
    BY <1>5, HashesAdvances, StillIsQuiet, QuietStepKeeps DEF Inv, HistoryOK
  <1>6. CASE Elsewhere \/ Forget \/ Restart
    BY <1>6, ElsewhereIsQuiet, QuietStepKeeps DEF Inv, HistoryOK, auth
  <1>7. CASE UNCHANGED vars
    BY <1>7, InvStutters
  <1> QED
    BY <1>1, <1>2, <1>3, <1>4, <1>5, <1>6, <1>7 DEF Next

\* The inductive invariant: every frame is of a row that is there, the frame of a
\* whole row is the row, and each call is at a step for which it has what it needs.
THEOREM InvHolds == Spec => []Inv
  BY InitInv, InvSteps, PTL DEF Spec

\* set_user stores what AuthData asks for: with any number of threads, and a driver
\* that fails whenever it likes, each account's row is the merge of all its fields
\* that were stored with an answer of true, in the order of the answers.
THEOREM RowsStayAccounts == Spec => []RowsAreAccounts
  <1>1. Inv => RowsAreAccounts
    BY DEF Inv
  <1> QED
    BY <1>1, InvHolds, PTL

\* authorize() goes by the row as it is: a block, a deactivation or a new password
\* that was stored before it is never missed, whatever the frames hold and however
\* many threads there are.
THEOREM LoginsStayCurrent == Spec => LoginsAreCurrent
  <1>1. ASSUME Inv, Next, NEW x \in Threads,
               call[x].pc = "authorize", call'[x].pc = "clear active"
        PROVE  Auth!Authorizes(row[Store][call[x].email], call[x].password)
    <2>1. ASSUME NEW t \in Threads, NEW e \in Emails, NEW up \in Answers, Start(t, e, up)
          PROVE  FALSE
      BY <1>1, <2>1, StartIsQuiet DEF Advance, Inv, CallsOK
    <2>2. ASSUME NEW t \in Threads, NEW e \in Emails, Enter(t, e)
          PROVE  FALSE
      BY <1>1, <2>2, EnterAdvances DEF Advance, Inv, CallsOK
    <2>3. ASSUME NEW t \in Threads, NEW up \in Answers, Hashes(t, up)
          PROVE  FALSE
      <3>1. Auth!NoCall.pc = "idle"
        BY DEF Auth!NoCall, Auth!Calling
      <3> QED
        BY <1>1, <2>3, <3>1, HashesAdvances DEF Advance, Inv, CallsOK
    <2>4. ASSUME NEW t \in Threads, NEW up \in Answers, Write(t, up)
          PROVE  FALSE
      <3>1. up \in BOOLEAN
        BY AnswersAssumption
      <3>2. Advance(t) /\ call'[t].pc \in {"idle", "create hash", "reset hash", "change write"}
        BY <1>1, <2>4, <3>1, WriteStepIs DEF Stored
      <3> QED
        BY <1>1, <3>2 DEF Advance, Inv, CallsOK
    <2>5. ASSUME NEW t \in Threads, NEW up \in Answers, Read(t, up)
          PROVE  Auth!Authorizes(row[Store][call[x].email], call[x].password)
      <3>1. Advance(t)
        BY <1>1, <2>5, ReadIsQuiet
      <3>2. x = t
        BY <1>1, <3>1 DEF Advance, Inv, CallsOK
      <3> DEFINE e == call[t].email
                 u == RowSeen(e, up)
      <3>3. e \in Emails
        BY <1>1, <3>2, StepIs DEF Inv
      <3>4. Seeing(u)!Authorize(t, TRUE)
        BY <1>1, <2>5, <3>2, <3>3, CheckExistsDoes, BlockReadDoes, VerifyUserDoes,
           ClearActiveDoes, FailActiveDoes, CountActiveDoes, FailCountDoes
           DEF Read, GoesOnRow, GoesOnStatus
      <3> HIDE DEF u
      <3>5. call' = [call EXCEPT ![t].pc =
                        IF Auth!Authorizes(u, call[t].password) THEN "clear active" ELSE "fail active"]
        BY <3>3, <3>4, AuthorizeDoes
      <3>6. Auth!Authorizes(u, call[t].password)
        BY <1>1, <3>2, <3>5 DEF Inv, CallsOK, Auth!CallType
      <3>7. u # Auth!NoUser
        BY <3>6, SentinelAssumption DEF Auth!Authorizes, Auth!NoUser, Auth!Active
      <3>8. u = row[Store][e]
        BY <1>1, <3>3, <3>7, RowSeenIs DEF u, Inv
      <3> QED
        BY <3>2, <3>6, <3>8
    <2>6. ASSUME Elsewhere \/ Forget \/ Restart
          PROVE  FALSE
      BY <1>1, <2>6, ElsewhereIsQuiet DEF auth
    <2> QED
      BY <1>1, <2>1, <2>2, <2>3, <2>4, <2>5, <2>6 DEF Next
  <1>2. Inv /\ [Next]_vars =>
           [\A t \in Threads :
               (call[t].pc = "authorize" /\ call'[t].pc = "clear active") =>
                   Auth!Authorizes(row[Store][call[t].email], call[t].password)]_vars
    BY <1>1
  <1> QED
    BY <1>2, InvHolds, PTL DEF Spec, LoginsAreCurrent
----------------------------------------------------------------------------
(* The lockout, for one thread on a driver that answers.                   *)

LEMMA NumbersOf ==
  ASSUME Inv, NEW e \in Emails
  PROVE  /\ guesses[e] \in Nat
         /\ row[Store][e] # Absent =>
               /\ row[Store][e] \in Auth!Account
               /\ row[Store][e].attempts # Absent =>
                     row[Store][e].attempts \in Counts /\ row[Store][e].attempts \in Nat
               /\ row[Store][e].password # Absent => row[Store][e].attempts # Absent
               /\ row[Store][e].status \in Statuses /\ row[Store][e].status # Absent
         /\ frame[Store][e]["attempts"] # NoFrame =>
               /\ row[Store][e] # Absent /\ row[Store][e].attempts # Absent
               /\ frame[Store][e]["attempts"] \in Counts /\ frame[Store][e]["attempts"] \in Nat
  <1>1. row[Store][e] # Absent => row[Store][e] \in Auth!Account
    BY DEF Inv, RowsOK
  <1>2. guesses[e] \in Nat
    BY Numbers DEF Inv, HistoryOK
  <1>3. frame[Store][e]["attempts"] # NoFrame =>
           /\ row[Store][e] # Absent /\ row[Store][e]["attempts"] # Absent
           /\ frame[Store][e]["attempts"] \in Counts
    BY Paths, FrameIs DEF Inv, Of
  <1>4. \A n \in Counts : n # Absent /\ n \in Nat
    BY Numbers, SentinelAssumption
  <1>5. row[Store][e] # Absent => row[Store][e].attempts = row[Store][e]["attempts"]
    BY <1>1, AccountIsRow
  <1> QED
    BY <1>1, <1>2, <1>3, <1>4, <1>5, AccountIsRow

\* A guess that is being counted may be one too many for a call that is not.
LEMMA RoomWeakens ==
  ASSUME NEW v, NEW g, NEW a, NEW b, Room(v, g, a), a => b
  PROVE  Room(v, g, b)
  BY DEF Room

\* Nothing is counted of an account that is not active or has no password.
Uncounted(v) == v = Absent \/ v.password = Absent \/ v.status # Auth!Active

LEMMA RoomInactive ==
  ASSUME NEW v, NEW g, NEW a, NEW b, Room(v, g, a), Uncounted(v)
  PROVE  Room(v, g, b)
  BY DEF Room, Uncounted

LEMMA QuietFrames ==
  ASSUME Inv, Quiet, NEW e \in Emails
  PROVE  /\ FrameAbove(e) => FrameAbove(e)'
         /\ StatusFits(e) => StatusFits(e)'
  <1>1. row' = row
    BY DEF Quiet
  <1>2. ASSUME NEW f \in {"status", "attempts"}
        PROVE  \/ frame'[Store][e][f] \in {NoFrame, frame[Store][e][f]}
               \/ /\ row[Store][e] # Absent /\ row[Store][e][f] # Absent
                  /\ frame'[Store][e][f] = row[Store][e][f]
    <2>1. f \in Sql!Paths /\ f # Root
      BY Paths
    <2>2. row[Store][e] # Absent => row[Store][e] \in Auth!Account /\ row[Store][e] \in Sql!Row
      BY NumbersOf, AccountIsRow
    <2>3. row[Store][e] # Absent => Sql!Find(row[Store][e], f) = row[Store][e][f]
      BY <2>1, <2>2 DEF Sql!Find
    <2> QED
      BY <2>1, <2>3 DEF Quiet, FramesFresh
  <1>3. row[Store][e] # Absent =>
           /\ row[Store][e].attempts # Absent => row[Store][e].attempts \in Nat
           /\ row[Store][e]["attempts"] = row[Store][e].attempts
           /\ row[Store][e]["status"] = row[Store][e].status
    BY NumbersOf, AccountIsRow
  <1>4. FrameAbove(e) => FrameAbove(e)'
    BY <1>1, <1>2, <1>3 DEF FrameAbove
  <1>5. StatusFits(e) => StatusFits(e)'
    BY <1>1, <1>2, <1>3 DEF StatusFits
  <1> QED
    BY <1>4, <1>5

\* What check() finds in the frame of the status of an active account.
LEMMA StatusSeen ==
  ASSUME Inv, NEW e \in Emails, StatusFits(e), row[Store][e] # Absent,
         row[Store][e].status = Auth!Active
  PROVE  FieldSeen(e, "status", TRUE).status = Auth!Active
  <1>1. "status" \in Fields
    BY DEF Fields
  <1>2. /\ FieldSeen(e, "status", TRUE) = Auth!Field("status", ValueSeen(e, "status", TRUE))
        /\ \/ frame[Store][e]["status"] # NoFrame /\ ValueSeen(e, "status", TRUE) = frame[Store][e]["status"]
           \/ ValueSeen(e, "status", TRUE) = row[Store][e]["status"]
    BY <1>1, FieldSeenIs DEF Inv
  <1>3. row[Store][e]["status"] = row[Store][e].status
    BY NumbersOf, AccountIsRow
  <1>4. ValueSeen(e, "status", TRUE) = Auth!Active
    BY <1>2, <1>3 DEF StatusFits
  <1> QED
    BY <1>2, <1>4 DEF Auth!Field, Auth!NoUser

\* And in the frame of its count: no less than the row has, if it has one.
LEMMA CountSeen ==
  ASSUME Inv, NEW e \in Emails, FrameAbove(e), row[Store][e] # Absent, row[Store][e].attempts # Absent
  PROVE  LET x == FieldSeen(e, "attempts", TRUE).attempts IN
         x # Absent /\ x \in Nat /\ x >= row[Store][e].attempts
  <1> DEFINE x == ValueSeen(e, "attempts", TRUE)
  <1>1. "attempts" \in Fields
    BY DEF Fields
  <1>2. row[Store][e]["attempts"] = row[Store][e].attempts /\ row[Store][e].attempts \in Nat
    BY NumbersOf, AccountIsRow
  <1>3. /\ FieldSeen(e, "attempts", TRUE) = Auth!Field("attempts", x)
        /\ x # Absent /\ x \in Of("attempts")
        /\ \/ frame[Store][e]["attempts"] # NoFrame /\ x = frame[Store][e]["attempts"]
           \/ x = row[Store][e]["attempts"]
    BY <1>1, <1>2, FieldSeenIs DEF Inv
  <1>4. FieldSeen(e, "attempts", TRUE).attempts = x
    BY <1>3 DEF Auth!Field, Auth!NoUser
  <1>5. x \in Nat
    BY <1>3, Numbers DEF Of
  <1>6. x >= row[Store][e].attempts
    <2>1. CASE frame[Store][e]["attempts"] # NoFrame /\ x = frame[Store][e]["attempts"]
      BY <2>1 DEF FrameAbove
    <2>2. CASE x = row[Store][e]["attempts"]
      <3> HIDE DEF x
      <3> QED
        BY <1>2, <2>2
    <2> QED
      BY <1>3, <2>1, <2>2
  <1> QED
    BY <1>3, <1>4, <1>5, <1>6

LEMMA NoCountSeen ==
  ASSUME Inv, NEW e \in Emails, FieldSeen(e, "attempts", TRUE).attempts # Absent
  PROVE  row[Store][e] # Absent /\ row[Store][e].attempts # Absent
  <1> DEFINE x == ValueSeen(e, "attempts", TRUE)
  <1>1. /\ FieldSeen(e, "attempts", TRUE) = Auth!Field("attempts", x)
        /\ x # Absent => row[Store][e] # Absent /\ row[Store][e]["attempts"] # Absent
    BY Paths, FieldSeenIs DEF Inv
  <1>2. FieldSeen(e, "attempts", TRUE).attempts = x
    BY <1>1 DEF Auth!Field, Auth!NoUser
  <1>3. row[Store][e] # Absent => row[Store][e].attempts = row[Store][e]["attempts"]
    BY NumbersOf, AccountIsRow
  <1> QED
    BY <1>1, <1>2, <1>3

\* A step that leaves the rows and the guesses alone.
LEMMA LoneQuiet ==
  ASSUME Inv, Quiet, NEW me \in Threads, LoneInv(me), guesses' = guesses,
         NEW d, d = call'[me], d.pc # "idle" => d.email \in Emails,
         \A x \in Emails :
            Counting(call[me], x) =>
                Counting(d, x) \/ Uncounted(row[Store][x]),
         Fits(d), d.pc # "idle" => Current(d),
         Watching(d) => StatusFits(d.email) \/ StatusFits(d.email)'
  PROVE  LoneInv(me)'
  <1>1. row' = row
    BY DEF Quiet
  <1>2. ASSUME NEW x \in Emails
        PROVE  Room(row[Store][x], guesses[x], Counting(d, x)) /\ FrameAbove(x)'
    <2>1. Room(row[Store][x], guesses[x], Counting(call[me], x)) /\ FrameAbove(x)
      BY DEF LoneInv
    <2> QED
      BY <2>1, QuietFrames, RoomWeakens, RoomInactive
  <1>3. Watching(d) => StatusFits(d.email)'
    BY QuietFrames DEF Watching
  <1>4. d.pc # "idle" => Current(d)'
    BY <1>1 DEF Current
  <1>5. \A x \in Emails : Room(row'[Store][x], guesses'[x], Counting(d, x))
    BY <1>1, <1>2
  <1> QED
    BY <1>2, <1>3, <1>4, <1>5 DEF LoneInv

LEMMA IdleIsLone ==
  ASSUME NEW c, c.pc = "idle"
  PROVE  Fits(c) /\ ~Watching(c) /\ \A x \in Emails : ~Counting(c, x)
  BY DEF Fits, Watching, Counting

LEMMA LoneStart ==
  ASSUME Inv, NEW me \in Threads, LoneInv(me), NEW e \in Emails, Start(me, e, TRUE)
  PROVE  LoneInv(me)'
  <1>1. Quiet /\ Advance(me) /\ guesses' = guesses /\ call[me].pc = "idle"
    BY StartIsQuiet
  <1>2. PICK d : d = call'[me]
    OBVIOUS
  <1>3. \A x \in Emails : ~Counting(call[me], x)
    BY <1>1, IdleIsLone
  <1>4. d.email \in Emails \/ d.pc = "idle"
    BY <1>1, <1>2 DEF Advance, Working
  <1>5. SUFFICES /\ Fits(d) /\ Current(d)
                 /\ Watching(d) => StatusFits(d.email)'
    BY <1>1, <1>2, <1>3, <1>4, LoneQuiet
  <1> DEFINE u == RowSeen(e, TRUE)
             s == FieldSeen(e, "status", TRUE)
  <1>6. /\ row[Store][e] # Absent => u = row[Store][e]
        /\ row[Store][e] = Absent => u = Auth!NoUser
    BY RowSeenIs DEF Inv
  <1>7. \A c : call' = [call EXCEPT ![me] = c] => d = c
    BY <1>2 DEF Inv, CallsOK
  <1> HIDE DEF u, s
  <1>8. ASSUME NEW pw \in Passwords, Seeing(u)!CreateExists(me, e, pw, TRUE)
        PROVE  Fits(d) /\ Current(d) /\ ~Watching(d)
    <2>1. u = Auth!NoUser /\ call' = [call EXCEPT ![me] = Auth!Calling("create", "create user", e, pw, Absent)]
      BY <1>8 DEF Seeing!CreateExists, Seeing!Become, Seeing!Calling, Seeing!Found, Seeing!NoUser,
                  Auth!Calling, Auth!NoUser
    <2>2. d = Auth!Calling("create", "create user", e, pw, Absent)
      BY <1>7, <2>1
    <2>3. row[Store][e] = Absent
      BY <1>6, <2>1, NumbersOf, AccountIsRow
    <2> QED
      BY <2>2, <2>3 DEF Fits, Current, Watching, Auth!Calling
  <1>9. ASSUME Seeing(u)!ResetRead(me, e, TRUE)
        PROVE  Fits(d) /\ Current(d) /\ ~Watching(d)
    <2> DEFINE c == [Auth!Calling("reset", "reset write", e, Absent, Absent) EXCEPT !.v = u]
    <2>1. u # Auth!NoUser /\ call' = [call EXCEPT ![me] = c]
      BY <1>9 DEF Seeing!ResetRead, Seeing!Become, Seeing!Calling, Seeing!Found, Seeing!NoUser,
                  Auth!Calling, Auth!NoUser
    <2>2. d = c /\ u = row[Store][e]
      BY <1>6, <1>7, <2>1
    <2> QED
      BY <2>2 DEF Fits, Current, Watching, Auth!Calling
  <1>10. ASSUME NEW new \in Passwords, Seeing(u)!ForgotExists(me, e, new, TRUE)
         PROVE  Fits(d) /\ Current(d) /\ ~Watching(d)
    <2>1. call' = [call EXCEPT ![me] = Auth!Calling("forgot", "forgot write", e, Absent, new)]
      BY <1>10 DEF Seeing!ForgotExists, Seeing!Become, Seeing!Calling, Seeing!NoUser,
                   Auth!Calling, Auth!NoUser
    <2>2. d = Auth!Calling("forgot", "forgot write", e, Absent, new)
      BY <1>7, <2>1
    <2> QED
      BY <2>2 DEF Fits, Current, Watching, Auth!Calling
  <1>11. ASSUME NEW op \in {"check", "change"}, NEW pw \in Passwords, NEW new, ReadField(e, "status", TRUE),
                Seeing(s)!CheckActive(me, op, e, pw, new, TRUE)
         PROVE  Fits(d) /\ Current(d) /\ StatusFits(d.email)'
    <2>1. s.status = Auth!Active /\ call' = [call EXCEPT ![me] = Auth!Calling(op, "exists", e, pw, new)]
      BY <1>11 DEF Seeing!CheckActive, Seeing!Become, Seeing!Calling, Seeing!Found, Seeing!NoUser,
                   Seeing!Active, Auth!Calling, Auth!NoUser, Auth!Active
    <2>2. d = Auth!Calling(op, "exists", e, pw, new)
      BY <1>7, <2>1
    <2>3. Fits(d) /\ Current(d) /\ d.email = e
      BY <2>2, SentinelAssumption DEF Fits, Current, Auth!Calling
    <2>4. /\ s = Auth!Field("status", ValueSeen(e, "status", TRUE))
          /\ row[Store][e] # Absent => frame'[Store][e]["status"] = ValueSeen(e, "status", TRUE)
      <3>1. "status" \in Fields /\ RowsOK /\ FramesOK
        BY DEF Fields, Inv
      <3>2. s = Auth!Field("status", ValueSeen(e, "status", TRUE))
        BY <3>1, FieldSeenIs DEF s
      <3>3. row[Store][e] # Absent => frame'[Store][e]["status"] = ValueSeen(e, "status", TRUE)
        <4>1. row[Store][e] # Absent => row[Store][e]["status"] # Absent
          BY NumbersOf, AccountIsRow
        <4> QED
          BY <1>11, <3>1, <4>1, ReadFieldIsQuiet
      <3> QED
        BY <3>2, <3>3
    <2>5. s.status = ValueSeen(e, "status", TRUE)
      BY <2>4 DEF Auth!Field, Auth!NoUser
    <2> QED
      BY <1>1, <2>1, <2>3, <2>4, <2>5 DEF StatusFits, Quiet
  <1>12. ASSUME NEW n, Seeing(s)!SetAttempts(me, e, n, TRUE)
         PROVE  Fits(d) /\ Current(d) /\ ~Watching(d)
    <2> DEFINE c == [Auth!Calling("count", "count write", e, Absent, Absent) EXCEPT !.n = n]
    <2>1. call' = [call EXCEPT ![me] = c]
      BY <1>12 DEF Seeing!SetAttempts, Seeing!Become, Seeing!Calling, Seeing!NoUser,
                   Auth!Calling, Auth!NoUser
    <2>2. d = c
      BY <1>7, <2>1
    <2> QED
      BY <2>2 DEF Fits, Current, Watching, Auth!Calling
  <1>13. CASE \E w \in {RowSeen(e, TRUE)} : StartsOnRow(me, e, w) /\ ReadRow(e, TRUE)
    BY <1>8, <1>9, <1>10, <1>13 DEF StartsOnRow, u
  <1>14. CASE \E w \in {FieldSeen(e, "status", TRUE)} :
                 StartsOnStatus(me, e, w) /\ ReadField(e, "status", TRUE)
    BY <1>11, <1>12, <1>14 DEF StartsOnStatus, s
  <1> QED
    BY <1>13, <1>14 DEF Start

LEMMA LoneEnter ==
  ASSUME Inv, NEW me \in Threads, LoneInv(me), NEW e \in Emails, Enter(me, e)
  PROVE  LoneInv(me)'
  <1>1. /\ Advance(me) /\ guesses' = guesses /\ call[me].pc = "idle"
        /\ UNCHANGED <<created, row, frame, batch>>
        /\ \/ call'[me].pc = "block read" /\ call'[me].op \in {"block", "unblock"}
           \/ call'[me].pc = "set active"
    BY EnterAdvances DEF Inv
  <1>2. Quiet
    BY <1>1, StillIsQuiet DEF Inv
  <1>3. PICK d : d = call'[me]
    OBVIOUS
  <1>4. Fits(d) /\ Current(d) /\ ~Watching(d)
    BY <1>1, <1>3 DEF Fits, Current, Watching
  <1>5. d.email \in Emails
    BY <1>1, <1>3 DEF Advance, Working
  <1>6. \A x \in Emails : ~Counting(call[me], x)
    BY <1>1, IdleIsLone
  <1> QED
    BY <1>1, <1>2, <1>3, <1>4, <1>5, <1>6, LoneQuiet

LEMMA LoneHashes ==
  ASSUME Inv, NEW me \in Threads, LoneInv(me), NEW up, Hashes(me, up)
  PROVE  LoneInv(me)'
  <1>1. /\ Advance(me) /\ guesses' = guesses
        /\ UNCHANGED <<created, row, frame, batch>>
        /\ call'[me] = Auth!NoCall \/ call'[me].pc = "verify user"
    BY HashesAdvances DEF Inv
  <1>2. Quiet
    BY <1>1, StillIsQuiet DEF Inv
  <1>3. PICK d : d = call'[me]
    OBVIOUS
  <1>4. d.pc \in {"idle", "verify user"}
    <2>1. Auth!NoCall.pc = "idle"
      BY DEF Auth!NoCall, Auth!Calling
    <2> QED
      BY <1>1, <1>3, <2>1
  <1>5. Fits(d) /\ ~Watching(d) /\ (d.pc # "idle" => Current(d))
    BY <1>4 DEF Fits, Current, Watching
  <1>6. d.pc # "idle" => d.email \in Emails
    BY <1>1, <1>3 DEF Advance, Working
  <1>7. \A x \in Emails : ~Counting(call[me], x)
    BY DEF Hashes, Auth!CreateHash, Auth!ResetHash, Auth!VerifyHash, Auth!At, Auth!Ready, Counting
  <1> QED
    BY <1>1, <1>2, <1>3, <1>5, <1>6, <1>7, LoneQuiet

LEMMA LoneElsewhere ==
  ASSUME Inv, NEW me \in Threads, LoneInv(me), Elsewhere \/ Forget \/ Restart \/ UNCHANGED vars
  PROVE  LoneInv(me)'
  <1>1. Quiet /\ call' = call /\ guesses' = guesses
    BY ElsewhereIsQuiet, StillIsQuiet DEF auth, vars, Inv
  <1>2. PICK d : d = call'[me]
    OBVIOUS
  <1>3. d = call[me]
    BY <1>1, <1>2
  <1>4. d.pc # "idle" => d.email \in Emails
    BY <1>3, StepIs DEF Inv
  <1> QED
    BY <1>1, <1>2, <1>3, <1>4, LoneQuiet DEF LoneInv

\* What the lone call c is after a step that goes to pc with nothing else changed.
LEMMA LoneGoes ==
  ASSUME Inv, NEW me \in Threads, NEW pc \in Auth!Steps, call' = [call EXCEPT ![me].pc = pc]
  PROVE  /\ call'[me].pc = pc /\ call'[me].op = call[me].op /\ call'[me].email = call[me].email
         /\ call'[me].n = call[me].n /\ call'[me].v = call[me].v
         /\ call'[me].password = call[me].password
  BY DEF Inv, CallsOK, Auth!CallType

LEMMA LoneCounts ==
  ASSUME Inv, NEW me \in Threads, call' = [call EXCEPT ![me] = Auth!NoCall]
  PROVE  call'[me].pc = "idle"
  BY DEF Inv, CallsOK, Auth!NoCall, Auth!Calling

LEMMA LoneGoesOnRow ==
  ASSUME Inv, NEW me \in Threads, LoneInv(me), Read(me, TRUE), NEW u,
         u = RowSeen(call[me].email, TRUE),
         \/ Seeing(u)!CheckExists(me, TRUE) \/ Seeing(u)!BlockRead(me, TRUE)
         \/ Seeing(u)!VerifyUser(me, TRUE)
  PROVE  LoneInv(me)'
  <1> DEFINE c == call[me]
             e == c.email
  <1>1. Quiet /\ Advance(me) /\ call[me].pc # "idle"
    BY ReadIsQuiet DEF Read, Auth!Ready
  <1>2. /\ c \in Auth!CallType /\ Working(c, row[Store]) /\ e \in Emails
        /\ (Watching(c) => StatusFits(e)) /\ Current(c) /\ Fits(c)
    BY <1>1, StepIs DEF Inv, LoneInv
  <1>3. PICK d : d = call'[me]
    OBVIOUS
  <1>4. d.pc # "idle" => d.email \in Emails
    BY <1>1, <1>3 DEF Advance, Working
  <1>5. /\ row[Store][e] # Absent => u = row[Store][e]
        /\ row[Store][e] = Absent => u = Auth!NoUser
    BY <1>2, RowSeenIs DEF Inv
  <1>6. CASE Seeing(u)!CheckExists(me, TRUE)
    <2>1. PICK pc \in {"authorize", "fail active"} : call' = [call EXCEPT ![me].pc = pc]
      BY <1>2, <1>6, CheckExistsDoes
    <2>2. c.pc = "exists" /\ guesses' = guesses
      BY <1>2, <1>6, CheckExistsDoes
    <2>3. d.pc = pc /\ d.op = c.op /\ d.email = e /\ d.password = c.password
      BY <1>3, <2>1, LoneGoes DEF Auth!Steps
    <2>4. Fits(d) /\ Current(d) /\ Watching(c) /\ \A x \in Emails : ~Counting(c, x)
      BY <1>2, <2>2, <2>3 DEF Fits, Current, Watching, Counting
    <2>5. Watching(d) => StatusFits(d.email)
      BY <1>2, <2>3, <2>4
    <2> QED
      BY <1>1, <1>3, <1>4, <2>2, <2>4, <2>5, LoneQuiet
  <1>7. CASE Seeing(u)!BlockRead(me, TRUE)
    <2>1. c.pc = "block read" /\ guesses' = guesses
      BY <1>2, <1>7, BlockReadDoes
    <2>2. CASE u = Auth!NoUser /\ call' = [call EXCEPT ![me] = Auth!NoCall]
      <3>1. row[Store][e] = Absent
        BY <1>2, <1>5, <2>2, NumbersOf, AccountIsRow
      <3>2. d.pc = "idle"
        BY <1>3, <2>2, LoneCounts
      <3>3. Fits(d) /\ ~Watching(d)
        BY <3>2, IdleIsLone
      <3>4. \A x \in Emails : Counting(c, x) => Uncounted(row[Store][x])
        BY <3>1 DEF Counting, Uncounted
      <3> QED
        BY <1>1, <1>3, <2>1, <3>2, <3>3, <3>4, LoneQuiet
    <2>3. CASE u # Auth!NoUser
      <3> DEFINE w == [u EXCEPT !.status = IF c.op = "unblock" THEN Auth!Active ELSE Auth!Blocked]
      <3>1. call' = [call EXCEPT ![me] =
                        [Auth!Calling(c.op, "block write", e, Absent, Absent) EXCEPT !.v = w]]
        BY <1>2, <1>7, <2>3, BlockReadDoes
      <3>2. u = row[Store][e]
        BY <1>5, <2>3
      <3> HIDE DEF w
      <3>3. d = [Auth!Calling(c.op, "block write", e, Absent, Absent) EXCEPT !.v = w]
        BY <1>3, <3>1 DEF Inv, CallsOK
      <3>4. d.pc = "block write" /\ d.op = c.op /\ d.email = e /\ d.v = w
        BY <3>3 DEF Auth!Calling
      <3>5. c.op \in {"check", "change", "block", "unblock"}
        BY <1>2, <2>1 DEF Fits
      <3>a. c.op \in {"check", "change"} => row[Store][e].attempts # Absent
        BY <1>2, <2>1 DEF Current
      <3>b. d.v = [row[Store][d.email] EXCEPT !.status =
                      IF d.op = "unblock" THEN Auth!Active ELSE Auth!Blocked]
        BY <3>2, <3>4 DEF w
      <3>6. Fits(d) /\ Current(d) /\ ~Watching(d)
        <4> HIDE DEF c, e
        <4> QED
          BY <3>4, <3>5, <3>a, <3>b DEF Fits, Current, Watching
      <3>7. \A x \in Emails : Counting(c, x) => Counting(d, x)
        BY <3>4 DEF Counting
      <3> QED
        BY <1>1, <1>3, <1>4, <2>1, <3>6, <3>7, LoneQuiet
    <2> QED
      BY <1>2, <1>7, <2>2, <2>3, BlockReadDoes
  <1>8. CASE Seeing(u)!VerifyUser(me, TRUE)
    <2>1. c.pc = "verify user" /\ guesses' = guesses
      BY <1>2, <1>8, VerifyUserDoes
    <2>2. \A x \in Emails : ~Counting(c, x)
      BY <2>1 DEF Counting
    <2>3. CASE call' = [call EXCEPT ![me] = Auth!NoCall]
      <3>1. d.pc = "idle"
        BY <1>3, <2>3, LoneCounts
      <3> QED
        BY <1>1, <1>3, <2>1, <2>2, <3>1, IdleIsLone, LoneQuiet
    <2>4. CASE u # Auth!NoUser /\ u.status = Auth!New /\ call' = [call EXCEPT ![me].pc = "activate"]
      <3>1. d.pc = "activate" /\ d.email = e
        BY <1>3, <2>4, LoneGoes DEF Auth!Steps
      <3>2. row[Store][e].status = Auth!New
        BY <1>5, <2>4
      <3>3. Fits(d) /\ Current(d) /\ ~Watching(d)
        BY <3>1, <3>2 DEF Fits, Current, Watching
      <3> QED
        BY <1>1, <1>3, <1>4, <2>1, <2>2, <3>3, LoneQuiet
    <2> QED
      BY <1>2, <1>8, <2>3, <2>4, VerifyUserDoes
  <1> QED
    BY <1>6, <1>7, <1>8

\* A wrong password is counted against the account that is active, while it is.
LEMMA LoneAuthorize ==
  ASSUME Inv, NEW me \in Threads, LoneInv(me), Read(me, TRUE), NEW u,
         u = RowSeen(call[me].email, TRUE), Seeing(u)!Authorize(me, TRUE)
  PROVE  LoneInv(me)'
  <1>0. PICK e \in Emails : e = call[me].email
    BY StepIs DEF Inv, Read, Auth!Ready
  <1> DEFINE c == call[me]
             v == row[Store][e]
  <1>1. Quiet /\ Advance(me) /\ c.pc = "authorize" /\ row' = row
    BY <1>0, ReadIsQuiet, AuthorizeDoes DEF Quiet
  <1>2. /\ c \in Auth!CallType /\ Working(c, row[Store]) /\ c.email = e
        /\ (Watching(c) => StatusFits(e)) /\ Current(c) /\ Fits(c)
        /\ \A x \in Emails : Room(row[Store][x], guesses[x], Counting(c, x)) /\ FrameAbove(x)
    BY <1>0, <1>1, StepIs DEF Inv, LoneInv
  <1>3. v # Absent /\ u = v
    <2>1. v # Absent
      BY <1>1, <1>2 DEF Working
    <2> QED
      BY <1>0, <2>1, RowSeenIs DEF Inv
  <1>4. guesses[e] \in Nat /\ (v.password # Absent => v.attempts \in Nat)
    BY <1>2, <1>3, NumbersOf
  <1>5. c.op \in {"check", "change"} /\ Watching(c) /\ \A x \in Emails : ~Counting(c, x)
    BY <1>1, <1>2 DEF Fits, Watching, Counting
  <1>6. \A x \in Emails : FrameAbove(x)'
    BY <1>1, <1>2, QuietFrames
  <1>7. StatusFits(e)'
    BY <1>1, <1>2, <1>5, QuietFrames
  <1> DEFINE wrong == u.status = Auth!Active /\ u.password \notin {Absent, c.password}
             g == IF wrong /\ guesses[e] <= MAX_LOGIN_ATTEMPTS THEN guesses[e] + 1 ELSE guesses[e]
  <1>8. /\ call' = [call EXCEPT ![me].pc =
                       IF Auth!Authorizes(u, c.password) THEN "clear active" ELSE "fail active"]
        /\ guesses' = [guesses EXCEPT ![e] = g]
    BY <1>0, AuthorizeDoes
  <1>9. guesses'[e] = g /\ \A x \in Emails : x # e => guesses'[x] = guesses[x]
    BY <1>2, <1>8 DEF Inv, HistoryOK
  <1>10. CASE Auth!Authorizes(u, c.password)
    <2>1. ~wrong /\ g = guesses[e]
      BY <1>10 DEF Auth!Authorizes
    <2>2. call'[me].pc = "clear active" /\ call'[me].op = c.op /\ call'[me].email = e
      BY <1>0, <1>8, <1>10, LoneGoes DEF Auth!Steps
    <2>5. v.password # Absent
      BY <1>1, <1>2, <1>3, <1>10 DEF Current, Auth!Authorizes
    <2>3. Fits(call'[me]) /\ ~Watching(call'[me]) /\ Current(call[me])'
      BY <1>1, <1>5, <2>2, <2>5 DEF Fits, Watching, Current
    <2>4. \A x \in Emails : Room(row'[Store][x], guesses'[x], Counting(call'[me], x))
      <3> HIDE DEF g
      <3> QED
        BY <1>1, <1>2, <1>9, <2>1, RoomWeakens, <1>5
    <2> QED
      BY <1>6, <2>3, <2>4 DEF LoneInv, Fits, Watching
  <1>11. CASE ~Auth!Authorizes(u, c.password)
    <2>1. PICK d : d = call'[me]
      OBVIOUS
    <2>2. d.pc = "fail active" /\ d.op = c.op /\ d.email = e
      BY <1>2, <1>8, <1>11, <2>1, LoneGoes DEF Auth!Steps
    <2>3. Fits(d) /\ Current(d)' /\ StatusFits(d.email)'
      BY <1>5, <1>7, <2>2 DEF Fits, Current
    <2>4. Counting(d, e)
      BY <1>5, <2>2 DEF Counting
    <2>5. /\ guesses[e] <= MAX_LOGIN_ATTEMPTS
          /\ v.password = Absent \/ v.status = Auth!New => guesses[e] = 0
          /\ v.password # Absent /\ v.status = Auth!Active =>
                guesses[e] <= v.attempts /\ guesses[e] < MAX_LOGIN_ATTEMPTS
      BY <1>2, <1>3, <1>5 DEF Room
    <2>6. Room(v, g, TRUE)
      <3>1. CASE ~wrong
        <4>1. g = guesses[e]
          BY <3>1
        <4> HIDE DEF g
        <4> QED
          BY <1>3, <1>4, <2>5, <4>1 DEF Room
      <3>2. CASE wrong
        <4>1. /\ v.status = Auth!Active /\ v.password # Absent
              /\ guesses[e] <= v.attempts /\ guesses[e] < MAX_LOGIN_ATTEMPTS
          BY <1>3, <2>5, <3>2
        <4>2. g = guesses[e] + 1
          BY <1>4, <3>2, <4>1, Numbers
        <4>3. v.status # Auth!New
          BY <4>1, Numbers
        <4> HIDE DEF g
        <4> QED
          BY <1>3, <1>4, <4>1, <4>2, <4>3, Numbers DEF Room
      <3> QED
        BY <3>1, <3>2
    <2>7. \A x \in Emails : Room(row'[Store][x], guesses'[x], Counting(d, x))
      <3> HIDE DEF g
      <3>1. ASSUME NEW x \in Emails, x # e
            PROVE  Room(row'[Store][x], guesses'[x], Counting(d, x))
        BY <1>1, <1>2, <1>5, <1>9, <3>1, RoomWeakens
      <3>2. Room(row'[Store][e], guesses'[e], Counting(d, e))
        BY <1>1, <1>9, <2>4, <2>6, RoomWeakens
      <3> QED
        BY <3>1, <3>2
    <2> QED
      BY <1>6, <2>1, <2>3, <2>7 DEF LoneInv
  <1> QED
    BY <1>10, <1>11

LEMMA LoneGoesOnStatus ==
  ASSUME Inv, NEW me \in Threads, LoneInv(me), Read(me, TRUE), NEW u,
         u = FieldSeen(call[me].email, "status", TRUE), GoesOnStatus(me, u)
  PROVE  LoneInv(me)'
  <1> DEFINE c == call[me]
             e == c.email
             v == row[Store][e]
  <1>1. Quiet /\ Advance(me) /\ c.pc # "idle"
    BY ReadIsQuiet DEF Read, Auth!Ready
  <1>2. /\ c \in Auth!CallType /\ Working(c, row[Store]) /\ e \in Emails
        /\ (Watching(c) => StatusFits(e)) /\ Current(c) /\ Fits(c)
    BY <1>1, StepIs DEF Inv, LoneInv
  <1>3. PICK d : d = call'[me]
    OBVIOUS
  <1>4. d.pc # "idle" => d.email \in Emails
    BY <1>1, <1>3 DEF Advance, Working
  <1>5. Watching(c) /\ v # Absent /\ v.status = Auth!Active => u.status = Auth!Active
    BY <1>2, StatusSeen
  <1>6. \A x \in Emails : Counting(c, x) => x = e
    BY DEF Counting
  <1>7. CASE Seeing(u)!ClearActive(me, TRUE)
    <2>1. c.pc = "clear active" /\ guesses' = guesses
      BY <1>2, <1>7, ClearActiveDoes
    <2>2. \A x \in Emails : ~Counting(c, x)
      BY <2>1 DEF Counting
    <2>3. c.op \in {"check", "change"}
      BY <1>2, <2>1 DEF Fits
    <2>4. \/ d.pc = "clear" /\ d.op = c.op /\ d.email = e
          \/ d.pc = "change write" /\ d.email = e
          \/ d.pc = "idle"
      BY <1>2, <1>3, <1>7, ClearActiveDoes, LoneGoes, LoneCounts DEF Auth!Steps
    <2>5. Fits(d) /\ Current(d) /\ ~Watching(d)
      BY <1>2, <2>1, <2>3, <2>4 DEF Fits, Current, Watching
    <2> QED
      BY <1>1, <1>3, <1>4, <2>1, <2>2, <2>5, LoneQuiet
  <1>8. CASE Seeing(u)!FailActive(me, TRUE)
    <2>1. c.pc = "fail active" /\ guesses' = guesses
      BY <1>2, <1>8, FailActiveDoes
    <2>2. Watching(c) /\ c.op \in {"check", "change"}
      BY <1>2, <2>1 DEF Fits, Watching
    <2>3. CASE call' = [call EXCEPT ![me].pc = "fail count"]
      <3>1. d.pc = "fail count" /\ d.op = c.op /\ d.email = e
        BY <1>3, <2>3, LoneGoes DEF Auth!Steps
      <3>2. Fits(d) /\ Current(d) /\ StatusFits(d.email)
        BY <1>2, <2>2, <3>1 DEF Fits, Current
      <3>3. \A x \in Emails : Counting(c, x) => Counting(d, x)
        BY <2>2, <3>1 DEF Counting
      <3> QED
        BY <1>1, <1>3, <1>4, <2>1, <3>2, <3>3, LoneQuiet
    <2>4. CASE u.status # Auth!Active /\ call' = [call EXCEPT ![me] = Auth!NoCall]
      <3>1. d.pc = "idle"
        BY <1>3, <2>4, LoneCounts
      <3>2. \A x \in Emails : Counting(c, x) => Uncounted(row[Store][x])
        BY <1>5, <1>6, <2>2, <2>4 DEF Uncounted
      <3> QED
        BY <1>1, <1>3, <2>1, <3>1, <3>2, IdleIsLone, LoneQuiet
    <2> QED
      BY <1>2, <1>8, <2>3, <2>4, FailActiveDoes
  <1>9. CASE Seeing(u)!CountActive(me, TRUE)
    <2>1. c.pc = "count active" /\ guesses' = guesses
      BY <1>2, <1>9, CountActiveDoes
    <2>2. /\ Watching(c) /\ c.op \in {"check", "change"}
          /\ v.attempts # Absent /\ v.attempts < c.n /\ c.n < MAX_LOGIN_ATTEMPTS
      BY <1>2, <2>1 DEF Fits, Watching, Current
    <2>3. CASE call' = [call EXCEPT ![me].pc = "count write"]
      <3>1. d.pc = "count write" /\ d.op = c.op /\ d.email = e /\ d.n = c.n
        BY <1>3, <2>3, LoneGoes DEF Auth!Steps
      <3>2. Fits(d) /\ Current(d) /\ ~Watching(d)
        BY <2>2, <3>1 DEF Fits, Current, Watching
      <3>3. \A x \in Emails : Counting(c, x) => Counting(d, x)
        BY <2>2, <3>1 DEF Counting
      <3> QED
        BY <1>1, <1>3, <1>4, <2>1, <3>2, <3>3, LoneQuiet
    <2>4. CASE /\ u.status # Auth!Active \/ ~(c.n <= MAX_LOGIN_ATTEMPTS)
               /\ call' = [call EXCEPT ![me] = Auth!NoCall]
      <3>1. d.pc = "idle"
        BY <1>3, <2>4, LoneCounts
      <3>2. c.n <= MAX_LOGIN_ATTEMPTS
        BY <1>2 DEF Auth!CallType
      <3>3. \A x \in Emails : Counting(c, x) => Uncounted(row[Store][x])
        BY <1>5, <1>6, <2>2, <2>4, <3>2 DEF Uncounted
      <3> QED
        BY <1>1, <1>3, <2>1, <3>1, <3>3, IdleIsLone, LoneQuiet
    <2> QED
      BY <1>2, <1>9, <2>3, <2>4, CountActiveDoes
  <1> QED
    BY <1>7, <1>8, <1>9 DEF GoesOnStatus

LEMMA CountGrows ==
  ASSUME NEW k \in Nat, NEW n \in Nat, k >= n, ~(k + 1 >= MAX_LOGIN_ATTEMPTS)
  PROVE  n < k + 1 /\ k + 1 < MAX_LOGIN_ATTEMPTS
  BY AttemptsAssumption

LEMMA LoneFailCount ==
  ASSUME Inv, NEW me \in Threads, LoneInv(me), Read(me, TRUE), NEW u,
         u = FieldSeen(call[me].email, "attempts", TRUE), Seeing(u)!FailCount(me, TRUE)
  PROVE  LoneInv(me)'
  <1> DEFINE c == call[me]
             e == c.email
             v == row[Store][e]
             k == u.attempts
  <1>1. Quiet /\ Advance(me) /\ c.pc # "idle"
    BY ReadIsQuiet DEF Read, Auth!Ready
  <1>2. /\ c \in Auth!CallType /\ Working(c, row[Store]) /\ e \in Emails
        /\ (Watching(c) => StatusFits(e)) /\ Fits(c) /\ FrameAbove(e)
    BY <1>1, StepIs DEF Inv, LoneInv
  <1>3. PICK d : d = call'[me]
    OBVIOUS
  <1>4. d.pc # "idle" => d.email \in Emails
    BY <1>1, <1>3 DEF Advance, Working
  <1>5. c.pc = "fail count" /\ guesses' = guesses
    BY <1>2, FailCountDoes
  <1>6. v # Absent
    BY <1>2, <1>5 DEF Working
  <1>7. k # Absent => /\ v.attempts # Absent /\ v.attempts \in Nat
                      /\ k \in Nat /\ k >= v.attempts
    <2>1. k # Absent => v.attempts # Absent
      BY <1>2, NoCountSeen
    <2> QED
      BY <1>2, <1>6, <2>1, CountSeen, NumbersOf
  <1>8. k = Absent => v.attempts = Absent /\ v.password = Absent
    BY <1>2, <1>6, CountSeen, NumbersOf
  <1> HIDE DEF k
  <1>9. Watching(c) /\ c.op \in {"check", "change"}
    BY <1>2, <1>5 DEF Fits, Watching
  <1>10. CASE k = Absent /\ call' = [call EXCEPT ![me] = Auth!NoCall]
    <2>1. d.pc = "idle"
      BY <1>3, <1>10, LoneCounts
    <2>2. \A x \in Emails : Counting(c, x) => Uncounted(row[Store][x])
      BY <1>8, <1>10 DEF Counting, Uncounted
    <2> QED
      BY <1>1, <1>3, <1>5, <2>1, <2>2, IdleIsLone, LoneQuiet
  <1>11. CASE k # Absent /\ call' = [call EXCEPT ![me] =
                         [Auth!Calling(c.op, "block read", e, Absent, Absent) EXCEPT !.n = 0]]
    <2>1. d = [Auth!Calling(c.op, "block read", e, Absent, Absent) EXCEPT !.n = 0]
      BY <1>3, <1>11 DEF Inv, CallsOK
    <2>2. d.pc = "block read" /\ d.op = c.op /\ d.email = e
      BY <2>1 DEF Auth!Calling
    <2>3. Fits(d) /\ Current(d) /\ ~Watching(d)
      BY <1>7, <1>9, <1>11, <2>2 DEF Fits, Current, Watching
    <2>4. \A x \in Emails : Counting(c, x) => Counting(d, x)
      BY <1>9, <2>2 DEF Counting
    <2> QED
      BY <1>1, <1>3, <1>4, <1>5, <2>3, <2>4, LoneQuiet
  <1>12. CASE /\ k # Absent /\ ~(k + 1 >= MAX_LOGIN_ATTEMPTS)
              /\ call' = [call EXCEPT ![me] =
                    [Auth!Calling(c.op, "count active", e, Absent, Absent) EXCEPT !.n = k + 1]]
    <2>1. d = [Auth!Calling(c.op, "count active", e, Absent, Absent) EXCEPT !.n = k + 1]
      BY <1>3, <1>12 DEF Inv, CallsOK
    <2>2. d.pc = "count active" /\ d.op = c.op /\ d.email = e /\ d.n = k + 1
      BY <2>1 DEF Auth!Calling
    <2>3. v.attempts < k + 1 /\ k + 1 < MAX_LOGIN_ATTEMPTS
      BY <1>6, <1>7, <1>12, CountGrows
    <2>4. Fits(d) /\ Current(d) /\ StatusFits(d.email)
      BY <1>2, <1>7, <1>9, <1>12, <2>2, <2>3 DEF Fits, Current
    <2>5. \A x \in Emails : Counting(c, x) => Counting(d, x)
      BY <1>9, <2>2 DEF Counting
    <2> QED
      BY <1>1, <1>3, <1>4, <1>5, <2>4, <2>5, LoneQuiet
  <1> QED
    BY <1>2, <1>11, <1>12, <1>10, FailCountDoes DEF k

\* The count after a write that restarts it.
LEMMA RestartedRoom ==
  ASSUME NEW v \in Auth!Account
  PROVE  Room(v, 0, FALSE)
  <1>1. v.password # Absent => v.attempts \in Nat
    BY AccountIsRow, Numbers
  <1>2. v # Absent
    BY AccountIsRow
  <1> QED
    BY <1>1, <1>2, Numbers DEF Room

LEMMA NotMore == \A n \in Nat : 0 <= n /\ n <= n
  OBVIOUS

\* What a write does to the count of a row that has one.
CountKept(v, new) ==
    v = Absent \/ v.attempts = Absent \/ (new.attempts # Absent /\ new.attempts <= v.attempts)

\* A row that a lone call stores still has room for the guesses.
LEMMA NewRowFits ==
  ASSUME Inv, NEW me \in Threads, LoneInv(me),
         call[me].pc \in RowSteps \cup StatusSteps \cup CountSteps
  PROVE  LET c == call[me]
             v == row[Store][c.email]
             new == NewRowOf(c.email, PathOf(c), ValOf(c)) IN
         /\ Room(new, IF Restarts(c) THEN 0 ELSE guesses[c.email], FALSE)
         /\ new \in Auth!Account
         /\ PathOf(c) = "attempts" => new.attempts = ValOf(c)
         /\ PathOf(c) # "attempts" => CountKept(v, new)
  <1> DEFINE c == call[me]
             e == c.email
             v == row[Store][e]
             p == PathOf(c)
             val == ValOf(c)
             new == NewRowOf(e, p, val)
  <1>1. /\ c \in Auth!CallType /\ Working(c, row[Store]) /\ e \in Emails /\ Current(c) /\ Fits(c)
        /\ Room(v, guesses[e], Counting(c, e)) /\ Storable(e, p, val)
    BY StepIs, StoresStorable DEF Inv, LoneInv, RowSteps, StatusSteps, CountSteps
  <1>2. new \in Auth!Account
    BY <1>1, NewRowIsAccount DEF Inv
  <1>3. /\ guesses[e] \in Nat
        /\ v # Absent => /\ v \in Auth!Account
                         /\ v.attempts # Absent => v.attempts \in Nat
                         /\ v.password # Absent => v.attempts # Absent
    BY <1>1, NumbersOf
  <1> DEFINE g == IF Restarts(c) THEN 0 ELSE guesses[e]
  <1> SUFFICES /\ Room(new, g, FALSE)
               /\ p = "attempts" => new.attempts = val
               /\ p # "attempts" => CountKept(v, new)
    BY <1>2
  <1> HIDE DEF p, val, new, g
  <1>4. /\ Restarts(c) => Room(new, g, FALSE)
        /\ ~Restarts(c) => g = guesses[e]
    BY <1>2, RestartedRoom DEF g
  <1>a. v # Absent /\ new.attempts = v.attempts => CountKept(v, new)
    BY <1>3, NotMore DEF CountKept
  <1>5. CASE c.pc \in RowSteps
    <2>1. p = Root /\ val = RowToStore(c) /\ new = Auth!Merge(AccountAt(e), val) /\ p # "attempts"
      BY <1>5, Paths DEF PathOf, ValOf, RowSteps, StatusSteps, NewRowOf, FieldsOf, p, val, new
    <2>2. CASE c.pc = "create user"
      <3>1. v = Absent /\ Restarts(c)
        BY <1>1, <2>2 DEF Current, Restarts
      <3> QED
        BY <1>2, <1>4, <2>1, <3>1 DEF CountKept
    <2>3. CASE c.pc \in {"forgot write", "change write"}
      <3>1. Restarts(c) /\ val.attempts = 0
        BY <2>1, <2>3 DEF Restarts, RowToStore, Auth!ChangedFields
      <3>2. new.attempts = 0
        BY <2>1, <3>1, SentinelAssumption DEF Auth!Merge
      <3>3. new.attempts # Absent
        BY <3>2, SentinelAssumption
      <3>4. CountKept(v, new)
        BY <1>3, <3>2, <3>3, NotMore DEF CountKept
      <3> QED
        BY <1>4, <2>1, <3>1, <3>4
    <2>4. CASE c.pc = "reset write"
      <3>1. v # Absent /\ val = v /\ ~Restarts(c) /\ ~Counting(c, e)
        BY <1>1, <2>1, <2>4 DEF Working, Current, RowToStore, Restarts, Counting
      <3>2. new = v
        BY <1>3, <2>1, <3>1, MergeOfSame DEF AccountAt
      <3>3. Room(v, guesses[e], FALSE)
        BY <1>1, <3>1 DEF Room
      <3> QED
        BY <1>a, <1>4, <2>1, <3>1, <3>2, <3>3
    <2>5. CASE c.pc = "block write"
      <3>1. /\ v # Absent /\ val = [v EXCEPT !.status =
                                       IF c.op = "unblock" THEN Auth!Active ELSE Auth!Blocked]
            /\ Restarts(c) <=> c.op = "unblock"
        BY <1>1, <2>1, <2>5 DEF Working, Current, RowToStore, Restarts
      <3>2. /\ val.attempts = v.attempts /\ val.password = v.password
            /\ val.status = IF c.op = "unblock" THEN Auth!Active ELSE Auth!Blocked
        BY <1>3, <3>1 DEF Auth!Account
      <3>3. new.attempts = v.attempts /\ new.status = val.status /\ new.password = v.password
        <4>1. val.status # Absent
          BY <3>2, SentinelAssumption, Numbers
        <4>2. AccountAt(e) = v
          BY <3>1 DEF AccountAt
        <4> QED
          BY <2>1, <3>2, <4>1, <4>2 DEF Auth!Merge
      <3>4. ~Restarts(c) => Room(new, guesses[e], FALSE)
        <4>1. guesses[e] <= MAX_LOGIN_ATTEMPTS /\ (new.password = Absent => guesses[e] = 0)
          BY <1>1, <3>3 DEF Room
        <4>2. ~Restarts(c) => new.status = 2
          BY <3>1, <3>2, <3>3, Numbers
        <4>3. new # Absent
          BY <1>2, AccountIsRow
        <4> QED
          BY <4>1, <4>2, <4>3, Numbers DEF Room
      <3> QED
        BY <1>a, <1>4, <2>1, <3>1, <3>3, <3>4
    <2> QED
      BY <1>5, <2>2, <2>3, <2>4, <2>5 DEF RowSteps
  <1>6. CASE c.pc \in StatusSteps
    <2>1. /\ p = "status"
          /\ val = IF c.op \in {"verify", "activate"} THEN Auth!Active ELSE Auth!New
      BY <1>1, <1>6 DEF PathOf, ValOf, RowSteps, StatusSteps, Working, p, val
    <2>2. v # Absent => new.attempts = v.attempts
      <3>1. SUFFICES ASSUME v # Absent
                     PROVE  new.attempts = v.attempts
        OBVIOUS
      <3>2. val \in Of("status")
        BY <2>1, Numbers DEF Of, Statuses
      <3>3. new = [v EXCEPT !["status"] = val]
        BY <1>3, <2>1, <3>1, <3>2, FieldWrite DEF new
      <3> QED
        BY <1>3, <3>1, <3>3 DEF Auth!Account
    <2>3. ~Restarts(c) => Room(new, guesses[e], FALSE)
      <3>1. ~Restarts(c) => c.pc = "activate"
        BY <1>6 DEF StatusSteps, Restarts
      <3>2. c.pc = "activate" => v.status = Auth!New
        BY <1>1 DEF Current
      <3>3. v.status = Auth!New => guesses[e] = 0
        BY <1>1 DEF Room
      <3> QED
        BY <1>2, <3>1, <3>2, <3>3, RestartedRoom
    <2>4. CountKept(v, new)
      BY <1>a, <2>2 DEF CountKept
    <2> QED
      BY <1>4, <2>1, <2>3, <2>4
  <1>7. CASE c.pc \in CountSteps
    <2>1. /\ p = "attempts" /\ v # Absent /\ val = IF c.pc = "clear" THEN 0 ELSE c.n
      BY <1>1, <1>7 DEF PathOf, ValOf, RowSteps, StatusSteps, CountSteps, Working, p, val
    <2>2. c.n \in Counts /\ val \in Of("attempts")
      BY <1>1, <2>1, Numbers DEF Of, Auth!CallType, Counts
    <2>3. new = [v EXCEPT !["attempts"] = val]
      BY <1>3, <2>1, <2>2, FieldWrite DEF new
    <2>4. new.attempts = val /\ new.status = v.status /\ new.password = v.password
      BY <1>3, <2>1, <2>3 DEF Auth!Account
    <2>5. ~Restarts(c) => Room(new, guesses[e], FALSE)
      <3>1. SUFFICES ASSUME ~Restarts(c)
                     PROVE  Room(new, guesses[e], FALSE)
        OBVIOUS
      <3>2. c.pc = "count write" /\ c.op \in {"check", "change"}
        BY <1>1, <1>7, <3>1 DEF CountSteps, Restarts, Fits
      <3>3. v.attempts < c.n /\ c.n < MAX_LOGIN_ATTEMPTS /\ new.attempts = c.n
        BY <1>1, <2>1, <2>4, <3>2 DEF Current
      <3>a. v.attempts # Absent
        BY <1>1, <3>2 DEF Current
      <3>4. c.n \in Nat /\ v.attempts \in Nat /\ guesses[e] \in Nat
        BY <1>3, <2>1, <2>2, <3>a, Numbers
      <3>5. /\ guesses[e] <= MAX_LOGIN_ATTEMPTS
            /\ v.password = Absent \/ v.status = Auth!New => guesses[e] = 0
            /\ v.password # Absent /\ v.status = Auth!Active => guesses[e] <= v.attempts + 1
        BY <1>1, <2>1 DEF Room
      <3>6. new # Absent
        BY <1>2, AccountIsRow
      <3>7. v.password # Absent /\ v.status = Auth!Active => guesses[e] <= c.n /\ guesses[e] < MAX_LOGIN_ATTEMPTS
        BY <3>3, <3>4, <3>5, Numbers
      <3>8. guesses[e] <= c.n => guesses[e] <= c.n + 1
        BY <3>4
      <3> QED
        BY <2>4, <3>3, <3>5, <3>6, <3>7, <3>8 DEF Room
    <2> QED
      BY <1>2, <1>4, <2>1, <2>4, <2>5
  <1> QED
    BY <1>5, <1>6, <1>7

LEMMA LoneWrite ==
  ASSUME Inv, NEW me \in Threads, LoneInv(me), Write(me, TRUE)
  PROVE  LoneInv(me)'
  <1>0. PICK c : c = call[me]
    OBVIOUS
  <1> DEFINE e == c.email
             p == PathOf(c)
             val == ValOf(c)
             v == row[Store][e]
             new == NewRowOf(e, p, val)
             g == IF Restarts(c) THEN 0 ELSE guesses[e]
  <1>1. /\ c.pc \in RowSteps \cup StatusSteps \cup CountSteps
        /\ e \in Emails /\ Storable(e, p, val)
        /\ ret'.ok \in BOOLEAN /\ Stored(me, ret'.ok)
        /\ row' = IF ret'.ok THEN [row EXCEPT ![Store][e] = new] ELSE row
        /\ v # Absent /\ (p = "attempts" => v.attempts # Absent) => ret'.ok
        /\ \A x \in Emails, f \in Fields :
              <<x, f>> # <<e, p>> => frame'[Store][x][f] = frame[Store][x][f]
        /\ p # Root =>
              \/ frame'[Store][e][p] = frame[Store][e][p] /\ row' = row
              \/ ret'.ok /\ frame'[Store][e][p] = val
    BY <1>0, WriteStepIs
  <1>2. /\ Room(new, g, FALSE) /\ new \in Auth!Account
        /\ p = "attempts" => new.attempts = val
        /\ p # "attempts" => CountKept(v, new)
    BY <1>0, <1>1, NewRowFits
  <1>3. \A x \in Emails : Room(row[Store][x], guesses[x], Counting(c, x)) /\ FrameAbove(x)
    BY <1>0 DEF LoneInv
  <1>4. /\ row' = row \/ row'[Store][e] = new
        /\ \A x \in Emails : x # e => row'[Store][x] = row[Store][x]
    BY <1>1 DEF Inv, RowsOK
  <1>5. guesses' = IF ret'.ok /\ Restarts(c) THEN [guesses EXCEPT ![e] = 0] ELSE guesses
    BY <1>0, <1>1 DEF Stored
  <1> HIDE DEF val, new
  <1>6. PICK d : d = call'[me]
    OBVIOUS
  <1>7. Fits(d) /\ ~Watching(d) /\ (\A x \in Emails : ~Counting(d, x)) /\ Current(d)'
    <2>1. d.pc \in {"idle", "create hash", "reset hash", "change write"}
      BY <1>1, <1>6 DEF Stored
    <2>2. d.pc = "change write" => c.pc = "clear" /\ d.email = e
      BY <1>0, <1>1, <1>6 DEF Stored
    <2>3. c.pc = "clear" => v.password # Absent /\ v # Absent /\ p = "attempts"
      BY <1>0 DEF LoneInv, Current, Inv, CallsOK, Working, PathOf, RowSteps, StatusSteps
    <2>4. v.password # Absent /\ v # Absent /\ p = "attempts" => row'[Store][e].password # Absent
      <3>1. SUFFICES ASSUME v.password # Absent, v # Absent, p = "attempts"
                     PROVE  row'[Store][e].password # Absent
        OBVIOUS
      <3>2. v["password"] # Absent /\ new["password"] # Absent
        BY <1>1, <1>2, <3>1, NewRowIsAccount, NumbersOf, AccountIsRow DEF Inv, new, Fields
      <3> QED
        BY <1>2, <1>4, <3>1, <3>2, AccountIsRow
    <2>5. d.pc = "change write" => row'[Store][d.email].password # Absent
      BY <2>2, <2>3, <2>4
    <2> QED
      BY <2>1, <2>5 DEF Fits, Watching, Counting, Current
  <1>8. ASSUME NEW x \in Emails, x # e
        PROVE  Room(row'[Store][x], guesses'[x], FALSE) /\ FrameAbove(x)'
    <2>1. ~Counting(c, x)
      BY <1>8 DEF Counting
    <2>2. row'[Store][x] = row[Store][x] /\ guesses'[x] = guesses[x]
      BY <1>4, <1>5, <1>8 DEF Inv, HistoryOK
    <2>3. frame'[Store][x]["attempts"] = frame[Store][x]["attempts"]
      BY <1>1, <1>8, Paths
    <2>4. FrameAbove(x)'
      BY <1>3, <2>2, <2>3 DEF FrameAbove
    <2>5. Room(row[Store][x], guesses[x], FALSE)
      BY <1>3, <2>1 DEF Room
    <2> QED
      BY <2>2, <2>4, <2>5
  <1>9. Room(row'[Store][e], guesses'[e], FALSE)
    <2>1. CASE ret'.ok
      <3>1. row'[Store][e] = new /\ guesses'[e] = g
        BY <1>1, <1>5, <2>1 DEF Inv, RowsOK, HistoryOK
      <3> QED
        BY <1>2, <3>1
    <2>2. CASE ~ret'.ok
      <3>1. row' = row /\ guesses' = guesses /\ (v = Absent \/ v.attempts = Absent)
        BY <1>1, <1>5, <2>2
      <3>2. Uncounted(v)
        BY <1>1, <3>1, NumbersOf DEF Uncounted
      <3> QED
        BY <1>1, <1>3, <3>1, <3>2, RoomInactive
    <2> QED
      BY <1>1, <2>1, <2>2
  <1>10. FrameAbove(e)'
    <2>1. SUFFICES ASSUME frame'[Store][e]["attempts"] # NoFrame
                   PROVE  frame'[Store][e]["attempts"] >= row'[Store][e].attempts
      BY <1>0 DEF FrameAbove
    <2>2. new.attempts # Absent => new.attempts \in Nat
      BY <1>2, AccountIsRow, Numbers
    <2>3. /\ frame[Store][e]["attempts"] # NoFrame =>
                v # Absent /\ v.attempts # Absent /\ v.attempts \in Nat /\ frame[Store][e]["attempts"] \in Nat
                /\ frame[Store][e]["attempts"] >= v.attempts
      BY <1>1, <1>3, NumbersOf DEF FrameAbove
    <2>4. CASE p # "attempts"
      <3>1. frame'[Store][e]["attempts"] = frame[Store][e]["attempts"]
        BY <1>1, <2>4, Paths
      <3>2. new.attempts # Absent /\ new.attempts <= v.attempts
        BY <1>2, <2>1, <2>3, <2>4, <3>1 DEF CountKept
      <3>3. frame[Store][e]["attempts"] >= new.attempts
        BY <2>1, <2>2, <2>3, <3>1, <3>2
      <3> QED
        BY <1>4, <2>1, <2>3, <3>1, <3>3
    <2>5. CASE p = "attempts" /\ row' = row /\ frame'[Store][e]["attempts"] = frame[Store][e]["attempts"]
      BY <2>1, <2>3, <2>5
    <2>6. CASE p = "attempts" /\ ret'.ok /\ frame'[Store][e]["attempts"] = val
      <3>a. val \in Of("attempts")
        BY <1>1, <2>6, Paths DEF Storable
      <3>1. val = new.attempts /\ val \in Nat
        BY <1>2, <2>6, <3>a, Numbers DEF Of
      <3>2. row'[Store][e] = new
        BY <1>1, <2>6 DEF Inv, RowsOK
      <3> QED
        BY <2>6, <3>1, <3>2
    <2> QED
      BY <1>1, <2>4, <2>5, <2>6, Paths
  <1>11. ASSUME NEW x \in Emails
         PROVE  Room(row'[Store][x], guesses'[x], Counting(d, x)) /\ FrameAbove(x)'
    <2>1. CASE x # e
      BY <1>8, <2>1, RoomWeakens
    <2>2. CASE x = e
      <3>1. FrameAbove(x)'
        BY <1>10, <2>2 DEF FrameAbove
      <3>2. Room(row'[Store][x], guesses'[x], Counting(d, x))
        BY <1>9, <2>2, RoomWeakens
      <3> QED
        BY <3>1, <3>2
    <2> QED
      BY <2>1, <2>2
  <1> QED
    BY <1>6, <1>7, <1>11 DEF LoneInv

LEMMA LoneRead ==
  ASSUME Inv, NEW me \in Threads, LoneInv(me), Read(me, TRUE)
  PROVE  LoneInv(me)'
  <1> DEFINE e == call[me].email
  <1>1. CASE \E u \in {RowSeen(e, TRUE)} : GoesOnRow(me, u) /\ ReadRow(e, TRUE)
    <2>1. PICK u : u = RowSeen(e, TRUE) /\ GoesOnRow(me, u)
      BY <1>1
    <2> QED
      BY <2>1, LoneGoesOnRow, LoneAuthorize DEF GoesOnRow
  <1>2. CASE \E u \in {FieldSeen(e, "status", TRUE)} :
               GoesOnStatus(me, u) /\ ReadField(e, "status", TRUE)
    <2>1. PICK u : u = FieldSeen(e, "status", TRUE) /\ GoesOnStatus(me, u)
      BY <1>2
    <2> QED
      BY <2>1, LoneGoesOnStatus
  <1>3. CASE \E u \in {FieldSeen(e, "attempts", TRUE)} :
               Seeing(u)!FailCount(me, TRUE) /\ ReadField(e, "attempts", TRUE)
    <2>1. PICK u : u = FieldSeen(e, "attempts", TRUE) /\ Seeing(u)!FailCount(me, TRUE)
      BY <1>3
    <2> QED
      BY <2>1, LoneFailCount
  <1> QED
    BY <1>1, <1>2, <1>3 DEF Read

LEMMA LoneInit ==
  ASSUME NEW me \in Threads, Init
  PROVE  LoneInv(me)
  <1>1. call[me] = Auth!NoCall /\ Auth!NoCall.pc = "idle"
    BY DEF Init, Auth!Init, Auth!NoCall, Auth!Calling
  <1>2. \A e \in Emails : guesses[e] = 0 /\ row[Store][e] = Absent
    BY DEF Init, Auth!Init, Sql!Init
  <1>3. \A e \in Emails : frame[Store][e]["attempts"] = NoFrame
    BY Paths DEF Init, Sql!Init
  <1>4. \A e \in Emails : FrameAbove(e) /\ Room(row[Store][e], guesses[e], FALSE)
    BY <1>2, <1>3, Numbers DEF FrameAbove, Room
  <1> QED
    BY <1>1, <1>4, IdleIsLone, RoomWeakens DEF LoneInv

LEMMA LoneSteps ==
  ASSUME NEW me, OneThread(me), Inv, LoneInv(me), [Next]_vars
  PROVE  LoneInv(me)'
  <1>1. me \in Threads /\ Threads = {me} /\ Answers = {TRUE}
    BY DEF OneThread
  <1>2. CASE \E t \in Threads, e \in Emails :
               (\E up \in Answers : Start(t, e, up)) \/ Enter(t, e)
    BY <1>1, <1>2, LoneStart, LoneEnter
  <1>3. CASE \E t \in Threads, up \in Answers : Read(t, up) \/ Write(t, up) \/ Hashes(t, up)
    BY <1>1, <1>3, LoneRead, LoneWrite, LoneHashes
  <1>4. CASE Elsewhere \/ Forget \/ Restart \/ UNCHANGED vars
    BY <1>1, <1>4, LoneElsewhere
  <1> QED
    BY <1>2, <1>3, <1>4 DEF Next

\* The lockout holds on the SQL driver: with one thread and a driver that answers, an
\* account takes at most MAX_LOGIN_ATTEMPTS wrong passwords between two restarts of
\* its count, although check() reads the count and the status from frames that a
\* write of the whole row does not refresh.
THEOREM GuessesStayBounded ==
  ASSUME NEW me, OneThread(me)
  PROVE  Spec => []GuessesBounded
  <1>1. Init => LoneInv(me)
    BY LoneInit DEF OneThread
  <1>2. Inv /\ LoneInv(me) /\ [Next]_vars => LoneInv(me)'
    BY LoneSteps
  <1>3. LoneInv(me) => GuessesBounded
    BY DEF LoneInv, Room, GuessesBounded, Auth!GuessesBounded
  <1> QED
    BY <1>1, <1>2, <1>3, InvHolds, PTL DEF Spec

\* A write of a lone call that ends a block is meant to: every other one stores the
\* status that the row has, which is the one that the call has read.
LEMMA LoneWriteUnblocks ==
  ASSUME Inv, NEW me \in Threads, LoneInv(me), Write(me, TRUE), NEW x \in Emails,
         row[Store][x] # Absent, row[Store][x].status = Auth!Blocked,
         row'[Store][x].status # Auth!Blocked
  PROVE  /\ call[me].email = x
         /\ call'[me] # call[me]
         /\ call[me].op \in {"forgot", "unblock", "activate", "deactivate"}
  <1>0. PICK c : c = call[me]
    OBVIOUS
  <1> DEFINE e == c.email
             p == PathOf(c)
             val == ValOf(c)
             v == row[Store][e]
             new == NewRowOf(e, p, val)
  <1>1. /\ c.pc \in RowSteps \cup StatusSteps \cup CountSteps
        /\ e \in Emails /\ Storable(e, p, val)
        /\ Stored(me, ret'.ok)
        /\ row' = IF ret'.ok THEN [row EXCEPT ![Store][e] = new] ELSE row
    BY <1>0, WriteStepIs
  <1>2. /\ c \in Auth!CallType /\ Working(c, row[Store]) /\ Current(c) /\ Fits(c)
    BY <1>0, <1>1 DEF Inv, CallsOK, LoneInv, RowSteps, StatusSteps, CountSteps
  <1>3. x = e /\ row'[Store][e] = new
    <2>1. row[Store][x] # row'[Store][x]
      OBVIOUS
    <2> HIDE DEF new
    <2> QED
      BY <1>1, <2>1 DEF Inv, RowsOK
  <1>4. v \in Auth!Account /\ v.status = 2 /\ new.status # 2
    BY <1>3, Numbers DEF Inv, RowsOK
  <1>5. PICK d : d = call'[me]
    OBVIOUS
  <1>6. d.pc \in {"idle", "create hash", "reset hash", "change write"}
    BY <1>1, <1>5 DEF Stored
  <1> HIDE DEF p, val, new
  <1>7. CASE c.pc \in RowSteps
    <2>1. val = RowToStore(c) /\ new = Auth!Merge(AccountAt(e), val) /\ AccountAt(e) = v
      BY <1>4, <1>7, Paths, AccountIsRow
      DEF PathOf, ValOf, RowSteps, StatusSteps, NewRowOf, FieldsOf, AccountAt, p, val, new
    <2>2. c.pc # "create user"
      BY <1>2, <1>4, AccountIsRow DEF Current
    <2>3. c.pc # "change write"
      <3>1. c.pc = "change write" => val.status = Absent
        BY <2>1 DEF RowToStore, Auth!ChangedFields
      <3>2. val.status = Absent => new.status = v.status
        BY <2>1 DEF Auth!Merge
      <3> QED
        BY <1>4, <3>1, <3>2
    <2>4. c.pc # "reset write"
      <3>1. c.pc = "reset write" => val = v
        BY <1>2, <2>1 DEF Current, RowToStore
      <3>2. val = v => new = v
        BY <1>4, <2>1, MergeOfSame
      <3> QED
        BY <1>4, <3>1, <3>2
    <2>5. CASE c.pc = "forgot write"
      BY <1>0, <1>2, <1>3, <1>5, <1>6, <2>5 DEF Working
    <2>6. CASE c.pc = "block write"
      <3>1. /\ c.op \in {"check", "change", "block", "unblock"}
            /\ val = [v EXCEPT !.status =
                         IF c.op = "unblock" THEN Auth!Active ELSE Auth!Blocked]
        BY <1>2, <2>1, <2>6 DEF Current, RowToStore
      <3>2. c.op # "unblock" => val.status = 2
        BY <1>4, <3>1, Numbers DEF Auth!Account
      <3>3. val.status = 2 => new.status = 2
        BY <2>1, SentinelAssumption DEF Auth!Merge
      <3> QED
        BY <1>0, <1>3, <1>4, <1>5, <1>6, <2>6, <3>1, <3>2, <3>3
    <2> QED
      BY <1>7, <2>2, <2>3, <2>4, <2>5, <2>6 DEF RowSteps
  <1>8. CASE c.pc \in StatusSteps
    <2>1. c.pc # "activate"
      <3>1. c.pc = "activate" => v.status = Auth!New
        BY <1>2 DEF Current
      <3> QED
        BY <1>4, <3>1, Numbers
    <2> QED
      BY <1>0, <1>2, <1>3, <1>5, <1>6, <1>8, <2>1 DEF Working, StatusSteps
  <1>9. CASE c.pc \in CountSteps
    <2>1. p = "attempts" /\ val = IF c.pc = "clear" THEN 0 ELSE c.n
      BY <1>9 DEF PathOf, ValOf, RowSteps, StatusSteps, CountSteps, p, val
    <2>2. c.n \in Counts /\ val \in Of("attempts")
      BY <1>2, <2>1, Numbers DEF Of, Auth!CallType, Counts
    <2>3. new = [v EXCEPT !["attempts"] = val]
      BY <1>4, <2>1, <2>2, FieldWrite, AccountIsRow DEF new
    <2>4. new.status = v.status
      BY <1>4, <2>3 DEF Auth!Account
    <2> QED
      BY <1>4, <2>4
  <1> QED
    BY <1>1, <1>7, <1>8, <1>9

\* A block holds on the SQL driver: with one thread and a driver that answers, an
\* account that is blocked in the database is unblocked only by a call meant for it.
\* A lone call stores the status of the row or one that it decided on by reading the
\* row, and never one from a frame of the field.
THEOREM BlockedRowsStay ==
  ASSUME NEW me, OneThread(me)
  PROVE  Spec => BlockedStaysBlocked
  <1>1. Init => LoneInv(me)
    BY LoneInit DEF OneThread
  <1>2. Inv /\ LoneInv(me) /\ [Next]_vars => LoneInv(me)'
    BY LoneSteps
  <1>3. ASSUME Inv, LoneInv(me), Next, NEW e \in Emails,
               row[Store][e] # Absent, row[Store][e].status = Auth!Blocked,
               row'[Store][e].status # Auth!Blocked
        PROVE  \E t \in Threads :
                  /\ call[t].email = e
                  /\ call'[t] # call[t]
                  /\ call[t].op \in {"forgot", "unblock", "activate", "deactivate"}
    <2>1. me \in Threads /\ Threads = {me} /\ Answers = {TRUE}
      BY DEF OneThread
    <2>2. row' # row
      BY <1>3
    <2>3. ASSUME NEW x \in Emails, Start(me, x, TRUE)
          PROVE  FALSE
      BY <1>3, <2>1, <2>2, <2>3, StartIsQuiet DEF Quiet
    <2>4. ASSUME NEW x \in Emails, Enter(me, x)
          PROVE  FALSE
      BY <2>2, <2>4 DEF Enter
    <2>5. ~Read(me, TRUE)
      BY <1>3, <2>1, <2>2, ReadIsQuiet DEF Quiet
    <2>6. ~Hashes(me, TRUE)
      BY <2>2 DEF Hashes
    <2>7. ~(Elsewhere \/ Forget \/ Restart)
      BY <1>3, <2>2, ElsewhereIsQuiet DEF Quiet
    <2>8. Write(me, TRUE)
      BY <1>3, <2>1, <2>3, <2>4, <2>5, <2>6, <2>7 DEF Next
    <2> QED
      BY <1>3, <2>1, <2>8, LoneWriteUnblocks
  <1>4. Inv /\ LoneInv(me) /\ [Next]_vars => [\A e \in Emails :
          (/\ row[Store][e] # Absent /\ row[Store][e].status = Auth!Blocked
           /\ row'[Store][e].status # Auth!Blocked) =>
              \E t \in Threads :
                  /\ call[t].email = e
                  /\ call'[t] # call[t]
                  /\ call[t].op \in {"forgot", "unblock", "activate", "deactivate"}]_vars
    BY <1>3
  <1> QED
    BY <1>1, <1>2, <1>4, InvHolds, PTL DEF Spec, BlockedStaysBlocked
----------------------------------------------------------------------------
(* The promise, for one thread on a driver that answers.                   *)

\* What the lone call c has learnt of its account, for as long as it goes on.
Knows(c) ==
    LET v == row[Store][c.email] IN
    /\ c.op # "none"
    /\ c.pc = "create user" => c.op = "create"
    /\ c.pc = "reset write" => c.op = "reset"
    /\ c.op \in {"check", "change", "count"} => v # Absent /\ v.status # Auth!New
    /\ c.pc \in {"clear active", "clear", "change write"} => v.status = Auth!Active

\* A frame may say of a blocked account that it is active, but not of a new one.
NewUnseen(e) ==
    frame[Store][e]["status"] = Auth!Active => row[Store][e].status # Auth!New

KnowsInv(me) ==
    /\ call[me].pc # "idle" => Knows(call[me])
    /\ \A e \in Emails : NewUnseen(e)

LEMMA QuietUnseen ==
  ASSUME Inv, Quiet, NEW e \in Emails, NewUnseen(e)
  PROVE  NewUnseen(e)'
  <1>1. row' = row
    BY DEF Quiet
  <1>2. \/ frame'[Store][e]["status"] \in {NoFrame, frame[Store][e]["status"]}
        \/ row[Store][e] # Absent /\ frame'[Store][e]["status"] = row[Store][e]["status"]
    <2>1. "status" \in Sql!Paths /\ "status" # Root
      BY Paths
    <2>2. row[Store][e] # Absent => row[Store][e] \in Auth!Account /\ row[Store][e] \in Sql!Row
      BY NumbersOf, AccountIsRow
    <2>3. row[Store][e] # Absent => Sql!Find(row[Store][e], "status") = row[Store][e]["status"]
      BY <2>1, <2>2 DEF Sql!Find
    <2> QED
      BY <2>1, <2>3 DEF Quiet, FramesFresh
  <1>3. row[Store][e] # Absent => row[Store][e]["status"] = row[Store][e].status
    BY NumbersOf, AccountIsRow
  <1>4. NoFrame # Auth!Active /\ Auth!Active # Auth!New
    BY Numbers, SentinelAssumption
  <1> QED
    BY <1>1, <1>2, <1>3, <1>4 DEF NewUnseen

\* A lone call finds an account active, in a frame or in the row, only if it is not new.
LEMMA ActiveIsNotNew ==
  ASSUME Inv, NEW e \in Emails, NewUnseen(e), FieldSeen(e, "status", TRUE).status = Auth!Active
  PROVE  row[Store][e] # Absent /\ row[Store][e].status # Auth!New
  <1> DEFINE x == ValueSeen(e, "status", TRUE)
  <1>1. "status" \in Fields
    BY DEF Fields
  <1>2. /\ FieldSeen(e, "status", TRUE) = Auth!Field("status", x)
        /\ x # Absent => row[Store][e] # Absent
        /\ row[Store][e] # Absent =>
              \/ frame[Store][e]["status"] # NoFrame /\ x = frame[Store][e]["status"]
              \/ x = row[Store][e]["status"]
    BY <1>1, FieldSeenIs DEF Inv
  <1> HIDE DEF x
  <1>3. x = Auth!Active
    BY <1>2 DEF Auth!Field, Auth!NoUser
  <1>4. row[Store][e] # Absent
    BY <1>2, <1>3, Numbers, SentinelAssumption
  <1>5. row[Store][e]["status"] = row[Store][e].status
    BY <1>4, NumbersOf, AccountIsRow
  <1> QED
    BY <1>2, <1>3, <1>4, <1>5, Numbers DEF NewUnseen

\* What is left when a step has ended the call or let it go on.
LEMMA KnowsOn ==
  ASSUME Inv, Quiet, NEW me \in Threads, KnowsInv(me), NEW d, d = call'[me],
         d.pc # "idle" => Knows(d)
  PROVE  KnowsInv(me)'
  <1>1. row' = row
    BY DEF Quiet
  <1>2. \A e \in Emails : NewUnseen(e)'
    BY QuietUnseen DEF KnowsInv
  <1>3. d.pc # "idle" => Knows(d)'
    BY <1>1 DEF Knows
  <1> QED
    BY <1>2, <1>3 DEF KnowsInv

\* A call that begins names its operation.
LEMMA StartKnows ==
  ASSUME Inv, NEW me \in Threads, KnowsInv(me), NEW e \in Emails, Start(me, e, TRUE)
  PROVE  call'[me].pc # "idle" => Knows(call'[me])
  <1>1. PICK d : d = call'[me]
    OBVIOUS
  <1>2. \A c : call' = [call EXCEPT ![me] = c] => d = c
    BY <1>1 DEF Inv, CallsOK
  <1>3. CASE \E w \in {RowSeen(e, TRUE)} : StartsOnRow(me, e, w) /\ ReadRow(e, TRUE)
    <2>1. PICK u : StartsOnRow(me, e, u)
      BY <1>3
    <2>2. ASSUME NEW pw \in Passwords, Seeing(u)!CreateExists(me, e, pw, TRUE)
          PROVE  Knows(d)
      <3>1. d = Auth!Calling("create", "create user", e, pw, Absent)
        BY <1>2, <2>2 DEF Seeing!CreateExists, Seeing!Become, Seeing!Calling, Seeing!NoUser,
                          Auth!Calling, Auth!NoUser
      <3> QED
        BY <3>1 DEF Knows, Auth!Calling
    <2>3. ASSUME Seeing(u)!ResetRead(me, e, TRUE)
          PROVE  Knows(d)
      <3>1. d = [Auth!Calling("reset", "reset write", e, Absent, Absent) EXCEPT !.v = u]
        BY <1>2, <2>3 DEF Seeing!ResetRead, Seeing!Become, Seeing!Calling, Seeing!NoUser,
                          Auth!Calling, Auth!NoUser
      <3> QED
        BY <3>1 DEF Knows, Auth!Calling
    <2>4. ASSUME NEW new \in Passwords, Seeing(u)!ForgotExists(me, e, new, TRUE)
          PROVE  Knows(d)
      <3>1. d = Auth!Calling("forgot", "forgot write", e, Absent, new)
        BY <1>2, <2>4 DEF Seeing!ForgotExists, Seeing!Become, Seeing!Calling, Seeing!NoUser,
                          Auth!Calling, Auth!NoUser
      <3> QED
        BY <3>1 DEF Knows, Auth!Calling
    <2> QED
      BY <1>1, <2>1, <2>2, <2>3, <2>4 DEF StartsOnRow
  <1>4. CASE \E w \in {FieldSeen(e, "status", TRUE)} :
                StartsOnStatus(me, e, w) /\ ReadField(e, "status", TRUE)
    <2>1. PICK s : s = FieldSeen(e, "status", TRUE) /\ StartsOnStatus(me, e, s)
      BY <1>4
    <2>2. s.status = Auth!Active => row[Store][e] # Absent /\ row[Store][e].status # Auth!New
      BY <2>1, ActiveIsNotNew DEF KnowsInv
    <2>3. ASSUME NEW op \in {"check", "change"}, NEW pw, NEW new,
                 Seeing(s)!CheckActive(me, op, e, pw, new, TRUE)
          PROVE  Knows(d)
      <3>1. s.status = Auth!Active /\ d = Auth!Calling(op, "exists", e, pw, new)
        BY <1>2, <2>3 DEF Seeing!CheckActive, Seeing!Become, Seeing!Calling, Seeing!Found,
                          Seeing!NoUser, Seeing!Active, Auth!Calling, Auth!NoUser, Auth!Active
      <3> QED
        BY <2>2, <3>1 DEF Knows, Auth!Calling
    <2>4. ASSUME NEW n, Seeing(s)!SetAttempts(me, e, n, TRUE)
          PROVE  Knows(d)
      <3>1. /\ s.status = Auth!Active
            /\ d = [Auth!Calling("count", "count write", e, Absent, Absent) EXCEPT !.n = n]
        BY <1>2, <2>4 DEF Seeing!SetAttempts, Seeing!Become, Seeing!Calling, Seeing!Found,
                          Seeing!NoUser, Seeing!Active, Auth!Calling, Auth!NoUser, Auth!Active
      <3> QED
        BY <2>2, <3>1 DEF Knows, Auth!Calling
    <2> QED
      BY <1>1, <2>1, <2>3, <2>4 DEF StartsOnStatus
  <1> QED
    BY <1>3, <1>4 DEF Start

LEMMA EnterKnows ==
  ASSUME Inv, NEW me \in Threads, NEW e \in Emails, Enter(me, e)
  PROVE  Knows(call'[me])
  <1>1. PICK d : d = call'[me]
    OBVIOUS
  <1>2. \A c : call' = [call EXCEPT ![me] = c] => d = c
    BY <1>1 DEF Inv, CallsOK
  <1>3. PICK op \in {"block", "unblock", "activate", "deactivate"}, pc \in {"block read", "set active"} :
           call' = [call EXCEPT ![me] = Auth!Calling(op, pc, e, Absent, Absent)]
    BY DEF Enter, Auth!BlockCall, Auth!ActiveCall, Auth!Become
  <1>4. d = Auth!Calling(op, pc, e, Absent, Absent)
    BY <1>2, <1>3
  <1>5. Knows(d)
    BY <1>4 DEF Knows, Auth!Calling
  <1> QED
    BY <1>1, <1>5

LEMMA HashesKnows ==
  ASSUME Inv, NEW me \in Threads, Hashes(me, TRUE), call'[me].pc # "idle"
  PROVE  Knows(call'[me]) /\ call[me].pc = "idle"
  <1>1. PICK d : d = call'[me]
    OBVIOUS
  <1>2. \A c : call' = [call EXCEPT ![me] = c] => d = c
    BY <1>1 DEF Inv, CallsOK
  <1>3. CASE Auth!CreateHash(me, TRUE) \/ Auth!ResetHash(me, TRUE)
    <2>1. d = Auth!NoCall
      BY <1>2, <1>3 DEF Auth!CreateHash, Auth!ResetHash, Auth!SaveHash, Auth!Finish, Auth!Become
    <2> QED
      BY <1>1, <2>1 DEF Auth!NoCall, Auth!Calling
  <1>4. CASE \E h \in Auth!HashType : Auth!VerifyHash(me, h)
    <2>1. PICK h \in Auth!HashType : Auth!VerifyHash(me, h)
      BY <1>4
    <2>2. d = Auth!Calling("verify", "verify user", h[2], Absent, Absent) /\ call[me].pc = "idle"
      BY <1>2, <2>1 DEF Auth!VerifyHash, Auth!Become, Auth!Ready
    <2>3. Knows(d)
      BY <2>2 DEF Knows, Auth!Calling
    <2> QED
      BY <1>1, <2>2, <2>3
  <1> QED
    BY <1>3, <1>4 DEF Hashes

\* What a call goes on with: its own operation and account.
GoesOn(d, c) == d.op = c.op /\ d.email = c.email

\* A read of a lone call tells it what it goes by.
LEMMA ReadKnows ==
  ASSUME Inv, NEW me \in Threads, LoneInv(me), KnowsInv(me), Read(me, TRUE)
  PROVE  call'[me].pc # "idle" => Knows(call'[me]) /\ GoesOn(call'[me], call[me])
  <1>0. PICK c : c = call[me]
    OBVIOUS
  <1> DEFINE e == c.email
             v == row[Store][e]
  <1>1. PICK d : d = call'[me]
    OBVIOUS
  <1>2. c.pc # "idle" /\ c \in Auth!CallType /\ Working(c, row[Store]) /\ e \in Emails /\ Fits(c) /\ Knows(c)
    BY <1>0, StepIs DEF Read, Auth!Ready, Inv, LoneInv, KnowsInv
  <1>3. \A x : call' = [call EXCEPT ![me] = x] => d = x
    BY <1>1 DEF Inv, CallsOK
  <1>4. \A pc \in Auth!Steps : call' = [call EXCEPT ![me].pc = pc] =>
           d.pc = pc /\ GoesOn(d, c)
    BY <1>0, <1>1, LoneGoes DEF GoesOn
  <1>5. call' = [call EXCEPT ![me] = Auth!NoCall] => d.pc = "idle"
    BY <1>1, LoneCounts
  <1>6. ASSUME GoesOn(d, c),
               d.pc \in {"authorize", "fail active", "fail count", "count active", "count write",
                         "block read", "block write", "activate"}
        PROVE  Knows(d)
    BY <1>2, <1>6 DEF Knows, GoesOn
  <1>7. ASSUME GoesOn(d, c), v.status = Auth!Active,
               d.pc \in {"clear active", "clear", "change write"}
        PROVE  Knows(d)
    BY <1>2, <1>7 DEF Knows, GoesOn
  <1>8. SUFFICES \/ d.pc = "idle"
                 \/ /\ GoesOn(d, c)
                    /\ \/ d.pc \in {"authorize", "fail active", "fail count", "count active", "count write",
                                    "block read", "block write", "activate"}
                       \/ v.status = Auth!Active /\ d.pc \in {"clear active", "clear", "change write"}
    BY <1>0, <1>1, <1>6, <1>7
  <1>9. ASSUME NEW u, u = RowSeen(e, TRUE), GoesOnRow(me, u)
        PROVE  \/ d.pc = "idle"
               \/ /\ GoesOn(d, c)
                  /\ \/ d.pc \in {"authorize", "fail active", "block write", "activate"}
                     \/ v.status = Auth!Active /\ d.pc = "clear active"
    <2>1. CASE Seeing(u)!CheckExists(me, TRUE)
      <3>1. PICK pc \in {"authorize", "fail active"} : call' = [call EXCEPT ![me].pc = pc]
        BY <1>0, <1>2, <2>1, CheckExistsDoes
      <3> QED
        BY <1>4, <3>1 DEF Auth!Steps
    <2>2. CASE Seeing(u)!Authorize(me, TRUE)
      <3>1. call' = [call EXCEPT ![me].pc =
                        IF Auth!Authorizes(u, c.password) THEN "clear active" ELSE "fail active"]
        BY <1>0, <1>2, <2>2, AuthorizeDoes
      <3>2. CASE Auth!Authorizes(u, c.password)
        <4>1. d.pc = "clear active" /\ GoesOn(d, c)
          BY <1>4, <3>1, <3>2 DEF Auth!Steps
        <4>2. u.status = Auth!Active
          BY <3>2 DEF Auth!Authorizes
        <4>3. c.pc = "authorize"
          BY <1>0, <1>2, <2>2, AuthorizeDoes
        <4>4. v # Absent
          BY <1>2, <4>3 DEF Working
        <4>5. u = v
          BY <1>2, <1>9, <4>4, RowSeenIs DEF Inv
        <4> QED
          BY <4>1, <4>2, <4>5
      <3>3. CASE ~Auth!Authorizes(u, c.password)
        BY <1>4, <3>1, <3>3 DEF Auth!Steps
      <3> QED
        BY <3>2, <3>3
    <2>3. CASE Seeing(u)!BlockRead(me, TRUE)
      <3>1. CASE call' = [call EXCEPT ![me] = Auth!NoCall]
        BY <1>5, <3>1
      <3>2. ASSUME NEW w, call' = [call EXCEPT ![me] =
                        [Auth!Calling(c.op, "block write", e, Absent, Absent) EXCEPT !.v = w]]
            PROVE  d.pc = "block write" /\ GoesOn(d, c)
        <4>1. d = [Auth!Calling(c.op, "block write", e, Absent, Absent) EXCEPT !.v = w]
          BY <1>3, <3>2
        <4> QED
          BY <4>1 DEF Auth!Calling, GoesOn
      <3> QED
        BY <1>0, <1>2, <2>3, <3>1, <3>2, BlockReadDoes
    <2>4. CASE Seeing(u)!VerifyUser(me, TRUE)
      <3>1. \/ call' = [call EXCEPT ![me] = Auth!NoCall]
            \/ call' = [call EXCEPT ![me].pc = "activate"]
        BY <1>0, <1>2, <2>4, VerifyUserDoes
      <3> QED
        BY <1>4, <1>5, <3>1 DEF Auth!Steps
    <2> QED
      BY <1>9, <2>1, <2>2, <2>3, <2>4 DEF GoesOnRow
  <1>10. ASSUME NEW u, GoesOnStatus(me, u)
         PROVE  \/ d.pc = "idle"
                \/ /\ GoesOn(d, c)
                   /\ \/ d.pc \in {"fail count", "count write"}
                      \/ v.status = Auth!Active /\ d.pc \in {"clear", "change write"}
    <2>1. CASE Seeing(u)!ClearActive(me, TRUE)
      <3>1. /\ c.pc = "clear active"
            /\ \/ call' = [call EXCEPT ![me].pc = "clear"]
               \/ call' = [call EXCEPT ![me].pc = "change write"]
               \/ call' = [call EXCEPT ![me] = Auth!NoCall]
        BY <1>0, <1>2, <2>1, ClearActiveDoes
      <3>2. v.status = Auth!Active
        BY <1>2, <3>1 DEF Knows
      <3> QED
        BY <1>4, <1>5, <3>1, <3>2 DEF Auth!Steps
    <2>2. CASE Seeing(u)!FailActive(me, TRUE)
      <3>1. \/ call' = [call EXCEPT ![me].pc = "fail count"]
            \/ call' = [call EXCEPT ![me] = Auth!NoCall]
        BY <1>0, <1>2, <2>2, FailActiveDoes
      <3> QED
        BY <1>4, <1>5, <3>1 DEF Auth!Steps
    <2>3. CASE Seeing(u)!CountActive(me, TRUE)
      <3>1. \/ call' = [call EXCEPT ![me].pc = "count write"]
            \/ call' = [call EXCEPT ![me] = Auth!NoCall]
        BY <1>0, <1>2, <2>3, CountActiveDoes
      <3> QED
        BY <1>4, <1>5, <3>1 DEF Auth!Steps
    <2> QED
      BY <1>10, <2>1, <2>2, <2>3 DEF GoesOnStatus
  <1>11. ASSUME NEW u, Seeing(u)!FailCount(me, TRUE)
         PROVE  d.pc = "idle" \/ (GoesOn(d, c) /\ d.pc \in {"block read", "count active"})
    <2>1. ASSUME NEW pc, NEW n, call' = [call EXCEPT ![me] =
                        [Auth!Calling(c.op, pc, e, Absent, Absent) EXCEPT !.n = n]]
          PROVE  d.pc = pc /\ GoesOn(d, c)
      <3>1. d = [Auth!Calling(c.op, pc, e, Absent, Absent) EXCEPT !.n = n]
        BY <1>3, <2>1
      <3> QED
        BY <3>1 DEF Auth!Calling, GoesOn
    <2>2. \/ call' = [call EXCEPT ![me] = Auth!NoCall]
          \/ \E pc \in {"block read", "count active"} : \E n :
                call' = [call EXCEPT ![me] =
                            [Auth!Calling(c.op, pc, e, Absent, Absent) EXCEPT !.n = n]]
      BY <1>0, <1>2, <1>11, FailCountDoes
    <2> QED
      BY <1>5, <2>1, <2>2
  <1>12. CASE \E u \in {RowSeen(e, TRUE)} : GoesOnRow(me, u) /\ ReadRow(e, TRUE)
    BY <1>9, <1>12
  <1>13. CASE \E u \in {FieldSeen(e, "status", TRUE)} :
                 GoesOnStatus(me, u) /\ ReadField(e, "status", TRUE)
    BY <1>10, <1>13
  <1>14. CASE \E u \in {FieldSeen(e, "attempts", TRUE)} :
                 Seeing(u)!FailCount(me, TRUE) /\ ReadField(e, "attempts", TRUE)
    BY <1>11, <1>14
  <1> QED
    BY <1>0, <1>12, <1>13, <1>14 DEF Read

\* The call after a write.
LEMMA WriteGoesOn ==
  ASSUME Inv, NEW me \in Threads, KnowsInv(me), Write(me, TRUE)
  PROVE  LET c == call[me]
             d == call'[me] IN
         \/ d.pc = "idle"
         \/ /\ GoesOn(d, c)
            /\ \/ c.pc = "create user" /\ d.pc = "create hash"
               \/ c.pc = "reset write" /\ d.pc = "reset hash"
               \/ c.pc = "clear" /\ c.op = "change" /\ d.pc = "change write"
  <1>0. PICK c : c = call[me]
    OBVIOUS
  <1>1. PICK d : d = call'[me]
    OBVIOUS
  <1>2. call' = [call EXCEPT ![me] = Auth!NoCall] => d.pc = "idle"
    BY <1>1, LoneCounts
  <1>3. \A pc \in Auth!Steps : call' = [call EXCEPT ![me].pc = pc] =>
           d.pc = pc /\ GoesOn(d, c)
    BY <1>0, <1>1, LoneGoes DEF GoesOn
  <1>4. PICK ok : \/ AfterRowStored(me, ok) \/ AfterStatusStored(me, ok) \/ AfterCountStored(me, ok)
    BY DEF Write
  <1>5. CASE Auth!CreateUser(me, ok)
    <2>1. /\ c.pc = "create user"
          /\ \/ call' = [call EXCEPT ![me].pc = "create hash"]
             \/ call' = [call EXCEPT ![me] = Auth!NoCall]
      BY <1>0, <1>5 DEF Auth!CreateUser, Auth!At, Auth!Goto, Auth!Finish, Auth!Become
    <2> QED
      BY <1>0, <1>1, <1>2, <1>3, <2>1 DEF Auth!Steps
  <1>6. CASE Auth!ResetWrite(me, ok)
    <2>1. /\ c.pc = "reset write"
          /\ \/ call' = [call EXCEPT ![me] = Auth!Calling("reset", "reset hash", c.email, Absent, Absent)]
             \/ call' = [call EXCEPT ![me] = Auth!NoCall]
      BY <1>0, <1>6 DEF Auth!ResetWrite, Auth!At, Auth!Finish, Auth!Become
    <2>2. c.op = "reset"
      BY <1>0, <2>1 DEF KnowsInv, Knows
    <2>3. ASSUME call' = [call EXCEPT ![me] = Auth!Calling("reset", "reset hash", c.email, Absent, Absent)]
          PROVE  d.pc = "reset hash" /\ GoesOn(d, c)
      <3>1. d = Auth!Calling("reset", "reset hash", c.email, Absent, Absent)
        BY <1>1, <2>3 DEF Inv, CallsOK
      <3> QED
        BY <2>2, <3>1 DEF GoesOn, Auth!Calling
    <2> QED
      BY <1>0, <1>1, <1>2, <2>1, <2>3
  <1>7. CASE Auth!Clear(me, ok)
    <2>1. /\ c.pc = "clear"
          /\ \/ c.op = "change" /\ call' = [call EXCEPT ![me].pc = "change write"]
             \/ call' = [call EXCEPT ![me] = Auth!NoCall]
      BY <1>0, <1>7 DEF Auth!Clear, Auth!Succeed, Auth!At, Auth!Goto, Auth!Finish, Auth!Become
    <2> QED
      BY <1>0, <1>1, <1>2, <1>3, <2>1 DEF Auth!Steps
  <1>8. CASE \/ Auth!ForgotWrite(me, ok) \/ Auth!ChangeWrite(me, ok) \/ Auth!BlockWrite(me, ok)
             \/ Auth!Activate(me, ok) \/ Auth!SetActive(me, ok) \/ Auth!CountWrite(me, ok)
    <2>1. call' = [call EXCEPT ![me] = Auth!NoCall]
      BY <1>8 DEF Auth!ForgotWrite, Auth!ChangeWrite, Auth!BlockWrite, Auth!Activate,
         Auth!SetActive, Auth!SetStatus, Auth!CountWrite, Auth!Finish, Auth!Become
    <2> QED
      BY <1>1, <1>2, <2>1
  <1> QED
    BY <1>4, <1>5, <1>6, <1>7, <1>8 DEF AfterRowStored, AfterStatusStored, AfterCountStored

\* The accounts of Accounts are the rows.
LEMMA PromisedIs ==
  ASSUME Inv, NEW e \in Emails, row[Store][e] # Absent
  PROVE  /\ AccountAt(e) = row[Store][e] /\ row[Store][e] \in Auth!Account
         /\ row[Store][e] # Auth!NoUser
         /\ \A s : Promise!Is(e, s) <=> row[Store][e].status = s
  BY AccountIsRow DEF Inv, RowsOK, AccountAt, Promise!Is

LEMMA PromisedNumbers ==
  /\ Promise!New = Auth!New /\ Promise!Active = Auth!Active /\ Promise!Blocked = Auth!Blocked
  /\ Promise!Account = Auth!Account
  BY DEF Promise!New, Promise!Active, Promise!Blocked, Auth!New, Auth!Active, Auth!Blocked,
         Promise!Account, Auth!Account

LEMMA ChangedIs ==
  ASSUME NEW v \in Auth!Account, NEW pw
  PROVE  [v EXCEPT !.password = pw, !.attempts = 0] =
            [password |-> pw, status |-> v.status, attempts |-> 0]
  <1> DEFINE w == [v EXCEPT !.password = pw]
  <1>1. w = [f \in Fields |-> IF f = "password" THEN pw ELSE v[f]]
    BY DEF Auth!Account, Fields
  <1> HIDE DEF w
  <1>2. [w EXCEPT !.attempts = 0] = [f \in Fields |-> IF f = "attempts" THEN 0 ELSE w[f]]
    BY <1>1
  <1>3. [w EXCEPT !.attempts = 0] = [password |-> pw, status |-> v.status, attempts |-> 0]
    BY <1>1, <1>2 DEF Auth!Account, Fields
  <1> QED
    BY <1>3 DEF w

\* The rows that a lone call stores are those that Accounts promises.
LEMMA LoneWritePromised ==
  ASSUME Inv, NEW me \in Threads, LoneInv(me), KnowsInv(me),
         call[me].pc \in RowSteps \cup StatusSteps \cup CountSteps
  PROVE  LET c == call[me]
             e == c.email
             v == row[Store][e]
             new == NewRowOf(e, PathOf(c), ValOf(c)) IN
         /\ (v # Absent /\ new = v) \/ Promise!Becomes(c.op, e, new)
         /\ PathOf(c) # "status" /\ new.status = Auth!New => v = Absent \/ v.status = Auth!New
         /\ c.pc = "clear" => new.status = Auth!Active
         /\ PathOf(c) = "status" => new.status = ValOf(c)
  <1>0. PICK c : c = call[me]
    OBVIOUS
  <1> DEFINE e == c.email
             v == row[Store][e]
             p == PathOf(c)
             val == ValOf(c)
             new == NewRowOf(e, p, val)
             kept == p # "status" /\ new.status = Auth!New => v = Absent \/ v.status = Auth!New
  <1>1. /\ c \in Auth!CallType /\ Working(c, row[Store]) /\ e \in Emails /\ Current(c) /\ Fits(c)
        /\ Storable(e, p, val) /\ Knows(c)
    BY <1>0, StepIs, StoresStorable DEF Inv, LoneInv, KnowsInv, RowSteps, StatusSteps, CountSteps
  <1>2. new \in Auth!Account
    BY <1>1, NewRowIsAccount DEF Inv
  <1>3. v # Absent => /\ v \in Auth!Account /\ AccountAt(e) = v
                      /\ v.attempts # Absent => v.attempts \in Nat
                      /\ v.password # Absent => v.attempts # Absent
                      /\ AccountAt(e) # Auth!NoUser
                      /\ \A s : Promise!Is(e, s) <=> v.status = s
    BY <1>1, NumbersOf, PromisedIs
  <1>4. SUFFICES /\ (v # Absent /\ new = v) \/ Promise!Becomes(c.op, e, new)
                 /\ kept
                 /\ c.pc = "clear" => new.status = Auth!Active
                 /\ p = "status" => new.status = val
    BY <1>0
  <1> HIDE DEF p, val, new
  <1>5. CASE c.pc \in RowSteps
    <2>1. p = Root /\ val = RowToStore(c) /\ new = Auth!Merge(AccountAt(e), val)
          /\ c.pc # "clear" /\ p # "status"
      BY <1>5, Paths DEF PathOf, ValOf, RowSteps, StatusSteps, NewRowOf, FieldsOf, p, val, new
    <2>2. CASE c.pc = "create user"
      <3>1. /\ v = Absent /\ c.op = "create" /\ c.password \in Passwords
            /\ val = [password |-> c.password, status |-> Auth!New, attempts |-> 0]
        BY <1>1, <2>1, <2>2 DEF Current, Knows, Working, RowToStore
      <3>2. AccountAt(e) = Auth!NoUser
        BY <3>1 DEF AccountAt
      <3>3. val \in Auth!Account
        BY <3>1, Numbers, SentinelAssumption
        DEF Auth!Account, Counts, Auth!New, Auth!Active, Auth!Blocked
      <3>4. new = val
        BY <2>1, <3>2, <3>3, MergeOfSame
      <3>5. Promise!Becomes(c.op, e, new)
        BY <1>1, <3>1, <3>2, <3>4, PromisedNumbers DEF Promise!Becomes
      <3> QED
        BY <2>1, <3>1, <3>5
    <2>3. CASE c.pc = "forgot write"
      <3>1. /\ v # Absent /\ c.op = "forgot" /\ c.new \in Passwords
            /\ val = [password |-> c.new, status |-> Auth!Active, attempts |-> 0]
        BY <1>1, <2>1, <2>3 DEF Working, RowToStore
      <3>2. val.password # Absent /\ val.status # Absent /\ val.attempts # Absent
        BY <3>1, SentinelAssumption, Numbers
      <3>3. new = val
        BY <2>1, <3>1, <3>2 DEF Auth!Merge
      <3>4. Promise!Becomes(c.op, e, new)
        BY <1>1, <1>3, <3>1, <3>3, PromisedNumbers DEF Promise!Becomes
      <3>5. new.status # Auth!New
        BY <3>1, <3>3, Numbers
      <3> QED
        BY <2>1, <3>4, <3>5
    <2>4. CASE c.pc = "change write"
      <3>1. /\ v # Absent /\ c.op = "change" /\ c.new \in Passwords /\ v.status = Auth!Active
            /\ val = [password |-> c.new, status |-> Absent, attempts |-> 0]
            /\ v.password # Absent
        BY <1>1, <2>1, <2>4 DEF Working, RowToStore, Knows, Current, Auth!ChangedFields
      <3>2. new = [password |-> c.new, status |-> v.status, attempts |-> 0]
        BY <1>3, <2>1, <3>1, SentinelAssumption, Numbers DEF Auth!Merge
      <3>3. new = [v EXCEPT !.password = c.new, !.attempts = 0]
        BY <1>3, <3>1, <3>2, ChangedIs
      <3>4. Promise!Becomes(c.op, e, new)
        BY <1>1, <1>3, <3>1, <3>3, PromisedNumbers DEF Promise!Becomes
      <3> QED
        BY <2>1, <3>1, <3>2, <3>4
    <2>5. CASE c.pc = "reset write"
      <3>1. v # Absent /\ val = v
        BY <1>1, <2>1, <2>5 DEF Working, Current, RowToStore
      <3>2. new = v
        BY <1>3, <2>1, <3>1, MergeOfSame
      <3> QED
        BY <2>1, <3>1, <3>2
    <2>6. CASE c.pc = "block write"
      <3>1. /\ v # Absent /\ c.op \in {"check", "change", "block", "unblock"}
            /\ val = [v EXCEPT !.status =
                         IF c.op = "unblock" THEN Auth!Active ELSE Auth!Blocked]
            /\ val \in Auth!Account
        BY <1>1, <2>1, <2>6 DEF Working, Current, RowToStore
      <3>2. new = val
        <4>1. val.status # Absent /\ val.password = v.password /\ val.attempts = v.attempts
          BY <1>3, <3>1, AccountIsRow DEF Auth!Account
        <4>2. Auth!Merge(AccountAt(e), val) =
                 [password |-> val.password, status |-> val.status, attempts |-> val.attempts]
          BY <1>3, <3>1, <4>1 DEF Auth!Merge
        <4>3. val = [password |-> val.password, status |-> val.status, attempts |-> val.attempts]
          BY <3>1 DEF Auth!Account
        <4> QED
          BY <2>1, <4>2, <4>3
      <3>3. new.status # Auth!New
        BY <1>3, <3>1, <3>2, Numbers DEF Auth!Account
      <3>4. CASE c.op \in {"block", "unblock"}
        <4>1. Promise!Becomes(c.op, e, new)
          BY <1>1, <1>3, <3>1, <3>2, <3>4, PromisedNumbers DEF Promise!Becomes
        <4> QED
          BY <2>1, <3>3, <4>1
      <3>5. CASE c.op \in {"check", "change"}
        <4>1. v.status = Auth!Active \/ v.status = Auth!Blocked
          BY <1>1, <1>3, <3>1, <3>5 DEF Knows, Auth!Account
        <4>2. Promise!Counts(e) /\ v.attempts # Absent
          BY <1>1, <1>3, <2>6, <3>1, <3>5, <4>1, PromisedNumbers DEF Promise!Counts, Current
        <4>3. Promise!Becomes(c.op, e, new)
          BY <1>1, <1>3, <3>1, <3>2, <3>5, <4>2, PromisedNumbers DEF Promise!Becomes
        <4> QED
          BY <2>1, <3>3, <4>3
      <3> QED
        BY <3>1, <3>4, <3>5
    <2> QED
      BY <1>5, <2>2, <2>3, <2>4, <2>5, <2>6 DEF RowSteps
  <1>6. CASE c.pc \in StatusSteps
    <2>1. /\ p = "status" /\ c.pc # "clear" /\ val \in Of("status")
          /\ val = IF c.op \in {"verify", "activate"} THEN Auth!Active ELSE Auth!New
      BY <1>1, <1>6, Numbers DEF PathOf, ValOf, RowSteps, StatusSteps, Working, p, val, Of, Statuses
    <2>2. v # Absent => new.status = val /\ new = [v EXCEPT !.status = val]
      <3>1. SUFFICES ASSUME v # Absent
                     PROVE  new.status = val /\ new = [v EXCEPT !.status = val]
        OBVIOUS
      <3>2. new = [v EXCEPT !["status"] = val]
        BY <1>3, <2>1, <3>1, FieldWrite DEF new
      <3> QED
        BY <1>3, <3>1, <3>2 DEF Auth!Account
    <2>3. v = Absent => new.status = val /\ new = Promise!Bare(val) /\ AccountAt(e) = Auth!NoUser
      <3>1. SUFFICES ASSUME v = Absent
                     PROVE  new.status = val /\ new = Promise!Bare(val) /\ AccountAt(e) = Auth!NoUser
        OBVIOUS
      <3>2. AccountAt(e) = Auth!NoUser
        BY <3>1 DEF AccountAt
      <3>3. new = Auth!Field("status", val)
        BY <2>1, <3>2, MergeOfNothing, Paths DEF NewRowOf, FieldsOf, new
      <3>4. new = [password |-> Absent, status |-> val, attempts |-> Absent]
        BY <3>3 DEF Auth!Field, Auth!NoUser
      <3> QED
        BY <3>2, <3>4 DEF Promise!Bare
    <2>4. new.status = val
      BY <2>2, <2>3
    <2>5. CASE c.pc = "activate"
      <3>1. c.op = "verify" /\ v.status = Auth!New /\ v # Absent
        BY <1>1, <2>5 DEF Working, Current
      <3>2. Promise!Becomes(c.op, e, new)
        BY <1>1, <1>3, <2>1, <2>2, <3>1, PromisedNumbers DEF Promise!Becomes
      <3> QED
        BY <2>1, <2>4, <3>1, <3>2
    <2>6. CASE c.pc = "set active"
      <3>1. c.op \in {"activate", "deactivate"}
        BY <1>1, <2>6 DEF Working
      <3>2. v # Absent => Promise!Becomes(c.op, e, new)
        BY <1>1, <1>3, <2>1, <2>2, <3>1, PromisedNumbers DEF Promise!Becomes
      <3>3. v = Absent => Promise!Becomes(c.op, e, new)
        BY <1>1, <2>1, <2>3, <3>1, PromisedNumbers DEF Promise!Becomes
      <3> QED
        BY <2>1, <2>4, <3>2, <3>3
    <2> QED
      BY <1>6, <2>5, <2>6 DEF StatusSteps
  <1>7. CASE c.pc \in CountSteps
    <2>1. /\ p = "attempts" /\ v # Absent /\ val = IF c.pc = "clear" THEN 0 ELSE c.n
      BY <1>1, <1>7 DEF PathOf, ValOf, RowSteps, StatusSteps, CountSteps, Working, p, val
    <2>2. c.n \in Counts /\ val \in Of("attempts")
      BY <1>1, <2>1, Numbers DEF Of, Auth!CallType, Counts
    <2>3. new = [v EXCEPT !["attempts"] = val]
      BY <1>3, <2>1, <2>2, FieldWrite DEF new
    <2>4. new.status = v.status /\ new = [v EXCEPT !.attempts = val]
      BY <1>3, <2>1, <2>3 DEF Auth!Account
    <2>5. CASE c.pc = "clear"
      <3>1. c.op \in {"check", "change"} /\ v.status = Auth!Active /\ val = 0
            /\ v.password # Absent
        BY <1>1, <2>1, <2>5 DEF Fits, Knows, Current
      <3>2. Promise!Becomes(c.op, e, new)
        BY <1>1, <1>3, <2>1, <2>4, <3>1, PromisedNumbers DEF Promise!Becomes
      <3> QED
        BY <2>1, <2>4, <3>1, <3>2
    <2>6. CASE c.pc = "count write"
      <3>1. c.op \in {"check", "change", "count"} /\ val = c.n
        BY <1>1, <2>1, <2>6 DEF Fits
      <3>2. v.status = Auth!Active \/ v.status = Auth!Blocked
        BY <1>1, <1>3, <2>1, <3>1 DEF Knows, Auth!Account
      <3>3. Promise!Counts(e)
        BY <1>3, <2>1, <3>2, PromisedNumbers DEF Promise!Counts
      <3>4. CASE c.op = "count"
        <4>1. Promise!Becomes(c.op, e, new)
          BY <1>1, <1>3, <2>1, <2>2, <2>4, <3>1, <3>3, <3>4 DEF Promise!Becomes, Counts
        <4> QED
          BY <2>1, <2>4, <2>6, <4>1
      <3>5. CASE c.op \in {"check", "change"}
        <4>1. v.attempts # Absent /\ v.attempts < c.n /\ c.n < MAX_LOGIN_ATTEMPTS
          BY <1>1, <2>6, <3>5 DEF Current
        <4>2. c.n \in 1..MAX_LOGIN_ATTEMPTS - 1 /\ c.n > v.attempts
          BY <1>3, <2>1, <2>2, <4>1, AttemptsAssumption DEF Counts
        <4>3. Promise!Becomes(c.op, e, new)
          BY <1>1, <1>3, <2>1, <2>4, <3>1, <3>3, <3>5, <4>1, <4>2 DEF Promise!Becomes
        <4> QED
          BY <2>1, <2>4, <2>6, <4>3
      <3> QED
        BY <3>1, <3>4, <3>5
    <2> QED
      BY <1>7, <2>5, <2>6 DEF CountSteps
  <1> QED
    BY <1>0, <1>1, <1>5, <1>6, <1>7

LEMMA WriteKnows ==
  ASSUME Inv, NEW me \in Threads, LoneInv(me), KnowsInv(me), Write(me, TRUE)
  PROVE  KnowsInv(me)'
  <1>0. PICK c : c = call[me]
    OBVIOUS
  <1> DEFINE e == c.email
             p == PathOf(c)
             val == ValOf(c)
             v == row[Store][e]
             new == NewRowOf(e, p, val)
  <1>1. /\ c.pc \in RowSteps \cup StatusSteps \cup CountSteps
        /\ e \in Emails /\ Storable(e, p, val)
        /\ ret'.ok \in BOOLEAN
        /\ row' = IF ret'.ok THEN [row EXCEPT ![Store][e] = new] ELSE row
        /\ v # Absent /\ v.attempts # Absent => ret'.ok
        /\ \A x \in Emails, f \in Fields :
              <<x, f>> # <<e, p>> => frame'[Store][x][f] = frame[Store][x][f]
        /\ p # Root =>
              \/ frame'[Store][e][p] = frame[Store][e][p] /\ row' = row
              \/ ret'.ok /\ frame'[Store][e][p] = val
    BY <1>0, WriteStepIs
  <1>2. /\ p # "status" /\ new.status = Auth!New => v = Absent \/ v.status = Auth!New
        /\ c.pc = "clear" => new.status = Auth!Active
        /\ p = "status" => new.status = val
    BY <1>0, <1>1, LoneWritePromised
  <1>3. Knows(c) /\ Working(c, row[Store])
    BY <1>0, <1>1, StepIs DEF KnowsInv, Inv, RowSteps, StatusSteps, CountSteps
  <1>4. /\ row' = row \/ row'[Store][e] = new
        /\ ret'.ok => row'[Store][e] = new
        /\ \A x \in Emails : x # e => row'[Store][x] = row[Store][x]
    BY <1>1 DEF Inv, RowsOK
  <1> HIDE DEF val, new
  <1>5. PICK d : d = call'[me]
    OBVIOUS
  <1>6. d.pc # "idle" => Knows(d)'
    <2>1. SUFFICES ASSUME d.pc # "idle"
                   PROVE  Knows(d)'
      OBVIOUS
    <2>2. /\ GoesOn(d, c)
          /\ \/ c.pc = "create user" /\ d.pc = "create hash"
             \/ c.pc = "reset write" /\ d.pc = "reset hash"
             \/ c.pc = "clear" /\ c.op = "change" /\ d.pc = "change write"
      BY <1>0, <1>5, <2>1, WriteGoesOn
    <2>3. CASE d.pc = "create hash"
      BY <1>3, <2>2, <2>3 DEF Knows, GoesOn
    <2>4. CASE d.pc = "reset hash"
      BY <1>3, <2>2, <2>4 DEF Knows, GoesOn
    <2>5. CASE d.pc = "change write"
      <3>1. v # Absent /\ c.pc = "clear" /\ d.op = "change" /\ d.email = e
        BY <1>3, <2>2, <2>5 DEF Working, GoesOn
      <3>a. v.password # Absent
        BY <1>0, <3>1 DEF LoneInv, Current
      <3>b. v.attempts # Absent
        BY <1>1, <3>1, <3>a, NumbersOf
      <3>2. row'[Store][e] = new /\ new.status = Auth!Active
        BY <1>1, <1>2, <1>4, <3>1, <3>b
      <3>3. new # Absent
        BY <1>0, <1>1, <3>1, NewRowFits, AccountIsRow DEF new, p, val
      <3>4. LET w == row'[Store][d.email] IN
            w # Absent /\ w.status = Auth!Active /\ w.status # Auth!New
        BY <3>1, <3>2, <3>3, Numbers
      <3> HIDE DEF e, v, p
      <3> QED
        BY <2>5, <3>1, <3>4 DEF Knows
    <2> QED
      BY <2>2, <2>3, <2>4, <2>5
  <1>7. ASSUME NEW x \in Emails
        PROVE  NewUnseen(x)'
    <2>1. NewUnseen(x)
      BY DEF KnowsInv
    <2>2. CASE x # e
      <3>1. row'[Store][x] = row[Store][x] /\ frame'[Store][x]["status"] = frame[Store][x]["status"]
        BY <1>1, <1>4, <2>2 DEF Fields
      <3> QED
        BY <2>1, <3>1 DEF NewUnseen
    <2>3. CASE x = e /\ p # "status"
      <3>1. frame'[Store][e]["status"] = frame[Store][e]["status"]
        BY <1>1, <2>3 DEF Fields
      <3>2. v = Absent => frame[Store][e]["status"] = NoFrame
        BY <1>1, Paths DEF Inv, FramesOK, FrameFits
      <3>3. NoFrame # Auth!Active
        BY Numbers, SentinelAssumption
      <3> QED
        BY <1>2, <1>4, <2>1, <2>3, <3>1, <3>2, <3>3 DEF NewUnseen
    <2>4. CASE x = e /\ p = "status"
      <3>1. p # Root
        BY <2>4, Paths
      <3>2. CASE ret'.ok /\ frame'[Store][e][p] = val
        BY <1>2, <1>4, <2>4, <3>2, Numbers DEF NewUnseen
      <3>3. CASE row' = row /\ frame'[Store][e][p] = frame[Store][e][p]
        BY <2>1, <2>4, <3>3 DEF NewUnseen
      <3> QED
        BY <1>1, <3>1, <3>2, <3>3
    <2> QED
      BY <2>2, <2>3, <2>4
  <1> QED
    BY <1>5, <1>6, <1>7 DEF KnowsInv

LEMMA KnowsSteps ==
  ASSUME NEW me, OneThread(me), Inv, LoneInv(me), KnowsInv(me), [Next]_vars
  PROVE  KnowsInv(me)'
  <1>1. me \in Threads /\ Threads = {me} /\ Answers = {TRUE}
    BY DEF OneThread
  <1>2. PICK d : d = call'[me]
    OBVIOUS
  <1>3. CASE \E e \in Emails : Start(me, e, TRUE)
    <2>1. PICK e \in Emails : Start(me, e, TRUE)
      BY <1>3
    <2>2. Quiet /\ (d.pc # "idle" => Knows(d))
      BY <1>1, <1>2, <2>1, StartIsQuiet, StartKnows
    <2> QED
      BY <1>1, <1>2, <2>2, KnowsOn
  <1>4. CASE \E e \in Emails : Enter(me, e)
    <2>1. Quiet
      BY <1>1, <1>4, EnterAdvances, StillIsQuiet DEF Inv
    <2>2. Knows(d)
      BY <1>1, <1>2, <1>4, EnterKnows
    <2> QED
      BY <1>1, <1>2, <2>1, <2>2, KnowsOn
  <1>5. CASE Read(me, TRUE)
    <2>1. Quiet /\ (d.pc # "idle" => Knows(d))
      BY <1>1, <1>2, <1>5, ReadIsQuiet, ReadKnows
    <2> QED
      BY <1>1, <1>2, <2>1, KnowsOn
  <1>6. CASE Hashes(me, TRUE)
    <2>1. Quiet
      BY <1>1, <1>6, HashesAdvances, StillIsQuiet DEF Inv
    <2>2. d.pc # "idle" => Knows(d)
      BY <1>1, <1>2, <1>6, HashesKnows
    <2> QED
      BY <1>1, <1>2, <2>1, <2>2, KnowsOn
  <1>7. CASE Elsewhere \/ Forget \/ Restart \/ UNCHANGED vars
    <2>1. Quiet /\ call' = call
      BY <1>7, ElsewhereIsQuiet, StillIsQuiet DEF auth, vars, Inv
    <2>2. d.pc # "idle" => Knows(d)
      BY <1>2, <2>1 DEF KnowsInv
    <2> QED
      BY <1>1, <1>2, <2>1, <2>2, KnowsOn
  <1> QED
    BY <1>1, <1>3, <1>4, <1>5, <1>6, <1>7, WriteKnows DEF Next

\* What the only thread is doing.
LEMMA DoingIs ==
  ASSUME NEW me, OneThread(me)
  PROVE  /\ call[me].pc = "idle" => Auth!Doing = Promise!Nothing
         /\ call[me].pc # "idle" => Auth!Doing = [op |-> call[me].op, email |-> call[me].email]
         /\ call'[me].pc = "idle" => Auth!Doing' = Promise!Nothing
         /\ call'[me].pc # "idle" => Auth!Doing' = [op |-> call'[me].op, email |-> call'[me].email]
  <1>1. Threads = {me}
    BY DEF OneThread
  <1> QED
    BY <1>1 DEF Auth!Doing, Auth!Ready, Promise!Nothing

accounts == [e \in Emails |-> AccountAt(e)]
promised == <<accounts, Auth!Doing>>

\* A step that stores nothing begins the call, goes on with it or ends it.
LEMMA QuietAsPromised ==
  ASSUME NEW me, OneThread(me), Inv, row' = row,
         NEW c, c = call[me], NEW d, d = call'[me],
         \/ d.pc = "idle"
         \/ c.pc # "idle" /\ GoesOn(d, c)
         \/ c.pc = "idle" /\ d.op \in Promise!Ops /\ d.email \in Emails
  PROVE  Promise!Next \/ UNCHANGED promised
  <1>1. accounts' = accounts
    BY DEF accounts, AccountAt
  <1>2. CASE d.pc = "idle"
    <2>1. Promise!End
      BY <1>1, <1>2, DoingIs DEF Promise!End, accounts
    <2> QED
      BY <2>1 DEF Promise!Next
  <1>3. CASE d.pc # "idle" /\ c.pc # "idle" /\ GoesOn(d, c)
    BY <1>1, <1>3, DoingIs DEF promised, GoesOn
  <1>4. CASE d.pc # "idle" /\ c.pc = "idle" /\ d.op \in Promise!Ops /\ d.email \in Emails
    <2>1. Promise!Begin
      BY <1>1, <1>4, DoingIs DEF Promise!Begin, accounts
    <2> QED
      BY <2>1 DEF Promise!Next
  <1> QED
    BY <1>2, <1>3, <1>4

\* A write is a change that Accounts promises, or stores the row as it is.
LEMMA WriteAsPromised ==
  ASSUME NEW me, OneThread(me), Inv, LoneInv(me), KnowsInv(me), Write(me, TRUE)
  PROVE  Promise!Next \/ UNCHANGED promised
  <1>0. PICK c : c = call[me]
    OBVIOUS
  <1>1. PICK d : d = call'[me]
    OBVIOUS
  <1> DEFINE e == c.email
             new == NewRowOf(e, PathOf(c), ValOf(c))
             v == row[Store][e]
  <1>2. /\ c.pc \in RowSteps \cup StatusSteps \cup CountSteps
        /\ e \in Emails /\ me \in Threads
        /\ row' = IF ret'.ok THEN [row EXCEPT ![Store][e] = new] ELSE row
    BY <1>0, WriteStepIs DEF OneThread
  <1>3. /\ (v # Absent /\ new = v) \/ Promise!Becomes(c.op, e, new)
        /\ new \in Auth!Account
    BY <1>0, <1>2, LoneWritePromised, NewRowFits
  <1>4. c.pc # "idle" /\ (d.pc = "idle" \/ GoesOn(d, c)) /\ Knows(c)
    BY <1>0, <1>1, <1>2, WriteGoesOn DEF RowSteps, StatusSteps, CountSteps, KnowsInv
  <1> HIDE DEF new
  <1>5. CASE row' = row
    BY <1>0, <1>1, <1>4, <1>5, QuietAsPromised
  <1>6. CASE row' # row /\ Promise!Becomes(c.op, e, new)
    <2>1. row' = [row EXCEPT ![Store][e] = new]
      BY <1>2, <1>6
    <2>2. /\ row'[Store][e] = new /\ new # Absent
          /\ \A x \in Emails : x # e => row'[Store][x] = row[Store][x]
      BY <1>2, <1>3, <2>1, AccountIsRow DEF Inv, RowsOK
    <2>3. accounts' = [accounts EXCEPT ![e] = new]
      BY <1>2, <2>2 DEF accounts, AccountAt
    <2>4. /\ Auth!Doing = [op |-> c.op, email |-> e]
          /\ Auth!Doing' \in {Auth!Doing, Promise!Nothing}
      BY <1>0, <1>1, <1>4, DoingIs DEF GoesOn
    <2>5. Auth!Doing.op = c.op /\ Auth!Doing.email = e /\ Auth!Doing # Promise!Nothing
      BY <1>4, <2>4 DEF Knows, Promise!Nothing
    <2>6. new \in Promise!Account /\ Promise!Becomes(Auth!Doing.op, Auth!Doing.email, new)
      BY <1>3, <1>6, <2>5, PromisedNumbers
    <2>7. Promise!Change
      BY <2>3, <2>4, <2>5, <2>6 DEF Promise!Change, accounts
    <2> QED
      BY <2>7 DEF Promise!Next
  <1>7. CASE v # Absent /\ new = v
    <2>1. row' = row
      BY <1>2, <1>7 DEF Inv, RowsOK
    <2> QED
      BY <1>5, <2>1
  <1> QED
    BY <1>3, <1>5, <1>6, <1>7

\* Every step of the only thread is a step of Accounts, or none.
LEMMA StepAsPromised ==
  ASSUME NEW me, OneThread(me), Inv, LoneInv(me), KnowsInv(me), [Next]_vars
  PROVE  Promise!Next \/ UNCHANGED promised
  <1>1. me \in Threads /\ Threads = {me} /\ Answers = {TRUE}
    BY DEF OneThread
  <1>2. PICK c : c = call[me]
    OBVIOUS
  <1>3. PICK d : d = call'[me]
    OBVIOUS
  <1>4. ASSUME Advance(me), c.pc = "idle", Knows(d), row' = row, d.pc # "idle"
        PROVE  Promise!Next \/ UNCHANGED promised
    <2>1. d.op \in Auth!Ops /\ d.op # "none" /\ d.email \in Emails
      BY <1>3, <1>4 DEF Advance, Working, Knows, Auth!CallType
    <2>2. d.op \in Promise!Ops
      BY <2>1 DEF Auth!Ops, Promise!Ops
    <2> QED
      BY <1>2, <1>3, <1>4, <2>1, <2>2, QuietAsPromised
  <1>5. ASSUME NEW e \in Emails, Start(me, e, TRUE)
        PROVE  Promise!Next \/ UNCHANGED promised
    <2>1. Advance(me) /\ c.pc = "idle" /\ row' = row /\ (d.pc # "idle" => Knows(d))
      BY <1>1, <1>2, <1>3, <1>5, StartIsQuiet, StartKnows DEF Quiet
    <2> QED
      BY <1>2, <1>3, <1>4, <2>1, QuietAsPromised
  <1>6. ASSUME NEW e \in Emails, Enter(me, e)
        PROVE  Promise!Next \/ UNCHANGED promised
    <2>1. Advance(me) /\ c.pc = "idle" /\ row' = row /\ d.pc # "idle"
      BY <1>1, <1>2, <1>3, <1>6, EnterAdvances DEF Inv
    <2>2. Knows(d)
      BY <1>1, <1>3, <1>6, EnterKnows
    <2> QED
      BY <1>4, <2>1, <2>2
  <1>7. CASE Read(me, TRUE)
    <2>1. row' = row /\ (d.pc # "idle" => GoesOn(d, c))
      BY <1>1, <1>2, <1>3, <1>7, ReadIsQuiet, ReadKnows DEF Quiet
    <2>2. c.pc # "idle"
      BY <1>2, <1>7 DEF Read, Auth!Ready
    <2> QED
      BY <1>2, <1>3, <2>1, <2>2, QuietAsPromised
  <1>8. CASE Hashes(me, TRUE)
    <2>1. Advance(me) /\ row' = row
      BY <1>1, <1>8, HashesAdvances DEF Inv
    <2>2. d.pc # "idle" => Knows(d) /\ c.pc = "idle"
      BY <1>1, <1>2, <1>3, <1>8, HashesKnows
    <2> QED
      BY <1>2, <1>3, <1>4, <2>1, <2>2, QuietAsPromised
  <1>9. CASE Elsewhere \/ Forget \/ Restart \/ UNCHANGED vars
    <2>1. row' = row /\ call' = call
      BY <1>9, ElsewhereIsQuiet DEF auth, vars, Quiet
    <2> QED
      BY <2>1 DEF promised, accounts, AccountAt, Auth!Doing, Auth!Ready
  <1> QED
    BY <1>1, <1>5, <1>6, <1>7, <1>8, <1>9, WriteAsPromised DEF Next

\* With one thread on a driver that answers, the accounts in the database are those of
\* Accounts: frames that are older than the row, their expiry and restarts of the
\* service show in nothing but counts that are higher, and blocks that are earlier,
\* than those of the calls without a cache.
THEOREM PromiseHolds ==
  ASSUME NEW me, OneThread(me)
  PROVE  Spec => PromiseKept
  <1>1. Init => LoneInv(me)
    BY LoneInit DEF OneThread
  <1>2. Inv /\ LoneInv(me) /\ [Next]_vars => LoneInv(me)'
    BY LoneSteps
  <1>3. Init => call[me].pc = "idle" /\ \A e \in Emails : row[Store][e] = Absent
                /\ frame[Store][e]["status"] = NoFrame
    BY Paths DEF Init, Auth!Init, Sql!Init, Auth!NoCall, Auth!Calling, OneThread
  <1>4. Init => KnowsInv(me)
    BY <1>3, Numbers, SentinelAssumption DEF KnowsInv, NewUnseen
  <1>5. Inv /\ LoneInv(me) /\ KnowsInv(me) /\ [Next]_vars => KnowsInv(me)'
    BY KnowsSteps
  <1>6. Init => Promise!Init
    BY <1>3, DoingIs DEF Promise!Init, AccountAt
  <1>7. Inv /\ LoneInv(me) /\ KnowsInv(me) /\ [Next]_vars => [Promise!Next]_promised
    BY StepAsPromised
  <1> QED
    BY <1>1, <1>2, <1>4, <1>5, <1>6, <1>7, InvHolds, PTL
    DEF Spec, PromiseKept, Promise!Spec, promised, accounts
=============================================================================
