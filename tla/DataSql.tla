------------------------------ MODULE DataSql ------------------------------
(***************************************************************************)
(* The SQL data driver of OPNCMS (src/module/data_sql.cpp): JSON rows kept *)
(* in one table per storage, behind the frames of the CppCMS cache, with   *)
(* the single flag storage_changed_ deciding whether a read may use them.  *)
(*                                                                         *)
(* One caller at a time: this module is about the order in which calls     *)
(* follow each other, not about calls that overlap.                        *)
(*                                                                         *)
(* Data abstraction.  A row is a JSON object with one level of scalar      *)
(* fields, or JSON null; a dotted key "k.f" is the path f of key k, the    *)
(* plain key "k" is the path Root.  Blank stands for the undefined JSON    *)
(* value and for the text "" it is printed as: string_to_json("") is       *)
(* undefined and json_to_string(undefined) is "", so both conversions are  *)
(* exact on this alphabet.  No field has the name of a key, and callers    *)
(* never pass an undefined value.                                          *)
(***************************************************************************)
EXTENDS Naturals, FiniteSets

CONSTANTS
    Storages,   \* tables: "users", "hashes", "pages", ...
    Keys,       \* row keys
    Fields,     \* second parts of dotted keys
    Vals,       \* scalar field values
    Root,       \* the path of a key without a dot
    Null,       \* JSON null, printed "null"
    Blank,      \* undefined JSON, printed ""
    NoFrame,    \* what fetch_frame finds when it fails
    NoBatch,    \* no set(storage, value) is running
    MaxBatch,   \* bound: the keys one set(storage, value) may carry
    Answers     \* the outcomes of a query: {TRUE}, or BOOLEAN if it may fail

FieldVals == Vals \cup {Null}
Row == [Fields -> FieldVals \cup {Blank}]
Paths == Fields \cup {Root}

ASSUME RootAssumption == Root \notin Fields
ASSUME KeysAssumption == IsFiniteSet(Keys) /\ MaxBatch \in Nat
ASSUME AnswersAssumption == Answers \subseteq BOOLEAN
ASSUME SentinelAssumption ==
    /\ Null # Blank /\ Null # NoFrame /\ Blank # NoFrame
    /\ Null \notin Vals /\ Blank \notin Vals /\ NoFrame \notin Vals
    /\ Null \notin Row /\ Blank \notin Row /\ NoFrame \notin Row
    /\ Vals \cap Row = {}

VARIABLES
    created,          \* [Storages -> BOOLEAN]: the table is in the database
    row,              \* the rows of the tables; Blank where there is none
    rowsFrame,        \* [Storages -> BOOLEAN]: frame "<storage>_rows" is cached
    storageFrame,     \* frame "<storage>": the text of a whole storage
    frame,            \* frames "<storage>:<key>" and "<storage>:<key>.<field>"
    storage_changed_, \* TRUE: reads must go to the database
    batch,            \* the set(storage, value) in progress
    ret               \* the last call, what it was asked and what it returned

database == <<created, row>>
cache == <<rowsFrame, storageFrame, frame>>
vars == <<created, row, rowsFrame, storageFrame, frame, storage_changed_, batch, ret>>

Idle == batch = NoBatch

\* What a call reports: its name, what it was asked for, its boolean (or "the
\* returned string is not empty") and the value it handed back.
Returns(op, s, k, p, ok, val) ==
    ret' = [op |-> op, s |-> s, k |-> k, p |-> p, ok |-> ok, val |-> val]

NothingReturned == [op |-> "none", s |-> Blank, k |-> Blank, p |-> Root,
                    ok |-> FALSE, val |-> Blank]

\* cppcms::json::value::find of one path on a row value.
Find(v, p) == IF p = Root THEN v ELSE IF v \in Row THEN v[p] ELSE Blank

\* Mutant: the object takes the place of the one that was there.
JsonSetReplaces(v, p, val) == IF p # Root THEN [v EXCEPT ![p] = val] ELSE val

\* json_set of an object over an object merges, of anything else replaces.
JsonSet(v, p, val) ==
    IF p # Root THEN [v EXCEPT ![p] = val]
    ELSE IF val \in Row
         THEN [f \in Fields |-> IF val[f] = Blank THEN v[f] ELSE val[f]]
         ELSE val

\* Mutant: the value is stored without the object around it.
NewRowBare(p, val) == val

\* json_set on a value that is not an object makes a new one.
NewRow(p, val) ==
    IF p = Root THEN val ELSE [f \in Fields |-> IF f = p THEN val ELSE Blank]

Undefined(v) == v \in {Blank, Null}

----------------------------------------------------------------------------
(* Reading one row: the common part of the two get(storage, key) and of    *)
(* the calls of them in set, erase and the batch.                          *)

Cached(s, k, p) == ~storage_changed_ /\ frame[s][k][p] # NoFrame

\* SELECT data FROM s WHERE key = k finds a row.
Selected(s, k, up) == up /\ created[s] /\ row[s][k] # Blank

\* The value a read at the root key hands to its caller.
RootValue(s, k, up) ==
    IF Cached(s, k, Root) THEN frame[s][k][Root]
    ELSE IF Selected(s, k, up) /\ row[s][k] # Null THEN row[s][k] ELSE Blank

\* The frames after that read: a row, or "" for a null row.
FrameAfterRead(s, k, up) ==
    IF Cached(s, k, Root) \/ ~Selected(s, k, up) THEN frame
    ELSE [frame EXCEPT ![s][k][Root] = IF row[s][k] = Null THEN Blank ELSE row[s][k]]

StorageFrameAfterRead(s, k, up) ==
    IF Cached(s, k, Root) \/ ~Selected(s, k, up) THEN storageFrame
    ELSE [storageFrame EXCEPT ![s] = NoFrame]

\* The json get leaves the flag alone on a null row, the string get clears it.
ChangedAfterRead(s, k, up, string) ==
    IF Cached(s, k, Root) \/ ~Selected(s, k, up) THEN storage_changed_
    ELSE IF row[s][k] = Null /\ ~string THEN storage_changed_ ELSE FALSE

\* A call that read the row and stops there.
OnlyRead(s, k, up, string) ==
    /\ frame' = FrameAfterRead(s, k, up)
    /\ storageFrame' = StorageFrameAfterRead(s, k, up)
    /\ storage_changed_' = ChangedAfterRead(s, k, up, string)
    /\ UNCHANGED <<database, rowsFrame, batch>>

----------------------------------------------------------------------------
(* exists(storage): the count is cached whatever it is, and answering from *)
(* the database sets storage_changed_.                                     *)

ExistsResult(s, up) == rowsFrame[s] \/ (up /\ created[s])
RowsFrameAfterExists(s, up) == [rowsFrame EXCEPT ![s] = ExistsResult(s, up)]
ChangedAfterExists(s, up) ==
    storage_changed_ \/ (~rowsFrame[s] /\ ExistsResult(s, up))

Exists(s, up) ==
    /\ Idle
    /\ rowsFrame' = RowsFrameAfterExists(s, up)
    /\ storage_changed_' = ChangedAfterExists(s, up)
    /\ Returns("exists", s, Blank, Root, ExistsResult(s, up), Blank)
    /\ UNCHANGED <<database, storageFrame, frame, batch>>

\* create(storage) believes any cached text of the storage.
Create(s, up) ==
    /\ Idle
    /\ \/ /\ storageFrame[s] # NoFrame
          /\ Returns("create", s, Blank, Root, TRUE, Blank)
          /\ UNCHANGED <<created, storageFrame>>
       \/ /\ storageFrame[s] = NoFrame /\ up
          /\ created' = [created EXCEPT ![s] = TRUE]
          /\ storageFrame' = [storageFrame EXCEPT ![s] = Blank]
          /\ Returns("create", s, Blank, Root, TRUE, Blank)
       \/ /\ storageFrame[s] = NoFrame /\ ~up
          /\ Returns("create", s, Blank, Root, FALSE, Blank)
          /\ UNCHANGED <<created, storageFrame>>
    /\ UNCHANGED <<row, rowsFrame, frame, storage_changed_, batch>>

----------------------------------------------------------------------------
(* get(value, storage, key) and the string get(storage, key), on which     *)
(* exists(storage, key) rests.                                             *)

GetRoot(s, k, up, string) ==
    LET v == RootValue(s, k, up) IN
    /\ Idle
    /\ OnlyRead(s, k, up, string)
    /\ Returns("get", s, k, Root, v # Blank \/ (~string /\ Cached(s, k, Root)), v)

GetFieldCached(s, k, f, string) ==
    /\ Idle
    /\ Cached(s, k, f)
    /\ Returns("get", s, k, f, ~string \/ frame[s][k][f] # Blank, frame[s][k][f])
    /\ UNCHANGED <<database, cache, storage_changed_, batch>>

GetFieldFromRow(s, k, f, up) ==
    LET v == Find(row[s][k], f) IN
    /\ Idle
    /\ ~Cached(s, k, f)
    /\ Selected(s, k, up) /\ row[s][k] # Null
    /\ \/ /\ Undefined(v)
          /\ Returns("get", s, k, f, FALSE, Blank)
          /\ UNCHANGED <<frame, storage_changed_>>
       \/ /\ ~Undefined(v)
          /\ frame' = [frame EXCEPT ![s][k][f] = v]
          /\ storage_changed_' = FALSE
          /\ Returns("get", s, k, f, TRUE, v)
    /\ UNCHANGED <<database, rowsFrame, storageFrame, batch>>

\* No row, no table or no database; or a null row, which caches "".
GetFieldNothing(s, k, f, up, string) ==
    /\ Idle
    /\ ~Cached(s, k, f)
    /\ \/ /\ ~Selected(s, k, up)
          /\ UNCHANGED <<frame, storageFrame, storage_changed_>>
       \/ /\ Selected(s, k, up) /\ row[s][k] = Null
          /\ frame' = [frame EXCEPT ![s][k][f] = Blank]
          /\ storageFrame' = [storageFrame EXCEPT ![s] = NoFrame]
          /\ storage_changed_' = (storage_changed_ /\ ~string)
    /\ Returns("get", s, k, f, FALSE, Blank)
    /\ UNCHANGED <<database, rowsFrame, batch>>

----------------------------------------------------------------------------
(* Reading a whole storage.                                                *)

Contents(s) == [k \in Keys |-> row[s][k]]
HasRows(s) == created[s] /\ \E k \in Keys : row[s][k] # Blank

\* string get(storage): every row.
GetStorageString(s, up) ==
    /\ Idle
    /\ \/ /\ ~storage_changed_ /\ storageFrame[s] # NoFrame
          /\ Returns("getall", s, Blank, Root, storageFrame[s] # Blank, storageFrame[s])
          /\ UNCHANGED <<storageFrame, storage_changed_>>
       \/ /\ storage_changed_ \/ storageFrame[s] = NoFrame
          /\ up /\ HasRows(s)
          /\ storageFrame' = [storageFrame EXCEPT ![s] = Contents(s)]
          /\ storage_changed_' = FALSE
          /\ Returns("getall", s, Blank, Root, TRUE, Contents(s))
       \/ /\ storage_changed_ \/ storageFrame[s] = NoFrame
          /\ ~(up /\ HasRows(s))
          /\ Returns("getall", s, Blank, Root, FALSE, Blank)
          /\ UNCHANGED <<storageFrame, storage_changed_>>
    /\ UNCHANGED <<database, rowsFrame, frame, batch>>

\* get(value, storage): exists() first, then the first row only.
GetStorageJson(s, up) ==
    LET changed == ChangedAfterExists(s, up) IN
    /\ Idle
    /\ rowsFrame' = RowsFrameAfterExists(s, up)
    /\ \/ /\ ExistsResult(s, up) /\ ~changed /\ storageFrame[s] # NoFrame
          /\ Returns("getall", s, Blank, Root, TRUE, storageFrame[s])
          /\ storage_changed_' = changed
          /\ UNCHANGED storageFrame
       \/ /\ ExistsResult(s, up) /\ (changed \/ storageFrame[s] = NoFrame) /\ up
          /\ \E first \in Keys :
                LET text == [k \in Keys |-> IF k = first THEN row[s][k] ELSE Blank] IN
                /\ created[s] /\ row[s][first] # Blank
                /\ storageFrame' = [storageFrame EXCEPT ![s] = text]
                /\ Returns("getall", s, Blank, Root, TRUE, text)
          /\ storage_changed_' = FALSE
       \/ /\ ExistsResult(s, up) =>
                ((changed \/ storageFrame[s] = NoFrame) /\ ~(up /\ HasRows(s)))
          /\ Returns("getall", s, Blank, Root, FALSE, Blank)
          /\ storage_changed_' = changed
          /\ UNCHANGED storageFrame
    /\ UNCHANGED <<database, frame, batch>>

----------------------------------------------------------------------------
(* set(storage, key, value).  val is an object or null at Root, a scalar   *)
(* or null at a field.                                                     *)

Input(p) == IF p = Root THEN Row \cup {Null} ELSE FieldVals

\* The value already there is the one asked for: nothing is written.
SetEqual(s, k, p, val, up) ==
    LET v == RootValue(s, k, up) IN
    /\ Idle
    /\ IF p = Root THEN ~Undefined(v) /\ v = val ELSE Find(v, p) = val
    /\ OnlyRead(s, k, up, FALSE)
    /\ Returns("set", s, k, p, TRUE, val)

\* The driver chooses INSERT when it has no value for the full key.
SetInserts(v, p) == Undefined(v) \/ (p # Root /\ Undefined(Find(v, p)))

\* Mutant: set_cache refreshes the full key only.
WriteFramesFullKey(fr, s, k, p, new, atPath) ==
    [fr EXCEPT ![s][k][p] = atPath]

\* Mutant: set_cache refreshes the frame of a field alone.
WriteFramesFieldOnly(fr, s, k, p, new, atPath) ==
    IF p = Root THEN fr ELSE [fr EXCEPT ![s][k][p] = atPath]

\* set_cache: the root frame, the frame of the field written, not the others.
WriteFrames(fr, s, k, p, new, atPath) ==
    IF p = Root THEN [fr EXCEPT ![s][k][Root] = new]
    ELSE [fr EXCEPT ![s][k][Root] = new, ![s][k][p] = atPath]

\* Mutant: the write is forgotten.
MarkUnchanged == UNCHANGED storage_changed_

\* After a write, the next read goes to the database.
MarkChanged == storage_changed_' = TRUE

\* The statement ran: stored is what the row now holds (an UPDATE of a missing
\* row stores nothing), new what set_cache puts in the root frame.
Written(s, k, p, stored, new, atPath) ==
    /\ row' = [row EXCEPT ![s][k] = stored]
    /\ frame' = WriteFrames(frame, s, k, p, new, atPath)
    /\ storageFrame' = [storageFrame EXCEPT ![s] = NoFrame]
    /\ MarkChanged
    /\ UNCHANGED <<created, rowsFrame, batch>>

Update(v, new) == IF v = Blank THEN Blank ELSE new

\* The PRIMARY KEY refuses the INSERT of a row that is there.
SetInsert(s, k, p, val, up) ==
    LET v == RootValue(s, k, up) IN
    /\ Idle
    /\ SetInserts(v, p) /\ (p # Root => Find(v, p) # val)
    /\ \/ /\ up /\ created[s] /\ row[s][k] = Blank
          /\ Written(s, k, p, NewRow(p, val), NewRow(p, val), val)
          /\ Returns("set", s, k, p, TRUE, val)
       \/ /\ ~(up /\ created[s] /\ row[s][k] = Blank)
          /\ OnlyRead(s, k, up, FALSE)
          /\ Returns("set", s, k, p, FALSE, val)

\* UPDATE succeeds on a missing row too, and then changes none.
SetUpdate(s, k, p, val, up) ==
    LET v == RootValue(s, k, up)
        new == JsonSet(v, p, val) IN
    /\ Idle
    /\ ~SetInserts(v, p) /\ Find(v, p) # val
    /\ \/ /\ up /\ created[s]
          /\ Written(s, k, p, Update(row[s][k], new), new, val)
          /\ Returns("set", s, k, p, TRUE, val)
       \/ /\ ~(up /\ created[s])
          /\ OnlyRead(s, k, up, FALSE)
          /\ Returns("set", s, k, p, FALSE, val)

----------------------------------------------------------------------------
(* erase(storage, key).                                                    *)

EraseNothing(s, k, p, up) ==
    /\ Idle
    /\ Undefined(RootValue(s, k, up)) \/ ~(up /\ created[s])
    /\ OnlyRead(s, k, up, TRUE)
    /\ Returns("erase", s, k, p, FALSE, Blank)

\* DELETE, and rise() of the root frame alone.
EraseRow(s, k, up) ==
    /\ Idle
    /\ ~Undefined(RootValue(s, k, up)) /\ up /\ created[s]
    /\ row' = [row EXCEPT ![s][k] = Blank]
    /\ frame' = [frame EXCEPT ![s][k][Root] = NoFrame]
    /\ storageFrame' = StorageFrameAfterRead(s, k, up)
    /\ MarkChanged
    /\ Returns("erase", s, k, Root, TRUE, Blank)
    /\ UNCHANGED <<created, rowsFrame, batch>>

\* UPDATE without the field; json_erase leaves a null field where it is.
EraseField(s, k, f, up) ==
    LET v == RootValue(s, k, up)
        new == IF Undefined(Find(v, f)) THEN v ELSE [v EXCEPT ![f] = Blank] IN
    /\ Idle
    /\ ~Undefined(v) /\ up /\ created[s]
    /\ Written(s, k, f, Update(row[s][k], new), new, Find(new, f))
    /\ Returns("erase", s, k, f, TRUE, Blank)

\* Mutant: clear() rises the frame of the storage only.
RiseStorage(s) ==
    /\ storageFrame' = [storageFrame EXCEPT ![s] = NoFrame]
    /\ UNCHANGED <<rowsFrame, frame>>

\* cache().clear(): every frame of every storage goes.
EmptyCache(s) ==
    /\ rowsFrame' = [x \in Storages |-> FALSE]
    /\ storageFrame' = [x \in Storages |-> NoFrame]
    /\ frame' = [x \in Storages |-> [k \in Keys |-> [p \in Paths |-> NoFrame]]]

\* clear(storage) drops one table and empties the whole cache.
Clear(s, up) ==
    /\ Idle
    /\ \/ /\ up
          /\ created' = [created EXCEPT ![s] = FALSE]
          /\ row' = [row EXCEPT ![s] = [k \in Keys |-> Blank]]
          /\ EmptyCache(s)
       \/ ~up /\ UNCHANGED <<database, cache>>
    /\ Returns("clear", s, Blank, Root, up, Blank)
    /\ UNCHANGED <<storage_changed_, batch>>

----------------------------------------------------------------------------
(* set(storage, value): a loop over the keys of value.  The statement text *)
(* is kept from one round to the next, so a second round executes          *)
(*   INSERT...INSERT or INSERT...UPDATE   which is a syntax error, and     *)
(*   UPDATE...;INSERT or UPDATE...;UPDATE of which the UPDATE is run.      *)

\* value[k] = Blank: the object has no key k.
BatchInput == {value \in [Keys -> Row \cup {Null, Blank}] :
                  Cardinality({k \in Keys : value[k] # Blank}) <= MaxBatch}

SetStorageBegin(s, value, up) ==
    /\ Idle
    /\ rowsFrame' = RowsFrameAfterExists(s, up)
    /\ storage_changed_' = ChangedAfterExists(s, up)
    /\ IF ExistsResult(s, up)
       THEN /\ batch' = [s |-> s, value |-> value, written |-> {},
                         todo |-> {k \in Keys : value[k] # Blank}, sql |-> ""]
            /\ ret' = NothingReturned
       ELSE /\ Returns("setall", s, Blank, Root, FALSE, {})
            /\ UNCHANGED batch
    /\ UNCHANGED <<database, storageFrame, frame>>

\* The statement of this round, given what the rounds before left in ss.
RoundSql(b, k, up) ==
    CASE b.sql = "INSERT" -> "syntax error"
      [] b.sql = "UPDATE" -> "UPDATE"
      [] OTHER -> IF RootValue(b.s, k, up) = Blank THEN "INSERT" ELSE "UPDATE"

RoundSucceeds(b, k, up) ==
    /\ up /\ created[b.s]
    /\ RoundSql(b, k, up) # "syntax error"
    /\ RoundSql(b, k, up) = "INSERT" => row[b.s][k] = Blank

SetStorageRound(k, up) ==
    LET b == batch IN
    /\ ~Idle /\ k \in b.todo
    /\ IF RoundSucceeds(b, k, up)
       THEN /\ row' = [row EXCEPT ![b.s][k] =
                          IF RoundSql(b, k, up) = "UPDATE" /\ @ = Blank THEN Blank
                          ELSE b.value[k]]
            /\ frame' = [frame EXCEPT ![b.s][k][Root] = b.value[k]]
            /\ storageFrame' = [storageFrame EXCEPT ![b.s] = b.value]
            /\ storage_changed_' = TRUE
            /\ batch' = [b EXCEPT !.todo = @ \ {k}, !.written = @ \cup {k},
                                  !.sql = RoundSql(b, k, up)]
            /\ UNCHANGED <<created, rowsFrame, ret>>
       ELSE /\ frame' = FrameAfterRead(b.s, k, up)
            /\ storageFrame' = StorageFrameAfterRead(b.s, k, up)
            /\ storage_changed_' = ChangedAfterRead(b.s, k, up, TRUE)
            /\ batch' = NoBatch
            /\ Returns("setall", b.s, Blank, Root, FALSE, b.written)
            /\ UNCHANGED <<database, rowsFrame>>

SetStorageEnd ==
    /\ ~Idle /\ batch.todo = {}
    /\ batch' = NoBatch
    /\ Returns("setall", batch.s, Blank, Root, TRUE, batch.written)
    /\ UNCHANGED <<database, cache, storage_changed_>>

----------------------------------------------------------------------------
(* The environment: a frame times out (OPNCMS_DATA_CACHE_TIMEOUT) or is    *)
(* evicted; the service restarts with an empty cache and a new driver.     *)

Expire ==
    /\ \/ \E s \in Storages, k \in Keys, p \in Paths :
             /\ frame[s][k][p] # NoFrame
             /\ frame' = [frame EXCEPT ![s][k][p] = NoFrame]
             /\ UNCHANGED <<rowsFrame, storageFrame>>
       \/ \E s \in Storages :
             /\ storageFrame[s] # NoFrame
             /\ storageFrame' = [storageFrame EXCEPT ![s] = NoFrame]
             /\ UNCHANGED <<rowsFrame, frame>>
       \/ \E s \in Storages :
             /\ rowsFrame[s]
             /\ rowsFrame' = [rowsFrame EXCEPT ![s] = FALSE]
             /\ UNCHANGED <<storageFrame, frame>>
    /\ ret' = NothingReturned
    /\ UNCHANGED <<database, storage_changed_, batch>>

Restart ==
    /\ rowsFrame' = [s \in Storages |-> FALSE]
    /\ storageFrame' = [s \in Storages |-> NoFrame]
    /\ frame' = [x \in Storages |-> [k \in Keys |-> [p \in Paths |-> NoFrame]]]
    /\ storage_changed_' = FALSE
    /\ batch' = NoBatch
    /\ ret' = NothingReturned
    /\ UNCHANGED database

Init ==
    /\ created = [s \in Storages |-> FALSE]
    /\ row = [x \in Storages |-> [k \in Keys |-> Blank]]
    /\ rowsFrame = [s \in Storages |-> FALSE]
    /\ storageFrame = [s \in Storages |-> NoFrame]
    /\ frame = [x \in Storages |-> [k \in Keys |-> [p \in Paths |-> NoFrame]]]
    /\ storage_changed_ = FALSE
    /\ batch = NoBatch
    /\ ret = NothingReturned

\* up: the database answers during the call (session() gives a live session).
Next ==
    \/ \E s \in Storages, up \in Answers :
          \/ Exists(s, up)
          \/ Create(s, up)
          \/ Clear(s, up)
          \/ GetStorageString(s, up)
          \/ GetStorageJson(s, up)
          \/ \E value \in BatchInput : SetStorageBegin(s, value, up)
    \/ \E s \in Storages, k \in Keys, up \in Answers :
          \/ \E string \in BOOLEAN : GetRoot(s, k, up, string)
          \/ \E f \in Fields, string \in BOOLEAN :
                \/ GetFieldCached(s, k, f, string)
                \/ GetFieldFromRow(s, k, f, up)
                \/ GetFieldNothing(s, k, f, up, string)
          \/ \E p \in Paths : \E val \in Input(p) :
                \/ SetEqual(s, k, p, val, up)
                \/ SetInsert(s, k, p, val, up)
                \/ SetUpdate(s, k, p, val, up)
          \/ \E p \in Paths : EraseNothing(s, k, p, up)
          \/ EraseRow(s, k, up)
          \/ \E f \in Fields : EraseField(s, k, f, up)
    \/ \E k \in Keys, up \in Answers : SetStorageRound(k, up)
    \/ SetStorageEnd
    \/ Expire
    \/ Restart

Spec == Init /\ [][Next]_vars
----------------------------------------------------------------------------
(* Properties.                                                             *)

RowVal == Row \cup {Null, Blank}

BatchType == [s : Storages, value : BatchInput, written : SUBSET Keys,
              todo : SUBSET Keys, sql : {"", "INSERT", "UPDATE"}]

\* Every variable holds a value of its kind: root frames hold row texts, field
\* frames scalar texts (set_cache and the two get of data_sql.cpp).
TypeOK ==
    /\ created \in [Storages -> BOOLEAN]
    /\ row \in [Storages -> [Keys -> RowVal]]
    /\ rowsFrame \in [Storages -> BOOLEAN]
    /\ storageFrame \in [Storages -> [Keys -> RowVal] \cup {Blank, NoFrame}]
    /\ frame \in [Storages -> [Keys -> [Paths -> RowVal \cup FieldVals \cup {NoFrame}]]]
    /\ \A s \in Storages, k \in Keys :
          /\ frame[s][k][Root] \in RowVal \cup {NoFrame}
          /\ \A f \in Fields : frame[s][k][f] \in FieldVals \cup {Blank, NoFrame}
    /\ storage_changed_ \in BOOLEAN
    /\ Idle \/ /\ batch \in BatchType
               /\ batch.todo \subseteq {k \in Keys : batch.value[k] # Blank}

\* A cached root frame is the row in the database ("" for a null row), whatever
\* mixture of reads, writes, failures and expiries came before.  set() merges
\* into what it reads through this frame, so a stale one would corrupt the row.
RootFrameCoherent ==
    \A s \in Storages, k \in Keys :
        frame[s][k][Root] # NoFrame =>
            /\ row[s][k] # Blank
            /\ \/ frame[s][k][Root] = row[s][k]
               \/ frame[s][k][Root] = Blank /\ row[s][k] = Null

\* Rows and frames exist only of tables that exist: create() and exists() answer
\* from a frame without asking the database, so a frame that outlived clear()
\* would make them claim a table that is gone.
FramesImplyTable ==
    \A s \in Storages :
        \/ created[s]
        \/ /\ ~rowsFrame[s] /\ storageFrame[s] = NoFrame
           /\ \A k \in Keys : row[s][k] = Blank /\ \A p \in Paths : frame[s][k][p] = NoFrame

\* Row <<s, k>> now holds val at p and what it held before elsewhere.
StoredAndKept(s, k, p, val) ==
    /\ \A x \in Storages, y \in Keys : <<x, y>> # <<s, k>> => row'[x][y] = row[x][y]
    /\ \/ p = Root /\ val = Null /\ row'[s][k] = Null
       \/ /\ row'[s][k] \in Row
          /\ \A f \in Fields :
                row'[s][k][f] = IF p = f THEN val
                                ELSE IF p = Root /\ val[f] # Blank THEN val[f]
                                ELSE Find(row[s][k], f)

\* A set(storage, key, value) that returned true has stored the value at the key,
\* kept every field it did not name and touched no other row, although the row it
\* merges into may have come from the cache.
SetStoresAndKeeps ==
    [][(Idle /\ Idle' /\ ret'.op = "set" /\ ret'.ok) =>
          StoredAndKept(ret'.s, ret'.k, ret'.p, ret'.val)]_vars

\* A field frame that no longer tells what the row says.
FieldFrameStale(s, k, f) ==
    /\ frame[s][k][f] # NoFrame
    /\ frame[s][k][f] # Find(row[s][k], f)
    /\ ~(Undefined(frame[s][k][f]) /\ Undefined(Find(row[s][k], f)))

\* The step that makes a field frame stale raises storage_changed_, so the next
\* read, of whatever key, is answered by the database and not by that frame.
StaleFrameStartsHidden ==
    [][\A s \in Storages, k \in Keys, f \in Fields :
          (FieldFrameStale(s, k, f)' /\ ~FieldFrameStale(s, k, f)) => storage_changed_']_vars
=============================================================================
