---------------------------- MODULE DataMongodb -----------------------------
(***************************************************************************)
(* The MongoDB storage driver (class DataMongodb of                        *)
(* module/data_mongodb.cpp and the JSON conversion of data_mongodb.h).     *)
(*                                                                         *)
(* A storage is a collection of which the driver only ever reads the first *)
(* document, whose fields are the keys.  A call sends up to three commands *)
(* to the server: exists, findOne, save.  Each is one step, and the        *)
(* clients are processes with a connection of their own, whose commands    *)
(* may come between those of a call.  Any command may fail.                *)
(*                                                                         *)
(* Data abstraction.  A value is a scalar, an array of scalars without     *)
(* their order, or an object with scalars in its fields; a path is a key   *)
(* or a key and a field.  A member may also be an object of which nothing  *)
(* is known: only get(value, storage, key) makes a difference.  _id is not *)
(* kept as a value: a document that is saved replaces the one it was read  *)
(* from if the collection still is the same, and is inserted otherwise.    *)
(* Of the documents behind the first only the number is kept.              *)
(***************************************************************************)
EXTENDS FiniteSets, Naturals

CONSTANTS
    Clients,
    Storages,
    Keys,
    Names,   \* names of fields
    Scalars,
    MaxMore, \* bound: documents behind the first one
    None     \* no name, no scalar

ASSUME NoneAssumption == None \notin Scalars \cup Names
ASSUME MaxMoreAssumption == MaxMore \in Nat

VARIABLES
    coll,       \* the collections
    call,       \* what each client is doing
    overlapped, \* history: two calls were at work at once
    inserted    \* history: the storages given a whole value besides the one they had

vars == <<coll, call, overlapped, inserted>>

NoFields == [n \in Names |-> None]
Nothing == [is |-> "nothing", members |-> {}, fields |-> NoFields]
Scalar(x) == [is |-> "scalar", members |-> {x}, fields |-> NoFields]
Array(m) == [is |-> "array", members |-> m, fields |-> NoFields]
Object(f) == [is |-> "object", members |-> {}, fields |-> f]

Values == {Scalar(x) : x \in Scalars} \cup {Array(m) : m \in SUBSET Scalars}
            \cup {Object(f) : f \in [Names -> Scalars \cup {None}]}
Doc == [Keys -> Values \cup {Nothing}]
Empty == [k \in Keys |-> Nothing]
Path == [key : Keys, name : Names \cup {None}]

Missing == [exists |-> FALSE, any |-> FALSE, first |-> Empty, more |-> 0]
Created == [Missing EXCEPT !.exists = TRUE]

\* same: the document read is still the first of its collection.
Idle == [op |-> "idle", at |-> "done", s |-> None, path |-> None, value |-> Nothing,
         doc |-> Empty, same |-> FALSE, result |-> "none"]

----------------------------------------------------------------------------
(* Documents                                                               *)

\* find(path) of a document.
Find(doc, path) ==
    IF path.name = None THEN doc[path.key]
    ELSE IF doc[path.key].fields[path.name] = None THEN Nothing
    ELSE Scalar(doc[path.key].fields[path.name])

\* Mutant: the new value replaces an array.
MergedOver(old, new) == IF old.is = "array" THEN new ELSE old

\* set(): an array gains members, an object takes the new fields, and any other
\* value that is there stays.
Merged(old, new) ==
    IF old.is = "array" /\ new.is = "array" THEN Array(old.members \cup new.members)
    ELSE IF old.is = "object" /\ new.is = "object"
    THEN Object([n \in Names |-> IF new.fields[n] # None THEN new.fields[n]
                                ELSE old.fields[n]])
    ELSE old

\* value::set(path, v) of CppCMS: what is not an object on the way becomes one.
Put(doc, path, v) ==
    [doc EXCEPT ![path.key] =
        IF path.name = None THEN v
        ELSE Object([@.fields EXCEPT ![path.name] = CHOOSE x \in Scalars : v = Scalar(x)])]

\* The document that set(storage, key, value) saves.
AfterSet(doc, path, v) ==
    IF Find(doc, path) = Nothing THEN Put(doc, path, v)
    ELSE IF path.name = None THEN [doc EXCEPT ![path.key] = Merged(@, v)]
    ELSE doc

\* Mutant: null is left in the place of the value.
AfterEraseNull(doc, path) ==
    IF path.name = None THEN [doc EXCEPT ![path.key] = None]
    ELSE [doc EXCEPT ![path.key].fields[path.name] = None]

\* tools::json_erase()
AfterErase(doc, path) ==
    IF Find(doc, path) = Nothing THEN doc
    ELSE IF path.name = None THEN [doc EXCEPT ![path.key] = Nothing]
    ELSE [doc EXCEPT ![path.key].fields[path.name] = None]

----------------------------------------------------------------------------
(* Commands.  Only one client's call goes on in a step.                    *)

Finish(c, result) == call' = [call EXCEPT ![c] = [Idle EXCEPT !.result = result]]

\* An insert puts the document behind those of the collection, which it creates.
Insert(s, doc) ==
    IF coll[s].any
    THEN /\ coll[s].more < MaxMore
         /\ coll' = [coll EXCEPT ![s].more = @ + 1]
    ELSE coll' = [coll EXCEPT ![s] = [Created EXCEPT !.any = TRUE, !.first = doc]]

\* Mutant: the _id is dropped from the document.
SaveAnew(s, doc, same) == Insert(s, doc)
\* save(): an update when _id is that of a document, an insert otherwise.
Save(s, doc, same) ==
    IF same THEN coll' = [coll EXCEPT ![s].first = doc] ELSE Insert(s, doc)

\* dropCollection(): no document that a call has read is there any longer.
Drop(s) == coll' = [coll EXCEPT ![s] = Missing]
DroppedCalls(s) ==
    [d \in Clients |-> IF call[d].s = s THEN [call[d] EXCEPT !.same = FALSE] ELSE call[d]]

Begin(c, op, s, path, v) ==
    /\ call[c].op = "idle"
    /\ call' = [call EXCEPT ![c] = [Idle EXCEPT !.op = op, !.at = "exists", !.s = s,
                                                !.path = path, !.value = v]]
    /\ overlapped' = (overlapped \/ \E d \in Clients : call[d].op # "idle")
    /\ UNCHANGED <<coll, inserted>>

\* A command fails: the exception leaves the call.
Fail(c) ==
    /\ call[c].op # "idle"
    /\ Finish(c, "threw")
    /\ UNCHANGED <<coll, overlapped, inserted>>

----------------------------------------------------------------------------
(* set(storage, key, value)                                                *)

SetBegin(c) ==
    \E s \in Storages, p \in Path : \E v \in Values :
        /\ p.name # None => v.is = "scalar"
        /\ Begin(c, "set", s, p, v)

\* Of a collection that is missing nothing is read, and neither is the value
\* put anywhere: an empty document is saved.
SetExists(c) ==
    /\ call[c].op = "set" /\ call[c].at = "exists"
    /\ call' = [call EXCEPT ![c].at = IF coll[call[c].s].exists THEN "find" ELSE "save"]
    /\ UNCHANGED <<coll, overlapped, inserted>>

SetFind(c) ==
    LET s == call[c].s IN
    /\ call[c].op = "set" /\ call[c].at = "find"
    /\ call' = [call EXCEPT ![c] = [@ EXCEPT
          !.at = "save", !.doc = AfterSet(coll[s].first, call[c].path, call[c].value),
          !.path = None, !.value = Nothing, !.same = coll[s].any]]
    /\ UNCHANGED <<coll, overlapped, inserted>>

SetSave(c) ==
    /\ call[c].op = "set" /\ call[c].at = "save"
    /\ Save(call[c].s, call[c].doc, call[c].same)
    /\ \E result \in {"true", "threw"} : Finish(c, result)
    /\ UNCHANGED <<overlapped, inserted>>

----------------------------------------------------------------------------
(* set(storage, value): a single save.  A value that get(value, storage)   *)
(* returned has the _id of the document it replaces.                       *)

SetStorage(c) ==
    \E s \in Storages, doc \in Doc, same \in BOOLEAN :
        /\ call[c].op = "idle"
        /\ same => coll[s].any
        /\ Save(s, doc, same)
        /\ \E result \in {"true", "threw"} : Finish(c, result)
        /\ inserted' = IF ~same /\ coll[s].any THEN inserted \cup {s} ELSE inserted
        /\ overlapped' = (overlapped \/ \E d \in Clients : call[d].op # "idle")

----------------------------------------------------------------------------
(* create(storage), clear(storage) and erase(storage, key)                 *)

CreateBegin(c) == \E s \in Storages : Begin(c, "create", s, None, Nothing)

CreateExists(c) ==
    /\ call[c].op = "create" /\ call[c].at = "exists"
    /\ call' = [call EXCEPT ![c].at = IF coll[call[c].s].exists THEN "drop" ELSE "save"]
    /\ UNCHANGED <<coll, overlapped, inserted>>

\* createCollection() refuses one that has come into being meanwhile.
CreateNew(c) ==
    LET s == call[c].s IN
    /\ call[c].op = "create" /\ call[c].at = "save"
    /\ coll' = IF coll[s].exists THEN coll ELSE [coll EXCEPT ![s] = Created]
    /\ Finish(c, IF coll[s].exists THEN "false" ELSE "true")
    /\ UNCHANGED <<overlapped, inserted>>

\* clear(), and erase() without a key.
ClearBegin(c) ==
    \E s \in Storages, op \in {"clear", "erase all"} :
        /\ call[c].op = "idle"
        /\ call' = [call EXCEPT ![c] = [Idle EXCEPT !.op = op, !.at = "drop", !.s = s]]
        /\ overlapped' = (overlapped \/ \E d \in Clients : call[d].op # "idle")
        /\ UNCHANGED <<coll, inserted>>

\* create() of a collection that exists ends here, too.
DropNow(c) ==
    LET s == call[c].s
        done == call[c].op # "erase all" \/ coll[s].exists
    IN
    /\ call[c].at = "drop"
    /\ Drop(s)
    /\ call' = [DroppedCalls(s) EXCEPT
                  ![c] = [Idle EXCEPT !.result = IF done THEN "true" ELSE "false"]]
    /\ inserted' = inserted \ {s}
    /\ UNCHANGED overlapped

EraseBegin(c) == \E s \in Storages, p \in Path : Begin(c, "erase", s, p, Nothing)

EraseExists(c) ==
    LET s == call[c].s IN
    /\ call[c].op = "erase" /\ call[c].at = "exists"
    /\ IF coll[s].exists THEN call' = [call EXCEPT ![c].at = "find"] ELSE Finish(c, "false")
    /\ UNCHANGED <<coll, overlapped, inserted>>

EraseFind(c) ==
    LET s == call[c].s IN
    /\ call[c].op = "erase" /\ call[c].at = "find"
    /\ IF coll[s].any
       THEN call' = [call EXCEPT ![c] = [@ EXCEPT
               !.at = "save", !.doc = AfterErase(coll[s].first, call[c].path), !.path = None,
               !.same = TRUE]]
       ELSE Finish(c, "false")
    /\ UNCHANGED <<coll, overlapped, inserted>>

EraseSave(c) ==
    /\ call[c].op = "erase" /\ call[c].at = "save"
    /\ Save(call[c].s, call[c].doc, call[c].same)
    /\ \E result \in {"true", "threw"} : Finish(c, result)
    /\ UNCHANGED <<overlapped, inserted>>

----------------------------------------------------------------------------
(* exists() and get().  The result tells what the caller receives: "whole" *)
(* is the value, "part" a part of it, "other" a text that is not it,       *)
(* "unset" success without a value.                                        *)

Fields(v) == {n \in Names : v.fields[n] # None}

\* exists(storage, key): the answer is turned round for a key, and for a field
\* it is that of any field of the key.
ExistsKey(doc, path) ==
    LET v == doc[path.key] IN
    IF path.name = None THEN IF v = Nothing THEN "true" ELSE "false"
    ELSE IF v.is \notin {"array", "object"} THEN "threw"
    ELSE IF v.members = {} /\ Fields(v) = {} THEN "false" ELSE "true"

\* get(value, storage, key): Obj() throws for what is no object or array and for what
\* is not there, an empty object or array is false, nothing is set if the first member
\* is an object (nested), and the conversion takes that member otherwise.
GetJson(doc, path, nested) ==
    LET v == Find(doc, path) IN
    IF path = None THEN "whole"
    ELSE IF v.is \notin {"array", "object"} THEN "threw"
    ELSE IF v.members = {} /\ Fields(v) = {} THEN "false"
    ELSE IF nested THEN "unset"
    ELSE IF v.is = "array" THEN "other"
    ELSE IF Cardinality(Fields(v)) = 1 THEN "whole" ELSE "part"

\* get(storage, key): a scalar comes with its key, an empty array as "]".
GetString(doc, path) ==
    LET v == Find(doc, path) IN
    IF path = None THEN "whole"
    ELSE CASE v.is = "nothing" -> "false"
           [] v.is = "scalar" -> "other"
           [] v.is = "array" -> IF v.members = {} THEN "other" ELSE "whole"
           [] v.is = "object" -> "whole"

Reads == {"exists storage", "exists", "get json", "get string", "get storage json",
          "get storage string"}

ReadBegin(c) ==
    \E s \in Storages, op \in Reads, p \in Path \cup {None} :
        /\ p = None <=> op \notin {"exists", "get json", "get string"}
        /\ Begin(c, op, s, p, Nothing)

\* get() with an empty key.
ReadAllBegin(c) ==
    \E s \in Storages, op \in {"get json", "get string"} : Begin(c, op, s, None, Nothing)

ReadExists(c) ==
    LET here == coll[call[c].s].exists
        op == call[c].op
    IN
    /\ op \in Reads /\ call[c].at = "exists"
    /\ IF here /\ op # "exists storage" THEN call' = [call EXCEPT ![c].at = "find"]
       ELSE Finish(c, CASE here -> "true"
                        [] op = "get json" -> "unset"
                        [] op = "get string" -> "threw"
                        [] OTHER -> "false")
    /\ UNCHANGED <<coll, overlapped, inserted>>

ReadFind(c) ==
    LET op == call[c].op
        read == coll[call[c].s]
    IN
    /\ op \in Reads /\ call[c].at = "find"
    /\ \E nested \in BOOLEAN :
          Finish(c, CASE op = "exists" -> ExistsKey(read.first, call[c].path)
                      [] op = "get json" -> GetJson(read.first, call[c].path, nested)
                      [] op = "get string" -> GetString(read.first, call[c].path)
                      [] op = "get storage json" -> IF read.any THEN "whole" ELSE "false"
                      [] op = "get storage string" -> "whole")
    /\ UNCHANGED <<coll, overlapped, inserted>>

----------------------------------------------------------------------------

Init ==
    /\ coll = [s \in Storages |-> Missing]
    /\ call = [c \in Clients |-> Idle]
    /\ overlapped = FALSE
    /\ inserted = {}

SetStep(c) == SetBegin(c) \/ SetExists(c) \/ SetFind(c) \/ SetSave(c) \/ SetStorage(c)
CreateStep(c) == CreateBegin(c) \/ CreateExists(c) \/ CreateNew(c)
EraseStep(c) ==
    ClearBegin(c) \/ DropNow(c) \/ EraseBegin(c) \/ EraseExists(c) \/ EraseFind(c)
        \/ EraseSave(c)
ReadStep(c) == ReadBegin(c) \/ ReadAllBegin(c) \/ ReadExists(c) \/ ReadFind(c)

Next ==
    \E c \in Clients : SetStep(c) \/ CreateStep(c) \/ EraseStep(c) \/ ReadStep(c) \/ Fail(c)

Spec == Init /\ [][Next]_vars

----------------------------------------------------------------------------

Calls == [op : {"idle", "set", "create", "clear", "erase all", "erase"} \cup Reads,
          at : {"done", "exists", "find", "save", "drop"}, s : Storages \cup {None},
          path : Path \cup {None}, value : Values \cup {Nothing}, doc : Doc,
          same : BOOLEAN,
          result : {"none", "true", "false", "threw", "whole", "part", "other", "unset"}]

TypeOK ==
    /\ coll \in [Storages -> [exists : BOOLEAN, any : BOOLEAN, first : Doc, more : 0..MaxMore]]
    /\ call \in [Clients -> Calls]
    /\ overlapped \in BOOLEAN
    /\ inserted \in SUBSET Storages

(* As long as calls come one after the other, whatever the connection does,  *)
(* a storage stays the one document that the driver reads, unless a caller   *)
(* stored a whole value of its own besides (data_mongodb.cpp:174): reading,  *)
(* changing and saving through JSON keeps the _id.                           *)
OneDocument ==
    ~overlapped => \A s \in Storages : coll[s].more > 0 => s \in inserted

Contains(new, old) ==
    \/ old.is = "nothing"
    \/ new.is = old.is /\ old.members \subseteq new.members /\ Fields(old) \subseteq Fields(new)
    \/ old.is \in {"scalar", "array"} /\ new.is = "object" /\ Cardinality(Fields(new)) = 1

(* No sequence of set() calls with a key takes anything out of a storage:    *)
(* arrays gain members, objects gain fields, scalars stay as they are, and   *)
(* only a longer path takes the place of what is not an object               *)
(* (data_mongodb.cpp:121-154).                                               *)
SetsOnlyGrow ==
    [][~overlapped' /\ (\E c \in Clients : call[c].op = "set" /\ call'[c].op = "idle") =>
          \A s \in Storages, k \in Keys : Contains(coll'[s].first[k], coll[s].first[k])]_vars
=============================================================================
