-------------------------- MODULE DataMongodb_proof --------------------------
(***************************************************************************)
(* DataMongodb is type correct for any clients, storages, keys, fields and *)
(* scalars, with commands that fail and calls that overlap.  Of calls that *)
(* come one after the other: a storage stays one document, and set() with  *)
(* a key takes nothing out of it.                                          *)
(*                                                                         *)
(* A save needs to know what its call has read and that it still is there: *)
(* Linked says when a document's _id is that of the collection, and Alone  *)
(* that a lone call saves what it has read, or the first document.         *)
(***************************************************************************)
EXTENDS DataMongodb, FiniteSetTheorems, TLAPS

----------------------------------------------------------------------------
(* Values and documents.                                                   *)

FieldsType == [Names -> Scalars \cup {None}]
Stored == Values \cup {Nothing}

LEMMA StoredIs ==
    ASSUME NEW v \in Stored
    PROVE  /\ v.is \in {"nothing", "scalar", "array", "object"}
           /\ v.members \in SUBSET Scalars /\ v.fields \in FieldsType
           /\ v.is # "object" => v.fields = NoFields
           /\ v.is = "object" => v = Object(v.fields)
           /\ v.is = "array" => v = Array(v.members)
           /\ v.is = "scalar" => \E x \in Scalars : v = Scalar(x)
           /\ v.is = "nothing" => v = Nothing
<1>1. NoFields \in FieldsType
  BY DEF NoFields, FieldsType
<1>2. CASE v = Nothing
  BY <1>1, <1>2 DEF Nothing
<1>3. CASE \E x \in Scalars : v = Scalar(x)
  BY <1>1, <1>3 DEF Scalar
<1>4. CASE \E m \in SUBSET Scalars : v = Array(m)
  BY <1>1, <1>4 DEF Array
<1>5. CASE \E f \in FieldsType : v = Object(f)
  BY <1>5 DEF Object
<1>6. QED
  BY <1>2, <1>3, <1>4, <1>5 DEF Stored, Values, FieldsType

LEMMA Makes ==
    /\ Nothing \in Stored
    /\ \A m \in SUBSET Scalars : Array(m) \in Values
    /\ \A f \in FieldsType : Object(f) \in Values
  BY DEF Stored, Values, FieldsType

LEMMA FindIs ==
    ASSUME NEW doc \in Doc, NEW p \in Path
    PROVE  /\ doc[p.key] \in Stored
           /\ p.name = None => Find(doc, p) = doc[p.key]
           /\ p.name # None =>
                /\ p.name \in Names
                /\ Find(doc, p) = Nothing <=> doc[p.key].fields[p.name] = None
           /\ Find(doc, p) \in Stored
<1>1. doc[p.key] \in Stored /\ p.key \in Keys /\ p.name \in Names \cup {None}
  BY DEF Doc, Path, Stored
<1>2. doc[p.key].fields \in FieldsType
  BY <1>1, StoredIs
<1>3. \A x \in Scalars : Scalar(x) # Nothing /\ Scalar(x) \in Stored
  BY DEF Scalar, Nothing, Stored, Values
<1>4. QED
  BY <1>1, <1>2, <1>3, Makes DEF Find, FieldsType

LEMMA Same == ASSUME NEW v \in Stored PROVE Contains(v, v)
  BY StoredIs DEF Contains

\* A new document in which one value has changed.
LEMMA OneChanged ==
    ASSUME NEW doc \in Doc, NEW k \in Keys, NEW v \in Stored, Contains(v, doc[k]),
           NEW new, new = [doc EXCEPT ![k] = v]
    PROVE  new \in Doc /\ \A j \in Keys : Contains(new[j], doc[j])
<1>1. \A j \in Keys : doc[j] \in Stored
  BY DEF Doc, Stored
<1>2. QED
  BY <1>1, Same DEF Doc, Stored

LEMMA MergedGrows ==
    ASSUME NEW old \in Stored, NEW new \in Values
    PROVE  Merged(old, new) \in Stored /\ Contains(Merged(old, new), old)
<1>0. new \in Stored
  BY DEF Stored
<1>1. CASE old.is = "array" /\ new.is = "array"
  <2>1. Array(old.members \cup new.members) \in Stored
    BY <1>0, StoredIs, Makes DEF Stored
  <2>2. Contains(Array(old.members \cup new.members), old)
    BY <1>1, StoredIs DEF Array, Contains, Fields, NoFields
  <2>3. QED
    BY <1>1, <2>1, <2>2 DEF Merged
<1>2. CASE old.is = "object" /\ new.is = "object"
  <2> DEFINE f == [n \in Names |-> IF new.fields[n] # None THEN new.fields[n]
                                   ELSE old.fields[n]]
  <2>1. f \in FieldsType
    BY <1>0, StoredIs DEF FieldsType
  <2>2. Object(f) \in Stored
    BY <2>1, Makes DEF Stored
  <2>3. old = Object(old.fields)
    BY <1>2, StoredIs
  <2>4. Fields(old) \subseteq Fields(Object(f))
    BY DEF Fields, Object
  <2>5. old.members = {}
    BY <2>3 DEF Object
  <2>6. Contains(Object(f), old)
    BY <1>2, <2>4, <2>5 DEF Contains, Object
  <2>7. QED
    BY <1>2, <2>2, <2>6 DEF Merged
<1>3. CASE ~(old.is = "array" /\ new.is = "array") /\ ~(old.is = "object" /\ new.is = "object")
  BY <1>3, Same DEF Merged
<1>4. QED
  BY <1>1, <1>2, <1>3

\* A value put where nothing is, below a value that may not be an object.
LEMMA PutGrows ==
    ASSUME NEW old \in Stored, NEW n \in Names, NEW x \in Scalars, old.fields[n] = None
    PROVE  LET v == Object([old.fields EXCEPT ![n] = x]) IN v \in Stored /\ Contains(v, old)
<1> DEFINE f == [old.fields EXCEPT ![n] = x]
           v == Object(f)
<1>1. old.fields \in FieldsType /\ f \in FieldsType
  BY StoredIs DEF FieldsType
<1>2. v \in Stored
  BY <1>1, Makes DEF Stored
<1>3. CASE old.is = "nothing"
  BY <1>2, <1>3 DEF Contains
<1>4. CASE old.is = "object"
  <2>1. old = Object(old.fields)
    BY <1>4, StoredIs
  <2>2. old.members = {}
    BY <2>1 DEF Object
  <2>3. Fields(old) \subseteq Fields(v)
    BY <1>1 DEF Fields, Object, FieldsType
  <2>4. QED
    BY <1>2, <1>4, <2>2, <2>3 DEF Contains, Object
<1>5. CASE old.is \in {"scalar", "array"}
  <2>1. old.fields = NoFields
    BY <1>5, StoredIs
  <2>2. Fields(v) = {n}
    BY <2>1, NoneAssumption DEF Fields, Object, NoFields
  <2>3. Cardinality(Fields(v)) = 1
    BY <2>2, FS_Singleton
  <2>4. QED
    BY <1>2, <1>5, <2>3 DEF Contains, Object
<1>6. QED
  BY <1>3, <1>4, <1>5, <1>2, StoredIs

\* What set() makes of a document is one that has all it had.
LEMMA AfterSetGrows ==
    ASSUME NEW doc \in Doc, NEW p \in Path, NEW v \in Values, p.name # None => v.is = "scalar"
    PROVE  /\ AfterSet(doc, p, v) \in Doc
           /\ \A k \in Keys : Contains(AfterSet(doc, p, v)[k], doc[k])
<1>0. p.key \in Keys /\ doc[p.key] \in Stored /\ v \in Stored
  BY FindIs DEF Path, Stored
<1>1. CASE Find(doc, p) = Nothing /\ p.name = None
  <2>1. AfterSet(doc, p, v) = [doc EXCEPT ![p.key] = v]
    BY <1>1 DEF AfterSet, Put
  <2>2. Contains(v, doc[p.key])
    BY <1>1, FindIs DEF Contains, Nothing
  <2>3. QED
    BY <1>0, <2>1, <2>2, OneChanged
<1>2. CASE Find(doc, p) = Nothing /\ p.name # None
  <2> DEFINE x == CHOOSE y \in Scalars : v = Scalar(y)
             w == Object([doc[p.key].fields EXCEPT ![p.name] = x])
  <2>1. x \in Scalars
    BY <1>0, <1>2, StoredIs
  <2>2. AfterSet(doc, p, v) = [doc EXCEPT ![p.key] = w]
    BY <1>2 DEF AfterSet, Put
  <2> HIDE DEF x
  <2>3. p.name \in Names /\ doc[p.key].fields[p.name] = None
    BY <1>2, FindIs
  <2>4. w \in Stored /\ Contains(w, doc[p.key])
    BY <1>0, <2>1, <2>3, PutGrows
  <2>5. QED
    BY <1>0, <2>2, <2>4, OneChanged
<1>3. CASE Find(doc, p) # Nothing /\ p.name = None
  <2>1. AfterSet(doc, p, v) = [doc EXCEPT ![p.key] = Merged(doc[p.key], v)]
    BY <1>3 DEF AfterSet
  <2>2. Merged(doc[p.key], v) \in Stored /\ Contains(Merged(doc[p.key], v), doc[p.key])
    BY <1>0, MergedGrows
  <2>3. QED
    BY <1>0, <2>1, <2>2, OneChanged
<1>4. CASE Find(doc, p) # Nothing /\ p.name # None
  <2>1. AfterSet(doc, p, v) = doc /\ \A k \in Keys : doc[k] \in Stored
    BY <1>4 DEF AfterSet, Doc, Stored
  <2>2. QED
    BY <2>1, Same
<1>5. QED
  BY <1>1, <1>2, <1>3, <1>4

LEMMA AfterEraseDoc ==
    ASSUME NEW doc \in Doc, NEW p \in Path
    PROVE  AfterErase(doc, p) \in Doc
<1>0. p.key \in Keys /\ doc[p.key] \in Stored
  BY FindIs DEF Path
<1>1. CASE Find(doc, p) = Nothing
  BY <1>1 DEF AfterErase
<1>2. CASE Find(doc, p) # Nothing /\ p.name = None
  BY <1>0, <1>2, Makes DEF AfterErase, Doc, Stored
<1>3. CASE Find(doc, p) # Nothing /\ p.name # None
  <2>1. p.name \in Names /\ doc[p.key].fields[p.name] # None
    BY <1>3, FindIs
  <2>2. doc[p.key] = Object(doc[p.key].fields) /\ doc[p.key].fields \in FieldsType
    BY <1>0, <2>1, StoredIs DEF NoFields
  <2> DEFINE f == [doc[p.key].fields EXCEPT ![p.name] = None]
             w == [doc[p.key] EXCEPT !.fields = f]
  <2>3. f \in FieldsType
    BY <2>1, <2>2 DEF FieldsType
  <2>4. w = Object(f)
    <3> HIDE DEF f
    <3>1. w = [Object(doc[p.key].fields) EXCEPT !.fields = f]
      BY <2>2
    <3>2. QED
      BY <3>1 DEF Object
  <2>5. w \in Stored
    BY <2>3, <2>4, Makes DEF Stored
  <2>6. AfterErase(doc, p) = [doc EXCEPT ![p.key] = w]
    BY <1>3 DEF AfterErase
  <2>7. QED
    BY <1>0, <2>5, <2>6 DEF Doc, Stored
<1>4. QED
  BY <1>1, <1>2, <1>3

----------------------------------------------------------------------------
(* Collections and calls.                                                  *)

CollType == [exists : BOOLEAN, any : BOOLEAN, first : Doc, more : 0..MaxMore]
Results == {"none", "true", "false", "threw", "whole", "part", "other", "unset"}
Ops == {"idle", "set", "create", "clear", "erase all", "erase"} \cup Reads

CollOK ==
    /\ coll \in [Storages -> CollType]
    /\ \A s \in Storages : (coll[s].any => coll[s].exists) /\ (~coll[s].any => coll[s].first = Empty)

\* What a call holds while it is at work.
Fits(d) ==
    /\ d.op = "idle" <=> d.at = "done"
    /\ d.op # "idle" => d.s \in Storages
    /\ d.op = "set" => d.at \in {"exists", "find", "save"}
    /\ d.op = "set" /\ d.at \in {"exists", "find"} =>
          /\ d.path \in Path /\ d.value \in Values
          /\ d.path.name # None => d.value.is = "scalar"
    /\ d.op = "erase" /\ d.at \in {"exists", "find"} => d.path \in Path
    /\ d.at = "find" => d.op # "exists storage"
    /\ d.same => d.at = "save"

CallOK == call \in [Clients -> Calls] /\ \A c \in Clients : Fits(call[c])

\* The document a call has read is still there.
Linked == \A c \in Clients : call[c].same => call[c].s \in Storages /\ coll[call[c].s].any

Typed == CollOK /\ CallOK /\ Linked /\ overlapped \in BOOLEAN /\ inserted \in SUBSET Storages

LEMMA TypedIsType == Typed => TypeOK
  BY DEF Typed, CollOK, CallOK, TypeOK, CollType

LEMMA EmptyIs == Empty \in Doc /\ Nothing.is = "nothing" /\ \A k \in Keys : Empty[k] = Nothing
  BY DEF Empty, Doc, Nothing

LEMMA CollShapes ==
    ASSUME NEW doc \in Doc
    PROVE  /\ Missing \in CollType /\ ~Missing.any /\ ~Missing.exists /\ Missing.first = Empty
           /\ Missing.more = 0
           /\ Created \in CollType /\ ~Created.any /\ Created.exists /\ Created.first = Empty
           /\ Created.more = 0
           /\ LET new == [Created EXCEPT !.any = TRUE, !.first = doc] IN
                new \in CollType /\ new.any /\ new.exists /\ new.first = doc /\ new.more = 0
<1>1. 0 \in 0..MaxMore
  BY MaxMoreAssumption
<1>2. Missing \in CollType /\ Created \in CollType
  BY <1>1, EmptyIs DEF Missing, Created, CollType
<1>3. [Created EXCEPT !.any = TRUE, !.first = doc] \in CollType
  BY <1>1 DEF Missing, Created, CollType
<1>4. QED
  BY <1>2, <1>3 DEF Missing, Created

LEMMA IdleIs ==
    ASSUME NEW r \in Results
    PROVE  LET d == [Idle EXCEPT !.result = r] IN
             d \in Calls /\ Fits(d) /\ d.op = "idle" /\ ~d.same
  BY EmptyIs DEF Idle, Calls, Fits, Results

LEMMA UnlinkedIs ==
    ASSUME NEW d \in Calls, Fits(d)
    PROVE  LET e == [d EXCEPT !.same = FALSE] IN
             e \in Calls /\ Fits(e) /\ ~e.same /\ e.s = d.s /\ e.op = d.op
<1> DEFINE e == [d EXCEPT !.same = FALSE]
<1>1. e \in Calls /\ e.op = d.op /\ e.at = d.at /\ e.s = d.s /\ e.path = d.path
        /\ e.value = d.value /\ ~e.same /\ e.doc = d.doc
  BY DEF Calls
<1> HIDE DEF e
<1>2. Fits(e)
  BY <1>1 DEF Fits
<1>3. QED
  BY <1>1, <1>2 DEF e

----------------------------------------------------------------------------
(* The kinds of step.                                                      *)

\* One call goes on, the collections stay.
LEMMA CallMoves ==
    ASSUME Typed, NEW c \in Clients, NEW d \in Calls, Fits(d), ~d.same \/ coll[d.s].any,
           call' = [call EXCEPT ![c] = d], UNCHANGED coll
    PROVE  CollOK' /\ CallOK' /\ Linked'
<1>1. CollOK'
  BY DEF Typed, CollOK
<1>2. CallOK'
  BY DEF Typed, CallOK
<1>3. d.same => d.s \in Storages
  BY DEF Fits
<1>4. \A b \in Clients : call'[b] = IF b = c THEN d ELSE call[b]
  BY DEF Typed, CallOK
<1>5. Linked'
  BY <1>3, <1>4 DEF Typed, Linked
<1>6. QED
  BY <1>1, <1>2, <1>5

LEMMA Saves ==
    ASSUME Typed, NEW s \in Storages, NEW doc \in Doc, NEW same \in BOOLEAN,
           same => coll[s].any, Save(s, doc, same)
    PROVE  /\ CollOK'
           /\ \A t \in Storages : t # s => coll'[t] = coll[t]
           /\ coll'[s].any
           /\ \A t \in Storages : coll[t].any => coll'[t].any
           /\ same \/ ~coll[s].any => coll'[s].first = doc
           /\ ~same /\ coll[s].any => coll'[s].first = coll[s].first
           /\ same => coll'[s].more = coll[s].more
           /\ ~coll[s].any => coll'[s].more = 0
<1>0. coll \in [Storages -> CollType] /\ coll[s] \in CollType /\ (coll[s].any => coll[s].exists)
  BY DEF Typed, CollOK
<1>1. CASE same
  <2> DEFINE new == [coll[s] EXCEPT !.first = doc]
  <2>1. new \in CollType /\ new.any = coll[s].any /\ new.exists = coll[s].exists
          /\ new.first = doc /\ new.more = coll[s].more
    BY <1>0 DEF CollType
  <2>2. coll' = [coll EXCEPT ![s] = new]
    BY <1>1 DEF Save
  <2> HIDE DEF new
  <2>3. QED
    BY <1>0, <1>1, <2>1, <2>2 DEF CollOK, Typed
<1>2. CASE ~same /\ coll[s].any
  <2> DEFINE new == [coll[s] EXCEPT !.more = @ + 1]
  <2>1. coll[s].more < MaxMore /\ coll' = [coll EXCEPT ![s] = new]
    BY <1>2 DEF Save, Insert
  <2>2. coll[s].more + 1 \in 0..MaxMore
    BY <1>0, <2>1, MaxMoreAssumption DEF CollType
  <2>3. new \in CollType /\ new.any = coll[s].any /\ new.exists = coll[s].exists
          /\ new.first = coll[s].first
    BY <1>0, <2>2 DEF CollType
  <2> HIDE DEF new
  <2>4. QED
    BY <1>0, <1>2, <2>1, <2>3 DEF CollOK, Typed
<1>3. CASE ~same /\ ~coll[s].any
  <2> DEFINE new == [Created EXCEPT !.any = TRUE, !.first = doc]
  <2>1. coll' = [coll EXCEPT ![s] = new]
    BY <1>3 DEF Save, Insert
  <2>2. new \in CollType /\ new.any /\ new.exists /\ new.first = doc /\ new.more = 0
    BY CollShapes
  <2> HIDE DEF new
  <2>3. QED
    BY <1>0, <1>3, <2>1, <2>2 DEF CollOK, Typed
<1>4. QED
  BY <1>1, <1>2, <1>3

\* One call ends, and the collections hold no fewer documents.
LEMMA Ends ==
    ASSUME Typed, NEW c \in Clients, NEW r \in Results, Finish(c, r), CollOK',
           \A s \in Storages : coll[s].any => coll'[s].any
    PROVE  /\ CallOK' /\ Linked'
           /\ \A b \in Clients : b # c => call'[b] = call[b]
           /\ call'[c].op = "idle"
<1> DEFINE d == [Idle EXCEPT !.result = r]
<1>1. d \in Calls /\ Fits(d) /\ d.op = "idle" /\ ~d.same
  BY IdleIs
<1>2. call' = [call EXCEPT ![c] = d]
  BY DEF Finish
<1> HIDE DEF d
<1>3. \A b \in Clients : call'[b] = IF b = c THEN d ELSE call[b]
  BY <1>2 DEF Typed, CallOK
<1>4. CallOK'
  BY <1>1, <1>2 DEF Typed, CallOK
<1>5. Linked'
  BY <1>1, <1>3 DEF Typed, Linked
<1>6. QED
  BY <1>1, <1>3, <1>4, <1>5

LEMMA FinishEnds ==
    ASSUME Typed, NEW c \in Clients, NEW r \in Results, Finish(c, r), UNCHANGED <<coll, overlapped, inserted>>
    PROVE  Typed' /\ call'[c].op = "idle" /\ \A b \in Clients : b # c => call'[b] = call[b]
<1>1. CollOK' /\ \A s \in Storages : coll[s].any => coll'[s].any
  BY DEF Typed, CollOK
<1>2. QED
  BY <1>1, Ends DEF Typed

LEMMA Begins ==
    ASSUME Typed, NEW c \in Clients, NEW op \in Ops \ {"idle"}, NEW s \in Storages,
           NEW p \in Path \cup {None}, NEW v \in Values \cup {Nothing},
           op = "set" => p \in Path /\ v \in Values /\ (p.name # None => v.is = "scalar"),
           op = "erase" => p \in Path, Begin(c, op, s, p, v)
    PROVE  Typed'
<1> DEFINE d == [Idle EXCEPT !.op = op, !.at = "exists", !.s = s, !.path = p, !.value = v]
<1>1. /\ d \in Calls
      /\ d.op = op /\ d.at = "exists" /\ d.s = s /\ d.path = p /\ d.value = v /\ ~d.same
      /\ d.doc = Empty
  BY EmptyIs DEF Idle, Calls, Ops
<1>2. call' = [call EXCEPT ![c] = d] /\ UNCHANGED <<coll, inserted>> /\ overlapped' \in BOOLEAN
  BY DEF Begin, Typed
<1> HIDE DEF d
<1>3. Fits(d)
  BY <1>1 DEF Fits
<1>4. QED
  BY <1>1, <1>2, <1>3, CallMoves DEF Typed

\* A call goes on to its next command.
LEMMA Advances ==
    ASSUME Typed, NEW c \in Clients, NEW a \in {"find", "save", "drop"},
           call[c].at = "exists", call[c].op = "set" => a # "drop",
           a = "find" => call[c].op # "exists storage",
           call' = [call EXCEPT ![c].at = a], UNCHANGED <<coll, overlapped, inserted>>
    PROVE  Typed'
<1> DEFINE d == [call[c] EXCEPT !.at = a]
<1>0. call[c] \in Calls /\ Fits(call[c])
  BY DEF Typed, CallOK
<1>1. /\ d \in Calls
      /\ d.op = call[c].op /\ d.at = a /\ d.s = call[c].s /\ d.path = call[c].path
      /\ d.value = call[c].value /\ d.same = call[c].same /\ d.doc = call[c].doc
  BY <1>0 DEF Calls
<1>2. call' = [call EXCEPT ![c] = d]
  OBVIOUS
<1> HIDE DEF d
<1>3. Fits(d) /\ ~d.same
  BY <1>0, <1>1 DEF Fits
<1>4. QED
  BY <1>1, <1>2, <1>3, CallMoves DEF Typed

\* A call has read its document.
LEMMA HasRead ==
    ASSUME Typed, NEW c \in Clients, NEW doc \in Doc, NEW v \in Values \cup {Nothing},
           NEW same \in BOOLEAN, call[c].at = "find", same => coll[call[c].s].any,
           call' = [call EXCEPT ![c] = [@ EXCEPT !.at = "save", !.doc = doc, !.path = None,
                                                 !.value = v, !.same = same]],
           UNCHANGED <<coll, overlapped, inserted>>
    PROVE  /\ Typed'
           /\ \A b \in Clients : b # c => call'[b] = call[b]
           /\ call'[c].op = call[c].op /\ call'[c].at = "save" /\ call'[c].s = call[c].s
           /\ call'[c].doc = doc /\ call'[c].same = same
<1> DEFINE d == [call[c] EXCEPT !.at = "save", !.doc = doc, !.path = None, !.value = v,
                                !.same = same]
<1>0. call[c] \in Calls /\ Fits(call[c]) /\ call \in [Clients -> Calls]
  BY DEF Typed, CallOK
<1>1. /\ d \in Calls
      /\ d.op = call[c].op /\ d.at = "save" /\ d.s = call[c].s /\ d.same = same /\ d.doc = doc
  BY <1>0 DEF Calls
<1>2. call' = [call EXCEPT ![c] = d]
  OBVIOUS
<1> HIDE DEF d
<1>3. Fits(d)
  BY <1>0, <1>1 DEF Fits
<1>4. ~d.same \/ coll[d.s].any
  BY <1>1
<1>5. Typed'
  BY <1>1, <1>2, <1>3, <1>4, CallMoves DEF Typed
<1>6. QED
  BY <1>0, <1>1, <1>2, <1>5

----------------------------------------------------------------------------
(* Type correctness, an action at a time.                                  *)

LEMMA ResultsAre == {"true", "false", "threw", "whole", "part", "other", "unset"} \subseteq Results
  BY DEF Results

LEMMA DropTyped ==
    ASSUME Typed, NEW c \in Clients, DropNow(c)
    PROVE  /\ Typed'
           /\ \A b \in Clients : call'[b].op = IF b = c THEN "idle" ELSE call[b].op
           /\ call[c].s \in Storages /\ coll' = [coll EXCEPT ![call[c].s] = Missing]
<1> DEFINE s == call[c].s
           r == IF call[c].op # "erase all" \/ coll[s].exists THEN "true" ELSE "false"
           d == [Idle EXCEPT !.result = r]
<1>1. s \in Storages
  BY DEF DropNow, Typed, CallOK, Fits
<1>2. r \in Results /\ d \in Calls /\ Fits(d) /\ d.op = "idle" /\ ~d.same
  BY IdleIs, ResultsAre
<1>3. /\ call' = [DroppedCalls(s) EXCEPT ![c] = d]
      /\ coll' = [coll EXCEPT ![s] = Missing]
      /\ inserted' = inserted \ {s} /\ overlapped' = overlapped
  BY DEF DropNow, Drop
<1> HIDE DEF d, r, s
<1>4. \A b \in Clients : /\ DroppedCalls(s)[b] \in Calls /\ Fits(DroppedCalls(s)[b])
                         /\ DroppedCalls(s)[b].s = call[b].s
                         /\ DroppedCalls(s)[b].op = call[b].op
                         /\ DroppedCalls(s)[b].same => call[b].same /\ call[b].s # s
  BY UnlinkedIs DEF DroppedCalls, Typed, CallOK
<1>5. \A b \in Clients : call'[b] = IF b = c THEN d ELSE DroppedCalls(s)[b]
  BY <1>3 DEF DroppedCalls
<1>6. call' \in [Clients -> Calls]
  BY <1>2, <1>3, <1>4 DEF DroppedCalls
<1>7. CallOK'
  BY <1>2, <1>4, <1>5, <1>6 DEF CallOK
<1>8. CollOK'
  BY <1>1, <1>3, CollShapes, EmptyIs DEF Typed, CollOK
<1>9. Linked'
  BY <1>2, <1>3, <1>4, <1>5 DEF Typed, Linked, CollOK
<1>10. Typed'
  BY <1>3, <1>7, <1>8, <1>9 DEF Typed
<1>11. QED
  BY <1>1, <1>2, <1>3, <1>4, <1>5, <1>10 DEF s

LEMMA SaveEnds ==
    ASSUME Typed, NEW c \in Clients, call[c].at = "save", call[c].op # "idle",
           Save(call[c].s, call[c].doc, call[c].same),
           \E result \in {"true", "threw"} : Finish(c, result), UNCHANGED <<overlapped, inserted>>
    PROVE  Typed' /\ call'[c].op = "idle" /\ \A b \in Clients : b # c => call'[b] = call[b]
<1>1. call[c] \in Calls /\ call[c].s \in Storages
  BY DEF Typed, CallOK, Fits
<1>2. call[c].doc \in Doc /\ call[c].same \in BOOLEAN /\ (call[c].same => coll[call[c].s].any)
  BY <1>1 DEF Calls, Typed, Linked
<1>3. CollOK' /\ \A t \in Storages : coll[t].any => coll'[t].any
  BY <1>1, <1>2, Saves
<1>4. PICK r \in Results : Finish(c, r)
  BY ResultsAre
<1>5. QED
  BY <1>3, <1>4, Ends DEF Typed

LEMMA StorageSaved ==
    ASSUME Typed, NEW c \in Clients, SetStorage(c)
    PROVE  Typed' /\ call'[c].op = "idle" /\ \A b \in Clients : b # c => call'[b] = call[b]
<1>1. PICK s \in Storages, doc \in Doc, same \in BOOLEAN :
         /\ same => coll[s].any
         /\ Save(s, doc, same)
         /\ inserted' = IF ~same /\ coll[s].any THEN inserted \cup {s} ELSE inserted
  BY DEF SetStorage
<1>2. overlapped' \in BOOLEAN
  BY DEF SetStorage, Typed
<1>3. PICK r \in Results : Finish(c, r)
  BY ResultsAre DEF SetStorage
<1>4. CollOK' /\ \A t \in Storages : coll[t].any => coll'[t].any
  BY <1>1, Saves
<1>5. inserted' \in SUBSET Storages
  BY <1>1 DEF Typed
<1>6. QED
  BY <1>2, <1>3, <1>4, <1>5, Ends DEF Typed

LEMMA ReadResults ==
    ASSUME NEW doc \in Doc, NEW path \in Path \cup {None}, NEW nested \in BOOLEAN
    PROVE  /\ ExistsKey(doc, path) \in Results
           /\ GetJson(doc, path, nested) \in Results
           /\ GetString(doc, path) \in Results
<1>1. ExistsKey(doc, path) \in Results /\ GetJson(doc, path, nested) \in Results
  BY ResultsAre DEF ExistsKey, GetJson
<1>2. CASE path = None
  BY <1>1, <1>2, ResultsAre DEF GetString
<1>3. CASE path # None
  <2>1. Find(doc, path).is \in {"nothing", "scalar", "array", "object"}
    BY <1>3, FindIs, StoredIs
  <2>2. QED
    BY <1>1, <1>3, <2>1, ResultsAre DEF GetString
<1>4. QED
  BY <1>2, <1>3

LEMMA ClearTyped == ASSUME Typed, NEW c \in Clients, ClearBegin(c) PROVE Typed'
<1>1. PICK s \in Storages, op \in {"clear", "erase all"} :
         call' = [call EXCEPT ![c] = [Idle EXCEPT !.op = op, !.at = "drop", !.s = s]]
  BY DEF ClearBegin
<1> DEFINE d == [Idle EXCEPT !.op = op, !.at = "drop", !.s = s]
<1>2. d \in Calls /\ d.op = op /\ d.at = "drop" /\ d.s = s /\ ~d.same
  BY EmptyIs DEF Idle, Calls
<1>3. call' = [call EXCEPT ![c] = d]
  BY <1>1
<1> HIDE DEF d
<1>4. Fits(d)
  BY <1>2 DEF Fits
<1>5. UNCHANGED <<coll, inserted>> /\ overlapped' \in BOOLEAN
  BY DEF ClearBegin, Typed
<1>6. QED
  BY <1>2, <1>3, <1>4, <1>5, CallMoves DEF Typed

LEMMA ReadFindTyped == ASSUME Typed, NEW c \in Clients, ReadFind(c) PROVE Typed'
<1> DEFINE op == call[c].op
           read == coll[call[c].s]
           r(nested) == CASE op = "exists" -> ExistsKey(read.first, call[c].path)
                          [] op = "get json" -> GetJson(read.first, call[c].path, nested)
                          [] op = "get string" -> GetString(read.first, call[c].path)
                          [] op = "get storage json" -> IF read.any THEN "whole" ELSE "false"
                          [] op = "get storage string" -> "whole"
<1>1. call[c] \in Calls /\ Fits(call[c]) /\ op \in Reads /\ call[c].at = "find"
  BY DEF ReadFind, Typed, CallOK
<1>2. read \in CollType /\ op # "exists storage" /\ call[c].path \in Path \cup {None}
  BY <1>1 DEF Fits, Typed, CollOK, Reads, Calls
<1>3. read.first \in Doc
  BY <1>2 DEF CollType
<1>4. \A nested \in BOOLEAN : r(nested) \in Results
  <2> HIDE DEF op, read
  <2>1. op \in {"exists", "get json", "get string", "get storage json", "get storage string"}
    BY <1>1, <1>2 DEF Reads
  <2>2. QED
    BY <1>2, <1>3, <2>1, ReadResults, ResultsAre
<1>5. PICK nested \in BOOLEAN : Finish(c, r(nested)) /\ UNCHANGED <<coll, overlapped, inserted>>
  BY DEF ReadFind
<1> HIDE DEF r
<1>6. QED
  BY <1>4, <1>5, FinishEnds

LEMMA BeginsTyped ==
    ASSUME Typed, NEW c \in Clients,
           SetBegin(c) \/ CreateBegin(c) \/ EraseBegin(c) \/ ReadBegin(c) \/ ReadAllBegin(c)
    PROVE  Typed'
<1>1. CASE SetBegin(c)
  <2>1. PICK s \in Storages, p \in Path, v \in Values :
           (p.name # None => v.is = "scalar") /\ Begin(c, "set", s, p, v)
    BY <1>1 DEF SetBegin
  <2>2. QED
    BY <2>1, Begins DEF Ops
<1>2. CASE CreateBegin(c)
  BY <1>2, Begins DEF CreateBegin, Ops
<1>3. CASE EraseBegin(c)
  BY <1>3, Begins DEF EraseBegin, Ops
<1>4. CASE ReadBegin(c)
  <2>1. PICK s \in Storages, op \in Reads, p \in Path \cup {None} : Begin(c, op, s, p, Nothing)
    BY <1>4 DEF ReadBegin
  <2>2. op \in Ops \ {"idle"} /\ op # "set" /\ op # "erase"
    BY DEF Reads, Ops
  <2>3. QED
    BY <2>1, <2>2, Begins
<1>5. CASE ReadAllBegin(c)
  <2>1. PICK s \in Storages, op \in {"get json", "get string"} : Begin(c, op, s, None, Nothing)
    BY <1>5 DEF ReadAllBegin
  <2>2. op \in Ops \ {"idle"} /\ op # "set" /\ op # "erase"
    BY DEF Reads, Ops
  <2>3. QED
    BY <2>1, <2>2, Begins
<1>6. QED
  BY <1>1, <1>2, <1>3, <1>4, <1>5

LEMMA SetFindReads ==
    ASSUME Typed, NEW c \in Clients, SetFind(c)
    PROVE  LET s == call[c].s
               doc == AfterSet(coll[s].first, call[c].path, call[c].value) IN
             /\ Typed'
             /\ \A b \in Clients : b # c => call'[b] = call[b]
             /\ call'[c].op = "set" /\ call'[c].at = "save" /\ call'[c].s = s
             /\ call'[c].doc = doc /\ call'[c].same = coll[s].any
             /\ s \in Storages /\ \A k \in Keys : Contains(doc[k], coll[s].first[k])
<1> DEFINE s == call[c].s
           doc == AfterSet(coll[s].first, call[c].path, call[c].value)
<1>1. call[c].op = "set" /\ call[c].at = "find" /\ Fits(call[c])
  BY DEF SetFind, Typed, CallOK
<1>2. s \in Storages /\ call[c].path \in Path /\ call[c].value \in Values
        /\ (call[c].path.name # None => call[c].value.is = "scalar")
  BY <1>1 DEF Fits
<1>3. coll[s] \in CollType
  BY <1>2 DEF Typed, CollOK
<1>4. coll[s].first \in Doc /\ coll[s].any \in BOOLEAN
  BY <1>3 DEF CollType
<1>5. doc \in Doc /\ \A k \in Keys : Contains(doc[k], coll[s].first[k])
  BY <1>2, <1>4, AfterSetGrows
<1>6. call' = [call EXCEPT ![c] = [@ EXCEPT !.at = "save", !.doc = doc, !.path = None,
                                            !.value = Nothing, !.same = coll[s].any]]
        /\ UNCHANGED <<coll, overlapped, inserted>>
  BY DEF SetFind
<1> HIDE DEF doc
<1>7. /\ Typed'
      /\ \A b \in Clients : b # c => call'[b] = call[b]
      /\ call'[c].op = call[c].op /\ call'[c].at = "save" /\ call'[c].s = s
      /\ call'[c].doc = doc /\ call'[c].same = coll[s].any
  BY <1>1, <1>4, <1>5, <1>6, HasRead
<1>8. QED
  BY <1>1, <1>2, <1>5, <1>7 DEF doc

LEMMA EraseFindReads ==
    ASSUME Typed, NEW c \in Clients, EraseFind(c)
    PROVE  /\ Typed' /\ \A b \in Clients : b # c => call'[b] = call[b]
           /\ \/ call'[c].op = "idle"
              \/ call'[c].op = "erase" /\ call'[c].same
<1> DEFINE s == call[c].s
           doc == AfterErase(coll[s].first, call[c].path)
<1>1. call[c].op = "erase" /\ call[c].at = "find" /\ Fits(call[c]) /\ call[c] \in Calls
        /\ UNCHANGED <<coll, overlapped, inserted>>
  BY DEF EraseFind, Typed, CallOK
<1>2. s \in Storages /\ call[c].path \in Path /\ call[c].value \in Values \cup {Nothing}
  BY <1>1 DEF Fits, Calls
<1>3. coll[s] \in CollType
  BY <1>2 DEF Typed, CollOK
<1>4. coll[s].first \in Doc
  BY <1>3 DEF CollType
<1>5. doc \in Doc
  BY <1>2, <1>4, AfterEraseDoc
<1>6. CASE coll[s].any
  <2>1. call' = [call EXCEPT ![c] = [@ EXCEPT !.at = "save", !.doc = doc, !.path = None,
                                              !.same = TRUE]]
    BY <1>6 DEF EraseFind
  <2> HIDE DEF doc
  <2>2. [call[c] EXCEPT !.at = "save", !.doc = doc, !.path = None, !.same = TRUE]
          = [call[c] EXCEPT !.at = "save", !.doc = doc, !.path = None, !.value = call[c].value,
                            !.same = TRUE]
    BY <1>1 DEF Calls
  <2>3. call' = [call EXCEPT ![c] = [@ EXCEPT !.at = "save", !.doc = doc, !.path = None,
                                              !.value = call[c].value, !.same = TRUE]]
    BY <2>1, <2>2
  <2>4. /\ Typed'
        /\ \A b \in Clients : b # c => call'[b] = call[b]
        /\ call'[c].op = call[c].op /\ call'[c].same = TRUE
    BY <1>1, <1>2, <1>5, <1>6, <2>3, HasRead
  <2>5. QED
    BY <1>1, <2>4
<1>7. CASE ~coll[s].any
  BY <1>1, <1>7, FinishEnds, ResultsAre DEF EraseFind
<1>8. QED
  BY <1>6, <1>7

LEMMA AdvancesTyped ==
    ASSUME Typed, NEW c \in Clients,
           SetExists(c) \/ CreateExists(c) \/ EraseExists(c) \/ ReadExists(c)
    PROVE  Typed'
<1>1. CASE SetExists(c)
  <2> DEFINE a == IF coll[call[c].s].exists THEN "find" ELSE "save"
  <2>1. call[c].op = "set" /\ call[c].at = "exists" /\ call' = [call EXCEPT ![c].at = a]
          /\ UNCHANGED <<coll, overlapped, inserted>> /\ a \in {"find", "save"}
    BY <1>1 DEF SetExists
  <2> HIDE DEF a
  <2>2. QED
    BY <2>1, Advances
<1>2. CASE CreateExists(c)
  <2> DEFINE a == IF coll[call[c].s].exists THEN "drop" ELSE "save"
  <2>1. call[c].op = "create" /\ call[c].at = "exists" /\ call' = [call EXCEPT ![c].at = a]
          /\ UNCHANGED <<coll, overlapped, inserted>> /\ a \in {"drop", "save"}
    BY <1>2 DEF CreateExists
  <2> HIDE DEF a
  <2>2. QED
    BY <2>1, Advances
<1>3. CASE EraseExists(c)
  <2>1. CASE coll[call[c].s].exists
    BY <1>3, <2>1, Advances DEF EraseExists
  <2>2. CASE ~coll[call[c].s].exists
    BY <1>3, <2>2, FinishEnds, ResultsAre DEF EraseExists
  <2>3. QED
    BY <2>1, <2>2
<1>4. CASE ReadExists(c)
  <2> DEFINE here == coll[call[c].s].exists
             op == call[c].op
  <2>1. op \in Reads /\ call[c].at = "exists" /\ UNCHANGED <<coll, overlapped, inserted>>
    BY <1>4 DEF ReadExists
  <2>2. CASE here /\ op # "exists storage"
    <3>1. call' = [call EXCEPT ![c].at = "find"] /\ op # "set"
      BY <1>4, <2>1, <2>2 DEF ReadExists, Reads
    <3>2. QED
      BY <2>1, <2>2, <3>1, Advances
  <2>3. CASE ~(here /\ op # "exists storage")
    <3> DEFINE r == CASE here -> "true"
                      [] op = "get json" -> "unset"
                      [] op = "get string" -> "threw"
                      [] OTHER -> "false"
    <3>1. Finish(c, r)
      BY <1>4, <2>3 DEF ReadExists
    <3>2. r \in Results
      BY ResultsAre
    <3> HIDE DEF r
    <3>3. QED
      BY <2>1, <3>1, <3>2, FinishEnds
  <2>4. QED
    BY <2>2, <2>3
<1>5. QED
  BY <1>1, <1>2, <1>3, <1>4

LEMMA CreateNewTyped ==
    ASSUME Typed, NEW c \in Clients, CreateNew(c)
    PROVE  /\ Typed' /\ call'[c].op = "idle" /\ \A b \in Clients : b # c => call'[b] = call[b]
           /\ \A s \in Storages : coll'[s].more > 0 => coll[s].more > 0
<1> DEFINE s == call[c].s
           r == IF coll[s].exists THEN "false" ELSE "true"
<1>1. s \in Storages
  BY DEF CreateNew, Typed, CallOK, Fits
<1>2. coll' = IF coll[s].exists THEN coll ELSE [coll EXCEPT ![s] = Created]
  BY DEF CreateNew
<1>3. Finish(c, r) /\ UNCHANGED <<overlapped, inserted>> /\ r \in Results
  BY ResultsAre DEF CreateNew
<1>4. /\ CollOK'
      /\ \A t \in Storages : /\ coll[t].any => coll'[t].any
                             /\ coll'[t].more > 0 => coll[t].more > 0
  <2>1. Created \in CollType /\ Created.exists /\ Created.first = Empty /\ Created.more = 0
    BY CollShapes, EmptyIs
  <2>2. CASE coll[s].exists
    BY <1>2, <2>2 DEF Typed, CollOK
  <2>3. CASE ~coll[s].exists
    <3>1. ~coll[s].any
      BY <1>1, <2>3 DEF Typed, CollOK
    <3>2. coll' \in [Storages -> CollType]
      BY <1>2, <2>1, <2>3 DEF Typed, CollOK
    <3>3. \A t \in Storages : coll'[t] = IF t = s THEN Created ELSE coll[t]
      BY <1>2, <2>3 DEF Typed, CollOK
    <3>4. CollOK'
      BY <2>1, <3>2, <3>3 DEF Typed, CollOK
    <3>5. QED
      BY <2>1, <3>1, <3>3, <3>4
  <2>4. QED
    BY <2>2, <2>3
<1> HIDE DEF r
<1>5. QED
  BY <1>3, <1>4, Ends DEF Typed

LEMMA InitTyped == Init => Typed
<1> SUFFICES ASSUME Init PROVE Typed
  OBVIOUS
<1>1. CollOK
  BY CollShapes, EmptyIs DEF Init, CollOK
<1>2. Idle \in Calls /\ Fits(Idle) /\ ~Idle.same
  BY EmptyIs DEF Idle, Calls, Fits
<1>3. CallOK /\ Linked
  BY <1>2 DEF Init, CallOK, Linked
<1>4. QED
  BY <1>1, <1>3 DEF Init, Typed

LEMMA NextTyped == Typed /\ [Next]_vars => Typed'
<1> SUFFICES ASSUME Typed, [Next]_vars PROVE Typed'
  OBVIOUS
<1>1. CASE UNCHANGED vars
  BY <1>1 DEF vars, Typed, CollOK, CallOK, Linked
<1>2. ASSUME NEW c \in Clients, SetStep(c) PROVE Typed'
  <2>1. CASE SetBegin(c) \/ SetExists(c)
    BY <2>1, BeginsTyped, AdvancesTyped
  <2>2. CASE SetFind(c)
    BY <2>2, SetFindReads
  <2>3. CASE SetSave(c)
    BY <2>3, SaveEnds DEF SetSave
  <2>4. CASE SetStorage(c)
    BY <2>4, StorageSaved
  <2>5. QED
    BY <1>2, <2>1, <2>2, <2>3, <2>4 DEF SetStep
<1>3. ASSUME NEW c \in Clients, CreateStep(c) PROVE Typed'
  BY <1>3, BeginsTyped, AdvancesTyped, CreateNewTyped DEF CreateStep
<1>4. ASSUME NEW c \in Clients, EraseStep(c) PROVE Typed'
  <2>1. CASE ClearBegin(c) \/ DropNow(c)
    BY <2>1, ClearTyped, DropTyped
  <2>2. CASE EraseBegin(c) \/ EraseExists(c)
    BY <2>2, BeginsTyped, AdvancesTyped
  <2>3. CASE EraseFind(c)
    BY <2>3, EraseFindReads
  <2>4. CASE EraseSave(c)
    BY <2>4, SaveEnds DEF EraseSave
  <2>5. QED
    BY <1>4, <2>1, <2>2, <2>3, <2>4 DEF EraseStep
<1>5. ASSUME NEW c \in Clients, ReadStep(c) PROVE Typed'
  BY <1>5, BeginsTyped, AdvancesTyped, ReadFindTyped DEF ReadStep
<1>6. ASSUME NEW c \in Clients, Fail(c) PROVE Typed'
  BY <1>6, FinishEnds, ResultsAre DEF Fail
<1>7. QED
  BY <1>1, <1>2, <1>3, <1>4, <1>5, <1>6 DEF Next

(* Type correctness of the calls and the collections, whatever commands of     *)
(* other clients come between those of a call and whichever fail.              *)
THEOREM MongoTypeCorrect == Spec => []TypeOK
<1>1. Spec => []Typed
  BY InitTyped, NextTyped, PTL DEF Spec
<1>2. QED
  BY <1>1, TypedIsType, PTL

----------------------------------------------------------------------------
(* Calls that come one after the other.                                    *)

Busy(c) == call[c].op # "idle"

\* What a lone call is about to save: the document it has read, or the first.
Ready(d, cs) ==
    /\ d.op \in {"set", "erase"} /\ d.at = "save" /\ cs[d.s].any => d.same
    /\ d.op = "set" /\ d.at = "save" /\ d.same =>
          \A k \in Keys : Contains(d.doc[k], cs[d.s].first[k])

Alone ==
    ~overlapped =>
        /\ \A b, c \in Clients : Busy(b) /\ Busy(c) => b = c
        /\ \A c \in Clients : Ready(call[c], coll)

Inv == Typed /\ OneDocument /\ Alone

LEMMA BegunAlone ==
    ASSUME Typed, Alone, NEW c \in Clients, ~Busy(c), call'[c].at # "save",
           \A b \in Clients : b # c => call'[b] = call[b],
           overlapped' = (overlapped \/ \E d \in Clients : call[d].op # "idle")
    PROVE  Alone'
  BY DEF Alone, Busy, Ready

LEMMA BeginsAlone ==
    ASSUME Typed, Alone, NEW c \in Clients, NEW op, NEW s, NEW p, NEW v, Begin(c, op, s, p, v)
    PROVE  Alone' /\ UNCHANGED <<coll, inserted>>
<1>1. call'[c].at = "exists" /\ \A b \in Clients : b # c => call'[b] = call[b]
  BY DEF Begin, Idle, Typed, CallOK
<1>2. QED
  BY <1>1, BegunAlone DEF Begin, Busy

LEMMA EndedAlone ==
    ASSUME Typed, Alone, NEW c \in Clients, Busy(c), call'[c].op = "idle",
           \A b \in Clients : b # c => call'[b].op = call[b].op, overlapped' = overlapped
    PROVE  Alone'
  BY DEF Alone, Busy, Ready

LEMMA MovedAlone ==
    ASSUME Typed, Alone, NEW c \in Clients, Busy(c),
           \A b \in Clients : b # c => call'[b] = call[b],
           ~overlapped => Ready(call'[c], coll), UNCHANGED <<coll, overlapped>>
    PROVE  Alone'
  BY DEF Alone, Busy

LEMMA AdvancesAlone ==
    ASSUME Typed, Alone, NEW c \in Clients, NEW a \in {"find", "save", "drop"}, Busy(c),
           call[c].at = "exists", call[c].op \in {"set", "erase"} /\ a = "save" => ~coll[call[c].s].any,
           call' = [call EXCEPT ![c].at = a], UNCHANGED <<coll, overlapped>>
    PROVE  Alone'
<1> DEFINE d == [call[c] EXCEPT !.at = a]
<1>1. call[c] \in Calls /\ Fits(call[c])
  BY DEF Typed, CallOK
<1>2. d.op = call[c].op /\ d.at = a /\ d.s = call[c].s /\ ~d.same
  BY <1>1 DEF Calls, Fits
<1>3. call'[c] = d /\ \A b \in Clients : b # c => call'[b] = call[b]
  BY DEF Typed, CallOK
<1> HIDE DEF d
<1>4. Ready(d, coll)
  BY <1>2 DEF Ready
<1>5. QED
  BY <1>3, <1>4, MovedAlone

LEMMA FinishAlone ==
    ASSUME Typed, Alone, NEW c \in Clients, NEW r \in Results, Busy(c), Finish(c, r),
           UNCHANGED <<coll, overlapped, inserted>>
    PROVE  Alone'
<1>1. call'[c].op = "idle" /\ \A b \in Clients : b # c => call'[b] = call[b]
  BY FinishEnds
<1>2. QED
  BY <1>1, EndedAlone

\* What a lone call saves goes in the place of the first document.
LEMMA SaveReplaces ==
    ASSUME Typed, NEW c \in Clients, Ready(call[c], coll), call[c].op \in {"set", "erase"},
           call[c].at = "save", Save(call[c].s, call[c].doc, call[c].same)
    PROVE  /\ call[c].s \in Storages
           /\ call[c].same \/ ~coll[call[c].s].any
           /\ coll'[call[c].s].first = call[c].doc
           /\ \A t \in Storages : t # call[c].s => coll'[t] = coll[t]
           /\ \A t \in Storages : coll'[t].more = coll[t].more \/ coll'[t].more = 0
<1>1. call[c] \in Calls /\ call[c].s \in Storages /\ (call[c].same => coll[call[c].s].any)
  BY DEF Typed, CallOK, Fits, Linked
<1>2. call[c].doc \in Doc /\ call[c].same \in BOOLEAN
  BY <1>1 DEF Calls
<1>3. call[c].same \/ ~coll[call[c].s].any
  BY <1>1 DEF Ready, Typed, CollOK, CollType
<1>4. QED
  BY <1>1, <1>2, <1>3, Saves

LEMMA SavedAlone ==
    ASSUME Inv, NEW c \in Clients, SetSave(c) \/ EraseSave(c)
    PROVE  OneDocument' /\ Alone'
<1>1. /\ Typed /\ Alone /\ Busy(c) /\ call[c].op \in {"set", "erase"} /\ call[c].at = "save"
      /\ Save(call[c].s, call[c].doc, call[c].same) /\ UNCHANGED <<overlapped, inserted>>
      /\ \E result \in {"true", "threw"} : Finish(c, result)
  BY DEF Inv, Busy, SetSave, EraseSave
<1>2. call'[c].op = "idle" /\ \A b \in Clients : b # c => call'[b] = call[b]
  BY <1>1, SaveEnds DEF Busy
<1>3. Alone'
  BY <1>1, <1>2, EndedAlone
<1>4. ASSUME ~overlapped', NEW s \in Storages, coll'[s].more > 0
      PROVE  s \in inserted'
  <2>1. Ready(call[c], coll)
    BY <1>1, <1>4 DEF Alone
  <2>2. coll'[s].more = coll[s].more \/ coll'[s].more = 0
    BY <1>1, <2>1, SaveReplaces
  <2>3. coll[s].more > 0
    BY <1>4, <2>2
  <2>4. QED
    BY <1>1, <1>4, <2>3 DEF Inv, OneDocument
<1>5. QED
  BY <1>3, <1>4 DEF OneDocument

LEMMA StorageAlone ==
    ASSUME Inv, NEW c \in Clients, SetStorage(c)
    PROVE  OneDocument' /\ Alone'
<1>1. /\ Typed /\ ~Busy(c)
      /\ overlapped' = (overlapped \/ \E d \in Clients : call[d].op # "idle")
  BY DEF Inv, SetStorage, Busy
<1>2. call'[c].op = "idle" /\ \A b \in Clients : b # c => call'[b] = call[b]
  BY <1>1, StorageSaved
<1>3. Alone'
  BY <1>1, <1>2 DEF Alone, Busy, Ready
<1>4. PICK s \in Storages, doc \in Doc, same \in BOOLEAN :
         /\ same => coll[s].any
         /\ Save(s, doc, same)
         /\ inserted' = IF ~same /\ coll[s].any THEN inserted \cup {s} ELSE inserted
  BY DEF SetStorage
<1>5. /\ \A t \in Storages : t # s => coll'[t] = coll[t]
      /\ same => coll'[s].more = coll[s].more
      /\ ~coll[s].any => coll'[s].more = 0
  BY <1>1, <1>4, Saves
<1>6. ASSUME ~overlapped', NEW t \in Storages, coll'[t].more > 0
      PROVE  t \in inserted'
  <2>1. \/ coll'[t].more = coll[t].more
        \/ coll'[t].more = 0
        \/ t = s /\ ~same /\ coll[s].any
    BY <1>5
  <2>2. CASE t = s /\ ~same /\ coll[s].any
    BY <1>4, <2>2
  <2>3. CASE coll'[t].more = coll[t].more
    <3>1. ~overlapped /\ coll[t].more > 0
      BY <1>1, <1>6, <2>3
    <3>2. QED
      BY <1>4, <3>1 DEF Inv, OneDocument
  <2>4. CASE coll'[t].more = 0
    BY <1>6, <2>4
  <2>5. QED
    BY <2>1, <2>2, <2>3, <2>4
<1>7. QED
  BY <1>3, <1>6 DEF OneDocument

LEMMA DropAlone ==
    ASSUME Inv, NEW c \in Clients, DropNow(c)
    PROVE  OneDocument' /\ Alone'
<1> DEFINE s == call[c].s
<1>1. Typed /\ Alone /\ Busy(c) /\ overlapped' = overlapped /\ inserted' = inserted \ {s}
  BY DEF Inv, DropNow, Busy, Typed, CallOK, Fits
<1>2. /\ \A b \in Clients : call'[b].op = IF b = c THEN "idle" ELSE call[b].op
      /\ s \in Storages /\ coll' = [coll EXCEPT ![s] = Missing]
  BY <1>1, DropTyped
<1>3. Alone'
  BY <1>1, <1>2, EndedAlone
<1>4. coll'[s].more = 0
  BY <1>1, <1>2, EmptyIs, CollShapes DEF Typed, CollOK
<1>5. \A t \in Storages : t # s => coll'[t] = coll[t]
  BY <1>1, <1>2 DEF Typed, CollOK
<1>6. ASSUME ~overlapped', NEW t \in Storages, coll'[t].more > 0
      PROVE  t \in inserted'
  <2>1. t # s
    BY <1>4, <1>6
  <2>2. QED
    BY <1>1, <1>5, <1>6, <2>1 DEF Inv, OneDocument
<1>7. QED
  BY <1>3, <1>6 DEF OneDocument

LEMMA CreatedAlone ==
    ASSUME Inv, NEW c \in Clients, CreateNew(c)
    PROVE  OneDocument' /\ Alone'
<1>1. Typed /\ Alone /\ Busy(c) /\ UNCHANGED <<overlapped, inserted>>
  BY DEF Inv, CreateNew, Busy
<1>2. /\ call'[c].op = "idle" /\ \A b \in Clients : b # c => call'[b] = call[b]
      /\ \A s \in Storages : coll'[s].more > 0 => coll[s].more > 0
  BY <1>1, CreateNewTyped
<1>3. Alone'
  BY <1>1, <1>2, EndedAlone
<1>4. QED
  BY <1>1, <1>2, <1>3 DEF Inv, OneDocument

LEMMA SetMovesAlone ==
    ASSUME Inv, NEW c \in Clients, SetExists(c) \/ SetFind(c)
    PROVE  Alone' /\ UNCHANGED <<coll, overlapped, inserted>>
<1>1. /\ Typed /\ Alone /\ Busy(c) /\ call[c].op = "set"
      /\ UNCHANGED <<coll, overlapped, inserted>>
  BY DEF Inv, SetExists, SetFind, Busy
<1>2. CASE SetExists(c)
  <2> DEFINE a == IF coll[call[c].s].exists THEN "find" ELSE "save"
  <2>1. call[c].at = "exists" /\ call' = [call EXCEPT ![c].at = a] /\ a \in {"find", "save"}
    BY <1>2 DEF SetExists
  <2>2. a = "save" => ~coll[call[c].s].any
    BY <1>1 DEF Typed, CollOK, CallOK, Fits
  <2> HIDE DEF a
  <2>3. QED
    BY <1>1, <2>1, <2>2, AdvancesAlone
<1>3. CASE SetFind(c)
  <2> DEFINE s == call[c].s
             doc == AfterSet(coll[s].first, call[c].path, call[c].value)
  <2>1. /\ \A b \in Clients : b # c => call'[b] = call[b]
        /\ call'[c].op = "set" /\ call'[c].at = "save" /\ call'[c].s = s
        /\ call'[c].doc = doc /\ call'[c].same = coll[s].any
        /\ \A k \in Keys : Contains(doc[k], coll[s].first[k])
    BY <1>1, <1>3, SetFindReads
  <2> HIDE DEF doc
  <2>2. Ready(call'[c], coll)
    BY <2>1 DEF Ready
  <2>3. QED
    BY <1>1, <2>1, <2>2, MovedAlone
<1>4. QED
  BY <1>1, <1>2, <1>3

LEMMA EraseMovesAlone ==
    ASSUME Inv, NEW c \in Clients, EraseExists(c) \/ EraseFind(c)
    PROVE  Alone' /\ UNCHANGED <<coll, overlapped, inserted>>
<1>1. /\ Typed /\ Alone /\ Busy(c) /\ call[c].op = "erase"
      /\ UNCHANGED <<coll, overlapped, inserted>>
  BY DEF Inv, EraseExists, EraseFind, Busy
<1>2. CASE EraseExists(c) /\ coll[call[c].s].exists
  BY <1>1, <1>2, AdvancesAlone DEF EraseExists
<1>3. CASE EraseExists(c) /\ ~coll[call[c].s].exists
  BY <1>1, <1>3, FinishAlone, ResultsAre DEF EraseExists
<1>4. CASE EraseFind(c)
  <2>1. /\ \A b \in Clients : b # c => call'[b] = call[b]
        /\ call'[c].op = "idle" \/ (call'[c].op = "erase" /\ call'[c].same)
    BY <1>1, <1>4, EraseFindReads
  <2>2. Ready(call'[c], coll)
    BY <2>1 DEF Ready
  <2>3. QED
    BY <1>1, <2>1, <2>2, MovedAlone
<1>5. QED
  BY <1>1, <1>2, <1>3, <1>4

LEMMA OthersMoveAlone ==
    ASSUME Inv, NEW c \in Clients, CreateExists(c) \/ ReadExists(c) \/ ReadFind(c) \/ Fail(c)
    PROVE  Alone' /\ UNCHANGED <<coll, overlapped, inserted>>
<1>1. Typed /\ Alone /\ Busy(c) /\ UNCHANGED <<coll, overlapped, inserted>>
  BY DEF Inv, CreateExists, ReadExists, ReadFind, Fail, Busy, Reads
<1>2. call'[c].op \notin {"set", "erase"} /\ \A b \in Clients : b # c => call'[b] = call[b]
  <2>1. call[c] \in Calls /\ call \in [Clients -> Calls]
    BY <1>1 DEF Typed, CallOK
  <2>2. \A r : [Idle EXCEPT !.result = r].op = "idle"
    BY DEF Idle
  <2>3. \A a : [call[c] EXCEPT !.at = a].op = call[c].op
    BY <2>1 DEF Calls
  <2>4. CASE CreateExists(c)
    BY <2>1, <2>3, <2>4 DEF CreateExists
  <2>5. CASE ReadExists(c)
    <3>1. call[c].op \in Reads /\ "set" \notin Reads /\ "erase" \notin Reads
      BY <2>5 DEF ReadExists, Reads
    <3>2. \/ call' = [call EXCEPT ![c].at = "find"]
          \/ \E r : call' = [call EXCEPT ![c] = [Idle EXCEPT !.result = r]]
      BY <2>5 DEF ReadExists, Finish
    <3>3. QED
      <4>1. CASE call' = [call EXCEPT ![c].at = "find"]
        <5>1. call'[c] = [call[c] EXCEPT !.at = "find"]
                /\ \A b \in Clients : b # c => call'[b] = call[b]
          BY <2>1, <4>1
        <5>2. QED
          BY <2>3, <3>1, <5>1
      <4>2. CASE \E r : call' = [call EXCEPT ![c] = [Idle EXCEPT !.result = r]]
        BY <2>1, <2>2, <4>2
      <4>3. QED
        BY <3>2, <4>1, <4>2
  <2>6. CASE ReadFind(c)
    BY <2>1, <2>2, <2>6 DEF ReadFind, Finish
  <2>7. CASE Fail(c)
    BY <2>1, <2>2, <2>7 DEF Fail, Finish
  <2>8. QED
    BY <2>4, <2>5, <2>6, <2>7
<1>3. Ready(call'[c], coll)
  BY <1>2 DEF Ready
<1>4. QED
  BY <1>1, <1>2, <1>3, MovedAlone

LEMMA StartsAlone ==
    ASSUME Inv, NEW c \in Clients,
           SetBegin(c) \/ CreateBegin(c) \/ ClearBegin(c) \/ EraseBegin(c) \/ ReadBegin(c)
             \/ ReadAllBegin(c)
    PROVE  Alone' /\ UNCHANGED <<coll, inserted>> /\ (overlapped => overlapped')
<1>1. CASE ClearBegin(c)
  <2>1. call'[c].at = "drop" /\ \A b \in Clients : b # c => call'[b] = call[b]
    BY <1>1 DEF ClearBegin, Idle, Inv, Typed, CallOK
  <2>2. QED
    BY <1>1, <2>1, BegunAlone DEF ClearBegin, Busy, Inv
<1>2. CASE ~ClearBegin(c)
  <2>1. PICK op, s, p, v : Begin(c, op, s, p, v)
    BY <1>2 DEF SetBegin, CreateBegin, EraseBegin, ReadBegin, ReadAllBegin
  <2>2. QED
    BY <2>1, BeginsAlone DEF Inv, Begin
<1>3. QED
  BY <1>1, <1>2

LEMMA InitInv == Init => Inv
<1> SUFFICES ASSUME Init PROVE Inv
  OBVIOUS
<1>1. \A s \in Storages : coll[s].more = 0
  BY EmptyIs, CollShapes DEF Init
<1>2. OneDocument
  BY <1>1 DEF OneDocument
<1>3. Alone
  BY DEF Init, Alone, Busy, Ready, Idle
<1>4. QED
  BY <1>2, <1>3, InitTyped DEF Inv

LEMMA NextInv == Inv /\ [Next]_vars => Inv'
<1> SUFFICES ASSUME Inv, [Next]_vars PROVE Inv'
  OBVIOUS
<1>1. Typed'
  BY NextTyped DEF Inv
<1>2. CASE UNCHANGED vars
  BY <1>1, <1>2 DEF vars, Inv, OneDocument, Alone, Busy
<1>3. ASSUME UNCHANGED <<coll, inserted>>, overlapped => overlapped' PROVE OneDocument'
  BY <1>3 DEF Inv, OneDocument
<1>4. ASSUME NEW c \in Clients, SetStep(c) PROVE OneDocument' /\ Alone'
  BY <1>3, <1>4, StartsAlone, SetMovesAlone, SavedAlone, StorageAlone DEF SetStep
<1>5. ASSUME NEW c \in Clients, CreateStep(c) PROVE OneDocument' /\ Alone'
  BY <1>3, <1>5, StartsAlone, OthersMoveAlone, CreatedAlone DEF CreateStep
<1>6. ASSUME NEW c \in Clients, EraseStep(c) PROVE OneDocument' /\ Alone'
  BY <1>3, <1>6, StartsAlone, EraseMovesAlone, DropAlone, SavedAlone DEF EraseStep
<1>7. ASSUME NEW c \in Clients, ReadStep(c) \/ Fail(c) PROVE OneDocument' /\ Alone'
  BY <1>3, <1>7, StartsAlone, OthersMoveAlone DEF ReadStep
<1>8. QED
  BY <1>1, <1>2, <1>4, <1>5, <1>6, <1>7 DEF Next, Inv

LEMMA SpecInv == Spec => []Inv
  BY InitInv, NextInv, PTL DEF Spec

(* Calls that come one after the other keep a storage one document, unless a   *)
(* caller stores a whole value of its own besides.                             *)
THEOREM MongoOneDocument == Spec => []OneDocument
  BY SpecInv, PTL DEF Inv

----------------------------------------------------------------------------
(* What set() does to the documents.                                       *)

LEMMA SetEndsSaving ==
    ASSUME Typed, Next, NEW c \in Clients, call[c].op = "set", call'[c].op = "idle"
    PROVE  SetSave(c) \/ UNCHANGED coll
<1>1. PICK d \in Clients : SetStep(d) \/ CreateStep(d) \/ EraseStep(d) \/ ReadStep(d) \/ Fail(d)
  BY DEF Next
<1>2. CASE SetSave(d) \/ EraseSave(d)
  <2>1. \A b \in Clients : b # d => call'[b] = call[b]
    BY <1>2, SaveEnds DEF SetSave, EraseSave
  <2>2. d = c
    BY <2>1
  <2>3. QED
    BY <1>2, <2>2 DEF EraseSave
<1>3. CASE SetStorage(d)
  <2>1. d # c
    BY <1>3 DEF SetStorage
  <2>2. QED
    BY <1>3, <2>1, StorageSaved
<1>4. CASE CreateNew(d)
  <2>1. d # c
    BY <1>4 DEF CreateNew
  <2>2. QED
    BY <1>4, <2>1, CreateNewTyped
<1>5. CASE DropNow(d)
  <2>1. d # c
    BY <1>5 DEF DropNow, Typed, CallOK, Fits
  <2>2. QED
    BY <1>5, <2>1, DropTyped
<1>6. CASE SetBegin(d) \/ SetExists(d) \/ SetFind(d)
  BY <1>6 DEF SetBegin, SetExists, SetFind, Begin
<1>7. CASE CreateBegin(d) \/ CreateExists(d) \/ Fail(d)
  BY <1>7 DEF CreateBegin, CreateExists, Fail, Begin
<1>8. CASE ClearBegin(d) \/ EraseBegin(d) \/ EraseExists(d) \/ EraseFind(d)
  BY <1>8 DEF ClearBegin, EraseBegin, EraseExists, EraseFind, Begin
<1>9. CASE ReadStep(d)
  BY <1>9 DEF ReadStep, ReadBegin, ReadAllBegin, ReadExists, ReadFind, Begin
<1>10. QED
  BY <1>1, <1>2, <1>3, <1>4, <1>5, <1>6, <1>7, <1>8, <1>9 DEF SetStep, CreateStep, EraseStep

LEMMA StepGrows ==
    ASSUME Inv, [Next]_vars, ~overlapped',
           NEW c \in Clients, call[c].op = "set", call'[c].op = "idle",
           NEW s \in Storages, NEW k \in Keys
    PROVE  Contains(coll'[s].first[k], coll[s].first[k])
<1>1. Next /\ Typed /\ Alone
  BY DEF vars, Inv
<1>2. coll[s] \in CollType
  BY <1>1 DEF Typed, CollOK
<1>3. coll[s].first[k] \in Stored
  BY <1>2 DEF CollType, Doc, Stored
<1>4. CASE UNCHANGED coll
  BY <1>3, <1>4, Same
<1>5. CASE SetSave(c)
  <2>1. Ready(call[c], coll) /\ call[c].at = "save"
    BY <1>1, <1>5 DEF SetSave, Alone
  <2>2. /\ call[c].same \/ ~coll[call[c].s].any
        /\ coll'[call[c].s].first = call[c].doc
        /\ s # call[c].s => coll'[s] = coll[s]
    BY <1>1, <1>5, <2>1, SaveReplaces DEF SetSave
  <2>3. CASE s # call[c].s
    BY <1>3, <2>2, <2>3, Same
  <2>4. CASE s = call[c].s /\ call[c].same
    BY <2>1, <2>2, <2>4 DEF Ready
  <2>5. CASE s = call[c].s /\ ~coll[s].any
    <3>1. coll[s].first[k].is = "nothing"
      BY <1>1, <2>5, EmptyIs DEF Typed, CollOK
    <3>2. QED
      BY <3>1 DEF Contains
  <2>6. QED
    BY <2>2, <2>3, <2>4, <2>5
<1>6. QED
  BY <1>1, <1>4, <1>5, SetEndsSaving

(* No sequence of calls that come one after the other makes a set() with a key *)
(* take anything out of a storage.                                             *)
THEOREM MongoSetsOnlyGrow == Spec => SetsOnlyGrow
<1> DEFINE Grow == ~overlapped' /\ (\E c \in Clients : call[c].op = "set" /\ call'[c].op = "idle") =>
                     \A s \in Storages, k \in Keys :
                         Contains(coll'[s].first[k], coll[s].first[k])
<1>1. Inv /\ [Next]_vars => Grow
  BY StepGrows
<1>2. Inv /\ [Next]_vars => [Grow]_vars
  BY <1>1
<1> HIDE DEF Grow
<1>3. Spec => [][Grow]_vars
  BY <1>2, SpecInv, PTL DEF Spec
<1>4. QED
  BY <1>3 DEF SetsOnlyGrow, Grow
=============================================================================
