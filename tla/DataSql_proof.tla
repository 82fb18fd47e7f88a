--------------------------- MODULE DataSql_proof ---------------------------
(***************************************************************************)
(* Proofs about DataSql for every set of storages, keys, fields and        *)
(* values.  The root frames are coherent only while a set(storage, value)  *)
(* carries one key, hence the hypothesis MaxBatch <= 1 of the theorem that *)
(* says so; the other theorems hold for every MaxBatch.                    *)
(***************************************************************************)
EXTENDS DataSql, FiniteSetTheorems, TLAPS

(* The shape of a state: TypeOK split into the parts the actions disturb.  *)

DatabaseTyped ==
    /\ created \in [Storages -> BOOLEAN]
    /\ row \in [Storages -> [Keys -> RowVal]]

FramesTyped(fr) ==
    /\ fr \in [Storages -> [Keys -> [Paths -> RowVal \cup FieldVals \cup {NoFrame}]]]
    /\ \A s \in Storages, k \in Keys :
          /\ fr[s][k][Root] \in RowVal \cup {NoFrame}
          /\ \A f \in Fields : fr[s][k][f] \in FieldVals \cup {Blank, NoFrame}

CacheTyped ==
    /\ rowsFrame \in [Storages -> BOOLEAN]
    /\ storageFrame \in [Storages -> [Keys -> RowVal] \cup {Blank, NoFrame}]
    /\ FramesTyped(frame)
    /\ storage_changed_ \in BOOLEAN

BatchTyped ==
    Idle \/ /\ batch \in BatchType
            /\ batch.todo \subseteq {k \in Keys : batch.value[k] # Blank}

\* TypeOK is the conjunction of these parts.
LEMMA TypeParts == TypeOK <=> DatabaseTyped /\ CacheTyped /\ BatchTyped
BY DEF TypeOK, DatabaseTyped, CacheTyped, FramesTyped, BatchTyped

Inv == TypeOK /\ FramesImplyTable

\* What the frame of a path may hold.
FrameVal(p) == IF p = Root THEN RowVal \cup {NoFrame} ELSE FieldVals \cup {Blank, NoFrame}

\* A function of frames with a value of the right kind put at one path.
LEMMA SetFrame ==
    ASSUME NEW fr, FramesTyped(fr),
           NEW s \in Storages, NEW k \in Keys, NEW p \in Paths, NEW v \in FrameVal(p)
    PROVE  FramesTyped([fr EXCEPT ![s][k][p] = v])
<1> DEFINE new == [fr EXCEPT ![s][k][p] = v]
<1> USE DEF FramesTyped
<1>1. v \in RowVal \cup FieldVals \cup {NoFrame}
  BY DEF FrameVal, RowVal
<1>2. new \in [Storages -> [Keys -> [Paths -> RowVal \cup FieldVals \cup {NoFrame}]]]
  BY <1>1
<1>3. ASSUME NEW x \in Storages, NEW y \in Keys, NEW q \in Paths
      PROVE  new[x][y][q] = IF x = s /\ y = k /\ q = p THEN v ELSE fr[x][y][q]
  OBVIOUS
<1>4. ASSUME NEW x \in Storages, NEW y \in Keys
      PROVE  new[x][y][Root] \in RowVal \cup {NoFrame}
  BY <1>3 DEF Paths, FrameVal
<1>5. ASSUME NEW x \in Storages, NEW y \in Keys, NEW f \in Fields
      PROVE  new[x][y][f] \in FieldVals \cup {Blank, NoFrame}
  BY <1>3, RootAssumption DEF Paths, FrameVal
<1> HIDE DEF new
<1>6. FramesTyped(new)
  BY <1>2, <1>4, <1>5
<1> QED
  BY <1>6 DEF new

\* FramesImplyTable survives a step about one storage that exists afterwards.
LEMMA OneStorage ==
    ASSUME FramesImplyTable, NEW s \in Storages, created'[s],
           \A x \in Storages : x # s =>
               /\ created'[x] = created[x] /\ row'[x] = row[x]
               /\ rowsFrame'[x] = rowsFrame[x] /\ storageFrame'[x] = storageFrame[x]
               /\ frame'[x] = frame[x]
    PROVE  FramesImplyTable'
BY DEF FramesImplyTable

\* What a read at the root key hands to its caller is a row, null or undefined.
LEMMA RootValueTyped ==
    ASSUME TypeOK, NEW s \in Storages, NEW k \in Keys, NEW up \in BOOLEAN
    PROVE  /\ RootValue(s, k, up) \in RowVal
           /\ ~Undefined(RootValue(s, k, up)) => RootValue(s, k, up) \in Row
           /\ ~Undefined(RootValue(s, k, up)) => created[s] \/ Cached(s, k, Root)
BY SentinelAssumption DEF TypeOK, RootValue, Cached, Selected, RowVal, Undefined

\* Reading a row keeps types, and adds frames only of a table that exists.
LEMMA ReadStepAnyBatch ==
    ASSUME Inv, NEW s \in Storages, NEW k \in Keys, NEW up \in BOOLEAN,
           NEW string \in BOOLEAN, BatchTyped',
           frame' = FrameAfterRead(s, k, up),
           storageFrame' = StorageFrameAfterRead(s, k, up),
           storage_changed_' = ChangedAfterRead(s, k, up, string),
           UNCHANGED <<database, rowsFrame>>
    PROVE  Inv'
<1>1. DatabaseTyped' /\ BatchTyped'
  BY DEF Inv, TypeOK, DatabaseTyped, database
<1>2. rowsFrame' \in [Storages -> BOOLEAN] /\ storage_changed_' \in BOOLEAN
  BY DEF Inv, TypeOK, ChangedAfterRead
<1>3. storageFrame' \in [Storages -> [Keys -> RowVal] \cup {Blank, NoFrame}]
  BY DEF Inv, TypeOK, StorageFrameAfterRead
<1>4. FramesTyped(frame')
  <2> DEFINE v == IF row[s][k] = Null THEN Blank ELSE row[s][k]
  <2>1. FramesTyped(frame)
    BY TypeParts DEF Inv, CacheTyped
  <2>2. row[s][k] \in RowVal
    BY DEF Inv, TypeOK
  <2>3. v \in FrameVal(Root) /\ Root \in Paths
    BY <2>2 DEF FrameVal, RowVal, Paths
  <2>4. CASE frame' = frame
    BY <2>1, <2>4
  <2>5. CASE frame' = [frame EXCEPT ![s][k][Root] = v]
    <3> HIDE DEF v
    <3>1. FramesTyped([frame EXCEPT ![s][k][Root] = v])
      BY <2>1, <2>3, SetFrame
    <3> QED  BY <2>5, <3>1
  <2> QED
    BY <2>4, <2>5 DEF FrameAfterRead
<1>5. FramesImplyTable'
  <2>1. UNCHANGED <<created, row, rowsFrame>>
    BY DEF database
  <2>2. CASE UNCHANGED <<frame, storageFrame>>
    BY <2>1, <2>2 DEF Inv, FramesImplyTable
  <2>3. CASE created[s]
    <3>1. ASSUME NEW x \in Storages, x # s
          PROVE  frame'[x] = frame[x] /\ storageFrame'[x] = storageFrame[x]
      BY <3>1 DEF Inv, TypeOK, FrameAfterRead, StorageFrameAfterRead
    <3> QED
      BY <2>1, <2>3, <3>1, OneStorage DEF Inv
  <2> QED
    BY <2>2, <2>3 DEF FrameAfterRead, StorageFrameAfterRead, Selected
<1>6. CacheTyped'
  BY <1>2, <1>3, <1>4 DEF CacheTyped
<1> QED
  BY <1>1, <1>5, <1>6, TypeParts DEF Inv, TypeOK, CacheTyped, FramesTyped, DatabaseTyped,
      BatchTyped, Idle

\* The calls that only read: ReadStepAnyBatch with the batch unchanged.
LEMMA ReadStep ==
    ASSUME Inv, NEW s \in Storages, NEW k \in Keys, NEW up \in BOOLEAN,
           NEW string \in BOOLEAN, OnlyRead(s, k, up, string)
    PROVE  Inv'
<1>1. BatchTyped'
  BY DEF Inv, TypeOK, OnlyRead, BatchTyped, Idle
<1> QED
  BY <1>1, ReadStepAnyBatch DEF OnlyRead

\* A statement that ran on an existing table keeps Inv.
LEMMA WrittenStep ==
    ASSUME Inv, NEW s \in Storages, NEW k \in Keys, NEW p \in Paths,
           NEW stored \in RowVal, NEW new \in RowVal, NEW atPath,
           p # Root => atPath \in FieldVals \cup {Blank},
           created[s], Written(s, k, p, stored, new, atPath)
    PROVE  Inv'
<1>1. DatabaseTyped' /\ BatchTyped'
  BY DEF Inv, TypeOK, Written, DatabaseTyped, BatchTyped, Idle
<1>2. /\ rowsFrame' \in [Storages -> BOOLEAN] /\ storage_changed_' \in BOOLEAN
      /\ storageFrame' \in [Storages -> [Keys -> RowVal] \cup {Blank, NoFrame}]
  BY DEF Inv, TypeOK, Written, MarkChanged
<1>3. FramesTyped(frame')
  <2> DEFINE fr == [frame EXCEPT ![s][k][Root] = new]
  <2>1. FramesTyped(frame)
    BY TypeParts DEF Inv, CacheTyped
  <2>2. Root \in Paths /\ new \in FrameVal(Root)
    BY DEF Paths, FrameVal
  <2>3. FramesTyped(fr)
    BY <2>1, <2>2, SetFrame
  <2>4. p # Root => atPath \in FrameVal(p)
    BY DEF FrameVal
  <2>5. frame' = IF p = Root THEN fr ELSE [fr EXCEPT ![s][k][p] = atPath]
    BY DEF Written, WriteFrames
  <2> HIDE DEF fr
  <2> QED
    BY <2>3, <2>4, <2>5, SetFrame
<1>4. FramesImplyTable'
  <2>1. ASSUME NEW x \in Storages, x # s
        PROVE  /\ frame'[x] = frame[x] /\ storageFrame'[x] = storageFrame[x]
               /\ row'[x] = row[x]
    BY <2>1 DEF Inv, TypeOK, Written, WriteFrames
  <2> QED
    BY <2>1, OneStorage DEF Inv, Written
<1> QED
  BY <1>1, <1>2, <1>3, <1>4, TypeParts DEF Inv, TypeOK, CacheTyped, FramesTyped,
      DatabaseTyped, BatchTyped, Idle

----------------------------------------------------------------------------
(* What the JSON helpers return.                                           *)

\* Merging into an object gives an object, or null when null is asked for.
LEMMA JsonSetTyped ==
    ASSUME NEW v \in Row, NEW p \in Paths, NEW val \in Input(p)
    PROVE  JsonSet(v, p, val) \in Row \cup {Null}
<1>1. CASE p # Root
  BY <1>1 DEF JsonSet, Input, Row, Paths
<1>2. CASE p = Root /\ val \in Row
  BY <1>2 DEF JsonSet, Row
<1>3. CASE p = Root /\ val \notin Row
  BY <1>3 DEF JsonSet, Input
<1> QED
  BY <1>1, <1>2, <1>3

\* A new row is an object, or null.
LEMMA NewRowTyped ==
    ASSUME NEW p \in Paths, NEW val \in Input(p)
    PROVE  NewRow(p, val) \in Row \cup {Null}
BY DEF NewRow, Input, Row, Paths

----------------------------------------------------------------------------
(* One lemma per operation: it keeps Inv.                                  *)

LEMMA ExistsStep ==
    ASSUME Inv, NEW s \in Storages, NEW up \in BOOLEAN,
           rowsFrame' = RowsFrameAfterExists(s, up),
           storage_changed_' = ChangedAfterExists(s, up),
           UNCHANGED <<database, storageFrame, frame>>, BatchTyped'
    PROVE  Inv'
<1>0. UNCHANGED <<created, row, storageFrame, frame>>
  BY DEF database
<1>1. TypeOK'
  BY DEF Inv, TypeOK, RowsFrameAfterExists, ChangedAfterExists, ExistsResult, database,
         BatchTyped, Idle
<1>2. CASE created[s]
  <2>1. ASSUME NEW x \in Storages, x # s
        PROVE  rowsFrame'[x] = rowsFrame[x]
    BY <2>1 DEF Inv, TypeOK, RowsFrameAfterExists
  <2> QED
    BY <1>0, <1>1, <1>2, <2>1, OneStorage DEF Inv
<1>3. CASE ~created[s]
  <2>1. rowsFrame[s] = FALSE
    BY <1>3 DEF Inv, TypeOK, FramesImplyTable
  <2>2. ExistsResult(s, up) = FALSE
    BY <1>3, <2>1 DEF ExistsResult
  <2>3. rowsFrame' = rowsFrame
    BY <2>1, <2>2 DEF Inv, TypeOK, RowsFrameAfterExists
  <2> QED
    BY <1>0, <1>1, <2>3 DEF Inv, FramesImplyTable
<1> QED
  BY <1>1, <1>2, <1>3 DEF Inv

LEMMA CreateStep ==
    ASSUME Inv, NEW s \in Storages, NEW up \in BOOLEAN, Create(s, up)
    PROVE  Inv'
<1>1. TypeOK'
  <2>1. created' \in [Storages -> BOOLEAN]
    BY DEF Inv, TypeOK, Create
  <2>2. storageFrame' \in [Storages -> [Keys -> RowVal] \cup {Blank, NoFrame}]
    BY DEF Inv, TypeOK, Create
  <2> QED
    BY <2>1, <2>2 DEF Inv, TypeOK, Create, Idle
<1>0. UNCHANGED <<row, rowsFrame, frame>>
  BY DEF Create
<1>2. CASE UNCHANGED <<created, storageFrame>>
  BY <1>0, <1>1, <1>2 DEF Inv, FramesImplyTable
<1>3. CASE created' = [created EXCEPT ![s] = TRUE]
           /\ storageFrame' = [storageFrame EXCEPT ![s] = Blank]
  <2>1. created'[s]
    BY <1>3 DEF Inv, TypeOK
  <2>2. ASSUME NEW x \in Storages, x # s
        PROVE  created'[x] = created[x] /\ storageFrame'[x] = storageFrame[x]
    BY <1>3, <2>2 DEF Inv, TypeOK
  <2> QED
    BY <1>0, <1>1, <2>1, <2>2, OneStorage DEF Inv
<1> QED
  BY <1>1, <1>2, <1>3 DEF Inv, Create

\* A storage frame is written only for a table that exists.
LEMMA StorageFrameStep ==
    ASSUME Inv, NEW s \in Storages, NEW text \in [Keys -> RowVal], created[s],
           storageFrame' = [storageFrame EXCEPT ![s] = text],
           rowsFrame' = rowsFrame \/ rowsFrame' = [rowsFrame EXCEPT ![s] = TRUE],
           storage_changed_' \in BOOLEAN,
           UNCHANGED <<database, frame, batch>>
    PROVE  Inv'
<1>1. TypeOK'
  BY DEF Inv, TypeOK, database, Idle
<1>2. FramesImplyTable'
  <2>1. ASSUME NEW x \in Storages, x # s
        PROVE  rowsFrame'[x] = rowsFrame[x] /\ storageFrame'[x] = storageFrame[x]
    BY <2>1 DEF Inv, TypeOK
  <2>2. UNCHANGED <<created, row, frame>>
    BY DEF database
  <2> QED
    BY <2>1, <2>2, OneStorage DEF Inv
<1> QED
  BY <1>1, <1>2 DEF Inv

LEMMA GetStorageStringStep ==
    ASSUME Inv, NEW s \in Storages, NEW up \in BOOLEAN, GetStorageString(s, up)
    PROVE  Inv'
<1>1. CASE UNCHANGED <<storageFrame, storage_changed_>>
  BY <1>1 DEF Inv, TypeOK, FramesImplyTable, GetStorageString, database, Idle
<1>2. CASE /\ HasRows(s) /\ storage_changed_' = FALSE
           /\ storageFrame' = [storageFrame EXCEPT ![s] = Contents(s)]
  <2>1. Contents(s) \in [Keys -> RowVal]
    <3>1. row[s] \in [Keys -> RowVal]
      BY DEF Inv, TypeOK
    <3> QED  BY <3>1 DEF Contents
  <2> QED
    BY <1>2, <2>1, StorageFrameStep DEF GetStorageString, HasRows
<1> QED
  BY <1>1, <1>2 DEF GetStorageString

LEMMA GetStorageJsonStep ==
    ASSUME Inv, NEW s \in Storages, NEW up \in BOOLEAN, GetStorageJson(s, up)
    PROVE  Inv'
<1>1. BatchTyped'
  BY DEF Inv, TypeOK, GetStorageJson, BatchTyped, Idle
<1>2. CASE storage_changed_' = ChangedAfterExists(s, up) /\ UNCHANGED storageFrame
  BY <1>1, <1>2, ExistsStep DEF GetStorageJson
<1>3. ASSUME NEW first \in Keys, created[s], ExistsResult(s, up), storage_changed_' = FALSE,
             storageFrame' = [storageFrame EXCEPT ![s] =
                 [k \in Keys |-> IF k = first THEN row[s][k] ELSE Blank]]
      PROVE  Inv'
  <2> DEFINE text == [k \in Keys |-> IF k = first THEN row[s][k] ELSE Blank]
  <2>1. text \in [Keys -> RowVal]
    <3>1. row[s] \in [Keys -> RowVal] /\ Blank \in RowVal
      BY DEF Inv, TypeOK, RowVal
    <3> QED  BY <3>1
  <2>2. rowsFrame' = [rowsFrame EXCEPT ![s] = TRUE]
    BY <1>3 DEF GetStorageJson, RowsFrameAfterExists, ExistsResult, Inv, TypeOK
  <2> HIDE DEF text
  <2>3. storageFrame' = [storageFrame EXCEPT ![s] = text]
    BY <1>3 DEF text
  <2> QED
    BY <1>3, <2>1, <2>2, <2>3, StorageFrameStep DEF GetStorageJson
<1> QED
  BY <1>2, <1>3 DEF GetStorageJson

LEMMA GetFieldFromRowStep ==
    ASSUME Inv, NEW s \in Storages, NEW k \in Keys, NEW f \in Fields, NEW up \in BOOLEAN,
           GetFieldFromRow(s, k, f, up)
    PROVE  Inv'
<1> DEFINE v == Find(row[s][k], f)
<1>1. CASE UNCHANGED <<frame, storage_changed_>>
  BY <1>1 DEF Inv, TypeOK, FramesImplyTable, GetFieldFromRow, database, Idle
<1>2. CASE ~Undefined(v) /\ frame' = [frame EXCEPT ![s][k][f] = v] /\ storage_changed_' = FALSE
  <2>1. f \in Paths /\ f # Root /\ created[s]
    BY RootAssumption DEF Paths, GetFieldFromRow, Selected
  <2>2. row[s][k] \in RowVal
    BY DEF Inv, TypeOK
  <2>3. v \in FieldVals
    BY <1>2, <2>1, <2>2 DEF Find, Undefined, RowVal, Row
  <2>4. v \in FrameVal(f)
    BY <2>1, <2>3 DEF FrameVal
  <2> HIDE DEF v
  <2>5. FramesTyped(frame')
    BY <1>2, <2>1, <2>4, SetFrame, TypeParts DEF Inv, CacheTyped
  <2>6. TypeOK'
    BY <1>2, <2>5 DEF Inv, TypeOK, FramesTyped, GetFieldFromRow, database, Idle
  <2>7. FramesImplyTable'
    BY <1>2, <2>1, OneStorage DEF Inv, TypeOK, GetFieldFromRow, database
  <2> QED
    BY <2>6, <2>7 DEF Inv
<1> QED
  BY <1>1, <1>2 DEF GetFieldFromRow

LEMMA GetFieldNothingStep ==
    ASSUME Inv, NEW s \in Storages, NEW k \in Keys, NEW f \in Fields, NEW up \in BOOLEAN,
           NEW string \in BOOLEAN, GetFieldNothing(s, k, f, up, string)
    PROVE  Inv'
<1>1. CASE UNCHANGED <<frame, storageFrame, storage_changed_>>
  BY <1>1 DEF Inv, TypeOK, FramesImplyTable, GetFieldNothing, database, Idle
<1>2. CASE /\ Selected(s, k, up)
           /\ frame' = [frame EXCEPT ![s][k][f] = Blank]
           /\ storageFrame' = [storageFrame EXCEPT ![s] = NoFrame]
           /\ storage_changed_' = (storage_changed_ /\ ~string)
  <2>1. f \in Paths /\ created[s] /\ Blank \in FrameVal(f)
    BY <1>2, RootAssumption DEF Paths, Selected, FrameVal
  <2>2. FramesTyped(frame')
    BY <1>2, <2>1, SetFrame, TypeParts DEF Inv, CacheTyped
  <2>3. TypeOK'
    BY <1>2, <2>2 DEF Inv, TypeOK, FramesTyped, GetFieldNothing, database, Idle
  <2>4. FramesImplyTable'
    BY <1>2, <2>1, OneStorage DEF Inv, TypeOK, GetFieldNothing, database
  <2> QED
    BY <2>3, <2>4 DEF Inv
<1> QED
  BY <1>1, <1>2 DEF GetFieldNothing

LEMMA SetInsertStep ==
    ASSUME Inv, NEW s \in Storages, NEW k \in Keys, NEW p \in Paths, NEW val \in Input(p),
           NEW up \in BOOLEAN, SetInsert(s, k, p, val, up)
    PROVE  Inv'
<1> DEFINE new == NewRow(p, val)
<1>1. CASE OnlyRead(s, k, up, FALSE)
  BY <1>1, ReadStep
<1>2. CASE created[s] /\ Written(s, k, p, new, new, val)
  <2>1. new \in RowVal
    BY NewRowTyped DEF RowVal
  <2>2. p # Root => val \in FieldVals \cup {Blank}
    BY DEF Input
  <2> HIDE DEF new
  <2> QED
    BY <1>2, <2>1, <2>2, WrittenStep
<1> QED
  BY <1>1, <1>2 DEF SetInsert

LEMMA SetUpdateStep ==
    ASSUME Inv, NEW s \in Storages, NEW k \in Keys, NEW p \in Paths, NEW val \in Input(p),
           NEW up \in BOOLEAN, SetUpdate(s, k, p, val, up)
    PROVE  Inv'
<1> DEFINE v == RootValue(s, k, up)
           new == JsonSet(v, p, val)
           stored == Update(row[s][k], new)
<1>1. CASE OnlyRead(s, k, up, FALSE)
  BY <1>1, ReadStep
<1>2. CASE created[s] /\ Written(s, k, p, stored, new, val)
  <2>1. v \in Row
    BY RootValueTyped DEF SetUpdate, SetInserts, Inv
  <2>2. new \in RowVal
    BY <2>1, JsonSetTyped DEF RowVal
  <2>3. stored \in RowVal
    BY <2>2 DEF Update, RowVal
  <2>4. p # Root => val \in FieldVals \cup {Blank}
    BY DEF Input
  <2> HIDE DEF v, new, stored
  <2> QED
    BY <1>2, <2>2, <2>3, <2>4, WrittenStep
<1> QED
  BY <1>1, <1>2 DEF SetUpdate

LEMMA EraseFieldStep ==
    ASSUME Inv, NEW s \in Storages, NEW k \in Keys, NEW f \in Fields, NEW up \in BOOLEAN,
           EraseField(s, k, f, up)
    PROVE  Inv'
<1> DEFINE v == RootValue(s, k, up)
           new == IF Undefined(Find(v, f)) THEN v ELSE [v EXCEPT ![f] = Blank]
           stored == Update(row[s][k], new)
<1>1. v \in Row /\ created[s] /\ Written(s, k, f, stored, new, Find(new, f))
  BY RootValueTyped DEF EraseField, Inv
<1>2. new \in Row
  BY <1>1 DEF Row
<1>3. f \in Paths /\ f # Root
  BY RootAssumption DEF Paths
<1>4. Find(new, f) \in FieldVals \cup {Blank}
  BY <1>2, <1>3 DEF Find, Row
<1>5. new \in RowVal /\ stored \in RowVal
  BY <1>2 DEF Update, RowVal
<1> HIDE DEF v, new, stored
<1> QED
  BY <1>1, <1>3, <1>4, <1>5, WrittenStep

LEMMA EraseRowStep ==
    ASSUME Inv, NEW s \in Storages, NEW k \in Keys, NEW up \in BOOLEAN, EraseRow(s, k, up)
    PROVE  Inv'
<1>1. Root \in Paths /\ NoFrame \in FrameVal(Root) /\ created[s]
  BY DEF Paths, FrameVal, EraseRow
<1>2. FramesTyped(frame')
  BY <1>1, SetFrame, TypeParts DEF Inv, CacheTyped, EraseRow
<1>3. row' \in [Storages -> [Keys -> RowVal]]
  BY DEF Inv, TypeOK, EraseRow, RowVal
<1>4. storageFrame' \in [Storages -> [Keys -> RowVal] \cup {Blank, NoFrame}]
  BY DEF Inv, TypeOK, EraseRow, StorageFrameAfterRead
<1>5. TypeOK'
  BY <1>2, <1>3, <1>4 DEF Inv, TypeOK, FramesTyped, EraseRow, MarkChanged, Idle
<1>6. ASSUME NEW x \in Storages, x # s
      PROVE  row'[x] = row[x] /\ frame'[x] = frame[x] /\ storageFrame'[x] = storageFrame[x]
  BY <1>6 DEF Inv, TypeOK, EraseRow, StorageFrameAfterRead
<1>7. created' = created /\ rowsFrame' = rowsFrame
  BY DEF EraseRow
<1>8. FramesImplyTable'
  BY <1>1, <1>6, <1>7, OneStorage DEF Inv
<1> QED
  BY <1>5, <1>8 DEF Inv

\* Empty frames are typed, and imply nothing.
LEMMA NoFramesStep ==
    ASSUME Inv, DatabaseTyped', BatchTyped', storage_changed_' \in BOOLEAN,
           rowsFrame' = [x \in Storages |-> FALSE],
           storageFrame' = [x \in Storages |-> NoFrame],
           frame' = [x \in Storages |-> [k \in Keys |-> [p \in Paths |-> NoFrame]]],
           \A x \in Storages : created'[x] \/ \A k \in Keys : row'[x][k] = Blank
    PROVE  Inv'
<1>1. FramesTyped(frame')
  BY DEF FramesTyped, Paths
<1>2. TypeOK'
  BY <1>1 DEF TypeOK, FramesTyped, DatabaseTyped, BatchTyped, Idle
<1>3. FramesImplyTable'
  BY DEF FramesImplyTable
<1> QED
  BY <1>2, <1>3 DEF Inv

LEMMA ClearStep ==
    ASSUME Inv, NEW s \in Storages, NEW up \in BOOLEAN, Clear(s, up)
    PROVE  Inv'
<1>1. CASE UNCHANGED <<database, cache>>
  BY <1>1 DEF Inv, TypeOK, FramesImplyTable, Clear, database, cache, Idle
<1>2. CASE /\ EmptyCache(s)
           /\ created' = [created EXCEPT ![s] = FALSE]
           /\ row' = [row EXCEPT ![s] = [k \in Keys |-> Blank]]
  <2>1. DatabaseTyped'
    BY <1>2 DEF Inv, TypeOK, DatabaseTyped, RowVal
  <2>2. BatchTyped' /\ storage_changed_' \in BOOLEAN
    BY DEF Inv, TypeOK, BatchTyped, Clear, Idle
  <2>3. ASSUME NEW x \in Storages
        PROVE  created'[x] \/ \A k \in Keys : row'[x][k] = Blank
    BY <1>2 DEF Inv, TypeOK, FramesImplyTable
  <2> QED
    BY <1>2, <2>1, <2>2, <2>3, NoFramesStep DEF EmptyCache
<1> QED
  BY <1>1, <1>2 DEF Clear

LEMMA RestartStep ==
    ASSUME Inv, Restart
    PROVE  Inv'
<1>1. UNCHANGED <<created, row>>
  BY DEF Restart, database
<1>2. DatabaseTyped' /\ BatchTyped' /\ storage_changed_' \in BOOLEAN
  BY <1>1 DEF Inv, TypeOK, DatabaseTyped, BatchTyped, Restart, Idle
<1> QED
  BY <1>1, <1>2, NoFramesStep DEF Restart, Inv, FramesImplyTable

LEMMA ExpireStep ==
    ASSUME Inv, Expire
    PROVE  Inv'
<1>1. UNCHANGED <<created, row, storage_changed_, batch>>
  BY DEF Expire, database
<1>2. ASSUME NEW s \in Storages, NEW k \in Keys, NEW p \in Paths, frame[s][k][p] # NoFrame,
             frame' = [frame EXCEPT ![s][k][p] = NoFrame], UNCHANGED <<rowsFrame, storageFrame>>
      PROVE  Inv'
  <2>1. FramesTyped(frame')
    <3>1. NoFrame \in FrameVal(p)
      BY DEF FrameVal
    <3> QED
      BY <1>2, <3>1, SetFrame, TypeParts DEF Inv, CacheTyped
  <2>2. created[s]
    BY <1>2 DEF Inv, FramesImplyTable
  <2>3. ASSUME NEW x \in Storages, x # s
        PROVE  frame'[x] = frame[x]
    BY <1>2, <2>3 DEF Inv, TypeOK
  <2>4. FramesImplyTable'
    BY <1>1, <1>2, <2>2, <2>3, OneStorage DEF Inv
  <2>5. TypeOK'
    BY <1>1, <1>2, <2>1 DEF Inv, TypeOK, FramesTyped, Idle
  <2> QED
    BY <2>4, <2>5 DEF Inv
<1>3. ASSUME NEW s \in Storages, storageFrame' = [storageFrame EXCEPT ![s] = NoFrame],
             UNCHANGED <<rowsFrame, frame>>
      PROVE  Inv'
  <2>1. TypeOK'
    BY <1>1, <1>3 DEF Inv, TypeOK, Idle
  <2>2. FramesImplyTable'
    BY <1>1, <1>3 DEF Inv, TypeOK, FramesImplyTable
  <2> QED
    BY <2>1, <2>2 DEF Inv
<1>4. ASSUME NEW s \in Storages, rowsFrame' = [rowsFrame EXCEPT ![s] = FALSE],
             UNCHANGED <<storageFrame, frame>>
      PROVE  Inv'
  <2>1. TypeOK'
    BY <1>1, <1>4 DEF Inv, TypeOK, Idle
  <2>2. FramesImplyTable'
    BY <1>1, <1>4 DEF Inv, TypeOK, FramesImplyTable
  <2> QED
    BY <2>1, <2>2 DEF Inv
<1> QED
  BY <1>2, <1>3, <1>4 DEF Expire

LEMMA SetStorageBeginStep ==
    ASSUME Inv, NEW s \in Storages, NEW value \in BatchInput, NEW up \in BOOLEAN,
           SetStorageBegin(s, value, up)
    PROVE  Inv'
<1>1. BatchTyped'
  <2>1. CASE ExistsResult(s, up)
    <3>1. batch' = [s |-> s, value |-> value, written |-> {},
                    todo |-> {k \in Keys : value[k] # Blank}, sql |-> ""]
      BY <2>1 DEF SetStorageBegin
    <3> QED  BY <3>1 DEF BatchTyped, BatchType
  <2>2. CASE ~ExistsResult(s, up)
    BY <2>2 DEF SetStorageBegin, BatchTyped, Idle
  <2> QED  BY <2>1, <2>2
<1> QED
  BY <1>1, ExistsStep DEF SetStorageBegin

LEMMA SetStorageRoundStep ==
    ASSUME Inv, NEW k \in Keys, NEW up \in BOOLEAN, SetStorageRound(k, up)
    PROVE  Inv'
<1> DEFINE b == batch
           sql == RoundSql(b, k, up)
           val == b.value[k]
<1>0. /\ b \in BatchType /\ k \in b.todo
      /\ b.todo \subseteq {j \in Keys : b.value[j] # Blank}
      /\ b.s \in Storages
  BY DEF Inv, TypeOK, SetStorageRound, BatchType
<1>1. b.value \in [Keys -> RowVal] /\ val \in RowVal
  BY <1>0 DEF BatchType, BatchInput, RowVal
<1>2. CASE RoundSucceeds(b, k, up)
  <2>1. created[b.s] /\ sql \in {"INSERT", "UPDATE"}
    BY <1>0, <1>2 DEF RoundSucceeds, RoundSql, BatchType
  <2>2. FramesTyped(frame')
    <3>1. Root \in Paths /\ val \in FrameVal(Root)
      BY <1>1 DEF Paths, FrameVal
    <3>2. FramesTyped([frame EXCEPT ![b.s][k][Root] = val])
      BY <1>0, <3>1, SetFrame, TypeParts DEF Inv, CacheTyped
    <3> QED
      BY <1>2, <3>2 DEF SetStorageRound
  <2>3. row' \in [Storages -> [Keys -> RowVal]]
    <3>1. row' = [row EXCEPT ![b.s][k] =
                    IF sql = "UPDATE" /\ row[b.s][k] = Blank THEN Blank ELSE val]
      BY <1>2 DEF SetStorageRound
    <3> QED
      BY <1>0, <1>1, <3>1 DEF Inv, TypeOK, RowVal
  <2>4. storageFrame' \in [Storages -> [Keys -> RowVal] \cup {Blank, NoFrame}]
    BY <1>0, <1>1, <1>2 DEF Inv, TypeOK, SetStorageRound
  <2>5. BatchTyped'
    <3>1. batch' = [b EXCEPT !.todo = @ \ {k}, !.written = @ \cup {k}, !.sql = sql]
      BY <1>2 DEF SetStorageRound
    <3> QED  BY <1>0, <2>1, <3>1 DEF BatchTyped, BatchType
  <2>6. TypeOK'
    BY <1>2, <2>2, <2>3, <2>4, <2>5
       DEF Inv, TypeOK, FramesTyped, BatchTyped, SetStorageRound, Idle
  <2>7. ASSUME NEW x \in Storages, x # b.s
        PROVE  row'[x] = row[x] /\ frame'[x] = frame[x] /\ storageFrame'[x] = storageFrame[x]
    BY <1>2, <2>7 DEF Inv, TypeOK, SetStorageRound
  <2>8. created' = created /\ rowsFrame' = rowsFrame
    BY <1>2 DEF SetStorageRound
  <2>9. FramesImplyTable'
    BY <1>0, <2>1, <2>7, <2>8, OneStorage DEF Inv
  <2> QED
    BY <2>6, <2>9 DEF Inv
<1>3. CASE ~RoundSucceeds(b, k, up)
  <2>1. BatchTyped'
    BY <1>3 DEF SetStorageRound, BatchTyped, Idle
  <2> QED
    BY <1>0, <1>3, <2>1, ReadStepAnyBatch DEF SetStorageRound
<1> QED
  BY <1>2, <1>3

----------------------------------------------------------------------------
(* The invariant and its consequences, for every MaxBatch.                 *)

LEMMA StutterStep ==
    ASSUME Inv, UNCHANGED <<database, cache, storage_changed_>>, BatchTyped'
    PROVE  Inv'
<1>1. UNCHANGED <<created, row, rowsFrame, storageFrame, frame>>
  BY DEF database, cache
<1> QED
  BY <1>1 DEF Inv, TypeOK, FramesImplyTable, BatchTyped, Idle

LEMMA InitInv == Init => Inv
<1> SUFFICES ASSUME Init PROVE Inv
  OBVIOUS
<1>1. FramesTyped(frame)
  BY DEF Init, FramesTyped, Paths
<1>2. TypeOK
  BY <1>1 DEF Init, TypeOK, FramesTyped, RowVal, Idle
<1>3. FramesImplyTable
  BY DEF Init, FramesImplyTable
<1> QED
  BY <1>2, <1>3 DEF Inv

LEMMA NextInv == Inv /\ [Next]_vars => Inv'
<1> SUFFICES ASSUME Inv, [Next]_vars PROVE Inv'
  OBVIOUS
<1> USE AnswersAssumption
<1>1. ASSUME NEW s \in Storages, NEW up \in Answers, Exists(s, up) PROVE Inv'
  <2>1. BatchTyped'
    BY <1>1 DEF Exists, Inv, TypeOK, BatchTyped, Idle
  <2> QED  BY <1>1, <2>1, ExistsStep DEF Exists
<1>2. ASSUME NEW s \in Storages, NEW up \in Answers,
             Create(s, up) \/ Clear(s, up) \/ GetStorageString(s, up) \/ GetStorageJson(s, up)
      PROVE  Inv'
  BY <1>2, CreateStep, ClearStep, GetStorageStringStep, GetStorageJsonStep
<1>3. ASSUME NEW s \in Storages, NEW up \in Answers, NEW value \in BatchInput,
             SetStorageBegin(s, value, up)
      PROVE  Inv'
  BY <1>3, SetStorageBeginStep
<1>4. ASSUME NEW s \in Storages, NEW k \in Keys, NEW up \in Answers, NEW string \in BOOLEAN,
             GetRoot(s, k, up, string)
      PROVE  Inv'
  BY <1>4, ReadStep DEF GetRoot
<1>5. ASSUME NEW s \in Storages, NEW k \in Keys, NEW up \in Answers, NEW f \in Fields,
             NEW string \in BOOLEAN, GetFieldCached(s, k, f, string)
      PROVE  Inv'
  <2>1. BatchTyped'
    BY <1>5 DEF GetFieldCached, Inv, TypeOK, BatchTyped, Idle
  <2> QED  BY <1>5, <2>1, StutterStep DEF GetFieldCached
<1>6. ASSUME NEW s \in Storages, NEW k \in Keys, NEW up \in Answers, NEW f \in Fields,
             NEW string \in BOOLEAN,
             GetFieldFromRow(s, k, f, up) \/ GetFieldNothing(s, k, f, up, string)
      PROVE  Inv'
  BY <1>6, GetFieldFromRowStep, GetFieldNothingStep
<1>7. ASSUME NEW s \in Storages, NEW k \in Keys, NEW up \in Answers, NEW p \in Paths,
             NEW val \in Input(p),
             \/ SetEqual(s, k, p, val, up)
             \/ SetInsert(s, k, p, val, up)
             \/ SetUpdate(s, k, p, val, up)
      PROVE  Inv'
  <2>1. CASE SetEqual(s, k, p, val, up)
    BY <2>1, ReadStep DEF SetEqual
  <2> QED  BY <1>7, <2>1, SetInsertStep, SetUpdateStep
<1>8. ASSUME NEW s \in Storages, NEW k \in Keys, NEW up \in Answers, NEW p \in Paths,
             EraseNothing(s, k, p, up)
      PROVE  Inv'
  BY <1>8, ReadStep DEF EraseNothing
<1>9. ASSUME NEW s \in Storages, NEW k \in Keys, NEW up \in Answers, EraseRow(s, k, up)
      PROVE  Inv'
  BY <1>9, EraseRowStep
<1>10. ASSUME NEW s \in Storages, NEW k \in Keys, NEW up \in Answers, NEW f \in Fields,
              EraseField(s, k, f, up)
       PROVE  Inv'
  BY <1>10, EraseFieldStep
<1>11. ASSUME NEW k \in Keys, NEW up \in Answers, SetStorageRound(k, up) PROVE Inv'
  BY <1>11, SetStorageRoundStep
<1>12. CASE SetStorageEnd
  <2>1. BatchTyped'
    BY <1>12 DEF SetStorageEnd, BatchTyped, Idle
  <2> QED  BY <1>12, <2>1, StutterStep DEF SetStorageEnd
<1>13. CASE Expire \/ Restart
  BY <1>13, ExpireStep, RestartStep
<1>14. CASE UNCHANGED vars
  <2>1. BatchTyped'
    BY <1>14 DEF vars, Inv, TypeOK, BatchTyped, Idle
  <2> QED  BY <1>14, <2>1, StutterStep DEF vars, database, cache
<1> QED
  BY <1>1, <1>2, <1>3, <1>4, <1>5, <1>6, <1>7, <1>8, <1>9, <1>10, <1>11, <1>12, <1>13,
     <1>14 DEF Next

\* Type correctness of the driver: DataSql::get, set, erase, ... keep every
\* variable in its type.
THEOREM TypeCorrect == Spec => []TypeOK
<1>1. Inv => TypeOK
  BY DEF Inv
<1> QED
  BY InitInv, NextInv, <1>1, PTL DEF Spec

\* No row and no frame of a table that does not exist, so that create() and
\* exists() may answer from the cache (data_sql.cpp:74 and :126).
THEOREM FramesImplyTables == Spec => []FramesImplyTable
<1>1. Inv => FramesImplyTable
  BY DEF Inv
<1> QED
  BY InitInv, NextInv, <1>1, PTL DEF Spec

----------------------------------------------------------------------------
(* Coherence of the root frames, when a batch carries at most one key.     *)
(* Then the first round of a batch is its last, so the statement text left *)
(* by a round is never used by another: that is OneRound.                  *)

OneRound == Idle \/ batch.sql = "" \/ batch.todo = {}

CoInv == Inv /\ RootFrameCoherent /\ OneRound

\* A set with at most one element has no two.
LEMMA AtMostOne ==
    ASSUME NEW S, IsFiniteSet(S), Cardinality(S) <= 1, NEW x \in S
    PROVE  S \ {x} = {}
<1>1. /\ IsFiniteSet(S \ {x})
      /\ Cardinality(S \ {x}) = Cardinality(S) - 1
  BY FS_RemoveElement
<1>2. Cardinality(S) \in Nat /\ Cardinality(S \ {x}) \in Nat
  BY <1>1, FS_CardinalityType
<1>3. Cardinality(S \ {x}) = 0
  BY <1>1, <1>2
<1> QED
  BY <1>1, <1>3, FS_EmptySet

\* A step that leaves the rows and the root frames alone, or only drops frames.
LEMMA CoherentSameRoots ==
    ASSUME RootFrameCoherent, row' = row,
           \A s \in Storages, k \in Keys :
               frame'[s][k][Root] \in {frame[s][k][Root], NoFrame}
    PROVE  RootFrameCoherent'
BY DEF RootFrameCoherent

\* A step that puts one row and its root frame in agreement.
LEMMA CoherentAt ==
    ASSUME RootFrameCoherent, NEW s \in Storages, NEW k \in Keys,
           \A x \in Storages, y \in Keys : <<x, y>> # <<s, k>> =>
               row'[x][y] = row[x][y] /\ frame'[x][y][Root] = frame[x][y][Root],
           frame'[s][k][Root] # NoFrame =>
               /\ row'[s][k] # Blank
               /\ \/ frame'[s][k][Root] = row'[s][k]
                  \/ frame'[s][k][Root] = Blank /\ row'[s][k] = Null
    PROVE  RootFrameCoherent'
BY DEF RootFrameCoherent

\* A value read at the root key that is not undefined is there in the table.
LEMMA RootValueSelected ==
    ASSUME CoInv, NEW s \in Storages, NEW k \in Keys, NEW up \in BOOLEAN
    PROVE  /\ RootValue(s, k, up) # Blank => row[s][k] # Blank
           /\ ~Undefined(RootValue(s, k, up)) => RootValue(s, k, up) = row[s][k]
BY DEF CoInv, RootFrameCoherent, RootValue, Cached, Selected, Undefined

\* Assigning one path of the frames.
LEMMA FrameAt ==
    ASSUME NEW fr, FramesTyped(fr), NEW s \in Storages, NEW k \in Keys, NEW p \in Paths, NEW v
    PROVE  \A x \in Storages, y \in Keys, q \in Paths :
              [fr EXCEPT ![s][k][p] = v][x][y][q] =
                  IF x = s /\ y = k /\ q = p THEN v ELSE fr[x][y][q]
BY DEF FramesTyped

LEMMA CoherentRead ==
    ASSUME CoInv, NEW s \in Storages, NEW k \in Keys, NEW up \in BOOLEAN,
           frame' = FrameAfterRead(s, k, up), row' = row
    PROVE  RootFrameCoherent'
<1> DEFINE v == IF row[s][k] = Null THEN Blank ELSE row[s][k]
<1>1. CASE frame' = frame
  BY <1>1, CoherentSameRoots DEF CoInv
<1>2. CASE Selected(s, k, up) /\ frame' = [frame EXCEPT ![s][k][Root] = v]
  <2>1. FramesTyped(frame) /\ Root \in Paths
    BY TypeParts DEF CoInv, Inv, CacheTyped, Paths
  <2>3. row[s][k] # Blank
    BY <1>2 DEF Selected
  <2>4. v = row[s][k] \/ (v = Blank /\ row[s][k] = Null)
    OBVIOUS
  <2> HIDE DEF v
  <2>5. \A x \in Storages, y \in Keys :
            [frame EXCEPT ![s][k][Root] = v][x][y][Root] =
                IF x = s /\ y = k THEN v ELSE frame[x][y][Root]
    BY <2>1, FrameAt
  <2>2. \A x \in Storages, y \in Keys :
            frame'[x][y][Root] = IF x = s /\ y = k THEN v ELSE frame[x][y][Root]
    BY <1>2, <2>5
  <2> QED
    BY <2>2, <2>3, <2>4, CoherentAt DEF CoInv
<1> QED
  BY <1>1, <1>2 DEF FrameAfterRead

LEMMA CoherentWritten ==
    ASSUME CoInv, NEW s \in Storages, NEW k \in Keys, NEW p \in Paths,
           NEW new \in Row \cup {Null}, NEW atPath,
           Written(s, k, p, new, new, atPath)
    PROVE  RootFrameCoherent'
<1> DEFINE fr == [frame EXCEPT ![s][k][Root] = new]
<1>1. FramesTyped(frame) /\ Root \in Paths /\ new \in FrameVal(Root)
  BY TypeParts DEF CoInv, Inv, CacheTyped, Paths, FrameVal, RowVal
<1>2. FramesTyped(fr)
  BY <1>1, SetFrame
<1>3. \A x \in Storages, y \in Keys :
          fr[x][y][Root] = IF x = s /\ y = k THEN new ELSE frame[x][y][Root]
  BY <1>1, FrameAt
<1>4. frame' = IF p = Root THEN fr ELSE [fr EXCEPT ![s][k][p] = atPath]
  BY DEF Written, WriteFrames
<1> HIDE DEF fr
<1>5. \A x \in Storages, y \in Keys : frame'[x][y][Root] = fr[x][y][Root]
  BY <1>1, <1>2, <1>4, FrameAt
<1>6. \A x \in Storages, y \in Keys :
          row'[x][y] = IF x = s /\ y = k THEN new ELSE row[x][y]
  BY DEF Written, CoInv, Inv, TypeOK
<1>7. new # Blank
  BY SentinelAssumption
<1> QED
  BY <1>3, <1>5, <1>6, <1>7, CoherentAt DEF CoInv

\* An UPDATE that the driver chose finds its row.
LEMMA UpdateFindsRow ==
    ASSUME CoInv, NEW s \in Storages, NEW k \in Keys, NEW up \in BOOLEAN, NEW new,
           ~Undefined(RootValue(s, k, up))
    PROVE  Update(row[s][k], new) = new
BY RootValueSelected DEF Update, Undefined

LEMMA CoherentSetInsert ==
    ASSUME CoInv, NEW s \in Storages, NEW k \in Keys, NEW p \in Paths, NEW val \in Input(p),
           NEW up \in BOOLEAN, SetInsert(s, k, p, val, up)
    PROVE  RootFrameCoherent'
<1>1. CASE OnlyRead(s, k, up, FALSE)
  BY <1>1, CoherentRead DEF OnlyRead, database
<1>2. CASE Written(s, k, p, NewRow(p, val), NewRow(p, val), val)
  BY <1>2, NewRowTyped, CoherentWritten
<1> QED
  BY <1>1, <1>2 DEF SetInsert

LEMMA CoherentSetUpdate ==
    ASSUME CoInv, NEW s \in Storages, NEW k \in Keys, NEW p \in Paths, NEW val \in Input(p),
           NEW up \in BOOLEAN, SetUpdate(s, k, p, val, up)
    PROVE  RootFrameCoherent'
<1> DEFINE v == RootValue(s, k, up)
           new == JsonSet(v, p, val)
<1>1. CASE OnlyRead(s, k, up, FALSE)
  BY <1>1, CoherentRead DEF OnlyRead, database
<1>2. CASE Written(s, k, p, Update(row[s][k], new), new, val)
  <2>1. ~Undefined(v) /\ v \in Row
    BY RootValueTyped DEF SetUpdate, SetInserts, CoInv, Inv
  <2>2. new \in Row \cup {Null}
    BY <2>1, JsonSetTyped
  <2>3. Update(row[s][k], new) = new
    BY <2>1, UpdateFindsRow
  <2> HIDE DEF v, new
  <2> QED
    BY <1>2, <2>2, <2>3, CoherentWritten
<1> QED
  BY <1>1, <1>2 DEF SetUpdate

LEMMA CoherentEraseField ==
    ASSUME CoInv, NEW s \in Storages, NEW k \in Keys, NEW f \in Fields, NEW up \in BOOLEAN,
           EraseField(s, k, f, up)
    PROVE  RootFrameCoherent'
<1> DEFINE v == RootValue(s, k, up)
           new == IF Undefined(Find(v, f)) THEN v ELSE [v EXCEPT ![f] = Blank]
<1>1. v \in Row /\ ~Undefined(v) /\ Written(s, k, f, Update(row[s][k], new), new, Find(new, f))
  BY RootValueTyped DEF EraseField, CoInv, Inv
<1>2. new \in Row \cup {Null} /\ f \in Paths
  BY <1>1 DEF Row, Paths
<1>3. Update(row[s][k], new) = new
  BY <1>1, UpdateFindsRow
<1> HIDE DEF v, new
<1> QED
  BY <1>1, <1>2, <1>3, CoherentWritten

LEMMA CoherentEraseRow ==
    ASSUME CoInv, NEW s \in Storages, NEW k \in Keys, NEW up \in BOOLEAN, EraseRow(s, k, up)
    PROVE  RootFrameCoherent'
<1>1. FramesTyped(frame) /\ Root \in Paths
  BY TypeParts DEF CoInv, Inv, CacheTyped, Paths
<1>2. \A x \in Storages, y \in Keys :
          frame'[x][y][Root] = IF x = s /\ y = k THEN NoFrame ELSE frame[x][y][Root]
  BY <1>1, FrameAt DEF EraseRow
<1>3. \A x \in Storages, y \in Keys : <<x, y>> # <<s, k>> => row'[x][y] = row[x][y]
  BY DEF EraseRow, CoInv, Inv, TypeOK
<1> QED
  BY <1>2, <1>3, CoherentAt DEF CoInv

\* The field reads write no root frame.
LEMMA CoherentField ==
    ASSUME CoInv, NEW s \in Storages, NEW k \in Keys, NEW f \in Fields, NEW v,
           frame' = [frame EXCEPT ![s][k][f] = v], row' = row
    PROVE  RootFrameCoherent'
<1>1. FramesTyped(frame) /\ Root \in Paths /\ f \in Paths /\ f # Root
  BY TypeParts, RootAssumption DEF CoInv, Inv, CacheTyped, Paths
<1>2. \A x \in Storages, y \in Keys : frame'[x][y][Root] = frame[x][y][Root]
  BY <1>1, FrameAt
<1> QED
  BY <1>2, CoherentSameRoots DEF CoInv

LEMMA CoherentExpire ==
    ASSUME CoInv, Expire
    PROVE  RootFrameCoherent'
<1>1. row' = row
  BY DEF Expire, database
<1>2. ASSUME NEW s \in Storages, NEW k \in Keys, NEW p \in Paths,
             frame' = [frame EXCEPT ![s][k][p] = NoFrame]
      PROVE  RootFrameCoherent'
  <2>1. FramesTyped(frame) /\ Root \in Paths
    BY TypeParts DEF CoInv, Inv, CacheTyped, Paths
  <2>3. \A x \in Storages, y \in Keys :
            [frame EXCEPT ![s][k][p] = NoFrame][x][y][Root] =
                IF x = s /\ y = k /\ Root = p THEN NoFrame ELSE frame[x][y][Root]
    BY <2>1, FrameAt
  <2>2. \A x \in Storages, y \in Keys :
            frame'[x][y][Root] \in {frame[x][y][Root], NoFrame}
    BY <1>2, <2>3
  <2> QED
    BY <1>1, <2>2, CoherentSameRoots DEF CoInv
<1>3. CASE frame' = frame
  BY <1>1, <1>3, CoherentSameRoots DEF CoInv
<1> QED
  BY <1>2, <1>3 DEF Expire

\* Putting the same value in the row and in its frame.
LEMMA CoherentPut ==
    ASSUME CoInv, NEW s \in Storages, NEW k \in Keys, NEW val, val # Blank,
           row' = [row EXCEPT ![s][k] = val], frame' = [frame EXCEPT ![s][k][Root] = val]
    PROVE  RootFrameCoherent'
<1>1. \A x \in Storages, y \in Keys :
          row'[x][y] = IF x = s /\ y = k THEN val ELSE row[x][y]
  BY DEF CoInv, Inv, TypeOK
<1>2. FramesTyped(frame) /\ Root \in Paths
  BY TypeParts DEF CoInv, Inv, CacheTyped, Paths
<1>3. ASSUME NEW x \in Storages, NEW y \in Keys
      PROVE  [frame EXCEPT ![s][k][Root] = val][x][y][Root] =
                 IF x = s /\ y = k THEN val ELSE frame[x][y][Root]
  BY <1>2 DEF FramesTyped
<1>4. \A x \in Storages, y \in Keys :
          frame'[x][y][Root] = IF x = s /\ y = k THEN val ELSE frame[x][y][Root]
  BY <1>3
<1> QED
  BY <1>1, <1>4, CoherentAt DEF CoInv

\* The only round of a batch of one key writes what it caches.
LEMMA CoherentRound ==
    ASSUME CoInv, NEW k \in Keys, NEW up \in BOOLEAN, SetStorageRound(k, up)
    PROVE  RootFrameCoherent'
<1> DEFINE b == batch
           sql == RoundSql(b, k, up)
           val == b.value[k]
<1>0. /\ b \in BatchType /\ k \in b.todo /\ b.s \in Storages
      /\ b.todo \subseteq {j \in Keys : b.value[j] # Blank} /\ b.sql = ""
  BY DEF CoInv, OneRound, Inv, TypeOK, SetStorageRound, BatchType
<1>1. CASE RoundSucceeds(b, k, up)
  <2>1. val # Blank
    BY <1>0
  <2>2. sql = "UPDATE" => row[b.s][k] # Blank
    BY <1>0, RootValueSelected DEF RoundSql
  <2>3. row' = [row EXCEPT ![b.s][k] =
                  IF sql = "UPDATE" /\ row[b.s][k] = Blank THEN Blank ELSE val]
    BY <1>1 DEF SetStorageRound
  <2>4. row' = [row EXCEPT ![b.s][k] = val]
    BY <2>2, <2>3
  <2>5. frame' = [frame EXCEPT ![b.s][k][Root] = val]
    BY <1>1 DEF SetStorageRound
  <2> QED
    BY <1>0, <2>1, <2>4, <2>5, CoherentPut
<1>2. CASE ~RoundSucceeds(b, k, up)
  <2>1. frame' = FrameAfterRead(b.s, k, up) /\ row' = row
    BY <1>2 DEF SetStorageRound, database
  <2> QED
    BY <1>0, <2>1, CoherentRead
<1> QED
  BY <1>1, <1>2

\* With one key, the round of a batch leaves nothing to do.
LEMMA OneRoundStep ==
    ASSUME Inv, OneRound, MaxBatch <= 1, NEW k \in Keys, NEW up \in BOOLEAN,
           SetStorageRound(k, up)
    PROVE  OneRound'
<1> DEFINE b == batch
           N == {j \in Keys : b.value[j] # Blank}
<1>0. b \in BatchType /\ k \in b.todo /\ b.todo \subseteq N
  BY DEF Inv, TypeOK, SetStorageRound
<1>1. IsFiniteSet(N) /\ Cardinality(N) <= 1
  <2>1. b.value \in BatchInput
    BY <1>0 DEF BatchType
  <2>2. IsFiniteSet(N)
    BY KeysAssumption, FS_Subset
  <2>3. Cardinality(N) \in Nat /\ Cardinality(N) <= MaxBatch
    BY <2>1, <2>2, FS_CardinalityType DEF BatchInput
  <2> QED
    BY <2>2, <2>3, KeysAssumption
<1>2. N \ {k} = {}
  BY <1>0, <1>1, AtMostOne
<1>3. b.todo \ {k} = {}
  BY <1>0, <1>2
<1>4. CASE batch' = NoBatch
  BY <1>4 DEF OneRound, Idle
<1>5. CASE batch' = [b EXCEPT !.todo = @ \ {k}, !.written = @ \cup {k},
                              !.sql = RoundSql(b, k, up)]
  <2>1. batch'.todo = b.todo \ {k}
    BY <1>0, <1>5 DEF BatchType
  <2> QED
    BY <1>3, <2>1 DEF OneRound
<1> QED
  BY <1>4, <1>5 DEF SetStorageRound

LEMMA NextCoherent ==
    ASSUME MaxBatch <= 1, CoInv, [Next]_vars
    PROVE  RootFrameCoherent'
<1> USE AnswersAssumption
<1> DEFINE Same == UNCHANGED <<row, frame>>
<1>0. Same => RootFrameCoherent'
  BY DEF CoInv, RootFrameCoherent
<1>1. ASSUME NEW s \in Storages, NEW up \in Answers,
             Exists(s, up) \/ Create(s, up) \/ GetStorageString(s, up) \/ GetStorageJson(s, up)
      PROVE  Same
  BY <1>1 DEF Exists, Create, GetStorageString, GetStorageJson, database
<1>2. ASSUME NEW s \in Storages, NEW up \in Answers, Clear(s, up) PROVE RootFrameCoherent'
  <2>1. CASE EmptyCache(s)
    BY <2>1 DEF RootFrameCoherent, EmptyCache, Paths
  <2>2. CASE UNCHANGED <<database, cache>>
    BY <1>0, <2>2 DEF database, cache
  <2> QED  BY <1>2, <2>1, <2>2 DEF Clear
<1>3. ASSUME NEW s \in Storages, NEW up \in Answers, NEW value \in BatchInput,
             SetStorageBegin(s, value, up)
      PROVE  Same
  BY <1>3 DEF SetStorageBegin, database
<1>4. ASSUME NEW s \in Storages, NEW k \in Keys, NEW up \in Answers, NEW string \in BOOLEAN,
             OnlyRead(s, k, up, string)
      PROVE  RootFrameCoherent'
  BY <1>4, CoherentRead DEF OnlyRead, database
<1>5. ASSUME NEW s \in Storages, NEW k \in Keys, NEW up \in Answers, NEW f \in Fields,
             NEW string \in BOOLEAN,
             \/ GetFieldCached(s, k, f, string)
             \/ GetFieldFromRow(s, k, f, up)
             \/ GetFieldNothing(s, k, f, up, string)
      PROVE  RootFrameCoherent'
  <2>1. CASE GetFieldCached(s, k, f, string)
    BY <1>0, <2>1 DEF GetFieldCached, database, cache
  <2>2. CASE GetFieldFromRow(s, k, f, up)
    <3>1. /\ row' = row
          /\ frame' = frame \/ frame' = [frame EXCEPT ![s][k][f] = Find(row[s][k], f)]
      BY <2>2 DEF GetFieldFromRow, database
    <3> QED  BY <1>0, <3>1, CoherentField
  <2>3. CASE GetFieldNothing(s, k, f, up, string)
    BY <1>0, <2>3, CoherentField DEF GetFieldNothing, database
  <2> QED  BY <1>5, <2>1, <2>2, <2>3
<1>6. ASSUME NEW s \in Storages, NEW k \in Keys, NEW up \in Answers, NEW p \in Paths,
             NEW val \in Input(p),
             \/ SetEqual(s, k, p, val, up)
             \/ SetInsert(s, k, p, val, up)
             \/ SetUpdate(s, k, p, val, up)
      PROVE  RootFrameCoherent'
  BY <1>4, <1>6, CoherentSetInsert, CoherentSetUpdate DEF SetEqual
<1>7. ASSUME NEW s \in Storages, NEW k \in Keys, NEW up \in Answers,
             \/ \E p \in Paths : EraseNothing(s, k, p, up)
             \/ EraseRow(s, k, up)
             \/ \E f \in Fields : EraseField(s, k, f, up)
      PROVE  RootFrameCoherent'
  BY <1>4, <1>7, CoherentEraseRow, CoherentEraseField DEF EraseNothing
<1>8. ASSUME NEW k \in Keys, NEW up \in Answers, SetStorageRound(k, up)
      PROVE  RootFrameCoherent'
  BY <1>8, CoherentRound
<1>9. CASE SetStorageEnd \/ UNCHANGED vars
  BY <1>0, <1>9 DEF SetStorageEnd, vars, database, cache
<1>10. CASE Expire
  BY <1>10, CoherentExpire
<1>11. CASE Restart
  BY <1>11 DEF RootFrameCoherent, Restart, Paths
<1>12. ASSUME NEW s \in Storages, NEW k \in Keys, NEW up \in Answers, NEW string \in BOOLEAN,
              GetRoot(s, k, up, string)
       PROVE  RootFrameCoherent'
  BY <1>4, <1>12 DEF GetRoot
<1> HIDE DEF Same
<1> QED
  BY <1>0, <1>1, <1>2, <1>3, <1>5, <1>6, <1>7, <1>8, <1>9, <1>10, <1>11, <1>12 DEF Next

LEMMA NextOneRound ==
    ASSUME MaxBatch <= 1, CoInv, [Next]_vars
    PROVE  OneRound'
<1> USE AnswersAssumption
<1>1. CASE batch' = batch
  BY <1>1 DEF CoInv, OneRound, Idle
<1>2. ASSUME NEW s \in Storages, NEW up \in Answers, NEW value \in BatchInput,
             SetStorageBegin(s, value, up)
      PROVE  OneRound'
  <2>1. CASE ExistsResult(s, up)
    <3>1. batch' = [s |-> s, value |-> value, written |-> {},
                    todo |-> {k \in Keys : value[k] # Blank}, sql |-> ""]
      BY <1>2, <2>1 DEF SetStorageBegin
    <3>2. batch'.sql = ""
      BY <3>1
    <3> QED  BY <3>2 DEF OneRound
  <2>2. CASE ~ExistsResult(s, up)
    BY <1>1, <1>2, <2>2 DEF SetStorageBegin
  <2> QED  BY <2>1, <2>2
<1>3. ASSUME NEW k \in Keys, NEW up \in Answers, SetStorageRound(k, up) PROVE OneRound'
  BY <1>3, OneRoundStep DEF CoInv
<1>4. CASE SetStorageEnd \/ Restart
  BY <1>4 DEF SetStorageEnd, Restart, OneRound, Idle
<1>5. ASSUME NEW s \in Storages, NEW up \in Answers,
             \/ Exists(s, up) \/ Create(s, up) \/ Clear(s, up)
             \/ GetStorageString(s, up) \/ GetStorageJson(s, up)
      PROVE  batch' = batch
  BY <1>5 DEF Exists, Create, Clear, GetStorageString, GetStorageJson
<1>6. ASSUME NEW s \in Storages, NEW k \in Keys, NEW up \in Answers, NEW f \in Fields,
             NEW string \in BOOLEAN,
             \/ GetRoot(s, k, up, string) \/ GetFieldCached(s, k, f, string)
             \/ GetFieldFromRow(s, k, f, up) \/ GetFieldNothing(s, k, f, up, string)
      PROVE  batch' = batch
  BY <1>6 DEF GetRoot, GetFieldCached, GetFieldFromRow, GetFieldNothing, OnlyRead
<1>7. ASSUME NEW s \in Storages, NEW k \in Keys, NEW up \in Answers, NEW string \in BOOLEAN,
             GetRoot(s, k, up, string)
      PROVE  batch' = batch
  BY <1>7 DEF GetRoot, OnlyRead
<1>8. ASSUME NEW s \in Storages, NEW k \in Keys, NEW up \in Answers, NEW p \in Paths,
             NEW val \in Input(p),
             \/ SetEqual(s, k, p, val, up)
             \/ SetInsert(s, k, p, val, up)
             \/ SetUpdate(s, k, p, val, up)
      PROVE  batch' = batch
  BY <1>8 DEF SetEqual, SetInsert, SetUpdate, OnlyRead, Written
<1>9. ASSUME NEW s \in Storages, NEW k \in Keys, NEW up \in Answers,
             \/ \E p \in Paths : EraseNothing(s, k, p, up)
             \/ EraseRow(s, k, up)
             \/ \E f \in Fields : EraseField(s, k, f, up)
      PROVE  batch' = batch
  BY <1>9 DEF EraseNothing, EraseRow, EraseField, OnlyRead, Written
<1>10. CASE Expire \/ UNCHANGED vars
  BY <1>1, <1>10 DEF Expire, vars
<1> QED
  BY <1>1, <1>2, <1>3, <1>4, <1>5, <1>6, <1>7, <1>8, <1>9, <1>10 DEF Next

LEMMA NextCoInv == MaxBatch <= 1 /\ CoInv /\ [Next]_vars => CoInv'
BY NextInv, NextCoherent, NextOneRound DEF CoInv

LEMMA InitCoInv == Init => CoInv
BY InitInv DEF Init, CoInv, RootFrameCoherent, OneRound, Idle, Paths

\* Root frames agree with the rows, through every sequence of calls, failures,
\* expiries and restarts, as long as set(storage, value) carries one key.
THEOREM RootFramesCoherent == MaxBatch <= 1 /\ Spec => []RootFrameCoherent
<1> SUFFICES ASSUME MaxBatch <= 1 PROVE Spec => []RootFrameCoherent
  OBVIOUS
<1>1. CoInv /\ [Next]_vars => CoInv'
  BY NextCoInv
<1>2. CoInv => RootFrameCoherent
  BY DEF CoInv
<1> QED
  BY InitCoInv, <1>1, <1>2, PTL DEF Spec

----------------------------------------------------------------------------
(* set(storage, key, value) merges into the row it read, from the cache or *)
(* not: by coherence that is the row in the table.                         *)

LEMMA SetEqualStores ==
    ASSUME CoInv, NEW s \in Storages, NEW k \in Keys, NEW p \in Paths, NEW val \in Input(p),
           NEW up \in BOOLEAN, SetEqual(s, k, p, val, up)
    PROVE  StoredAndKept(s, k, p, val)
<1> DEFINE v == RootValue(s, k, up)
<1>1. row' = row
  BY DEF SetEqual, OnlyRead, database
<1>2. v \in RowVal /\ (~Undefined(v) => v = row[s][k])
  BY RootValueTyped, RootValueSelected DEF CoInv, Inv
<1>3. CASE p = Root
  <2>1. v = val /\ ~Undefined(v)
    BY <1>3 DEF SetEqual
  <2>2. row[s][k] = val /\ val \in Row
    BY <1>2, <2>1 DEF RowVal, Undefined
  <2>3. \A f \in Fields : Find(row[s][k], f) = val[f]
    BY <2>2, RootAssumption DEF Find
  <2> QED
    BY <1>1, <1>3, <2>2, <2>3, RootAssumption DEF StoredAndKept
<1>4. CASE p # Root
  <2>1. Find(v, p) = val /\ val # Blank /\ p \in Fields
    BY <1>4, SentinelAssumption DEF SetEqual, Input, FieldVals, Paths
  <2>2. v \in Row /\ v[p] = val
    BY <1>4, <2>1 DEF Find
  <2>3. v = row[s][k]
    BY <1>2, <2>2, SentinelAssumption DEF Undefined
  <2>4. \A f \in Fields : Find(row[s][k], f) = row[s][k][f]
    BY <2>2, <2>3, RootAssumption DEF Find
  <2> HIDE DEF v
  <2> QED
    BY <1>1, <1>4, <2>2, <2>3, <2>4 DEF StoredAndKept
<1> QED
  BY <1>3, <1>4

\* Storing new at <<s, k>> when new is val over the row that was there.
LEMMA StoreOver ==
    ASSUME TypeOK, NEW s \in Storages, NEW k \in Keys, NEW p, NEW val, NEW new,
           row' = [row EXCEPT ![s][k] = new],
           \/ p = Root /\ val = Null /\ new = Null
           \/ /\ new \in Row
              /\ \A f \in Fields :
                    new[f] = IF p = f THEN val
                             ELSE IF p = Root /\ val[f] # Blank THEN val[f]
                             ELSE Find(row[s][k], f)
    PROVE  StoredAndKept(s, k, p, val)
<1>1. \A x \in Storages, y \in Keys : <<x, y>> # <<s, k>> => row'[x][y] = row[x][y]
  BY DEF TypeOK
<1>2. row'[s][k] = new
  BY DEF TypeOK
<1> QED
  BY <1>1, <1>2 DEF StoredAndKept

LEMMA SetInsertStores ==
    ASSUME CoInv, NEW s \in Storages, NEW k \in Keys, NEW p \in Paths, NEW val \in Input(p),
           NEW up \in BOOLEAN, row[s][k] = Blank,
           Written(s, k, p, NewRow(p, val), NewRow(p, val), val)
    PROVE  StoredAndKept(s, k, p, val)
<1> DEFINE new == NewRow(p, val)
<1>1. \A f \in Fields : Find(row[s][k], f) = Blank
  BY RootAssumption, SentinelAssumption DEF Find
<1>2. \/ p = Root /\ val = Null /\ new = Null
      \/ /\ new \in Row
         /\ \A f \in Fields :
               new[f] = IF p = f THEN val
                        ELSE IF p = Root /\ val[f] # Blank THEN val[f]
                        ELSE Find(row[s][k], f)
  <2>1. CASE p = Root
    BY <1>1, <2>1, RootAssumption DEF NewRow, Input
  <2>2. CASE p # Root
    BY <1>1, <2>2 DEF NewRow, Input, Row
  <2> QED  BY <2>1, <2>2
<1>3. row' = [row EXCEPT ![s][k] = new]
  BY DEF Written
<1> HIDE DEF new
<1> QED
  BY <1>2, <1>3, StoreOver DEF CoInv, Inv

LEMMA SetUpdateStores ==
    ASSUME CoInv, NEW s \in Storages, NEW k \in Keys, NEW p \in Paths, NEW val \in Input(p),
           NEW up \in BOOLEAN, ~SetInserts(RootValue(s, k, up), p),
           Written(s, k, p, Update(row[s][k], JsonSet(RootValue(s, k, up), p, val)),
                   JsonSet(RootValue(s, k, up), p, val), val)
    PROVE  StoredAndKept(s, k, p, val)
<1> DEFINE v == RootValue(s, k, up)
           new == JsonSet(v, p, val)
<1>1. ~Undefined(v) /\ v \in Row /\ v = row[s][k]
  BY RootValueTyped, RootValueSelected DEF SetInserts, CoInv, Inv
<1>2. Update(row[s][k], new) = new
  BY <1>1, UpdateFindsRow
<1>3. \A f \in Fields : Find(row[s][k], f) = v[f]
  BY <1>1, RootAssumption DEF Find
<1>4. \/ p = Root /\ val = Null /\ new = Null
      \/ /\ new \in Row
         /\ \A f \in Fields :
               new[f] = IF p = f THEN val
                        ELSE IF p = Root /\ val[f] # Blank THEN val[f]
                        ELSE Find(row[s][k], f)
  <2> HIDE DEF v
  <2>1. CASE p # Root
    BY <1>1, <1>3, <2>1 DEF JsonSet, Input, Row, Paths
  <2>2. CASE p = Root /\ val \in Row
    BY <1>1, <1>3, <2>2, RootAssumption DEF JsonSet, Row
  <2>3. CASE p = Root /\ val \notin Row
    BY <2>3 DEF JsonSet, Input
  <2> QED  BY <2>1, <2>2, <2>3
<1>5. row' = [row EXCEPT ![s][k] = new]
  BY <1>2 DEF Written
<1> HIDE DEF v, new
<1> QED
  BY <1>4, <1>5, StoreOver DEF CoInv, Inv

Stores == (Idle /\ Idle' /\ ret'.op = "set" /\ ret'.ok) =>
              StoredAndKept(ret'.s, ret'.k, ret'.p, ret'.val)

LEMMA NextStores ==
    ASSUME CoInv, Next
    PROVE  Stores
<1> USE AnswersAssumption DEF Returns
<1>0. ret'.op # "set" => Stores
  BY DEF Stores
<1>1. ASSUME NEW s \in Storages, NEW up \in Answers,
             \/ Exists(s, up) \/ Create(s, up) \/ Clear(s, up)
             \/ GetStorageString(s, up) \/ GetStorageJson(s, up)
             \/ \E value \in BatchInput : SetStorageBegin(s, value, up)
      PROVE  ret'.op # "set"
  <2>1. CASE Exists(s, up)
    BY <2>1 DEF Exists
  <2>2. CASE Create(s, up)
    BY <2>2 DEF Create
  <2>3. CASE Clear(s, up)
    BY <2>3 DEF Clear
  <2>4. CASE GetStorageString(s, up)
    BY <2>4 DEF GetStorageString
  <2>5. CASE GetStorageJson(s, up)
    BY <2>5 DEF GetStorageJson
  <2>6. ASSUME NEW value \in BatchInput, SetStorageBegin(s, value, up) PROVE ret'.op # "set"
    <3>1. CASE ExistsResult(s, up)
      <4>1. ret' = NothingReturned
        BY <2>6, <3>1 DEF SetStorageBegin
      <4> QED  BY <4>1 DEF NothingReturned
    <3>2. CASE ~ExistsResult(s, up)
      <4>1. Returns("setall", s, Blank, Root, FALSE, {})
        BY <2>6, <3>2 DEF SetStorageBegin
      <4> QED  BY <4>1
    <3> QED  BY <3>1, <3>2
  <2> QED  BY <1>1, <2>1, <2>2, <2>3, <2>4, <2>5, <2>6
<1>2. ASSUME NEW s \in Storages, NEW k \in Keys, NEW up \in Answers,
             \/ \E string \in BOOLEAN : GetRoot(s, k, up, string)
             \/ \E f \in Fields, string \in BOOLEAN :
                   \/ GetFieldCached(s, k, f, string)
                   \/ GetFieldFromRow(s, k, f, up)
                   \/ GetFieldNothing(s, k, f, up, string)
             \/ \E p \in Paths : EraseNothing(s, k, p, up)
             \/ EraseRow(s, k, up)
             \/ \E f \in Fields : EraseField(s, k, f, up)
      PROVE  ret'.op # "set"
  <2>1. ASSUME NEW string \in BOOLEAN, GetRoot(s, k, up, string) PROVE ret'.op # "set"
    BY <2>1 DEF GetRoot
  <2>2. ASSUME NEW f \in Fields, NEW string \in BOOLEAN, GetFieldCached(s, k, f, string)
        PROVE  ret'.op # "set"
    BY <2>2 DEF GetFieldCached
  <2>3. ASSUME NEW f \in Fields, GetFieldFromRow(s, k, f, up) PROVE ret'.op # "set"
    BY <2>3 DEF GetFieldFromRow
  <2>4. ASSUME NEW f \in Fields, NEW string \in BOOLEAN, GetFieldNothing(s, k, f, up, string)
        PROVE  ret'.op # "set"
    BY <2>4 DEF GetFieldNothing
  <2>5. ASSUME NEW p \in Paths, EraseNothing(s, k, p, up) PROVE ret'.op # "set"
    BY <2>5 DEF EraseNothing
  <2>6. CASE EraseRow(s, k, up)
    BY <2>6 DEF EraseRow
  <2>7. ASSUME NEW f \in Fields, EraseField(s, k, f, up) PROVE ret'.op # "set"
    BY <2>7 DEF EraseField
  <2> QED  BY <1>2, <2>1, <2>2, <2>3, <2>4, <2>5, <2>6, <2>7
<1>3. ASSUME NEW s \in Storages, NEW k \in Keys, NEW up \in Answers, NEW p \in Paths,
             NEW val \in Input(p), SetEqual(s, k, p, val, up)
      PROVE  Stores
  <2>1. StoredAndKept(s, k, p, val)
    BY <1>3, SetEqualStores
  <2>2. ret' = [op |-> "set", s |-> s, k |-> k, p |-> p, ok |-> TRUE, val |-> val]
    BY <1>3 DEF SetEqual
  <2> QED  BY <2>1, <2>2 DEF Stores
<1>4. ASSUME NEW s \in Storages, NEW k \in Keys, NEW up \in Answers, NEW p \in Paths,
             NEW val \in Input(p), SetInsert(s, k, p, val, up)
      PROVE  Stores
  <2>1. CASE ret' = [op |-> "set", s |-> s, k |-> k, p |-> p, ok |-> FALSE, val |-> val]
    BY <2>1 DEF Stores
  <2>2. CASE /\ row[s][k] = Blank /\ Written(s, k, p, NewRow(p, val), NewRow(p, val), val)
             /\ ret' = [op |-> "set", s |-> s, k |-> k, p |-> p, ok |-> TRUE, val |-> val]
    BY <2>2, SetInsertStores DEF Stores
  <2> QED  BY <1>4, <2>1, <2>2 DEF SetInsert
<1>5. ASSUME NEW s \in Storages, NEW k \in Keys, NEW up \in Answers, NEW p \in Paths,
             NEW val \in Input(p), SetUpdate(s, k, p, val, up)
      PROVE  Stores
  <2> DEFINE new == JsonSet(RootValue(s, k, up), p, val)
  <2>1. CASE ret' = [op |-> "set", s |-> s, k |-> k, p |-> p, ok |-> FALSE, val |-> val]
    BY <2>1 DEF Stores
  <2>2. CASE /\ Written(s, k, p, Update(row[s][k], new), new, val)
             /\ ret' = [op |-> "set", s |-> s, k |-> k, p |-> p, ok |-> TRUE, val |-> val]
    <3>1. StoredAndKept(s, k, p, val)
      BY <1>5, <2>2, SetUpdateStores DEF SetUpdate
    <3> QED  BY <2>2, <3>1 DEF Stores
  <2> QED  BY <1>5, <2>1, <2>2 DEF SetUpdate
<1>6. ASSUME NEW k \in Keys, NEW up \in Answers, SetStorageRound(k, up) PROVE Stores
  BY <1>6 DEF SetStorageRound, Stores
<1>7. CASE SetStorageEnd \/ Expire \/ Restart
  BY <1>0, <1>7 DEF SetStorageEnd, Expire, Restart, NothingReturned
<1> QED
  BY <1>0, <1>1, <1>2, <1>3, <1>4, <1>5, <1>6, <1>7 DEF Next

\* Every set(storage, key, value) that returned true stored its value and kept
\* the other fields and rows (data_sql.cpp:496-581), as long as
\* set(storage, value) carries one key.
THEOREM SetsStoreAndKeep == MaxBatch <= 1 /\ Spec => SetStoresAndKeeps
<1> SUFFICES ASSUME MaxBatch <= 1 PROVE Spec => SetStoresAndKeeps
  OBVIOUS
<1>1. CoInv /\ [Next]_vars => CoInv'
  BY NextCoInv
<1>2. CoInv /\ [Next]_vars => [Stores]_vars
  BY NextStores
<1> QED
  BY InitCoInv, <1>1, <1>2, PTL DEF Spec, SetStoresAndKeeps, Stores

----------------------------------------------------------------------------
(* Frames of fields: they go out of date only in steps that raise          *)
(* storage_changed_.  This needs no bound on a batch.                      *)

StartsHidden ==
    \A s \in Storages, k \in Keys, f \in Fields :
        (FieldFrameStale(s, k, f)' /\ ~FieldFrameStale(s, k, f)) => storage_changed_'

\* A step that changes no row and gives no field frame anything but what its row says.
LEMMA QuietFrames ==
    ASSUME row' = row,
           \A s \in Storages, k \in Keys, f \in Fields :
               \/ frame'[s][k][f] \in {frame[s][k][f], NoFrame}
               \/ frame'[s][k][f] = Find(row[s][k], f)
    PROVE  StartsHidden
BY DEF StartsHidden, FieldFrameStale

\* Reading a row at its root leaves the field frames alone.
LEMMA QuietRead ==
    ASSUME Inv, NEW s \in Storages, NEW k \in Keys, NEW up \in BOOLEAN,
           frame' = FrameAfterRead(s, k, up), row' = row
    PROVE  StartsHidden
<1> DEFINE v == IF row[s][k] = Null THEN Blank ELSE row[s][k]
<1>1. CASE frame' = frame
  BY <1>1, QuietFrames
<1>2. CASE frame' = [frame EXCEPT ![s][k][Root] = v]
  <2>1. FramesTyped(frame) /\ Root \in Paths /\ Fields \subseteq Paths
    BY TypeParts DEF Inv, CacheTyped, Paths
  <2> HIDE DEF v
  <2>2. \A x \in Storages, y \in Keys, f \in Fields : frame'[x][y][f] = frame[x][y][f]
    BY <1>2, <2>1, FrameAt, RootAssumption
  <2> QED
    BY <2>2, QuietFrames
<1> QED
  BY <1>1, <1>2 DEF FrameAfterRead

\* A field read caches what the row says at the field.
LEMMA QuietField ==
    ASSUME Inv, NEW s \in Storages, NEW k \in Keys, NEW f \in Fields,
           NEW v, v = Find(row[s][k], f),
           frame' = [frame EXCEPT ![s][k][f] = v], row' = row
    PROVE  StartsHidden
<1>1. FramesTyped(frame) /\ f \in Paths /\ Fields \subseteq Paths
  BY TypeParts DEF Inv, CacheTyped, Paths
<1>2. \A x \in Storages, y \in Keys, q \in Paths :
          frame'[x][y][q] = IF x = s /\ y = k /\ q = f THEN v ELSE frame[x][y][q]
  BY <1>1, FrameAt, SMTT(40)
<1>3. \A x \in Storages, y \in Keys, g \in Fields :
          frame'[x][y][g] = IF x = s /\ y = k /\ g = f THEN v ELSE frame[x][y][g]
  BY <1>1, <1>2
<1> QED
  BY <1>3, QuietFrames

LEMMA QuietExpire ==
    ASSUME Inv, Expire
    PROVE  StartsHidden
<1>1. row' = row
  BY DEF Expire, database
<1>2. ASSUME NEW s \in Storages, NEW k \in Keys, NEW p \in Paths,
             frame' = [frame EXCEPT ![s][k][p] = NoFrame]
      PROVE  StartsHidden
  <2>1. FramesTyped(frame) /\ Fields \subseteq Paths
    BY TypeParts DEF Inv, CacheTyped, Paths
  <2>2. \A x \in Storages, y \in Keys, f \in Fields :
            frame'[x][y][f] \in {frame[x][y][f], NoFrame}
    BY <1>2, <2>1, FrameAt
  <2> QED
    BY <1>1, <2>2, QuietFrames
<1>3. CASE frame' = frame
  BY <1>1, <1>3, QuietFrames
<1> QED
  BY <1>2, <1>3 DEF Expire

LEMMA NextStartsHidden ==
    ASSUME Inv, Next
    PROVE  StartsHidden
<1> USE AnswersAssumption
<1>0. storage_changed_' = TRUE => StartsHidden
  BY DEF StartsHidden
<1>1. UNCHANGED <<row, frame>> => StartsHidden
  BY QuietFrames
<1>2. (/\ row' = row
       /\ frame' = [x \in Storages |-> [k \in Keys |-> [p \in Paths |-> NoFrame]]])
         => StartsHidden
  BY QuietFrames DEF StartsHidden, FieldFrameStale, Paths
<1>3. ASSUME NEW s \in Storages, NEW k \in Keys, NEW up \in Answers, NEW string \in BOOLEAN,
             OnlyRead(s, k, up, string)
      PROVE  StartsHidden
  BY <1>3, QuietRead DEF OnlyRead, database
<1>4. ASSUME NEW s \in Storages, NEW up \in Answers,
             \/ Exists(s, up) \/ Create(s, up)
             \/ GetStorageString(s, up) \/ GetStorageJson(s, up)
             \/ \E value \in BatchInput : SetStorageBegin(s, value, up)
      PROVE  UNCHANGED <<row, frame>>
  BY <1>4 DEF Exists, Create, GetStorageString, GetStorageJson, SetStorageBegin, database
<1>5. ASSUME NEW s \in Storages, NEW up \in Answers, Clear(s, up) PROVE StartsHidden
  <2>1. CASE UNCHANGED <<database, cache>>
    BY <1>1, <2>1 DEF database, cache
  <2>2. CASE EmptyCache(s)
    BY <2>2 DEF EmptyCache, StartsHidden, FieldFrameStale, Paths
  <2> QED
    BY <1>5, <2>1, <2>2 DEF Clear
<1>6. ASSUME NEW s \in Storages, NEW k \in Keys, NEW up \in Answers, NEW f \in Fields,
             NEW string \in BOOLEAN,
             \/ GetFieldCached(s, k, f, string)
             \/ GetFieldFromRow(s, k, f, up)
             \/ GetFieldNothing(s, k, f, up, string)
      PROVE  StartsHidden
  <2>1. CASE GetFieldCached(s, k, f, string)
    BY <1>1, <2>1 DEF GetFieldCached, database, cache
  <2>2. CASE GetFieldFromRow(s, k, f, up)
    <3>1. /\ row' = row
          /\ \/ frame' = frame
             \/ frame' = [frame EXCEPT ![s][k][f] = Find(row[s][k], f)]
      BY <2>2 DEF GetFieldFromRow, database
    <3> QED
      BY <1>1, <3>1, QuietField
  <2>3. CASE GetFieldNothing(s, k, f, up, string)
    <3>1. row' = row
      BY <2>3 DEF GetFieldNothing, database
    <3>2. row[s][k] = Null => Find(row[s][k], f) = Blank
      BY RootAssumption, SentinelAssumption DEF Find
    <3>3. \/ frame' = frame
          \/ frame' = [frame EXCEPT ![s][k][f] = Find(row[s][k], f)]
      BY <2>3, <3>2 DEF GetFieldNothing
    <3> QED
      BY <1>1, <3>1, <3>3, QuietField
  <2> QED
    BY <1>6, <2>1, <2>2, <2>3
<1>7. ASSUME NEW s \in Storages, NEW k \in Keys, NEW up \in Answers,
             \/ \E string \in BOOLEAN : GetRoot(s, k, up, string)
             \/ \E p \in Paths : EraseNothing(s, k, p, up)
             \/ EraseRow(s, k, up)
             \/ \E f \in Fields : EraseField(s, k, f, up)
      PROVE  StartsHidden
  BY <1>0, <1>3, <1>7
     DEF GetRoot, EraseNothing, EraseRow, EraseField, Written, MarkChanged
<1>8. ASSUME NEW s \in Storages, NEW k \in Keys, NEW up \in Answers, NEW p \in Paths,
             NEW val \in Input(p),
             \/ SetEqual(s, k, p, val, up)
             \/ SetInsert(s, k, p, val, up)
             \/ SetUpdate(s, k, p, val, up)
      PROVE  StartsHidden
  BY <1>0, <1>3, <1>8 DEF SetEqual, SetInsert, SetUpdate, Written, MarkChanged
<1>9. ASSUME NEW k \in Keys, NEW up \in Answers, SetStorageRound(k, up) PROVE StartsHidden
  <2>1. CASE RoundSucceeds(batch, k, up)
    BY <1>0, <1>9, <2>1 DEF SetStorageRound
  <2>2. CASE ~RoundSucceeds(batch, k, up)
    <3>1. batch.s \in Storages
      BY <1>9 DEF Inv, TypeOK, SetStorageRound, BatchType
    <3>2. frame' = FrameAfterRead(batch.s, k, up) /\ row' = row
      BY <1>9, <2>2 DEF SetStorageRound, database
    <3> QED
      BY <3>1, <3>2, QuietRead
  <2> QED
    BY <2>1, <2>2
<1>10. CASE SetStorageEnd
  BY <1>1, <1>10 DEF SetStorageEnd, database, cache
<1>11. CASE Expire
  BY <1>11, QuietExpire
<1>12. CASE Restart
  BY <1>2, <1>12 DEF Restart, database
<1> QED
  BY <1>1, <1>4, <1>5, <1>6, <1>7, <1>8, <1>9, <1>10, <1>11, <1>12 DEF Next

\* A step that makes a field frame differ from its row raises storage_changed_
\* (data_sql.cpp:673), for batches of any size.
THEOREM StaleFramesStartHidden == Spec => StaleFrameStartsHidden
<1>1. Inv /\ [Next]_vars => [StartsHidden]_vars
  BY NextStartsHidden
<1> QED
  BY InitInv, NextInv, <1>1, PTL DEF Spec, StaleFrameStartsHidden, StartsHidden

=============================================================================
