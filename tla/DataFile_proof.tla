--------------------------- MODULE DataFile_proof ---------------------------
(***************************************************************************)
(* DataFile is type correct for every set of threads, files, inodes, keys  *)
(* and values, with opens and writes that fail and with crashes: a file,   *)
(* the backup of any file and a new file never share an inode.             *)
(*                                                                         *)
(* TypeOK alone is not inductive: a step of a call reads its variables,    *)
(* which are defined only where the call is (Fits).  Names, calls and      *)
(* histories are disturbed by different actions, so that the invariant is  *)
(* proved in three parts.                                                  *)
(*                                                                         *)
(* Then, for one thread: after one interrupted save the last contents that *)
(* were saved are in the file or in its backup (Recoverable), a set stores *)
(* its key and keeps the others, and only exists() throws.                 *)
(***************************************************************************)
EXTENDS DataFile, TLAPS

Ops == {"none", "set", "set all", "erase", "get", "get all", "exists"}
Steps == {"idle", "load", "read", "save", "rename", "open", "write"}

CallType == [op : Ops, pc : Steps,
             f : Files \cup {None}, k : Keys \cup {Absent},
             x : Values \cup {Absent}, v : Contents \cup {Empty},
             h : Inodes \cup {None}]

\* The variables a call in progress has.
Fits(c) ==
    /\ c \in CallType
    /\ c.pc # "idle" =>
          /\ c.f \in Files
          /\ c.op \in {"set", "erase", "get", "exists"} => c.k \in Keys
          /\ c.op = "set" => c.x \in Values
    /\ c.pc \in {"load", "read"} => c.op \in {"set", "erase", "get", "get all", "exists"}
    /\ c.pc = "read" => c.h \in Inodes

Distinct(nm, bk) ==
    \A f, g \in Files :
        /\ nm[f] # None => nm[f] # bk[g] /\ (f # g => nm[f] # nm[g])
        /\ bk[f] # None /\ f # g => bk[f] # bk[g]

DiskOK ==
    /\ name \in [Files -> Inodes \cup {None}]
    /\ backup \in [Files -> Inodes \cup {None}]
    /\ data \in [Inodes -> Contents \cup {Empty, Torn}]
    /\ Distinct(name, backup)

CallsOK ==
    /\ call \in [Threads -> CallType]
    /\ \A t \in Threads : Fits(call[t])
    /\ ret \in [Threads -> {"none", "true", "false", "throws"}]

HistoryOK ==
    /\ good \in [Files -> Contents \cup {Empty}]
    /\ begun \in [Files -> 0..2]

IInv == DiskOK /\ CallsOK /\ HistoryOK

\* The parts of the invariant are more than the type invariant.
LEMMA IInvType == IInv => TypeOK
BY DEF IInv, DiskOK, CallsOK, HistoryOK, Distinct, CallType, Ops, Steps, TypeOK

----------------------------------------------------------------------------
(* Calls.                                                                  *)

\* The operations and the places of a call.
LEMMA Names ==
    /\ "none" \in Ops /\ "set" \in Ops /\ "set all" \in Ops /\ "erase" \in Ops
    /\ "get" \in Ops /\ "get all" \in Ops /\ "exists" \in Ops
    /\ "idle" \in Steps /\ "load" \in Steps /\ "read" \in Steps /\ "save" \in Steps
    /\ "rename" \in Steps /\ "open" \in Steps /\ "write" \in Steps
BY DEF Ops, Steps

\* A call made of typed variables is typed.
LEMMA CallingTyped ==
    ASSUME NEW op \in Ops, NEW pc \in Steps,
           NEW f \in Files \cup {None}, NEW k \in Keys \cup {Absent},
           NEW x \in Values \cup {Absent}, NEW v \in Contents \cup {Empty},
           NEW h \in Inodes \cup {None}
    PROVE  Calling(op, pc, f, k, x, v, h) \in CallType
BY DEF Calling, CallType

\* Its variables are those it was made of.
LEMMA CallingIs ==
    ASSUME NEW op, NEW pc, NEW f, NEW k, NEW x, NEW v, NEW h,
           NEW c, c = Calling(op, pc, f, k, x, v, h)
    PROVE  /\ c.op = op /\ c.pc = pc /\ c.f = f /\ c.k = k
           /\ c.x = x /\ c.v = v /\ c.h = h
BY DEF Calling

\* No call is a call that fits.
LEMMA NoCallFits == NoCall \in CallType /\ NoCall.pc = "idle" /\ Fits(NoCall)
<1>1. NoCall \in CallType /\ NoCall.pc = "idle"
  <2>1. NoCall \in CallType
    BY Names, CallingTyped DEF NoCall
  <2>2. NoCall.pc = "idle"
    BY DEF NoCall, Calling
  <2>3. QED
    BY <2>1, <2>2
<1>2. QED
  BY <1>1 DEF Fits

\* The variables of a call in progress.
LEMMA InProgress ==
    ASSUME CallsOK, NEW t \in Threads
    PROVE  /\ call[t] \in CallType /\ Fits(call[t])
           /\ call[t].op \in Ops
           /\ call[t].f \in Files \cup {None} /\ call[t].k \in Keys \cup {Absent}
           /\ call[t].x \in Values \cup {Absent} /\ call[t].v \in Contents \cup {Empty}
           /\ call[t].h \in Inodes \cup {None}
           /\ ~Ready(t) => call[t].f \in Files
BY DEF CallsOK, CallType, Fits, Ready

\* A step that gives one thread a call that fits, and perhaps an answer.
LEMMA CallStep ==
    ASSUME CallsOK, NEW t \in Threads, NEW c, Fits(c), Become(t, c),
           \/ UNCHANGED ret
           \/ \E r \in {"none", "true", "false", "throws"} : ret' = [ret EXCEPT ![t] = r]
    PROVE  CallsOK'
<1>1. c \in CallType
  BY DEF Fits
<1>2. call' \in [Threads -> CallType] /\ \A u \in Threads : call'[u] = IF u = t THEN c ELSE call[u]
  BY <1>1 DEF CallsOK, Become
<1>3. \A u \in Threads : Fits(call'[u])
  BY <1>2 DEF CallsOK
<1>4. ret' \in [Threads -> {"none", "true", "false", "throws"}]
  BY DEF CallsOK
<1>5. QED
  BY <1>2, <1>3, <1>4 DEF CallsOK, Fits, CallType

\* A call that returns.
LEMMA ReturnStep ==
    ASSUME CallsOK, NEW t \in Threads,
           NEW r \in {"none", "true", "false", "throws"}, Return(t, r)
    PROVE  CallsOK'
<1>1. Become(t, NoCall) /\ ret' = [ret EXCEPT ![t] = r]
  BY DEF Return
<1>2. QED
  BY <1>1, NoCallFits, CallStep

\* A call that goes on inside save() with the same variables.
LEMMA GotoStep ==
    ASSUME CallsOK, NEW t \in Threads, ~Ready(t), NEW pc \in {"rename", "open"},
           Goto(t, pc), UNCHANGED ret
    PROVE  CallsOK'
<1> DEFINE c == [call[t] EXCEPT !.pc = pc]
<1>1. call[t] \in CallType /\ Fits(call[t])
  BY InProgress
<1>2. c \in CallType /\ c.pc = pc /\ c.h = call[t].h /\ c.op = call[t].op /\ c.f = call[t].f /\ c.k = call[t].k /\ c.x = call[t].x
  BY <1>1, Names DEF CallType
<1>3. Become(t, c)
  BY DEF Goto, Become, CallsOK
<1> HIDE DEF c
<1>4. Fits(c)
  BY <1>1, <1>2 DEF Fits, Ready
<1>5. QED
  BY <1>3, <1>4, CallStep

\* What a step leaves alone stays typed.
LEMMA SameDisk == DiskOK /\ UNCHANGED <<name, backup, data>> => DiskOK'
BY DEF DiskOK, Distinct

LEMMA SameHistory == HistoryOK /\ UNCHANGED <<good, begun>> => HistoryOK'
BY DEF HistoryOK

\* What a call makes of a value is a value.
LEMMA JsonTyped ==
    ASSUME NEW v \in Contents \cup {Empty}, NEW k \in Keys
    PROVE  /\ \A x \in Values : JsonSet(v, k, x) \in Contents
           /\ JsonErase(v, k) \in Contents \cup {Empty}
BY DEF JsonSet, JsonErase, Has, Blank, Contents

\* A call that begins is typed and has its variables.
LEMMA BeginCall ==
    ASSUME IInv, NEW t \in Threads, NEW op \in Ops \ {"none"}, NEW f \in Files,
           NEW k \in Keys \cup {Absent}, NEW x \in Values \cup {Absent},
           NEW v \in Contents \cup {Empty}, Call(t, op, f, k, x, v),
           op \in {"set", "erase", "get", "exists"} => k \in Keys,
           op = "set" => x \in Values
    PROVE  IInv'
<1> DEFINE pc == IF op = "set all" THEN "save" ELSE "load"
           c == Calling(op, pc, f, k, x, v, None)
<1>1. pc \in Steps /\ pc \notin {"idle", "read"} /\ (pc = "load" => op # "set all")
  BY Names
<1>2. Become(t, c) /\ ret' = [ret EXCEPT ![t] = "none"]
      /\ UNCHANGED <<name, backup, data, good, begun>>
  BY DEF Call
<1> HIDE DEF pc
<1>3. c \in CallType
  BY <1>1, CallingTyped
<1>4. c.op = op /\ c.pc = pc /\ c.f = f /\ c.k = k /\ c.x = x
  BY CallingIs
<1> HIDE DEF c
<1>5. Fits(c)
  BY <1>1, <1>3, <1>4 DEF Fits, Ops
<1>6. CallsOK'
  BY <1>2, <1>5, CallStep DEF IInv
<1>7. QED
  BY <1>2, <1>6, SameDisk, SameHistory DEF IInv

\* create and clear are one step: only the file they name changes.
LEMMA CreateInv ==
    ASSUME IInv, NEW t \in Threads, NEW f \in Files, Create(t, f)
    PROVE  IInv'
<1>1. CallsOK'
  BY DEF IInv, CallsOK, Create
<1>2. HistoryOK'
  BY DEF IInv, HistoryOK, Create
<1>3. CASE name[f] # None /\ data' = [data EXCEPT ![name[f]] = Empty] /\ UNCHANGED <<name, backup>>
  <2>1. data' \in [Inodes -> Contents \cup {Empty, Torn}]
    BY <1>3 DEF IInv, DiskOK
  <2>2. QED
    BY <1>1, <1>2, <1>3, <2>1 DEF IInv, DiskOK, Distinct
<1>4. ASSUME NEW i \in Free, name[f] = None, name' = [name EXCEPT ![f] = i],
             data' = [data EXCEPT ![i] = Empty], UNCHANGED backup
      PROVE  IInv'
  <2>1. i \in Inodes /\ \A g \in Files : i # name[g] /\ i # backup[g]
    BY <1>4 DEF Free
  <2>2. name' \in [Files -> Inodes \cup {None}] /\ data' \in [Inodes -> Contents \cup {Empty, Torn}]
    BY <1>4, <2>1 DEF IInv, DiskOK
  <2>3. Distinct(name', backup')
    BY <1>4, <2>1 DEF IInv, DiskOK, Distinct
  <2>4. QED
    BY <1>1, <1>2, <1>4, <2>2, <2>3 DEF IInv, DiskOK, Distinct
<1>5. QED
  BY <1>3, <1>4 DEF Create

LEMMA CreateFailsInv ==
    ASSUME IInv, NEW t \in Threads, NEW up \in Outcomes, CreateFails(t, up)
    PROVE  IInv'
<1>1. CallsOK'
  BY DEF IInv, CallsOK, CreateFails
<1>2. QED
  BY <1>1, SameDisk, SameHistory DEF IInv, CreateFails

LEMMA ClearInv ==
    ASSUME IInv, NEW t \in Threads, NEW f \in Files, Clear(t, f)
    PROVE  IInv'
<1>1. CallsOK'
  BY DEF IInv, CallsOK, Clear
<1>2. HistoryOK'
  BY DEF IInv, HistoryOK, Clear
<1>3. DiskOK'
  BY DEF IInv, DiskOK, Distinct, Clear
<1>4. QED
  BY <1>1, <1>2, <1>3 DEF IInv

----------------------------------------------------------------------------
(* load()                                                                  *)

\* Where the calls go once load() has ended.
LEMMA LoadedStep ==
    ASSUME CallsOK, NEW t \in Threads, call[t].pc \in {"load", "read"},
           NEW ok \in BOOLEAN, NEW v \in Contents \cup {Empty}, Loaded(t, ok, v)
    PROVE  CallsOK'
<1> DEFINE c == call[t]
<1>1. /\ c.op \in {"set", "erase", "get", "get all", "exists"} /\ c.f \in Files
      /\ c.op \in {"set", "erase"} => c.k \in Keys
      /\ c.op = "set" => c.x \in Values
      /\ c.k \in Keys \cup {Absent} /\ c.x \in Values \cup {Absent}
  BY InProgress DEF Fits, Ready
<1>2. ASSUME NEW w \in Contents \cup {Empty}, Save(t, w), UNCHANGED ret, c.op \in {"set", "erase"}
      PROVE  CallsOK'
  <2> DEFINE d == Calling(c.op, "save", c.f, c.k, c.x, w, None)
  <2>1. Become(t, d)
    BY <1>2 DEF Save
  <2>2. d \in CallType
    BY <1>1, Names, CallingTyped, InProgress
  <2>3. d.op = c.op /\ d.pc = "save" /\ d.f = c.f /\ d.k = c.k /\ d.x = c.x
    BY CallingIs
  <2> HIDE DEF d
  <2>4. Fits(d)
    BY <1>1, <1>2, <2>2, <2>3 DEF Fits
  <2>5. QED
    BY <1>2, <2>1, <2>4, CallStep
<1>3. CASE c.op \in {"get", "get all", "exists"}
  <2>1. \E r \in {"none", "true", "false", "throws"} : Return(t, r)
    BY <1>3 DEF Loaded, Bool
  <2>2. QED
    BY <2>1, ReturnStep
<1>4. CASE c.op = "set"
  <2>1. Return(t, "true") \/ (Save(t, JsonSet(v, c.k, c.x)) /\ UNCHANGED ret)
    BY <1>4 DEF Loaded
  <2>2. JsonSet(v, c.k, c.x) \in Contents \cup {Empty}
    BY <1>1, <1>4, JsonTyped
  <2>3. QED
    BY <1>2, <1>4, <2>1, <2>2, ReturnStep
<1>5. CASE c.op = "erase"
  <2>1. Save(t, JsonErase(v, c.k)) /\ UNCHANGED ret
    BY <1>5 DEF Loaded
  <2>2. JsonErase(v, c.k) \in Contents \cup {Empty}
    BY <1>1, <1>5, JsonTyped
  <2>3. QED
    BY <1>2, <1>5, <2>1, <2>2
<1>6. QED
  BY <1>1, <1>3, <1>4, <1>5

\* A call that goes on in the same operation, elsewhere and with other variables.
LEMMA MoveStep ==
    ASSUME CallsOK, NEW t \in Threads, ~Ready(t), NEW pc \in {"read", "write"},
           NEW v \in Contents \cup {Empty}, NEW i \in Inodes \cup {None},
           pc = "read" => i \in Inodes /\ call[t].pc = "load",
           Become(t, Calling(call[t].op, pc, call[t].f, call[t].k, call[t].x, v, i)),
           UNCHANGED ret
    PROVE  CallsOK'
<1> DEFINE d == Calling(call[t].op, pc, call[t].f, call[t].k, call[t].x, v, i)
<1>1. Fits(call[t]) /\ call[t].pc # "idle" /\ pc \in Steps
  BY InProgress, Names DEF Ready
<1>2. d \in CallType
  BY <1>1, CallingTyped, InProgress
<1>3. /\ d.op = call[t].op /\ d.pc = pc /\ d.f = call[t].f /\ d.k = call[t].k
      /\ d.x = call[t].x /\ d.h = i
  BY CallingIs
<1>4. Become(t, d)
  OBVIOUS
<1> HIDE DEF d
<1>5. Fits(d)
  BY <1>1, <1>2, <1>3 DEF Fits
<1>6. QED
  BY <1>4, <1>5, CallStep

LEMMA LoadOpenInv ==
    ASSUME IInv, NEW t \in Threads, LoadOpen(t)
    PROVE  IInv'
<1>1. CallsOK /\ call[t].pc = "load" /\ ~Ready(t)
  BY DEF IInv, LoadOpen, At, Ready
<1>2. call[t].pc \in {"load", "read"} /\ call[t].f \in Files
  BY <1>1, InProgress
<1>3. ASSUME Loaded(t, FALSE, Empty) PROVE CallsOK'
  BY <1>1, <1>2, <1>3, LoadedStep
<1>4. ASSUME NEW i \in Inodes,
             Become(t, Calling(call[t].op, "read", call[t].f, call[t].k, call[t].x, call[t].v, i)),
             UNCHANGED ret
      PROVE  CallsOK'
  <2>1. call[t].v \in Contents \cup {Empty}
    BY <1>1, InProgress
  <2>2. QED
    BY <1>1, <1>4, <2>1, MoveStep
<1>5. name[call[t].f] \in Inodes \cup {None}
  BY <1>2 DEF IInv, DiskOK
<1>6. CallsOK'
  <2>1. \/ Loaded(t, FALSE, Empty)
        \/ /\ name[call[t].f] # None
           /\ Become(t, Calling(call[t].op, "read", call[t].f, call[t].k, call[t].x,
                                call[t].v, name[call[t].f]))
           /\ UNCHANGED ret
    BY DEF LoadOpen
  <2>2. QED
    BY <1>3, <1>4, <1>5, <2>1
<1>7. QED
  BY <1>6, SameDisk, SameHistory DEF IInv, LoadOpen

LEMMA LoadReadInv ==
    ASSUME IInv, NEW t \in Threads, LoadRead(t)
    PROVE  IInv'
<1>1. CallsOK /\ call[t].pc \in {"load", "read"}
  BY DEF IInv, LoadRead, At
<1>2. \/ Return(t, "throws")
      \/ Loaded(t, TRUE, Empty)
      \/ data[call[t].h] \in Contents /\ Loaded(t, TRUE, data[call[t].h])
      \/ Loaded(t, FALSE, Empty)
  BY DEF LoadRead
<1>3. CallsOK'
  BY <1>1, <1>2, LoadedStep, ReturnStep
<1>4. QED
  BY <1>3, SameDisk, SameHistory DEF IInv, LoadRead

----------------------------------------------------------------------------
(* save()                                                                  *)

LEMMA SaveBeginInv ==
    ASSUME IInv, NEW t \in Threads, SaveBegin(t)
    PROVE  IInv'
<1>1. CallsOK /\ ~Ready(t) /\ call[t].f \in Files
  BY InProgress DEF IInv, SaveBegin, At, Ready
<1>2. CallsOK'
  BY <1>1, GotoStep DEF SaveBegin
<1>3. HistoryOK'
  BY <1>1 DEF IInv, HistoryOK, SaveBegin
<1>4. QED
  BY <1>2, <1>3, SameDisk DEF IInv, SaveBegin

\* Renaming moves an inode from the name to the backup of the same file.
LEMMA RenameInv ==
    ASSUME IInv, NEW t \in Threads, Rename(t)
    PROVE  IInv'
<1>1. CallsOK /\ ~Ready(t) /\ call[t].f \in Files
  BY InProgress DEF IInv, Rename, At, Ready
<1>2. CallsOK'
  BY <1>1, GotoStep, ReturnStep DEF Rename
<1>3. DiskOK'
  <2>1. CASE UNCHANGED <<name, backup>>
    BY <2>1, SameDisk DEF IInv, Rename
  <2>2. CASE /\ backup' = [backup EXCEPT ![call[t].f] = name[call[t].f]]
             /\ name' = [name EXCEPT ![call[t].f] = None]
    <3>1. UNCHANGED data
      BY DEF Rename
    <3>2. QED
      BY <1>1, <2>2, <3>1 DEF IInv, DiskOK, Distinct
  <2>3. QED
    BY <2>1, <2>2 DEF Rename
<1>4. QED
  BY <1>2, <1>3, SameHistory DEF IInv, Rename

LEMMA OpenInv ==
    ASSUME IInv, NEW t \in Threads, NEW up \in Outcomes, Open(t, up)
    PROVE  IInv'
<1> DEFINE f == call[t].f
<1>1. CallsOK /\ ~Ready(t) /\ f \in Files /\ call[t].v \in Contents \cup {Empty}
  BY InProgress DEF IInv, Open, At, Ready
<1>2. ASSUME NEW i \in Inodes \cup {None}, Opened(t, i), UNCHANGED ret
      PROVE  CallsOK'
  BY <1>1, <1>2, MoveStep DEF Opened
<1>3. UNCHANGED <<backup, ret, good, begun>>
  BY DEF Open
<1>4. CASE name[f] # None /\ data' = [data EXCEPT ![name[f]] = Empty]
           /\ Opened(t, name[f]) /\ UNCHANGED name
  <2>1. name[f] \in Inodes
    BY <1>1, <1>4 DEF IInv, DiskOK
  <2>2. DiskOK'
    BY <1>3, <1>4, <2>1 DEF IInv, DiskOK, Distinct
  <2>3. QED
    BY <1>2, <1>3, <1>4, <2>1, <2>2, SameHistory DEF IInv
<1>5. ASSUME NEW i \in Free, name[f] = None, name' = [name EXCEPT ![f] = i],
             data' = [data EXCEPT ![i] = Empty], Opened(t, i)
      PROVE  IInv'
  <2>1. i \in Inodes /\ \A g \in Files : i # name[g] /\ i # backup[g]
    BY <1>5 DEF Free
  <2>2. name' \in [Files -> Inodes \cup {None}] /\ data' \in [Inodes -> Contents \cup {Empty, Torn}]
    BY <1>5, <2>1 DEF IInv, DiskOK
  <2>3. DiskOK'
    BY <1>3, <1>5, <2>1, <2>2 DEF IInv, DiskOK, Distinct
  <2>4. QED
    BY <1>2, <1>3, <1>5, <2>1, <2>3, SameHistory DEF IInv
<1>6. CASE Opened(t, None) /\ UNCHANGED <<name, data>>
  BY <1>2, <1>3, <1>6, SameDisk, SameHistory DEF IInv
<1>7. QED
  BY <1>4, <1>5, <1>6 DEF Open

LEMMA WriteInv ==
    ASSUME IInv, NEW t \in Threads, NEW up \in Outcomes, Write(t, up)
    PROVE  IInv'
<1>1. /\ CallsOK /\ ~Ready(t) /\ call[t].f \in Files
      /\ call[t].v \in Contents \cup {Empty} /\ call[t].h \in Inodes \cup {None}
  BY InProgress DEF IInv, Write, At, Ready
<1>2. CallsOK'
  BY <1>1, ReturnStep DEF Write
<1>3. HistoryOK'
  BY <1>1 DEF IInv, HistoryOK, Write
<1>4. data' \in [Inodes -> Contents \cup {Empty, Torn}]
  <2>1. CASE UNCHANGED data
    BY <2>1 DEF IInv, DiskOK
  <2>2. ASSUME call[t].h # None, NEW text \in Texts(call[t].h, call[t].v, up),
               data' = [data EXCEPT ![call[t].h] = text]
        PROVE  data' \in [Inodes -> Contents \cup {Empty, Torn}]
    <3>1. call[t].h \in Inodes /\ data \in [Inodes -> Contents \cup {Empty, Torn}]
      BY <1>1, <2>2 DEF IInv, DiskOK
    <3>2. up \in BOOLEAN
      BY FileConstants
    <3>3. text \in Contents \cup {Empty, Torn}
      BY <1>1, <2>2, <3>1, <3>2 DEF Texts
    <3>4. QED
      BY <2>2, <3>1, <3>3
  <2>3. QED
    BY <2>1, <2>2 DEF Write
<1>5. QED
  BY <1>2, <1>3, <1>4 DEF IInv, DiskOK, Distinct, Write

----------------------------------------------------------------------------
(* Crashes, and the whole.                                                 *)

\* A process that dies leaves in an inode what was there, or a part of what one of its
\* threads was writing.
LEMMA CrashInv ==
    ASSUME IInv, Crash
    PROVE  IInv'
<1>1. \A i \in Inodes : Left(i) \subseteq Contents \cup {Empty, Torn}
  <2>1. \A t \in Threads : call[t].v \in Contents \cup {Empty}
    BY InProgress DEF IInv
  <2>2. QED
    BY <2>1 DEF IInv, DiskOK, Left
<1>2. data' \in [Inodes -> Contents \cup {Empty, Torn}]
  BY <1>1 DEF Crash
<1>3. CallsOK'
  BY NoCallFits DEF Crash, CallsOK, Fits, CallType
<1>4. QED
  BY <1>2, <1>3, SameHistory DEF Crash, IInv, DiskOK, Distinct

LEMMA InitIInv == Init => IInv
<1> SUFFICES ASSUME Init PROVE IInv
  OBVIOUS
<1>1. DiskOK
  BY DEF Init, DiskOK, Distinct
<1>2. CallsOK
  BY NoCallFits DEF Init, CallsOK
<1>3. HistoryOK
  BY DEF Init, HistoryOK
<1>4. QED
  BY <1>1, <1>2, <1>3 DEF IInv

\* A call begins.
LEMMA BeginInv ==
    ASSUME IInv, NEW t \in Threads, NEW f \in Files,
           Set(t, f) \/ SetAll(t, f) \/ Erase(t, f) \/ Get(t, f) \/ GetAll(t, f) \/ Exists(t, f)
    PROVE  IInv'
<1>1. "set" \in Ops \ {"none"} /\ "set all" \in Ops \ {"none"} /\ "erase" \in Ops \ {"none"}
      /\ "get" \in Ops \ {"none"} /\ "get all" \in Ops \ {"none"} /\ "exists" \in Ops \ {"none"}
  BY DEF Ops
<1>2. CASE Set(t, f)
  BY <1>1, <1>2, BeginCall DEF Set
<1>3. CASE SetAll(t, f)
  BY <1>1, <1>3, BeginCall DEF SetAll
<1>4. CASE Erase(t, f)
  BY <1>1, <1>4, BeginCall DEF Erase
<1>5. CASE Get(t, f)
  BY <1>1, <1>5, BeginCall DEF Get
<1>6. CASE GetAll(t, f)
  BY <1>1, <1>6, BeginCall DEF GetAll
<1>7. CASE Exists(t, f)
  BY <1>1, <1>7, BeginCall DEF Exists
<1>8. QED
  BY <1>2, <1>3, <1>4, <1>5, <1>6, <1>7

LEMMA NextIInv == IInv /\ [Next]_vars => IInv'
<1> SUFFICES ASSUME IInv, [Next]_vars PROVE IInv'
  OBVIOUS
<1>1. ASSUME NEW t \in Threads, NEW f \in Files,
             Set(t, f) \/ SetAll(t, f) \/ Erase(t, f) \/ Get(t, f) \/ GetAll(t, f) \/ Exists(t, f)
      PROVE  IInv'
  BY <1>1, BeginInv
<1>2. ASSUME NEW t \in Threads, NEW f \in Files, Create(t, f) PROVE IInv'
  BY <1>2, CreateInv
<1>3. ASSUME NEW t \in Threads, NEW f \in Files, Clear(t, f) PROVE IInv'
  BY <1>3, ClearInv
<1>4. ASSUME NEW t \in Threads, LoadOpen(t) PROVE IInv'
  BY <1>4, LoadOpenInv
<1>5. ASSUME NEW t \in Threads, LoadRead(t) PROVE IInv'
  BY <1>5, LoadReadInv
<1>6. ASSUME NEW t \in Threads, SaveBegin(t) PROVE IInv'
  BY <1>6, SaveBeginInv
<1>7. ASSUME NEW t \in Threads, Rename(t) PROVE IInv'
  BY <1>7, RenameInv
<1>8. ASSUME NEW t \in Threads, NEW up \in Outcomes, Open(t, up) PROVE IInv'
  BY <1>8, OpenInv
<1>9. ASSUME NEW t \in Threads, NEW up \in Outcomes, Write(t, up) PROVE IInv'
  BY <1>9, WriteInv
<1>10. CASE Crash
  BY <1>10, CrashInv
<1>11. CASE UNCHANGED vars
  <2>1. UNCHANGED <<name, backup, data, good, begun>> /\ UNCHANGED <<call, ret>>
    BY <1>11 DEF vars
  <2>2. CallsOK'
    BY <2>1 DEF IInv, CallsOK, Fits, CallType
  <2>3. QED
    BY <2>1, <2>2, SameDisk, SameHistory DEF IInv
<1>12. ASSUME NEW t \in Threads, NEW up \in Outcomes, CreateFails(t, up) PROVE IInv'
  BY <1>12, CreateFailsInv
<1>13. QED
  BY <1>1, <1>2, <1>3, <1>4, <1>5, <1>6, <1>7, <1>8, <1>9, <1>10, <1>11, <1>12 DEF Next

\* The type invariant of the file driver, and with it that names and backups never
\* share an inode: for any threads, failures and crashes.
THEOREM FilesTypeCorrect == Spec => []TypeOK
<1>1. IInv => TypeOK
  BY IInvType
<1>2. QED
  BY <1>1, InitIInv, NextIInv, PTL DEF Spec

----------------------------------------------------------------------------
(* One thread, whose opens and writes succeed: a crash loses no more than  *)
(* the save that it interrupts.                                            *)

OneThread(me) == me \in Threads /\ (\A t \in Threads : t = me) /\ Outcomes = {TRUE}

\* The file is what the last completed change made of it.
Saved(f) == IF name[f] = None THEN good[f] = Empty ELSE data[name[f]] = good[f]

\* What that change made of it is in file~.
KeptAside(f) == good[f] = Empty \/ Holds(backup[f], good[f])

\* What the steps inside load() and save() have found or done.
Phase(me) ==
    /\ call[me].pc = "read" => call[me].h = name[call[me].f]
    /\ call[me].pc = "rename" => name[call[me].f] # None
    /\ call[me].pc = "open" => name[call[me].f] = None
    /\ call[me].pc = "write" => /\ call[me].h # None /\ call[me].h = name[call[me].f]
                                /\ data[call[me].h] = Empty
    /\ call[me].pc \in {"rename", "open", "write"} => begun[call[me].f] # 0

\* Where the last completed content is while a save of the file is in progress, and
\* after one that was interrupted.
KeptIn(me, f) ==
    /\ begun[f] = 0 => Saved(f)
    /\ begun[f] = 1 => good[f] = Empty \/ Holds(name[f], good[f]) \/ Holds(backup[f], good[f])
    /\ begun[f] = 1 /\ call[me].f = f =>
          /\ call[me].pc = "rename" => Saved(f)
          /\ call[me].pc \in {"open", "write"} => KeptAside(f)

Kept(me) == \A f \in Files : KeptIn(me, f)

AloneInv(me) == IInv /\ Phase(me) /\ Kept(me)

\* With begun bounded by 2, the invariant says what Recoverable does.
LEMMA AloneRecovers ==
    ASSUME NEW me, AloneInv(me)
    PROVE  Recoverable
<1> SUFFICES ASSUME NEW f \in Files, begun[f] <= 1
             PROVE  good[f] = Empty \/ Holds(name[f], good[f]) \/ Holds(backup[f], good[f])
  BY DEF Recoverable
<1>1. begun[f] = 0 \/ begun[f] = 1
  BY DEF AloneInv, IInv, HistoryOK
<1>2. KeptIn(me, f)
  BY DEF AloneInv, Kept
<1>3. QED
  BY <1>1, <1>2 DEF KeptIn, Saved, Holds

\* The thread leaves the phases of a save, or moves where only the call matters: no
\* file changes.
LEMMA QuietStep ==
    ASSUME NEW me, OneThread(me), AloneInv(me), IInv',
           UNCHANGED <<name, backup, data, good, begun>>,
           call'[me].pc \in {"idle", "load", "save", "read"},
           call'[me].pc = "read" => call'[me].h = name[call'[me].f]
    PROVE  AloneInv(me)'
<1>1. Phase(me)'
  BY DEF Phase
<1>2. ASSUME NEW f \in Files PROVE KeptIn(me, f)'
  <2>1. KeptIn(me, f)
    BY DEF AloneInv, Kept
  <2>2. QED
    BY <2>1 DEF KeptIn, Saved, KeptAside, Holds
<1>3. QED
  BY <1>1, <1>2 DEF AloneInv, Kept

\* A change of one file, at a moment when its own save is over, with all others as
\* they were.
LEMMA Settled ==
    ASSUME NEW me, AloneInv(me), NEW f \in Files, NEW g \in Files, g # f,
           name'[g] = name[g], backup'[g] = backup[g], good'[g] = good[g],
           begun'[g] = begun[g], call'[me].f = f \/ call'[me].pc = "idle",
           name[g] # None => data'[name[g]] = data[name[g]],
           backup[g] # None => data'[backup[g]] = data[backup[g]]
    PROVE  KeptIn(me, g)'
<1>1. KeptIn(me, g)
  BY DEF AloneInv, Kept
<1>2. QED
  BY <1>1 DEF KeptIn, Saved, KeptAside, Holds

\* The new call of the thread.
LEMMA BecomeIs ==
    ASSUME CallsOK, NEW t \in Threads, NEW c, Become(t, c)
    PROVE  call'[t] = c
BY DEF CallsOK, Become

\* After load() the call has returned or is at its save.
LEMMA LoadedIs ==
    ASSUME CallsOK, NEW t \in Threads, call[t].pc \in {"load", "read"},
           NEW ok, NEW v, Loaded(t, ok, v)
    PROVE  call'[t].pc \in {"idle", "save"}
<1>1. call[t].op \in {"set", "erase", "get", "get all", "exists"}
  BY InProgress DEF Fits
<1>2. ASSUME NEW r, Return(t, r) PROVE call'[t].pc = "idle"
  BY <1>2, BecomeIs, NoCallFits DEF Return
<1>3. ASSUME NEW w, Save(t, w) PROVE call'[t].pc = "save"
  <2>1. Become(t, Calling(call[t].op, "save", call[t].f, call[t].k, call[t].x, w, None))
    BY <1>3 DEF Save
  <2>2. QED
    BY <2>1, BecomeIs DEF Calling
<1>4. (\E r : Return(t, r)) \/ (\E w : Save(t, w))
  <2>1. CASE call[t].op = "get"
    BY <2>1 DEF Loaded
  <2>2. CASE call[t].op = "get all"
    BY <2>2 DEF Loaded
  <2>3. CASE call[t].op = "exists"
    BY <2>3 DEF Loaded
  <2>4. CASE call[t].op = "set"
    BY <2>4 DEF Loaded
  <2>5. CASE call[t].op = "erase"
    BY <2>5 DEF Loaded
  <2>6. QED
    BY <1>1, <2>1, <2>2, <2>3, <2>4, <2>5
<1>5. QED
  BY <1>2, <1>3, <1>4

\* Calls that begin, and load().
LEMMA AloneLoads ==
    ASSUME NEW me, OneThread(me), AloneInv(me), IInv',
           \/ \E op, f, k, x, v : Call(me, op, f, k, x, v)
           \/ LoadOpen(me) \/ LoadRead(me)
    PROVE  AloneInv(me)'
<1>1. me \in Threads /\ CallsOK
  BY DEF OneThread, AloneInv, IInv
<1>2. ASSUME NEW op, NEW f, NEW k, NEW x, NEW v, Call(me, op, f, k, x, v) PROVE AloneInv(me)'
  <2>1. Become(me, Calling(op, IF op = "set all" THEN "save" ELSE "load", f, k, x, v, None))
        /\ UNCHANGED <<name, backup, data, good, begun>>
    BY <1>2 DEF Call
  <2>2. call'[me].pc \in {"load", "save"}
    <3> DEFINE pc == IF op = "set all" THEN "save" ELSE "load"
    <3>1. pc \in {"load", "save"}
      OBVIOUS
    <3>2. Become(me, Calling(op, pc, f, k, x, v, None))
      BY <2>1
    <3> HIDE DEF pc
    <3>3. call'[me] = Calling(op, pc, f, k, x, v, None)
      BY <1>1, <3>2, BecomeIs
    <3>4. QED
      BY <3>1, <3>3 DEF Calling
  <2>3. QED
    BY <2>1, <2>2, QuietStep
<1>3. CASE LoadOpen(me)
  <2>1. UNCHANGED <<name, backup, data, good, begun>> /\ call[me].pc = "load"
    BY <1>3 DEF LoadOpen, At
  <2>2. CASE Loaded(me, FALSE, Empty)
    BY <1>1, <2>1, <2>2, LoadedIs, QuietStep
  <2>3. CASE Become(me, Calling(call[me].op, "read", call[me].f, call[me].k, call[me].x,
                                call[me].v, name[call[me].f]))
    <3>1. call'[me].pc = "read" /\ call'[me].f = call[me].f /\ call'[me].h = name[call[me].f]
      BY <1>1, <2>3, BecomeIs DEF Calling
    <3>2. QED
      BY <2>1, <3>1, QuietStep
  <2>4. QED
    BY <1>3, <2>2, <2>3 DEF LoadOpen
<1>4. CASE LoadRead(me)
  <2>1. UNCHANGED <<name, backup, data, good, begun>> /\ call[me].pc = "read"
    BY <1>4 DEF LoadRead, At
  <2>2. call'[me].pc \in {"idle", "save"}
    <3>1. Return(me, "throws") \/ \E ok, v : Loaded(me, ok, v)
      BY <1>4 DEF LoadRead
    <3>2. ASSUME Return(me, "throws") PROVE call'[me].pc = "idle"
      BY <1>1, <3>2, BecomeIs, NoCallFits DEF Return
    <3>3. QED
      BY <1>1, <2>1, <3>1, <3>2, LoadedIs
  <2>3. QED
    BY <2>1, <2>2, QuietStep
<1>5. QED
  BY <1>2, <1>3, <1>4

\* A name is none of the inodes of other files.
LEMMA Apart ==
    ASSUME DiskOK, NEW f \in Files, NEW g \in Files, g # f, name[f] # None
    PROVE  name[g] # name[f] /\ backup[g] # name[f] /\ backup[f] # name[f]
BY DEF DiskOK, Distinct

\* A step that puts text into the file f, or into a free inode under its name.
Fills(me, f, i, text) ==
    /\ i = name[f] \/ (i \in Free /\ name[f] = None)
    /\ data' = [data EXCEPT ![i] = text]
    /\ name' = name \/ name' = [name EXCEPT ![f] = i]
    /\ backup' = backup
    /\ \A g \in Files : g # f => good'[g] = good[g] /\ begun'[g] = begun[g]
    /\ call'[me].f = f \/ call'[me].pc = "idle"

\* It changes no other file, and no file~.
LEMMA OthersKept ==
    ASSUME NEW me, AloneInv(me), NEW f \in Files, NEW i \in Inodes, NEW text,
           Fills(me, f, i, text)
    PROVE  /\ \A g \in Files : g # f => KeptIn(me, g)'
           /\ backup[f] # None => backup[f] # i /\ data'[backup[f]] = data[backup[f]]
           /\ data'[i] = text
<1>1. DiskOK
  BY DEF AloneInv, IInv
<1>2. \A g \in Files : /\ g # f => name[g] # i
                       /\ backup[g] # i
  <2>1. CASE i = name[f]
    <3>1. name[f] # None
      BY <2>1, FileConstants
    <3>2. QED
      BY <1>1, <2>1, <3>1, Apart DEF DiskOK, Distinct
  <2>2. CASE i \in Free
    BY <2>2 DEF Free
  <2>3. QED
    BY <2>1, <2>2 DEF Fills
<1>3. \A g \in Files : name[g] \in Inodes \cup {None} /\ backup[g] \in Inodes \cup {None}
  BY <1>1 DEF DiskOK
<1>4. \A j \in Inodes : j # i => data'[j] = data[j]
  BY <1>1 DEF DiskOK, Fills
<1>5. data'[i] = text
  BY <1>1 DEF DiskOK, Fills
<1>6. ASSUME NEW g \in Files, g # f PROVE KeptIn(me, g)'
  <2>1. name'[g] = name[g]
    BY <1>1, <1>6 DEF DiskOK, Fills
  <2>2. name[g] # None => data'[name[g]] = data[name[g]]
    BY <1>2, <1>3, <1>4, <1>6
  <2>3. backup[g] # None => data'[backup[g]] = data[backup[g]]
    BY <1>2, <1>3, <1>4
  <2>4. QED
    BY <1>6, <2>1, <2>2, <2>3, Settled DEF Fills
<1>7. QED
  BY <1>2, <1>3, <1>4, <1>5, <1>6

\* The changes that are complete in one step leave the file empty or gone.
LEMMA AloneCreates ==
    ASSUME NEW me, OneThread(me), AloneInv(me), IInv', NEW f \in Files, Create(me, f)
    PROVE  AloneInv(me)'
<1>1. DiskOK /\ me \in Threads /\ good' = [good EXCEPT ![f] = Empty]
      /\ begun' = [begun EXCEPT ![f] = 0] /\ HistoryOK
  BY DEF AloneInv, IInv, Create, OneThread
<1>2. call'[me].pc = "idle" /\ call[me].pc = "idle" /\ UNCHANGED backup
  BY DEF Create, Ready
<1>3. ASSUME NEW i \in Inodes, i = name[f] \/ (i \in Free /\ name[f] = None),
             data' = [data EXCEPT ![i] = Empty], name' = name \/ name' = [name EXCEPT ![f] = i],
             name'[f] = i
      PROVE  AloneInv(me)'
  <2>1. \A g \in Files : g # f => good'[g] = good[g] /\ begun'[g] = begun[g]
    BY <1>1 DEF HistoryOK
  <2> Fills(me, f, i, Empty)
    BY <1>2, <1>3, <2>1 DEF Fills
  <2>2. (\A g \in Files : g # f => KeptIn(me, g)') /\ data'[i] = Empty
    BY <1>3, OthersKept
  <2>3. good'[f] = Empty /\ begun'[f] = 0
    BY <1>1 DEF HistoryOK
  <2>4. KeptIn(me, f)'
    BY <1>2, <1>3, <2>2, <2>3, FileConstants DEF KeptIn, Saved
  <2>5. Phase(me)'
    BY <1>2 DEF Phase
  <2>6. QED
    BY <2>2, <2>4, <2>5 DEF AloneInv, Kept
<1>4. CASE name[f] # None /\ data' = [data EXCEPT ![name[f]] = Empty] /\ UNCHANGED name
  <2>1. name[f] \in Inodes
    BY <1>1, <1>4 DEF DiskOK
  <2>2. QED
    BY <1>3, <1>4, <2>1
<1>5. ASSUME NEW i \in Free, name[f] = None, name' = [name EXCEPT ![f] = i],
             data' = [data EXCEPT ![i] = Empty]
      PROVE  AloneInv(me)'
  <2>1. i \in Inodes /\ name'[f] = i
    BY <1>1, <1>5 DEF Free, DiskOK
  <2>2. QED
    BY <1>3, <1>5, <2>1
<1>6. QED
  BY <1>4, <1>5 DEF Create

LEMMA AloneClears ==
    ASSUME NEW me, OneThread(me), AloneInv(me), IInv', NEW f \in Files, Clear(me, f)
    PROVE  AloneInv(me)'
<1>1. /\ name' = [name EXCEPT ![f] = None] /\ UNCHANGED <<backup, data, call>>
      /\ good' = [good EXCEPT ![f] = Empty] /\ begun' = [begun EXCEPT ![f] = 0]
      /\ call[me].pc = "idle" /\ DiskOK /\ HistoryOK
  BY DEF AloneInv, IInv, Clear, Ready
<1>2. ASSUME NEW g \in Files, g # f PROVE KeptIn(me, g)'
  <2>1. name'[g] = name[g] /\ good'[g] = good[g] /\ begun'[g] = begun[g]
    BY <1>1, <1>2 DEF DiskOK, HistoryOK
  <2>2. QED
    BY <1>1, <1>2, <2>1, Settled
<1>3. KeptIn(me, f)'
  <2>1. name'[f] = None /\ good'[f] = Empty /\ begun'[f] = 0
    BY <1>1 DEF DiskOK, HistoryOK
  <2>2. QED
    BY <1>1, <2>1 DEF KeptIn, Saved
<1>4. Phase(me)'
  BY <1>1 DEF Phase
<1>5. QED
  BY <1>2, <1>3, <1>4 DEF AloneInv, Kept

\* save() begins: the file that it will rename is what was saved last.
LEMMA AloneBegins ==
    ASSUME NEW me, OneThread(me), AloneInv(me), IInv', SaveBegin(me)
    PROVE  AloneInv(me)'
<1>0. PICK f \in Files : f = call[me].f
  BY InProgress DEF AloneInv, IInv, OneThread, SaveBegin, Rename, Open, At, Ready
<1>1. me \in Threads /\ CallsOK /\ HistoryOK /\ f \in Files
  BY <1>0, InProgress DEF AloneInv, IInv, OneThread, SaveBegin, At, Ready
<1>2. /\ UNCHANGED <<name, backup, data, good>>
      /\ begun' = [begun EXCEPT ![f] = IF @ < 2 THEN @ + 1 ELSE @]
      /\ Goto(me, IF name[f] = None THEN "open" ELSE "rename")
  BY <1>0 DEF SaveBegin
<1>3. call'[me].f = f /\ call'[me].pc = IF name[f] = None THEN "open" ELSE "rename"
  BY <1>0, <1>1, <1>2 DEF Goto, CallsOK, CallType
<1>4. begun'[f] # 0 /\ (begun'[f] = 1 => begun[f] = 0)
      /\ \A g \in Files : g # f => begun'[g] = begun[g]
  BY <1>1, <1>2 DEF HistoryOK
<1>5. Phase(me)'
  BY <1>2, <1>3, <1>4 DEF Phase
<1>6. ASSUME NEW g \in Files, g # f PROVE KeptIn(me, g)'
  BY <1>1, <1>2, <1>3, <1>4, <1>6, Settled
<1>7. KeptIn(me, f)'
  <2>1. KeptIn(me, f)
    BY <1>1 DEF AloneInv, Kept
  <2>2. CASE begun'[f] = 1
    <3>1. Saved(f)
      BY <1>4, <2>1, <2>2 DEF KeptIn
    <3>2. Saved(f)'
      BY <1>2, <3>1 DEF Saved
    <3>3. name[f] = None => good[f] = Empty
      BY <3>1 DEF Saved
    <3>4. QED
      BY <1>2, <1>3, <2>2, <3>1, <3>2, <3>3 DEF KeptIn, KeptAside, Saved, Holds
  <2>3. QED
    BY <1>4, <2>2 DEF KeptIn
<1>8. QED
  BY <1>5, <1>6, <1>7 DEF AloneInv, Kept

\* The renamed file is file~ and the name is free: another thread could not have been
\* faster.
LEMMA AloneRenames ==
    ASSUME NEW me, OneThread(me), AloneInv(me), IInv', Rename(me)
    PROVE  AloneInv(me)'
<1>0. PICK f \in Files : f = call[me].f
  BY InProgress DEF AloneInv, IInv, OneThread, SaveBegin, Rename, Open, At, Ready
<1>1. /\ me \in Threads /\ CallsOK /\ DiskOK /\ f \in Files /\ name[f] # None
      /\ begun[f] # 0 /\ KeptIn(me, f) /\ call[me].pc = "rename"
  BY <1>0, InProgress DEF AloneInv, IInv, OneThread, Rename, At, Ready, Phase, Kept
<1>2. /\ backup' = [backup EXCEPT ![f] = name[f]] /\ name' = [name EXCEPT ![f] = None]
      /\ Goto(me, "open") /\ UNCHANGED <<data, good, begun>>
  BY <1>0, <1>1 DEF Rename
<1>3. call'[me].f = f /\ call'[me].pc = "open"
  BY <1>0, <1>1, <1>2 DEF Goto, CallsOK, CallType
<1>4. name'[f] = None /\ backup'[f] = name[f]
      /\ \A g \in Files : g # f => name'[g] = name[g] /\ backup'[g] = backup[g]
  BY <1>1, <1>2 DEF DiskOK
<1>5. begun[f] = 1 => data[name[f]] = good[f]
  BY <1>0, <1>1 DEF KeptIn, Saved
<1>6. Phase(me)'
  BY <1>1, <1>2, <1>3, <1>4 DEF Phase
<1>7. ASSUME NEW g \in Files, g # f PROVE KeptIn(me, g)'
  BY <1>1, <1>2, <1>3, <1>4, <1>7, Settled
<1>8. KeptIn(me, f)'
  BY <1>1, <1>2, <1>3, <1>4, <1>5 DEF KeptIn, KeptAside, Holds
<1>9. QED
  BY <1>6, <1>7, <1>8 DEF AloneInv, Kept

\* The new file gets the name, on an inode that is not the one of file~.
LEMMA AloneOpens ==
    ASSUME NEW me, OneThread(me), AloneInv(me), IInv', Open(me, TRUE)
    PROVE  AloneInv(me)'
<1>0. PICK f \in Files : f = call[me].f
  BY InProgress DEF AloneInv, IInv, OneThread, SaveBegin, Rename, Open, At, Ready
<1>1. /\ me \in Threads /\ CallsOK /\ DiskOK /\ f \in Files /\ name[f] = None
      /\ begun[f] # 0 /\ KeptIn(me, f) /\ call[me].pc = "open"
  BY <1>0, InProgress DEF AloneInv, IInv, OneThread, Open, At, Ready, Phase, Kept
<1>2. PICK i \in Free : name' = [name EXCEPT ![f] = i] /\ data' = [data EXCEPT ![i] = Empty]
                       /\ Opened(me, i)
  BY <1>0, <1>1 DEF Open
<1>3. UNCHANGED <<backup, good, begun>>
  BY DEF Open
<1>4. call'[me].f = f /\ call'[me].pc = "write" /\ call'[me].h = i
  BY <1>0, <1>1, <1>2, BecomeIs DEF Opened, Calling
<1>5. i \in Inodes /\ i # None /\ name'[f] = i
  BY <1>1, <1>2, FileConstants DEF Free, DiskOK
<1> Fills(me, f, i, Empty)
  BY <1>1, <1>2, <1>3, <1>4 DEF Fills
<1>6. /\ \A g \in Files : g # f => KeptIn(me, g)'
      /\ backup[f] # None => data'[backup[f]] = data[backup[f]]
      /\ data'[i] = Empty
  BY <1>5, OthersKept
<1>7. Phase(me)'
  BY <1>1, <1>3, <1>4, <1>5, <1>6 DEF Phase
<1>8. KeptIn(me, f)'
  BY <1>1, <1>3, <1>4, <1>6 DEF KeptIn, KeptAside, Holds
<1>9. QED
  BY <1>6, <1>7, <1>8 DEF AloneInv, Kept

\* What is written is the content that counts from now on.
LEMMA AloneWrites ==
    ASSUME NEW me, OneThread(me), AloneInv(me), IInv', Write(me, TRUE)
    PROVE  AloneInv(me)'
<1>0. PICK f \in Files, i \in Inodes, v \in Contents \cup {Empty} :
          f = call[me].f /\ i = call[me].h /\ v = call[me].v
  BY InProgress DEF AloneInv, IInv, OneThread, Write, At, Ready, Phase, DiskOK
<1>1. /\ me \in Threads /\ CallsOK /\ DiskOK /\ HistoryOK 
      /\ i # None /\ i = name[f] /\ data[i] = Empty
  BY <1>0, InProgress DEF AloneInv, IInv, OneThread, Write, At, Ready, Phase
<1>3. PICK text \in Texts(i, v, TRUE) : data' = [data EXCEPT ![i] = text]
  BY <1>0, <1>1 DEF Write
<1>4. text = v
  BY <1>1, <1>3 DEF Texts
<1>5. /\ Return(me, "true") /\ good' = [good EXCEPT ![f] = v]
      /\ begun' = [begun EXCEPT ![f] = 0] /\ UNCHANGED <<name, backup>>
  BY <1>0 DEF Write
<1>6. call'[me].pc = "idle"
  BY <1>1, <1>5, BecomeIs, NoCallFits DEF Return
<1>7. good'[f] = v /\ begun'[f] = 0
      /\ \A g \in Files : g # f => good'[g] = good[g] /\ begun'[g] = begun[g]
  BY <1>1, <1>5 DEF HistoryOK
<1> Fills(me, f, i, text)
  BY <1>1, <1>3, <1>5, <1>6, <1>7 DEF Fills
<1>8. (\A g \in Files : g # f => KeptIn(me, g)') /\ data'[i] = text
  BY OthersKept
<1>9. KeptIn(me, f)'
  BY <1>1, <1>4, <1>5, <1>6, <1>7, <1>8 DEF KeptIn, Saved
<1>10. Phase(me)'
  BY <1>6 DEF Phase
<1>11. QED
  BY <1>8, <1>9, <1>10 DEF AloneInv, Kept

\* A crash changes the text of the one inode being written, which is not the inode of
\* any file~.
LEMMA AloneCrashes ==
    ASSUME NEW me, OneThread(me), AloneInv(me), IInv', Crash
    PROVE  AloneInv(me)'
<1>1. me \in Threads /\ CallsOK /\ DiskOK /\ (\A t \in Threads : t = me)
  BY DEF AloneInv, IInv, OneThread
<1>2. UNCHANGED <<name, backup, good, begun>> /\ call'[me] = NoCall
      /\ \A j \in Inodes : data'[j] \in Left(j)
  BY <1>1 DEF Crash
<1>3. call'[me].pc = "idle"
  BY <1>2, NoCallFits
<1>4. \A j \in Inodes : call[me].pc # "write" \/ call[me].h # j => data'[j] = data[j]
  BY <1>1, <1>2 DEF Left, At
<1>5. Phase(me)'
  BY <1>3 DEF Phase
<1>6. \A g \in Files : /\ KeptIn(me, g)
                       /\ name[g] \in Inodes \cup {None} /\ backup[g] \in Inodes \cup {None}
  BY <1>1 DEF AloneInv, Kept, DiskOK
<1>7. CASE call[me].pc # "write"
  <2>1. ASSUME NEW g \in Files PROVE KeptIn(me, g)'
    <3>1. /\ name[g] # None => data'[name[g]] = data[name[g]]
          /\ backup[g] # None => data'[backup[g]] = data[backup[g]]
      BY <1>4, <1>6, <1>7
    <3>2. QED
      BY <1>2, <1>3, <1>6, <3>1 DEF KeptIn, Saved, Holds
  <2>2. QED
    BY <1>5, <2>1 DEF AloneInv, Kept
<1>8. CASE call[me].pc = "write"
  <2>0. PICK f \in Files : f = call[me].f
    BY <1>1, <1>8, InProgress DEF Ready
  <2>1. name[f] # None /\ call[me].h = name[f] /\ begun[f] # 0
    BY <1>8, <2>0 DEF AloneInv, Phase
  <2>2. ASSUME NEW g \in Files PROVE backup[g] # None => data'[backup[g]] = data[backup[g]]
    <3>1. backup[g] # name[f]
      BY <1>1, <2>1 DEF DiskOK, Distinct
    <3>2. QED
      BY <1>4, <1>6, <2>1, <3>1
  <2>3. ASSUME NEW g \in Files, g # f PROVE KeptIn(me, g)'
    <3>1. name[g] # None => data'[name[g]] = data[name[g]]
      BY <1>1, <1>4, <1>6, <2>1, <2>3, Apart
    <3>2. QED
      BY <1>2, <1>3, <1>6, <2>2, <3>1 DEF KeptIn, Saved, Holds
  <2>4. KeptIn(me, f)'
    <3>1. begun[f] = 1 => KeptAside(f)
      BY <1>6, <1>8, <2>0 DEF KeptIn
    <3>2. QED
      BY <1>2, <1>3, <2>1, <2>2, <3>1 DEF KeptIn, KeptAside, Holds
  <2>5. QED
    BY <1>5, <2>3, <2>4 DEF AloneInv, Kept
<1>9. QED
  BY <1>7, <1>8

LEMMA AloneInit ==
    ASSUME NEW me, OneThread(me), Init
    PROVE  AloneInv(me)
<1>1. call[me].pc = "idle"
  BY NoCallFits DEF Init, OneThread
<1>2. QED
  BY <1>1, InitIInv DEF AloneInv, Phase, Kept, KeptIn, Saved, Init

LEMMA AloneNext ==
    ASSUME NEW me, OneThread(me), AloneInv(me), [Next]_vars
    PROVE  AloneInv(me)'
<1>1. IInv' /\ me \in Threads /\ (\A t \in Threads : t = me) /\ Outcomes = {TRUE}
  BY NextIInv DEF AloneInv, OneThread
<1>2. ASSUME NEW f \in Files,
             Set(me, f) \/ SetAll(me, f) \/ Erase(me, f) \/ Get(me, f) \/ GetAll(me, f) \/ Exists(me, f)
      PROVE  \E op, g, k, x, v : Call(me, op, g, k, x, v)
  BY <1>2 DEF Set, SetAll, Erase, Get, GetAll, Exists
<1>3. ASSUME NEW f \in Files, Create(me, f) PROVE AloneInv(me)'
  BY <1>1, <1>3, AloneCreates
<1>4. ASSUME NEW f \in Files, Clear(me, f) PROVE AloneInv(me)'
  BY <1>1, <1>4, AloneClears
<1>5. ASSUME NEW f \in Files,
             Set(me, f) \/ SetAll(me, f) \/ Erase(me, f) \/ Get(me, f) \/ GetAll(me, f) \/ Exists(me, f)
      PROVE  AloneInv(me)'
  BY <1>1, <1>2, <1>5, AloneLoads
<1>6. CASE LoadOpen(me) \/ LoadRead(me)
  BY <1>1, <1>6, AloneLoads
<1>7. CASE SaveBegin(me)
  BY <1>1, <1>7, AloneBegins
<1>8. CASE Rename(me)
  BY <1>1, <1>8, AloneRenames
<1>9. CASE Open(me, TRUE)
  BY <1>1, <1>9, AloneOpens
<1>10. CASE Write(me, TRUE)
  BY <1>1, <1>10, AloneWrites
<1>11. CASE Crash
  BY <1>1, <1>11, AloneCrashes
<1>12. CASE UNCHANGED vars
  <2>1. UNCHANGED <<name, backup, data, good, begun, call>>
    BY <1>12 DEF vars
  <2>2. QED
    BY <1>1, <2>1 DEF AloneInv, Phase, Kept, KeptIn, Saved, KeptAside, Holds
<1>13. ASSUME NEW up \in Outcomes, CreateFails(me, up) PROVE AloneInv(me)'
  BY <1>1, <1>13 DEF CreateFails
<1>14. QED
  BY <1>1, <1>3, <1>4, <1>5, <1>6, <1>7, <1>8, <1>9, <1>10, <1>11, <1>12, <1>13 DEF Next

\* With one thread and opens and writes that succeed, a crash at any step of a save
\* leaves what was saved before in the file or in file~: for any number of files, keys
\* and values, and any number of crashes between saves that complete.
THEOREM FilesRecoverable ==
    ASSUME NEW CONSTANT me, OneThread(me)
    PROVE  Spec => []Recoverable
<1>1. Init => AloneInv(me)
  BY AloneInit
<1>2. AloneInv(me) /\ [Next]_vars => AloneInv(me)'
  BY AloneNext
<1>3. AloneInv(me) => Recoverable
  BY AloneRecovers
<1>4. QED
  BY <1>1, <1>2, <1>3, PTL DEF Spec

----------------------------------------------------------------------------
(* One thread: what its calls return.                                      *)

\* A call has not answered before it ends.
Waiting(me) == call[me].pc # "idle" => ret[me] = "none"

\* set() carries what was saved last, with its key stored, up to the write.
Merging(me) ==
    (/\ call[me].op = "set"
     /\ \/ call[me].pc = "save" /\ begun[call[me].f] = 0
        \/ call[me].pc \in {"rename", "open", "write"} /\ begun[call[me].f] = 1)
    => call[me].v = JsonSet(good[call[me].f], call[me].k, call[me].x)

Answers(me) == Waiting(me) /\ Merging(me)

\* The file f holds what good held, with x at k.
Merged(f, k, x) ==
    /\ name'[f] # None
    /\ \A j \in Keys :
          data'[name'[f]][j] = IF j = k THEN x ELSE IF Has(good[f], j) THEN good[f][j] ELSE Absent

\* What SetStoresAndKeeps and AloneNeverThrows ask of a step of this thread.
SetDone(me) ==
    (/\ call[me].op = "set" /\ call'[me] = NoCall /\ ret'[me] = "true"
     /\ begun[call[me].f] = IF call[me].pc = "write" THEN 1 ELSE 0)
    => Merged(call[me].f, call[me].k, call[me].x)
NoThrow(me) == (call[me].op # "exists" /\ call'[me] # call[me]) => ret'[me] # "throws"

Good(me) == Answers(me)' /\ SetDone(me) /\ NoThrow(me)

\* json_set, key by key.
LEMMA JsonSetIs ==
    ASSUME NEW v \in Contents \cup {Empty}, NEW k \in Keys, NEW x
    PROVE  \A j \in Keys : JsonSet(v, k, x)[j] =
               IF j = k THEN x ELSE IF Has(v, j) THEN v[j] ELSE Absent
BY FileConstants DEF JsonSet, Has, Blank, Contents

\* The answer of a call.
LEMMA ReturnIs ==
    ASSUME CallsOK, NEW t \in Threads, NEW r, Return(t, r)
    PROVE  call'[t] = NoCall /\ call'[t].pc = "idle" /\ call'[t].op = "none" /\ ret'[t] = r
BY BecomeIs, NoCallFits DEF Return, CallsOK, NoCall, Calling

\* A step that ends the call with an answer other than an exception, and is not the
\* end of a set().
LEMMA EndIsGood ==
    ASSUME NEW me, me \in Threads, CallsOK, NEW r, Return(me, r), r # "throws",
           call[me].op # "set"
    PROVE  Good(me)
BY ReturnIs DEF Good, Answers, Waiting, Merging, SetDone, NoThrow

\* A step of a call that goes on.
LEMMA GoesOn ==
    ASSUME NEW me, call'[me].pc # "idle", ret'[me] = "none", Merging(me)'
    PROVE  Good(me)
BY NoCallFits DEF Good, Answers, Waiting, SetDone, NoThrow

\* load() has ended: with begun zero it has found what was saved last.
LEMMA LoadedIsGood ==
    ASSUME NEW me, OneThread(me), AloneInv(me), Answers(me),
           call[me].pc \in {"load", "read"}, NEW ok, NEW v \in Contents \cup {Empty},
           Loaded(me, ok, v), UNCHANGED <<name, backup, data, good, begun>>,
           begun[call[me].f] = 0 => v = good[call[me].f]
    PROVE  Good(me)
<1> DEFINE c == call[me]
<1>1. me \in Threads /\ CallsOK /\ HistoryOK
  BY DEF OneThread, AloneInv, IInv
<1>2. /\ c.op \in {"set", "erase", "get", "get all", "exists"} /\ c.f \in Files
      /\ c.op \in {"set", "erase"} => c.k \in Keys
      /\ c.op = "set" => c.x \in Values
  BY <1>1, InProgress DEF Fits, Ready
<1>3. ret[me] = "none"
  BY DEF Answers, Waiting
<1>4. CASE c.op \in {"get", "get all"}
  <2>1. \E r \in {"true", "false"} : Return(me, r)
    BY <1>4 DEF Loaded, Bool
  <2>2. QED
    BY <1>1, <1>4, <2>1, EndIsGood
<1>5. CASE c.op = "exists"
  <2>1. \E r \in {"true", "throws"} : Return(me, r)
    BY <1>5 DEF Loaded
  <2>2. QED
    BY <1>1, <1>5, <2>1, ReturnIs DEF Good, Answers, Waiting, Merging, SetDone, NoThrow
<1>6. ASSUME NEW w, Save(me, w), UNCHANGED ret,
             c.op = "set" => w = JsonSet(v, c.k, c.x), c.op \in {"set", "erase"}
      PROVE  Good(me)
  <2>1. Become(me, Calling(c.op, "save", c.f, c.k, c.x, w, None))
    BY <1>6 DEF Save
  <2>2. call'[me] = Calling(c.op, "save", c.f, c.k, c.x, w, None)
    BY <1>1, <2>1, BecomeIs
  <2>3. /\ call'[me].pc = "save" /\ call'[me].op = c.op /\ call'[me].f = c.f
        /\ call'[me].k = c.k /\ call'[me].x = c.x /\ call'[me].v = w
    BY <2>2 DEF Calling
  <2>4. Merging(me)'
    BY <1>6, <2>3 DEF Merging
  <2>5. QED
    BY <1>3, <1>6, <2>3, <2>4, GoesOn
<1>7. CASE c.op = "erase"
  <2>1. Save(me, JsonErase(v, c.k)) /\ UNCHANGED ret
    BY <1>7 DEF Loaded
  <2>2. QED
    BY <1>6, <1>7, <2>1
<1>8. CASE c.op = "set"
  <2>1. CASE Has(v, c.k) /\ v[c.k] = c.x
    <3>1. Return(me, "true")
      BY <1>8, <2>1 DEF Loaded
    <3>2. Answers(me)' /\ NoThrow(me)
      BY <1>1, <3>1, ReturnIs DEF Answers, Waiting, Merging, NoThrow
    <3>3. ASSUME begun[c.f] = 0 PROVE Merged(c.f, c.k, c.x)
      <4>1. v = good[c.f] /\ v # Empty
        BY <2>1, <3>3 DEF Has
      <4>2. Saved(c.f)
        BY <1>2, <3>3 DEF AloneInv, Kept, KeptIn
      <4>3. name[c.f] # None /\ data[name[c.f]] = good[c.f]
        BY <4>1, <4>2 DEF Saved
      <4>4. \A j \in Keys : good[c.f][j] = IF Has(good[c.f], j) THEN good[c.f][j] ELSE Absent
        BY <4>1 DEF Has
      <4>5. QED
        BY <2>1, <4>1, <4>3, <4>4 DEF Merged
    <3>4. QED
      BY <3>2, <3>3 DEF Good, SetDone
  <2>2. CASE ~(Has(v, c.k) /\ v[c.k] = c.x)
    <3>1. Save(me, JsonSet(v, c.k, c.x)) /\ UNCHANGED ret
      BY <1>8, <2>2 DEF Loaded
    <3>2. QED
      BY <1>6, <1>8, <3>1
  <2>3. QED
    BY <2>1, <2>2
<1>9. QED
  BY <1>2, <1>4, <1>5, <1>7, <1>8

LEMMA LoadsAreGood ==
    ASSUME NEW me, OneThread(me), AloneInv(me), Answers(me), LoadOpen(me) \/ LoadRead(me)
    PROVE  Good(me)
<1> DEFINE f == call[me].f
<1>1. /\ me \in Threads /\ CallsOK /\ DiskOK /\ HistoryOK
      /\ UNCHANGED <<name, backup, data, good, begun>>
      /\ call[me].pc \in {"load", "read"}
  BY DEF OneThread, AloneInv, IInv, LoadOpen, LoadRead, At
<1>2. f \in Files /\ ret[me] = "none"
  BY <1>1, InProgress DEF Answers, Waiting, Ready
<1>3. begun[f] = 0 => Saved(f)
  BY <1>2 DEF AloneInv, Kept, KeptIn
<1>4. Empty \notin Contents /\ good[f] \in Contents \cup {Empty}
  BY <1>1, <1>2, FileConstants DEF HistoryOK
<1>5. CASE LoadOpen(me)
  <2>1. CASE name[f] = None /\ Loaded(me, FALSE, Empty)
    <3>1. begun[f] = 0 => Empty = good[f]
      BY <1>3, <2>1 DEF Saved
    <3>2. QED
      BY <1>1, <2>1, <3>1, LoadedIsGood
  <2>2. CASE Become(me, Calling(call[me].op, "read", f, call[me].k, call[me].x,
                                call[me].v, name[f])) /\ UNCHANGED ret
    <3>1. call'[me].pc = "read"
      BY <1>1, <2>2, BecomeIs DEF Calling
    <3>2. QED
      BY <1>2, <2>2, <3>1, GoesOn DEF Merging
  <2>3. QED
    BY <1>5, <2>1, <2>2 DEF LoadOpen
<1>6. CASE LoadRead(me)
  <2>1. call[me].pc = "read"
    BY <1>6 DEF LoadRead, At
  <2>2. call[me].h = name[f] /\ name[f] # None
    <3>1. call[me].h \in Inodes /\ call[me].h = name[f]
      BY <1>1, <2>1, InProgress DEF Fits, AloneInv, Phase
    <3>2. QED
      BY <3>1, FileConstants
  <2>3. begun[f] = 0 => data[name[f]] = good[f]
    BY <1>3, <2>2 DEF Saved
  <2>4. ASSUME NEW ok, NEW v \in Contents \cup {Empty}, Loaded(me, ok, v),
               begun[f] = 0 => v = good[f]
        PROVE  Good(me)
    BY <1>1, <2>4, LoadedIsGood
  <2>5. CASE data[name[f]] = Empty
    <3>1. Loaded(me, TRUE, Empty)
      BY <1>6, <2>2, <2>5 DEF LoadRead
    <3>2. QED
      BY <2>3, <2>4, <2>5, <3>1
  <2>6. CASE data[name[f]] # Empty /\ data[name[f]] \in Contents
    <3>1. Loaded(me, TRUE, data[name[f]])
      BY <1>6, <2>2, <2>6 DEF LoadRead
    <3>2. QED
      BY <2>3, <2>4, <2>6, <3>1
  <2>7. CASE data[name[f]] # Empty /\ data[name[f]] \notin Contents
    <3>1. Loaded(me, FALSE, Empty)
      BY <1>6, <2>2, <2>7 DEF LoadRead
    <3>2. begun[f] # 0
      BY <1>4, <2>3, <2>7
    <3>3. QED
      BY <2>4, <3>1, <3>2
  <2>8. QED
    BY <2>5, <2>6, <2>7
<1>7. QED
  BY <1>5, <1>6

\* The steps of save() before the write change neither what is carried nor good.
LEMMA SavesAreGood ==
    ASSUME NEW me, OneThread(me), AloneInv(me), Answers(me),
           SaveBegin(me) \/ Rename(me) \/ Open(me, TRUE)
    PROVE  Good(me)
<1> DEFINE c == call[me]
<1>1. /\ me \in Threads /\ CallsOK /\ DiskOK /\ HistoryOK /\ good' = good
      /\ c.pc \in {"save", "rename", "open"}
  BY DEF OneThread, AloneInv, IInv, SaveBegin, Rename, Open, At
<1>2. c \in CallType /\ c.f \in Files /\ ret[me] = "none"
  BY <1>1, InProgress DEF Answers, Waiting, Ready
<1>3. ASSUME NEW pc \in {"rename", "open"}, Goto(me, pc), ret' = ret,
             begun'[c.f] = 1 => (c.pc = "save" /\ begun[c.f] = 0) \/
                                (c.pc \in {"rename", "open"} /\ begun[c.f] = 1)
      PROVE  Good(me)
  <2>1. /\ call'[me].pc = pc /\ call'[me].op = c.op /\ call'[me].f = c.f
        /\ call'[me].k = c.k /\ call'[me].x = c.x /\ call'[me].v = c.v
    BY <1>1, <1>2, <1>3 DEF Goto, CallsOK, CallType
  <2>2. Merging(me)'
    BY <1>1, <1>3, <2>1 DEF Answers, Merging
  <2>3. QED
    BY <1>2, <1>3, <2>1, <2>2, GoesOn
<1>4. CASE SaveBegin(me)
  <2>1. /\ Goto(me, IF name[c.f] = None THEN "open" ELSE "rename") /\ ret' = ret
        /\ begun' = [begun EXCEPT ![c.f] = IF @ < 2 THEN @ + 1 ELSE @] /\ c.pc = "save"
    BY <1>4 DEF SaveBegin, At
  <2>2. begun'[c.f] = 1 => begun[c.f] = 0
    BY <1>1, <1>2, <2>1 DEF HistoryOK
  <2>3. QED
    BY <1>3, <2>1, <2>2
<1>5. CASE Rename(me)
  <2>1. c.pc = "rename" /\ name[c.f] # None
    BY <1>5 DEF Rename, At, AloneInv, Phase
  <2>2. Goto(me, "open") /\ ret' = ret /\ begun' = begun
    BY <1>5, <2>1 DEF Rename
  <2>3. QED
    BY <1>3, <2>1, <2>2
<1>6. CASE Open(me, TRUE)
  <2>1. c.pc = "open" /\ ret' = ret /\ begun' = begun /\ \E i : Opened(me, i)
    BY <1>6 DEF Open, At
  <2>2. PICK i : Become(me, Calling(c.op, "write", c.f, c.k, c.x, c.v, i))
    BY <2>1 DEF Opened
  <2>3. call'[me] = Calling(c.op, "write", c.f, c.k, c.x, c.v, i)
    BY <1>1, <2>2, BecomeIs
  <2>4. /\ call'[me].pc = "write" /\ call'[me].op = c.op /\ call'[me].f = c.f
        /\ call'[me].k = c.k /\ call'[me].x = c.x /\ call'[me].v = c.v
    BY <2>3 DEF Calling
  <2>5. Merging(me)'
    BY <1>1, <2>1, <2>4 DEF Answers, Merging
  <2>6. QED
    BY <1>2, <2>1, <2>4, <2>5, GoesOn
<1>7. QED
  BY <1>4, <1>5, <1>6

\* The write: the whole of what is carried is in the file.
LEMMA WritesAreGood ==
    ASSUME NEW me, OneThread(me), AloneInv(me), Answers(me), Write(me, TRUE)
    PROVE  Good(me)
<1> DEFINE c == call[me]
<1>1. /\ me \in Threads /\ CallsOK /\ DiskOK /\ HistoryOK /\ c.pc = "write"
      /\ Return(me, "true") /\ name' = name
  BY DEF OneThread, AloneInv, IInv, Write, At
<1>2. /\ c.f \in Files /\ Fits(c) /\ c.v \in Contents \cup {Empty} /\ c.h \in Inodes
      /\ c.h # None /\ c.h = name[c.f] /\ data[c.h] = Empty
  BY <1>1, InProgress DEF AloneInv, Phase, Ready
<1>3. Answers(me)' /\ NoThrow(me)
  BY <1>1, ReturnIs DEF Answers, Waiting, Merging, NoThrow
<1>4. data'[name'[c.f]] = c.v
  <2>1. PICK text \in Texts(c.h, c.v, TRUE) : data' = [data EXCEPT ![c.h] = text]
    BY <1>2 DEF Write
  <2>2. text = c.v
    BY <1>2, <2>1 DEF Texts
  <2>3. QED
    BY <1>1, <1>2, <2>1, <2>2 DEF DiskOK
<1>5. ASSUME c.op = "set", begun[c.f] = 1 PROVE Merged(c.f, c.k, c.x)
  <2>1. c.v = JsonSet(good[c.f], c.k, c.x)
    BY <1>1, <1>5 DEF Answers, Merging
  <2>2. c.k \in Keys /\ good[c.f] \in Contents \cup {Empty}
    BY <1>1, <1>2, <1>5 DEF Fits, HistoryOK
  <2>3. QED
    BY <1>1, <1>2, <1>4, <2>1, <2>2, JsonSetIs DEF Merged
<1>6. QED
  BY <1>1, <1>3, <1>5 DEF Good, SetDone

LEMMA AloneAnswers ==
    ASSUME NEW me, OneThread(me), AloneInv(me), Answers(me), Next
    PROVE  Good(me)
<1>1. me \in Threads /\ (\A t \in Threads : t = me) /\ Outcomes = {TRUE} /\ CallsOK
  BY DEF OneThread, AloneInv, IInv
<1>2. ASSUME NEW op, NEW f, NEW k, NEW x, NEW v, Call(me, op, f, k, x, v) PROVE Good(me)
  <2> DEFINE pc == IF op = "set all" THEN "save" ELSE "load"
  <2>1. pc # "idle" /\ (op = "set" => pc = "load")
    OBVIOUS
  <2>2. Become(me, Calling(op, pc, f, k, x, v, None)) /\ ret' = [ret EXCEPT ![me] = "none"]
    BY <1>2 DEF Call
  <2> HIDE DEF pc
  <2>3. call'[me] = Calling(op, pc, f, k, x, v, None)
    BY <1>1, <2>2, BecomeIs
  <2>4. call'[me].pc = pc /\ call'[me].op = op
    BY <2>3 DEF Calling
  <2>5. ret'[me] = "none"
    BY <1>1, <2>2 DEF CallsOK
  <2>6. QED
    BY <2>1, <2>4, <2>5, GoesOn DEF Merging
<1>3. ASSUME NEW f \in Files,
             Set(me, f) \/ SetAll(me, f) \/ Erase(me, f) \/ Get(me, f) \/ GetAll(me, f) \/ Exists(me, f)
      PROVE  Good(me)
  <2>1. \E op, g, k, x, v : Call(me, op, g, k, x, v)
    BY <1>3 DEF Set, SetAll, Erase, Get, GetAll, Exists
  <2>2. QED
    BY <1>2, <2>1
<1>4. ASSUME NEW f \in Files, Create(me, f) \/ Clear(me, f) PROVE Good(me)
  <2>1. call' = call /\ call[me].pc = "idle" /\ ret' = [ret EXCEPT ![me] = "true"]
    BY <1>4 DEF Create, Clear, Ready
  <2>2. call[me] = NoCall => call[me].op # "set"
    BY DEF NoCall, Calling
  <2>3. QED
    BY <2>1, <2>2 DEF Good, Answers, Waiting, Merging, SetDone, NoThrow
<1>5. CASE LoadOpen(me) \/ LoadRead(me)
  BY <1>5, LoadsAreGood
<1>6. CASE SaveBegin(me) \/ Rename(me) \/ Open(me, TRUE)
  BY <1>6, SavesAreGood
<1>7. CASE Write(me, TRUE)
  BY <1>7, WritesAreGood
<1>8. CASE Crash
  <2>1. call'[me] = NoCall /\ ret'[me] = "none"
    BY <1>1, <1>8 DEF Crash
  <2>2. call'[me].pc = "idle"
    BY <2>1, NoCallFits
  <2>3. QED
    BY <2>1, <2>2 DEF Good, Answers, Waiting, Merging, SetDone, NoThrow
<1>9. ASSUME NEW up \in Outcomes, CreateFails(me, up) PROVE Good(me)
  BY <1>1, <1>9 DEF CreateFails
<1>10. QED
  BY <1>1, <1>3, <1>4, <1>5, <1>6, <1>7, <1>8, <1>9 DEF Next

\* Together: an inductive invariant, and what every step does.
AnswersInv(me) == AloneInv(me) /\ Answers(me)

LEMMA AnswersInit ==
    ASSUME NEW me, OneThread(me), Init
    PROVE  AnswersInv(me)
<1>1. call[me].pc = "idle"
  BY NoCallFits DEF Init, OneThread
<1>2. QED
  BY <1>1, AloneInit DEF AnswersInv, Answers, Waiting, Merging

LEMMA AnswersNext ==
    ASSUME NEW me, OneThread(me), AnswersInv(me), [Next]_vars
    PROVE  AnswersInv(me)'
<1>1. AloneInv(me)'
  BY AloneNext DEF AnswersInv
<1>2. CASE Next
  BY <1>1, <1>2, AloneAnswers DEF AnswersInv, Good
<1>3. CASE UNCHANGED vars
  BY <1>1, <1>3 DEF AnswersInv, Answers, Waiting, Merging, vars
<1>4. QED
  BY <1>2, <1>3

\* With one thread and opens and writes that succeed, a set(storage, key, value) that
\* returns true has stored the value and kept every other key, whatever crashed before
\* the last completed save (data_file.cpp:77-98 over load and save of tools.cpp).
THEOREM FileSetsStoreAndKeep ==
    ASSUME NEW CONSTANT me, OneThread(me)
    PROVE  Spec => SetStoresAndKeeps
<1> DEFINE Done == \A t \in Threads :
          LET c == call[t] IN
          /\ c.op = "set" /\ call'[t] = NoCall /\ ret'[t] = "true"
          /\ begun[c.f] = IF c.pc = "write" THEN 1 ELSE 0
          => /\ name'[c.f] # None
             /\ \A k \in Keys : data'[name'[c.f]][k] =
                    IF k = c.k THEN c.x ELSE IF Has(good[c.f], k) THEN good[c.f][k] ELSE Absent
<1>1. Init => AnswersInv(me)
  BY AnswersInit
<1>2. AnswersInv(me) /\ [Next]_vars => AnswersInv(me)'
  BY AnswersNext
<1>3. AnswersInv(me) /\ [Next]_vars => [Done]_vars
  <2>1. ASSUME AnswersInv(me), Next PROVE SetDone(me)
    BY <2>1, AloneAnswers DEF AnswersInv, Good
  <2>2. SetDone(me) => Done
    BY DEF OneThread, SetDone, Merged
  <2>3. QED
    BY <2>1, <2>2
<1>4. QED
  BY <1>1, <1>2, <1>3, PTL DEF Spec, SetStoresAndKeeps

\* With one thread and opens and writes that succeed no call but exists() throws.
THEOREM LoneCallsNeverThrow ==
    ASSUME NEW CONSTANT me, OneThread(me)
    PROVE  Spec => AloneNeverThrows
<1> DEFINE Calm == \A t \in Threads :
          (call[t].op # "exists" /\ call'[t] # call[t]) => ret'[t] # "throws"
<1>1. Init => AnswersInv(me)
  BY AnswersInit
<1>2. AnswersInv(me) /\ [Next]_vars => AnswersInv(me)'
  BY AnswersNext
<1>3. AnswersInv(me) /\ [Next]_vars => [Calm]_vars
  <2>1. ASSUME AnswersInv(me), Next PROVE NoThrow(me)
    BY <2>1, AloneAnswers DEF AnswersInv, Good
  <2>2. NoThrow(me) => Calm
    BY DEF OneThread, NoThrow
  <2>3. QED
    BY <2>1, <2>2
<1>4. QED
  BY <1>1, <1>2, <1>3, PTL DEF Spec, AloneNeverThrows
=============================================================================
