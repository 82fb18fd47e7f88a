------------------------------ MODULE DataFile ------------------------------
(***************************************************************************)
(* The "file" storage driver (class DataFile, src/module/data_file.cpp,    *)
(* with tools::data::load and save of src/src/tools.cpp): a storage is one *)
(* JSON file that every call reads and rewrites as a whole, after renaming *)
(* the old one to file~.  Nothing locks the file: the worker threads, and  *)
(* a crash, may come between the system calls, which are the steps here.   *)
(*                                                                         *)
(* Data abstraction.  A name refers to an inode, and a stream that is open *)
(* to the inode it opened, whatever the names do meanwhile.  The text of a *)
(* file is nothing (Empty), a JSON object (a value or Absent for each key) *)
(* or what does not parse (Torn).  Keys have no dots, values are scalars,  *)
(* storages are relative paths (for an absolute path of a file that does   *)
(* not exist save() throws), arguments are not empty.  exists(storage)     *)
(* only asks for the name and is left out.                                 *)
(***************************************************************************)
EXTENDS Naturals

CONSTANTS
    Threads,  \* worker threads
    Files,    \* storages
    Inodes,   \* bound: two for each file and one for each thread are enough
    Keys, Values,
    Absent,   \* the value of a key that is not there
    Empty,    \* a file of size 0, and an undefined JSON value
    Torn,     \* a file that ends before its JSON does
    None,     \* no inode
    Outcomes, \* of opening and writing: {TRUE}, or BOOLEAN if they may fail
    CanCrash  \* TRUE: the process may die between two steps

Contents == [Keys -> Values \cup {Absent}]

ASSUME FileConstants ==
    /\ Absent \notin Values
    /\ Empty \notin Contents /\ Torn \notin Contents /\ Empty # Torn
    /\ None \notin Inodes
    /\ Outcomes \subseteq BOOLEAN /\ CanCrash \in BOOLEAN

VARIABLES
    name,   \* the inode of each file, or None
    backup, \* the inode of file~, or None
    data,   \* what each inode holds
    call,   \* what each thread is doing, with its local variables
    ret,    \* what its last call returned
    good,   \* history: what the last completed change of a file made of it
    begun   \* history: saves begun since then, counted up to 2

vars == <<name, backup, data, call, ret, good, begun>>

Calling(op, pc, f, k, x, v, h) ==
    [op |-> op, pc |-> pc, f |-> f, k |-> k, x |-> x, v |-> v, h |-> h]
NoCall == Calling("none", "idle", None, Absent, Absent, Empty, None)
Ready(t) == call[t].pc = "idle"
At(t, pc) == call[t].pc = pc
Become(t, c) == call' = [call EXCEPT ![t] = c]
Goto(t, pc) == call' = [call EXCEPT ![t].pc = pc]
Return(t, r) ==
    /\ Become(t, NoCall)
    /\ ret' = [ret EXCEPT ![t] = r]
Bool(b) == IF b THEN "true" ELSE "false"

Free == {i \in Inodes :
            /\ \A f \in Files : i # name[f] /\ i # backup[f]
            /\ \A t \in Threads : i # call[t].h}

----------------------------------------------------------------------------
(* What a call makes of the value it loaded.                               *)

Has(v, k) == v # Empty /\ v[k] # Absent
Blank == [k \in Keys |-> Absent]

\* Mutant: set() starts from nothing instead of what it loaded.
JsonSetReplaces(v, k, x) == [Blank EXCEPT ![k] = x]

JsonSet(v, k, x) == [IF v = Empty THEN Blank ELSE v EXCEPT ![k] = x]

JsonErase(v, k) == IF Has(v, k) THEN [v EXCEPT ![k] = Absent] ELSE v

Save(t, v) ==
    LET c == call[t] IN Become(t, Calling(c.op, "save", c.f, c.k, c.x, v, None))

\* The rest of a call, up to its first change on the disk, once load() has ended.
\* In exists() the failures `return ""', which is true, and at() throws.
Loaded(t, ok, v) ==
    LET c == call[t] IN
    CASE c.op = "get" -> Return(t, Bool(ok /\ Has(v, c.k)))
      [] c.op = "get all" -> Return(t, Bool(ok /\ v # Empty))
      [] c.op = "exists" -> Return(t, IF ~ok \/ v = Empty \/ Has(v, c.k) THEN "true" ELSE "throws")
      [] c.op = "set" /\ Has(v, c.k) /\ v[c.k] = c.x -> Return(t, "true")
      [] c.op = "set" /\ ~(Has(v, c.k) /\ v[c.k] = c.x) ->
            Save(t, JsonSet(v, c.k, c.x)) /\ UNCHANGED ret
      [] c.op = "erase" -> Save(t, JsonErase(v, c.k)) /\ UNCHANGED ret

----------------------------------------------------------------------------
(* The calls.                                                              *)

Call(t, op, f, k, x, v) ==
    /\ Ready(t)
    /\ Become(t, Calling(op, IF op = "set all" THEN "save" ELSE "load", f, k, x, v, None))
    /\ ret' = [ret EXCEPT ![t] = "none"]
    /\ UNCHANGED <<name, backup, data, good, begun>>

Set(t, f) == \E k \in Keys, x \in Values : Call(t, "set", f, k, x, Empty)
SetAll(t, f) == \E v \in Contents : Call(t, "set all", f, Absent, Absent, v)
Erase(t, f) == \E k \in Keys : Call(t, "erase", f, k, Absent, Empty)
Get(t, f) == \E k \in Keys : Call(t, "get", f, k, Absent, Empty)
GetAll(t, f) == Call(t, "get all", f, Absent, Absent, Empty)
Exists(t, f) == \E k \in Keys : Call(t, "exists", f, k, Absent, Empty)

\* create(storage): the stream truncates the file if there is one.
Create(t, f) ==
    /\ Ready(t)
    /\ \/ /\ name[f] # None
          /\ data' = [data EXCEPT ![name[f]] = Empty]
          /\ UNCHANGED name
       \/ /\ name[f] = None
          /\ \E i \in Free :
                /\ name' = [name EXCEPT ![f] = i]
                /\ data' = [data EXCEPT ![i] = Empty]
    /\ ret' = [ret EXCEPT ![t] = "true"]
    /\ good' = [good EXCEPT ![f] = Empty]
    /\ begun' = [begun EXCEPT ![f] = 0]
    /\ UNCHANGED <<backup, call>>

\* The stream of create() does not open: that is the only failure of an open that
\* this driver looks at.
CreateFails(t, up) ==
    /\ Ready(t)
    /\ ~up
    /\ ret' = [ret EXCEPT ![t] = "false"]
    /\ UNCHANGED <<name, backup, data, call, good, begun>>

\* clear(storage): true, whether there was a file or not; file~ stays.
Clear(t, f) ==
    /\ Ready(t)
    /\ name' = [name EXCEPT ![f] = None]
    /\ ret' = [ret EXCEPT ![t] = "true"]
    /\ good' = [good EXCEPT ![f] = Empty]
    /\ begun' = [begun EXCEPT ![f] = 0]
    /\ UNCHANGED <<backup, data, call>>

----------------------------------------------------------------------------
(* tools::data::load                                                       *)

LoadOpen(t) ==
    LET c == call[t]
        i == name[c.f] IN
    /\ At(t, "load")
    /\ \/ i = None /\ Loaded(t, FALSE, Empty)
       \/ /\ i # None
          /\ Become(t, Calling(c.op, "read", c.f, c.k, c.x, c.v, i))
          /\ UNCHANGED ret
    /\ UNCHANGED <<name, backup, data, good, begun>>

\* file_size() asks for the name again, and throws if it is gone.
LoadRead(t) ==
    LET i == name[call[t].f]
        text == data[call[t].h] IN
    /\ At(t, "read")
    /\ \/ i = None /\ Return(t, "throws")
       \/ i # None /\ data[i] = Empty /\ Loaded(t, TRUE, Empty)
       \/ i # None /\ data[i] # Empty /\ text \in Contents /\ Loaded(t, TRUE, text)
       \/ i # None /\ data[i] # Empty /\ text \notin Contents /\ Loaded(t, FALSE, Empty)
    /\ UNCHANGED <<name, backup, data, good, begun>>

----------------------------------------------------------------------------
(* tools::data::save, with the backup that DataFile asks for               *)

\* Mutant: the file is renamed whether it exists or not.
SaveBeginUnchecked(t) ==
    /\ At(t, "save")
    /\ Goto(t, "rename")
    /\ begun' = [begun EXCEPT ![call[t].f] = IF @ < 2 THEN @ + 1 ELSE @]
    /\ UNCHANGED <<name, backup, data, ret, good>>

SaveBegin(t) ==
    /\ At(t, "save")
    /\ Goto(t, IF name[call[t].f] = None THEN "open" ELSE "rename")
    /\ begun' = [begun EXCEPT ![call[t].f] = IF @ < 2 THEN @ + 1 ELSE @]
    /\ UNCHANGED <<name, backup, data, ret, good>>

\* Mutant: no backup, the file is overwritten in its place.
RenameNothing(t) ==
    /\ At(t, "rename")
    /\ Goto(t, "open")
    /\ UNCHANGED <<name, backup, data, ret, good, begun>>

\* Mutant: the file is linked to file~ and keeps its name.
RenameLinks(t) ==
    /\ At(t, "rename")
    /\ backup' = [backup EXCEPT ![call[t].f] = name[call[t].f]]
    /\ Goto(t, "open")
    /\ UNCHANGED <<name, data, ret, good, begun>>

\* rename() throws if another thread was faster.
Rename(t) ==
    LET f == call[t].f IN
    /\ At(t, "rename")
    /\ \/ /\ name[f] # None
          /\ backup' = [backup EXCEPT ![f] = name[f]]
          /\ name' = [name EXCEPT ![f] = None]
          /\ Goto(t, "open")
          /\ UNCHANGED ret
       \/ /\ name[f] = None
          /\ Return(t, "throws")
          /\ UNCHANGED <<name, backup>>
    /\ UNCHANGED <<data, good, begun>>

Opened(t, i) ==
    LET c == call[t] IN Become(t, Calling(c.op, "write", c.f, c.k, c.x, c.v, i))

\* Whether the stream opened is not looked at.
Open(t, up) ==
    LET f == call[t].f IN
    /\ At(t, "open")
    /\ \/ /\ up /\ name[f] # None
          /\ data' = [data EXCEPT ![name[f]] = Empty]
          /\ Opened(t, name[f])
          /\ UNCHANGED name
       \/ /\ up /\ name[f] = None
          /\ \E i \in Free :
                /\ name' = [name EXCEPT ![f] = i]
                /\ data' = [data EXCEPT ![i] = Empty]
                /\ Opened(t, i)
       \/ ~up /\ Opened(t, None) /\ UNCHANGED <<name, data>>
    /\ UNCHANGED <<backup, ret, good, begun>>

\* What writing v from the start of an inode leaves: over the text of another
\* thread that was longer, its tail stays.
Texts(i, v, up) ==
    CASE v = Empty -> {data[i]}
      [] v # Empty /\ ~up -> {data[i], Torn}
      [] v # Empty /\ up -> IF data[i] \in {Empty, v} THEN {v} ELSE {v, Torn}

\* save() returns true, whether anything was written or not.
Write(t, up) ==
    LET c == call[t] IN
    /\ At(t, "write")
    /\ \/ c.h = None /\ UNCHANGED data
       \/ c.h # None /\ \E text \in Texts(c.h, c.v, up) : data' = [data EXCEPT ![c.h] = text]
    /\ Return(t, "true")
    /\ good' = [good EXCEPT ![c.f] = c.v]
    /\ begun' = [begun EXCEPT ![c.f] = 0]
    /\ UNCHANGED <<name, backup>>

\* What may be in an inode when the process dies: any part of what was being written.
Left(i) == {data[i]} \cup UNION {{Torn, call[t].v} : t \in
               {u \in Threads : At(u, "write") /\ call[u].h = i /\ call[u].v # Empty}}

Crash ==
    /\ CanCrash
    /\ \E d \in [Inodes -> UNION {Left(i) : i \in Inodes}] :
          (\A i \in Inodes : d[i] \in Left(i)) /\ data' = d
    /\ call' = [t \in Threads |-> NoCall]
    /\ ret' = [t \in Threads |-> "none"]
    /\ UNCHANGED <<name, backup, good, begun>>

----------------------------------------------------------------------------
Init ==
    /\ name = [f \in Files |-> None]
    /\ backup = [f \in Files |-> None]
    /\ data = [i \in Inodes |-> Empty]
    /\ call = [t \in Threads |-> NoCall]
    /\ ret = [t \in Threads |-> "none"]
    /\ good = [f \in Files |-> Empty]
    /\ begun = [f \in Files |-> 0]

Next ==
    \/ \E t \in Threads, f \in Files :
          Set(t, f) \/ SetAll(t, f) \/ Erase(t, f) \/ Get(t, f) \/ GetAll(t, f)
          \/ Exists(t, f) \/ Create(t, f) \/ Clear(t, f)
    \/ \E t \in Threads : LoadOpen(t) \/ LoadRead(t) \/ SaveBegin(t) \/ Rename(t)
    \/ \E t \in Threads, up \in Outcomes : CreateFails(t, up) \/ Open(t, up) \/ Write(t, up)
    \/ Crash

Spec == Init /\ [][Next]_vars
----------------------------------------------------------------------------
(* Properties.                                                             *)

\* A name, a backup and an open stream refer to inodes, and no two names to one.
TypeOK ==
    /\ name \in [Files -> Inodes \cup {None}]
    /\ backup \in [Files -> Inodes \cup {None}]
    /\ data \in [Inodes -> Contents \cup {Empty, Torn}]
    /\ call \in [Threads -> [op : {"none", "set", "set all", "erase", "get", "get all", "exists"},
                             pc : {"idle", "load", "read", "save", "rename", "open", "write"},
                             f : Files \cup {None}, k : Keys \cup {Absent},
                             x : Values \cup {Absent}, v : Contents \cup {Empty},
                             h : Inodes \cup {None}]]
    /\ ret \in [Threads -> {"none", "true", "false", "throws"}]
    /\ good \in [Files -> Contents \cup {Empty}]
    /\ begun \in [Files -> 0..2]
    /\ \A f, g \in Files :
          /\ name[f] # None => name[f] # backup[g] /\ (f # g => name[f] # name[g])
          /\ backup[f] # None /\ f # g => backup[f] # backup[g]

Holds(i, v) == i # None /\ data[i] = v

\* A crash in the middle of a save leaves what was saved before in the file or in
\* file~.  (The program itself never reads file~, and a second save destroys it: the
\* property says what an administrator finds after one interrupted save.)
Recoverable ==
    \A f \in Files :
        begun[f] <= 1 =>
            \/ good[f] = Empty
            \/ Holds(name[f], good[f])
            \/ Holds(backup[f], good[f])

\* set(storage, key, value) that returns true has stored the value and kept all the
\* other keys, if the save before it was not interrupted.
SetStoresAndKeeps ==
    [][\A t \in Threads :
          LET c == call[t] IN
          /\ c.op = "set" /\ call'[t] = NoCall /\ ret'[t] = "true"
          /\ begun[c.f] = IF c.pc = "write" THEN 1 ELSE 0
          => /\ name'[c.f] # None
             /\ \A k \in Keys : data'[name'[c.f]][k] =
                    IF k = c.k THEN c.x ELSE IF Has(good[c.f], k) THEN good[c.f][k] ELSE Absent]_vars

\* The calls throw only in exists(), for a key that is not there: load() and save() ask
\* for the name of a file they found before, which only another thread can take away.
AloneNeverThrows ==
    [][\A t \in Threads :
          (call[t].op # "exists" /\ call'[t] # call[t]) => ret'[t] # "throws"]_vars
=============================================================================
