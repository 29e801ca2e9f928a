--------------------------- MODULE FileWriteProofs ---------------------------
(***************************************************************************)
(* The lock and the contents of a file that any number of writers write,   *)
(* with failing system calls and crashes, over any number of calls.        *)
(*                                                                         *)
(* Every step is first reduced to what it does to the writer's record, the *)
(* inodes and locked_files (Acts, Crashed).  NamedInv and RecordInv are    *)
(* the two halves of the lock; with them LatestInv follows the file that   *)
(* is, or will be renamed to, the path.  SoleInv needs neither.            *)
(***************************************************************************)
EXTENDS FileWrite, TLAPS, FiniteSetTheorems

Opened == {"local", "lock", "truncate", "write", "sync", "unlock", "local_unlock", "close", "fail"}
Named == {"lock", "truncate", "write", "sync", "unlock", "local_unlock"}
Locking == {"truncate", "write", "sync", "unlock"}
PCs == Finished \cup {"open", "local", "lock", "truncate", "write", "sync", "unlock",
                      "local_unlock", "close", "fail", "rename"}
WriterType == [pc : PCs, fd : Nat, tries : 0 .. MaxTries, calls : 0 .. MaxCalls]
Inode == [data : Data, lock : Processes \cup {None}]

\* A writer has a descriptor from open to close, the path always has a file,
\* and the temporary file is another one.
Base ==
  /\ TypeOK
  /\ \A w \in Writers :
       /\ fw[w].pc \in Opened => fw[w].fd \in 1 .. Len(inodes)
       /\ fw[w].calls = 0 => fw[w].pc = "idle"
  /\ name["path"] # 0 /\ name["tmp"] # name["path"]
  /\ ~Atomic => name["tmp"] = 0

-----------------------------------------------------------------------------
(* What the steps do                                                       *)

\* Writer w goes to label pc with descriptor fd; the other writers stay.
Moves(w, pc, fd) ==
  /\ fw' \in [Writers -> WriterType]
  /\ fw'[w].pc = pc /\ fw'[w].fd = fd /\ fw'[w].calls = fw[w].calls
  /\ \A v \in Writers \ {w} : fw'[v] = fw[v]

\* The inodes stay, except for what n holds, or who has locked it.
Kept(n) ==
  /\ inodes' \in Seq(Inode) /\ Len(inodes') = Len(inodes)
  /\ \A k \in 1 .. Len(inodes) \ {n} : inodes'[k] = inodes[k]
Holds(n, d) == Kept(n) /\ inodes'[n].data = d /\ inodes'[n].lock = inodes[n].lock
LockedBy(n, p) == Kept(n) /\ inodes'[n].data = inodes[n].data /\ inodes'[n].lock = p

\* The type of the state, in parts.
LEMMA Types ==
  ASSUME TypeOK
  PROVE  /\ fw \in [Writers -> WriterType] /\ inodes \in Seq(Inode)
         /\ name \in [{"path", "tmp"} -> 0 .. Len(inodes)] /\ locked_files \subseteq Processes
         /\ Atomic \in BOOLEAN /\ ProcessOf \in Placements
         /\ \A w \in Writers : ProcessOf[w] \in Processes /\ ProcessOf[w] # None
<1>1. \A w \in Writers : ProcessOf[w] \in Processes BY DEF Processes
<1>2. \A w \in Writers : ProcessOf[w] # None BY FileConstants DEF TypeOK
<1> QED BY <1>1, <1>2 DEF TypeOK, WriterType, PCs, Inode

\* A jump
LEMMA GotoMoves ==
  ASSUME TypeOK, NEW w \in Writers, NEW label \in PCs, Goto(w, label)
  PROVE  Moves(w, label, fw[w].fd)
<1>1. fw \in [Writers -> WriterType] BY Types
<1>2. fw[w] \in WriterType BY <1>1
<1>3. [fw[w] EXCEPT !.pc = label] \in WriterType BY <1>2 DEF WriterType
<1>4. fw' = [fw EXCEPT ![w] = [fw[w] EXCEPT !.pc = label]] BY <1>1 DEF Goto
<1>5. /\ [fw[w] EXCEPT !.pc = label].pc = label /\ [fw[w] EXCEPT !.pc = label].fd = fw[w].fd
      /\ [fw[w] EXCEPT !.pc = label].calls = fw[w].calls
  BY <1>2 DEF WriterType
<1> QED BY <1>1, <1>3, <1>4, <1>5 DEF Moves

\* An inode gets other data.
LEMMA DataSet ==
  ASSUME TypeOK, NEW n \in 1 .. Len(inodes), NEW d \in Data,
         inodes' = [inodes EXCEPT ![n].data = d]
  PROVE  Holds(n, d)
<1>1. inodes \in Seq(Inode) /\ inodes[n] \in Inode BY Types
<1>3. [inodes[n] EXCEPT !.data = d] \in Inode BY <1>1 DEF Inode
<1>4. inodes' = [inodes EXCEPT ![n] = [inodes[n] EXCEPT !.data = d]] BY <1>1
<1>5. /\ [inodes[n] EXCEPT !.data = d].data = d
      /\ [inodes[n] EXCEPT !.data = d].lock = inodes[n].lock
  BY <1>1 DEF Inode
<1> QED BY <1>1, <1>3, <1>4, <1>5 DEF Holds, Kept

\* An inode is locked or unlocked.
LEMMA LockSet ==
  ASSUME TypeOK, NEW n \in 1 .. Len(inodes), NEW p \in Processes \cup {None},
         inodes' = [inodes EXCEPT ![n].lock = p]
  PROVE  LockedBy(n, p)
<1>1. inodes \in Seq(Inode) /\ inodes[n] \in Inode BY Types
<1>3. [inodes[n] EXCEPT !.lock = p] \in Inode BY <1>1 DEF Inode
<1>4. inodes' = [inodes EXCEPT ![n] = [inodes[n] EXCEPT !.lock = p]] BY <1>1
<1>5. /\ [inodes[n] EXCEPT !.lock = p].data = inodes[n].data
      /\ [inodes[n] EXCEPT !.lock = p].lock = p
  BY <1>1 DEF Inode
<1> QED BY <1>1, <1>3, <1>4, <1>5 DEF LockedBy, Kept

\* close() and unlock release the lock of the writer's process.
LEMMA LockReleased ==
  ASSUME TypeOK, NEW n \in 1 .. Len(inodes), NEW w \in Writers,
         inodes' = Released(n, ProcessOf[w])
  PROVE  LockedBy(n, IF inodes[n].lock = ProcessOf[w] THEN None ELSE inodes[n].lock)
<1> DEFINE p == IF inodes[n].lock = ProcessOf[w] THEN None ELSE inodes[n].lock
<1>1. inodes \in Seq(Inode) /\ inodes[n] \in Inode BY Types
<1>2. p \in Processes \cup {None} BY <1>1 DEF Inode
<1>3. inodes' = [inodes EXCEPT ![n].lock = p] BY <1>1 DEF Released
<1> QED BY <1>2, <1>3, LockSet

\* The steps of a writer: new call, open of an existing or of a new file, wait
\* for a lock, locks, truncation, write, fsync, unlocks, close, rename, errors.
Called(w) ==
  /\ fw[w].pc \in Finished /\ fw' \in [Writers -> WriterType]
  /\ fw'[w].pc = "open" /\ fw'[w].calls > 0
  /\ \A v \in Writers \ {w} : fw'[v] = fw[v]
  /\ UNCHANGED <<name, inodes, locked_files>>
OpenedOld(w) ==
  /\ fw[w].pc = "open" /\ name[Target] \in 1 .. Len(inodes) /\ Moves(w, "local", name[Target])
  /\ Holds(name[Target], Empty) /\ UNCHANGED <<name, locked_files>>
OpenedNew(w) ==
  /\ fw[w].pc = "open" /\ name[Target] = 0 /\ Moves(w, "local", Len(inodes) + 1)
  /\ name' = [name EXCEPT ![Target] = Len(inodes) + 1]
  /\ inodes' \in Seq(Inode) /\ Len(inodes') = Len(inodes) + 1
  /\ inodes'[Len(inodes) + 1].data = Empty
  /\ \A k \in 1 .. Len(inodes) : inodes'[k] = inodes[k]
  /\ UNCHANGED locked_files
Waits(w) ==
  /\ fw[w].pc \in {"local", "lock"} /\ Moves(w, fw[w].pc, fw[w].fd)
  /\ UNCHANGED <<name, inodes, locked_files>>
NameLocked(w) ==
  /\ fw[w].pc = "local" /\ Moves(w, "lock", fw[w].fd)
  /\ ProcessOf[w] \notin locked_files /\ locked_files' = locked_files \cup {ProcessOf[w]}
  /\ UNCHANGED <<name, inodes>>
RecordLocked(w) ==
  /\ fw[w].pc = "lock" /\ Moves(w, "truncate", fw[w].fd)
  /\ inodes[fw[w].fd].lock \in {None, ProcessOf[w]} /\ LockedBy(fw[w].fd, ProcessOf[w])
  /\ UNCHANGED <<name, locked_files>>
Truncated(w) ==
  /\ fw[w].pc = "truncate" /\ Moves(w, "write", fw[w].fd) /\ Holds(fw[w].fd, Empty)
  /\ UNCHANGED <<name, locked_files>>
Written(w, d) ==
  /\ fw[w].pc = "write" /\ Moves(w, "sync", fw[w].fd) /\ Holds(fw[w].fd, d)
  /\ inodes[fw[w].fd].data = Empty => d = w
  /\ UNCHANGED <<name, locked_files>>
Synced(w) ==
  /\ fw[w].pc = "sync" /\ Moves(w, "unlock", fw[w].fd) /\ UNCHANGED <<name, inodes, locked_files>>
RecordUnlocked(w, p) ==
  /\ fw[w].pc = "unlock" /\ Moves(w, "local_unlock", fw[w].fd) /\ LockedBy(fw[w].fd, p)
  /\ inodes[fw[w].fd].lock # ProcessOf[w] => p = inodes[fw[w].fd].lock
  /\ UNCHANGED <<name, locked_files>>
NameUnlocked(w) ==
  /\ fw[w].pc = "local_unlock" /\ Moves(w, "close", fw[w].fd)
  /\ locked_files' = locked_files \ {ProcessOf[w]} /\ UNCHANGED <<name, inodes>>
Closed(w, p) ==
  /\ \/ fw[w].pc = "fail" /\ Moves(w, "error", 0)
     \/ fw[w].pc = "close" /\ Moves(w, IF Atomic THEN "rename" ELSE "ok", 0)
  /\ LockedBy(fw[w].fd, p)
  /\ inodes[fw[w].fd].lock # ProcessOf[w] => p = inodes[fw[w].fd].lock
  /\ UNCHANGED <<name, locked_files>>
Renamed(w) ==
  /\ fw[w].pc = "rename" /\ Moves(w, "ok", fw[w].fd)
  /\ name["tmp"] # 0 /\ name' = [path |-> name["tmp"], tmp |-> 0]
  /\ UNCHANGED <<inodes, locked_files>>
GivesUp(w) ==
  /\ fw[w].pc \in {"open", "rename"} /\ Moves(w, "error", fw[w].fd)
  /\ UNCHANGED <<name, inodes, locked_files>>
Fails(w) ==
  /\ fw[w].pc \in Opened \ {"fail"} /\ Moves(w, "fail", fw[w].fd)
  /\ locked_files' = IF fw[w].pc = "lock" THEN locked_files \ {ProcessOf[w]} ELSE locked_files
  /\ inodes' = inodes \/ (fw[w].pc = "write" /\ Holds(fw[w].fd, Partial))
  /\ UNCHANGED name
Acts(w) ==
  \/ Called(w) \/ OpenedOld(w) \/ OpenedNew(w) \/ Waits(w) \/ NameLocked(w) \/ RecordLocked(w)
  \/ Truncated(w) \/ Synced(w) \/ NameUnlocked(w) \/ Renamed(w) \/ GivesUp(w) \/ Fails(w)
  \/ (\E d : Written(w, d)) \/ (\E p : RecordUnlocked(w, p) \/ Closed(w, p))

\* A call begins.
LEMMA CallActs == ASSUME Base, NEW w \in Writers, Call(w) PROVE Called(w)
<1> DEFINE r == [pc |-> "open", fd |-> 0, tries |-> MaxTries, calls |-> fw[w].calls + 1]
<1>1. fw \in [Writers -> WriterType] /\ fw[w] \in WriterType BY Types DEF Base
<1>2. fw[w].calls \in 0 .. MaxCalls /\ fw[w].calls < MaxCalls BY <1>1 DEF Call, WriterType
<1>3. r \in WriterType BY <1>2, FileConstants DEF WriterType, PCs
<1>4. fw' = [fw EXCEPT ![w] = r] BY <1>1 DEF Call
<1>5. fw' \in [Writers -> WriterType] /\ fw'[w] = r /\ \A v \in Writers \ {w} : fw'[v] = fw[v]
  BY <1>1, <1>3, <1>4
<1> QED BY <1>2, <1>5 DEF Called, Call, Finished

\* open() creates the file or truncates it.
LEMMA OpenActs == ASSUME Base, NEW w \in Writers, Open(w) PROVE OpenedOld(w) \/ OpenedNew(w)
<1> DEFINE n == IF name[Target] = 0 THEN Len(inodes) + 1 ELSE name[Target]
<1>1. /\ fw \in [Writers -> WriterType] /\ fw[w] \in WriterType /\ inodes \in Seq(Inode)
      /\ name \in [{"path", "tmp"} -> 0 .. Len(inodes)]
  BY Types DEF Base
<1>2. Len(inodes) \in Nat /\ name[Target] \in 0 .. Len(inodes) /\ n \in Nat \ {0}
  BY <1>1 DEF Target
<1>3. Moves(w, "local", n)
  <2> DEFINE r == [fw[w] EXCEPT !.pc = "local", !.fd = n]
  <2>1. r \in WriterType BY <1>1, <1>2 DEF WriterType, PCs
  <2>2. r.pc = "local" /\ r.fd = n /\ r.calls = fw[w].calls BY <1>1 DEF WriterType
  <2>3. fw' = [fw EXCEPT ![w] = r] BY <1>1 DEF Open
  <2> HIDE DEF r
  <2> QED BY <1>1, <2>1, <2>2, <2>3 DEF Moves
<1>4. CASE name[Target] = 0
  <2> DEFINE i == [data |-> Empty, lock |-> None]
  <2>1. i \in Inode BY DEF Inode, Data
  <2>2. inodes' = Append(inodes, i) BY <1>2, <1>4 DEF Open
  <2> HIDE DEF i
  <2>3. /\ inodes' \in Seq(Inode) /\ Len(inodes') = Len(inodes) + 1
        /\ inodes'[Len(inodes) + 1] = i /\ \A k \in 1 .. Len(inodes) : inodes'[k] = inodes[k]
    BY <1>1, <2>1, <2>2
  <2> QED BY <1>3, <1>4, <2>3 DEF OpenedNew, Open, i
<1>5. CASE name[Target] # 0
  <2>1. n = name[Target] /\ n \in 1 .. Len(inodes) BY <1>2, <1>5
  <2>2. inodes' = [inodes EXCEPT ![n].data = Empty] BY <1>2, <1>5 DEF Open
  <2>3. Holds(n, Empty) BY <2>1, <2>2, DataSet DEF Base, Data
  <2>4. name' = name BY <1>1, <2>1 DEF Open
  <2> QED BY <1>3, <2>1, <2>3, <2>4 DEF OpenedOld, Open
<1> QED BY <1>4, <1>5

\* A busy lock
LEMMA RetryActs ==
  ASSUME Base, NEW w \in Writers, fw[w].pc \in {"local", "lock"}, Retry(w), UNCHANGED name
  PROVE  Waits(w) \/ Fails(w)
<1>1. fw \in [Writers -> WriterType] /\ fw[w] \in WriterType BY Types DEF Base
<1>2. CASE fw[w].tries > 1 /\ fw' = [fw EXCEPT ![w].tries = @ - 1] /\ UNCHANGED <<inodes, locked_files>>
  <2> DEFINE r == [fw[w] EXCEPT !.tries = fw[w].tries - 1]
  <2>1. fw[w].tries - 1 \in 0 .. MaxTries BY <1>1, <1>2, FileConstants DEF WriterType
  <2>2. r \in WriterType BY <1>1, <2>1 DEF WriterType
  <2>3. r.pc = fw[w].pc /\ r.fd = fw[w].fd /\ r.calls = fw[w].calls BY <1>1 DEF WriterType
  <2>4. fw' = [fw EXCEPT ![w] = r] BY <1>1, <1>2
  <2> HIDE DEF r
  <2> QED BY <1>1, <1>2, <2>2, <2>3, <2>4 DEF Moves, Waits
<1>3. CASE Fail(w) /\ UNCHANGED inodes
  <2>1. Moves(w, "fail", fw[w].fd) BY <1>3, GotoMoves DEF Fail, Base, PCs
  <2> QED BY <1>3, <2>1 DEF Fails, Fail, Opened
<1> QED BY <1>2, <1>3 DEF Retry

\* Every step of a writer is one of these.
LEMMA StepActs ==
  ASSUME Base, NEW w \in Writers, Call(w) \/ Step(w) \/ SyscallFails(w)
  PROVE  Acts(w)
<1> USE DEF Base
<1>0. fw[w].pc \in Opened => fw[w].fd \in 1 .. Len(inodes) OBVIOUS
<1>1. CASE Call(w) BY <1>1, CallActs DEF Acts
<1>2. CASE Open(w) BY <1>2, OpenActs DEF Acts
<1>3. CASE LocalLock(w)
  <2>1. CASE ProcessOf[w] \notin locked_files
    <3>1. Moves(w, "lock", fw[w].fd) BY <1>3, <2>1, GotoMoves DEF LocalLock, PCs
    <3> QED BY <1>3, <2>1, <3>1 DEF LocalLock, NameLocked, Acts
  <2>2. CASE ProcessOf[w] \in locked_files BY <1>3, <2>2, RetryActs DEF LocalLock, Acts
  <2> QED BY <2>1, <2>2
<1>4. CASE FileLock(w)
  <2>1. CASE inodes[fw[w].fd].lock \in {None, ProcessOf[w]}
    <3>1. Moves(w, "truncate", fw[w].fd) BY <1>4, <2>1, GotoMoves DEF FileLock, PCs
    <3>2. LockedBy(fw[w].fd, ProcessOf[w]) BY <1>0, <1>4, <2>1, LockSet, Types DEF FileLock, Opened
    <3> QED BY <1>4, <2>1, <3>1, <3>2 DEF FileLock, RecordLocked, Acts
  <2>2. CASE inodes[fw[w].fd].lock \notin {None, ProcessOf[w]}
    BY <1>4, <2>2, RetryActs DEF FileLock, Acts
  <2> QED BY <2>1, <2>2
<1>5. CASE Truncate(w)
  <2>1. Moves(w, "write", fw[w].fd) BY <1>5, GotoMoves DEF Truncate, PCs
  <2>2. Holds(fw[w].fd, Empty) BY <1>0, <1>5, DataSet DEF Truncate, Opened, Data
  <2> QED BY <1>5, <2>1, <2>2 DEF Truncate, Truncated, Acts
<1>6. CASE Write(w)
  <2>1. Moves(w, "sync", fw[w].fd) BY <1>6, GotoMoves DEF Write, PCs
  <2>2. PICK d \in {w} \cup (IF inodes[fw[w].fd].data = Empty THEN {} ELSE {Mixed}) :
               inodes' = [inodes EXCEPT ![fw[w].fd].data = d]
    BY <1>6 DEF Write
  <2>3. d \in Data BY <2>2 DEF Data
  <2>4. Holds(fw[w].fd, d) BY <1>0, <1>6, <2>2, <2>3, DataSet DEF Write, Opened
  <2>5. inodes[fw[w].fd].data = Empty => d = w BY <2>2
  <2> QED BY <1>6, <2>1, <2>4, <2>5 DEF Write, Written, Acts
<1>7. CASE Sync(w)
  <2>1. Moves(w, "unlock", fw[w].fd) BY <1>7, GotoMoves DEF Sync, PCs
  <2> QED BY <1>7, <2>1 DEF Sync, Synced, Acts
<1>8. CASE Unlock(w)
  <2>1. Moves(w, "local_unlock", fw[w].fd) BY <1>8, GotoMoves DEF Unlock, PCs
  <2>2. LockedBy(fw[w].fd, IF inodes[fw[w].fd].lock = ProcessOf[w] THEN None ELSE inodes[fw[w].fd].lock)
    BY <1>0, <1>8, LockReleased DEF Unlock, Opened
  <2> QED BY <1>8, <2>1, <2>2 DEF Unlock, RecordUnlocked, Acts
<1>9. CASE LocalUnlock(w)
  <2>1. Moves(w, "close", fw[w].fd) BY <1>9, GotoMoves DEF LocalUnlock, PCs
  <2> QED BY <1>9, <2>1 DEF LocalUnlock, NameUnlocked, Acts
<1>10. CASE Close(w)
  <2> DEFINE pc == IF fw[w].pc = "fail" THEN "error" ELSE IF Atomic THEN "rename" ELSE "ok"
             r == [fw[w] EXCEPT !.fd = 0, !.pc = pc]
  <2>1. fw \in [Writers -> WriterType] /\ fw[w] \in WriterType BY Types
  <2>2. fw' = [fw EXCEPT ![w] = r] BY <1>10, <2>1 DEF Close
  <2>3. r \in WriterType /\ r.fd = 0 /\ r.pc = pc /\ r.calls = fw[w].calls
    BY <2>1 DEF WriterType, PCs, Finished
  <2> HIDE DEF r
  <2>4. Moves(w, pc, 0) BY <2>1, <2>2, <2>3 DEF Moves
  <2>5. LockedBy(fw[w].fd, IF inodes[fw[w].fd].lock = ProcessOf[w] THEN None ELSE inodes[fw[w].fd].lock)
    BY <1>0, <1>10, LockReleased DEF Close, Opened
  <2>6. fw[w].pc = "fail" \/ fw[w].pc = "close" BY <1>10 DEF Close
  <2>7. CASE fw[w].pc = "fail" BY <1>10, <2>4, <2>5, <2>7 DEF Close, Closed, Acts
  <2>8. CASE fw[w].pc = "close" BY <1>10, <2>4, <2>5, <2>8 DEF Close, Closed, Acts
  <2> QED BY <2>6, <2>7, <2>8
<1>11. CASE Rename(w)
  <2>1. CASE name["tmp"] # 0
    <3>1. Moves(w, "ok", fw[w].fd) BY <1>11, <2>1, GotoMoves DEF Rename, PCs, Finished
    <3> QED BY <1>11, <2>1, <3>1 DEF Rename, Renamed, Acts
  <2>2. CASE name["tmp"] = 0
    <3>1. Moves(w, "error", fw[w].fd) BY <1>11, <2>2, GotoMoves DEF Rename, PCs, Finished
    <3> QED BY <1>11, <2>2, <3>1 DEF Rename, GivesUp, Acts
  <2> QED BY <2>1, <2>2
<1>12. CASE SyscallFails(w)
  <2>1. CASE fw[w].pc \in {"open", "rename"}
    <3>1. Moves(w, "error", fw[w].fd) BY <1>12, <2>1, GotoMoves DEF SyscallFails, PCs, Finished
    <3> QED BY <1>12, <2>1, <3>1 DEF SyscallFails, GivesUp, Acts
  <2>2. CASE fw[w].pc \in {"lock", "truncate", "sync"}
    <3>1. Moves(w, "fail", fw[w].fd) BY <1>12, <2>2, GotoMoves DEF SyscallFails, Fail, PCs
    <3> QED BY <1>12, <2>2, <3>1 DEF SyscallFails, Fail, Fails, Opened, Acts
  <2>3. CASE fw[w].pc = "write"
    <3>1. Moves(w, "fail", fw[w].fd) BY <1>12, <2>3, GotoMoves DEF SyscallFails, Fail, PCs
    <3>2. Holds(fw[w].fd, Partial) BY <1>0, <1>12, <2>3, DataSet DEF SyscallFails, Opened, Data
    <3> QED BY <1>12, <2>3, <3>1, <3>2 DEF SyscallFails, Fail, Fails, Opened, Acts
  <2> QED BY <1>12, <2>1, <2>2, <2>3 DEF SyscallFails
<1> QED BY <1>1, <1>2, <1>3, <1>4, <1>5, <1>6, <1>7, <1>8, <1>9, <1>10, <1>11, <1>12 DEF Step

\* A crash: the writers of process p are idle, its locks are gone.
Crashed(p) ==
  /\ fw' \in [Writers -> WriterType]
  /\ \A w \in Writers : /\ ProcessOf[w] # p => fw'[w] = fw[w]
                        /\ ProcessOf[w] = p => fw'[w].pc = "idle" /\ fw'[w].calls = fw[w].calls
  /\ inodes' \in Seq(Inode) /\ Len(inodes') = Len(inodes)
  /\ \A k \in 1 .. Len(inodes) : /\ inodes'[k].data = inodes[k].data
                                 /\ inodes[k].lock # p => inodes'[k].lock = inodes[k].lock
  /\ locked_files' = locked_files \ {p} /\ UNCHANGED name

\* Crash does so.
LEMMA CrashActs == ASSUME Base, NEW p \in Processes, Crash(p) PROVE Crashed(p)
<1>1. fw \in [Writers -> WriterType] /\ inodes \in Seq(Inode) BY Types DEF Base
<1>2. ASSUME NEW w \in Writers
      PROVE  /\ [fw[w] EXCEPT !.pc = "idle", !.fd = 0] \in WriterType
             /\ [fw[w] EXCEPT !.pc = "idle", !.fd = 0].pc = "idle"
             /\ [fw[w] EXCEPT !.pc = "idle", !.fd = 0].calls = fw[w].calls
  BY <1>1 DEF WriterType, PCs, Finished
<1>3. fw' \in [Writers -> WriterType] BY <1>1, <1>2 DEF Crash
<1>4. \A w \in Writers : /\ ProcessOf[w] # p => fw'[w] = fw[w]
                         /\ ProcessOf[w] = p => fw'[w].pc = "idle" /\ fw'[w].calls = fw[w].calls
  BY <1>1, <1>2 DEF Crash
<1> DEFINE I(k) == [inodes[k] EXCEPT !.lock = IF @ = p THEN None ELSE @]
<1>5. ASSUME NEW k \in 1 .. Len(inodes)
      PROVE  /\ I(k) \in Inode /\ I(k).data = inodes[k].data
             /\ inodes[k].lock # p => I(k).lock = inodes[k].lock
  <2>1. inodes[k] \in Inode BY <1>1
  <2> QED BY <2>1 DEF Inode
<1>6. inodes' = [k \in 1 .. Len(inodes) |-> I(k)]
  <2>1. DOMAIN inodes = 1 .. Len(inodes) BY <1>1
  <2>2. inodes' = [k \in DOMAIN inodes |-> I(k)] BY Zenon DEF Crash
  <2> QED BY <2>1, <2>2
<1> HIDE DEF I
<1>7. inodes' \in Seq(Inode) /\ Len(inodes') = Len(inodes)
  <2>1. Len(inodes) \in Nat BY <1>1
  <2>2. inodes' \in [1 .. Len(inodes) -> Inode] BY <1>5, <1>6
  <2> QED BY <2>1, <2>2
<1>8. \A k \in 1 .. Len(inodes) : /\ inodes'[k].data = inodes[k].data
                                  /\ inodes[k].lock # p => inodes'[k].lock = inodes[k].lock
  BY <1>5, <1>6
<1> QED BY <1>3, <1>4, <1>7, <1>8 DEF Crashed, Crash

-----------------------------------------------------------------------------
(* Types and descriptors                                                   *)

\* Base, in the next state, from what the steps say of it.
LEMMA BaseNext ==
  ASSUME Base, UNCHANGED config,
         fw' \in [Writers -> WriterType], inodes' \in Seq(Inode), Len(inodes') >= Len(inodes),
         name' \in [{"path", "tmp"} -> 0 .. Len(inodes')], locked_files' \subseteq Processes,
         \A w \in Writers : /\ fw'[w].pc \in Opened => fw'[w].fd \in 1 .. Len(inodes')
                            /\ fw'[w].calls = 0 => fw'[w].pc = "idle",
         name'["path"] # 0 /\ name'["tmp"] # name'["path"], ~Atomic => name'["tmp"] = 0
  PROVE  Base'
<1>1. Processes' = Processes /\ Atomic' = Atomic /\ ProcessOf' = ProcessOf BY DEF Processes, config
<1>2. TypeOK'
  BY <1>1 DEF Base, TypeOK, WriterType, PCs, Inode
<1> QED BY <1>1, <1>2 DEF Base

\* A step of a writer keeps Base.
LEMMA ActsBase == ASSUME Base, UNCHANGED config, NEW w \in Writers, Acts(w) PROVE Base'
<1> USE DEF Base
<1>a. /\ fw \in [Writers -> WriterType] /\ inodes \in Seq(Inode)
      /\ name \in [{"path", "tmp"} -> 0 .. Len(inodes)] /\ locked_files \subseteq Processes
      /\ \A v \in Writers : ProcessOf[v] \in Processes
  BY Types
<1>b. Len(inodes) \in Nat BY <1>a
<1>c. Target = (IF Atomic THEN "tmp" ELSE "path") BY DEF Target
<1> HIDE DEF Base
<1>d. \A v \in Writers : /\ fw[v].pc \in Opened => fw[v].fd \in 1 .. Len(inodes)
                         /\ fw[v].calls = 0 => fw[v].pc = "idle"
  BY DEF Base
<1>e. name["path"] # 0 /\ name["tmp"] # name["path"] /\ (~Atomic => name["tmp"] = 0) BY DEF Base
<1>1. CASE Called(w)
  BY <1>1, <1>a, <1>b, <1>d, <1>e, BaseNext DEF Opened, Finished, Called
<1>2. CASE OpenedOld(w)
  BY <1>2, <1>a, <1>b, <1>d, <1>e, BaseNext DEF Opened, Finished, OpenedOld, Moves, Holds, Kept
<1>3. CASE OpenedNew(w)
  <2>1. /\ fw' \in [Writers -> WriterType] /\ inodes' \in Seq(Inode)
        /\ Len(inodes') = Len(inodes) + 1 /\ locked_files' = locked_files
    BY <1>3 DEF OpenedNew, Moves
  <2>2. \A v \in Writers : /\ fw'[v].pc \in Opened => fw'[v].fd \in 1 .. Len(inodes')
                           /\ fw'[v].calls = 0 => fw'[v].pc = "idle"
    BY <1>3, <1>a, <1>b, <1>d, <2>1 DEF OpenedNew, Moves, Opened
  <2>3. name' = [name EXCEPT ![Target] = Len(inodes) + 1] BY <1>3 DEF OpenedNew
  <2>4. name' \in [{"path", "tmp"} -> 0 .. Len(inodes')] BY <1>a, <1>b, <1>c, <2>1, <2>3
  <2>5. /\ name'["path"] # 0 /\ name'["tmp"] # name'["path"]
        /\ ~Atomic => name'["tmp"] = 0
    BY <1>3, <1>a, <1>b, <1>c, <1>e, <2>3 DEF OpenedNew
  <2> QED BY <1>a, <1>b, <2>1, <2>2, <2>4, <2>5, BaseNext
<1>4. CASE Waits(w)
  BY <1>4, <1>a, <1>b, <1>d, <1>e, BaseNext DEF Opened, Finished, Waits, Moves
<1>5. CASE NameLocked(w)
  BY <1>5, <1>a, <1>b, <1>d, <1>e, BaseNext DEF Opened, Finished, NameLocked, Moves
<1>6. CASE RecordLocked(w)
  <2>1. /\ fw' \in [Writers -> WriterType] /\ inodes' \in Seq(Inode) /\ Len(inodes') = Len(inodes)
        /\ locked_files' \subseteq Processes /\ name' = name
    BY <1>6, <1>a DEF RecordLocked, Moves, LockedBy, Kept
  <2>2. \A v \in Writers : /\ fw'[v].pc \in Opened => fw'[v].fd \in 1 .. Len(inodes')
                           /\ fw'[v].calls = 0 => fw'[v].pc = "idle"
    BY <1>6, <1>a, <1>d, <2>1 DEF RecordLocked, Moves, Opened
  <2> QED BY <1>a, <1>b, <1>e, <2>1, <2>2, BaseNext
<1>7. CASE Truncated(w)
  BY <1>7, <1>a, <1>b, <1>d, <1>e, BaseNext DEF Opened, Finished, Truncated, Moves, Holds, Kept
<1>8. CASE Synced(w)
  BY <1>8, <1>a, <1>b, <1>d, <1>e, BaseNext DEF Opened, Finished, Synced, Moves
<1>9. CASE NameUnlocked(w)
  BY <1>9, <1>a, <1>b, <1>d, <1>e, BaseNext DEF Opened, Finished, NameUnlocked, Moves
<1>10. CASE Renamed(w)
  <2>1. name'["path"] = name["tmp"] /\ name'["tmp"] = 0 /\ name' \in [{"path", "tmp"} -> 0 .. Len(inodes)]
    BY <1>10, <1>a, <1>b DEF Renamed
  <2>2. \A v \in Writers : /\ fw'[v].pc \in Opened => fw'[v].fd \in 1 .. Len(inodes')
                           /\ fw'[v].calls = 0 => fw'[v].pc = "idle"
    BY <1>10, <1>a, <1>d DEF Renamed, Moves, Opened
  <2> QED BY <1>10, <1>a, <1>b, <2>1, <2>2, BaseNext DEF Renamed, Moves
<1>11. CASE GivesUp(w)
  BY <1>11, <1>a, <1>b, <1>d, <1>e, BaseNext DEF Opened, Finished, GivesUp, Moves
<1>12. CASE Fails(w)
  <2>1. /\ fw' \in [Writers -> WriterType] /\ inodes' \in Seq(Inode) /\ Len(inodes') = Len(inodes)
        /\ locked_files' \subseteq Processes /\ name' = name
    BY <1>12, <1>a DEF Fails, Moves, Holds, Kept
  <2>2. \A v \in Writers : /\ fw'[v].pc \in Opened => fw'[v].fd \in 1 .. Len(inodes')
                           /\ fw'[v].calls = 0 => fw'[v].pc = "idle"
    BY <1>12, <1>a, <1>d, <2>1 DEF Fails, Moves, Opened
  <2> QED BY <1>a, <1>b, <1>e, <2>1, <2>2, BaseNext
<1>13. CASE \E d : Written(w, d)
  <2> PICK d : Written(w, d) BY <1>13
  <2>1. /\ fw' \in [Writers -> WriterType] /\ inodes' \in Seq(Inode) /\ Len(inodes') = Len(inodes)
        /\ locked_files' \subseteq Processes /\ name' = name
    BY <1>a DEF Written, Moves, Holds, Kept
  <2>2. \A v \in Writers : /\ fw'[v].pc \in Opened => fw'[v].fd \in 1 .. Len(inodes')
                           /\ fw'[v].calls = 0 => fw'[v].pc = "idle"
    BY <1>a, <1>d, <2>1 DEF Written, Moves, Opened
  <2> QED BY <1>a, <1>b, <1>e, <2>1, <2>2, BaseNext
<1>14. CASE \E p : RecordUnlocked(w, p)
  BY <1>14, <1>a, <1>b, <1>d, <1>e, BaseNext DEF Opened, Finished, RecordUnlocked, Moves, LockedBy, Kept
<1>15. CASE \E p : Closed(w, p)
  <2> PICK p : Closed(w, p) BY <1>15
  <2>1. /\ fw' \in [Writers -> WriterType] /\ inodes' \in Seq(Inode) /\ Len(inodes') = Len(inodes)
        /\ locked_files' \subseteq Processes /\ name' = name
    BY <1>a DEF Closed, Moves, LockedBy, Kept
  <2>2. \A v \in Writers : /\ fw'[v].pc \in Opened => fw'[v].fd \in 1 .. Len(inodes')
                           /\ fw'[v].calls = 0 => fw'[v].pc = "idle"
    BY <1>a, <1>d, <2>1 DEF Closed, Moves, Opened
  <2> QED BY <1>a, <1>b, <1>e, <2>1, <2>2, BaseNext
<1> QED BY <1>1, <1>2, <1>3, <1>4, <1>5, <1>6, <1>7, <1>8, <1>9, <1>10, <1>11, <1>12, <1>13, <1>14, <1>15 DEF Acts

\* A crash keeps Base.
LEMMA CrashBase == ASSUME Base, UNCHANGED config, NEW p \in Processes, Crash(p) PROVE Base'
<1>1. Crashed(p) BY CrashActs
<1>2. /\ fw \in [Writers -> WriterType] /\ inodes \in Seq(Inode)
      /\ name \in [{"path", "tmp"} -> 0 .. Len(inodes)] /\ locked_files \subseteq Processes
  BY Types DEF Base
<1>3. Len(inodes) \in Nat BY <1>2
<1>4. \A v \in Writers : /\ fw[v].pc \in Opened => fw[v].fd \in 1 .. Len(inodes)
                         /\ fw[v].calls = 0 => fw[v].pc = "idle"
  BY DEF Base
<1>5. name["path"] # 0 /\ name["tmp"] # name["path"] /\ (~Atomic => name["tmp"] = 0) BY DEF Base
<1> QED BY <1>1, <1>2, <1>3, <1>4, <1>5, BaseNext DEF Crashed, Opened

\* At first no file is open.
LEMMA InitBase == Init => Base
<1> SUFFICES ASSUME Init PROVE Base OBVIOUS
<1>1. fw \in [Writers -> WriterType]
  <2>1. [pc |-> "idle", fd |-> 0, tries |-> 0, calls |-> 0] \in WriterType
    BY FileConstants DEF WriterType, PCs, Finished
  <2> QED BY <2>1 DEF Init
<1>2. inodes \in Seq(Inode) /\ Len(inodes) = 1
  <2>1. [data |-> Old, lock |-> None] \in Inode BY DEF Inode, Data
  <2> QED BY <2>1 DEF Init
<1>3. TypeOK BY <1>1, <1>2 DEF Init, TypeOK, WriterType, PCs, Inode
<1> QED BY <1>3 DEF Init, Base, Opened

\* A step of Next is a step of a writer, a crash or none.
LEMMA NextActs ==
  ASSUME Base, [Next]_vars
  PROVE  \/ UNCHANGED config /\ \E w \in Writers : Acts(w)
         \/ UNCHANGED config /\ \E p \in Processes : Crash(p) /\ Crashed(p)
         \/ UNCHANGED vars
  BY StepActs, CrashActs DEF Next

\* All variables keep their types.
LEMMA NextBase == Base /\ [Next]_vars => Base'
<1> SUFFICES ASSUME Base, [Next]_vars PROVE Base' OBVIOUS
<1>1. ASSUME UNCHANGED vars PROVE Base'
  BY <1>1 DEF Base, TypeOK, Processes, vars, config
<1> QED BY <1>1, NextActs, ActsBase, CrashBase

-----------------------------------------------------------------------------
(* The two halves of the lock                                              *)

\* create_local_lock: one writer of a process at a time is past it, and the
\* name stays in locked_files until that writer takes it out.
NamedOK(v, w) == v # w /\ ProcessOf[v] = ProcessOf[w] => fw[v].pc \notin Named \/ fw[w].pc \notin Named
NamedInv ==
  \A w \in Writers : /\ fw[w].pc \in Named => ProcessOf[w] \in locked_files
                     /\ \A v \in Writers : NamedOK(v, w)

\* fcntl: a writer that is alone in its process keeps the record lock until it
\* unlocks; a second thread of the process would drop it by a close().
Apart(P) == \A v, w \in Writers : v # w => P[v] # P[w]
RecordInv ==
  Apart(ProcessOf) =>
    \A w \in Writers : fw[w].pc \in Locking => inodes[fw[w].fd].lock = ProcessOf[w]

\* A step that does not take a name.
LEMMA NamedKept ==
  ASSUME NamedInv, NEW w \in Writers, UNCHANGED config,
         \A v \in Writers \ {w} : fw'[v] = fw[v], fw'[w].pc \in Named => fw[w].pc \in Named,
         \/ locked_files' = locked_files
         \/ locked_files' = locked_files \ {ProcessOf[w]} /\ fw[w].pc \in Named /\ fw'[w].pc \notin Named
  PROVE  NamedInv'
<1>1. ProcessOf' = ProcessOf BY DEF config
<1>2. \A v \in Writers : fw'[v].pc \in Named => ProcessOf[v] \in locked_files'
  BY DEF NamedInv, NamedOK
<1>3. \A u, v \in Writers : NamedOK(u, v)' BY <1>1 DEF NamedInv, NamedOK
<1> QED BY <1>1, <1>2, <1>3 DEF NamedInv

\* A step of a writer
LEMMA ActsNamed == ASSUME NamedInv, UNCHANGED config, NEW w \in Writers, Acts(w) PROVE NamedInv'
<1>1. CASE Called(w)
  BY <1>1, NamedKept DEF Named, Finished, Opened, Called
<1>2. CASE OpenedOld(w)
  BY <1>2, NamedKept DEF Named, Finished, Opened, OpenedOld, Moves, Holds, Kept
<1>3. CASE OpenedNew(w)
  BY <1>3, NamedKept DEF Named, Finished, Opened, OpenedNew, Moves
<1>4. CASE Waits(w)
  BY <1>4, NamedKept DEF Named, Finished, Opened, Waits, Moves
<1>5. CASE NameLocked(w)
  <2>1. /\ \A v \in Writers \ {w} : fw'[v] = fw[v]
        /\ ProcessOf[w] \notin locked_files /\ locked_files' = locked_files \cup {ProcessOf[w]}
    BY <1>5 DEF NameLocked, Moves
  <2>2. ProcessOf' = ProcessOf BY DEF config
  <2>3. \A v \in Writers : fw'[v].pc \in Named => ProcessOf[v] \in locked_files' BY <2>1 DEF NamedInv
  <2>4. \A v \in Writers \ {w} : ProcessOf[v] = ProcessOf[w] => fw'[v].pc \notin Named
    BY <2>1 DEF NamedInv
  <2>5. \A u, v \in Writers : NamedOK(u, v)' BY <2>1, <2>2, <2>4 DEF NamedInv, NamedOK
  <2> QED BY <2>2, <2>3, <2>5 DEF NamedInv
<1>6. CASE RecordLocked(w)
  BY <1>6, NamedKept DEF Named, Finished, Opened, RecordLocked, Moves, LockedBy, Kept
<1>7. CASE Truncated(w)
  BY <1>7, NamedKept DEF Named, Finished, Opened, Truncated, Moves, Holds, Kept
<1>8. CASE Synced(w)
  BY <1>8, NamedKept DEF Named, Finished, Opened, Synced, Moves
<1>9. CASE NameUnlocked(w)
  BY <1>9, NamedKept DEF Named, Finished, Opened, NameUnlocked, Moves
<1>10. CASE Renamed(w)
  BY <1>10, NamedKept DEF Named, Finished, Opened, Renamed, Moves
<1>11. CASE GivesUp(w)
  BY <1>11, NamedKept DEF Named, Finished, Opened, GivesUp, Moves
<1>12. CASE Fails(w)
  BY <1>12, NamedKept DEF Named, Finished, Opened, Fails, Moves, Holds, Kept
<1>13. CASE \E d : Written(w, d)
  BY <1>13, NamedKept DEF Named, Finished, Opened, Written, Moves, Holds, Kept
<1>14. CASE \E p : RecordUnlocked(w, p)
  BY <1>14, NamedKept DEF Named, Finished, Opened, RecordUnlocked, Moves, LockedBy, Kept
<1>15. CASE \E p : Closed(w, p)
  BY <1>15, NamedKept DEF Named, Finished, Opened, Closed, Moves, LockedBy, Kept
<1> QED BY <1>1, <1>2, <1>3, <1>4, <1>5, <1>6, <1>7, <1>8, <1>9, <1>10, <1>11, <1>12, <1>13, <1>14, <1>15 DEF Acts

\* A crash takes the name out and stops all writers of the process.
LEMMA CrashNamed == ASSUME NamedInv, UNCHANGED config, NEW p \in Processes, Crashed(p) PROVE NamedInv'
<1>1. ProcessOf' = ProcessOf BY DEF config
<1>2. \A v \in Writers : fw'[v].pc \in Named => ProcessOf[v] # p /\ fw[v].pc \in Named
  BY DEF Crashed, Named
<1>3. \A v \in Writers : fw'[v].pc \in Named => ProcessOf[v] \in locked_files'
  BY <1>2 DEF Crashed, NamedInv
<1>4. \A u, v \in Writers : NamedOK(u, v)' BY <1>1, <1>2 DEF NamedInv, NamedOK
<1> QED BY <1>1, <1>3, <1>4 DEF NamedInv

\* A step that leaves the lock of the others alone and does not take one.
LEMMA RecordKept ==
  ASSUME Base, RecordInv, NEW w \in Writers, UNCHANGED config,
         \A v \in Writers \ {w} : fw'[v] = fw[v],
         \A v \in Writers \ {w} : Apart(ProcessOf) /\ fw[v].pc \in Locking
              => inodes'[fw[v].fd].lock = inodes[fw[v].fd].lock,
         Apart(ProcessOf) /\ fw'[w].pc \in Locking => inodes'[fw'[w].fd].lock = ProcessOf[w]
  PROVE  RecordInv'
<1>1. ProcessOf' = ProcessOf BY DEF config
<1> SUFFICES ASSUME Apart(ProcessOf), NEW v \in Writers, fw'[v].pc \in Locking
             PROVE  inodes'[fw'[v].fd].lock = ProcessOf[v]
  BY <1>1 DEF RecordInv
<1> QED BY DEF RecordInv

\* A step of a writer
LEMMA ActsRecord ==
  ASSUME Base, RecordInv, UNCHANGED config, NEW w \in Writers, Acts(w) PROVE RecordInv'
<1>a. /\ \A v \in Writers : fw[v].pc \in Locking => fw[v].fd \in 1 .. Len(inodes)
      /\ \A v \in Writers : ProcessOf[v] # None
  BY Types DEF Base, Locking, Opened
<1>b. Apart(ProcessOf) =>
        \A v \in Writers : fw[v].pc \in Locking => inodes[fw[v].fd].lock = ProcessOf[v]
  BY DEF RecordInv
<1>c. Apart(ProcessOf) => \A v \in Writers \ {w} : ProcessOf[v] # ProcessOf[w] BY DEF Apart
<1>d. ASSUME UNCHANGED inodes \/ (\E n, d : Holds(n, d)), NEW v \in Writers, fw[v].pc \in Locking
      PROVE  inodes'[fw[v].fd].lock = inodes[fw[v].fd].lock
  BY <1>a, <1>d DEF Holds, Kept
<1>1. CASE Called(w)
  BY <1>1, <1>b, RecordKept DEF Locking, Finished, Opened, Called
<1>2. CASE OpenedOld(w)
  <2>1. UNCHANGED inodes \/ (\E n, d : Holds(n, d)) BY <1>2, Zenon DEF OpenedOld
  <2>2. \A v \in Writers : fw[v].pc \in Locking => inodes'[fw[v].fd].lock = inodes[fw[v].fd].lock
    BY <1>d, <2>1
  <2>3. /\ \A v \in Writers \ {w} : fw'[v] = fw[v]
        /\ fw'[w].pc \in Locking => fw[w].pc \in Locking /\ fw'[w].fd = fw[w].fd
    BY <1>2 DEF OpenedOld, Moves, Locking
  <2> QED BY <1>b, <2>2, <2>3, RecordKept
<1>3. CASE OpenedNew(w)
  <2>1. \A v \in Writers : fw[v].pc \in Locking => inodes'[fw[v].fd].lock = inodes[fw[v].fd].lock
    BY <1>3, <1>a DEF OpenedNew
  <2>2. fw'[w].pc \notin Locking /\ \A v \in Writers \ {w} : fw'[v] = fw[v]
    BY <1>3 DEF OpenedNew, Moves, Locking
  <2> QED BY <2>1, <2>2, RecordKept
<1>4. CASE Waits(w)
  BY <1>4, <1>b, RecordKept DEF Locking, Finished, Opened, Waits, Moves
<1>5. CASE NameLocked(w)
  BY <1>5, <1>b, RecordKept DEF Locking, Finished, Opened, NameLocked, Moves
<1>6. CASE RecordLocked(w)
  <2>1. \A v \in Writers \ {w} : Apart(ProcessOf) /\ fw[v].pc \in Locking
             => inodes'[fw[v].fd].lock = inodes[fw[v].fd].lock
    BY <1>6, <1>a, <1>b, <1>c DEF RecordLocked, LockedBy, Kept
  <2>2. inodes'[fw'[w].fd].lock = ProcessOf[w] /\ \A v \in Writers \ {w} : fw'[v] = fw[v]
    BY <1>6 DEF RecordLocked, LockedBy, Moves
  <2> QED BY <2>1, <2>2, RecordKept
<1>7. CASE Truncated(w)
  <2>1. UNCHANGED inodes \/ (\E n, d : Holds(n, d)) BY <1>7, Zenon DEF Truncated
  <2>2. \A v \in Writers : fw[v].pc \in Locking => inodes'[fw[v].fd].lock = inodes[fw[v].fd].lock
    BY <1>d, <2>1
  <2>3. /\ \A v \in Writers \ {w} : fw'[v] = fw[v]
        /\ fw'[w].pc \in Locking => fw[w].pc \in Locking /\ fw'[w].fd = fw[w].fd
    BY <1>7 DEF Truncated, Moves, Locking
  <2> QED BY <1>b, <2>2, <2>3, RecordKept
<1>8. CASE Synced(w)
  BY <1>8, <1>b, RecordKept DEF Locking, Finished, Opened, Synced, Moves
<1>9. CASE NameUnlocked(w)
  BY <1>9, <1>b, RecordKept DEF Locking, Finished, Opened, NameUnlocked, Moves
<1>10. CASE Renamed(w)
  BY <1>10, <1>b, RecordKept DEF Locking, Finished, Opened, Renamed, Moves
<1>11. CASE GivesUp(w)
  BY <1>11, <1>b, RecordKept DEF Locking, Finished, Opened, GivesUp, Moves
<1>12. CASE Fails(w)
  <2>1. UNCHANGED inodes \/ (\E n, d : Holds(n, d)) BY <1>12, Zenon DEF Fails
  <2>2. \A v \in Writers : fw[v].pc \in Locking => inodes'[fw[v].fd].lock = inodes[fw[v].fd].lock
    BY <1>d, <2>1
  <2>3. /\ \A v \in Writers \ {w} : fw'[v] = fw[v]
        /\ fw'[w].pc \in Locking => fw[w].pc \in Locking /\ fw'[w].fd = fw[w].fd
    BY <1>12 DEF Fails, Moves, Locking
  <2> QED BY <1>b, <2>2, <2>3, RecordKept
<1>13. CASE \E d : Written(w, d)
  <2> PICK d : Written(w, d) BY <1>13
  <2>1. UNCHANGED inodes \/ (\E n, e : Holds(n, e)) BY Zenon DEF Written
  <2>2. \A v \in Writers : fw[v].pc \in Locking => inodes'[fw[v].fd].lock = inodes[fw[v].fd].lock
    BY <1>d, <2>1
  <2>3. /\ \A v \in Writers \ {w} : fw'[v] = fw[v]
        /\ fw'[w].pc \in Locking => fw[w].pc \in Locking /\ fw'[w].fd = fw[w].fd
    BY DEF Written, Moves, Locking
  <2> QED BY <1>b, <2>2, <2>3, RecordKept
<1>14. CASE \E p : RecordUnlocked(w, p)
  <2> PICK p : RecordUnlocked(w, p) BY <1>14
  <2>1. \A v \in Writers \ {w} : Apart(ProcessOf) /\ fw[v].pc \in Locking
             => inodes'[fw[v].fd].lock = inodes[fw[v].fd].lock
    BY <1>a, <1>b, <1>c DEF RecordUnlocked, LockedBy, Kept
  <2>2. fw'[w].pc \notin Locking /\ \A v \in Writers \ {w} : fw'[v] = fw[v]
    BY DEF RecordUnlocked, Moves, Locking
  <2> QED BY <2>1, <2>2, RecordKept
<1>15. CASE \E p : Closed(w, p)
  <2> PICK p : Closed(w, p) BY <1>15
  <2>1. \A v \in Writers \ {w} : Apart(ProcessOf) /\ fw[v].pc \in Locking
             => inodes'[fw[v].fd].lock = inodes[fw[v].fd].lock
    BY <1>a, <1>b, <1>c DEF Closed, LockedBy, Kept
  <2>2. fw'[w].pc \notin Locking /\ \A v \in Writers \ {w} : fw'[v] = fw[v]
    BY DEF Closed, Moves, Locking
  <2> QED BY <2>1, <2>2, RecordKept
<1> QED BY <1>1, <1>2, <1>3, <1>4, <1>5, <1>6, <1>7, <1>8, <1>9, <1>10, <1>11, <1>12, <1>13, <1>14, <1>15 DEF Acts

\* A crash leaves the locks of other processes alone.
LEMMA CrashRecord ==
  ASSUME Base, RecordInv, UNCHANGED config, NEW p \in Processes, Crashed(p) PROVE RecordInv'
<1>1. ProcessOf' = ProcessOf BY DEF config
<1> SUFFICES ASSUME Apart(ProcessOf), NEW v \in Writers, fw'[v].pc \in Locking
             PROVE  inodes'[fw'[v].fd].lock = ProcessOf[v]
  BY <1>1 DEF RecordInv
<1>2. fw'[v] = fw[v] /\ ProcessOf[v] # p BY DEF Crashed, Locking
<1>3. fw[v].fd \in 1 .. Len(inodes) /\ inodes[fw[v].fd].lock = ProcessOf[v]
  BY <1>2 DEF Base, Opened, Locking, RecordInv
<1> QED BY <1>2, <1>3 DEF Crashed

\* The writers are threads of one process, or each is a process of its own.
Unmixed(P) == Apart(P) \/ \A v, w \in Writers : P[v] = P[w]

\* At first nobody has a lock, and every step keeps the two halves.
LEMMA LocksAlways ==
  /\ Init => NamedInv /\ RecordInv
  /\ Base /\ NamedInv /\ RecordInv /\ [Next]_vars => NamedInv' /\ RecordInv'
<1>1. Init => NamedInv /\ RecordInv
  BY DEF Init, NamedInv, NamedOK, RecordInv, Named, Locking
<1>2. ASSUME Base, NamedInv, RecordInv, [Next]_vars PROVE NamedInv' /\ RecordInv'
  <2>1. ASSUME UNCHANGED vars PROVE NamedInv' /\ RecordInv'
    BY <1>2, <2>1 DEF NamedInv, NamedOK, RecordInv, vars, config
  <2> QED BY <1>2, <2>1, NextActs, ActsNamed, CrashNamed, ActsRecord, CrashRecord
<1> QED BY <1>1, <1>2

\* Two writers with the same file are not both between lock and unlock.
LEMMA Exclusive ==
  ASSUME Base, NamedInv, RecordInv, Unmixed(ProcessOf), NEW v \in Writers, NEW w \in Writers,
         v # w, fw[v].pc \in Locking, fw[w].pc \in Locking
  PROVE  fw[v].fd # fw[w].fd
<1>1. CASE Apart(ProcessOf) BY <1>1 DEF RecordInv, Apart
<1>2. CASE ProcessOf[v] = ProcessOf[w] BY <1>2 DEF NamedInv, NamedOK, Named, Locking
<1> QED BY <1>1, <1>2 DEF Unmixed

\* Between lock and unlock a writer of FileFd::lock has the file to itself: if
\* the writers are threads of one process, by locked_files; if each is a process
\* of its own, by the record lock.  Failing system calls, retries, crashes and
\* an earlier call's descriptor do not break it.
THEOREM LockExclusiveAlways ==
  ASSUME \A P \in Placements : Unmixed(P)
  PROVE  Spec => []LockExclusive
<1>1. Base /\ NamedInv /\ RecordInv => LockExclusive
  <2> SUFFICES ASSUME Base, NamedInv, RecordInv PROVE LockExclusive OBVIOUS
  <2>1. TypeOK /\ Unmixed(ProcessOf) BY DEF Base, TypeOK
  <2> QED BY <2>1, Exclusive DEF LockExclusive, Locking
<1> QED BY <1>1, InitBase, NextBase, LocksAlways, PTL DEF Spec

-----------------------------------------------------------------------------
(* The contents                                                            *)

\* A writer writes to an empty file: it has truncated it under the lock.
EmptyInv == \A w \in Writers : fw[w].pc = "write" => inodes[fw[w].fd].data = Empty

\* The file that is, or will be renamed to, the path; and a writer that has not
\* called, has failed, or is going to write to inode n.
Latest == IF name["tmp"] # 0 THEN name["tmp"] ELSE name["path"]
Redoes(e, n) == \/ e.pc \in {"idle", "error", "fail", "open"}
                \/ e.pc \in {"local", "lock", "truncate", "write"} /\ e.fd = n

\* If that file does not hold the data of a writer, some writer has not
\* succeeded yet; and somebody still has to rename a temporary file.
LatestInv ==
  /\ inodes[Latest].data \notin Writers => \E w \in Writers : Redoes(fw[w], Latest)
  /\ name["tmp"] # 0 => \E w \in Writers : fw[w].pc # "ok"

\* A step that fills no file another writer has truncated.
LEMMA EmptyKept ==
  ASSUME EmptyInv, NEW w \in Writers, \A v \in Writers \ {w} : fw'[v] = fw[v],
         \A v \in Writers \ {w} : fw[v].pc = "write" =>
           inodes'[fw[v].fd].data \in {inodes[fw[v].fd].data, Empty},
         fw'[w].pc = "write" => inodes'[fw'[w].fd].data = Empty
  PROVE  EmptyInv'
<1> SUFFICES ASSUME NEW v \in Writers, fw'[v].pc = "write" PROVE inodes'[fw'[v].fd].data = Empty
  BY DEF EmptyInv
<1> QED BY DEF EmptyInv

\* A step of a writer
LEMMA ActsEmpty ==
  ASSUME Base, NamedInv, RecordInv, Unmixed(ProcessOf), EmptyInv, NEW w \in Writers, Acts(w)
  PROVE  EmptyInv'
<1>a. \A v \in Writers : fw[v].pc = "write" => fw[v].fd \in 1 .. Len(inodes)
  BY DEF Base, Opened
<1>b. fw[w].pc = "write" => \A v \in Writers \ {w} : fw[v].pc = "write" => fw[v].fd # fw[w].fd
  BY Exclusive DEF Locking
<1>1. CASE Called(w)
  BY <1>1, <1>a, <1>b, EmptyKept DEF Finished, Opened, Called
<1>2. CASE OpenedOld(w)
  BY <1>2, <1>a, <1>b, EmptyKept DEF Finished, Opened, OpenedOld, Moves, Holds, Kept
<1>3. CASE OpenedNew(w)
  BY <1>3, <1>a, <1>b, EmptyKept DEF Finished, Opened, OpenedNew, Moves
<1>4. CASE Waits(w)
  BY <1>4, <1>a, <1>b, EmptyKept DEF Finished, Opened, Waits, Moves
<1>5. CASE NameLocked(w)
  BY <1>5, <1>a, <1>b, EmptyKept DEF Finished, Opened, NameLocked, Moves
<1>6. CASE RecordLocked(w)
  BY <1>6, <1>a, <1>b, EmptyKept DEF Finished, Opened, RecordLocked, Moves, LockedBy, Kept
<1>7. CASE Truncated(w)
  BY <1>7, <1>a, <1>b, EmptyKept DEF Finished, Opened, Truncated, Moves, Holds, Kept
<1>8. CASE Synced(w)
  BY <1>8, <1>a, <1>b, EmptyKept DEF Finished, Opened, Synced, Moves
<1>9. CASE NameUnlocked(w)
  BY <1>9, <1>a, <1>b, EmptyKept DEF Finished, Opened, NameUnlocked, Moves
<1>10. CASE Renamed(w)
  BY <1>10, <1>a, <1>b, EmptyKept DEF Finished, Opened, Renamed, Moves
<1>11. CASE GivesUp(w)
  BY <1>11, <1>a, <1>b, EmptyKept DEF Finished, Opened, GivesUp, Moves
<1>12. CASE Fails(w)
  BY <1>12, <1>a, <1>b, EmptyKept DEF Finished, Opened, Fails, Moves, Holds, Kept
<1>13. CASE \E d : Written(w, d)
  BY <1>13, <1>a, <1>b, EmptyKept DEF Finished, Opened, Written, Moves, Holds, Kept
<1>14. CASE \E p : RecordUnlocked(w, p)
  BY <1>14, <1>a, <1>b, EmptyKept DEF Finished, Opened, RecordUnlocked, Moves, LockedBy, Kept
<1>15. CASE \E p : Closed(w, p)
  BY <1>15, <1>a, <1>b, EmptyKept DEF Finished, Opened, Closed, Moves, LockedBy, Kept
<1> QED BY <1>1, <1>2, <1>3, <1>4, <1>5, <1>6, <1>7, <1>8, <1>9, <1>10, <1>11, <1>12, <1>13, <1>14, <1>15 DEF Acts

\* A step that leaves the names alone.
LEMMA LatestKept ==
  ASSUME LatestInv, NEW w \in Writers, \A v \in Writers \ {w} : fw'[v] = fw[v],
         name' = name, fw'[w].pc = "ok" => name["tmp"] = 0,
         inodes'[Latest].data \notin Writers =>
           \/ Redoes(fw'[w], Latest)
           \/ inodes[Latest].data \notin Writers /\ ~Redoes(fw[w], Latest)
  PROVE  LatestInv'
<1>1. Latest' = Latest BY DEF Latest
<1>2. inodes'[Latest].data \notin Writers => \E v \in Writers : Redoes(fw'[v], Latest)
  BY DEF LatestInv
<1>3. name'["tmp"] # 0 => \E v \in Writers : fw'[v].pc # "ok" BY DEF LatestInv
<1> QED BY <1>1, <1>2, <1>3 DEF LatestInv

\* A step of a writer
LEMMA ActsLatest ==
  ASSUME Base, EmptyInv, LatestInv, NEW w \in Writers, Acts(w)
  PROVE  LatestInv'
<1>a. /\ Latest \in 1 .. Len(inodes) /\ name \in [{"path", "tmp"} -> 0 .. Len(inodes)]
      /\ name["path"] # 0 /\ name["tmp"] # name["path"] /\ (~Atomic => name["tmp"] = 0)
      /\ Atomic \in BOOLEAN /\ Len(inodes) \in Nat
  <2>1. /\ name \in [{"path", "tmp"} -> 0 .. Len(inodes)] /\ Atomic \in BOOLEAN
        /\ inodes \in Seq(Inode)
    BY Types DEF Base
  <2>2. name["path"] # 0 /\ name["tmp"] # name["path"] /\ (~Atomic => name["tmp"] = 0) BY DEF Base
  <2> QED BY <2>1, <2>2 DEF Latest
<1>b. Target = (IF Atomic THEN "tmp" ELSE "path") BY DEF Target
<1>c. fw[w].pc = "write" => inodes[fw[w].fd].data = Empty BY DEF EmptyInv
<1>d. fw[w].pc \in Opened => fw[w].fd \in 1 .. Len(inodes) BY DEF Base
<1>1. CASE Called(w)
  BY <1>1, <1>a, <1>c, <1>d, LatestKept DEF Redoes, Finished, Opened, Called
<1>2. CASE OpenedOld(w)
  <2>1. Latest = name[Target] BY <1>2, <1>a, <1>b DEF OpenedOld, Latest
  <2> QED BY <1>2, <2>1, LatestKept DEF OpenedOld, Moves, Redoes
<1>3. CASE OpenedNew(w)
  <2>1. Target = "tmp" BY <1>3, <1>a, <1>b DEF OpenedNew
  <2>2. name'["tmp"] = Len(inodes) + 1 BY <1>3, <1>a, <2>1 DEF OpenedNew
  <2>3. Latest' = Len(inodes) + 1 BY <1>a, <2>2 DEF Latest
  <2>4. fw'[w].pc = "local" /\ fw'[w].fd = Len(inodes) + 1 BY <1>3 DEF OpenedNew, Moves
  <2>5. Redoes(fw'[w], Len(inodes) + 1) BY <2>4 DEF Redoes
  <2> QED BY <2>3, <2>4, <2>5 DEF LatestInv
<1>4. CASE Waits(w)
  BY <1>4, <1>a, <1>c, <1>d, LatestKept DEF Redoes, Finished, Opened, Waits, Moves
<1>5. CASE NameLocked(w)
  BY <1>5, <1>a, <1>c, <1>d, LatestKept DEF Redoes, Finished, Opened, NameLocked, Moves
<1>6. CASE RecordLocked(w)
  BY <1>6, <1>a, <1>c, <1>d, LatestKept DEF Redoes, Finished, Opened, RecordLocked, Moves, LockedBy, Kept
<1>7. CASE Truncated(w)
  BY <1>7, <1>a, <1>c, <1>d, LatestKept DEF Redoes, Finished, Opened, Truncated, Moves, Holds, Kept
<1>8. CASE Synced(w)
  BY <1>8, <1>a, <1>c, <1>d, LatestKept DEF Redoes, Finished, Opened, Synced, Moves
<1>9. CASE NameUnlocked(w)
  BY <1>9, <1>a, <1>c, <1>d, LatestKept DEF Redoes, Finished, Opened, NameUnlocked, Moves
<1>10. CASE Renamed(w)
  <2>1. Latest' = Latest /\ name'["tmp"] = 0 BY <1>10 DEF Renamed, Latest
  <2>2. inodes[Latest].data \notin Writers => \E v \in Writers \ {w} : Redoes(fw[v], Latest)
    BY <1>10 DEF Renamed, LatestInv, Redoes
  <2>3. inodes' = inodes /\ \A v \in Writers \ {w} : fw'[v] = fw[v] BY <1>10 DEF Renamed, Moves
  <2> QED BY <2>1, <2>2, <2>3 DEF LatestInv
<1>11. CASE GivesUp(w)
  BY <1>11, <1>a, <1>c, <1>d, LatestKept DEF Redoes, Finished, Opened, GivesUp, Moves
<1>12. CASE Fails(w)
  BY <1>12, <1>a, <1>c, <1>d, LatestKept DEF Redoes, Finished, Opened, Fails, Moves, Holds, Kept
<1>13. CASE \E d : Written(w, d)
  BY <1>13, <1>a, <1>c, <1>d, LatestKept DEF Redoes, Finished, Opened, Written, Moves, Holds, Kept
<1>14. CASE \E p : RecordUnlocked(w, p)
  BY <1>14, <1>a, <1>c, <1>d, LatestKept DEF Redoes, Finished, Opened, RecordUnlocked, Moves, LockedBy, Kept
<1>15. CASE \E p : Closed(w, p)
  BY <1>15, <1>a, <1>c, <1>d, LatestKept DEF Redoes, Finished, Opened, Closed, Moves, LockedBy, Kept
<1> QED BY <1>1, <1>2, <1>3, <1>4, <1>5, <1>6, <1>7, <1>8, <1>9, <1>10, <1>11, <1>12, <1>13, <1>14, <1>15 DEF Acts

\* A crash leaves a writer that has to call again.
LEMMA CrashLatest ==
  ASSUME Base, EmptyInv, LatestInv, NEW p \in Processes, Crashed(p)
  PROVE  EmptyInv' /\ LatestInv'
<1>1. PICK w \in Writers : ProcessOf[w] = p BY DEF Processes
<1>2. fw'[w].pc = "idle" BY <1>1 DEF Crashed
<1>3. LatestInv' BY <1>2 DEF LatestInv, Redoes
<1>4. ASSUME NEW v \in Writers, fw'[v].pc = "write" PROVE inodes'[fw'[v].fd].data = Empty
  <2>1. fw'[v] = fw[v] BY <1>4 DEF Crashed
  <2>2. fw[v].fd \in 1 .. Len(inodes) BY <1>4, <2>1 DEF Base, Opened
  <2> QED BY <1>4, <2>1, <2>2 DEF Crashed, EmptyInv
<1> QED BY <1>3, <1>4 DEF EmptyInv

\* At first nobody has called, and every step keeps the contents in order.
LEMMA LatestAlways ==
  /\ Init => EmptyInv /\ LatestInv
  /\ Base /\ NamedInv /\ RecordInv /\ Unmixed(ProcessOf) /\ EmptyInv /\ LatestInv /\ [Next]_vars
       => EmptyInv' /\ LatestInv'
<1>1. Init => EmptyInv /\ LatestInv
  BY FileConstants DEF Init, EmptyInv, LatestInv, Redoes
<1>2. ASSUME Base, NamedInv, RecordInv, Unmixed(ProcessOf), EmptyInv, LatestInv, [Next]_vars
      PROVE  EmptyInv' /\ LatestInv'
  <2>1. ASSUME UNCHANGED vars PROVE EmptyInv' /\ LatestInv'
    BY <1>2, <2>1 DEF EmptyInv, LatestInv, Latest, vars
  <2> QED BY <1>2, <2>1, NextActs, ActsEmpty, ActsLatest, CrashLatest
<1> QED BY <1>1, <1>2

-----------------------------------------------------------------------------
(* A single writer                                                         *)

\* Nobody but w has made calls.
Sole(w) == \A v \in Writers \ {w} : fw[v].calls = 0

\* A writer on its own works on the target's inode, and what it has written is
\* there, is under the temporary name before the rename, and under the path in
\* the end.
SoleOK(w) ==
  /\ fw[w].pc \in Opened \ {"fail"} => fw[w].fd = name[Target]
  /\ fw[w].pc = "write" => inodes[fw[w].fd].data = Empty
  /\ fw[w].pc \in {"sync", "unlock", "local_unlock", "close"} => inodes[fw[w].fd].data = w
  /\ fw[w].pc = "rename" => name["tmp"] # 0 /\ inodes[name["tmp"]].data = w
  /\ fw[w].pc = "ok" => inodes[name["path"]].data = w
  /\ AtomicReplace
SoleInv == \A w \in Writers : Sole(w) => SoleOK(w)

\* If one writer at most has called, there is such a w.
LEMMA SoleOne ==
  ASSUME Base, SoleWriter
  PROVE  \E w \in Writers : Sole(w) /\ \A v \in Writers : fw[v].calls > 0 => v = w
<1> DEFINE S == {v \in Writers : fw[v].calls > 0}
<1>1. IsFiniteSet(S) /\ Cardinality(S) \in Nat
  <2>1. S \in SUBSET Writers OBVIOUS
  <2>2. IsFiniteSet(S) BY <2>1, FileConstants, FS_Subset
  <2> QED BY <2>2, FS_CardinalityType
<1>2. Cardinality(S) = 0 \/ Cardinality(S) = 1 BY <1>1 DEF SoleWriter
<1>3. S = {} \/ \E x : S = {x} BY <1>1, <1>2, FS_EmptySet, FS_Singleton
<1>4. \A v \in Writers : fw[v].calls \in Nat
  <2>1. \A v \in Writers : fw[v] \in WriterType BY Types DEF Base
  <2> QED BY <2>1, FileConstants DEF WriterType
<1>5. \A v \in Writers : fw[v].calls = 0 \/ v \in S BY <1>4
<1>6. CASE S = {}
  <2>1. PICK w \in Writers : TRUE BY FileConstants
  <2> QED BY <1>5, <1>6, <2>1 DEF Sole
<1>7. CASE \E x : S = {x}
  <2>1. PICK x : S = {x} BY <1>7
  <2>2. x \in Writers BY <2>1
  <2>3. \A v \in Writers : v \in S => v = x BY <2>1
  <2>4. Sole(x) BY <1>5, <2>3 DEF Sole
  <2>5. \A v \in Writers : fw[v].calls > 0 => v = x BY <2>3
  <2> QED BY <2>2, <2>4, <2>5
<1> QED BY <1>3, <1>6, <1>7

\* A step of a writer on its own
LEMMA ActsAlone ==
  ASSUME Base, UNCHANGED config, NEW w \in Writers, SoleOK(w), Acts(w)
  PROVE  SoleOK(w)'
<1>a. /\ name \in [{"path", "tmp"} -> 0 .. Len(inodes)] /\ Atomic \in BOOLEAN
      /\ inodes \in Seq(Inode)
  BY Types DEF Base
<1>b. /\ name["path"] \in 1 .. Len(inodes) /\ name["tmp"] # name["path"]
      /\ ~Atomic => name["tmp"] = 0
  BY <1>a DEF Base
<1>c. Len(inodes) \in Nat BY <1>a
<1>d. Target = (IF Atomic THEN "tmp" ELSE "path") /\ Target' = Target /\ Atomic' = Atomic
  BY DEF Target, config
<1>e. fw[w].pc \in Opened => fw[w].fd \in 1 .. Len(inodes) BY DEF Base
<1>1. CASE Called(w)
  BY <1>1, <1>a, <1>b, <1>c, <1>d, <1>e DEF SoleOK, AtomicReplace, Finished, Opened, Called
<1>2. CASE OpenedOld(w)
  BY <1>2, <1>a, <1>b, <1>c, <1>d, <1>e DEF SoleOK, AtomicReplace, Finished, Opened, OpenedOld, Moves, Holds, Kept
<1>3. CASE OpenedNew(w)
  <2>1. Target = "tmp" /\ Atomic BY <1>3, <1>b, <1>d DEF OpenedNew
  <2>2. name'["tmp"] = Len(inodes) + 1 /\ name'["path"] = name["path"] BY <1>3, <1>a, <2>1 DEF OpenedNew
  <2>3. fw'[w].pc = "local" /\ fw'[w].fd = Len(inodes) + 1 BY <1>3 DEF OpenedNew, Moves
  <2>4. inodes'[name["path"]] = inodes[name["path"]] BY <1>3, <1>b DEF OpenedNew
  <2> QED BY <1>d, <2>1, <2>2, <2>3, <2>4 DEF SoleOK, AtomicReplace, Opened
<1>4. CASE Waits(w)
  BY <1>4, <1>a, <1>b, <1>c, <1>d, <1>e DEF SoleOK, AtomicReplace, Finished, Opened, Waits, Moves
<1>5. CASE NameLocked(w)
  BY <1>5, <1>a, <1>b, <1>c, <1>d, <1>e DEF SoleOK, AtomicReplace, Finished, Opened, NameLocked, Moves
<1>6. CASE RecordLocked(w)
  BY <1>6, <1>a, <1>b, <1>c, <1>d, <1>e DEF SoleOK, AtomicReplace, Finished, Opened, RecordLocked, Moves, LockedBy, Kept
<1>7. CASE Truncated(w)
  BY <1>7, <1>a, <1>b, <1>c, <1>d, <1>e DEF SoleOK, AtomicReplace, Finished, Opened, Truncated, Moves, Holds, Kept
<1>8. CASE Synced(w)
  BY <1>8, <1>a, <1>b, <1>c, <1>d, <1>e DEF SoleOK, AtomicReplace, Finished, Opened, Synced, Moves
<1>9. CASE NameUnlocked(w)
  BY <1>9, <1>a, <1>b, <1>c, <1>d, <1>e DEF SoleOK, AtomicReplace, Finished, Opened, NameUnlocked, Moves
<1>10. CASE Renamed(w)
  <2>1. name'["path"] = name["tmp"] /\ inodes' = inodes /\ fw'[w].pc = "ok" BY <1>10 DEF Renamed, Moves
  <2>2. inodes[name["tmp"]].data = w BY <1>10 DEF Renamed, SoleOK
  <2> QED BY <1>d, <2>1, <2>2 DEF SoleOK, AtomicReplace, Opened
<1>11. CASE GivesUp(w)
  BY <1>11, <1>a, <1>b, <1>c, <1>d, <1>e DEF SoleOK, AtomicReplace, Finished, Opened, GivesUp, Moves
<1>12. CASE Fails(w)
  BY <1>12, <1>a, <1>b, <1>c, <1>d, <1>e DEF SoleOK, AtomicReplace, Finished, Opened, Fails, Moves, Holds, Kept
<1>13. CASE \E d : Written(w, d)
  BY <1>13, <1>a, <1>b, <1>c, <1>d, <1>e DEF SoleOK, AtomicReplace, Finished, Opened, Written, Moves, Holds, Kept
<1>14. CASE \E p : RecordUnlocked(w, p)
  BY <1>14, <1>a, <1>b, <1>c, <1>d, <1>e DEF SoleOK, AtomicReplace, Finished, Opened, RecordUnlocked, Moves, LockedBy, Kept
<1>15. CASE \E p : Closed(w, p)
  BY <1>15, <1>a, <1>b, <1>c, <1>d, <1>e DEF SoleOK, AtomicReplace, Finished, Opened, Closed, Moves, LockedBy, Kept
<1> QED BY <1>1, <1>2, <1>3, <1>4, <1>5, <1>6, <1>7, <1>8, <1>9, <1>10, <1>11, <1>12, <1>13, <1>14, <1>15 DEF Acts

\* A step of a writer
LEMMA ActsSole ==
  ASSUME Base, UNCHANGED config, SoleInv, NEW u \in Writers, Acts(u) PROVE SoleInv'
<1> SUFFICES ASSUME NEW w \in Writers, Sole(w)' PROVE SoleOK(w)'
  BY DEF SoleInv
<1>1. /\ \A v \in Writers \ {u} : fw'[v] = fw[v]
      /\ fw'[u].calls = fw[u].calls \/ (fw[u].pc \in Finished /\ fw'[u].calls > 0)
      /\ fw[u].pc = "idle" => fw'[u].calls > 0
  BY DEF Acts, Called, OpenedOld, OpenedNew, Waits, NameLocked, RecordLocked, Truncated, Synced,
         NameUnlocked, Renamed, GivesUp, Fails, Written, RecordUnlocked, Closed, Moves, Opened
<1>2. u = w BY <1>1 DEF Sole, Base
<1>3. Sole(w) BY <1>1, <1>2 DEF Sole
<1> QED BY <1>2, <1>3, ActsAlone DEF SoleInv

\* A crash of a writer on its own
LEMMA CrashSole ==
  ASSUME Base, UNCHANGED config, SoleInv, NEW p \in Processes, Crashed(p) PROVE SoleInv'
<1> SUFFICES ASSUME NEW w \in Writers, Sole(w)' PROVE SoleOK(w)'
  BY DEF SoleInv
<1>1. \A v \in Writers : fw'[v].calls = fw[v].calls /\ (fw'[v] = fw[v] \/ fw'[v].pc = "idle")
  BY DEF Crashed
<1>2. SoleOK(w) BY <1>1 DEF Sole, SoleInv
<1>3. /\ name["path"] \in 1 .. Len(inodes) /\ name["tmp"] \in 0 .. Len(inodes)
      /\ fw[w].pc \in Opened => fw[w].fd \in 1 .. Len(inodes)
  BY Types DEF Base
<1>4. Target' = Target /\ Atomic' = Atomic /\ name' = name BY DEF Target, config, Crashed
<1>5. \A k \in 1 .. Len(inodes) : inodes'[k].data = inodes[k].data BY DEF Crashed
<1>6. AtomicReplace' BY <1>2, <1>3, <1>4, <1>5 DEF SoleOK, AtomicReplace
<1>7. CASE fw'[w].pc = "idle" BY <1>6, <1>7 DEF SoleOK, Opened
<1>8. CASE fw'[w] = fw[w]
  <2>1. /\ fw'[w].pc \in Opened \ {"fail"} => fw'[w].fd = name'[Target']
        /\ fw'[w].pc = "rename" => name'["tmp"] # 0
    BY <1>2, <1>4, <1>8 DEF SoleOK
  <2>2. fw[w].pc \in Opened => inodes'[fw'[w].fd].data = inodes[fw[w].fd].data BY <1>3, <1>5, <1>8
  <2>3. /\ fw'[w].pc = "write" => inodes'[fw'[w].fd].data = Empty
        /\ fw'[w].pc \in {"sync", "unlock", "local_unlock", "close"} => inodes'[fw'[w].fd].data = w
    BY <1>2, <1>8, <2>2 DEF SoleOK, Opened
  <2>4. fw'[w].pc = "rename" => inodes'[name'["tmp"]].data = w
    <3>1. name["tmp"] # 0 => name["tmp"] \in 1 .. Len(inodes) BY <1>3
    <3> QED BY <1>2, <1>4, <1>5, <1>8, <3>1 DEF SoleOK
  <2>5. fw'[w].pc = "ok" => inodes'[name'["path"]].data = w
    BY <1>2, <1>3, <1>4, <1>5, <1>8 DEF SoleOK
  <2> QED BY <1>6, <2>1, <2>3, <2>4, <2>5 DEF SoleOK
<1> QED BY <1>1, <1>7, <1>8

\* A writer on its own keeps SoleOK.
LEMMA SoleAlways ==
  /\ Init => SoleInv
  /\ Base /\ SoleInv /\ [Next]_vars => SoleInv'
<1>1. Init => SoleInv BY DEF Init, SoleInv, SoleOK, AtomicReplace, Opened
<1>2. ASSUME Base, SoleInv, [Next]_vars PROVE SoleInv'
  <2>1. ASSUME UNCHANGED vars PROVE SoleInv'
    BY <1>2, <2>1 DEF SoleInv, Sole, SoleOK, AtomicReplace, Target, vars, config
  <2> QED BY <1>2, <2>1, NextActs, ActsSole, CrashSole
<1> QED BY <1>1, <1>2

-----------------------------------------------------------------------------

\* Once all calls of write_file or atomic_write_file have returned without error
\* the path holds all the data of one, although each call truncates the file
\* before it takes the lock; a writer on its own finds its own data there.
THEOREM AllOkCompleteAlways ==
  ASSUME \A P \in Placements : Unmixed(P)
  PROVE  Spec => []AllOkComplete
<1>1. Base => Unmixed(ProcessOf) BY DEF Base, TypeOK
<1>2. Base /\ LatestInv /\ SoleInv => AllOkComplete
  <2> SUFFICES ASSUME Base, LatestInv, SoleInv PROVE AllOkComplete OBVIOUS
  <2>1. (\A w \in Writers : fw[w].pc = "ok") => inodes[name["path"]].data \in Writers
    BY DEF LatestInv, Latest, Redoes
  <2>2. ASSUME NEW w \in Writers, fw[w].pc = "ok", SoleWriter PROVE inodes[name["path"]].data = w
    <3>1. PICK x \in Writers : Sole(x) /\ \A v \in Writers : fw[v].calls > 0 => v = x
      BY <2>2, SoleOne
    <3>2. fw[w] \in WriterType BY Types DEF Base
    <3>3. fw[w].calls > 0 BY <2>2, <3>2, FileConstants DEF Base, WriterType
    <3>4. Sole(w) BY <3>1, <3>3
    <3> QED BY <2>2, <3>4 DEF SoleInv, SoleOK
  <2> QED BY <2>1, <2>2 DEF AllOkComplete
<1> QED BY <1>1, <1>2, InitBase, NextBase, LocksAlways, LatestAlways, SoleAlways, PTL DEF Spec

\* filesystem.h: with a single writer atomic_write_file leaves at the path, at
\* every moment, the old data or all of its own, whichever system calls fail and
\* wherever its process crashes, over any number of calls.
THEOREM SoleAtomicReplaceAlways == Spec => []SoleAtomicReplace
<1>1. Base /\ SoleInv => SoleAtomicReplace
  BY SoleOne DEF SoleInv, SoleOK, SoleAtomicReplace
<1> QED BY <1>1, InitBase, NextBase, SoleAlways, PTL DEF Spec
=============================================================================
