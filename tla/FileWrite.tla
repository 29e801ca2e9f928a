------------------------------ MODULE FileWrite ------------------------------
(***************************************************************************)
(* td::write_file and td::atomic_write_file (tdutils/td/utils/             *)
(* filesystem.cpp) with FileFd::lock (port/FileFd.cpp), called for one     *)
(* path by writers: threads of one or several processes.                   *)
(*                                                                         *)
(* write_file opens and truncates the file before it takes the lock.  The  *)
(* lock has two halves: locked_files, a set of paths kept by each process, *)
(* and a POSIX record lock on the inode.  A record lock belongs to the     *)
(* process and is dropped when the process closes any descriptor of that   *)
(* file.  A file's data is the writer whose data it holds.                 *)
(***************************************************************************)
EXTENDS Integers, Sequences, FiniteSets

CONSTANTS
  Writers,
  Placements,  \* how writers may be spread over processes: functions on Writers
  MaxTries,    \* 10, attempts to take the lock
  Fallible,    \* TRUE if system calls may fail
  MaxCalls,    \* bound on the calls of a writer
  Old,         \* what the file held at first
  Empty,       \* nothing, after a truncation
  Partial,     \* a part of some data, after a short write
  Mixed,       \* data of two writers, after overlapping writes
  None

ASSUME FileConstants ==
  /\ IsFiniteSet(Writers) /\ Writers # {}
  /\ \A p \in Placements : DOMAIN p = Writers /\ \A w \in Writers : p[w] # None
  /\ Fallible \in BOOLEAN
  /\ MaxTries \in Nat \ {0} /\ MaxCalls \in Nat

VARIABLES
  ProcessOf,     \* the process of each writer
  Atomic,        \* TRUE: the calls are of atomic_write_file; FALSE: of write_file
  fw,            \* per writer: pc, descriptor, attempts left, calls made
  name,          \* the directory: inode of "path" and "tmp", 0 if there is none
  inodes,        \* data and record lock of every inode
  locked_files   \* processes whose locked_files holds the file's name

config == <<ProcessOf, Atomic>>
vars == <<config, fw, name, inodes, locked_files>>

-----------------------------------------------------------------------------

Processes == {ProcessOf[w] : w \in Writers}

Init ==
  /\ ProcessOf \in Placements /\ Atomic \in BOOLEAN
  /\ fw = [w \in Writers |-> [pc |-> "idle", fd |-> 0, tries |-> 0, calls |-> 0]]
  /\ name = [path |-> 1, tmp |-> 0]
  /\ inodes = <<[data |-> Old, lock |-> None]>>
  /\ locked_files = {}

\* Faulty variant: atomic_write_file writes to the file itself.
TargetDirect == "path"

\* The file write_file works on.
Target == IF Atomic THEN "tmp" ELSE "path"

Goto(w, label) == fw' = [fw EXCEPT ![w].pc = label]

\* The record lock of process p on inode n, if it has one, is released.
Released(n, p) == [inodes EXCEPT ![n].lock = IF @ = p THEN None ELSE @]

Call(w) ==
  /\ fw[w].pc \in {"idle", "ok", "error"} /\ fw[w].calls < MaxCalls
  /\ fw' = [fw EXCEPT ![w] = [pc |-> "open", fd |-> 0, tries |-> MaxTries,
                              calls |-> @.calls + 1]]
  /\ UNCHANGED <<name, inodes, locked_files>>

\* open(O_TRUNC | O_CREAT | O_WRONLY)
Open(w) ==
  /\ fw[w].pc = "open"
  /\ LET n == IF name[Target] = 0 THEN Len(inodes) + 1 ELSE name[Target]
     IN  /\ name' = [name EXCEPT ![Target] = n]
         /\ inodes' = IF n > Len(inodes)
                      THEN Append(inodes, [data |-> Empty, lock |-> None])
                      ELSE [inodes EXCEPT ![n].data = Empty]
         /\ fw' = [fw EXCEPT ![w].pc = "local", ![w].fd = n]
  /\ UNCHANGED locked_files

\* The call fails.  FileFd::lock takes the name out of locked_files again, but
\* an error after it leaves it there; in the end the descriptor is closed.
Fail(w) ==
  /\ Goto(w, "fail")
  /\ locked_files' = IF fw[w].pc = "lock" THEN locked_files \ {ProcessOf[w]} ELSE locked_files

\* A busy lock: another attempt later, or the call fails.
Retry(w) ==
  \/ /\ fw[w].tries > 1
     /\ fw' = [fw EXCEPT ![w].tries = @ - 1]
     /\ UNCHANGED <<inodes, locked_files>>
  \/ fw[w].tries <= 1 /\ Fail(w) /\ UNCHANGED inodes

\* create_local_lock
LocalLock(w) ==
  /\ fw[w].pc = "local"
  /\ \/ /\ ProcessOf[w] \notin locked_files
        /\ locked_files' = locked_files \cup {ProcessOf[w]}
        /\ Goto(w, "lock")
        /\ UNCHANGED inodes
     \/ ProcessOf[w] \in locked_files /\ Retry(w)
  /\ UNCHANGED name

\* Faulty variant: the answer of fcntl is not looked at.
FileLockUnchecked(w) ==
  /\ fw[w].pc = "lock"
  /\ inodes' = [inodes EXCEPT ![fw[w].fd].lock = IF @ = None THEN ProcessOf[w] ELSE @]
  /\ Goto(w, "truncate")
  /\ UNCHANGED <<locked_files, name>>

\* fcntl(F_SETLK, F_WRLCK)
FileLock(w) ==
  /\ fw[w].pc = "lock"
  /\ \/ /\ inodes[fw[w].fd].lock \in {None, ProcessOf[w]}
        /\ inodes' = [inodes EXCEPT ![fw[w].fd].lock = ProcessOf[w]]
        /\ Goto(w, "truncate")
        /\ UNCHANGED locked_files
     \/ inodes[fw[w].fd].lock \notin {None, ProcessOf[w]} /\ Retry(w)
  /\ UNCHANGED name

\* Faulty variant: only the open truncates the file.
TruncateOmitted(w) ==
  /\ fw[w].pc = "truncate"
  /\ Goto(w, "write")
  /\ UNCHANGED <<inodes, name, locked_files>>

\* ftruncate() under the lock: the file may have been written to since open.
Truncate(w) ==
  /\ fw[w].pc = "truncate"
  /\ inodes' = [inodes EXCEPT ![fw[w].fd].data = Empty]
  /\ Goto(w, "write")
  /\ UNCHANGED <<name, locked_files>>

\* write() at the start of the file: what is longer in it stays behind.
Write(w) ==
  /\ fw[w].pc = "write"
  /\ \E d \in {w} \cup (IF inodes[fw[w].fd].data = Empty THEN {} ELSE {Mixed}) :
       inodes' = [inodes EXCEPT ![fw[w].fd].data = d]
  /\ Goto(w, "sync")
  /\ UNCHANGED <<name, locked_files>>

\* fsync(): need_sync is the default of WriteFileOptions.
Sync(w) ==
  /\ fw[w].pc = "sync"
  /\ Goto(w, "unlock")
  /\ UNCHANGED <<name, inodes, locked_files>>

\* lock(Unlock): the record lock is released, then the name.
Unlock(w) ==
  /\ fw[w].pc = "unlock"
  /\ inodes' = Released(fw[w].fd, ProcessOf[w])
  /\ Goto(w, "local_unlock")
  /\ UNCHANGED <<name, locked_files>>

LocalUnlock(w) ==
  /\ fw[w].pc = "local_unlock"
  /\ locked_files' = locked_files \ {ProcessOf[w]}
  /\ Goto(w, "close")
  /\ UNCHANGED <<name, inodes>>

\* close(), at the end or by the destructor after an error, drops the record
\* lock of the process, whichever of its threads has taken it.
Close(w) ==
  /\ fw[w].pc \in {"close", "fail"}
  /\ inodes' = Released(fw[w].fd, ProcessOf[w])
  /\ fw' = [fw EXCEPT ![w].fd = 0, ![w].pc = IF @ = "fail" THEN "error"
                                             ELSE IF Atomic THEN "rename" ELSE "ok"]
  /\ UNCHANGED <<name, locked_files>>

\* rename() of the temporary file, the last step of atomic_write_file.
Rename(w) ==
  /\ fw[w].pc = "rename"
  /\ \/ /\ name["tmp"] # 0
        /\ name' = [path |-> name["tmp"], tmp |-> 0]
        /\ Goto(w, "ok")
     \/ name["tmp"] = 0 /\ Goto(w, "error") /\ UNCHANGED name
  /\ UNCHANGED <<inodes, locked_files>>

\* A system call fails.
SyscallFails(w) ==
  /\ Fallible
  /\ \/ /\ fw[w].pc \in {"open", "rename"}
        /\ Goto(w, "error")
        /\ UNCHANGED <<inodes, locked_files>>
     \/ fw[w].pc \in {"lock", "truncate", "sync"} /\ Fail(w) /\ UNCHANGED inodes
     \/ /\ fw[w].pc = "write"
        /\ Fail(w)
        /\ inodes' = [inodes EXCEPT ![fw[w].fd].data = Partial]
  /\ UNCHANGED name

\* A process dies and is started again.
Crash(p) ==
  /\ Fallible
  /\ \E w \in Writers : ProcessOf[w] = p /\ fw[w].pc \notin {"idle", "ok", "error"}
  /\ fw' = [w \in Writers |-> IF ProcessOf[w] = p
                              THEN [fw[w] EXCEPT !.pc = "idle", !.fd = 0] ELSE fw[w]]
  /\ inodes' = [n \in DOMAIN inodes |-> [inodes[n] EXCEPT !.lock = IF @ = p THEN None ELSE @]]
  /\ locked_files' = locked_files \ {p}
  /\ UNCHANGED name

\* The steps of a call.
Step(w) ==
  \/ Open(w) \/ LocalLock(w) \/ FileLock(w) \/ Truncate(w) \/ Write(w) \/ Sync(w)
  \/ Unlock(w) \/ LocalUnlock(w) \/ Close(w) \/ Rename(w)

Next ==
  /\ \/ \E w \in Writers : Call(w) \/ Step(w) \/ SyscallFails(w)
     \/ \E p \in Processes : Crash(p)
  /\ UNCHANGED config

Spec == Init /\ [][Next]_vars

-----------------------------------------------------------------------------
(* Properties                                                              *)

Data == Writers \cup {Old, Empty, Partial, Mixed}
Finished == {"idle", "ok", "error"}

\* Writers, directory, inodes and locks have their types.
TypeOK ==
  /\ ProcessOf \in Placements /\ Atomic \in BOOLEAN
  /\ fw \in [Writers -> [pc : Finished \cup {"open", "local", "lock", "truncate", "write",
                                             "sync", "unlock", "local_unlock", "close", "fail", "rename"},
                         fd : Nat, tries : 0 .. MaxTries, calls : 0 .. MaxCalls]]
  /\ name \in [{"path", "tmp"} -> 0 .. Len(inodes)]
  /\ inodes \in Seq([data : Data, lock : Processes \cup {None}])
  /\ locked_files \subseteq Processes

\* Between lock and unlock a writer has the file to itself, and all variables
\* keep their types.
LockExclusive ==
  TypeOK /\
  \A v, w \in Writers :
    (/\ v # w /\ fw[v].fd = fw[w].fd
     /\ {fw[v].pc, fw[w].pc} \subseteq {"truncate", "write", "sync", "unlock"}) => FALSE

\* Only one writer has made calls so far.
SoleWriter == Cardinality({w \in Writers : fw[w].calls > 0}) <= 1

\* Although each call truncates the file before it takes the lock, once all
\* calls have returned without error the file holds all the data of one; with
\* no other writer a call that has returned without error has stored its own.
AllOkComplete ==
  /\ (\A w \in Writers : fw[w].pc = "ok") => inodes[name["path"]].data \in Writers
  /\ \A w \in Writers : (fw[w].pc = "ok" /\ SoleWriter) => inodes[name["path"]].data = w

\* filesystem.h of atomic_write_file: the file is "either fully overriden with
\* new data, or left intact", at every moment, whatever fails or crashes.
AtomicReplace == Atomic => inodes[name["path"]].data \in Writers \cup {Old}

\* With a single writer atomic_write_file keeps that promise, whichever system
\* calls fail and wherever the process crashes, over several calls.
SoleAtomicReplace == SoleWriter => AtomicReplace

=============================================================================
