--------------------------- MODULE PowMinerProcess ---------------------------
(***************************************************************************)
(* The program pow-miner (crypto/util/pow-miner.cpp) from the start of its *)
(* threads to its exit code: miner threads, the thread that prints         *)
(* statistics and main, which joins them.  The mining calls are those of   *)
(* module MinerRun; the message is saved with module FileWrite.            *)
(*                                                                         *)
(* The threads share the global CancellationTokenSource token.  Its method *)
(* cancel() tests, dereferences and resets a shared_ptr without            *)
(* synchronization (tdutils/td/utils/CancellationToken.h), so it is        *)
(* modelled step by step: a dereference of a pointer that another thread   *)
(* has reset ends the program, two overlapping resets release one          *)
(* reference twice.                                                        *)
(***************************************************************************)
EXTENDS Integers, Sequences, FiniteSets

CONSTANTS
  Miners,      \* the miner threads
  Bodies,      \* bodies a mining call may return, all of them proofs
  MaxTries, Fallible, Old, Empty, Partial, Mixed, None

VARIABLES
  make_boc,     \* <miner-addr> and <output-ext-msg-boc> are given
  running, result, cancelled,      \* the mining calls (MinerRun)
  fw, name, inodes, locked_files,  \* the output file (FileWrite)
  mt,           \* miner threads: label, which of the two cancel() calls, and
                \* whether reset() has taken a reference
  stats,        \* the thread running print_stats
  token_,       \* TRUE until the source's shared_ptr is reset
  refs,         \* reference count of the shared cancellation flag
  output,       \* bodies printed by found
  boc_created,
  exit_code     \* None while the program runs

runvars == <<running, result, cancelled>>
filevars == <<fw, name, inodes, locked_files>>
vars == <<make_boc, runvars, filevars, mt, stats, token_, refs, output, boc_created, exit_code>>

IsProof(b) == TRUE

Run == INSTANCE MinerRun WITH Runs <- Miners, Proof <- IsProof
Process == [t \in Miners |-> "pow-miner"]
File == INSTANCE FileWrite WITH Writers <- Miners, Placements <- {Process}, MaxCalls <- 1,
                                ProcessOf <- Process, Atomic <- FALSE

-----------------------------------------------------------------------------

\* References to the flag: token, main's options, and a copy of the options
\* for every thread.
Init ==
  /\ make_boc \in BOOLEAN
  /\ Run!Init /\ File!Init
  /\ mt = [t \in Miners |-> [pc |-> "run", call |-> 1, took |-> FALSE]]
  /\ stats = "loop"
  /\ token_ = TRUE
  /\ refs = Cardinality(Miners) + 3
  /\ output = {} /\ boc_created = FALSE /\ exit_code = None

Goto(t, label) == mt' = [mt EXCEPT ![t].pc = label]

\* The program ends abnormally.
Abort == exit_code' = "aborted"

\* Faulty variant: the token is only cancelled when a proof was found.
RunReturnsNoCancel(t) ==
  /\ mt[t].pc = "run"
  /\ Run!Return(t)
  /\ Goto(t, IF result'[t] # None THEN "check" ELSE "end")
  /\ UNCHANGED <<filevars, stats, token_, refs, output, boc_created, exit_code>>

\* Miner::run returns; the thread goes on to token.cancel().
RunReturns(t) ==
  /\ mt[t].pc = "run"
  /\ Run!Return(t)
  /\ Goto(t, "check")
  /\ UNCHANGED <<filevars, stats, token_, refs, output, boc_created, exit_code>>

\* Where the thread goes on after cancel().
AfterCancel(t) ==
  IF mt[t].call = 2 THEN "created" ELSE IF result[t] # None THEN "found" ELSE "end"

\* cancel(): if (!token_) return;
CancelCheck(t) ==
  /\ mt[t].pc = "check"
  /\ Goto(t, IF token_ THEN "store" ELSE AfterCancel(t))
  /\ UNCHANGED <<runvars, filevars, stats, token_, refs, output, boc_created, exit_code>>

\* cancel(): token_->is_cancelled_.store(true)
CancelStore(t) ==
  /\ mt[t].pc = "store"
  /\ \/ token_ /\ cancelled' = TRUE /\ Goto(t, "reset") /\ UNCHANGED exit_code
     \/ ~token_ /\ Abort /\ UNCHANGED <<cancelled, mt>>
  /\ UNCHANGED <<running, result, filevars, stats, token_, refs, output, boc_created>>

\* cancel(): token_.reset() takes the pointer ...
CancelReset(t) ==
  /\ mt[t].pc = "reset"
  /\ mt' = [mt EXCEPT ![t].pc = "release", ![t].took = token_]
  /\ UNCHANGED <<runvars, filevars, stats, token_, refs, output, boc_created, exit_code>>

\* A reference is released.  Once all are gone this is undefined: the program
\* goes on or ends.
Release(n) ==
  /\ refs' = refs - n
  /\ \/ UNCHANGED exit_code
     \/ n > refs /\ Abort

\* ... and stores the null pointer and releases the reference it has taken.
CancelRelease(t) ==
  /\ mt[t].pc = "release"
  /\ token_' = FALSE
  /\ Release(IF mt[t].took THEN 1 ELSE 0)
  /\ Goto(t, AfterCancel(t))
  /\ UNCHANGED <<runvars, filevars, stats, output, boc_created>>

\* found: the body is printed, then the message is saved or cancel() called.
Found(t) ==
  /\ mt[t].pc = "found"
  /\ output' = output \cup {result[t]}
  /\ \/ make_boc /\ File!Call(t) /\ Goto(t, "file")
     \/ /\ ~make_boc
        /\ mt' = [mt EXCEPT ![t].pc = "check", ![t].call = 2]
        /\ UNCHANGED filevars
  /\ UNCHANGED <<runvars, stats, token_, refs, boc_created, exit_code>>

\* found: a step of write_file.
SaveStep(t) ==
  /\ mt[t].pc = "file"
  /\ File!Step(t) \/ File!SyscallFails(t)
  /\ UNCHANGED <<runvars, mt, stats, token_, refs, output, boc_created, exit_code>>

\* found: write_file(...).ensure() ends the program if write_file has failed.
Saved(t) ==
  /\ mt[t].pc = "file"
  /\ \/ /\ fw[t].pc = "ok"
        /\ mt' = [mt EXCEPT ![t].pc = "check", ![t].call = 2]
        /\ UNCHANGED exit_code
     \/ fw[t].pc = "error" /\ Abort /\ UNCHANGED mt
  /\ UNCHANGED <<runvars, filevars, stats, token_, refs, output, boc_created>>

\* found: boc_created = true
Created(t) ==
  /\ mt[t].pc = "created"
  /\ boc_created' = TRUE
  /\ Goto(t, "end")
  /\ UNCHANGED <<runvars, filevars, stats, token_, refs, output, exit_code>>

\* The thread ends and drops its copy of the options.
End(t) ==
  /\ mt[t].pc = "end"
  /\ Release(1)
  /\ Goto(t, "joined")
  /\ UNCHANGED <<runvars, filevars, stats, token_, output, boc_created>>

\* print_stats leaves its loop when it sees the token cancelled.
Stats ==
  /\ stats = "loop" /\ cancelled
  /\ stats' = "joined"
  /\ Release(1)
  /\ UNCHANGED <<runvars, filevars, mt, token_, output, boc_created>>

\* Faulty variant: main waits for print_stats only.
ExitEarly ==
  /\ stats = "joined"
  /\ \/ ~boc_created /\ exit_code' = "one" /\ UNCHANGED refs
     \/ boc_created /\ refs' = refs - 1 /\ exit_code' = "zero"
  /\ UNCHANGED <<runvars, filevars, mt, stats, token_, output, boc_created>>

\* main has joined all threads.  std::exit(1) leaves main's options alone,
\* the end of main drops them.
Exit ==
  /\ stats = "joined" /\ \A t \in Miners : mt[t].pc = "joined"
  /\ \/ ~boc_created /\ exit_code' = "one" /\ UNCHANGED refs
     \/ /\ boc_created
        /\ refs' = refs - 1
        /\ exit_code' \in {"zero"} \cup (IF refs < 1 THEN {"aborted"} ELSE {})
  /\ UNCHANGED <<runvars, filevars, mt, stats, token_, output, boc_created>>

MinerStep(t) ==
  \/ RunReturns(t) \/ CancelCheck(t) \/ CancelStore(t) \/ CancelReset(t) \/ CancelRelease(t)
  \/ Found(t) \/ SaveStep(t) \/ Saved(t) \/ Created(t) \/ End(t)

ThreadStep(t) == exit_code = None /\ MinerStep(t) /\ UNCHANGED make_boc
MainStep == exit_code = None /\ (Stats \/ Exit) /\ UNCHANGED make_boc

Next == MainStep \/ \E t \in Miners : ThreadStep(t)

\* Threads run, and mining calls return (MinerRun).
Spec == Init /\ [][Next]_vars /\ WF_vars(MainStep) /\ \A t \in Miners : WF_vars(ThreadStep(t))

-----------------------------------------------------------------------------
(* Properties                                                              *)

Labels == {"run", "check", "store", "reset", "release", "found", "file", "created", "end",
           "joined"}

\* The program's variables have their types.
TypeOK ==
  /\ make_boc \in BOOLEAN /\ running \subseteq Miners /\ result \in [Miners -> Bodies \cup {None}]
  /\ cancelled \in BOOLEAN /\ token_ \in BOOLEAN /\ boc_created \in BOOLEAN
  /\ mt \in [Miners -> [pc : Labels, call : {1, 2}, took : BOOLEAN]]
  /\ stats \in {"loop", "joined"} /\ refs \in Int
  /\ output \subseteq Bodies
  /\ exit_code \in {None, "zero", "one", "aborted"}
  /\ File!TypeOK

\* Exit code 0 means that a proof was found and printed and, if asked for, that
\* the file holds one whole message: however many threads have found a proof
\* and have truncated, locked and written the file at the same time.  Exit code 1
\* means that no thread has found a proof, however they race for boc_created.
ExitCodeTells ==
  /\ TypeOK
  /\ exit_code = "zero" =>
       /\ \E t \in Miners : result[t] # None /\ result[t] \in output
       /\ make_boc => \E t \in Miners : result[t] # None /\ inodes[name["path"]].data = t
  /\ exit_code = "one" => \A t \in Miners : result[t] = None

\* The program terminates, whichever thread cancels the token first.
Terminates == <>(exit_code # None)
=============================================================================
