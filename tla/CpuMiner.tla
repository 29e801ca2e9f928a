------------------------------ MODULE CpuMiner ------------------------------
(***************************************************************************)
(* The CPU mining loop, Miner::run (crypto/util/Miner.cpp), run by several *)
(* threads that share a cancellation token and a hash counter.             *)
(*                                                                         *)
(* The loop hashes the 123-byte message H.  The SHA-256 state after its    *)
(* head (everything up to byte guard_pos of rdata1, expire included) is    *)
(* kept in shactx1 and reused until that byte changes or 2^20 iterations   *)
(* have passed; only the tail (the rest of rdata1, seed, rdata2) is hashed *)
(* every time.  A context is modelled by the bytes it has absorbed.  The   *)
(* parts of H that never change (op, flags, address, seed) are left out.   *)
(***************************************************************************)
EXTENDS Integers, Sequences, FiniteSets, Functions

CONSTANTS
  Threads,
  Base,           \* 256, the values of a byte
  RdataLen,       \* 32, bytes of rdata1 and of rdata2
  GuardPos,       \* 29, bytes of rdata1 in the head (guard_pos + 1)
  CheckPeriod,    \* 2^20, iterations between two checks
  MaxIterations,  \* options.max_iterations
  Starts,         \* the random values of rdata1 a run may start from
  Hash(_),        \* SHA-256 of the message with a given body
  Complexity,     \* options.complexity
  Deadline,       \* options.expire_at
  ExpireIn,       \* 900, lifetime of a proof
  MaxTime,        \* bound of the clock
  None

Bytes == 0 .. Base - 1
Rdatas == [1 .. RdataLen -> Bytes]
Bodies == [expire : 0 .. MaxTime + ExpireIn, rdata1 : Rdatas, rdata2 : Rdatas]

\* The constants have the sizes of the code's fields and the guard byte is
\* neither missing from rdata1 nor its last byte.
FieldSizes ==
  /\ Base \in Nat /\ Base > 1 /\ RdataLen \in Nat /\ GuardPos \in 1 .. RdataLen - 1
  /\ CheckPeriod \in Nat \ {0} /\ MaxIterations \in Nat
  /\ Starts \subseteq Rdatas /\ Complexity \in Nat
  /\ Deadline \in Nat /\ ExpireIn \in Nat /\ MaxTime \in Nat
  /\ None \notin Bodies

ASSUME MinerConstants == FieldSizes

VARIABLES
  th,               \* the local variables of each thread's run
  result,           \* what each run has returned
  cancelled,        \* options.token_
  hashes_computed,  \* the shared counter
  clock

vars == <<th, result, cancelled, hashes_computed, clock>>

head(rdata) == SubSeq(rdata, 1, GuardPos)
tail(rdata) == SubSeq(rdata, GuardPos + 1, RdataLen)

body(t) == [expire |-> th[t].expire, rdata1 |-> th[t].rdata1, rdata2 |-> th[t].rdata2]

\* SHA256_Final of a copy of shactx1 that has absorbed the tail.
digest(t) == Hash([expire |-> th[t].shactx1.expire,
                   rdata1 |-> th[t].shactx1.head \o tail(th[t].rdata1),
                   rdata2 |-> th[t].rdata2])

IsProof(b) == Hash(b) < Complexity /\ b.rdata1 = b.rdata2

-----------------------------------------------------------------------------

Init ==
  /\ \E start \in [Threads -> Starts] :
       th = [t \in Threads |->
              [pc |-> "top", i |-> 0, i0 |-> 0, expire |-> 0,
               rdata1 |-> start[t], rdata2 |-> start[t],
               guard |-> start[t][GuardPos], shactx1 |-> None, late |-> 0]]
  /\ result = [t \in Threads |-> None]
  /\ cancelled = FALSE
  /\ hashes_computed = 0
  /\ clock = 0

\* Faulty variant: only the number of iterations is looked at.
CheckDuePeriodic(t) == th[t].i % CheckPeriod = 0

\* Faulty variant: after the first iteration only the guard is looked at.
CheckDueGuard(t) == th[t].i = 0 \/ th[t].rdata1[GuardPos] # th[t].guard

\* The condition for the periodic part of the loop body.
CheckDue(t) ==
  \/ th[t].i % CheckPeriod = 0
  \/ th[t].rdata1[GuardPos] # th[t].guard

Return(t, r) ==
  /\ th' = [th EXCEPT ![t].pc = "done"]
  /\ result' = [result EXCEPT ![t] = r]
  /\ hashes_computed' = hashes_computed + (th[t].i - th[t].i0)
  /\ UNCHANGED <<cancelled, clock>>

\* Faulty variant: a cancelled token does not leave the loop.
StopIgnoresToken(t) ==
  /\ th[t].pc = "top"
  /\ th[t].i >= MaxIterations
  /\ Return(t, None)

\* The loop ends: the iterations are used up, or the token is cancelled.
Stop(t) ==
  /\ th[t].pc = "top"
  /\ \/ th[t].i >= MaxIterations
     \/ CheckDue(t) /\ cancelled
  /\ Return(t, None)

\* Faulty variant: i0 is not moved up.
CheckKeepsI0(t) ==
  /\ th[t].pc = "top"
  /\ th[t].i < MaxIterations
  /\ CheckDue(t) /\ ~cancelled
  /\ hashes_computed' = hashes_computed + (th[t].i - th[t].i0)
  /\ th' = [th EXCEPT ![t].pc = "hash", ![t].expire = clock + ExpireIn,
                      ![t].guard = th[t].rdata1[GuardPos],
                      ![t].shactx1 = [expire |-> clock + ExpireIn,
                                      head |-> head(th[t].rdata1)]]
  /\ UNCHANGED <<result, cancelled, clock>>

\* The periodic part: the counter is brought up to date, the deadline is
\* checked, expire is renewed and the head is absorbed anew.
Check(t) ==
  /\ th[t].pc = "top"
  /\ th[t].i < MaxIterations
  /\ CheckDue(t) /\ ~cancelled
  /\ hashes_computed' = hashes_computed + (th[t].i - th[t].i0)
  /\ \/ /\ Deadline <= clock
        /\ th' = [th EXCEPT ![t].pc = "done", ![t].i0 = th[t].i]
     \/ /\ clock < Deadline
        /\ th' = [th EXCEPT ![t].pc = "hash", ![t].i0 = th[t].i,
                            ![t].expire = clock + ExpireIn,
                            ![t].guard = th[t].rdata1[GuardPos],
                            ![t].shactx1 = [expire |-> clock + ExpireIn,
                                            head |-> head(th[t].rdata1)]]
  /\ UNCHANGED <<result, cancelled, clock>>

\* HData::inc: the last byte of rdata2 that is not 255 is incremented, the
\* bytes after it become 0, and every byte touched is copied to rdata1.
inc(rdata, rdata2) ==
  LET p == CHOOSE j \in 1 .. RdataLen :
             rdata2[j] # Base - 1 /\ \A k \in j + 1 .. RdataLen : rdata2[k] = Base - 1
  IN  [j \in 1 .. RdataLen |-> IF j > p THEN 0
                               ELSE IF j = p THEN rdata2[p] + 1 ELSE rdata[j]]

\* The carry of inc stays within rdata.  The code does not check this: the
\* 32 bytes start from random values and never come near their maximum.
CarryFits(t) == \E j \in 1 .. RdataLen : th[t].rdata2[j] # Base - 1

\* One hash, and the end of the iteration.
HashOnce(t) ==
  /\ \/ th[t].pc = "hash"
     \/ th[t].pc = "top" /\ th[t].i < MaxIterations /\ ~CheckDue(t)
  /\ \/ digest(t) < Complexity /\ Return(t, body(t))
     \/ /\ digest(t) >= Complexity
        /\ CarryFits(t)
        /\ th' = [th EXCEPT ![t].pc = "top", ![t].i = @ + 1,
                            ![t].rdata1 = inc(th[t].rdata1, th[t].rdata2),
                            ![t].rdata2 = inc(th[t].rdata2, th[t].rdata2),
                            ![t].late = IF cancelled THEN @ + 1 ELSE @]
        /\ UNCHANGED <<result, cancelled, hashes_computed, clock>>

\* The owner of the token cancels it.
Cancel ==
  /\ ~cancelled
  /\ cancelled' = TRUE
  /\ UNCHANGED <<th, result, hashes_computed, clock>>

Tick ==
  /\ clock < MaxTime
  /\ clock' = clock + 1
  /\ UNCHANGED <<th, result, cancelled, hashes_computed>>

Step(t) == Stop(t) \/ Check(t) \/ HashOnce(t)

Next == Cancel \/ Tick \/ \E t \in Threads : Step(t)

\* A thread that can run does run.
Spec == Init /\ [][Next]_vars /\ \A t \in Threads : WF_vars(Step(t))

-----------------------------------------------------------------------------
(* Properties                                                              *)

ThreadState ==
  [pc : {"top", "hash", "done"}, i : 0 .. MaxIterations, i0 : 0 .. MaxIterations,
   expire : 0 .. MaxTime + ExpireIn, rdata1 : Rdatas, rdata2 : Rdatas, guard : Bytes,
   shactx1 : {None} \cup [expire : 0 .. MaxTime + ExpireIn, head : [1 .. GuardPos -> Bytes]],
   late : 0 .. MaxIterations]

\* The local variables have their types and a run returns a body or nothing.
TypeOK ==
  /\ th \in [Threads -> ThreadState]
  /\ result \in [Threads -> Bodies \cup {None}]
  /\ cancelled \in BOOLEAN
  /\ hashes_computed \in 0 .. Cardinality(Threads) * MaxIterations
  /\ clock \in 0 .. MaxTime

\* What a run returns is a proof of work of the message as it is returned: the
\* reused context shactx1 was never stale when its digest was compared, across
\* carries into the head and renewals of expire.
FoundIsProof == \A t \in Threads : result[t] # None => IsProof(result[t])

\* The shared counter is exactly the number of unsuccessful hashes that the
\* threads have reported, and all of them once a thread has returned; the
\* variables keep their types.
HashesAccounted ==
  TypeOK /\ hashes_computed = SumFunction(
    [t \in Threads |-> IF th[t].pc = "done" THEN th[t].i ELSE th[t].i0])

\* After the token is cancelled a thread computes at most one more check
\* period of hashes, however the guard byte and the period fall.
StopsSoon == \A t \in Threads : th[t].late <= CheckPeriod

\* The loop keeps the promise of a mining call.
Abstract ==
  INSTANCE MinerRun WITH Runs <- Threads, Proof <- IsProof,
                         running <- {t \in Threads : th[t].pc # "done"}
ImplementsMinerRun == Abstract!Spec
=============================================================================
