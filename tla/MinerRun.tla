------------------------------ MODULE MinerRun ------------------------------
(***************************************************************************)
(* What a call of Miner::run, MinerCuda::run or MinerOpenCL::run promises  *)
(* its caller: it returns once, it returns a body only if that body is a   *)
(* proof of work, and it does return.  pow-miner and tonlib-cli rely on    *)
(* nothing else.                                                           *)
(***************************************************************************)
CONSTANTS
  Runs,       \* the concurrent calls
  Bodies,     \* message bodies a call may return
  Proof(_),   \* the giver's conditions on a body's rdata, seed and hash
  None        \* the empty optional

VARIABLES
  running,    \* calls that have not returned
  result,     \* what the calls have returned
  cancelled   \* the cancellation token the calls share

vars == <<running, result, cancelled>>

Init ==
  /\ running = Runs
  /\ result = [r \in Runs |-> None]
  /\ cancelled = FALSE

Return(r) ==
  /\ r \in running
  /\ running' = running \ {r}
  /\ \E b \in {x \in Bodies : Proof(x)} \cup {None} :
       result' = [result EXCEPT ![r] = b]
  /\ UNCHANGED cancelled

Cancel ==
  /\ cancelled' = TRUE
  /\ UNCHANGED <<running, result>>

Next == Cancel \/ \E r \in Runs : Return(r)

Spec == Init /\ [][Next]_vars /\ \A r \in Runs : WF_vars(Return(r))
=============================================================================
