--------------------------- MODULE MCActorExecutor --------------------------
(* Two CPU workers and the I/O worker send an actor small and big messages *)
(* and signals.                                                            *)
EXTENDS ActorExecutor, TLC

CONSTANTS w1, w2

Message(t, n) == [from |-> t, no |-> n, big |-> FALSE, signals |-> {}]
Later(t, n) == [Message(t, n) EXCEPT !.big = TRUE]
Signal(t, set) == [from |-> t, no |-> 0, big |-> FALSE, signals |-> set]

\* Two messages of one worker, the first big, and one of the other; messages
\* and a wake-up sent "later"; a message and a kill; a message and an alarm.
MCPlans ==
  {[send |-> w1 :> <<Later(w1, 1), Message(w1, 2)>> @@ w2 :> <<Message(w2, 1)>> @@ io :> <<>>,
    effects |-> {}],
   [send |-> w1 :> <<Message(w1, 1)>> @@ w2 :> <<Signal(w2, {"Wakeup", "Pause"})>>
               @@ io :> <<Message(io, 1)>>,
    effects |-> {"stop"}],
   [send |-> w1 :> <<Message(w1, 1), Message(w1, 2)>> @@ w2 :> <<Signal(w2, {"Kill"})>> @@ io :> <<>>,
    effects |-> {}],
   [send |-> w1 :> <<Message(w1, 1)>> @@ w2 :> <<>> @@ io :> <<>>,
    effects |-> {"yield", "alarm"}]}
=============================================================================
