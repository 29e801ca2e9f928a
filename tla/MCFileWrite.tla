----------------------------- MODULE MCFileWrite -----------------------------
(* Two writers: two threads of one process, or two processes.              *)
EXTENDS FileWrite

CONSTANTS w1, w2, p1, p2

TwoThreads == [w \in {w1, w2} |-> p1]
TwoProcesses == [w \in {w1, w2} |-> IF w = w1 THEN p1 ELSE p2]
MCPlacements == {TwoThreads, TwoProcesses}
=============================================================================
