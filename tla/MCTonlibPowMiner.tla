-------------------------- MODULE MCTonlibPowMiner --------------------------
(* A fixed giver with two workers and failing queries; two givers with a   *)
(* strategy and one worker, as in GPU builds.                              *)
EXTENDS TonlibPowMiner

CONSTANTS g1, g2, w1, w2

Setup(strategy, givers, workers, complexities, changes, errors) ==
  [strategy |-> strategy, givers |-> givers, workers |-> workers,
   complexities |-> complexities, changes |-> changes, errors |-> errors]

MCSetups ==
  {Setup("", {g1}, {w1, w2}, {1, 2}, 2, TRUE),
   Setup("auto", {g1, g2}, {w1}, {1, 2}, 0, FALSE),
   Setup("random", {g1, g2}, {w1}, {1}, 1, FALSE)}

MCAuto == {Setup("auto", {g1, g2}, {w1}, {1, 2}, 1, FALSE)}
=============================================================================
