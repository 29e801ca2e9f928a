-------------------------- MODULE MCPowMinerProcess --------------------------
(* One miner thread (GPU builds, -w1) or two (-w2).                        *)
EXTENDS PowMinerProcess
=============================================================================
