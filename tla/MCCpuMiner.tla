----------------------------- MODULE MCCpuMiner -----------------------------
(* Two threads, rdata of four bits with two of them in the head: a carry   *)
(* into the head every four hashes, a check every three.                   *)
EXTENDS CpuMiner

MCStarts == {<<0, 0, 1, 0>>, <<0, 1, 1, 0>>}

Num(r) == 8 * r[1] + 4 * r[2] + 2 * r[3] + r[4]

\* An arbitrary spread of hashes over 0 .. 28 in which a different expire or
\* a different head gives a different value.
MCHash(b) == (7 * b.expire + 9 * Num(b.rdata1) + 5 * Num(b.rdata2)) % 29
=============================================================================
