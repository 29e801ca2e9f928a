----------------------------- MODULE MCGpuMiner -----------------------------
(* Two virtual CPUs, two launches of two nonces on each, eight values of   *)
(* the nonce counter so that it wraps within a run.                        *)
EXTENDS GpuMiner

MCDevices == [backend : {"cuda", "opencl"}, overclocked : BOOLEAN]

\* One start without any proof in reach; one with proofs on different virtual
\* CPUs and nonces of the second launch; one with a single proof past the wrap.
MCStarts == {[v \in Vcpus |-> s[v + 1]] : s \in {<<2, 1>>, <<7, 2>>, <<6, 6>>}}

\* Hashes 0 .. 6 over the bodies; those below Complexity are proofs.
MCHash(b) == (b.rdata * 3 + b.vcpu * 2 + b.expire + 3) % 7
=============================================================================
