------------------------------ MODULE GpuMiner ------------------------------
(***************************************************************************)
(* The GPU mining loop: MinerCuda::run with scanhash_credits and the CUDA  *)
(* kernel (cuda/credits.cu, cuda/sha256.cpp, cuda/cuda_credits.cu), and    *)
(* MinerOpenCL::run with opencl/sha256.cpp, opencl/opencl.cpp and the      *)
(* kernel of cruncher.h.  The host launches a kernel per chunk of nonces;  *)
(* the work items of a launch run in any order and race for the one result *)
(* record; the host verifies what it reads back (build_mine_result).       *)
(*                                                                         *)
(* A body is identified by its expire, by the virtual CPU whose random     *)
(* bytes it starts from and by the last eight bytes of rdata1 (= rdata2);  *)
(* how the kernel lays these out in SHA-256 words is left out.             *)
(***************************************************************************)
EXTENDS Integers, FiniteSets

CONSTANTS
  Devices,         \* [backend : "cuda" or "opencl", overclocked : BOOLEAN]
  GpuThreads,      \* 16, options.gpu_threads: number of virtual CPUs
  BlockSize,       \* 512, threads_per_block of the CUDA launch
  FullThroughput,  \* 2^19 * options.factor
  MaxIterations,   \* options.max_iterations
  NonceMod,        \* 2^64
  Starts,          \* the random last eight bytes of the virtual CPUs' rdata
  Hash(_),         \* SHA-256 of the message with a given body
  Complexity,      \* options.complexity
  Expire,          \* options.expire_base, fixed for the whole run
  Deadline,        \* options.expire_at
  MaxTime,         \* bound of the clock
  None

Vcpus == 0 .. GpuThreads - 1
Bodies == [expire : {Expire}, vcpu : Vcpus, rdata : 0 .. NonceMod - 1]

ASSUME GpuConstants ==
  /\ Devices \subseteq [backend : {"cuda", "opencl"}, overclocked : BOOLEAN]
  /\ GpuThreads \in Nat \ {0} /\ BlockSize \in Nat \ {0}
  /\ FullThroughput \in Nat \ {0} /\ FullThroughput % (GpuThreads * BlockSize) = 0
  /\ MaxIterations \in Nat /\ NonceMod \in Nat \ {0} /\ Complexity \in Nat
  /\ Starts \subseteq [Vcpus -> 0 .. NonceMod - 1]
  /\ Deadline \in Nat /\ MaxTime \in Nat
  /\ None \notin Bodies /\ None \notin Nat /\ None \notin Vcpus \X Nat

VARIABLES
  device,           \* the device of the build; overclocked: it may compute wrong hashes
  rdata,            \* the last eight bytes of each virtual CPU's random data
  pc,               \* host: "loop", "kernel", "done", "aborted"
  i,                \* nonces launched so far, over all virtual CPUs
  items,            \* work items of the launch that have not finished
  dev,              \* DevHashResult [found, nonce, vcpu] in device memory
  winner,           \* the work item between its two stores to dev
  hashes_computed,
  cancelled,        \* options.token_
  clock,
  result,           \* what the run has returned
  tried,            \* history: work items that computed their hash
  rejected,         \* history: build_mine_result refused a candidate
  failed            \* history: a device call failed

vars == <<device, rdata, pc, i, items, dev, winner, hashes_computed, cancelled, clock, result,
          tried, rejected, failed>>

throughput == IF MaxIterations < FullThroughput THEN MaxIterations ELSE FullThroughput

\* Faulty variant: every virtual CPU scans the whole throughput.
LaunchSizePerVcpu == throughput

\* Nonces per virtual CPU in a launch: the CUDA grid is rounded up to whole
\* blocks, the OpenCL range is rounded down.
LaunchSize ==
  IF device.backend = "cuda"
  THEN BlockSize * ((throughput + BlockSize * GpuThreads - 1) \div (BlockSize * GpuThreads))
  ELSE throughput \div GpuThreads

NoResult == [found |-> 0, nonce |-> None, vcpu |-> None]

IsProof(b) == Hash(b) < Complexity

\* The body the kernel hashes for a nonce: 64-bit addition to the last bytes.
kernel_body(vcpu, nonce) ==
  [expire |-> Expire, vcpu |-> vcpu, rdata |-> (rdata[vcpu] + nonce) % NonceMod]

\* The body build_mine_result rebuilds from the nonce it reads back.
host_body(vcpu, nonce) ==
  [expire |-> Expire, vcpu |-> vcpu, rdata |-> (rdata[vcpu] + nonce) % NonceMod]

-----------------------------------------------------------------------------

Init ==
  /\ pc = "loop" /\ i = 0 /\ items = {} /\ dev = NoResult /\ winner = None
  /\ hashes_computed = 0 /\ cancelled = FALSE /\ clock = 0 /\ result = None
  /\ tried = {} /\ rejected = FALSE /\ failed = FALSE
  /\ device \in Devices /\ rdata \in Starts

\* Faulty variant: the start of the range is not divided by the virtual CPUs.
LaunchUndivided ==
  /\ pc = "loop" /\ i < MaxIterations
  /\ pc' = "kernel"
  /\ dev' = NoResult
  /\ items' = Vcpus \X (i .. i + LaunchSize - 1)
  /\ UNCHANGED <<device, rdata, i, winner, hashes_computed, cancelled, clock,
                 result, tried, rejected, failed>>

\* bitcredit_cpu_hash / scan_hash: the result record is reset and the kernel
\* started on the next range of nonces, the same for every virtual CPU.
Launch ==
  /\ pc = "loop" /\ i < MaxIterations
  /\ pc' = "kernel"
  /\ dev' = NoResult
  /\ LET start == i \div GpuThreads
     IN  items' = Vcpus \X (start .. start + LaunchSize - 1)
  /\ UNCHANGED <<device, rdata, i, winner, hashes_computed, cancelled, clock,
                 result, tried, rejected, failed>>

\* Faulty variant: every work item that hits writes the result.
WorkItemAlwaysWrites(vcpu, nonce) ==
  /\ pc = "kernel" /\ <<vcpu, nonce>> \in items
  /\ \/ ~IsProof(kernel_body(vcpu, nonce)) /\ UNCHANGED <<dev, winner>>
     \/ /\ IsProof(kernel_body(vcpu, nonce))
        /\ winner' = IF winner = None THEN <<vcpu, nonce>> ELSE winner
        /\ dev' = [dev EXCEPT !.found = @ + 1, !.nonce = nonce]
  /\ items' = items \ {<<vcpu, nonce>>}
  /\ tried' = tried \cup {<<vcpu, nonce>>}
  /\ UNCHANGED <<device, rdata, pc, i, hashes_computed, cancelled, clock,
                 result, rejected, failed>>

\* One work item of the kernel: the first one to hit (atomicAdd returns 0)
\* owns the result record and stores its nonce there.  An overclocked device
\* may take any hash for a hit or miss one.
WorkItem(vcpu, nonce) ==
  /\ pc = "kernel" /\ <<vcpu, nonce>> \in items
  /\ \/ /\ ~IsProof(kernel_body(vcpu, nonce)) \/ device.overclocked
        /\ UNCHANGED <<dev, winner>>
     \/ /\ IsProof(kernel_body(vcpu, nonce)) \/ device.overclocked
        /\ IF dev.found = 0
           THEN /\ winner' = <<vcpu, nonce>>
                /\ dev' = [dev EXCEPT !.found = 1, !.nonce = nonce]
           ELSE /\ UNCHANGED winner
                /\ dev' = [dev EXCEPT !.found = @ + 1]
  /\ items' = items \ {<<vcpu, nonce>>}
  /\ tried' = tried \cup {<<vcpu, nonce>>}
  /\ UNCHANGED <<device, rdata, pc, i, hashes_computed, cancelled, clock,
                 result, rejected, failed>>

\* The second store of the work item that owns the result record.
StoreVcpu ==
  /\ winner # None
  /\ dev' = [dev EXCEPT !.vcpu = winner[1]]
  /\ winner' = None
  /\ UNCHANGED <<device, rdata, pc, i, items, hashes_computed, cancelled, clock,
                 result, tried, rejected, failed>>

\* The end of the loop body after a launch without a verified candidate.
Advance(counted) ==
  /\ i' = i + throughput
  /\ hashes_computed' = hashes_computed + counted + throughput
  /\ pc' = IF cancelled \/ Deadline <= clock THEN "done" ELSE "loop"
  /\ UNCHANGED result

\* A candidate was read back: it is returned if its hash is verified;
\* otherwise CUDA gives up and OpenCL goes on with the next range.
Candidate(vcpu, nonce) ==
  \/ /\ IsProof(host_body(vcpu, nonce))
     /\ pc' = "done" /\ result' = host_body(vcpu, nonce)
     /\ hashes_computed' = hashes_computed + nonce * vcpu
     /\ UNCHANGED <<i, rejected>>
  \/ /\ ~IsProof(host_body(vcpu, nonce))
     /\ rejected' = TRUE
     /\ \/ /\ device.backend = "cuda"
           /\ pc' = "done"
           /\ hashes_computed' = hashes_computed + nonce * vcpu
           /\ UNCHANGED <<i, result>>
        \/ device.backend = "opencl" /\ Advance(nonce * vcpu)

\* The kernel has finished and the host reads the result record.
ReadBack ==
  /\ pc = "kernel" /\ items = {} /\ winner = None
  /\ IF dev.nonce # None /\ dev.vcpu # None
     THEN Candidate(dev.vcpu, dev.nonce)
     ELSE Advance(0) /\ UNCHANGED rejected
  /\ UNCHANGED <<device, rdata, items, dev, winner, cancelled, clock, tried, failed>>

\* A device call fails: CUDA logs it and takes the launch for one without a
\* result, OpenCL aborts (CL_WRAPPER; so does an empty range of nonces).
DeviceError ==
  /\ pc = "kernel"
  /\ items' = {} /\ winner' = None
  /\ \/ device.backend = "cuda" /\ Advance(0)
     \/ device.backend = "opencl" /\ pc' = "aborted" /\ UNCHANGED <<i, hashes_computed, result>>
  /\ UNCHANGED <<device, rdata, dev, cancelled, clock, tried, rejected>>
  /\ failed' = TRUE

\* Faulty variant: the end is only recognised when hit exactly.
ExhaustedExactly ==
  /\ pc = "loop" /\ i = MaxIterations
  /\ pc' = "done"
  /\ UNCHANGED <<device, rdata, i, items, dev, winner, hashes_computed, cancelled, clock,
                 result, tried, rejected, failed>>

\* The iterations are used up.
Exhausted ==
  /\ pc = "loop" /\ i >= MaxIterations
  /\ pc' = "done"
  /\ UNCHANGED <<device, rdata, i, items, dev, winner, hashes_computed, cancelled, clock,
                 result, tried, rejected, failed>>

Cancel ==
  /\ ~cancelled /\ cancelled' = TRUE
  /\ UNCHANGED <<device, rdata, pc, i, items, dev, winner, hashes_computed, clock,
                 result, tried, rejected, failed>>

Tick ==
  /\ clock < MaxTime /\ clock' = clock + 1
  /\ UNCHANGED <<device, rdata, pc, i, items, dev, winner, hashes_computed, cancelled, result,
                 tried, rejected, failed>>

Host == Launch \/ ReadBack \/ Exhausted
Kernel == StoreVcpu \/ \E item \in items : WorkItem(item[1], item[2])

Next == Host \/ Kernel \/ DeviceError \/ Cancel \/ Tick

\* Host and device make progress.
Spec == Init /\ [][Next]_vars /\ WF_vars(Host) /\ WF_vars(Kernel)

-----------------------------------------------------------------------------
(* Properties                                                              *)

\* The host variables, the device record and the histories have their types.
TypeOK ==
  /\ device \in Devices /\ rdata \in Starts
  /\ pc \in {"loop", "kernel", "done", "aborted"}
  /\ i \in 0 .. MaxIterations + FullThroughput
  /\ items \subseteq Vcpus \X Nat /\ tried \subseteq Vcpus \X Nat
  /\ winner \in (Vcpus \X Nat) \cup {None}
  /\ dev.found \in Nat /\ dev.nonce \in Nat \cup {None} /\ dev.vcpu \in Vcpus \cup {None}
  /\ hashes_computed \in Nat
  /\ cancelled \in BOOLEAN /\ rejected \in BOOLEAN /\ failed \in BOOLEAN
  /\ clock \in 0 .. MaxTime
  /\ result \in Bodies \cup {None}

\* Launches neither skip a nonce nor lose a hit: as long as no device call has
\* failed, between two launches and after a run without result every nonce up
\* to i has been hashed on every virtual CPU, and none of them was a proof.
\* usage() of pow-miner promises "at most <iterations> hashes"; the last launch
\* and the rounding of the CUDA grid exceed that by less than one full launch.
NothingMissed ==
  /\ TypeOK /\ Cardinality(tried) < MaxIterations + FullThroughput
  /\ (pc \in {"loop", "done"} /\ result = None /\ ~failed /\ ~device.overclocked) =>
       \A item \in Vcpus \X (0 .. i \div GpuThreads - 1) :
          item \in tried /\ ~IsProof(host_body(item[1], item[2]))

\* "OVERCLOCK DETECTED" is never reported for a device that computes right:
\* the record read back is that of one work item, and the host rebuilds the
\* very body that work item has hashed.
NoFalseOverclock == rejected => device.overclocked

\* A launch never repeats a nonce of an earlier one.
NoNonceTwice == [][pc = "loop" => items' \cap tried = {}]_vars

\* The GPU run keeps the promise of a mining call.  An abort of the program
\* ends the run like a return without result.
Abstract ==
  INSTANCE MinerRun WITH Runs <- {"gpu"}, Proof <- IsProof,
                         running <- {r \in {"gpu"} : pc \in {"loop", "kernel"}},
                         result <- [r \in {"gpu"} |-> result]
ImplementsMinerRun == Abstract!Spec

=============================================================================
