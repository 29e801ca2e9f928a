# TLA+ verification of the proof-of-work miner and of the node code below it

This directory holds TLA+ models of parts of the repository, the TLC
configurations that check them on small instances, and TLAPS proofs of their main
properties for every value of the constants. `PROJECT.json` lists the components,
runs, mutants, hazards, findings and theorems, and maps every definition to the
source lines it translates.

## 1. Inventory

The repository is a fork of the TON node and its libraries with a miner for the
proof-of-work givers added on top. The parts that are modelled, and how they
interact:

| Part | Source | Role |
|---|---|---|
| Giver contract | `crypto/smartcont/pow-testgiver-code.fc`, `new-pow-testgiver.fif` | keeps seed and complexity on chain, accepts proofs, pays, rescales itself |
| Mining call | `crypto/util/Miner.cpp`, `Miner.h` | searches a message body whose SHA-256 is below the complexity (CPU); verifies GPU candidates |
| GPU mining | `crypto/util/cuda/*`, `crypto/util/opencl/*`, `crypto/util/cruncher.h` | the same search by kernel launches |
| Cancellation | `tdutils/td/utils/CancellationToken.h` | tells mining calls to stop |
| File writing | `tdutils/td/utils/filesystem.cpp`, `port/FileFd.cpp` | saves the message found, and the statistics |
| `pow-miner` | `crypto/util/pow-miner.cpp` | one search: threads, output, exit code |
| `pminer` of tonlib-cli | `tonlib/tonlib/tonlib-cli.cpp` (class `PowMiner`) | continuous mining: follows a giver, or selects one, restarts the workers, sends solutions |
| Actor runtime | `tdactor/td/actor/core/*`, `tdutils/td/utils/StealingQueue.h`, `MpmcWaiter.h` | runs the handlers of all actors: one at a time per actor, on threads that look for work and sleep |
| RLDP | `rldp/*`, `adnl/adnl-query.*` | messages and queries of any size over lossy packets |
| Validator session | `validator-session/*` | one round after the other, the validators agree on a block |

The miner actor, RLDP and the validator session are actors: they rely on what
`ActorExecutor` and `CpuScheduler` show of the runtime, and their modules take a
handler as one step for that reason.

The remaining parts of the repository (other network protocols, catchain,
validator, TVM, compilers, databases, storage, client library and front ends) are
named in `PROJECT.json`, each with its main files and the reason it is not, or
not yet, modelled.

## 2. Modules

| Module | Models | State | Actions |
|---|---|---|---|
| `PowGiver` | the giver contract | the contract's data cell, block time, histories | `Mine`, `Rescale`, `Owner`, `Tick` |
| `MinerRun` | what a mining call promises | calls under way, results, token | `Return`, `Cancel` |
| `CpuMiner` | `Miner::run` by several threads | locals of each thread, counter, token, clock | `Stop`, `Check`, `HashOnce`, `Cancel`, `Tick` |
| `GpuMiner` | the CUDA and OpenCL runs | host loop, work items, result record on the device | `Launch`, `WorkItem`, `StoreVcpu`, `ReadBack`, `Exhausted`, `DeviceError`, ... |
| `FileWrite` | `write_file`, `atomic_write_file` | descriptors, directory, inodes with record locks, `locked_files` | one per system call, `SyscallFails`, `Crash` |
| `PowMinerProcess` | the program `pow-miner`; composes `MinerRun` and `FileWrite` | threads, shared token with its reference count, output, exit code | one per step of `miner`, `found`, `cancel`, `print_stats`, `main` |
| `TonlibPowMiner` | the actor `PowMiner` | the actor's members, queries and answers under way, givers' values | one per handler; `loop()` is the operator `Loop` that ends them |
| `ActorExecutor` | one actor and all threads that run it: `ActorLocker`, `ActorState`, `ActorExecutor`, `ActorMailbox`, the alarms of `IoWorker` | the atomic word, mailbox, queues, heap of alarms, one executor per thread | one per access to shared memory, one per handler |
| `CpuScheduler` | `CpuWorker`, `LocalQueue`, `StealingQueue`, `MpmcSleepyWaiter`, `add_to_queue`, `stop` | queues, the packed counters, sleepers, unpark flags, one program counter per thread | one per access to shared memory |
| `Rldp` | `RldpIn`, sender, receiver, `AdnlQuery` | the tables, senders, receivers, promises, packets in flight | one per handler, `Lose` |
| `SessionState` | the functions on `ValidatorSessionState`: operators only | | |
| `ValidatorSession` | validators that make blocks with `process_blocks` | the state of each validator's last block | `ProcessBlocks` |
| `PowGiverProofs`, `MinerProofs`, `FileWriteProofs`, `TonlibPowMinerProofs`, `ActorExecutorProofs`, `ActorMessageProofs`, `CpuSchedulerProofs`, `RldpProofs` | proofs | | |
| `MC...` | values of the constants for TLC | | |

How data are abstracted:

* A message is its fields; SHA-256 is a constant operator `Hash`, so every
  result holds for any hash function. In `CpuMiner` a SHA-256 context is the
  bytes it has absorbed, which is what can become stale.
* `GpuMiner` chooses the kind of device at the start. It identifies a body by its
  virtual CPU and the last eight bytes of rdata; how the kernel lays out the
  message in 32-bit words is left out. Its additions are modulo `NonceMod` (2^64).
* TVM integers are naturals with the bound `IntBound` where an operation may
  exceed it (the division in `rescale_complexity`); `last_success = -1` of a new
  giver is `Uint32Max`, as the code reads it. `muldiv` and `muldivr` are modelled
  with their rounding.
* A transaction that throws changes nothing and is a stuttering step.
* `CancellationTokenSource::cancel` is one step where one actor owns the source,
  and four steps in `PowMinerProcess`, where threads share it unsynchronised. A
  dereference of a pointer reset by another thread ends the program; two
  overlapping resets release one reference twice, after which the program may go
  on or end.
* `locked_files` and the record lock are separate. A record lock belongs to the
  process and is dropped by any `close` of the file, as POSIX has it.
* In `TonlibPowMiner`, `threads_` and `threads_alive_` are kept apart as in the
  code. A failing query is an action of its own with what the code does then:
  `std::exit(3)`, or the abort of `move_as_ok`.
* In `ActorExecutor` and `CpuScheduler` memory is sequentially consistent. What
  the threads send and what handlers do is a plan chosen at the start. The packed
  word and `state_` are records of their fields. A failing exchange reloads the
  word, as the code's loops do.
* In `Rldp` a part is a number and a symbol a pair of part and number. The decoder
  may succeed with `Symbols` different symbols, and does when it has the first
  `Symbols` ones or `Overhead` more. `data` of a receiver is, for each part, the
  set of the parts its symbols came from. Sizes are the classes that the limits
  tell apart. ADNL drops duplicates, so the network is a set of packets.
* In `SessionState` candidates are numbers, signatures are their signers, and a
  state is a record of sets and functions; the code's hash-consed vectors and
  their sorting represent the same sets. Blocks are what they merge: a validator
  may merge the last block of any others, whenever it makes one.

## 3. Runs

| Run | Checks | Result |
|---|---|---|
| `giver` | `OneRewardPerSeed`, `OwnerMessageOnce`, `LastSuccessMonotone`, `RangeKept`, `StandingProof` | hold |
| `cpu` | `FoundIsProof`, `HashesAccounted`, `StopsSoon`, `ImplementsMinerRun` | hold |
| `gpu` | `NothingMissed`, `NoFalseOverclock`, `NoNonceTwice`, `ImplementsMinerRun` | hold |
| `file` | `LockExclusive`, `AllOkComplete`, `SoleAtomicReplace` | hold |
| `pow_miner` | `ExitCodeTells`, `Terminates` | hold |
| `tonlib` | `UncancelledIsCurrent`, `SelectionSeesAll`, `CopyStable`, `CatchesUp`, `StopCompletes` | hold |
| `tonlib_wrong_giver` | `SolutionToItsGiver` | violated: the address is read when the answer arrives |
| `session` | `Agreement`, `ChecksHold`, `MergeIsJoin`, `NothingImplicit`, `PrecommitLocks` | hold |
| `rldp` | `DeliveredIntact`, `KeepsMoving`, `CleansUp` | hold |
| `actors` | `RunsAlone`, `QueuedOnce`, `InOrder`, `NothingLeft`, `EveryMessageRuns` | hold |
| `actor_alarm` | `AlarmNotLost` | violated: the executor writes back an alarm it read before it had the lock |
| `cpu_scheduler` | `NothingLostOrRunTwice`, `CountersAgree`, `WorkWakesSleepers`, `EverythingRuns` | hold |

Each violated property states a line of the repository's documents, comments or
messages, quoted in `PROJECT.json` under `findings`. Every property of the
passing runs has a mutant, a faulty variant of one definition next to the
original in the module, under which TLC finds it violated. The type invariant of
a module is the first conjunct of one of its invariants.

### Deviations without a run of their own

The models contain these too; where a property would fail, it is stated for the
part that holds.

* `pow-miner`: `cancel()` tests, dereferences and resets `token_` without
  synchronisation, and every miner thread calls it. When one thread resets it
  between another's test and dereference, the program is aborted although a proof
  was found (`exit_code = "aborted"`). TestGrams-HOWTO:66 knows only zero, or
  non-zero when no proof was found. `ExitCodeTells` speaks of the codes 0 and 1.
* `atomic_write_file`: two writers of one path share the temporary name. One
  renames the file that the other has just truncated, and the target holds
  partial data until the other is done (`AtomicReplace` fails with two writers;
  `SoleAtomicReplace` is about one).
* `write_file` and `atomic_write_file`: an error return after the lock was taken
  skips the unlock, so the name stays in `locked_files` and later calls in the
  process fail.
* `FileFd::lock`: with several threads in one of several processes exclusion is
  lost. The close of one thread drops the record lock that another thread of its
  process holds, and a writer of another process gets it. `LockExclusive` and
  `AllOkComplete` are about threads of one process or processes of one thread.
* `MpmcSleepyWaiter`: a comment wants a worker in Search state "if possible" after
  a notify. With three workers, items that a busy worker has stolen behind the last
  searcher's scan lie in its queue while the others sleep. They run, but later;
  `WorkWakesSleepers` asks for a searcher only for the global queue, and for work
  elsewhere that somebody is awake. When the scheduler is being stopped even that
  ends: the awake worker may take an empty message and leave, and what it had
  stolen waits in its queue until the remaining empty messages wake a sleeper.
  The second half therefore speaks of the time before a worker has ended.
* GPU runs: the last launch and the rounded grid compute more than `<iterations>`
  hashes (`NothingMissed` says how many more at most). After a hit
  `hashes_computed` is advanced by `nonce * vcpu`, which is no count of hashes.
* `pminer`: with several workers and a strategy (a CPU build), the second answer
  of a worker starts a round of queries while one is pending. Answers of the older
  round are counted for the next, and a giver is selected before all have
  answered. `SelectionSeesAll` holds with one worker, for any number of rounds. A query that fails while a strategy is
  asking its givers, or that a stopped actor leaves behind, is dereferenced and
  aborts tonlib-cli (status `aborted`).
* Validator session: if a validator's clock goes back to an earlier attempt,
  `create_action` looks at the earlier attempt and `action` at the later one. The
  message changes nothing and is asked for again, so the loop of `process_blocks`
  (line 103) does not end. The model's clocks do not go back.
* RLDP: `receivers_` is never erased. The branch on `lru_set_` (`rldp.cpp:130`)
  is therefore never reached, and when the `complete` of the last part is lost the
  receiver that could repeat it has stopped: the sender goes on to its timeout.
  That is why `KeepsMoving` ends with the data received, not with the sender.
  A receiver sets no alarm, so a transfer that is given up stays. `max_size_` is
  set under `transfer_id ^ ones` (line 72) and erased under `transfer_id` (line
  92), so it only grows. The server compares the answer's data with
  `max_answer_size`, the client the serialised answer: one within a header's size
  of the limit is sent until the timeout and always dropped (size `"header"`).

### Bounds

* `giver`: three seeds (two successes after the first seed, or one and a reset),
  parameters with `target_delta` 1 and 3 so that factors are cut at both ends
  and rounded, `IdleFactor` 2 instead of 16 and times up to 6 so that rescales
  follow successes and each other; `One` = 8, the smallest value for which 7/8
  and 9/8 are exact as in the code. `IntBound` 64 lets the division overflow.
* `cpu`: four binary digits of rdata, two in the head, so a carry reaches the
  guard byte every four hashes; a check period of three, so both conditions of
  line 54 occur alone and together; seven iterations are two periods and more.
* `gpu`: both backends, with and without wrong hashes; two virtual CPUs, two
  nonces each per launch, two launches, the second beyond `max_iterations`, eight
  nonce values so that the counter wraps, two hits in one launch.
* `file`: two writers with two calls each, as threads of one process or as two
  processes, all of them calling `write_file` or all `atomic_write_file`; two
  attempts for the lock, after which a call fails.
* `pow_miner`: two miner threads, enough for every pairwise race in `cancel()`
  and `write_file`; the second thread may find nothing.
* `tonlib`: a fixed giver with two workers, two seed changes and failing queries;
  strategy `auto` over two givers of different complexities with one worker;
  strategy `random` with one worker and a seed change. `MaxRounds` bounds the
  rounds of queries in flight. The strategies have no failing queries: the first
  one aborts the program.
* `session`: three validators of weights 2, 1 and 1, two attempts, one candidate
  and SKIP, slow mode from the second attempt on. A round is checked in three
  phases that overlap, each from a state the code reaches: until a block is voted,
  until one is precommitted over two attempts, until the round is committed. All
  orders of blocks within a phase are explored. `VIEW` leaves out other
  validators' clocks and first attempts, which only their own blocks read.
* `actors`: two CPU workers and the I/O worker, four plans with small and big
  messages, a wake-up with pause, a kill, a stop, a yield and an alarm.
* `cpu_scheduler`: two workers, local queues of two slots, one plan that overflows
  a local queue while another thread adds work, one that stops the scheduler
  while items are queued.
* `rldp`: one call, a message of two parts or a query with one of four answers;
  two symbols per part, `Window` 0 (two symbols unconfirmed, code: 1000), `Burst`
  and `ConfirmEvery` 2 (code: 10), so that the window closes with the second
  symbol, `MaxSeqno` 3 and two packets of a transfer in flight. Exchanges have
  random ids and do not meet, so one call is enough.

CHECK_DEADLOCK is off everywhere: mining calls, programs, actors and schedulers
end, and clocks, plans and histories are bounded.

### Fairness

Weak fairness of each thread's step in `CpuMiner`, `PowMinerProcess`,
`ActorExecutor` and `CpuScheduler` (the system's scheduler runs threads; none of
the loops blocks except on the file lock, whose attempts are counted, and in
`park`, which has no step until the flag is set). In `ActorExecutor` some CPU
worker pops a queued actor, which is what `EverythingRuns` of `CpuScheduler`
shows. Weak fairness of host and kernel in `GpuMiner` (`cudaDeviceSynchronize`
and `clFinish` return), and of the alarm, of the answers of the liteserver and of
each worker in `TonlibPowMiner`. The last is what `MinerRun` promises and the
runs `cpu` and `gpu` check. The liteserver's answers are assumed because tonlib
queries end with an answer or an error. In `Rldp`, weak fairness of alarms and of
the handling of messages that have arrived, as the runtime provides, and strong
fairness of the reception of each kind of packet of a transfer: a network that
loses some packets but not all of a kind that is sent for ever. No fairness is
assumed of the clock, of cancellation, of failures, of losses, of the givers, of
applications, or of validators, whose module has safety properties only.

## 4. Proofs

`PowGiverProofs` proves every property of the run `giver` for all seeds,
parameters, owner messages, hash functions and clock bounds, from the
assumptions `GiverConstants` and `HashIsNat`.

* `TypeCorrect`. `TypeOK` is split in two inductive invariants, the numbers
  (`NumbersOK`) and the histories (`HistoryOK`). The lemmas on `Recomputed` and
  `Rescaled` show from the rounding of `muldiv` and `muldivr` that the results
  stay between 1 and the bound.
* `SeedRewardedOnce`. `OneRewardPerSeed` is not inductive: one needs that the
  seeds rewarded were drawn and that the current seed is not among them
  (`SeedInv`).
* `OwnerMessageExecutedOnce`. The strengthening `OwnerInv` says that the numbers
  executed lie below `stored_seqno`.
* `SuccessTimeMonotone`, `ComplexityStaysInRange`, `ProofStands` are action
  properties proved from the type invariant. The last two rest on
  `RescaledInRange`: after an idle time of at least one interval the complexity
  does not fall, and, because `muldiv` rounds down, does not pass the maximum.

`MinerProofs` is about the two mining loops. It extends `GpuMiner` and instantiates
`CpuMiner` as `Cpu`, with constants and variables of its own, so that what one half
assumes of its constants says nothing about the other's.

The second half is about `Miner::run` for any byte size, length of rdata, guard
position, period, number of threads and hash function, from `Cpu!FieldSizes`, which
is what `CpuMiner` assumes as `MinerConstants`. The inductive invariant `CpuInv`
says of each thread that the two copies of rdata agree; that whenever it is about to hash without renewing the context, the
context has absorbed the current expire and head (`CtxInv`); and that hashes
after a cancellation come after the last check, before which no check falls due
(`CountInv`). Its core is the lemma `IncHead`: if `inc` leaves the guard byte
alone it leaves the whole head alone, because a carry beyond the guard byte
changes it. From it:

* `FoundIsProofAlways`: what a run returns is a proof (`Cpu!FoundIsProof`).
* `StopsSoonAlways`: at most one period of hashes after a cancellation
  (`Cpu!StopsSoon`).
* `CpuStepsImplementMinerRun`: initial states and steps implement `MinerRun`.

The first half is about the CUDA and OpenCL loops for any number of virtual
CPUs, block size, throughput, number of iterations, modulus and hash function,
from `GpuConstants`: the full throughput is a multiple of a block of all virtual
CPUs (in the code 2^19 * factor, with 512 * 16 in a block). The inductive
invariant `Inv` has four parts. `Types` adds to the types that only the first
launch can be smaller than a full one, so that `i` is a multiple of the virtual
CPUs whenever a launch starts from it. `ScanInv` says which nonces wait and which
have been hashed. `DevInv` says that the result record is empty or holds the nonce
of one hit, whose virtual CPU is stored or about to be. `MissInv` says that nothing
below the current launch is left. The lemmas `DivBounds` to `LaunchRange` are the
arithmetic of the rounded grid: a launch covers its range without gaps, and ends
where the next begins.

* `NoFalseOverclockAlways`, `NothingMissedAlways` and `NoNonceTwiceAlways` are the
  three properties of the run. The count in `NothingMissed` rests on `FewTried`,
  which bounds the set of nonces hashed by a product of intervals; both stand at the
  end of the module, with the library's facts about cardinality.
* `StepsImplementMinerRun`: initial states and steps implement `MinerRun`.

`FileWriteProofs` is about any number of writers, calls and attempts, from
`FileConstants`. Exclusion needs both halves of the lock: `NamedInv` for
`locked_files` (one thread of a process at a time is past `create_local_lock`)
and `RecordInv` for the record lock (a process with one thread keeps it until it
unlocks).

* `LockExclusiveAlways` and `AllOkCompleteAlways` assume `Unmixed` of every
  placement: the writers are threads of one process, or each is a process of its
  own. Without it the statements are false (section 3).
* `AllOkComplete` needs that who writes has truncated under the lock (`EmptyInv`)
  and that, while the file is not whole, some writer has still to write it or has
  failed (`LatestInv`): that writer's call cannot have returned without error.
* `SoleAtomicReplaceAlways` has no such assumption. `SoleInv` says at each step of
  a writer on its own what its descriptor and the two names refer to.

`TonlibPowMinerProofs` is about any givers, workers, setups, seeds and rounds,
from `ActorConstants`. `loop()` ends every handler, so the invariant `Good` is
stated of a record and a set of answers, and one lemma for each part of `Loop`
shows that it is kept; each handler is then a change of the record and a `Loop`.
`Counted` is the core: `threads_alive_` counts running workers and answers under
way, there are no workers before a giver is known, and workers that are not
cancelled have the actor's options.

* `UncancelledIsCurrentAlways` and `CopyStableAlways` follow from it.
* `SelectionSeesAllAlways` assumes `OneWorker`: a setup with a strategy has one
  worker, as in GPU builds. `RoundOK` says that every giver is being asked, once,
  or has answered, and that a round has ended before a worker runs. With more
  workers the statement is false (section 3).

`ActorExecutorProofs` and `ActorMessageProofs` prove the safety properties of the
run `actors` for any set of threads, any messages, signals and effects of
handlers, from `ExecutorConstants`.

* `RunsAloneAlways`. `RunsAlone` is not inductive: an executor learns only from
  the word whether the actor is alive, so whoever takes the lock must find that in
  the word, and whoever releases it must leave it there. `Base` is the types with
  `LockInv` (at most one executor owns the lock, some executor does while the word
  is locked, the word is what the owner remembers with signals of others added, an
  unlocked word is closed exactly when the actor is dead) and `StageInv`, what an
  executor may hold at each place of its code. `LockKept`, `LockTaken`, `LockHeld`,
  `LockReleased` and `SignalsAdded` are the five things a step can do to the lock;
  each action is one of them.
* `QueuedOnceAlways`. `QueueInv` speaks of pointers to the actor: in the queue, as
  a Pop signal, or with an executor that has popped the actor or will add it.
  There is at most one, and the flag InQueue, which the owner of the lock keeps to
  itself, tells whether there is one. An unlocked living actor with signals has
  the flag. (The theorem stands at the end of `ActorMessageProofs`, with the facts
  about cardinality that it needs.)
* `NothingLeftAlways`. `CoverInv`: every message in the mailbox is announced, by
  its sender, who has still to add the Message signal, by the signal in the word of
  a queued actor, or by the owner, who will read it; the same for what an owner has
  moved to the reader.
* `InOrderAlways`. `LineInv`: what has run, what the reader holds and what waits in
  the mailbox form one line in which each sender's messages are in order, and
  `AheadInv`: what is not sent yet comes after it. A message that runs at once is
  the only step that does not go through the mailbox; `OwnInv` says that its sender
  then has nothing in the mailbox or the reader, and `StartInv` that start_up has
  run.

`CpuSchedulerProofs` is about any number of workers, any size of the stealing
queues from 2 on and any plan of work, with empty messages anywhere in it, from
`SchedulerConstants`. The inductive invariant `IndInv` has six parts: the types
(`TypeInv`); what a thread holds at each place of its code (`ShapeInv`); and

* `SlotInv`, which relates each worker's slot, its place among the sleepers and its
  unpark flag to the two counters. `CountersAgreeAlways` follows from it.
* `GlobalInv`: work in the global queue beside a sleeper is announced by a notify
  to come, or somebody searches, or a worker in its last search, already among the
  sleepers, has yet to look there. `WorkWakesSleepers` speaks of the parked only and
  is not inductive without that worker.
* `LocalInv`: while a local queue holds work and no worker has ended, some worker has
  missed nothing: it is awake, or every queue that its last search has passed is
  empty. The invariant names one such worker and no searcher, because a busy worker
  can steal what a searcher was about to find; then the thief is the one. The order
  of the search matters here: a worker looks into its own queue before it looks
  into another's (`OwnFirst`). `WorkWakesSleepersAlways` follows from the last two.
* `CopyInv`: what a pop or a theft has copied is at the head of the queue for as long
  as `head_` has the value it read, and fits where it goes; a queue found full is
  full. This is why the compare_exchanges suffice, and is a theorem of its own
  (`CopiesHold`); that no queue exceeds its slots (`TypeCorrect`) follows.

TLC checked `IndInv` with two workers and queues of three slots and with three
workers before it was proved.

`RldpProofs` proves `DeliveredIntact` for any calls, parts, symbols, window, size
of the lru list and set of packets in flight (`DeliveredIntactAlways`), from
`RldpConstants`. `DeliveredIntact` is not inductive: a `complete` on its way must
be about a part that the receiver has decoded, and so must an entry of the lru
list, or a late packet would move the sender past a part that has not arrived. In
`IndInv`, `SenderOK` and `ReceiverOK` relate a sender's part and a receiver's
decoder to what has been decoded.

Model-checked only:

* liveness (`Terminates`, `CatchesUp`, `StopCompletes`, `EveryMessageRuns`,
  `EverythingRuns`, `KeepsMoving`, `CleansUp` and the fairness part of
  `ImplementsMinerRun`), which is beyond the prover;
* `HashesAccounted` (a sum over threads), `NothingLostOrRunTwice` (a count over the
  queues) and everything about `ValidatorSession`, whose operators fold over sets
  and sequences: what a fold computes needs an induction over data that the
  installed provers cannot do; for the same reason the bound of the counter in
  `TypeOK` of `CpuMiner`;
* `ExitCodeTells` of `PowMinerProcess`, which has no proof yet: it needs the
  invariants of `FileWriteProofs` for the instance of `FileWrite` in that module.

Assumed in the guard of `HashOnce`: the carry of `inc` stays within rdata. The
code does not check it; the bytes start from random values.

## 5. Not modelled

Of the parts above: option parsing and the benchmark of `pow-miner`; the layout
of the message in the kernels and device setup; the commands around the actor
`PowMiner`, in particular a second `pminer start`; threads and processes writing
one file at the same time (section 3); reading files; actors bound
to the I/O worker, migration between schedulers, and weak memory orders; packets
of RLDP that do not parse; in the validator session, validators that fork or send
wrong blocks, clocks that go back, the generation, validation and download of
candidates, and rounds after the first.

The other parts of the node (most of the repository's lines) are data processing
around queries, parsers, compilers and an interpreter, which small models do not
reach; they are listed with their reasons in `PROJECT.json`.

## 6. Plan

1. `MiningSystem`: `TonlibPowMiner` and `PowGiver` composed through messages that
   may be lost, delayed or repeated; the `pminer` commands, with a second start.
2. `OverlayBroadcast` (deduplication), `LastBlock` (synchronisation of the trusted
   block), catchain with forks below `ValidatorSession`.
3. Prove `ExitCodeTells` of `PowMinerProcess`, from the invariants of
   `FileWriteProofs`.
