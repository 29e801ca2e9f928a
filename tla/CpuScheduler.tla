---------------------------- MODULE CpuScheduler ----------------------------
(***************************************************************************)
(* The CPU workers of a scheduler and how they find work and sleep:        *)
(* CpuWorker (tdactor/td/actor/core/CpuWorker.cpp), LocalQueue and         *)
(* ContextImpl::add_to_queue, stop (Scheduler.h, Scheduler.cpp),           *)
(* StealingQueue and MpmcSleepyWaiter (tdutils/td/utils).                  *)
(*                                                                         *)
(* A worker takes work from its local queue, from the global queue or by   *)
(* stealing, and sleeps in the waiter when it finds none; whoever adds     *)
(* work calls notify(), which wakes a sleeper only if nobody is searching. *)
(* One action is one access to shared memory; the accesses under           *)
(* sleepers_mutex_ are one action.  The global MpmcQueue is a sequence     *)
(* with atomic push and pop.  Memory is sequentially consistent.  Work is  *)
(* a number; running item i adds the items of spawn[i], as an actor that   *)
(* sends messages does.                                                    *)
(***************************************************************************)
EXTENDS Integers, Sequences, FiniteSets, Functions

CONSTANTS
  Workers,   \* CPU workers, 0 .. n - 1
  io,        \* another thread that adds work: the I/O worker
  N,         \* 256, slots of a StealingQueue
  Plans      \* [push: what io adds, spawn: what running each item adds]

\* What happens to the vector of sleepers, and to a stolen batch, whose last
\* item is for the thief to run
back(s) == s[Len(s)]
pop_back(s) == SubSeq(s, 1, Len(s) - 1)
erase(s, k) == SubSeq(s, 1, k - 1) \o SubSeq(s, k + 1, Len(s))

Stop == 0    \* the empty SchedulerMessage
Threads == Workers \cup {io}
cpu_queue == Cardinality(Workers)   \* the place after the local queues

ASSUME SchedulerConstants ==
  /\ Cardinality(Workers) \in Nat /\ Workers = 0 .. Cardinality(Workers) - 1
  /\ io \notin Workers /\ N \in Nat \ {0, 1}
  /\ \A plan \in Plans :
       LET Items == DOMAIN plan.spawn
       IN  /\ Stop \notin Items
           /\ plan.spawn \in [Items -> Seq(Items \cup {Stop})]
           /\ plan.push \in Seq(Items \cup {Stop})

VARIABLES
  global,     \* cpu_queue
  nextItem,   \* next_ of each LocalQueue: a sequence of at most one item
  local,      \* queue_ of each LocalQueue: head_, and the items up to tail_
  searching, parked,  \* the two counters of state_
  sleepers,   \* sleepers_
  unpark,     \* unpark_flag_ of each slot
  th,         \* each thread: where it is, its slot's state, what it holds
  spawn,      \* what running an item adds
  done        \* history: how many times each item has run

vars == <<global, nextItem, local, searching, parked, sleepers, unpark, th, spawn, done>>

queues == <<global, nextItem, local>>
waiter == <<searching, parked, sleepers, unpark>>

\* A worker's try_pop goes through a list of places.  cnt_ puts the global
\* queue first once in 51 times: either order may come.
Scans(w) ==
  LET others == [k \in 1 .. Cardinality(Workers) - 1 |-> (w + k) % Cardinality(Workers)]
  IN  {<<w, cpu_queue>> \o others, <<cpu_queue, w>> \o others}

\* CpuWorker::run, init_slot
Init ==
  /\ global = <<>>
  /\ nextItem = [w \in Workers |-> <<>>]
  /\ local = [w \in Workers |-> [head |-> 0, items |-> <<>>]]
  /\ searching = 0 /\ parked = 0 /\ sleepers = <<>>
  /\ unpark = [w \in Workers |-> FALSE]
  /\ \E plan \in Plans :
       /\ spawn = plan.spawn
       /\ th = [t \in Threads |->
                  [pc |-> IF t = io THEN "add" ELSE "pop", slot |-> "Work", scan |-> <<>>,
                   item |-> Stop, out |-> IF t = io THEN plan.push ELSE <<>>,
                   head |-> 0, loot |-> <<>>, after |-> "add"]]
  /\ done = [i \in DOMAIN spawn |-> 0]

-----------------------------------------------------------------------------
(* CpuWorker::try_pop, LocalQueue and StealingQueue                        *)

\* The places where try_pop has yet to look; it begins when the worker starts,
\* when wait() returns and when the handler has returned.
ToScan(w) ==
  CASE th[w].pc = "scan" -> {th[w].scan}
    [] th[w].pc = "pop" -> Scans(w)
    [] th[w].pc = "add" /\ th[w].out = <<>> -> Scans(w)
    [] OTHER -> {}

\* Found: stop_wait is next, which does nothing in the Work state.
Got(w, item) ==
  [th EXCEPT ![w].pc = CASE th[w].slot = "Work" -> "run" [] th[w].slot = "Search" -> "unsearch"
                         [] th[w].slot = "Sleep" -> "stop_wait",
             ![w].item = item, ![w].scan = <<>>, ![w].head = 0, ![w].loot = <<>>]

NotHere(w, scan) ==
  [th EXCEPT ![w].pc = "scan", ![w].scan = Tail(scan), ![w].head = 0, ![w].loot = <<>>]

\* LocalQueue::try_pop: next_ first, then local_pop, whose load of head_ is
\* one step and whose compare_exchange is another.
PopLocal(w) ==
  \E scan \in ToScan(w) :
    /\ scan # <<>> /\ Head(scan) = w
    /\ \/ /\ nextItem[w] # <<>>
          /\ th' = Got(w, Head(nextItem[w]))
          /\ nextItem' = [nextItem EXCEPT ![w] = <<>>]
       \/ /\ nextItem[w] = <<>>
          /\ th' = IF local[w].items = <<>> THEN NotHere(w, scan)
                   ELSE [th EXCEPT ![w].pc = "local_pop", ![w].scan = scan,
                                   ![w].head = local[w].head,
                                   ![w].loot = <<Head(local[w].items)>>]
          /\ UNCHANGED nextItem
    /\ UNCHANGED <<global, local, waiter, spawn, done>>

\* Faulty variant: head_ is stored, not exchanged.
TakesHeadBlindly(q, head) == TRUE

\* compare_exchange_strong(head, ...) succeeds
TakesHead(q, head) == q.head = head

\* head_ moves on by n items.
Without(q, n) == [head |-> q.head + n, items |-> SubSeq(q.items, n + 1, Len(q.items))]

\* local_pop gives up when a thief was faster.
PopLocalExchange(w) ==
  /\ th[w].pc = "local_pop"
  /\ IF TakesHead(local[w], th[w].head)
     THEN /\ th' = Got(w, th[w].loot[1])
          /\ local' = [local EXCEPT ![w] = Without(@, 1)]
     ELSE th' = NotHere(w, th[w].scan) /\ UNCHANGED local
  /\ UNCHANGED <<global, nextItem, waiter, spawn, done>>

PopGlobal(w) ==
  \E scan \in ToScan(w) :
    /\ scan # <<>> /\ Head(scan) = cpu_queue
    /\ IF global = <<>> THEN th' = NotHere(w, scan) /\ UNCHANGED global
                        ELSE th' = Got(w, Head(global)) /\ global' = Tail(global)
    /\ UNCHANGED <<nextItem, local, waiter, spawn, done>>

\* steal: half of the other queue, rounded up, as far as there is room.
\* What is copied before the exchange counts only if it succeeds.
Steal(w) ==
  \E scan \in ToScan(w) :
    LET v == Head(scan)
        half == Len(local[v].items) - Len(local[v].items) \div 2
        room == N - Len(local[w].items)
        n == IF half <= room THEN half ELSE room
    IN  /\ scan # <<>> /\ v \in Workers \ {w}
        /\ th' = IF n = 0 THEN NotHere(w, scan)
                 ELSE [th EXCEPT ![w].pc = "steal", ![w].scan = scan, ![w].head = local[v].head,
                                 ![w].loot = SubSeq(local[v].items, 1, n)]
        /\ UNCHANGED <<queues, waiter, spawn, done>>

\* The thief keeps the last item to run it and publishes the others in its
\* own queue; it loads everything again when it was not the first.
StealExchange(w) ==
  LET v == Head(th[w].scan)
      n == Len(th[w].loot)
  IN  /\ th[w].pc = "steal"
      /\ IF TakesHead(local[v], th[w].head)
         THEN /\ local' = [local EXCEPT ![v] = Without(@, n),
                                        ![w].items = @ \o pop_back(th[w].loot)]
              /\ th' = Got(w, back(th[w].loot))
         ELSE /\ th' = [th EXCEPT ![w].pc = "scan", ![w].head = 0, ![w].loot = <<>>]
              /\ UNCHANGED local
      /\ UNCHANGED <<global, nextItem, waiter, spawn, done>>

-----------------------------------------------------------------------------
(* MpmcSleepyWaiter                                                        *)

\* Faulty variant: the last searcher does not look once more.
SleepsAtOnce == FALSE

\* The last searcher searches once more before it parks.
should_search == searching = 1

\* wait: nothing was found.
Wait(w) ==
  /\ th[w].pc = "scan" /\ th[w].scan = <<>>
  /\ \/ /\ th[w].slot = "Work"
        /\ searching' = searching + 1
        /\ th' = [th EXCEPT ![w].slot = "Search", ![w].pc = "pop"]
        /\ UNCHANGED <<parked, sleepers>>
     \/ /\ th[w].slot = "Search"
        /\ searching' = searching - 1 /\ parked' = parked + 1
        /\ sleepers' = Append(sleepers, w)
        /\ th' = [th EXCEPT ![w].slot = "Sleep", ![w].pc = IF should_search THEN "pop" ELSE "park"]
     \/ /\ th[w].slot = "Sleep"
        /\ th' = [th EXCEPT ![w].pc = "park"]
        /\ UNCHANGED <<searching, parked, sleepers>>
  /\ UNCHANGED <<queues, unpark, spawn, done>>

\* park: until the flag is set
Park(w) ==
  /\ th[w].pc = "park" /\ unpark[w]
  /\ unpark' = [unpark EXCEPT ![w] = FALSE]
  /\ th' = [th EXCEPT ![w].slot = "Search", ![w].pc = "pop"]
  /\ UNCHANGED <<queues, searching, parked, sleepers, spawn, done>>

\* stop_wait: a worker that found work in its last search is erased from the
\* sleepers, unless a notify was faster, whose unpark it then cancels.
StopWait(w) ==
  /\ th[w].pc = "stop_wait"
  /\ th' = [th EXCEPT ![w].slot = "Search", ![w].pc = "unsearch"]
  /\ \/ /\ \E k \in DOMAIN sleepers :
             /\ sleepers[k] = w /\ \A j \in 1 .. k - 1 : sleepers[j] # w
             /\ sleepers' = erase(sleepers, k)
        /\ parked' = parked - 1 /\ searching' = searching + 1
        /\ UNCHANGED unpark
     \/ /\ w \notin Range(sleepers)
        /\ unpark' = [unpark EXCEPT ![w] = FALSE]
        /\ UNCHANGED <<searching, parked, sleepers>>
  /\ UNCHANGED <<queues, spawn, done>>

\* Faulty variant: the last searcher leaves without a word.
NeverNotifies == FALSE

should_notify == searching = 1

\* The end of stop_wait: the last searcher to find work wakes another.
Unsearch(w) ==
  /\ th[w].pc = "unsearch"
  /\ searching' = searching - 1
  /\ th' = [th EXCEPT ![w].slot = "Work", ![w].pc = IF should_notify THEN "notify" ELSE "run",
                          ![w].after = "run"]
  /\ UNCHANGED <<queues, parked, sleepers, unpark, spawn, done>>

\* Where a thread goes on after notify(): it runs what it found, or adds more.
Notified(t) == [th EXCEPT ![t].pc = th[t].after]

\* notify: the first look, without the mutex
Notify(t) ==
  /\ th[t].pc = "notify"
  /\ th' = IF searching > 0 \/ parked = 0 THEN Notified(t)
                                          ELSE [th EXCEPT ![t].pc = "notify_locked"]
  /\ UNCHANGED <<queues, waiter, spawn, done>>

\* Faulty variant: the woken worker is not counted as searching.
WakesUncounted == 0
WakesCounted == 1

\* notify under the mutex: it looks again and wakes the last sleeper.
NotifyLocked(t) ==
  /\ th[t].pc = "notify_locked"
  /\ th' = Notified(t)
  /\ IF searching > 0 \/ sleepers = <<>> THEN UNCHANGED waiter
     ELSE /\ sleepers' = pop_back(sleepers)
          /\ parked' = parked - 1 /\ searching' = searching + WakesCounted
          /\ unpark' = [unpark EXCEPT ![back(sleepers)] = TRUE]
  /\ UNCHANGED <<queues, spawn, done>>

-----------------------------------------------------------------------------
(* Running work and adding it                                              *)

\* CpuWorker::run: an empty message ends the worker, anything else is run.
Run(w) ==
  /\ th[w].pc = "run"
  /\ IF th[w].item = Stop
     THEN th' = [th EXCEPT ![w].pc = "exited"] /\ UNCHANGED done
     ELSE /\ th' = [th EXCEPT ![w].pc = "add", ![w].item = Stop, ![w].out = spawn[th[w].item],
                              ![w].after = "add"]
          /\ done' = [done EXCEPT ![th[w].item] = @ + 1]
  /\ UNCHANGED <<queues, waiter, spawn>>

\* add_to_queue from another thread, and each round of the loop in stop()
AddGlobal(t) ==
  /\ th[t].pc = "add" /\ th[t].out # <<>>
  /\ t = io \/ Head(th[t].out) = Stop
  /\ global' = Append(global, Head(th[t].out))
  /\ th' = [th EXCEPT ![t].out = Tail(@), ![t].pc = "notify"]
  /\ UNCHANGED <<nextItem, local, waiter, spawn, done>>

\* add_to_queue from a CPU worker, LocalQueue::push: the new item becomes
\* next_, and what was there goes to the stealing queue.
AddLocal(w) ==
  /\ th[w].pc = "add" /\ th[w].out # <<>> /\ Head(th[w].out) # Stop
  /\ nextItem' = [nextItem EXCEPT ![w] = <<Head(th[w].out)>>]
  /\ th' = [th EXCEPT ![w].out = Tail(@),
                      ![w].item = IF nextItem[w] = <<>> THEN Stop ELSE Head(nextItem[w]),
                      ![w].pc = IF nextItem[w] = <<>> THEN "add" ELSE "push"]
  /\ UNCHANGED <<global, local, waiter, spawn, done>>

HasRoom(q) == Len(q.items) < N

\* local_push
LocalPush(w) ==
  /\ th[w].pc = "push"
  /\ IF HasRoom(local[w])
     THEN /\ local' = [local EXCEPT ![w].items = Append(@, th[w].item)]
          /\ th' = [th EXCEPT ![w].item = Stop, ![w].pc = "notify"]
     ELSE /\ th' = [th EXCEPT ![w].head = local[w].head, ![w].pc = "overflow"]
          /\ UNCHANGED local
  /\ UNCHANGED <<global, nextItem, waiter, spawn, done>>

\* local_push on a full queue: half of it and one more, and the new item, are
\* taken out, unless a thief was faster.
Overflow(w) ==
  LET n == N \div 2 + 1
  IN  /\ th[w].pc = "overflow"
      /\ IF TakesHead(local[w], th[w].head)
         THEN /\ local' = [local EXCEPT ![w] = Without(@, n)]
              /\ th' = [th EXCEPT
                   ![w].pc = "spill", ![w].item = Stop, ![w].head = 0,
                   ![w].loot = Append(SubSeq(local[w].items, 1, n), th[w].item)]
         ELSE th' = [th EXCEPT ![w].pc = "push", ![w].head = 0] /\ UNCHANGED local
      /\ UNCHANGED <<global, nextItem, waiter, spawn, done>>

\* overflow_f: one by one to the global queue
Spill(w) ==
  /\ th[w].pc = "spill"
  /\ global' = Append(global, Head(th[w].loot))
  /\ th' = [th EXCEPT ![w].loot = Tail(@), ![w].pc = IF Len(th[w].loot) = 1 THEN "notify" ELSE @]
  /\ UNCHANGED <<nextItem, local, waiter, spawn, done>>

-----------------------------------------------------------------------------

Work(w) ==
  \/ PopLocal(w) \/ PopLocalExchange(w) \/ PopGlobal(w)
  \/ Steal(w) \/ StealExchange(w) \/ Wait(w) \/ Park(w) \/ StopWait(w) \/ Unsearch(w)
  \/ Run(w) \/ AddLocal(w) \/ LocalPush(w) \/ Overflow(w) \/ Spill(w)

Post(t) == AddGlobal(t) \/ Notify(t) \/ NotifyLocked(t)

Next == (\E w \in Workers : Work(w)) \/ (\E t \in Threads : Post(t))

\* The operating system runs every thread.
Fairness ==
  /\ \A w \in Workers : WF_vars(Work(w) \/ Post(w))
  /\ WF_vars(Post(io))

Spec == Init /\ [][Next]_vars /\ Fairness

-----------------------------------------------------------------------------
(* Properties                                                              *)

Items == DOMAIN spawn

\* The types of the variables: CpuWorker.h, Scheduler.h, MpmcWaiter.h.
TypeOK ==
  /\ global \in Seq(Items \cup {Stop}) /\ done \in [Items -> Nat]
  /\ \A w \in Workers :
       /\ nextItem[w] \in Seq(Items) /\ Len(nextItem[w]) <= 1
       /\ local[w].head \in Nat
       /\ local[w].items \in Seq(Items) /\ Len(local[w].items) <= N
  /\ searching \in Nat /\ parked \in Nat /\ sleepers \in Seq(Workers)
  /\ unpark \in [Workers -> BOOLEAN]
  /\ \A t \in Threads : /\ th[t].slot \in {"Work", "Search", "Sleep"}
                         /\ th[t].out \in Seq(Items \cup {Stop})
                         /\ th[t].after \in {"run", "add"}

\* What a thread has taken out of every queue and not run yet
Held(t) == (IF th[t].item = Stop THEN <<>> ELSE <<th[t].item>>)
           \o (IF th[t].pc = "spill" THEN th[t].loot ELSE <<>>) \o th[t].out

Occurs(i, s) == Cardinality({k \in DOMAIN s : s[k] = i})

\* An item that has been added is in exactly one place: in one queue, in the
\* hands of one worker, or run.  A thief, an owner and an overflow that meet
\* at the head of one queue neither lose an item nor take it twice
\* (StealingQueue's compare_exchanges), nor put one into a full queue (TypeOK).
NothingLostOrRunTwice ==
  TypeOK /\
  LET Places(w) == nextItem[w] \o local[w].items \o Held(w)
  IN  \A i \in Items :
        Occurs(i, global \o Held(io)) + done[i]
          + SumFunction([w \in Workers |-> Occurs(i, Places(w))])
        = IF \A j \in Items : Occurs(i, spawn[j]) > 0 => done[j] > 0 THEN 1 ELSE 0

\* Workers whose slot counts in searching_count
Searchers == {w \in Workers : \/ th[w].slot = "Search"
                              \/ th[w].slot = "Sleep" /\ unpark[w]}

\* The counters packed into state_ agree with the slots, and the CHECKs of
\* wait, stop_wait, notify and close hold: as many parked as sleepers, a
\* searcher is counted, an unpark waits only for who left the sleepers
\* (MpmcSleepyWaiter).
CountersAgree ==
  /\ searching = Cardinality(Searchers)
  /\ parked = Len(sleepers) /\ IsInjective(sleepers)
  /\ \A w \in Workers : th[w].slot = "Sleep" <=> (w \in Range(sleepers)) # unpark[w]

Stealable == global # <<>> \/ \E w \in Workers : local[w].items # <<>>
Announcing == {t \in Threads : th[t].pc \in {"notify", "notify_locked", "spill", "stop_wait", "unsearch"}}

\* "After notify is called there should be at least on worker in Search or
\* Work state.  If possible - in Search state" (MpmcWaiter.h): while nobody is
\* about to call notify, a worker sleeps beside work in the global queue only if
\* another one is searching, and beside work in any queue only if another one is
\* awake, until an empty message has ended a worker.  A search may miss what a
\* busy worker steals behind its back, so that work in a busy worker's queue does
\* not always keep a searcher, and that worker may then be the one that ends.
WorkWakesSleepers ==
  (Announcing = {} /\ \E w \in Workers : th[w].pc = "park" /\ ~unpark[w]) =>
    /\ global # <<>> =>
         Searchers # {} \/ \E w \in Workers : th[w].slot = "Sleep" /\ th[w].pc # "park"
    /\ Stealable /\ (\A w \in Workers : th[w].pc # "exited") =>
         \E w \in Workers : th[w].pc # "park" \/ unpark[w]

\* Everything that is added is run, if nobody stops the scheduler: no order of
\* add, notify, wait and steal leaves work behind with every worker asleep.  And
\* the empty messages of stop(), one for each worker, end them all, with the
\* counters that close() checks at 0.
EverythingRuns ==
  /\ (Occurs(Stop, th[io].out \o global) = 0 /\ \A i \in Items : Occurs(Stop, spawn[i]) = 0)
       ~> \A i \in Items : done[i] = 1
  /\ (\E t \in Threads : Occurs(Stop, th[t].out) = Cardinality(Workers))
       ~> (\A w \in Workers : th[w].pc = "exited") /\ searching = 0 /\ parked = 0
=============================================================================
