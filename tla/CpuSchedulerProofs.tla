------------------------- MODULE CpuSchedulerProofs -------------------------
(***************************************************************************)
(* Proofs about CpuScheduler, for any number of workers, any size of the   *)
(* stealing queues and any plan of work.                                   *)
(*                                                                         *)
(* IndInv has six parts: types; what each thread holds at each place of    *)
(* its code (ShapeInv); the waiter's counters and sleepers (SlotInv); who  *)
(* will look into the global queue (GlobalInv) and into the local ones     *)
(* (LocalInv) while there is work in them; and what a copied head_ is      *)
(* worth until the exchange (CopyInv).  One lemma for each group of steps  *)
(* shows that they keep it: SearchKeeps for try_pop, AddKeeps for running  *)
(* and adding work, WaiterKeeps for the waiter.                            *)
(***************************************************************************)
EXTENDS CpuScheduler, TLAPS, SequenceTheorems

-----------------------------------------------------------------------------
(* The inductive invariant                                                 *)

Work0 == Items \cup {Stop}

Pcs == {"pop", "scan", "local_pop", "steal", "park", "stop_wait", "unsearch", "run", "notify",
        "notify_locked", "add", "push", "overflow", "spill", "exited"}

ThreadType ==
  [pc : Pcs, slot : {"Work", "Search", "Sleep"}, scan : Seq(Nat), item : Work0, out : Seq(Work0),
   head : Nat, loot : Seq(Items), after : {"run", "add"}]

QueueType == [head : Nat, items : Seq(Items)]

TypeInv ==
  /\ Stop \notin Items /\ spawn \in [Items -> Seq(Work0)] /\ done \in [Items -> Nat]
  /\ global \in Seq(Work0)
  /\ nextItem \in [Workers -> Seq(Items)] /\ \A w \in Workers : Len(nextItem[w]) <= 1
  /\ local \in [Workers -> QueueType]
  /\ searching \in Nat /\ parked \in Nat /\ sleepers \in Seq(Workers)
  /\ unpark \in [Workers -> BOOLEAN]
  /\ th \in [Threads -> ThreadType]

\* A scan comes to the worker's own queue before it comes to another's.
OwnFirst(w, scan) == \A k \in 1 .. Len(scan) : scan[k] = w => \A j \in 1 .. k - 1 : scan[j] = cpu_queue

\* Where a thread is, its slot and what it holds
ShapeOK(t) ==
  LET e == th[t]
  IN  /\ t = io => e.pc \in {"add", "notify", "notify_locked"} /\ e.after = "add"
      /\ e.pc \in {"park", "stop_wait"} => e.slot = "Sleep"
      /\ e.pc = "unsearch" => e.slot = "Search"
      /\ e.pc \in {"run", "notify", "notify_locked", "add", "push", "overflow", "spill", "exited"} =>
           e.slot = "Work"
      /\ e.pc \in {"push", "overflow"} => e.item # Stop
      /\ e.pc \in {"scan", "local_pop", "steal"} => OwnFirst(t, e.scan)
      /\ e.pc \in {"local_pop", "steal"} => e.scan # <<>>
      /\ e.pc = "local_pop" => Head(e.scan) = t
      /\ e.pc = "steal" => Head(e.scan) \in Workers \ {t}
      /\ e.pc \in {"local_pop", "steal", "spill"} => e.loot # <<>>

ShapeInv == \A t \in Threads : ShapeOK(t)

\* The slot of a worker, its place among the sleepers and its unpark flag
SlotOK(w) ==
  IF th[w].slot = "Sleep" THEN (w \in Range(sleepers)) # unpark[w]
                          ELSE w \notin Range(sleepers) /\ ~unpark[w]

SlotInv ==
  /\ searching = Cardinality(Searchers)
  /\ parked = Len(sleepers) /\ IsInjective(sleepers)
  /\ \A w \in Workers : SlotOK(w)

\* A worker in its last search that has yet to look into the global queue
LooksYet(w) ==
  th[w].slot = "Sleep" /\ \/ th[w].pc = "pop"
                          \/ /\ th[w].pc \in {"scan", "local_pop", "steal"}
                             /\ cpu_queue \in Range(th[w].scan)

\* What is in the global queue is announced, or somebody will look for it.
GlobalInv ==
  global # <<>> /\ sleepers # <<>> =>
    Announcing # {} \/ Searchers # {} \/ \E w \in Workers : LooksYet(w)

\* A worker that has missed nothing: it is not in its last search, or every
\* local queue that this search has passed is empty.
MissedNothing(w) ==
  LET e == th[w]
  IN  e.slot = "Sleep" /\ ~unpark[w] =>
        /\ e.pc # "park"
        /\ e.pc \in {"scan", "local_pop", "steal"} =>
             \A v \in Workers : v \in Range(e.scan) \/ local[v].items = <<>>
        /\ e.pc = "local_pop" => e.head = local[w].head

\* Until a worker has ended, work in a local queue keeps a worker that has
\* missed nothing.
LocalInv ==
  (\E v \in Workers : local[v].items # <<>>) /\ (\A w \in Workers : th[w].pc # "exited") =>
    \E w \in Workers : MissedNothing(w)

\* What was copied from the head of a queue is there as long as head_ has not
\* moved, and fits where it goes.
CopyOK(w) ==
  LET e == th[w]
      q == local[IF e.pc = "steal" THEN Head(e.scan) ELSE w]
  IN  e.pc \in {"local_pop", "steal", "overflow"} =>
        /\ e.head <= q.head
        /\ e.pc # "overflow" /\ e.head = q.head =>
             Len(e.loot) <= Len(q.items) /\ e.loot = SubSeq(q.items, 1, Len(e.loot))
        /\ e.pc = "local_pop" => Len(e.loot) = 1
        /\ e.pc = "steal" => Len(e.loot) + Len(local[w].items) <= N
        /\ e.pc = "overflow" /\ e.head = q.head => Len(q.items) = N

CopyInv == \A w \in Workers : CopyOK(w) /\ Len(local[w].items) <= N

IndInv == TypeInv /\ ShapeInv /\ SlotInv /\ GlobalInv /\ LocalInv /\ CopyInv

\* The workers are numbered from 0.
LEMMA WorkerNumbers ==
  /\ cpu_queue \in Nat /\ Workers = 0 .. cpu_queue - 1 /\ cpu_queue \notin Workers
  /\ Workers \subseteq Nat /\ io \notin Workers
<1>1. cpu_queue \in Nat BY SchedulerConstants DEF cpu_queue
<1>2. Workers = 0 .. cpu_queue - 1 BY SchedulerConstants DEF cpu_queue
<1> QED BY <1>1, <1>2, SchedulerConstants

LEMMA StutterInv == ASSUME IndInv, UNCHANGED vars PROVE IndInv'
<1>1. UNCHANGED <<global, nextItem, local, searching, parked, sleepers, unpark, th, spawn, done>>
  BY DEF vars, queues, waiter
<1>2. Items' = Items /\ Searchers' = Searchers /\ Announcing' = Announcing
  BY <1>1 DEF Items, Searchers, Announcing
<1>3. TypeInv' BY <1>1, <1>2 DEF IndInv, TypeInv, Work0, ThreadType, QueueType
<1>4. ShapeInv' BY Zenon, <1>1 DEF IndInv, ShapeInv, ShapeOK
<1>5. SlotInv' BY Zenon, <1>1, <1>2 DEF IndInv, SlotInv, SlotOK
<1>6. GlobalInv' BY <1>1, <1>2 DEF IndInv, GlobalInv, LooksYet
<1>7. LocalInv' BY <1>1 DEF IndInv, LocalInv, MissedNothing
<1>8. CopyInv' BY Zenon, <1>1 DEF IndInv, CopyInv, CopyOK
<1> QED BY <1>3, <1>4, <1>5, <1>6, <1>7, <1>8 DEF IndInv

-----------------------------------------------------------------------------
(* A step of one thread                                                    *)

\* Only thread t goes on.
Only(t) == th' \in [Threads -> ThreadType] /\ \A u \in Threads : u # t => th'[u] = th[u]

\* The elements of a sequence are its head and those of its tail.
LEMMA RangeTail ==
  ASSUME NEW S, NEW s \in Seq(S), s # <<>>
  PROVE  /\ Head(s) \in S /\ Tail(s) \in Seq(S) /\ Range(s) = {Head(s)} \cup Range(Tail(s))
         /\ Len(s) \in Nat \ {0} /\ Len(Tail(s)) = Len(s) - 1 /\ Head(s) = s[1]
         /\ \A k \in 1 .. Len(s) - 1 : Tail(s)[k] = s[k + 1]
<1>1. /\ Head(s) \in S /\ Tail(s) \in Seq(S) /\ Len(s) \in Nat \ {0} /\ Len(Tail(s)) = Len(s) - 1
      /\ Head(s) = s[1] /\ \A k \in 1 .. Len(s) - 1 : Tail(s)[k] = s[k + 1]
  BY EmptySeq, HeadTailProperties
<1>2. /\ Range(s) = {s[i] : i \in 1 .. Len(s)}
      /\ Range(Tail(s)) = {Tail(s)[i] : i \in 1 .. Len(s) - 1}
  BY Zenon, <1>1, RangeEquality
<1>3. ASSUME NEW k \in 1 .. Len(s), k # 1 PROVE s[k] \in Range(Tail(s))
  <2>1. k - 1 \in 1 .. Len(s) - 1 /\ (k - 1) + 1 = k BY <1>1, <1>3
  <2> QED BY Zenon, <1>1, <1>2, <2>1
<1>4. ASSUME NEW k \in 1 .. Len(s) - 1 PROVE Tail(s)[k] \in Range(s)
  <2>1. k + 1 \in 1 .. Len(s) BY <1>1
  <2> QED BY <1>1, <1>2, <2>1
<1>5. 1 \in 1 .. Len(s) BY <1>1
<1> QED BY <1>1, <1>2, <1>3, <1>4, <1>5

LEMMA Updates ==
  ASSUME TypeInv, NEW t \in Threads, NEW r \in ThreadType, th' = [th EXCEPT ![t] = r]
  PROVE  Only(t) /\ th'[t] = r
BY DEF TypeInv, Only

LEMMA ShapeKept ==
  ASSUME ShapeInv, NEW t \in Threads, Only(t), ShapeOK(t)' PROVE ShapeInv'
<1>1. ASSUME NEW u \in Threads, u # t PROVE ShapeOK(u)'
  <2>1. th'[u] = th[u] BY <1>1 DEF Only
  <2>2. ShapeOK(u) BY DEF ShapeInv
  <2> QED BY <2>1, <2>2 DEF ShapeOK, OwnFirst
<1> QED BY <1>1 DEF ShapeInv

\* The waiter does not see a step that keeps the slot.
LEMMA SlotKept ==
  ASSUME SlotInv, NEW t \in Threads, Only(t), th'[t].slot = th[t].slot, UNCHANGED waiter
  PROVE  SlotInv' /\ Searchers' = Searchers
<1>1. \A w \in Workers : th'[w].slot = th[w].slot BY DEF Only, Threads
<1>2. UNCHANGED <<searching, parked, sleepers, unpark>> BY DEF waiter
<1>3. Searchers' = Searchers BY <1>1, <1>2 DEF Searchers
<1>4. ASSUME NEW w \in Workers PROVE SlotOK(w)'
  BY <1>1, <1>2 DEF SlotInv, SlotOK
<1> QED BY <1>2, <1>3, <1>4 DEF SlotInv

\* Work that is announced is no concern yet.
LEMMA GlobalAnnounced ==
  ASSUME NEW t \in Threads, th'[t].pc \in {"notify", "notify_locked", "spill", "stop_wait", "unsearch"}
  PROVE  GlobalInv'
<1>1. t \in Announcing' BY DEF Announcing
<1> QED BY <1>1 DEF GlobalInv

LEMMA GlobalSearched == ASSUME Searchers' # {} PROVE GlobalInv'
BY DEF GlobalInv

LEMMA GlobalKept ==
  ASSUME GlobalInv, NEW t \in Threads, Only(t), global' # <<>> => global # <<>>,
         sleepers' = sleepers, Searchers' = Searchers,
         t \in Announcing => t \in Announcing',
         t \in Workers /\ LooksYet(t) => LooksYet(t)'
  PROVE  GlobalInv'
<1>1. \A u \in Threads : u # t => th'[u] = th[u] BY DEF Only
<1>2. Announcing # {} => Announcing' # {} BY <1>1 DEF Announcing
<1>3. ASSUME NEW w \in Workers, LooksYet(w) PROVE LooksYet(w)'
  <2>1. CASE w = t BY <1>3, <2>1
  <2>2. CASE w # t
    <3>1. th'[w] = th[w] BY <1>1, <2>2 DEF Threads
    <3> QED BY <1>3, <3>1 DEF LooksYet
  <2> QED BY <2>1, <2>2
<1> QED BY <1>2, <1>3 DEF GlobalInv

\* A worker that has found work has missed nothing.
LEMMA LocalFound == ASSUME NEW w \in Workers, MissedNothing(w)' PROVE LocalInv'
BY DEF LocalInv

LEMMA LocalKept ==
  ASSUME LocalInv, NEW t \in Threads, Only(t), local' = local,
         \A w \in Workers : w # t => (unpark[w] => unpark'[w]),
         th[t].pc # "exited", t \in Workers /\ MissedNothing(t) => MissedNothing(t)'
  PROVE  LocalInv'
<1>1. \A u \in Threads : u # t => th'[u] = th[u] BY DEF Only
<1>2. ASSUME NEW w \in Workers, MissedNothing(w) PROVE MissedNothing(w)'
  <2>1. CASE w = t BY <1>2, <2>1
  <2>2. CASE w # t
    <3>1. th'[w] = th[w] BY <1>1, <2>2 DEF Threads
    <3> QED BY <1>2, <2>2, <3>1 DEF MissedNothing
  <2> QED BY <2>1, <2>2
<1>3. (\A w \in Workers : th'[w].pc # "exited") => \A w \in Workers : th[w].pc # "exited"
  BY <1>1 DEF Threads
<1> QED BY <1>2, <1>3 DEF LocalInv

LEMMA CopyKept ==
  ASSUME CopyInv, NEW t \in Threads, Only(t), local' = local, t \in Workers => CopyOK(t)'
  PROVE  CopyInv'
<1>1. ASSUME NEW w \in Workers, w # t PROVE CopyOK(w)'
  <2>1. th'[w] = th[w] BY <1>1 DEF Only, Threads
  <2>2. CopyOK(w) BY DEF CopyInv
  <2> QED BY Zenon, <2>1, <2>2 DEF CopyOK
<1> QED BY <1>1 DEF CopyInv

LEMMA SameItems ==
  ASSUME spawn' = spawn
  PROVE  /\ Items' = Items /\ Work0' = Work0 /\ ThreadType' = ThreadType /\ QueueType' = QueueType
<1>1. Items' = Items BY DEF Items
<1> QED BY <1>1 DEF Work0, ThreadType, QueueType

LEMMA TypeKept ==
  ASSUME TypeInv, NEW t \in Threads, Only(t), spawn' = spawn, done' \in [Items -> Nat],
         global' \in Seq(Work0), nextItem' \in [Workers -> Seq(Items)],
         \A w \in Workers : Len(nextItem'[w]) <= 1, local' \in [Workers -> QueueType],
         searching' \in Nat, parked' \in Nat, sleepers' \in Seq(Workers),
         unpark' \in [Workers -> BOOLEAN]
  PROVE  TypeInv'
<1>1. Items' = Items /\ Work0' = Work0 /\ ThreadType' = ThreadType /\ QueueType' = QueueType
  BY SameItems
<1> QED BY <1>1 DEF TypeInv, Only

\* A thread at work has missed nothing.
LEMMA AwakeMissed == ASSUME NEW w, th'[w].slot # "Sleep" PROVE MissedNothing(w)'
BY DEF MissedNothing

\* What a step of a thread at work keeps
LEMMA BusyKeeps ==
  ASSUME IndInv, NEW t \in Threads, Only(t), UNCHANGED waiter,
         th[t].slot = "Work", th'[t].slot = "Work", th[t].pc # "exited", ShapeOK(t)',
         t = io => local' = local
  PROVE  ShapeInv' /\ SlotInv' /\ Searchers' = Searchers /\ LocalInv' /\ ~LooksYet(t)
<1> USE DEF IndInv
<1>1. ShapeInv' BY ShapeKept
<1>2. SlotInv' /\ Searchers' = Searchers BY SlotKept
<1>3. LocalInv'
  <2>1. CASE t \in Workers BY <2>1, AwakeMissed, LocalFound
  <2>2. CASE t = io
    <3>1. unpark' = unpark BY DEF waiter
    <3>2. io \notin Workers BY WorkerNumbers
    <3> QED BY <2>2, <3>1, <3>2, LocalKept
  <2> QED BY <2>1, <2>2 DEF Threads
<1> QED BY <1>1, <1>2, <1>3 DEF LooksYet

-----------------------------------------------------------------------------
(* The queues                                                              *)

\* head_ of a queue has moved on, or the queue has got more items at its end.
Shrinks(u) == local'[u].head > local[u].head /\ Len(local'[u].items) <= Len(local[u].items)

Grows(u) ==
  /\ local'[u].head = local[u].head /\ Len(local'[u].items) >= Len(local[u].items)
  /\ \A n \in 1 .. Len(local[u].items) : SubSeq(local'[u].items, 1, n) = SubSeq(local[u].items, 1, n)

LEMMA Sums ==
  ASSUME NEW a \in Nat, NEW b \in Nat, NEW c \in Nat, NEW d \in Nat, a + b <= d, c <= b
  PROVE  a + c <= d
OBVIOUS

\* The copies of the other threads when w changes the queues
LEMMA CopyMoved ==
  ASSUME TypeInv, ShapeInv, CopyInv, NEW w \in Workers, Only(w), local' \in [Workers -> QueueType],
         \A u \in Workers : local'[u] = local[u] \/ Shrinks(u) \/ (u = w /\ Grows(u)),
         \A u \in Workers : Len(local'[u].items) <= N, CopyOK(w)'
  PROVE  CopyInv'
<1>1. ASSUME NEW u \in Workers, u # w PROVE CopyOK(u)'
  <2> DEFINE e == th[u]
             v == IF e.pc = "steal" THEN Head(e.scan) ELSE u
  <2>1. th'[u] = e /\ u \in Threads BY <1>1 DEF Only, Threads
  <2>2. e \in ThreadType /\ ShapeOK(u) /\ CopyOK(u) BY <2>1 DEF TypeInv, ShapeInv, CopyInv
  <2>3. e.head \in Nat /\ e.loot \in Seq(Items) BY <2>2 DEF ThreadType
  <2>4. v \in Workers BY <2>2 DEF ShapeOK
  <2>5. \A x \in Workers : /\ local[x].head \in Nat /\ local'[x].head \in Nat
                            /\ local[x].items \in Seq(Items) /\ local'[x].items \in Seq(Items)
    BY DEF TypeInv, QueueType
  <2>6. SUFFICES ASSUME e.pc \in {"local_pop", "steal", "overflow"}
        PROVE  /\ e.head <= local'[v].head
               /\ e.pc # "overflow" /\ e.head = local'[v].head =>
                    /\ Len(e.loot) <= Len(local'[v].items)
                    /\ e.loot = SubSeq(local'[v].items, 1, Len(e.loot))
               /\ e.pc = "local_pop" => Len(e.loot) = 1
               /\ e.pc = "steal" => Len(e.loot) + Len(local'[u].items) <= N
               /\ e.pc = "overflow" /\ e.head = local'[v].head => Len(local'[v].items) = N
    BY Zenon, <2>1 DEF CopyOK
  <2>7. /\ e.head <= local[v].head
        /\ e.pc # "overflow" /\ e.head = local[v].head =>
             Len(e.loot) <= Len(local[v].items) /\ e.loot = SubSeq(local[v].items, 1, Len(e.loot))
        /\ e.pc = "local_pop" => Len(e.loot) = 1
        /\ e.pc = "steal" => Len(e.loot) + Len(local[u].items) <= N
        /\ e.pc = "overflow" /\ e.head = local[v].head => Len(local[v].items) = N
    BY Zenon, <2>2, <2>6 DEF CopyOK
  <2>8. ASSUME e.pc = "steal" PROVE Len(e.loot) + Len(local'[u].items) <= N
    <3>1. /\ Len(e.loot) \in Nat /\ Len(local[u].items) \in Nat /\ Len(local'[u].items) \in Nat
          /\ N \in Nat /\ Len(local'[u].items) <= Len(local[u].items)
      BY <1>1, <2>3, <2>5, LenProperties, SchedulerConstants DEF Shrinks
    <3> QED BY Zenon, <2>7, <2>8, <3>1, Sums
  <2> HIDE DEF v
  <2>9. CASE local'[v] = local[v] BY Zenon, <2>7, <2>8, <2>9
  <2>10. CASE Shrinks(v)
    <3>1. e.head < local'[v].head BY <2>3, <2>4, <2>5, <2>7, <2>10 DEF Shrinks
    <3>2. e.head <= local'[v].head /\ e.head # local'[v].head BY <2>3, <2>4, <2>5, <3>1
    <3> QED BY Zenon, <2>7, <2>8, <3>2
  <2>11. CASE v = w /\ Grows(v)
    <3>1. e.pc = "steal" BY <1>1, <2>6, <2>11 DEF v
    <3>2. Len(e.loot) \in Nat \ {0} BY <2>2, <2>3, <3>1, EmptySeq DEF ShapeOK
    <3>3. Len(local[v].items) \in Nat /\ Len(local'[v].items) \in Nat BY <2>4, <2>5, LenProperties
    <3>4. ASSUME e.head = local'[v].head
          PROVE  Len(e.loot) <= Len(local'[v].items) /\ e.loot = SubSeq(local'[v].items, 1, Len(e.loot))
      <4>1. /\ Len(e.loot) <= Len(local[v].items) /\ e.loot = SubSeq(local[v].items, 1, Len(e.loot))
            /\ Len(local'[v].items) >= Len(local[v].items)
        BY <2>7, <2>11, <3>1, <3>4 DEF Grows
      <4>2. Len(e.loot) \in 1 .. Len(local[v].items) BY <3>2, <3>3, <4>1
      <4>3. SubSeq(local'[v].items, 1, Len(e.loot)) = SubSeq(local[v].items, 1, Len(e.loot))
        BY <2>11, <4>2 DEF Grows
      <4> QED BY <3>2, <3>3, <4>1, <4>3
    <3> QED BY Zenon, <2>7, <2>8, <2>11, <3>1, <3>4 DEF Grows
  <2> QED BY Zenon, <2>4, <2>9, <2>10, <2>11
<1> QED BY <1>1 DEF CopyInv

\* What is left when head_ moves on by n
LEMMA Taken ==
  ASSUME NEW q \in QueueType, NEW n \in 1 .. Len(q.items)
  PROVE  /\ Without(q, n) \in QueueType /\ Without(q, n).head > q.head
         /\ Len(Without(q, n).items) = Len(q.items) - n /\ Len(q.items) \in Nat
<1>1. q.head \in Nat /\ q.items \in Seq(Items) /\ Len(q.items) \in Nat BY LenProperties DEF QueueType
<1>2. \A i \in n + 1 .. Len(q.items) : q.items[i] \in Items
  <2>1. \A i \in n + 1 .. Len(q.items) : i \in 1 .. Len(q.items) BY <1>1
  <2> QED BY <1>1, <2>1, ElementOfSeq
<1>3. /\ SubSeq(q.items, n + 1, Len(q.items)) \in Seq(Items)
      /\ Len(SubSeq(q.items, n + 1, Len(q.items))) =
           IF n + 1 <= Len(q.items) THEN Len(q.items) - (n + 1) + 1 ELSE 0
  BY <1>1, <1>2, SubSeqProperties
<1>4. (IF n + 1 <= Len(q.items) THEN Len(q.items) - (n + 1) + 1 ELSE 0) = Len(q.items) - n BY <1>1
<1>5. q.head + n \in Nat /\ q.head + n > q.head BY <1>1
<1> QED BY <1>1, <1>3, <1>4, <1>5 DEF Without, QueueType

\* The first items of a sequence
LEMMA Firsts ==
  ASSUME NEW S, NEW s \in Seq(S), NEW n \in 1 .. Len(s)
  PROVE  /\ SubSeq(s, 1, n) \in Seq(S) /\ Len(SubSeq(s, 1, n)) = n /\ SubSeq(s, 1, n) # <<>>
         /\ SubSeq(s, 1, n)[1] = s[1]
<1>1. Len(s) \in Nat BY LenProperties
<1>2. \A i \in 1 .. n : s[i] \in S
  <2>1. \A i \in 1 .. n : i \in 1 .. Len(s) BY <1>1
  <2> QED BY <2>1, ElementOfSeq
<1>3. /\ SubSeq(s, 1, n) \in Seq(S) /\ Len(SubSeq(s, 1, n)) = IF 1 <= n THEN n - 1 + 1 ELSE 0
      /\ \A i \in 1 .. n - 1 + 1 : SubSeq(s, 1, n)[i] = s[1 + i - 1]
  BY <1>1, <1>2, SubSeqProperties
<1>4. (IF 1 <= n THEN n - 1 + 1 ELSE 0) = n /\ 1 \in 1 .. n - 1 + 1 /\ 1 + 1 - 1 = 1 /\ n # 0 BY <1>1
<1>5. SubSeq(s, 1, n)[1] = s[1] BY <1>3, <1>4
<1>6. SubSeq(s, 1, n) # <<>> BY <1>3, <1>4, EmptySeq
<1> QED BY <1>3, <1>4, <1>5, <1>6

\* What was at the beginning stays there when items are added at the end.
LEMMA FirstsKept ==
  ASSUME NEW S, NEW s \in Seq(S), NEW r \in Seq(S)
  PROVE  /\ s \o r \in Seq(S) /\ Len(s \o r) = Len(s) + Len(r) /\ Len(s \o r) >= Len(s)
         /\ \A n \in 1 .. Len(s) : SubSeq(s \o r, 1, n) = SubSeq(s, 1, n)
<1>1. Len(s) \in Nat /\ Len(r) \in Nat BY LenProperties
<1>2. s \o r \in Seq(S) /\ Len(s \o r) = Len(s) + Len(r) BY ConcatProperties
<1>3. ASSUME NEW n \in 1 .. Len(s) PROVE SubSeq(s \o r, 1, n) = SubSeq(s, 1, n)
  <2>1. 1 \in 1 .. Len(s) BY <1>1
  <2> QED BY <2>1, SubSeqOfConcat1
<1> QED BY <1>1, <1>2, <1>3

-----------------------------------------------------------------------------
(* The steps of try_pop                                                    *)

\* It finds an item, finds nothing in a place, or begins to take what is in one.
Finds(w, item) ==
  LET e == th[w]
      r == th'[w]
  IN  /\ Only(w) /\ r.slot = e.slot /\ r.out = e.out /\ r.after = e.after /\ r.item = item
      /\ r.scan = <<>> /\ r.head = 0 /\ r.loot = <<>>
      /\ e.slot = "Work" => r.pc = "run"
      /\ e.slot = "Search" => r.pc = "unsearch"
      /\ e.slot = "Sleep" => r.pc = "stop_wait"

GoesTo(w, pc, scan, head, loot) ==
  LET e == th[w]
      r == th'[w]
  IN  /\ Only(w) /\ r.slot = e.slot /\ r.out = e.out /\ r.after = e.after /\ r.item = e.item
      /\ r.pc = pc /\ r.scan = scan /\ r.head = head /\ r.loot = loot

\* The scan that a step of try_pop goes on with
Scanning(w, scan) ==
  /\ scan \in Seq(Nat) /\ scan # <<>> /\ OwnFirst(w, scan)
  /\ \/ th[w].pc \in {"scan", "local_pop", "steal"} /\ scan = th[w].scan
     \/ /\ th[w].pc \in {"pop", "add"} /\ cpu_queue \in Range(scan)
        /\ Workers \subseteq Range(scan)

\* The steps of try_pop, of LocalQueue::pop and of LocalQueue::steal keep the invariant.
LEMMA SearchKeeps ==
  \A w \in Workers :
    /\ IndInv
    /\ PopLocal(w) \/ PopLocalExchange(w) \/ PopGlobal(w) \/ Steal(w) \/ StealExchange(w)
    => IndInv'

<1>Around.
    ASSUME NEW n \in Nat, NEW w \in 0 .. n - 1, NEW k \in 1 .. n - 1
    PROVE  (w + k) % n = IF w + k < n THEN w + k ELSE w + k - n
  BY <1>Around

\* try_pop looks into every queue, and into the worker's own before the others'.
<1>ScanFacts.
    ASSUME NEW w \in Workers, NEW scan \in Scans(w)
    PROVE  /\ scan \in Seq(Nat) /\ scan # <<>> /\ cpu_queue \in Range(scan)
           /\ Workers \subseteq Range(scan) /\ OwnFirst(w, scan)
  <2> USE <1>ScanFacts
  <2> DEFINE n == cpu_queue
             others == [k \in 1 .. n - 1 |-> (w + k) % n]
  <2>1. n \in Nat /\ w \in 0 .. n - 1 /\ Workers = 0 .. n - 1 /\ n # w BY WorkerNumbers
  <2>2. PICK a, b \in {w, n} : a # b /\ scan = <<a, b>> \o others
    BY Zenon, <2>1 DEF Scans, cpu_queue
  <2> HIDE DEF n
  <2>3. n - 1 \in Nat /\ \A k \in 1 .. n - 1 : (w + k) % n \in Nat BY <2>1, <1>Around
  <2>4. others \in Seq(Nat) /\ Len(others) = n - 1 /\ \A k \in 1 .. n - 1 : others[k] = (w + k) % n
    BY <2>3
  <2>5. <<a, b>> \in Seq(Nat) /\ Len(<<a, b>>) = 2 /\ <<a, b>>[1] = a /\ <<a, b>>[2] = b BY <2>1
  <2> HIDE DEF others
  <2>6. /\ scan \in Seq(Nat) /\ Len(scan) = n + 1 /\ scan[1] = a /\ scan[2] = b
        /\ \A k \in 3 .. n + 1 : scan[k] = (w + (k - 2)) % n
    <3>1. /\ <<a, b>> \o others \in Seq(Nat)
          /\ Len(<<a, b>> \o others) = Len(<<a, b>>) + Len(others)
          /\ \A i \in 1 .. Len(<<a, b>>) + Len(others) :
               (<<a, b>> \o others)[i] =
                 IF i <= Len(<<a, b>>) THEN <<a, b>>[i] ELSE others[i - Len(<<a, b>>)]
      BY <2>4, <2>5, ConcatProperties
    <3>2. 2 + (n - 1) = n + 1 /\ 1 \in 1 .. n + 1 /\ 2 \in 1 .. n + 1 BY <2>1
    <3>3. \A i \in 1 .. n + 1 : scan[i] = IF i <= 2 THEN <<a, b>>[i] ELSE others[i - 2]
      BY <2>2, <2>4, <2>5, <3>1, <3>2
    <3>4. ASSUME NEW k \in 3 .. n + 1 PROVE scan[k] = (w + (k - 2)) % n
      <4>1. k \in 1 .. n + 1 /\ ~(k <= 2) /\ k - 2 \in 1 .. n - 1 BY <2>1
      <4> QED BY <2>4, <3>3, <4>1
    <3> QED BY <2>2, <2>4, <2>5, <3>1, <3>2, <3>3, <3>4
  <2>7. Range(scan) = {scan[i] : i \in 1 .. n + 1} BY <2>6, RangeEquality
  <2>8. {w, n} \subseteq Range(scan)
    <3>1. 1 \in 1 .. n + 1 /\ 2 \in 1 .. n + 1 BY <2>1
    <3> QED BY Zenon, <2>2, <2>6, <2>7, <3>1
  <2>9. ASSUME NEW v \in Workers, v # w PROVE v \in Range(scan)
    <3>1. CASE v > w
      <4>1. v - w \in 1 .. n - 1 /\ w + (v - w) < n /\ w + (v - w) = v BY <2>1, <3>1
      <4>2. (w + (v - w)) % n = v BY Zenon, <2>1, <4>1, <1>Around
      <4>3. (v - w) + 2 \in 3 .. n + 1 /\ ((v - w) + 2) - 2 = v - w /\ (v - w) + 2 \in 1 .. n + 1
        BY <2>1, <4>1
      <4>4. scan[(v - w) + 2] = v BY <2>6, <4>2, <4>3
      <4> QED BY <2>7, <4>3, <4>4
    <3>2. CASE v < w
      <4> DEFINE k == (v + n) - w
      <4>1. k \in 1 .. n - 1 /\ ~(w + k < n) /\ w + k - n = v BY <2>1, <3>2
      <4> HIDE DEF k
      <4>2. (w + k) % n = v BY Zenon, <2>1, <4>1, <1>Around
      <4>3. k + 2 \in 3 .. n + 1 /\ (k + 2) - 2 = k /\ k + 2 \in 1 .. n + 1 BY <2>1, <4>1
      <4>4. scan[k + 2] = v BY <2>6, <4>2, <4>3
      <4> QED BY <2>7, <4>3, <4>4
    <3> QED BY <2>1, <2>9, <3>1, <3>2
  <2>10. OwnFirst(w, scan)
    <3> SUFFICES ASSUME NEW k \in 1 .. n + 1, scan[k] = w, NEW j \in 1 .. k - 1
                 PROVE  scan[j] = n
      BY <2>6 DEF OwnFirst, n
    <3>1. ~(k \in 3 .. n + 1)
      <4> SUFFICES ASSUME k \in 3 .. n + 1 PROVE FALSE OBVIOUS
      <4>1. k - 2 \in 1 .. n - 1 BY <2>1
      <4>2. (w + (k - 2)) % n = w BY <2>6
      <4>3. (w + (k - 2)) % n = IF w + (k - 2) < n THEN w + (k - 2) ELSE w + (k - 2) - n
        BY Zenon, <2>1, <4>1, <1>Around
      <4> QED BY <2>1, <4>1, <4>2, <4>3
    <3>2. k = 2 /\ j = 1 BY <2>1, <3>1
    <3> QED BY <2>2, <2>6, <3>2
  <2>11. scan # <<>> BY <2>1, <2>6
  <2> QED BY <2>6, <2>8, <2>9, <2>10, <2>11 DEF n

\* What is left of a scan
<1>ScanTail.
    ASSUME NEW w, NEW scan \in Seq(Nat), scan # <<>>, OwnFirst(w, scan)
    PROVE  /\ Tail(scan) \in Seq(Nat) /\ OwnFirst(w, Tail(scan))
           /\ Range(scan) = {Head(scan)} \cup Range(Tail(scan))
           /\ Head(scan) \notin {w, cpu_queue} => w \notin Range(scan)
  <2> USE <1>ScanTail
  <2>1. /\ Head(scan) \in Nat /\ Tail(scan) \in Seq(Nat) /\ Range(scan) = {Head(scan)} \cup Range(Tail(scan))
        /\ Len(scan) \in Nat \ {0} /\ Len(Tail(scan)) = Len(scan) - 1 /\ Head(scan) = scan[1]
        /\ \A k \in 1 .. Len(scan) - 1 : Tail(scan)[k] = scan[k + 1]
    BY RangeTail
  <2>2. OwnFirst(w, Tail(scan))
    <3> SUFFICES ASSUME NEW k \in 1 .. Len(scan) - 1, Tail(scan)[k] = w, NEW j \in 1 .. k - 1
                 PROVE  Tail(scan)[j] = cpu_queue
      BY <2>1 DEF OwnFirst
    <3>1. /\ k + 1 \in 1 .. Len(scan) /\ j + 1 \in 1 .. (k + 1) - 1 /\ j \in 1 .. Len(scan) - 1
      BY <2>1
    <3>2. scan[k + 1] = w /\ Tail(scan)[j] = scan[j + 1] BY <2>1, <3>1
    <3> QED BY <3>1, <3>2 DEF OwnFirst
  <2>3. ASSUME Head(scan) \notin {w, cpu_queue}, w \in Range(scan) PROVE FALSE
    <3>1. PICK k \in 1 .. Len(scan) : scan[k] = w BY <2>3, RangeEquality
    <3>2. k # 1 BY <2>1, <2>3, <3>1
    <3>3. 1 \in 1 .. k - 1 BY <2>1, <3>2
    <3>4. scan[1] = cpu_queue BY <3>1, <3>3 DEF OwnFirst
    <3> QED BY <2>1, <2>3, <3>4
  <2> QED BY <2>1, <2>2, <2>3

<1>GotFinds.
    ASSUME TypeInv, NEW w \in Workers, NEW item \in Work0, th' = Got(w, item)
    PROVE  Finds(w, item)
  <2> USE <1>GotFinds
  <2>1. w \in Threads /\ th \in [Threads -> ThreadType] BY DEF Threads, TypeInv
  <2>2. th[w].slot \in {"Work", "Search", "Sleep"} BY <2>1 DEF ThreadType
  <2>3. <<>> \in Seq(Nat) /\ <<>> \in Seq(Items) /\ 0 \in Nat BY EmptySeq
  <2> DEFINE pc == CASE th[w].slot = "Work" -> "run" [] th[w].slot = "Search" -> "unsearch"
                     [] th[w].slot = "Sleep" -> "stop_wait"
  <2>4. /\ pc \in Pcs /\ (th[w].slot = "Work" => pc = "run")
        /\ (th[w].slot = "Search" => pc = "unsearch") /\ (th[w].slot = "Sleep" => pc = "stop_wait")
    BY <2>2 DEF Pcs
  <2>5. th' = [th EXCEPT ![w].pc = pc, ![w].item = item, ![w].scan = <<>>, ![w].head = 0, ![w].loot = <<>>]
    BY DEF Got
  <2> HIDE DEF pc
  <2>6. th' \in [Threads -> ThreadType]
    <3> DEFINE r == [th[w] EXCEPT !.pc = pc, !.item = item, !.scan = <<>>, !.head = 0, !.loot = <<>>]
    <3>1. r \in ThreadType BY Zenon, <2>1, <2>3, <2>4 DEF ThreadType
    <3>2. th' = [th EXCEPT ![w] = r] BY Zenon, <2>1, <2>5 DEF ThreadType
    <3> QED BY <2>1, <3>1, <3>2
  <2>7. \A u \in Threads : u # w => th'[u] = th[u] BY <2>1, <2>5
  <2>8. /\ th'[w].slot = th[w].slot /\ th'[w].out = th[w].out /\ th'[w].after = th[w].after
        /\ th'[w].item = item /\ th'[w].scan = <<>> /\ th'[w].head = 0 /\ th'[w].loot = <<>>
        /\ th'[w].pc = pc
    BY <2>1, <2>5 DEF ThreadType
  <2> QED BY <2>4, <2>6, <2>7, <2>8 DEF Finds, Only

<1>NotHereGoes.
    ASSUME TypeInv, NEW w \in Workers, NEW scan, Tail(scan) \in Seq(Nat), th' = NotHere(w, scan)
    PROVE  GoesTo(w, "scan", Tail(scan), 0, <<>>)
  <2> USE <1>NotHereGoes
  <2>1. w \in Threads /\ th \in [Threads -> ThreadType] BY DEF Threads, TypeInv
  <2>2. <<>> \in Seq(Items) /\ 0 \in Nat /\ "scan" \in Pcs BY EmptySeq DEF Pcs
  <2>3. th' = [th EXCEPT ![w].pc = "scan", ![w].scan = Tail(scan), ![w].head = 0, ![w].loot = <<>>]
    BY DEF NotHere
  <2>4. th' \in [Threads -> ThreadType]
    <3> DEFINE r == [th[w] EXCEPT !.pc = "scan", !.scan = Tail(scan), !.head = 0, !.loot = <<>>]
    <3>1. r \in ThreadType BY Zenon, <2>1, <2>2 DEF ThreadType
    <3>2. th' = [th EXCEPT ![w] = r] BY Zenon, <2>1, <2>3 DEF ThreadType
    <3> QED BY <2>1, <3>1, <3>2
  <2>5. \A u \in Threads : u # w => th'[u] = th[u] BY <2>1, <2>3
  <2>6. /\ th'[w].slot = th[w].slot /\ th'[w].out = th[w].out /\ th'[w].after = th[w].after
        /\ th'[w].item = th[w].item /\ th'[w].scan = Tail(scan) /\ th'[w].head = 0
        /\ th'[w].loot = <<>> /\ th'[w].pc = "scan"
    BY <2>1, <2>3 DEF ThreadType
  <2> QED BY <2>4, <2>5, <2>6 DEF GoesTo, Only

<1>LoadsGoes.
    ASSUME TypeInv, NEW w \in Workers, NEW pc \in Pcs, NEW scan \in Seq(Nat), NEW head \in Nat,
           NEW loot \in Seq(Items),
           th' = [th EXCEPT ![w].pc = pc, ![w].scan = scan, ![w].head = head, ![w].loot = loot]
    PROVE  GoesTo(w, pc, scan, head, loot)
  <2> USE <1>LoadsGoes
  <2>1. w \in Threads /\ th \in [Threads -> ThreadType] BY DEF Threads, TypeInv
  <2>2. th' \in [Threads -> ThreadType]
    <3> DEFINE r == [th[w] EXCEPT !.pc = pc, !.scan = scan, !.head = head, !.loot = loot]
    <3>1. r \in ThreadType BY Zenon, <2>1 DEF ThreadType
    <3>2. th' = [th EXCEPT ![w] = r] BY Zenon, <2>1 DEF ThreadType
    <3> QED BY <2>1, <3>1, <3>2
  <2>3. \A u \in Threads : u # w => th'[u] = th[u] BY <2>1
  <2>4. /\ th'[w].slot = th[w].slot /\ th'[w].out = th[w].out /\ th'[w].after = th[w].after
        /\ th'[w].item = th[w].item /\ th'[w].scan = scan /\ th'[w].head = head
        /\ th'[w].loot = loot /\ th'[w].pc = pc
    BY <2>1 DEF ThreadType
  <2> QED BY <2>2, <2>3, <2>4 DEF GoesTo, Only

<1>ScanOn.
    ASSUME TypeInv, ShapeInv, NEW w \in Workers, NEW scan \in ToScan(w), scan # <<>>
    PROVE  Scanning(w, scan) /\ th[w].pc \in {"pop", "add", "scan"}
  <2> USE <1>ScanOn
  <2>1. w \in Threads /\ th[w] \in ThreadType BY DEF Threads, TypeInv
  <2>2. \/ th[w].pc = "scan" /\ scan = th[w].scan
        \/ th[w].pc \in {"pop", "add"} /\ scan \in Scans(w)
    BY DEF ToScan
  <2>3. CASE th[w].pc = "scan" /\ scan = th[w].scan
    BY <2>1, <2>3 DEF ShapeInv, ShapeOK, ThreadType, Scanning
  <2>4. CASE th[w].pc \in {"pop", "add"} /\ scan \in Scans(w) BY <2>4, <1>ScanFacts DEF Scanning
  <2> QED BY <2>2, <2>3, <2>4

\* A worker finds an item.
<1>FindsKeeps.
    ASSUME TypeInv, ShapeInv, SlotInv, GlobalInv, NEW w \in Workers, NEW item, Finds(w, item),
           th[w].pc \in {"pop", "scan", "add", "local_pop", "steal"}, UNCHANGED waiter,
           global' # <<>> => global # <<>>
    PROVE  ShapeInv' /\ SlotInv' /\ GlobalInv' /\ LocalInv'
  <2> USE <1>FindsKeeps
  <2>1. w \in Threads /\ th[w] \in ThreadType /\ w # io BY Zenon, WorkerNumbers DEF Threads, TypeInv
  <2>2. Only(w) /\ th'[w].slot = th[w].slot BY DEF Finds
  <2>3. th[w].slot \in {"Work", "Search", "Sleep"} BY <2>1 DEF ThreadType
  <2>4. /\ th[w].slot = "Work" => th'[w].pc = "run"
        /\ th[w].slot = "Search" => th'[w].pc = "unsearch"
        /\ th[w].slot = "Sleep" => th'[w].pc = "stop_wait"
    BY DEF Finds
  <2>5. ShapeOK(w)' BY <2>1, <2>2, <2>3, <2>4 DEF ShapeOK
  <2>6. ShapeInv' BY <2>1, <2>2, <2>5, ShapeKept
  <2>7. SlotInv' /\ Searchers' = Searchers BY <2>1, <2>2, SlotKept
  <2>8. GlobalInv'
    <3>1. CASE th[w].slot = "Work"
      <4>1. ~LooksYet(w) BY <3>1 DEF LooksYet
      <4>2. w \notin Announcing BY DEF Announcing
      <4>3. sleepers' = sleepers BY DEF waiter
      <4> QED BY <2>1, <2>2, <2>7, <4>1, <4>2, <4>3, GlobalKept
    <3>2. CASE th[w].slot # "Work" BY <2>1, <2>3, <2>4, <3>2, GlobalAnnounced
    <3> QED BY <3>1, <3>2
  <2>9. MissedNothing(w)' BY <2>2, <2>3, <2>4 DEF MissedNothing
  <2>10. LocalInv' BY <2>9, LocalFound
  <2> QED BY <2>6, <2>7, <2>8, <2>10

\* A worker finds nothing in a place and goes on to the next.
<1>PassKeeps.
    ASSUME TypeInv, ShapeInv, SlotInv, GlobalInv, LocalInv, CopyInv, NEW w \in Workers, NEW scan,
           Scanning(w, scan), GoesTo(w, "scan", Tail(scan), 0, <<>>), UNCHANGED <<waiter, global, local>>,
           Head(scan) = cpu_queue => global = <<>>,
           Head(scan) \in Workers /\ th[w].slot = "Sleep" /\ ~unpark[w] /\ MissedNothing(w) =>
             local[Head(scan)].items = <<>>
    PROVE  ShapeInv' /\ SlotInv' /\ GlobalInv' /\ LocalInv' /\ CopyInv'
  <2> USE <1>PassKeeps
  <2>1. w \in Threads /\ w # io BY WorkerNumbers DEF Threads
  <2>2. Only(w) /\ th'[w].slot = th[w].slot /\ th'[w].pc = "scan" /\ th'[w].scan = Tail(scan)
    BY DEF GoesTo
  <2>3. OwnFirst(w, Tail(scan)) /\ Range(scan) = {Head(scan)} \cup Range(Tail(scan))
    BY Zenon, <1>ScanTail DEF Scanning
  <2>4. ShapeInv'
    <3>1. ShapeOK(w)' BY <2>1, <2>2, <2>3 DEF ShapeOK, OwnFirst
    <3> QED BY <2>1, <2>2, <3>1, ShapeKept
  <2>5. SlotInv' /\ Searchers' = Searchers BY <2>1, <2>2, SlotKept
  <2>6. UNCHANGED <<searching, parked, sleepers, unpark>> BY DEF waiter
  <2>7. GlobalInv'
    <3>1. CASE Head(scan) = cpu_queue BY <3>1 DEF GlobalInv
    <3>2. CASE Head(scan) # cpu_queue
      <4>1. LooksYet(w) => cpu_queue \in Range(scan) BY DEF LooksYet, Scanning
      <4>2. LooksYet(w) => LooksYet(w)' BY <2>2, <2>3, <3>2, <4>1 DEF LooksYet
      <4>3. w \notin Announcing BY DEF Announcing, Scanning
      <4> QED BY <2>1, <2>2, <2>5, <2>6, <4>2, <4>3, GlobalKept
    <3> QED BY <3>1, <3>2
  <2>8. LocalInv'
    <3>1. ASSUME MissedNothing(w) PROVE MissedNothing(w)'
      <4> SUFFICES ASSUME th[w].slot = "Sleep", ~unpark[w], NEW v \in Workers
                   PROVE  v \in Range(Tail(scan)) \/ local[v].items = <<>>
        BY <2>2, <2>6 DEF MissedNothing
      <4>1. v \in Range(scan) \/ local[v].items = <<>> BY <3>1 DEF MissedNothing, Scanning
      <4> QED BY <2>3, <3>1, <4>1
    <3>2. th[w].pc # "exited" BY DEF Scanning
    <3> QED BY <2>1, <2>2, <2>6, <3>1, <3>2, LocalKept
  <2>9. CopyInv'
    <3>1. CopyOK(w)' BY <2>2 DEF CopyOK
    <3> QED BY <2>1, <2>2, <3>1, CopyKept
  <2> QED BY <2>4, <2>5, <2>7, <2>8, <2>9

\* A worker stays at a place of its scan.
<1>StayKeeps.
    ASSUME TypeInv, ShapeInv, SlotInv, GlobalInv, LocalInv, CopyInv, NEW w \in Workers,
           NEW pc \in {"scan", "local_pop", "steal"}, NEW scan, NEW head, NEW loot,
           Scanning(w, scan), GoesTo(w, pc, scan, head, loot), UNCHANGED <<waiter, global, local>>,
           pc = "local_pop" => Head(scan) = w /\ loot # <<>> /\ head = local[w].head,
           pc = "steal" => Head(scan) \in Workers \ {w} /\ loot # <<>>, CopyOK(w)'
    PROVE  ShapeInv' /\ SlotInv' /\ GlobalInv' /\ LocalInv' /\ CopyInv'
  <2> USE <1>StayKeeps
  <2>1. w \in Threads /\ w # io BY WorkerNumbers DEF Threads
  <2>2. /\ Only(w) /\ th'[w].slot = th[w].slot /\ th'[w].pc = pc /\ th'[w].scan = scan
        /\ th'[w].head = head /\ th'[w].loot = loot
    BY DEF GoesTo
  <2>3. OwnFirst(w, scan) /\ scan # <<>> BY DEF Scanning
  <2>4. ShapeInv'
    <3>1. ShapeOK(w)' BY <2>1, <2>2, <2>3 DEF ShapeOK, OwnFirst
    <3> QED BY <2>1, <2>2, <3>1, ShapeKept
  <2>5. SlotInv' /\ Searchers' = Searchers BY <2>1, <2>2, SlotKept
  <2>6. UNCHANGED <<searching, parked, sleepers, unpark>> BY DEF waiter
  <2>7. GlobalInv'
    <3>1. LooksYet(w) => cpu_queue \in Range(scan) BY DEF LooksYet, Scanning
    <3>2. LooksYet(w) => LooksYet(w)' BY <2>2, <3>1 DEF LooksYet
    <3>3. w \notin Announcing BY DEF Announcing, Scanning
    <3> QED BY <2>1, <2>2, <2>5, <2>6, <3>2, <3>3, GlobalKept
  <2>8. LocalInv'
    <3>1. ASSUME MissedNothing(w) PROVE MissedNothing(w)'
      <4>1. ASSUME th[w].slot = "Sleep", ~unpark[w], NEW v \in Workers
            PROVE  v \in Range(scan) \/ local[v].items = <<>>
        BY <3>1, <4>1 DEF MissedNothing, Scanning
      <4> QED BY <2>2, <2>6, <4>1 DEF MissedNothing
    <3>2. th[w].pc # "exited" BY DEF Scanning
    <3> QED BY <2>1, <2>2, <2>6, <3>1, <3>2, LocalKept
  <2>9. CopyInv' BY <2>1, <2>2, CopyKept
  <2> QED BY <2>4, <2>5, <2>7, <2>8, <2>9

<1>PopLocalKeeps. ASSUME IndInv, NEW w \in Workers, PopLocal(w) PROVE IndInv'
  <2> USE <1>PopLocalKeeps
  <2> USE DEF IndInv
  <2>1. w \in Threads /\ th[w] \in ThreadType BY DEF Threads, TypeInv
  <2>2. nextItem[w] \in Seq(Items) /\ local[w] \in QueueType BY DEF TypeInv
  <2>3. UNCHANGED <<global, local, searching, parked, sleepers, unpark, spawn, done>>
    BY DEF PopLocal, waiter
  <2>4. PICK scan \in ToScan(w) :
          /\ scan # <<>> /\ Head(scan) = w
          /\ \/ /\ nextItem[w] # <<>> /\ th' = Got(w, Head(nextItem[w]))
                /\ nextItem' = [nextItem EXCEPT ![w] = <<>>]
             \/ /\ nextItem' = nextItem /\ local[w].items = <<>> /\ th' = NotHere(w, scan)
             \/ /\ nextItem' = nextItem /\ local[w].items # <<>>
                /\ th' = [th EXCEPT ![w].pc = "local_pop", ![w].scan = scan, ![w].head = local[w].head,
                                    ![w].loot = <<Head(local[w].items)>>]
    BY Zenon DEF PopLocal
  <2>5. Scanning(w, scan) /\ th[w].pc \in {"pop", "add", "scan"} BY <2>4, <1>ScanOn
  <2>6. nextItem' \in [Workers -> Seq(Items)] /\ \A v \in Workers : Len(nextItem'[v]) <= 1
    <3>1. <<>> \in Seq(Items) /\ Len(<<>>) <= 1 BY EmptySeq
    <3> QED BY Zenon, <2>4, <3>1 DEF TypeInv
  <2>7. CASE nextItem[w] # <<>> /\ th' = Got(w, Head(nextItem[w]))
    <3>1. Head(nextItem[w]) \in Work0 BY <2>2, <2>7, RangeTail DEF Work0
    <3>2. Finds(w, Head(nextItem[w])) BY <2>7, <3>1, <1>GotFinds
    <3>3. Only(w) BY <3>2 DEF Finds
    <3>4. ShapeInv' /\ SlotInv' /\ GlobalInv' /\ LocalInv'
      BY <2>3, <2>5, <3>2, <1>FindsKeeps DEF waiter
    <3>5. CopyOK(w)' BY <2>1, <3>2 DEF Finds, CopyOK, ThreadType
    <3>6. CopyInv' BY <2>1, <2>3, <3>3, <3>5, CopyKept
    <3>7. TypeInv' BY Zenon, <2>1, <2>3, <2>6, <3>3, TypeKept DEF TypeInv
    <3> QED BY <3>4, <3>6, <3>7
  <2>8. CASE local[w].items = <<>> /\ th' = NotHere(w, scan)
    <3>1. Tail(scan) \in Seq(Nat) BY <2>5, <1>ScanTail DEF Scanning
    <3>2. GoesTo(w, "scan", Tail(scan), 0, <<>>) BY <2>8, <3>1, <1>NotHereGoes
    <3>3. Only(w) BY <3>2 DEF GoesTo
    <3>4. w # cpu_queue BY WorkerNumbers
    <3>5. ShapeInv' /\ SlotInv' /\ GlobalInv' /\ LocalInv' /\ CopyInv'
      BY <2>3, <2>4, <2>5, <2>8, <3>2, <3>4, <1>PassKeeps DEF waiter
    <3>6. TypeInv' BY Zenon, <2>1, <2>3, <2>6, <3>3, TypeKept DEF TypeInv
    <3> QED BY <3>5, <3>6
  <2>9. CASE /\ local[w].items # <<>>
             /\ th' = [th EXCEPT ![w].pc = "local_pop", ![w].scan = scan, ![w].head = local[w].head,
                                 ![w].loot = <<Head(local[w].items)>>]
    <3>1. /\ local[w].head \in Nat /\ local[w].items \in Seq(Items) /\ Head(local[w].items) \in Items
          /\ Len(local[w].items) \in Nat \ {0} /\ Head(local[w].items) = local[w].items[1]
      BY <2>2, <2>9, RangeTail DEF QueueType
    <3> DEFINE loot == <<Head(local[w].items)>>
    <3>2. loot \in Seq(Items) /\ Len(loot) = 1 /\ loot # <<>> /\ loot[1] = local[w].items[1] BY <3>1
    <3>3. GoesTo(w, "local_pop", scan, local[w].head, loot)
      BY Zenon, <2>5, <2>9, <3>1, <3>2, <1>LoadsGoes DEF Scanning, Pcs
    <3> HIDE DEF loot
    <3>4. Only(w) BY <3>3 DEF GoesTo
    <3>5. loot = SubSeq(local[w].items, 1, 1)
      <4>1. 1 \in 1 .. Len(local[w].items) BY <3>1
      <4>2. /\ SubSeq(local[w].items, 1, 1) \in Seq(Items) /\ Len(SubSeq(local[w].items, 1, 1)) = 1
            /\ SubSeq(local[w].items, 1, 1)[1] = local[w].items[1]
        BY <3>1, <4>1, Firsts
      <4>3. \A i \in 1 .. Len(loot) : loot[i] = SubSeq(local[w].items, 1, 1)[i]
        <5>1. \A i \in 1 .. 1 : i = 1 OBVIOUS
        <5> QED BY <3>2, <4>2, <5>1
      <4> QED BY <3>2, <4>2, <4>3, SeqEqual
    <3>6. CopyOK(w)'
      <4>1. 1 <= Len(local[w].items) /\ local[w].head <= local[w].head BY <3>1
      <4> QED BY <2>3, <3>2, <3>3, <3>5, <4>1 DEF CopyOK, GoesTo
    <3>7. ShapeInv' /\ SlotInv' /\ GlobalInv' /\ LocalInv' /\ CopyInv'
      BY Zenon, <2>3, <2>4, <2>5, <3>2, <3>3, <3>6, <1>StayKeeps DEF waiter
    <3>8. TypeInv' BY Zenon, <2>1, <2>3, <2>6, <3>4, TypeKept DEF TypeInv
    <3> QED BY <3>7, <3>8
  <2> QED BY <2>4, <2>7, <2>8, <2>9

\* A worker takes n items from the head of a queue.
<1>PopLocalExchangeKeeps. ASSUME IndInv, NEW w \in Workers, PopLocalExchange(w) PROVE IndInv'
  <2> USE <1>PopLocalExchangeKeeps
  <2> USE DEF IndInv
  <2> DEFINE e == th[w]
             q == local[w]
  <2>1. w \in Threads /\ e \in ThreadType /\ q \in QueueType /\ w # cpu_queue
    BY Zenon, WorkerNumbers DEF Threads, TypeInv
  <2>2. /\ UNCHANGED <<global, nextItem, searching, parked, sleepers, unpark, spawn, done>>
        /\ e.pc = "local_pop"
    BY DEF PopLocalExchange, waiter
  <2>3. /\ e.scan \in Seq(Nat) /\ e.scan # <<>> /\ Head(e.scan) = w /\ OwnFirst(w, e.scan)
        /\ e.loot \in Seq(Items) /\ e.loot # <<>> /\ Len(e.loot) = 1
    BY Zenon, <2>1, <2>2 DEF ShapeInv, ShapeOK, CopyInv, CopyOK, ThreadType
  <2>4. CASE TakesHead(q, e.head)
    <3>1. th' = Got(w, e.loot[1]) /\ local' = [local EXCEPT ![w] = Without(q, 1)]
      BY <2>4 DEF PopLocalExchange
    <3>2. 1 <= Len(q.items) /\ Len(q.items) \in Nat
      BY Zenon, <2>1, <2>2, <2>3, <2>4, LenProperties DEF CopyInv, CopyOK, TakesHead, QueueType
    <3>3. e.loot[1] \in Work0
      <4>1. 1 \in 1 .. Len(e.loot) BY <2>3
      <4> QED BY <2>3, <4>1, ElementOfSeq DEF Work0
    <3>4. Finds(w, e.loot[1]) BY <3>1, <3>3, <1>GotFinds
    <3>5. Only(w) /\ th'[w].pc \in {"run", "unsearch", "stop_wait"}
      BY <2>1, <3>4 DEF Finds, ThreadType
    <3>6. /\ Without(q, 1) \in QueueType /\ Without(q, 1).head > q.head
          /\ Len(Without(q, 1).items) = Len(q.items) - 1
      <4>1. 1 \in 1 .. Len(q.items) BY <3>2
      <4> QED BY <2>1, <4>1, Taken
    <3>7. local' \in [Workers -> QueueType] BY <3>1, <3>6 DEF TypeInv
    <3>8. /\ local'[w] = Without(q, 1) /\ \A u \in Workers : u # w => local'[u] = local[u]
      BY <3>1 DEF TypeInv
    <3>9. Shrinks(w) BY <3>2, <3>6, <3>8 DEF Shrinks
    <3>10. \A u \in Workers : Len(local'[u].items) <= N
      <4>1. Len(q.items) - 1 <= N BY <3>2, SchedulerConstants DEF CopyInv
      <4> QED BY <3>6, <3>8, <4>1 DEF CopyInv
    <3>11. CopyOK(w)' BY <3>5 DEF CopyOK
    <3>12. CopyInv' BY <3>5, <3>7, <3>8, <3>9, <3>10, <3>11, CopyMoved
    <3>13. ShapeInv' /\ SlotInv' /\ GlobalInv' /\ LocalInv'
      BY <2>2, <3>4, <1>FindsKeeps DEF waiter
    <3>14. TypeInv' BY Zenon, <2>1, <2>2, <3>5, <3>7, TypeKept DEF TypeInv
    <3> QED BY <3>12, <3>13, <3>14
  <2>5. CASE ~TakesHead(q, e.head)
    <3>1. th' = NotHere(w, e.scan) /\ local' = local BY <2>5 DEF PopLocalExchange
    <3>2. Scanning(w, e.scan) BY <2>2, <2>3 DEF Scanning
    <3>3. Tail(e.scan) \in Seq(Nat) BY <2>3, <1>ScanTail
    <3>4. GoesTo(w, "scan", Tail(e.scan), 0, <<>>) BY <3>1, <3>3, <1>NotHereGoes
    <3>5. Only(w) BY <3>4 DEF GoesTo
    <3>6. ~(e.slot = "Sleep" /\ ~unpark[w] /\ MissedNothing(w))
      BY <2>2, <2>5 DEF MissedNothing, TakesHead
    <3>7. ShapeInv' /\ SlotInv' /\ GlobalInv' /\ LocalInv' /\ CopyInv'
      BY <2>1, <2>2, <2>3, <3>1, <3>2, <3>4, <3>6, <1>PassKeeps DEF waiter
    <3>8. TypeInv' BY Zenon, <2>1, <2>2, <3>1, <3>5, TypeKept DEF TypeInv
    <3> QED BY <3>7, <3>8
  <2> QED BY <2>4, <2>5

<1>PopGlobalKeeps. ASSUME IndInv, NEW w \in Workers, PopGlobal(w) PROVE IndInv'
  <2> USE <1>PopGlobalKeeps
  <2> USE DEF IndInv
  <2>1. w \in Threads /\ th[w] \in ThreadType /\ global \in Seq(Work0) BY DEF Threads, TypeInv
  <2>2. UNCHANGED <<nextItem, local, searching, parked, sleepers, unpark, spawn, done>>
    BY DEF PopGlobal, waiter
  <2>3. PICK scan \in ToScan(w) :
          /\ scan # <<>> /\ Head(scan) = cpu_queue
          /\ IF global = <<>> THEN th' = NotHere(w, scan) /\ UNCHANGED global
                              ELSE th' = Got(w, Head(global)) /\ global' = Tail(global)
    BY DEF PopGlobal
  <2>4. Scanning(w, scan) /\ th[w].pc \in {"pop", "add", "scan"} BY <2>3, <1>ScanOn
  <2>5. CASE global # <<>>
    <3>1. Head(global) \in Work0 /\ Tail(global) \in Seq(Work0) BY <2>1, <2>5, RangeTail
    <3>2. Finds(w, Head(global)) BY <2>3, <2>5, <3>1, <1>GotFinds
    <3>3. Only(w) BY <3>2 DEF Finds
    <3>4. ShapeInv' /\ SlotInv' /\ GlobalInv' /\ LocalInv'
      BY <2>2, <2>4, <2>5, <3>2, <1>FindsKeeps DEF waiter
    <3>5. CopyOK(w)' BY <2>1, <3>2 DEF Finds, CopyOK, ThreadType
    <3>6. CopyInv' BY <2>1, <2>2, <3>3, <3>5, CopyKept
    <3>7. TypeInv' BY Zenon, <2>1, <2>2, <2>3, <2>5, <3>1, <3>3, TypeKept DEF TypeInv
    <3> QED BY <3>4, <3>6, <3>7
  <2>6. CASE global = <<>>
    <3>1. Tail(scan) \in Seq(Nat) BY <2>4, <1>ScanTail DEF Scanning
    <3>2. GoesTo(w, "scan", Tail(scan), 0, <<>>) BY <2>3, <2>6, <3>1, <1>NotHereGoes
    <3>3. Only(w) BY <3>2 DEF GoesTo
    <3>4. cpu_queue \notin Workers BY WorkerNumbers
    <3>5. ShapeInv' /\ SlotInv' /\ GlobalInv' /\ LocalInv' /\ CopyInv'
      BY Zenon, <2>2, <2>3, <2>4, <2>6, <3>2, <3>4, <1>PassKeeps DEF waiter
    <3>6. TypeInv' BY Zenon, <2>1, <2>2, <2>3, <2>6, <3>3, TypeKept DEF TypeInv
    <3> QED BY <3>5, <3>6
  <2> QED BY <2>5, <2>6

\* Half of a queue, rounded up
<1>Half. ASSUME NEW n \in Nat PROVE n - n \div 2 \in 0 .. n /\ (n - n \div 2 = 0 => n = 0)
  BY <1>Half

<1>StealKeeps. ASSUME IndInv, NEW w \in Workers, Steal(w) PROVE IndInv'
  <2> USE <1>StealKeeps
  <2> USE DEF IndInv
  <2>1. w \in Threads /\ th[w] \in ThreadType /\ local[w] \in QueueType BY DEF Threads, TypeInv
  <2>2. UNCHANGED <<global, nextItem, local, searching, parked, sleepers, unpark, spawn, done>>
    BY DEF Steal, waiter, queues
  <2> DEFINE half(v) == Len(local[v].items) - Len(local[v].items) \div 2
             room == N - Len(local[w].items)
             least(v) == IF half(v) <= room THEN half(v) ELSE room
  <2>3. PICK scan \in ToScan(w) :
          /\ scan # <<>> /\ Head(scan) \in Workers \ {w}
          /\ th' = IF least(Head(scan)) = 0 THEN NotHere(w, scan)
                   ELSE [th EXCEPT ![w].pc = "steal", ![w].scan = scan, ![w].head = local[Head(scan)].head,
                                   ![w].loot = SubSeq(local[Head(scan)].items, 1, least(Head(scan)))]
    BY Zenon DEF Steal
  <2> DEFINE v == Head(scan)
             n == least(v)
  <2>4. /\ Scanning(w, scan) /\ th[w].pc \in {"pop", "add", "scan"} /\ v \in Workers /\ v # w
        /\ v # cpu_queue
    BY <2>3, <1>ScanOn, WorkerNumbers
  <2>5. /\ local[v].head \in Nat /\ local[v].items \in Seq(Items) /\ Len(local[v].items) \in Nat
        /\ Len(local[w].items) \in Nat /\ Len(local[w].items) <= N /\ N \in Nat \ {0}
    BY <2>1, <2>4, LenProperties, SchedulerConstants DEF TypeInv, QueueType, CopyInv
  <2>6. half(v) \in 0 .. Len(local[v].items) /\ (half(v) = 0 => Len(local[v].items) = 0) BY Zenon, <2>5, <1>Half
  <2> HIDE DEF half
  <2>7. /\ n \in 0 .. Len(local[v].items) /\ n + Len(local[w].items) <= N
        /\ n = 0 => half(v) = 0 \/ Len(local[w].items) = N
    <3> DEFINE h == half(v)
               k == Len(local[v].items)
               m == Len(local[w].items)
    <3>1. h \in 0 .. k /\ k \in Nat /\ m \in Nat /\ m <= N /\ N \in Nat BY Zenon, <2>5, <2>6
    <3>2. n = IF h <= N - m THEN h ELSE N - m OBVIOUS
    <3> HIDE DEF h, k, m, n
    <3>3. n \in 0 .. k /\ n + m <= N /\ (n = 0 => h = 0 \/ m = N) BY <3>1, <3>2
    <3> QED BY Zenon, <3>3 DEF h, k, m
  <2> HIDE DEF least
  <2>8. CASE n = 0
    <3>1. th' = NotHere(w, scan) BY <2>3, <2>8
    <3>2. Tail(scan) \in Seq(Nat) /\ w \notin Range(scan) BY <2>4, <1>ScanTail DEF Scanning
    <3>3. GoesTo(w, "scan", Tail(scan), 0, <<>>) BY <3>1, <3>2, <1>NotHereGoes
    <3>4. Only(w) BY <3>3 DEF GoesTo
    <3>5. ASSUME th[w].slot = "Sleep", ~unpark[w], MissedNothing(w) PROVE local[v].items = <<>>
      <4>1. local[w].items = <<>> BY <2>4, <3>2, <3>5 DEF MissedNothing, Scanning
      <4>2. Len(local[w].items) # N BY <2>5, <4>1, EmptySeq
      <4>3. Len(local[v].items) = 0 BY <2>6, <2>7, <2>8, <4>2
      <4> QED BY <2>5, <4>3, EmptySeq
    <3>6. ShapeInv' /\ SlotInv' /\ GlobalInv' /\ LocalInv' /\ CopyInv'
      BY <2>2, <2>4, <3>3, <3>5, <1>PassKeeps DEF waiter
    <3>7. TypeInv' BY Zenon, <2>1, <2>2, <3>4, TypeKept DEF TypeInv
    <3> QED BY <3>6, <3>7
  <2>9. CASE n # 0
    <3> DEFINE loot == SubSeq(local[v].items, 1, n)
    <3>1. n \in 1 .. Len(local[v].items) BY <2>5, <2>7, <2>9
    <3>2. loot \in Seq(Items) /\ Len(loot) = n /\ loot # <<>> BY <2>5, <3>1, Firsts
    <3>3. th' = [th EXCEPT ![w].pc = "steal", ![w].scan = scan, ![w].head = local[v].head,
                           ![w].loot = loot]
      BY <2>3, <2>9
    <3>4. loot = SubSeq(local[v].items, 1, Len(loot)) BY <3>2
    <3> HIDE DEF loot
    <3>5. GoesTo(w, "steal", scan, local[v].head, loot)
      <4>1. "steal" \in Pcs /\ scan \in Seq(Nat) BY <2>4 DEF Pcs, Scanning
      <4> QED BY Zenon, <2>5, <3>2, <3>3, <4>1, <1>LoadsGoes
    <3>6. Only(w) BY <3>5 DEF GoesTo
    <3>7. CopyOK(w)'
      <4>1. local[v].head <= local[v].head /\ Len(loot) <= Len(local[v].items)
        BY <2>5, <3>1, <3>2
      <4>2. /\ th'[w].pc = "steal" /\ th'[w].scan = scan /\ th'[w].head = local[v].head
            /\ th'[w].loot = loot
        BY <3>5 DEF GoesTo
      <4> QED BY <2>2, <2>7, <3>2, <3>4, <4>1, <4>2 DEF CopyOK
    <3>8. ShapeInv' /\ SlotInv' /\ GlobalInv' /\ LocalInv' /\ CopyInv'
      BY <2>2, <2>4, <3>2, <3>5, <3>7, <1>StayKeeps DEF waiter
    <3>9. TypeInv' BY Zenon, <2>1, <2>2, <3>6, TypeKept DEF TypeInv
    <3> QED BY <3>8, <3>9
  <2> QED BY <2>8, <2>9

<1>LessOne. ASSUME NEW n \in Nat \ {0} PROVE (IF 1 <= n - 1 THEN (n - 1) - 1 + 1 ELSE 0) = n - 1
  BY <1>LessOne

\* n items go from a queue of a to one of b.
<1>Moved.
    ASSUME NEW a \in Nat, NEW b \in Nat, NEW n \in Nat \ {0}, NEW m \in Nat, n <= a, n + b <= m, a <= m
    PROVE  n \in 1 .. a /\ a - n <= a /\ a - n <= m /\ b + (n - 1) <= m
  BY <1>Moved

\* All but the last
<1>AllButLast.
    ASSUME NEW S, NEW s \in Seq(S), s # <<>>
    PROVE  pop_back(s) \in Seq(S) /\ Len(pop_back(s)) = Len(s) - 1 /\ back(s) \in S /\ Len(s) \in Nat \ {0}
  <2> USE <1>AllButLast
  <2>1. Len(s) \in Nat \ {0} BY EmptySeq
  <2>2. Len(s) \in 1 .. Len(s) BY <2>1
  <2>3. back(s) \in S BY <2>2, ElementOfSeq DEF back
  <2>4. \A i \in 1 .. Len(s) - 1 : s[i] \in S
    <3>1. \A i \in 1 .. Len(s) - 1 : i \in 1 .. Len(s) BY <2>1
    <3> QED BY <3>1, ElementOfSeq
  <2>5. /\ SubSeq(s, 1, Len(s) - 1) \in Seq(S)
        /\ Len(SubSeq(s, 1, Len(s) - 1)) = IF 1 <= Len(s) - 1 THEN (Len(s) - 1) - 1 + 1 ELSE 0
    BY <2>1, <2>4, SubSeqProperties
  <2>6. (IF 1 <= Len(s) - 1 THEN (Len(s) - 1) - 1 + 1 ELSE 0) = Len(s) - 1 BY Zenon, <2>1, <1>LessOne
  <2> QED BY <2>1, <2>3, <2>5, <2>6 DEF pop_back

<1>StealExchangeKeeps. ASSUME IndInv, NEW w \in Workers, StealExchange(w) PROVE IndInv'
  <2> USE <1>StealExchangeKeeps
  <2> USE DEF IndInv
  <2> DEFINE e == th[w]
             v == Head(e.scan)
             n == Len(e.loot)
  <2>1. w \in Threads /\ e \in ThreadType /\ local[w] \in QueueType BY DEF Threads, TypeInv
  <2>2. /\ UNCHANGED <<global, nextItem, searching, parked, sleepers, unpark, spawn, done>>
        /\ e.pc = "steal"
    BY DEF StealExchange, waiter
  <2>3. /\ e.scan \in Seq(Nat) /\ e.scan # <<>> /\ v \in Workers /\ v # w /\ OwnFirst(w, e.scan)
        /\ e.loot \in Seq(Items) /\ e.loot # <<>>
    BY <2>1, <2>2 DEF ShapeInv, ShapeOK, ThreadType
  <2>4. CASE TakesHead(local[v], e.head)
    <3>1. /\ local' = [local EXCEPT ![v] = Without(@, n), ![w].items = @ \o pop_back(e.loot)]
          /\ th' = Got(w, back(e.loot))
      BY Zenon, <2>4 DEF StealExchange
    <3>2. /\ pop_back(e.loot) \in Seq(Items) /\ Len(pop_back(e.loot)) = n - 1 /\ back(e.loot) \in Items
          /\ n \in Nat \ {0}
      BY <2>3, <1>AllButLast
    <3>3. local[v] \in QueueType /\ Len(local[v].items) \in Nat /\ local[w].items \in Seq(Items)
          /\ Len(local[w].items) \in Nat
      BY Zenon, <2>1, <2>3, LenProperties DEF TypeInv, QueueType
    <3>4. /\ n <= Len(local[v].items) /\ n + Len(local[w].items) <= N /\ Len(local[v].items) <= N
          /\ N \in Nat
      <4>1. CopyOK(w) /\ Len(local[v].items) <= N BY <2>3 DEF CopyInv
      <4>2. e.head = local[v].head /\ N \in Nat BY <2>4, SchedulerConstants DEF TakesHead
      <4> QED BY Zenon, <2>2, <4>1, <4>2 DEF CopyOK
    <3>moved. /\ n \in 1 .. Len(local[v].items) /\ Len(local[v].items) - n <= Len(local[v].items)
              /\ Len(local[v].items) - n <= N /\ Len(local[w].items) + (n - 1) <= N
      <4> DEFINE a == Len(local[v].items)
                 b == Len(local[w].items)
      <4>1. a \in Nat /\ b \in Nat /\ n \in Nat \ {0} /\ N \in Nat /\ n <= a /\ n + b <= N /\ a <= N
        BY Zenon, <3>2, <3>3, <3>4
      <4> HIDE DEF a, b, n
      <4>2. n \in 1 .. a /\ a - n <= a /\ a - n <= N /\ b + (n - 1) <= N BY <4>1, <1>Moved
      <4> QED BY <4>2 DEF a, b
    <3>5. /\ Without(local[v], n) \in QueueType /\ Without(local[v], n).head > local[v].head
          /\ Len(Without(local[v], n).items) = Len(local[v].items) - n
      BY Zenon, <3>3, <3>moved, Taken
    <3> DEFINE r == [local[w] EXCEPT !.items = local[w].items \o pop_back(e.loot)]
    <3>6. /\ local[w].items \o pop_back(e.loot) \in Seq(Items)
          /\ Len(local[w].items \o pop_back(e.loot)) = Len(local[w].items) + (n - 1)
          /\ Len(local[w].items \o pop_back(e.loot)) >= Len(local[w].items)
          /\ \A k \in 1 .. Len(local[w].items) :
               SubSeq(local[w].items \o pop_back(e.loot), 1, k) = SubSeq(local[w].items, 1, k)
      BY Zenon, <3>2, <3>3, FirstsKept
    <3>7. r \in QueueType /\ r.head = local[w].head /\ r.items = local[w].items \o pop_back(e.loot)
      BY Zenon, <2>1, <3>6 DEF QueueType
    <3>8. /\ local' \in [Workers -> QueueType] /\ local'[w] = r /\ local'[v] = Without(local[v], n)
          /\ \A u \in Workers : u # w /\ u # v => local'[u] = local[u]
      <4>1. local' = [[local EXCEPT ![v] = Without(local[v], n)] EXCEPT ![w] = r]
        BY Zenon, <2>3, <3>1 DEF TypeInv
      <4> HIDE DEF r
      <4> QED BY Zenon, <2>3, <3>5, <3>7, <4>1 DEF TypeInv
    <3> HIDE DEF r
    <3>9. Shrinks(v) /\ Grows(w)
      BY Zenon, <3>5, <3>6, <3>7, <3>8, <3>moved DEF Shrinks, Grows
    <3>10. \A u \in Workers : Len(local'[u].items) <= N
      BY Zenon, <3>5, <3>6, <3>7, <3>8, <3>moved DEF CopyInv
    <3>11. Finds(w, back(e.loot)) BY <3>1, <3>2, <1>GotFinds DEF Work0
    <3>12. Only(w) /\ th'[w].pc \in {"run", "unsearch", "stop_wait"}
      BY <2>1, <3>11 DEF Finds, ThreadType
    <3>13. CopyOK(w)' BY <3>12 DEF CopyOK
    <3>14. CopyInv' BY <3>8, <3>9, <3>10, <3>12, <3>13, CopyMoved
    <3>15. ShapeInv' /\ SlotInv' /\ GlobalInv' /\ LocalInv'
      BY <2>2, <3>11, <1>FindsKeeps DEF waiter
    <3>16. TypeInv' BY Zenon, <2>1, <2>2, <3>8, <3>12, TypeKept DEF TypeInv
    <3> QED BY <3>14, <3>15, <3>16
  <2>5. CASE ~TakesHead(local[v], e.head)
    <3>1. /\ th' = [th EXCEPT ![w].pc = "scan", ![w].head = 0, ![w].loot = <<>>] /\ local' = local
      BY <2>5 DEF StealExchange
    <3>2. Scanning(w, e.scan) BY <2>2, <2>3 DEF Scanning
    <3>3. GoesTo(w, "scan", e.scan, 0, <<>>)
      <4> DEFINE r == [e EXCEPT !.pc = "scan", !.head = 0, !.loot = <<>>]
      <4>1. r \in ThreadType BY Zenon, <2>1, EmptySeq DEF ThreadType, Pcs
      <4>2. th' = [th EXCEPT ![w] = r] BY Zenon, <2>1, <3>1 DEF TypeInv, ThreadType
      <4>3. Only(w) /\ th'[w] = r BY Zenon, <2>1, <4>1, <4>2, Updates
      <4> QED BY <2>1, <4>3 DEF GoesTo, ThreadType
    <3>4. Only(w) BY <3>3 DEF GoesTo
    <3>5. CopyOK(w)' BY <3>3 DEF CopyOK, GoesTo
    <3>6. ShapeInv' /\ SlotInv' /\ GlobalInv' /\ LocalInv' /\ CopyInv'
      BY <2>2, <3>1, <3>2, <3>3, <3>5, <1>StayKeeps DEF waiter
    <3>7. TypeInv' BY Zenon, <2>1, <2>2, <3>1, <3>4, TypeKept DEF TypeInv
    <3> QED BY <3>6, <3>7
  <2> QED BY <2>4, <2>5

<1> QED BY <1>PopLocalKeeps, <1>PopLocalExchangeKeeps, <1>PopGlobalKeeps, <1>StealKeeps,
           <1>StealExchangeKeeps

-----------------------------------------------------------------------------
(* The steps that run work and add it                                      *)

\* The steps that run an item and that add items to the queues keep the invariant.
LEMMA AddKeeps ==
  /\ \A w \in Workers :
       IndInv /\ (Run(w) \/ AddLocal(w) \/ LocalPush(w) \/ Overflow(w) \/ Spill(w)) => IndInv'
  /\ \A t \in Threads : IndInv /\ AddGlobal(t) => IndInv'

<1>RunKeeps. ASSUME IndInv, NEW w \in Workers, Run(w) PROVE IndInv'
  <2> USE <1>RunKeeps
  <2> USE DEF IndInv
  <2> DEFINE e == th[w]
  <2>1. w \in Threads /\ e \in ThreadType /\ w # io BY Zenon, WorkerNumbers DEF Threads, TypeInv
  <2>2. /\ UNCHANGED <<global, nextItem, local, searching, parked, sleepers, unpark, spawn>>
        /\ UNCHANGED waiter /\ e.pc = "run" /\ e.pc # "exited" /\ e.slot = "Work"
    BY <2>1 DEF Run, queues, waiter, ShapeInv, ShapeOK
  <2>3. PICK r \in ThreadType :
          /\ th' = [th EXCEPT ![w] = r] /\ r.pc \in {"exited", "add"} /\ r.slot = "Work"
          /\ done' \in [Items -> Nat]
    <3>1. CASE e.item = Stop
      <4> DEFINE r == [e EXCEPT !.pc = "exited"]
      <4>1. th' = [th EXCEPT ![w].pc = "exited"] /\ done' = done BY <3>1 DEF Run
      <4>2. r \in ThreadType /\ r.pc = "exited" /\ r.slot = "Work" BY Zenon, <2>1, <2>2 DEF ThreadType, Pcs
      <4>3. th' = [th EXCEPT ![w] = r] BY <2>1, <4>1 DEF TypeInv, ThreadType
      <4> QED BY Zenon, <4>1, <4>2, <4>3 DEF TypeInv
    <3>2. CASE e.item # Stop
      <4> DEFINE r == [e EXCEPT !.pc = "add", !.item = Stop, !.out = spawn[e.item], !.after = "add"]
      <4>1. /\ th' = [th EXCEPT ![w].pc = "add", ![w].item = Stop, ![w].out = spawn[e.item],
                                ![w].after = "add"]
            /\ done' = [done EXCEPT ![e.item] = @ + 1]
        BY <3>2 DEF Run
      <4>2. e.item \in Items /\ spawn[e.item] \in Seq(Work0) /\ Stop \in Work0
        BY Zenon, <2>1, <3>2 DEF ThreadType, Work0, TypeInv
      <4>3. r \in ThreadType /\ r.pc = "add" /\ r.slot = "Work" BY Zenon, <2>1, <2>2, <4>2 DEF ThreadType, Pcs
      <4>4. th' = [th EXCEPT ![w] = r] BY Zenon, <2>1, <4>1 DEF TypeInv, ThreadType
      <4>5. done' \in [Items -> Nat] BY <4>1, <4>2 DEF TypeInv
      <4> QED BY Zenon, <4>3, <4>4, <4>5
    <3> QED BY <3>1, <3>2
  <2>4. Only(w) /\ th'[w] = r BY Zenon, <2>1, <2>3, Updates
  <2>5. th'[w].pc \in {"exited", "add"} /\ th'[w].slot = "Work" BY <2>3, <2>4
  <2>6. ShapeOK(w)' BY <2>1, <2>5 DEF ShapeOK
  <2>7. ShapeInv' /\ SlotInv' /\ Searchers' = Searchers /\ LocalInv' /\ ~LooksYet(w)
    BY <2>1, <2>2, <2>4, <2>5, <2>6, BusyKeeps
  <2>8. w \notin Announcing BY <2>2 DEF Announcing
  <2>9. GlobalInv' BY <2>1, <2>2, <2>4, <2>7, <2>8, GlobalKept
  <2>10. CopyOK(w)' BY <2>5 DEF CopyOK
  <2>11. CopyInv' BY <2>1, <2>2, <2>4, <2>10, CopyKept
  <2>12. TypeInv' BY Zenon, <2>1, <2>2, <2>3, <2>4, TypeKept DEF TypeInv
  <2> QED BY <2>7, <2>9, <2>11, <2>12

<1>AddGlobalKeeps. ASSUME IndInv, NEW t \in Threads, AddGlobal(t) PROVE IndInv'
  <2> USE <1>AddGlobalKeeps
  <2> USE DEF IndInv
  <2> DEFINE e == th[t]
             r == [e EXCEPT !.out = Tail(e.out), !.pc = "notify"]
  <2>1. e \in ThreadType /\ e.out \in Seq(Work0) BY Zenon DEF TypeInv, ThreadType
  <2>2. /\ UNCHANGED <<nextItem, local, searching, parked, sleepers, unpark, spawn, done>>
        /\ UNCHANGED waiter /\ e.pc = "add" /\ e.pc # "exited" /\ e.slot = "Work" /\ e.out # <<>>
        /\ global' = Append(global, Head(e.out)) /\ th' = [th EXCEPT ![t].out = Tail(@), ![t].pc = "notify"]
    BY DEF AddGlobal, waiter, ShapeInv, ShapeOK
  <2>3. Head(e.out) \in Work0 /\ Tail(e.out) \in Seq(Work0) BY <2>1, <2>2, RangeTail
  <2>4. r \in ThreadType BY Zenon, <2>1, <2>3 DEF ThreadType, Pcs
  <2>5. th' = [th EXCEPT ![t] = r] BY Zenon, <2>1, <2>2 DEF TypeInv, ThreadType
  <2>6. Only(t) /\ th'[t] = r BY Zenon, <2>4, <2>5, Updates
  <2>7. th'[t].pc = "notify" /\ th'[t].slot = "Work" /\ th'[t].after = e.after
    BY Zenon, <2>1, <2>2, <2>6 DEF ThreadType
  <2>8. ShapeOK(t)'
    <3>1. ShapeOK(t) BY DEF ShapeInv
    <3> QED BY <2>7, <3>1 DEF ShapeOK
  <2>9. ShapeInv' /\ SlotInv' /\ LocalInv' BY Zenon, <2>2, <2>6, <2>7, <2>8, BusyKeeps
  <2>10. GlobalInv' BY <2>7, GlobalAnnounced
  <2>11. CopyOK(t)' BY <2>7 DEF CopyOK
  <2>12. CopyInv' BY <2>2, <2>6, <2>11, CopyKept
  <2>13. global' \in Seq(Work0) BY <2>2, <2>3, AppendProperties DEF TypeInv
  <2>14. TypeInv' BY Zenon, <2>2, <2>6, <2>13, TypeKept DEF TypeInv
  <2> QED BY <2>9, <2>10, <2>12, <2>14

<1>AddLocalKeeps. ASSUME IndInv, NEW w \in Workers, AddLocal(w) PROVE IndInv'
  <2> USE <1>AddLocalKeeps
  <2> USE DEF IndInv
  <2> DEFINE e == th[w]
             free == nextItem[w] = <<>>
             item == IF free THEN Stop ELSE Head(nextItem[w])
             pc == IF free THEN "add" ELSE "push"
             r == [e EXCEPT !.out = Tail(e.out), !.item = item, !.pc = pc]
  <2>1. w \in Threads /\ e \in ThreadType /\ e.out \in Seq(Work0) /\ w # io
    BY Zenon, WorkerNumbers DEF Threads, TypeInv, ThreadType
  <2>2. /\ UNCHANGED <<global, local, searching, parked, sleepers, unpark, spawn, done>>
        /\ UNCHANGED waiter /\ e.pc = "add" /\ e.pc # "exited" /\ e.slot = "Work" /\ e.out # <<>>
        /\ Head(e.out) # Stop /\ nextItem' = [nextItem EXCEPT ![w] = <<Head(e.out)>>]
        /\ th' = [th EXCEPT ![w].out = Tail(@), ![w].item = item, ![w].pc = pc]
    BY <2>1 DEF AddLocal, waiter, ShapeInv, ShapeOK
  <2>3. Head(e.out) \in Items /\ Tail(e.out) \in Seq(Work0)
    <3>1. Head(e.out) \in Work0 /\ Tail(e.out) \in Seq(Work0) BY <2>1, <2>2, RangeTail
    <3> QED BY <2>2, <3>1 DEF Work0
  <2>4. item \in Work0 /\ pc \in {"add", "push"} /\ (pc = "push" => item # Stop)
    <3>1. nextItem[w] \in Seq(Items) /\ Stop \notin Items BY DEF TypeInv
    <3>2. ~free => Head(nextItem[w]) \in Items BY <3>1, RangeTail
    <3> QED BY <3>1, <3>2 DEF Work0
  <2> HIDE DEF item, pc
  <2>5. r \in ThreadType BY Zenon, <2>1, <2>3, <2>4 DEF ThreadType, Pcs
  <2>6. th' = [th EXCEPT ![w] = r] BY Zenon, <2>1, <2>2 DEF TypeInv, ThreadType
  <2>7. Only(w) /\ th'[w] = r BY Zenon, <2>1, <2>5, <2>6, Updates
  <2>8. th'[w].pc = pc /\ th'[w].slot = "Work" /\ th'[w].item = item
    BY <2>1, <2>2, <2>7 DEF ThreadType
  <2>9. ShapeOK(w)' BY <2>1, <2>4, <2>8 DEF ShapeOK
  <2>10. ShapeInv' /\ SlotInv' /\ Searchers' = Searchers /\ LocalInv' /\ ~LooksYet(w)
    BY Zenon, <2>1, <2>2, <2>4, <2>7, <2>8, <2>9, BusyKeeps
  <2>11. w \notin Announcing BY <2>2 DEF Announcing
  <2>12. GlobalInv' BY <2>1, <2>2, <2>7, <2>10, <2>11, GlobalKept
  <2>13. CopyOK(w)' BY <2>4, <2>8 DEF CopyOK
  <2>14. CopyInv' BY <2>1, <2>2, <2>7, <2>13, CopyKept
  <2>15. nextItem' \in [Workers -> Seq(Items)] /\ \A u \in Workers : Len(nextItem'[u]) <= 1
    <3>1. <<Head(e.out)>> \in Seq(Items) /\ Len(<<Head(e.out)>>) <= 1 BY <2>3
    <3> QED BY <2>2, <3>1 DEF TypeInv
  <2>16. TypeInv' BY Zenon, <2>1, <2>2, <2>7, <2>15, TypeKept DEF TypeInv
  <2> QED BY <2>10, <2>12, <2>14, <2>16

<1>LocalPushKeeps. ASSUME IndInv, NEW w \in Workers, LocalPush(w) PROVE IndInv'
  <2> USE <1>LocalPushKeeps
  <2> USE DEF IndInv
  <2> DEFINE e == th[w]
             q == local[w]
  <2>1. /\ w \in Threads /\ e \in ThreadType /\ w # io /\ q \in QueueType
        /\ q.items \in Seq(Items) /\ Len(q.items) \in Nat /\ q.head \in Nat
    BY WorkerNumbers, LenProperties DEF Threads, TypeInv, QueueType
  <2>2. /\ UNCHANGED <<global, nextItem, searching, parked, sleepers, unpark, spawn, done>>
        /\ UNCHANGED waiter /\ e.pc = "push" /\ e.pc # "exited" /\ e.slot = "Work" /\ e.item # Stop
    BY <2>1 DEF LocalPush, waiter, ShapeInv, ShapeOK
  <2>3. e.item \in Items BY <2>1, <2>2 DEF ThreadType, Work0
  <2>4. CASE HasRoom(q)
    <3> DEFINE r == [e EXCEPT !.item = Stop, !.pc = "notify"]
               items == Append(q.items, e.item)
               p == [q EXCEPT !.items = items]
    <3>1. /\ local' = [local EXCEPT ![w].items = Append(@, e.item)]
          /\ th' = [th EXCEPT ![w].item = Stop, ![w].pc = "notify"]
      BY <2>4 DEF LocalPush
    <3>2. /\ items \in Seq(Items) /\ Len(items) = Len(q.items) + 1
          /\ \A n \in 1 .. Len(q.items) : SubSeq(items, 1, n) = SubSeq(q.items, 1, n)
      <4>1. <<e.item>> \in Seq(Items) /\ Len(<<e.item>>) = 1 BY <2>3
      <4>2. items = q.items \o <<e.item>> BY Zenon, <2>1, <2>3, AppendIsConcat
      <4> QED BY <2>1, <4>1, <4>2, FirstsKept
    <3> HIDE DEF items
    <3>3. p \in QueueType /\ p.head = q.head /\ p.items = items BY <2>1, <3>2 DEF QueueType
    <3>4. local' = [local EXCEPT ![w] = p] BY <2>1, <3>1 DEF TypeInv, QueueType, items
    <3>5. /\ local' \in [Workers -> QueueType] /\ local'[w] = p
          /\ \A u \in Workers : u # w => local'[u] = local[u]
      BY <3>3, <3>4 DEF TypeInv
    <3>6. Grows(w) BY <2>1, <3>2, <3>3, <3>5 DEF Grows
    <3>7. \A u \in Workers : Len(local'[u].items) <= N
      <4>1. Len(q.items) + 1 <= N BY <2>1, <2>4, SchedulerConstants DEF HasRoom
      <4> QED BY Zenon, <3>2, <3>3, <3>5, <4>1 DEF CopyInv
    <3>8. r \in ThreadType BY Zenon, <2>1 DEF ThreadType, Pcs, Work0
    <3>9. th' = [th EXCEPT ![w] = r] BY Zenon, <2>1, <3>1 DEF TypeInv, ThreadType
    <3>10. Only(w) /\ th'[w] = r BY Zenon, <2>1, <3>8, <3>9, Updates
    <3>11. th'[w].pc = "notify" /\ th'[w].slot = "Work" BY <2>1, <2>2, <3>10 DEF ThreadType
    <3>12. ShapeOK(w)' BY <2>1, <3>11 DEF ShapeOK
    <3>13. ShapeInv' /\ SlotInv' /\ LocalInv' BY Zenon, <2>1, <2>2, <3>10, <3>11, <3>12, BusyKeeps
    <3>14. GlobalInv' BY <2>1, <3>11, GlobalAnnounced
    <3>15. CopyOK(w)' BY <3>11 DEF CopyOK
    <3>16. CopyInv' BY <3>5, <3>6, <3>7, <3>10, <3>15, CopyMoved
    <3>17. TypeInv' BY Zenon, <2>1, <2>2, <3>5, <3>10, TypeKept DEF TypeInv
    <3> QED BY <3>13, <3>14, <3>16, <3>17
  <2>5. CASE ~HasRoom(q)
    <3> DEFINE r == [e EXCEPT !.head = q.head, !.pc = "overflow"]
    <3>1. /\ th' = [th EXCEPT ![w].head = q.head, ![w].pc = "overflow"] /\ local' = local
      BY <2>5 DEF LocalPush
    <3>2. r \in ThreadType BY Zenon, <2>1 DEF ThreadType, Pcs
    <3>3. th' = [th EXCEPT ![w] = r] BY Zenon, <2>1, <3>1 DEF TypeInv, ThreadType
    <3>4. Only(w) /\ th'[w] = r BY Zenon, <2>1, <3>2, <3>3, Updates
    <3>5. /\ th'[w].pc = "overflow" /\ th'[w].slot = "Work" /\ th'[w].item = e.item
          /\ th'[w].head = q.head
      BY <2>1, <2>2, <3>4 DEF ThreadType
    <3>6. ShapeOK(w)' BY <2>1, <2>2, <3>5 DEF ShapeOK
    <3>7. ShapeInv' /\ SlotInv' /\ Searchers' = Searchers /\ LocalInv' /\ ~LooksYet(w)
      BY Zenon, <2>1, <2>2, <3>4, <3>5, <3>6, BusyKeeps
    <3>8. w \notin Announcing BY <2>2 DEF Announcing
    <3>9. GlobalInv' BY <2>1, <2>2, <3>4, <3>7, <3>8, GlobalKept
    <3>10. Len(q.items) = N
      <4>1. Len(q.items) <= N BY Zenon DEF CopyInv
      <4>2. N \in Nat BY SchedulerConstants
      <4> QED BY <2>1, <2>5, <4>1, <4>2 DEF HasRoom
    <3>11. CopyOK(w)'
      <4>1. th'[w].head <= q.head BY <2>1, <3>5
      <4> QED BY <3>1, <3>5, <3>10, <4>1 DEF CopyOK
    <3>12. CopyInv' BY <2>1, <3>1, <3>4, <3>11, CopyKept
    <3>13. TypeInv' BY Zenon, <2>1, <2>2, <3>1, <3>4, TypeKept DEF TypeInv
    <3> QED BY <3>7, <3>9, <3>12, <3>13
  <2> QED BY <2>4, <2>5

<1>HalfAndOne. ASSUME NEW n \in Nat \ {0, 1} PROVE n \div 2 + 1 \in 1 .. n
  BY <1>HalfAndOne

<1>OverflowKeeps. ASSUME IndInv, NEW w \in Workers, Overflow(w) PROVE IndInv'
  <2> USE <1>OverflowKeeps
  <2> USE DEF IndInv
  <2> DEFINE e == th[w]
             q == local[w]
             n == N \div 2 + 1
  <2>1. /\ w \in Threads /\ e \in ThreadType /\ w # io /\ q \in QueueType
        /\ q.items \in Seq(Items) /\ Len(q.items) \in Nat /\ q.head \in Nat
    BY WorkerNumbers, LenProperties DEF Threads, TypeInv, QueueType
  <2>2. /\ UNCHANGED <<global, nextItem, searching, parked, sleepers, unpark, spawn, done>>
        /\ UNCHANGED waiter /\ e.pc = "overflow" /\ e.pc # "exited" /\ e.slot = "Work" /\ e.item # Stop
    BY <2>1 DEF Overflow, waiter, ShapeInv, ShapeOK
  <2>3. e.item \in Items BY <2>1, <2>2 DEF ThreadType, Work0
  <2>4. n \in 1 .. N BY SchedulerConstants, <1>HalfAndOne
  <2>5. CASE TakesHead(q, e.head)
    <3> DEFINE loot == Append(SubSeq(q.items, 1, n), e.item)
               r == [e EXCEPT !.pc = "spill", !.item = Stop, !.head = 0, !.loot = loot]
    <3>1. /\ local' = [local EXCEPT ![w] = Without(q, n)]
          /\ th' = [th EXCEPT ![w].pc = "spill", ![w].item = Stop, ![w].head = 0, ![w].loot = loot]
      BY Zenon, <2>5 DEF Overflow
    <3>2. Len(q.items) = N BY Zenon, <2>2, <2>5 DEF CopyInv, CopyOK, TakesHead
    <3>3. n \in 1 .. Len(q.items) BY <2>4, <3>2
    <3> HIDE DEF n
    <3>4. loot \in Seq(Items) /\ loot # <<>>
      <4> DEFINE s == SubSeq(q.items, 1, n)
      <4>1. s \in Seq(Items) BY <2>1, <3>3, Firsts
      <4> HIDE DEF s
      <4>2. Append(s, e.item) \in Seq(Items) /\ Append(s, e.item) # <<>> BY <2>3, <4>1, AppendProperties
      <4> QED BY <4>2 DEF s
    <3> HIDE DEF loot
    <3>5. /\ Without(q, n) \in QueueType /\ Without(q, n).head > q.head
          /\ Len(Without(q, n).items) = Len(q.items) - n
      BY Zenon, <2>1, <3>3, Taken
    <3>6. /\ local' \in [Workers -> QueueType] /\ local'[w] = Without(q, n)
          /\ \A u \in Workers : u # w => local'[u] = local[u]
      BY <3>1, <3>5 DEF TypeInv
    <3>7. Len(q.items) - n <= Len(q.items) /\ Len(q.items) - n <= N BY <2>1, <3>2, <3>3
    <3>8. Shrinks(w) BY <3>5, <3>6, <3>7 DEF Shrinks
    <3>9. \A u \in Workers : Len(local'[u].items) <= N BY <3>5, <3>6, <3>7 DEF CopyInv
    <3>10. r \in ThreadType BY Zenon, <2>1, <3>4 DEF ThreadType, Pcs, Work0
    <3>11. th' = [th EXCEPT ![w] = r] BY Zenon, <2>1, <3>1 DEF TypeInv, ThreadType
    <3>12. Only(w) /\ th'[w] = r BY Zenon, <2>1, <3>10, <3>11, Updates
    <3>13. th'[w].pc = "spill" /\ th'[w].slot = "Work" /\ th'[w].loot = loot
      BY <2>1, <2>2, <3>12 DEF ThreadType
    <3>14. ShapeOK(w)' BY <2>1, <3>4, <3>13 DEF ShapeOK
    <3>15. ShapeInv' /\ SlotInv' /\ LocalInv' BY Zenon, <2>1, <2>2, <3>12, <3>13, <3>14, BusyKeeps
    <3>16. GlobalInv' BY <2>1, <3>13, GlobalAnnounced
    <3>17. CopyOK(w)' BY <3>13 DEF CopyOK
    <3>18. CopyInv' BY <3>6, <3>8, <3>9, <3>12, <3>17, CopyMoved
    <3>19. TypeInv' BY Zenon, <2>1, <2>2, <3>6, <3>12, TypeKept DEF TypeInv
    <3> QED BY <3>15, <3>16, <3>18, <3>19
  <2>6. CASE ~TakesHead(q, e.head)
    <3> DEFINE r == [e EXCEPT !.pc = "push", !.head = 0]
    <3>1. th' = [th EXCEPT ![w].pc = "push", ![w].head = 0] /\ local' = local BY <2>6 DEF Overflow
    <3>2. r \in ThreadType BY Zenon, <2>1 DEF ThreadType, Pcs
    <3>3. th' = [th EXCEPT ![w] = r] BY Zenon, <2>1, <3>1 DEF TypeInv, ThreadType
    <3>4. Only(w) /\ th'[w] = r BY Zenon, <2>1, <3>2, <3>3, Updates
    <3>5. th'[w].pc = "push" /\ th'[w].slot = "Work" /\ th'[w].item = e.item
      BY <2>1, <2>2, <3>4 DEF ThreadType
    <3>6. ShapeOK(w)' BY <2>1, <2>2, <3>5 DEF ShapeOK
    <3>7. ShapeInv' /\ SlotInv' /\ Searchers' = Searchers /\ LocalInv' /\ ~LooksYet(w)
      BY Zenon, <2>1, <2>2, <3>4, <3>5, <3>6, BusyKeeps
    <3>8. w \notin Announcing BY <2>2 DEF Announcing
    <3>9. GlobalInv' BY <2>1, <2>2, <3>4, <3>7, <3>8, GlobalKept
    <3>10. CopyOK(w)' BY <3>5 DEF CopyOK
    <3>11. CopyInv' BY <2>1, <3>1, <3>4, <3>10, CopyKept
    <3>12. TypeInv' BY Zenon, <2>1, <2>2, <3>1, <3>4, TypeKept DEF TypeInv
    <3> QED BY <3>7, <3>9, <3>11, <3>12
  <2> QED BY <2>5, <2>6

<1>SpillKeeps. ASSUME IndInv, NEW w \in Workers, Spill(w) PROVE IndInv'
  <2> USE <1>SpillKeeps
  <2> USE DEF IndInv
  <2> DEFINE e == th[w]
             pc == IF Len(e.loot) = 1 THEN "notify" ELSE "spill"
             r == [e EXCEPT !.loot = Tail(e.loot), !.pc = pc]
  <2>1. w \in Threads /\ e \in ThreadType /\ e.loot \in Seq(Items) /\ w # io
    BY Zenon, WorkerNumbers DEF Threads, TypeInv, ThreadType
  <2>2. /\ UNCHANGED <<nextItem, local, searching, parked, sleepers, unpark, spawn, done>>
        /\ UNCHANGED waiter /\ e.pc = "spill" /\ e.pc # "exited" /\ e.slot = "Work" /\ e.loot # <<>>
        /\ global' = Append(global, Head(e.loot))
        /\ th' = [th EXCEPT ![w].loot = Tail(@), ![w].pc = IF Len(e.loot) = 1 THEN "notify" ELSE @]
    BY <2>1 DEF Spill, waiter, ShapeInv, ShapeOK
  <2>3. /\ Head(e.loot) \in Work0 /\ Tail(e.loot) \in Seq(Items)
        /\ Len(e.loot) # 1 => Tail(e.loot) # <<>>
    <3>1. /\ Head(e.loot) \in Items /\ Tail(e.loot) \in Seq(Items)
          /\ Len(e.loot) \in Nat \ {0} /\ Len(Tail(e.loot)) = Len(e.loot) - 1
      BY <2>1, <2>2, RangeTail
    <3>2. Len(e.loot) # 1 => Len(Tail(e.loot)) # 0 BY <3>1
    <3> QED BY Zenon, <3>1, <3>2, EmptySeq DEF Work0
  <2>4. r \in ThreadType BY Zenon, <2>1, <2>3 DEF ThreadType, Pcs
  <2>5. th' = [th EXCEPT ![w] = r] BY Zenon, <2>1, <2>2 DEF TypeInv, ThreadType
  <2>6. Only(w) /\ th'[w] = r BY Zenon, <2>1, <2>4, <2>5, Updates
  <2>7. th'[w].pc = pc /\ th'[w].slot = "Work" /\ th'[w].loot = Tail(e.loot)
    BY Zenon, <2>1, <2>2, <2>6 DEF ThreadType
  <2>8. ShapeOK(w)' BY Zenon, <2>1, <2>3, <2>7 DEF ShapeOK
  <2>9. ShapeInv' /\ SlotInv' /\ LocalInv' BY Zenon, <2>1, <2>2, <2>6, <2>7, <2>8, BusyKeeps
  <2>10. GlobalInv' BY <2>1, <2>7, GlobalAnnounced
  <2>11. CopyOK(w)' BY <2>7 DEF CopyOK
  <2>12. CopyInv' BY <2>1, <2>2, <2>6, <2>11, CopyKept
  <2>13. global' \in Seq(Work0) BY <2>2, <2>3, AppendProperties DEF TypeInv
  <2>14. TypeInv' BY Zenon, <2>1, <2>2, <2>6, <2>13, TypeKept DEF TypeInv
  <2> QED BY <2>9, <2>10, <2>12, <2>14

<1> QED BY <1>RunKeeps, <1>AddLocalKeeps, <1>LocalPushKeeps, <1>OverflowKeeps, <1>SpillKeeps,
           <1>AddGlobalKeeps

-----------------------------------------------------------------------------
(* The steps of the waiter                                                 *)

\* What the proofs use of Cardinality: it is a number, it is 0 for the empty
\* set only, and one more element makes it greater by 1.
Counting ==
  /\ Cardinality({}) = 0
  /\ \A S \in SUBSET Workers :
       /\ Cardinality(S) \in Nat /\ (Cardinality(S) = 0 => S = {})
       /\ \A w \in Workers \ S : Cardinality(S \cup {w}) = Cardinality(S) + 1

\* A worker ceases to search.
Leaves(w) == w \in Searchers /\ Searchers' = Searchers \ {w}

\* MpmcSleepyWaiter: the steps of wait, stop_wait and notify keep the invariant.
LEMMA WaiterKeeps ==
  Counting =>
  /\ \A w \in Workers : IndInv /\ (Wait(w) \/ Park(w) \/ StopWait(w) \/ Unsearch(w)) => IndInv'
  /\ \A t \in Threads : IndInv /\ (Notify(t) \/ NotifyLocked(t)) => IndInv'

\* Adding an element that is not there
<1>AppendFacts.
    ASSUME NEW S, NEW s \in Seq(S), NEW e \in S, e \notin Range(s), IsInjective(s)
    PROVE  /\ Append(s, e) \in Seq(S) /\ Len(Append(s, e)) = Len(s) + 1
           /\ IsInjective(Append(s, e)) /\ Range(Append(s, e)) = Range(s) \cup {e}
  <2> USE <1>AppendFacts
  <2> DEFINE r == Append(s, e)
  <2>1. /\ r \in Seq(S) /\ Len(r) = Len(s) + 1 /\ Len(s) \in Nat /\ r[Len(s) + 1] = e
        /\ \A i \in 1 .. Len(s) : r[i] = s[i]
    BY AppendProperties, LenProperties
  <2>2. DOMAIN r = 1 .. Len(s) + 1 /\ DOMAIN s = 1 .. Len(s) BY <2>1, LenProperties
  <2>3. Range(s) = {s[i] : i \in 1 .. Len(s)} /\ Range(r) = {r[i] : i \in 1 .. Len(s) + 1}
    BY Zenon, <2>1, RangeEquality
  <2> HIDE DEF r
  <2>4. \A i \in 1 .. Len(s) + 1 : i \in 1 .. Len(s) \/ i = Len(s) + 1 BY <2>1
  <2>5. \A i \in 1 .. Len(s) : r[i] # e BY <2>1, <2>3
  <2>6. IsInjective(r)
    <3> SUFFICES ASSUME NEW a \in DOMAIN r, NEW b \in DOMAIN r, r[a] = r[b] PROVE a = b
      BY DEF IsInjective
    <3>1. CASE a = Len(s) + 1 \/ b = Len(s) + 1 BY <2>1, <2>2, <2>4, <2>5, <3>1
    <3>2. CASE a \in 1 .. Len(s) /\ b \in 1 .. Len(s) BY <2>1, <2>2, <3>2 DEF IsInjective
    <3> QED BY <2>2, <2>4, <3>1, <3>2
  <2>7. 1 .. Len(s) \subseteq 1 .. Len(s) + 1 /\ Len(s) + 1 \in 1 .. Len(s) + 1 BY <2>1
  <2>8. Range(r) = Range(s) \cup {e} BY <2>1, <2>3, <2>4, <2>7
  <2> QED BY <2>1, <2>6, <2>8 DEF r

\* Taking one of different elements away
<1>RemoveFacts.
    ASSUME NEW S, NEW s \in Seq(S), NEW k \in DOMAIN s, IsInjective(s)
    PROVE  /\ erase(s, k) \in Seq(S) /\ Len(erase(s, k)) = Len(s) - 1
           /\ IsInjective(erase(s, k)) /\ Range(erase(s, k)) = Range(s) \ {s[k]}
  <2> USE <1>RemoveFacts
  <2> DEFINE a == SubSeq(s, 1, k - 1)
             b == SubSeq(s, k + 1, Len(s))
             r == erase(s, k)
  <2>1. Len(s) \in Nat /\ DOMAIN s = 1 .. Len(s) /\ \A i \in 1 .. Len(s) : s[i] \in S
    BY LenProperties, ElementOfSeq
  <2>2. k \in 1 .. Len(s) /\ k - 1 \in Nat /\ Len(s) - k \in Nat BY <2>1
  <2>3. a \in Seq(S) /\ Len(a) = k - 1 /\ \A i \in 1 .. k - 1 : a[i] = s[i]
    <3>1. \A i \in 1 .. k - 1 : s[i] \in S BY <2>1, <2>2
    <3>2. /\ a \in Seq(S) /\ Len(a) = IF 1 <= k - 1 THEN (k - 1) - 1 + 1 ELSE 0
          /\ \A i \in 1 .. (k - 1) - 1 + 1 : a[i] = s[1 + i - 1]
      BY <2>2, <3>1, SubSeqProperties
    <3>3. \A i \in 1 .. k - 1 : 1 + i - 1 = i BY <2>2
    <3> QED BY <2>2, <3>2, <3>3
  <2>4. b \in Seq(S) /\ Len(b) = Len(s) - k /\ \A i \in 1 .. Len(s) - k : b[i] = s[k + i]
    <3>1. \A i \in k + 1 .. Len(s) : s[i] \in S BY <2>1, <2>2
    <3>2. /\ b \in Seq(S) /\ Len(b) = IF k + 1 <= Len(s) THEN Len(s) - (k + 1) + 1 ELSE 0
          /\ \A i \in 1 .. Len(s) - (k + 1) + 1 : b[i] = s[(k + 1) + i - 1]
      BY <2>1, <2>2, <3>1, SubSeqProperties
    <3>3. \A i \in 1 .. Len(s) - k : (k + 1) + i - 1 = k + i BY <2>1, <2>2
    <3>4. Len(s) - (k + 1) + 1 = Len(s) - k BY <2>1, <2>2
    <3> QED BY <2>1, <2>2, <3>2, <3>3, <3>4
  <2>5. /\ r \in Seq(S) /\ Len(r) = Len(s) - 1
        /\ \A i \in 1 .. Len(s) - 1 : r[i] = IF i < k THEN s[i] ELSE s[i + 1]
    <3> HIDE DEF a, b
    <3>1. r = a \o b BY DEF erase, a, b
    <3>2. /\ a \o b \in Seq(S) /\ Len(a \o b) = Len(a) + Len(b)
          /\ \A i \in 1 .. Len(a) + Len(b) : (a \o b)[i] = IF i <= Len(a) THEN a[i] ELSE b[i - Len(a)]
      BY Zenon, <2>3, <2>4, ConcatProperties
    <3>3. Len(a) + Len(b) = Len(s) - 1 BY <2>1, <2>2, <2>3, <2>4
    <3>4. ASSUME NEW i \in 1 .. Len(s) - 1 PROVE r[i] = IF i < k THEN s[i] ELSE s[i + 1]
      <4>1. CASE i < k
        <5>1. i <= Len(a) /\ i \in 1 .. k - 1 BY <2>2, <2>3, <4>1
        <5> QED BY <2>3, <3>1, <3>2, <3>3, <4>1, <5>1
      <4>2. CASE ~(i < k)
        <5>1. ~(i <= Len(a)) /\ i - Len(a) \in 1 .. Len(s) - k /\ k + (i - Len(a)) = i + 1
          BY <2>1, <2>2, <2>3, <4>2
        <5> QED BY <2>4, <3>1, <3>2, <3>3, <4>2, <5>1
      <4> QED BY <4>1, <4>2
    <3> QED BY <3>1, <3>2, <3>3, <3>4
  <2> HIDE DEF r
  <2>6. DOMAIN r = 1 .. Len(s) - 1 BY <2>5, LenProperties
  <2>7. ASSUME NEW i \in 1 .. Len(s) - 1
        PROVE  \E j \in 1 .. Len(s) : j # k /\ r[i] = s[j] /\ j = IF i < k THEN i ELSE i + 1
    <3>1. CASE i < k
      <4>1. i \in 1 .. Len(s) /\ i # k BY <2>1, <2>2, <3>1
      <4> QED BY <2>5, <3>1, <4>1
    <3>2. CASE ~(i < k)
      <4>1. i + 1 \in 1 .. Len(s) /\ i + 1 # k BY <2>1, <2>2, <3>2
      <4> QED BY <2>5, <3>2, <4>1
    <3> QED BY <3>1, <3>2
  <2>8. IsInjective(r)
    <3> SUFFICES ASSUME NEW i \in 1 .. Len(s) - 1, NEW j \in 1 .. Len(s) - 1, r[i] = r[j] PROVE i = j
      BY <2>6 DEF IsInjective
    <3>1. PICK p \in 1 .. Len(s) : r[i] = s[p] /\ p = IF i < k THEN i ELSE i + 1 BY <2>7
    <3>2. PICK q \in 1 .. Len(s) : r[j] = s[q] /\ q = IF j < k THEN j ELSE j + 1 BY <2>7
    <3>3. p = q BY Zenon, <2>1, <3>1, <3>2 DEF IsInjective
    <3> QED BY <2>1, <2>2, <3>1, <3>2, <3>3
  <2>9. Range(s) = {s[i] : i \in 1 .. Len(s)} /\ Range(r) = {r[i] : i \in 1 .. Len(s) - 1}
    BY <2>5, RangeEquality
  <2>10. ASSUME NEW j \in 1 .. Len(s), j # k PROVE s[j] \in Range(r)
    <3>1. CASE j < k
      <4>1. j \in 1 .. Len(s) - 1 BY <2>1, <2>2, <3>1
      <4>2. r[j] = s[j] BY <2>5, <3>1, <4>1
      <4> QED BY <2>9, <4>1, <4>2
    <3>2. CASE ~(j < k)
      <4>1. j - 1 \in 1 .. Len(s) - 1 /\ ~(j - 1 < k) /\ (j - 1) + 1 = j BY <2>1, <2>2, <2>10, <3>2
      <4>2. r[j - 1] = s[j] BY <2>5, <4>1
      <4> QED BY <2>9, <4>1, <4>2
    <3> QED BY <3>1, <3>2
  <2>11. \A j \in 1 .. Len(s) : s[j] = s[k] => j = k BY <2>1, <2>2 DEF IsInjective
  <2>12. Range(r) \subseteq Range(s) \ {s[k]} BY <2>7, <2>9, <2>11
  <2>13. Range(s) \ {s[k]} \subseteq Range(r) BY <2>9, <2>10
  <2> QED BY <2>5, <2>8, <2>12, <2>13 DEF r

<1>Below. ASSUME NEW n \in Nat, NEW i \in 1 .. n - 1 PROVE i \in 1 .. n /\ i # n
  BY <1>Below

\* Taking the last of different elements away
<1>FrontFacts.
    ASSUME NEW S, NEW s \in Seq(S), s # <<>>, IsInjective(s)
    PROVE  /\ pop_back(s) \in Seq(S) /\ Len(pop_back(s)) = Len(s) - 1 /\ IsInjective(pop_back(s))
           /\ back(s) \in S /\ back(s) \in Range(s) /\ Range(pop_back(s)) = Range(s) \ {back(s)}
           /\ Len(s) \in Nat \ {0}
  <2> USE <1>FrontFacts
  <2>1. Len(s) \in Nat \ {0} /\ DOMAIN s = 1 .. Len(s) /\ \A i \in 1 .. Len(s) : s[i] \in S
    BY EmptySeq, LenProperties, ElementOfSeq
  <2>2. /\ pop_back(s) \in Seq(S) /\ Len(pop_back(s)) = Len(s) - 1
        /\ \A i \in 1 .. Len(s) - 1 : pop_back(s)[i] = s[i]
    <3>1. \A i \in 1 .. Len(s) - 1 : s[i] \in S BY <2>1
    <3>2. /\ SubSeq(s, 1, Len(s) - 1) \in Seq(S)
          /\ Len(SubSeq(s, 1, Len(s) - 1)) = IF 1 <= Len(s) - 1 THEN (Len(s) - 1) - 1 + 1 ELSE 0
          /\ \A i \in 1 .. (Len(s) - 1) - 1 + 1 : SubSeq(s, 1, Len(s) - 1)[i] = s[1 + i - 1]
      BY <2>1, <3>1, SubSeqProperties
    <3>3. \A i \in 1 .. Len(s) - 1 : 1 + i - 1 = i BY <2>1
    <3> QED BY <2>1, <3>2, <3>3 DEF pop_back
  <2>3. DOMAIN pop_back(s) = 1 .. Len(s) - 1 BY <2>2, LenProperties
  <2>4. IsInjective(pop_back(s)) BY <2>1, <2>2, <2>3 DEF IsInjective
  <2>5. back(s) = s[Len(s)] /\ Len(s) \in 1 .. Len(s) BY <2>1 DEF back
  <2>6. /\ Range(s) = {s[i] : i \in 1 .. Len(s)}
        /\ Range(pop_back(s)) = {pop_back(s)[i] : i \in 1 .. Len(s) - 1}
    BY <2>2, RangeEquality
  <2>7. ASSUME NEW i \in 1 .. Len(s) - 1 PROVE pop_back(s)[i] \in Range(s) \ {back(s)}
    <3>1. i \in 1 .. Len(s) /\ i # Len(s) BY Zenon, <2>1, <1>Below
    <3>2. s[i] # s[Len(s)] BY Zenon, <2>1, <2>5, <3>1 DEF IsInjective
    <3> QED BY <2>2, <2>5, <2>6, <3>1, <3>2
  <2>8. ASSUME NEW i \in 1 .. Len(s), s[i] # back(s) PROVE s[i] \in Range(pop_back(s))
    <3>1. i \in 1 .. Len(s) - 1 BY <2>1, <2>5, <2>8
    <3> QED BY <2>2, <2>6, <3>1
  <2>9. Range(pop_back(s)) = Range(s) \ {back(s)} BY Zenon, <2>6, <2>7, <2>8
  <2> QED BY Zenon, <2>1, <2>2, <2>4, <2>5, <2>6, <2>9

<1>SearcherAdded.
    ASSUME Counting, NEW w \in Workers, w \notin Searchers, Searchers' = Searchers \cup {w}
    PROVE  Cardinality(Searchers)' = Cardinality(Searchers) + 1
  <2> USE <1>SearcherAdded
  <2>1. Searchers \in SUBSET Workers BY DEF Searchers
  <2>2. Cardinality(Searchers \cup {w}) = Cardinality(Searchers) + 1 BY <2>1 DEF Counting
  <2> QED BY <2>2

<1>SearcherRemoved.
    ASSUME Counting, NEW w \in Workers, Leaves(w)
    PROVE  /\ Cardinality(Searchers)' = Cardinality(Searchers) - 1
           /\ Cardinality(Searchers) \in Nat \ {0}
           /\ Cardinality(Searchers) # 1 => \E u \in Searchers : u # w
  <2> USE <1>SearcherRemoved
  <2> DEFINE S == Searchers \ {w}
  <2>1. S \in SUBSET Workers /\ S \cup {w} = Searchers /\ w \notin S BY DEF Leaves, Searchers
  <2>2. Cardinality(S) \in Nat /\ (Cardinality(S) = 0 => S = {}) BY <2>1 DEF Counting
  <2>3. Cardinality(S \cup {w}) = Cardinality(S) + 1 BY <2>1 DEF Counting
  <2>4. Cardinality(Searchers) = Cardinality(S) + 1 BY <2>1, <2>3
  <2>5. Cardinality(Searchers)' = Cardinality(S) BY DEF Leaves
  <2>6. Cardinality({}) = 0 BY DEF Counting
  <2>7. (\E u \in Searchers : u # w) \/ S = {} OBVIOUS
  <2> HIDE DEF S
  <2>8. S = {} => Cardinality(S) = 0 BY Zenon, <2>6
  <2> QED BY <2>2, <2>4, <2>5, <2>7, <2>8

<1>WaitKeeps. ASSUME Counting, IndInv, NEW w \in Workers, Wait(w) PROVE IndInv'
  <2> USE <1>WaitKeeps
  <2> USE DEF IndInv
  <2> DEFINE e == th[w]
  <2>1. w \in Threads /\ e \in ThreadType /\ w # io BY Zenon, WorkerNumbers DEF Threads, TypeInv
  <2>2. /\ UNCHANGED <<global, nextItem, local, unpark, spawn, done>> /\ e.pc = "scan" /\ e.scan = <<>>
    BY DEF Wait, queues
  <2>3. CASE e.slot = "Work" /\ Wait(w)
    <3>1. /\ searching' = searching + 1 /\ UNCHANGED <<parked, sleepers>>
          /\ th' = [th EXCEPT ![w].slot = "Search", ![w].pc = "pop"]
      BY <2>3 DEF Wait
    <3> DEFINE r == [e EXCEPT !.slot = "Search", !.pc = "pop"]
    <3>2. r \in ThreadType BY Zenon, <2>1 DEF ThreadType, Pcs
    <3>3. th' = [th EXCEPT ![w] = r] BY Zenon, <2>1, <3>1 DEF TypeInv, ThreadType
    <3>4. Only(w) /\ th'[w] = r BY Zenon, <2>1, <3>2, <3>3, Updates
    <3>5. th'[w].slot = "Search" /\ th'[w].pc = "pop" BY <2>1, <3>4 DEF ThreadType
    <3>6. \A u \in Workers : u # w => th'[u] = th[u] BY <3>4 DEF Only, Threads
    <3>7. w \notin Searchers /\ Searchers' = Searchers \cup {w}
      BY <2>2, <2>3, <3>5, <3>6 DEF Searchers
    <3>8. SlotInv'
      <4>1. searching' = Cardinality(Searchers)' BY Zenon, <3>1, <3>7, <1>SearcherAdded DEF SlotInv
      <4>2. ASSUME NEW u \in Workers PROVE SlotOK(u)'
        BY Zenon, <2>2, <2>3, <3>1, <3>5, <3>6 DEF SlotInv, SlotOK
      <4> QED BY <3>1, <4>1, <4>2 DEF SlotInv
    <3>9. ShapeOK(w)' BY <2>1, <3>5 DEF ShapeOK
    <3>10. ShapeInv' BY <2>1, <3>4, <3>9, ShapeKept
    <3>11. GlobalInv' BY <3>7, GlobalSearched
    <3>12. LocalInv' BY <3>5, AwakeMissed, LocalFound
    <3>13. CopyOK(w)' BY <3>5 DEF CopyOK
    <3>14. CopyInv' BY <2>1, <2>2, <3>4, <3>13, CopyKept
    <3>15. TypeInv'
      <4>1. searching' \in Nat BY <3>1 DEF TypeInv
      <4> QED BY Zenon, <2>1, <2>2, <3>1, <3>4, <4>1, TypeKept DEF TypeInv
    <3> QED BY <3>8, <3>10, <3>11, <3>12, <3>14, <3>15
  <2>4. CASE e.slot = "Search" /\ Wait(w)
    <3> DEFINE pc == IF should_search THEN "pop" ELSE "park"
    <3>1. /\ searching' = searching - 1 /\ parked' = parked + 1 /\ sleepers' = Append(sleepers, w)
          /\ th' = [th EXCEPT ![w].slot = "Sleep", ![w].pc = pc]
      BY <2>4 DEF Wait
    <3> DEFINE r == [e EXCEPT !.slot = "Sleep", !.pc = pc]
    <3>2. r \in ThreadType BY Zenon, <2>1 DEF ThreadType, Pcs
    <3>3. th' = [th EXCEPT ![w] = r] BY Zenon, <2>1, <3>1 DEF TypeInv, ThreadType
    <3>4. Only(w) /\ th'[w] = r BY Zenon, <2>1, <3>2, <3>3, Updates
    <3>5. th'[w].slot = "Sleep" /\ th'[w].pc = pc BY <2>1, <3>4 DEF ThreadType
    <3>6. \A u \in Workers : u # w => th'[u] = th[u] BY <3>4 DEF Only, Threads
    <3>7. w \notin Range(sleepers) /\ ~unpark[w] BY <2>4 DEF SlotInv, SlotOK
    <3>8. w \in Searchers /\ Searchers' = Searchers \ {w}
      BY <2>2, <2>4, <3>5, <3>6, <3>7 DEF Searchers
    <3>9. /\ Append(sleepers, w) \in Seq(Workers) /\ Len(Append(sleepers, w)) = Len(sleepers) + 1
          /\ IsInjective(Append(sleepers, w)) /\ Range(Append(sleepers, w)) = Range(sleepers) \cup {w}
      BY <3>7, <1>AppendFacts DEF TypeInv, SlotInv
    <3>10. /\ Cardinality(Searchers)' = Cardinality(Searchers) - 1
           /\ searching \in Nat \ {0} /\ (~should_search => \E u \in Searchers : u # w)
      <4>1. searching = Cardinality(Searchers) BY DEF SlotInv
      <4>0. Leaves(w) BY <3>8 DEF Leaves
      <4>2. /\ Cardinality(Searchers)' = Cardinality(Searchers) - 1
            /\ Cardinality(Searchers) \in Nat \ {0}
            /\ Cardinality(Searchers) # 1 => \E u \in Searchers : u # w
        BY <4>0, <1>SearcherRemoved
      <4>3. (~should_search => \E u \in Searchers : u # w) BY <4>1, <4>2 DEF should_search
      <4> QED BY <4>1, <4>2, <4>3
    <3>11. SlotInv'
      <4>1. ASSUME NEW u \in Workers PROVE SlotOK(u)'
        <5>1. CASE u = w BY Zenon, <2>2, <3>1, <3>5, <3>7, <3>9, <5>1 DEF SlotOK
        <5>2. CASE u # w
          <6>1. SlotOK(u) /\ th'[u] = th[u] /\ unpark'[u] = unpark[u] BY <2>2, <3>6, <5>2 DEF SlotInv
          <6>2. u \in Range(sleepers)' <=> u \in Range(sleepers) BY <3>1, <3>9, <5>2
          <6> QED BY <6>1, <6>2 DEF SlotOK
        <5> QED BY <5>1, <5>2
      <4> QED BY <3>1, <3>9, <3>10, <4>1 DEF SlotInv
    <3>12. ShapeOK(w)' BY <2>1, <3>5 DEF ShapeOK
    <3>13. ShapeInv' BY <2>1, <3>4, <3>12, ShapeKept
    <3>14. CopyOK(w)' BY <3>5 DEF CopyOK
    <3>15. CopyInv' BY <2>1, <2>2, <3>4, <3>14, CopyKept
    <3>16. TypeInv'
      <4>1. searching' \in Nat /\ parked' \in Nat BY <3>1, <3>10 DEF TypeInv
      <4> QED BY Zenon, <2>1, <2>2, <3>1, <3>4, <3>9, <4>1, TypeKept DEF TypeInv
    <3>17. GlobalInv' /\ LocalInv'
      <4>1. CASE should_search
        <5>1. LooksYet(w)' BY <3>5, <4>1 DEF LooksYet
        <5>2. MissedNothing(w)' BY <3>5, <4>1 DEF MissedNothing
        <5> QED BY <5>1, <5>2, LocalFound DEF GlobalInv
      <4>2. CASE ~should_search
        <5>1. PICK u \in Searchers : u # w BY <3>10, <4>2
        <5>2. u \in Workers /\ th'[u] = th[u] BY <3>6, <5>1 DEF Searchers
        <5>3. MissedNothing(u)' BY <2>2, <5>1, <5>2 DEF MissedNothing, Searchers
        <5>4. Searchers' # {} BY <3>8, <5>1
        <5> QED BY <5>2, <5>3, <5>4, LocalFound, GlobalSearched
      <4> QED BY <4>1, <4>2
    <3> QED BY <3>11, <3>13, <3>15, <3>16, <3>17
  <2>5. CASE e.slot = "Sleep" /\ Wait(w)
    <3>1. /\ th' = [th EXCEPT ![w].pc = "park"] /\ UNCHANGED <<searching, parked, sleepers>>
      BY <2>5 DEF Wait
    <3> DEFINE r == [e EXCEPT !.pc = "park"]
    <3>2. r \in ThreadType BY <2>1 DEF ThreadType, Pcs
    <3>3. th' = [th EXCEPT ![w] = r] BY <2>1, <3>1 DEF TypeInv, ThreadType
    <3>4. Only(w) /\ th'[w] = r BY Zenon, <2>1, <3>2, <3>3, Updates
    <3>5. th'[w].slot = "Sleep" /\ th'[w].pc = "park" BY <2>1, <2>5, <3>4 DEF ThreadType
    <3>6. SlotInv' /\ Searchers' = Searchers BY <2>1, <2>2, <2>5, <3>1, <3>4, <3>5, SlotKept DEF waiter
    <3>7. ShapeOK(w)' BY <2>1, <3>5 DEF ShapeOK
    <3>8. ShapeInv' BY <2>1, <3>4, <3>7, ShapeKept
    <3>9. Range(e.scan) = {} BY <2>2 DEF Range
    <3>10. GlobalInv'
      <4>1. ~LooksYet(w) BY <2>2, <3>9 DEF LooksYet
      <4>2. w \notin Announcing BY <2>2 DEF Announcing
      <4> QED BY <2>1, <2>2, <3>1, <3>4, <3>6, <4>1, <4>2, GlobalKept
    <3>11. LocalInv'
      <4>1. CASE MissedNothing(w) /\ ~unpark[w]
        <5>1. \A v \in Workers : local[v].items = <<>> BY <2>2, <2>5, <3>9, <4>1 DEF MissedNothing
        <5> QED BY <2>2, <5>1 DEF LocalInv
      <4>2. CASE ~MissedNothing(w) \/ unpark[w]
        <5>1. MissedNothing(w) => MissedNothing(w)' BY <2>2, <4>2 DEF MissedNothing
        <5> QED BY <2>1, <2>2, <3>4, <5>1, LocalKept
      <4> QED BY <4>1, <4>2
    <3>12. CopyOK(w)' BY <3>5 DEF CopyOK
    <3>13. CopyInv' BY <2>1, <2>2, <3>4, <3>12, CopyKept
    <3>14. TypeInv' BY Zenon, <2>1, <2>2, <3>1, <3>4, TypeKept DEF TypeInv
    <3> QED BY <3>6, <3>8, <3>10, <3>11, <3>13, <3>14
  <2>6. e.slot \in {"Work", "Search", "Sleep"} BY <2>1 DEF ThreadType
  <2> QED BY <2>3, <2>4, <2>5, <2>6

<1>ParkKeeps. ASSUME IndInv, NEW w \in Workers, Park(w) PROVE IndInv'
  <2> USE <1>ParkKeeps
  <2> USE DEF IndInv
  <2> DEFINE e == th[w]
             r == [e EXCEPT !.slot = "Search", !.pc = "pop"]
  <2>1. w \in Threads /\ e \in ThreadType /\ w # io BY Zenon, WorkerNumbers DEF Threads, TypeInv
  <2>2. /\ UNCHANGED <<global, nextItem, local, searching, parked, sleepers, spawn, done>>
        /\ e.pc = "park" /\ unpark[w] /\ unpark' = [unpark EXCEPT ![w] = FALSE]
        /\ th' = [th EXCEPT ![w].slot = "Search", ![w].pc = "pop"]
    BY DEF Park, queues
  <2>3. r \in ThreadType BY Zenon, <2>1 DEF ThreadType, Pcs
  <2>4. th' = [th EXCEPT ![w] = r] BY Zenon, <2>1, <2>2 DEF TypeInv, ThreadType
  <2>5. Only(w) /\ th'[w] = r BY Zenon, <2>1, <2>3, <2>4, Updates
  <2>6. th'[w].slot = "Search" /\ th'[w].pc = "pop" BY <2>1, <2>5 DEF ThreadType
  <2>7. \A u \in Workers : u # w => th'[u] = th[u] BY <2>5 DEF Only, Threads
  <2>8. /\ unpark' \in [Workers -> BOOLEAN] /\ ~unpark'[w]
        /\ \A u \in Workers : u # w => unpark'[u] = unpark[u]
    BY <2>2 DEF TypeInv
  <2>9. e.slot = "Sleep" /\ w \notin Range(sleepers)
    BY Zenon, <2>1, <2>2 DEF ShapeInv, ShapeOK, SlotInv, SlotOK
  <2>10. w \in Searchers /\ Searchers' = Searchers BY Zenon, <2>2, <2>6, <2>7, <2>8, <2>9 DEF Searchers
  <2>11. SlotInv'
    <3>1. ASSUME NEW u \in Workers PROVE SlotOK(u)'
      BY Zenon, <2>2, <2>6, <2>7, <2>8, <2>9 DEF SlotInv, SlotOK
    <3> QED BY <2>2, <2>10, <3>1 DEF SlotInv
  <2>12. ShapeOK(w)' BY <2>1, <2>6 DEF ShapeOK
  <2>13. ShapeInv' BY <2>1, <2>5, <2>12, ShapeKept
  <2>14. GlobalInv' BY <2>10, GlobalSearched
  <2>15. LocalInv' BY <2>6, AwakeMissed, LocalFound
  <2>16. CopyOK(w)' BY <2>6 DEF CopyOK
  <2>17. CopyInv' BY <2>1, <2>2, <2>5, <2>16, CopyKept
  <2>18. TypeInv' BY Zenon, <2>1, <2>2, <2>5, <2>8, TypeKept DEF TypeInv
  <2> QED BY <2>11, <2>13, <2>14, <2>15, <2>17, <2>18

<1>StopWaitKeeps. ASSUME Counting, IndInv, NEW w \in Workers, StopWait(w) PROVE IndInv'
  <2> USE <1>StopWaitKeeps
  <2> USE DEF IndInv
  <2> DEFINE e == th[w]
             r == [e EXCEPT !.slot = "Search", !.pc = "unsearch"]
  <2>1. w \in Threads /\ e \in ThreadType /\ w # io BY Zenon, WorkerNumbers DEF Threads, TypeInv
  <2>2. /\ UNCHANGED <<global, nextItem, local, spawn, done>> /\ e.pc = "stop_wait"
        /\ th' = [th EXCEPT ![w].slot = "Search", ![w].pc = "unsearch"]
    BY DEF StopWait, queues
  <2>3. r \in ThreadType BY Zenon, <2>1 DEF ThreadType, Pcs
  <2>4. th' = [th EXCEPT ![w] = r] BY Zenon, <2>1, <2>2 DEF TypeInv, ThreadType
  <2>5. Only(w) /\ th'[w] = r BY Zenon, <2>1, <2>3, <2>4, Updates
  <2>6. th'[w].slot = "Search" /\ th'[w].pc = "unsearch" BY <2>1, <2>5 DEF ThreadType
  <2>7. \A u \in Workers : u # w => th'[u] = th[u] BY <2>5 DEF Only, Threads
  <2>8. e.slot = "Sleep" BY <2>1, <2>2 DEF ShapeInv, ShapeOK
  <2>9. SlotOK(w) BY DEF SlotInv
  <2>10. /\ SlotInv' /\ searching' \in Nat /\ parked' \in Nat
         /\ sleepers' \in Seq(Workers) /\ unpark' \in [Workers -> BOOLEAN]
    <3>1. CASE /\ \E k \in DOMAIN sleepers : sleepers[k] = w /\ sleepers' = erase(sleepers, k)
               /\ parked' = parked - 1 /\ searching' = searching + 1 /\ UNCHANGED unpark
      <4>1. PICK k \in DOMAIN sleepers : sleepers[k] = w /\ sleepers' = erase(sleepers, k) BY <3>1
      <4>2. /\ sleepers' \in Seq(Workers) /\ Len(sleepers') = Len(sleepers) - 1 /\ IsInjective(sleepers')
            /\ Range(sleepers') = Range(sleepers) \ {w} /\ Len(sleepers) \in Nat \ {0}
        <5>1. sleepers \in Seq(Workers) /\ IsInjective(sleepers) BY DEF TypeInv, SlotInv
        <5> QED BY <4>1, <5>1, <1>RemoveFacts
      <4>3. w \in Range(sleepers) /\ ~unpark[w]
        <5>1. w \in Range(sleepers) BY <4>1 DEF Range
        <5> QED BY Zenon, <2>8, <2>9, <5>1 DEF SlotOK
      <4>4. w \notin Searchers /\ Searchers' = Searchers \cup {w}
        BY <2>6, <2>7, <2>8, <3>1, <4>3 DEF Searchers
      <4>5. Cardinality(Searchers)' = Cardinality(Searchers) + 1 BY Zenon, <4>4, <1>SearcherAdded
      <4>6. ASSUME NEW u \in Workers PROVE SlotOK(u)'
        <5>1. CASE u = w BY <2>6, <3>1, <4>2, <4>3, <5>1 DEF SlotOK
        <5>2. CASE u # w
          <6>1. SlotOK(u) /\ th'[u] = th[u] /\ unpark'[u] = unpark[u] BY <2>7, <3>1, <5>2 DEF SlotInv
          <6>2. u \in Range(sleepers)' <=> u \in Range(sleepers) BY <4>2, <5>2
          <6> QED BY <6>1, <6>2 DEF SlotOK
        <5> QED BY <5>1, <5>2
      <4>7. parked = Len(sleepers) /\ searching = Cardinality(Searchers) /\ searching \in Nat
        BY DEF SlotInv, TypeInv
      <4>8. SlotInv' BY <3>1, <4>2, <4>5, <4>6, <4>7 DEF SlotInv
      <4>9. searching' \in Nat /\ parked' \in Nat BY <3>1, <4>2, <4>7
      <4> QED BY <3>1, <4>2, <4>8, <4>9 DEF TypeInv
    <3>2. CASE /\ w \notin Range(sleepers) /\ unpark' = [unpark EXCEPT ![w] = FALSE]
               /\ UNCHANGED <<searching, parked, sleepers>>
      <4>1. unpark[w] BY <2>8, <2>9, <3>2 DEF SlotOK, TypeInv
      <4>2. /\ unpark' \in [Workers -> BOOLEAN] /\ ~unpark'[w]
            /\ \A u \in Workers : u # w => unpark'[u] = unpark[u]
        BY <3>2 DEF TypeInv
      <4>3. Searchers' = Searchers BY <2>6, <2>7, <2>8, <4>1, <4>2 DEF Searchers
      <4>4. ASSUME NEW u \in Workers PROVE SlotOK(u)'
        BY Zenon, <2>6, <2>7, <3>2, <4>2 DEF SlotInv, SlotOK
      <4>5. SlotInv' BY <3>2, <4>3, <4>4 DEF SlotInv
      <4> QED BY <3>2, <4>2, <4>5 DEF TypeInv
    <3> QED BY <3>1, <3>2 DEF StopWait
  <2>11. ShapeOK(w)' BY <2>1, <2>6 DEF ShapeOK
  <2>12. ShapeInv' BY <2>1, <2>5, <2>11, ShapeKept
  <2>13. GlobalInv' BY <2>1, <2>6, GlobalAnnounced
  <2>14. LocalInv' BY <2>6, AwakeMissed, LocalFound
  <2>15. CopyOK(w)' BY <2>6 DEF CopyOK
  <2>16. CopyInv' BY <2>1, <2>2, <2>5, <2>15, CopyKept
  <2>17. TypeInv' BY Zenon, <2>1, <2>2, <2>5, <2>10, TypeKept DEF TypeInv
  <2> QED BY <2>10, <2>12, <2>13, <2>14, <2>16, <2>17

<1>UnsearchKeeps. ASSUME Counting, IndInv, NEW w \in Workers, Unsearch(w) PROVE IndInv'
  <2> USE <1>UnsearchKeeps
  <2> USE DEF IndInv
  <2> DEFINE e == th[w]
             pc == IF should_notify THEN "notify" ELSE "run"
             r == [e EXCEPT !.slot = "Work", !.pc = pc, !.after = "run"]
  <2>1. w \in Threads /\ e \in ThreadType /\ w # io BY Zenon, WorkerNumbers DEF Threads, TypeInv
  <2>2. /\ UNCHANGED <<global, nextItem, local, parked, sleepers, unpark, spawn, done>>
        /\ e.pc = "unsearch" /\ searching' = searching - 1
        /\ th' = [th EXCEPT ![w].slot = "Work", ![w].pc = pc, ![w].after = "run"]
    BY DEF Unsearch, queues
  <2>3. r \in ThreadType BY Zenon, <2>1 DEF ThreadType, Pcs
  <2>4. th' = [th EXCEPT ![w] = r] BY Zenon, <2>1, <2>2 DEF TypeInv, ThreadType
  <2>5. Only(w) /\ th'[w] = r BY Zenon, <2>1, <2>3, <2>4, Updates
  <2>6. th'[w].slot = "Work" /\ th'[w].pc = pc /\ th'[w].after = "run" BY <2>1, <2>5 DEF ThreadType
  <2>7. \A u \in Workers : u # w => th'[u] = th[u] BY <2>5 DEF Only, Threads
  <2>8. e.slot = "Search" BY <2>1, <2>2 DEF ShapeInv, ShapeOK
  <2>9. w \notin Range(sleepers) /\ ~unpark[w] BY <2>8 DEF SlotInv, SlotOK
  <2>10. w \in Searchers /\ Searchers' = Searchers \ {w} BY Zenon, <2>2, <2>6, <2>7, <2>8, <2>9 DEF Searchers
  <2>11. /\ Cardinality(Searchers)' = Cardinality(Searchers) - 1
         /\ searching \in Nat \ {0} /\ (~should_notify => \E u \in Searchers : u # w)
    <3>1. searching = Cardinality(Searchers) BY DEF SlotInv
    <3>0. Leaves(w) BY <2>10 DEF Leaves
    <3>2. /\ Cardinality(Searchers)' = Cardinality(Searchers) - 1
          /\ Cardinality(Searchers) \in Nat \ {0}
          /\ Cardinality(Searchers) # 1 => \E u \in Searchers : u # w
      BY <3>0, <1>SearcherRemoved
    <3>3. (~should_notify => \E u \in Searchers : u # w) BY <3>1, <3>2 DEF should_notify
    <3> QED BY <3>1, <3>2, <3>3
  <2>12. SlotInv'
    <3>1. ASSUME NEW u \in Workers PROVE SlotOK(u)'
      BY Zenon, <2>2, <2>6, <2>7, <2>9 DEF SlotInv, SlotOK
    <3> QED BY <2>2, <2>11, <3>1 DEF SlotInv
  <2>13. ShapeOK(w)' BY <2>1, <2>6 DEF ShapeOK
  <2>14. ShapeInv' BY <2>1, <2>5, <2>13, ShapeKept
  <2>15. GlobalInv'
    <3>1. CASE should_notify BY <2>1, <2>6, <3>1, GlobalAnnounced
    <3>2. CASE ~should_notify BY <2>10, <2>11, <3>2, GlobalSearched
    <3> QED BY <3>1, <3>2
  <2>16. LocalInv' BY <2>6, AwakeMissed, LocalFound
  <2>17. CopyOK(w)' BY <2>6 DEF CopyOK
  <2>18. CopyInv' BY <2>1, <2>2, <2>5, <2>17, CopyKept
  <2>19. searching' \in Nat BY <2>2, <2>11
  <2>20. TypeInv' BY Zenon, <2>1, <2>2, <2>5, <2>19, TypeKept DEF TypeInv
  <2> QED BY <2>12, <2>14, <2>15, <2>16, <2>18, <2>20

<1>ResumeKeeps.
    ASSUME IndInv, NEW t \in Threads, th[t].pc \in {"notify", "notify_locked"}, th' = Notified(t),
           UNCHANGED <<global, nextItem, local, spawn, done>>
    PROVE  /\ Only(t) /\ th[t].slot = "Work" /\ th'[t].slot = "Work" /\ ShapeOK(t)' /\ CopyInv'
  <2> USE <1>ResumeKeeps
  <2> USE DEF IndInv
  <2> DEFINE e == th[t]
             r == [e EXCEPT !.pc = e.after]
  <2>1. e \in ThreadType BY DEF TypeInv
  <2>2. ShapeOK(t) /\ e.slot = "Work" BY Zenon DEF ShapeInv, ShapeOK
  <2>3. r \in ThreadType BY <2>1 DEF ThreadType, Pcs
  <2>4. th' = [th EXCEPT ![t] = r] BY <2>1 DEF TypeInv, ThreadType, Notified
  <2>5. Only(t) /\ th'[t] = r BY Zenon, <2>3, <2>4, Updates
  <2>6. th'[t].slot = "Work" /\ th'[t].pc = e.after /\ th'[t].after = e.after /\ e.after \in {"run", "add"}
    BY <2>1, <2>2, <2>5 DEF ThreadType
  <2>7. ShapeOK(t)' BY <2>2, <2>6 DEF ShapeOK
  <2>8. CopyOK(t)' BY Zenon, <2>6 DEF CopyOK
  <2>9. CopyInv' BY <2>5, <2>8, CopyKept
  <2> QED BY <2>2, <2>5, <2>6, <2>7, <2>9

<1>SearchingFacts.
    ASSUME Counting, TypeInv, SlotInv PROVE (searching > 0 => Searchers # {}) /\ (parked = 0 => sleepers = <<>>)
  <2> USE <1>SearchingFacts
  <2>1. searching = Cardinality(Searchers) /\ parked = Len(sleepers) /\ sleepers \in Seq(Workers)
    BY DEF SlotInv, TypeInv
  <2>2. Searchers = {} => Cardinality(Searchers) = 0 BY DEF Counting
  <2>3. searching > 0 => Searchers # {} BY <2>1, <2>2
  <2> QED BY <2>1, <2>3, EmptySeq

<1>NotifyKeeps. ASSUME Counting, IndInv, NEW t \in Threads, Notify(t) PROVE IndInv'
  <2> USE <1>NotifyKeeps
  <2> USE DEF IndInv
  <2> DEFINE e == th[t]
  <2>1. /\ UNCHANGED <<global, nextItem, local, searching, parked, sleepers, unpark, spawn, done>>
        /\ e.pc = "notify" /\ e.pc # "exited" /\ UNCHANGED waiter
    BY DEF Notify, queues, waiter
  <2>2. e \in ThreadType BY DEF TypeInv
  <2>3. /\ Only(t) /\ e.slot = "Work" /\ th'[t].slot = "Work" /\ ShapeOK(t)' /\ CopyInv'
        /\ (searching > 0 \/ parked = 0) \/ th'[t].pc = "notify_locked"
    <3>1. CASE searching > 0 \/ parked = 0
      <4>1. th' = Notified(t) BY <3>1 DEF Notify
      <4> QED BY <2>1, <3>1, <4>1, <1>ResumeKeeps
    <3>2. CASE ~(searching > 0 \/ parked = 0)
      <4> DEFINE r == [e EXCEPT !.pc = "notify_locked"]
      <4>1. th' = [th EXCEPT ![t].pc = "notify_locked"] BY <3>2 DEF Notify
      <4>2. r \in ThreadType BY Zenon, <2>2 DEF ThreadType, Pcs
      <4>3. th' = [th EXCEPT ![t] = r] BY <2>2, <4>1 DEF TypeInv, ThreadType
      <4>4. Only(t) /\ th'[t] = r BY Zenon, <4>2, <4>3, Updates
      <4>5. ShapeOK(t) /\ e.slot = "Work" BY Zenon, <2>1 DEF ShapeInv, ShapeOK
      <4>6. th'[t].pc = "notify_locked" /\ th'[t].slot = "Work" /\ th'[t].after = e.after
        BY <2>2, <4>4, <4>5 DEF ThreadType
      <4>7. ShapeOK(t)' BY <2>1, <4>5, <4>6 DEF ShapeOK
      <4>8. CopyOK(t)' BY Zenon, <4>6 DEF CopyOK
      <4>9. CopyInv' BY <2>1, <4>4, <4>8, CopyKept
      <4> QED BY <4>4, <4>5, <4>6, <4>7, <4>9
    <3> QED BY <3>1, <3>2
  <2>4. ShapeInv' /\ SlotInv' /\ Searchers' = Searchers /\ LocalInv' BY <2>1, <2>3, BusyKeeps
  <2>5. GlobalInv'
    <3>1. CASE searching > 0 BY <2>4, <3>1, <1>SearchingFacts, GlobalSearched
    <3>2. CASE parked = 0 BY <2>1, <3>2, <1>SearchingFacts DEF GlobalInv
    <3>3. CASE th'[t].pc = "notify_locked" BY <3>3, GlobalAnnounced
    <3> QED BY <2>3, <3>1, <3>2, <3>3
  <2>6. TypeInv' BY Zenon, <2>1, <2>3, TypeKept DEF TypeInv
  <2> QED BY <2>3, <2>4, <2>5, <2>6

<1>NotifyLockedKeeps. ASSUME Counting, IndInv, NEW t \in Threads, NotifyLocked(t) PROVE IndInv'
  <2> USE <1>NotifyLockedKeeps
  <2> USE DEF IndInv
  <2> DEFINE e == th[t]
  <2>1. /\ UNCHANGED <<global, nextItem, local, spawn, done>> /\ th' = Notified(t)
        /\ e.pc = "notify_locked" /\ e.pc # "exited"
    BY Zenon DEF NotifyLocked, queues
  <2>2. /\ Only(t) /\ e.slot = "Work" /\ th'[t].slot = "Work" /\ ShapeOK(t)' /\ CopyInv'
    BY <2>1, <1>ResumeKeeps
  <2>3. CASE searching > 0 \/ sleepers = <<>>
    <3>1. UNCHANGED <<searching, parked, sleepers, unpark>> /\ UNCHANGED waiter
      BY <2>3 DEF NotifyLocked, waiter
    <3>2. ShapeInv' /\ SlotInv' /\ Searchers' = Searchers /\ LocalInv' BY <2>1, <2>2, <3>1, BusyKeeps
    <3>3. GlobalInv'
      <4>1. CASE searching > 0 BY <3>2, <4>1, <1>SearchingFacts, GlobalSearched
      <4>2. CASE sleepers = <<>> BY <3>1, <4>2 DEF GlobalInv
      <4> QED BY <2>3, <4>1, <4>2
    <3>4. TypeInv' BY Zenon, <2>1, <2>2, <3>1, TypeKept DEF TypeInv
    <3> QED BY <2>2, <3>2, <3>3, <3>4
  <2>4. CASE ~(searching > 0 \/ sleepers = <<>>)
    <3>1. sleepers \in Seq(Workers) /\ IsInjective(sleepers) /\ sleepers # <<>>
      BY <2>4 DEF TypeInv, SlotInv
    <3>2. PICK v \in Workers : v = back(sleepers) BY <3>1, <1>FrontFacts
    <3>3. /\ sleepers' = pop_back(sleepers) /\ parked' = parked - 1 /\ searching' = searching + 1
          /\ unpark' = [unpark EXCEPT ![v] = TRUE]
      BY <2>4, <3>2 DEF NotifyLocked, WakesCounted
    <3>4. /\ sleepers' \in Seq(Workers) /\ Len(sleepers') = Len(sleepers) - 1 /\ IsInjective(sleepers')
          /\ v \in Range(sleepers) /\ Range(sleepers') = Range(sleepers) \ {v}
          /\ Len(sleepers) \in Nat \ {0}
      BY <3>1, <3>2, <3>3, <1>FrontFacts
    <3>5. SlotOK(v) BY <3>4 DEF SlotInv
    <3>6. th[v].slot = "Sleep" /\ ~unpark[v] BY Zenon, <3>4, <3>5 DEF SlotOK
    <3>7. /\ v # t /\ th'[v] = th[v] BY <2>2, <3>4, <3>6 DEF Only, Threads
    <3>8. /\ unpark' \in [Workers -> BOOLEAN] /\ unpark'[v]
          /\ \A u \in Workers : u # v => unpark'[u] = unpark[u]
      BY <3>3, <3>4 DEF TypeInv
    <3>9. \A u \in Workers : th'[u].slot = th[u].slot BY <2>2 DEF Only, Threads
    <3>10. v \notin Searchers /\ Searchers' = Searchers \cup {v}
      BY <3>4, <3>6, <3>8, <3>9 DEF Searchers
    <3>11. Cardinality(Searchers)' = Cardinality(Searchers) + 1 BY Zenon, <3>10, <1>SearcherAdded
    <3>12. SlotInv'
      <4>1. ASSUME NEW u \in Workers PROVE SlotOK(u)'
        <5>1. CASE u = v BY Zenon, <3>4, <3>6, <3>8, <3>9, <5>1 DEF SlotOK
        <5>2. CASE u # v
          <6>1. SlotOK(u) /\ th'[u].slot = th[u].slot /\ unpark'[u] = unpark[u]
            BY <3>8, <3>9, <5>2 DEF SlotInv
          <6>2. u \in Range(sleepers)' <=> u \in Range(sleepers) BY <3>4, <5>2
          <6> QED BY <6>1, <6>2 DEF SlotOK
        <5> QED BY <5>1, <5>2
      <4>2. parked = Len(sleepers) /\ searching = Cardinality(Searchers) BY DEF SlotInv
      <4> QED BY <3>3, <3>4, <3>11, <4>1, <4>2 DEF SlotInv
    <3>13. ShapeInv' BY <2>2, ShapeKept
    <3>14. GlobalInv' BY <3>10, GlobalSearched
    <3>15. MissedNothing(v)' BY <3>8 DEF MissedNothing
    <3>16. LocalInv' BY <3>4, <3>15, LocalFound
    <3>17. parked' \in Nat /\ searching' \in Nat
      <4>1. parked = Len(sleepers) /\ searching \in Nat BY DEF SlotInv, TypeInv
      <4> QED BY <3>3, <3>4, <4>1
    <3>18. TypeInv' BY Zenon, <2>1, <2>2, <3>4, <3>8, <3>17, TypeKept DEF TypeInv
    <3> QED BY <2>2, <3>12, <3>13, <3>14, <3>16, <3>18
  <2> QED BY <2>3, <2>4

<1> QED BY <1>WaitKeeps, <1>ParkKeeps, <1>StopWaitKeeps, <1>UnsearchKeeps, <1>NotifyKeeps,
           <1>NotifyLockedKeeps

-----------------------------------------------------------------------------
(* The theorems                                                            *)

FS == INSTANCE FiniteSetTheorems

\* Cardinality counts the elements of the sets of workers.
LEMMA Counted == Counting
<1>1. ASSUME NEW S PROVE FS!IsFiniteSet(S) <=> IsFiniteSet(S) BY DEF FS!IsFiniteSet, IsFiniteSet
<1>2. ASSUME NEW S PROVE FS!Cardinality(S) = Cardinality(S) BY DEF FS!Cardinality, Cardinality
<1>3. Cardinality({}) = 0 BY <1>2, FS!FS_EmptySet
<1>4. ASSUME NEW S \in SUBSET Workers
      PROVE  /\ Cardinality(S) \in Nat /\ (Cardinality(S) = 0 => S = {})
             /\ \A w \in Workers \ S : Cardinality(S \cup {w}) = Cardinality(S) + 1
  <2>1. FS!IsFiniteSet(Workers) BY WorkerNumbers, FS!FS_Interval
  <2>2. FS!IsFiniteSet(S) BY <2>1, FS!FS_Subset
  <2>3. Cardinality(S) \in Nat BY <1>2, <2>2, FS!FS_CardinalityType
  <2>4. Cardinality(S) = 0 => S = {} BY <1>2, <2>2, FS!FS_EmptySet
  <2>5. ASSUME NEW w \in Workers \ S PROVE Cardinality(S \cup {w}) = Cardinality(S) + 1
    BY <1>2, <2>2, FS!FS_AddElement
  <2> QED BY <2>3, <2>4, <2>5
<1> QED BY <1>3, <1>4 DEF Counting

LEMMA InitInv == Init => IndInv
<1> SUFFICES ASSUME Init PROVE IndInv
  OBVIOUS
<1>1. PICK plan \in Plans :
        /\ spawn = plan.spawn
        /\ th = [t \in Threads |->
                   [pc |-> IF t = io THEN "add" ELSE "pop", slot |-> "Work", scan |-> <<>>,
                    item |-> Stop, out |-> IF t = io THEN plan.push ELSE <<>>,
                    head |-> 0, loot |-> <<>>, after |-> "add"]]
  BY Zenon DEF Init
<1>2. /\ Stop \notin Items /\ spawn \in [Items -> Seq(Work0)] /\ plan.push \in Seq(Work0)
  BY Zenon, <1>1, SchedulerConstants DEF Items, Work0
<1>3. /\ global = <<>> /\ nextItem = [w \in Workers |-> <<>>]
      /\ local = [w \in Workers |-> [head |-> 0, items |-> <<>>]]
      /\ searching = 0 /\ parked = 0 /\ sleepers = <<>> /\ unpark = [w \in Workers |-> FALSE]
      /\ done = [i \in Items |-> 0]
  BY Zenon DEF Init, Items
<1>4. \A S : <<>> \in Seq(S) /\ Len(<<>>) = 0 OBVIOUS
<1>5. ASSUME NEW t \in Threads
      PROVE  /\ th[t] \in ThreadType /\ th[t].slot = "Work" /\ th[t].after = "add"
             /\ th[t].pc = IF t = io THEN "add" ELSE "pop"
  <2>1. Stop \in Work0 BY DEF Work0
  <2>2. (IF t = io THEN plan.push ELSE <<>>) \in Seq(Work0) BY <1>2
  <2>3. (IF t = io THEN "add" ELSE "pop") \in Pcs BY DEF Pcs
  <2> QED BY <1>1, <1>4, <2>1, <2>2, <2>3 DEF ThreadType
<1>6. TypeInv
  <2>1. th \in [Threads -> ThreadType]
    <3>1. th = [t \in Threads |-> th[t]] BY <1>1
    <3> QED BY <1>5, <3>1
  <2>2. [head |-> 0, items |-> <<>>] \in QueueType BY <1>4 DEF QueueType
  <2>3. local \in [Workers -> QueueType] BY <1>3, <2>2
  <2>4. nextItem \in [Workers -> Seq(Items)] /\ \A w \in Workers : Len(nextItem[w]) <= 1
    BY <1>3, <1>4
  <2> QED BY <1>2, <1>3, <1>4, <2>1, <2>3, <2>4 DEF TypeInv
<1>7. ShapeInv
  <2> SUFFICES ASSUME NEW t \in Threads PROVE ShapeOK(t)
    BY DEF ShapeInv
  <2> QED BY <1>5 DEF ShapeOK
<1>8. \A w \in Workers : th[w].slot = "Work" /\ th[w].pc = "pop" /\ ~unpark[w] /\ local[w].items = <<>>
  BY <1>3, <1>5, WorkerNumbers DEF Threads
<1>9. SlotInv
  <2>1. Searchers = {} BY <1>8 DEF Searchers
  <2>2. Cardinality(Searchers) = 0 BY <2>1, Counted DEF Counting
  <2>3. Range(sleepers) = {} /\ IsInjective(sleepers) /\ Len(sleepers) = 0
    BY <1>3, <1>4 DEF Range, IsInjective
  <2>4. \A w \in Workers : SlotOK(w) BY <1>8, <2>3 DEF SlotOK
  <2> QED BY <1>3, <2>2, <2>3, <2>4 DEF SlotInv
<1>10. GlobalInv BY <1>3 DEF GlobalInv
<1>11. LocalInv BY <1>8 DEF LocalInv
<1>12. CopyInv
  <2>1. 0 <= N BY SchedulerConstants
  <2> QED BY Zenon, <1>4, <1>8, <2>1 DEF CopyInv, CopyOK
<1> QED BY <1>6, <1>7, <1>9, <1>10, <1>11, <1>12 DEF IndInv

LEMMA NextInv == IndInv /\ [Next]_vars => IndInv'
<1> SUFFICES ASSUME IndInv, [Next]_vars PROVE IndInv'
  OBVIOUS
<1>1. CASE UNCHANGED vars BY <1>1, StutterInv
<1>2. ASSUME NEW w \in Workers, Work(w) PROVE IndInv'
  <2>1. CASE \/ PopLocal(w) \/ PopLocalExchange(w) \/ PopGlobal(w) \/ Steal(w) \/ StealExchange(w)
    BY Zenon, <2>1, SearchKeeps
  <2>2. CASE Wait(w) \/ Park(w) \/ StopWait(w) \/ Unsearch(w) BY Zenon, <2>2, Counted, WaiterKeeps
  <2>3. CASE Run(w) \/ AddLocal(w) \/ LocalPush(w) \/ Overflow(w) \/ Spill(w)
    BY Zenon, <2>3, AddKeeps
  <2> QED BY <1>2, <2>1, <2>2, <2>3 DEF Work
<1>3. ASSUME NEW t \in Threads, Post(t) PROVE IndInv'
  <2>1. CASE AddGlobal(t) BY Zenon, <2>1, AddKeeps
  <2>2. CASE Notify(t) \/ NotifyLocked(t) BY Zenon, <2>2, Counted, WaiterKeeps
  <2> QED BY <1>3, <2>1, <2>2 DEF Post
<1> QED BY <1>1, <1>2, <1>3 DEF Next

\* The inductive invariant holds in every state of every behaviour: of
\* CpuWorker::run, LocalQueue and MpmcSleepyWaiter for any number of workers,
\* any capacity of the local queues and any work.
THEOREM Invariance == Spec => []IndInv
BY InitInv, NextInv, PTL DEF Spec

\* The variables of the scheduler keep their types; a local queue never holds
\* more than N items and next_ never more than one.
THEOREM TypeCorrect == Spec => []TypeOK
<1>1. IndInv => TypeOK
  <2> SUFFICES ASSUME IndInv PROVE TypeOK
    OBVIOUS
  <2>1. TypeInv /\ CopyInv BY DEF IndInv
  <2>2. \A w \in Workers : local[w].head \in Nat /\ local[w].items \in Seq(Items) /\ Len(local[w].items) <= N
    BY <2>1 DEF TypeInv, QueueType, CopyInv
  <2>3. \A t \in Threads : /\ th[t].slot \in {"Work", "Search", "Sleep"}
                            /\ th[t].out \in Seq(Items \cup {Stop}) /\ th[t].after \in {"run", "add"}
    BY <2>1 DEF TypeInv, ThreadType, Work0
  <2> QED BY <2>1, <2>2, <2>3 DEF TypeOK, TypeInv, Work0
<1> QED BY <1>1, Invariance, PTL

\* The counters that MpmcSleepyWaiter packs into state_ agree with the slots of
\* the workers, so the CHECKs of wait, stop_wait, notify and close hold.
THEOREM CountersAgreeAlways == Spec => []CountersAgree
<1>1. IndInv => CountersAgree
  <2> SUFFICES ASSUME IndInv PROVE CountersAgree
    OBVIOUS
  <2>1. TypeInv /\ SlotInv BY DEF IndInv
  <2>2. ASSUME NEW w \in Workers PROVE th[w].slot = "Sleep" <=> (w \in Range(sleepers)) # unpark[w]
    <3>1. SlotOK(w) /\ unpark[w] \in BOOLEAN BY <2>1 DEF SlotInv, TypeInv
    <3> QED BY <3>1 DEF SlotOK
  <2> QED BY <2>1, <2>2 DEF CountersAgree, SlotInv
<1> QED BY <1>1, Invariance, PTL

\* No wake-up is lost: what notify of MpmcSleepyWaiter promises holds in every
\* state in which nobody is about to call it.
THEOREM WorkWakesSleepersAlways == Spec => []WorkWakesSleepers
<1>1. IndInv => WorkWakesSleepers
  <2> SUFFICES ASSUME IndInv, Announcing = {}, NEW w \in Workers, th[w].pc = "park", ~unpark[w]
               PROVE  /\ global # <<>> =>
                           Searchers # {} \/ \E u \in Workers : th[u].slot = "Sleep" /\ th[u].pc # "park"
                      /\ Stealable /\ (\A u \in Workers : th[u].pc # "exited") =>
                           \E u \in Workers : th[u].pc # "park" \/ unpark[u]
    BY DEF WorkWakesSleepers
  <2> USE DEF IndInv
  <2>1. \A u \in Workers : th[u].pc = "park" => th[u].slot = "Sleep" BY DEF ShapeInv, ShapeOK, Threads
  <2>2. sleepers # <<>>
    <3>1. SlotOK(w) /\ th[w].slot = "Sleep" BY <2>1 DEF SlotInv
    <3>2. unpark[w] \in BOOLEAN BY DEF TypeInv
    <3>3. w \in Range(sleepers) BY <3>1, <3>2 DEF SlotOK
    <3> QED BY <3>3 DEF Range
  <2>3. ASSUME global # <<>> PROVE Searchers # {} \/ \E u \in Workers : LooksYet(u)
    BY <2>2, <2>3 DEF GlobalInv
  <2>4. ASSUME NEW u \in Workers, LooksYet(u) PROVE th[u].slot = "Sleep" /\ th[u].pc # "park"
    BY <2>4 DEF LooksYet
  <2>5. ASSUME NEW u \in Searchers PROVE u \in Workers /\ (th[u].pc # "park" \/ unpark[u])
    BY <2>1 DEF Searchers
  <2>6. ASSUME \E v \in Workers : local[v].items # <<>>, \A u \in Workers : th[u].pc # "exited"
        PROVE  \E u \in Workers : th[u].pc # "park" \/ unpark[u]
    <3>1. PICK u \in Workers : MissedNothing(u) BY <2>6 DEF LocalInv
    <3>2. th[u].pc # "park" \/ unpark[u] BY <2>1, <3>1 DEF MissedNothing
    <3> QED BY <3>2
  <2> QED BY <2>3, <2>4, <2>5, <2>6 DEF Stealable
<1> QED BY <1>1, Invariance, PTL

\* A compare_exchange that succeeds takes what was copied: while head_ has not
\* moved, what local_pop and steal have read is still at the head of the queue and
\* fits into the queue it goes to, and the queue that overflow found full is full
\* (SPMC queue of LocalQueue).
THEOREM CopiesHold == Spec => []CopyInv
<1>1. IndInv => CopyInv BY DEF IndInv
<1> QED BY <1>1, Invariance, PTL

=============================================================================
