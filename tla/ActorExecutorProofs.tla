------------------------ MODULE ActorExecutorProofs -------------------------
(***************************************************************************)
(* The lock of an actor and its place in the queue, for any number of      *)
(* threads and whatever they send.                                         *)
(*                                                                         *)
(* RunsAloneAlways: the handlers run in one thread at a time and only      *)
(* while the actor lives.  The inductive invariant Base adds to it what an *)
(* executor knows at each place of its code (OwnerOK, StageOK) and that    *)
(* the unlocked word tells whether the actor lives.                        *)
(*                                                                         *)
(* QueueInv follows the pointer to the actor through queue, word and       *)
(* executors: the InQueue flag is set exactly while one is queued, about   *)
(* to be queued or popped.  ActorMessageProofs concludes QueuedOnceAlways, *)
(* after the facts about cardinality which the library provides.           *)
(*                                                                         *)
(* The first part states once for every step what it does to the record of *)
(* the executor that takes it (ReloadFacts ... KeptLockedFacts); the later *)
(* parts, and module ActorMessageProofs, argue from these facts.           *)
(***************************************************************************)
EXTENDS ActorExecutor, TLAPS

Names == {"Pause", "Kill", "StartUp", "Wakeup", "Alarm", "Pop", "Message"}
PCs == {"idle", "lock", "signals", "messages", "send", "finish", "settle", "unlock", "enqueue"}
FlagsType == [locked : BOOLEAN, in_queue : BOOLEAN, closed : BOOLEAN, signals : SUBSET Names]
PacketType == [from : Threads, no : Int, big : BOOLEAN, signals : SUBSET {"Kill", "Wakeup", "Pause"}]
ExecType ==
  [pc : PCs, from_queue : BOOLEAN, packet : PacketType, flags : FlagsType,
   new_flags : FlagsType, own_lock : BOOLEAN, executes : BOOLEAN, signals : SUBSET Names,
   pending : SUBSET Names, context : SUBSET {"stop", "yield", "alarm", "pause"},
   alarm : Int, add_to_queue : BOOLEAN]

TypeInv ==
  /\ word \in FlagsType /\ alive \in BOOLEAN
  /\ alarm \in 1 .. Never /\ heap \in 1 .. Never /\ now \in 0 .. MaxTime
  /\ queue \in Nat /\ ioQueue \in Nat
  /\ exec \in [Threads -> ExecType]
  /\ todo \in [Threads -> Seq(PacketType)]
  /\ mailbox \in Seq(PacketType) /\ reader \in Seq(PacketType) /\ ran \in Seq(PacketType)
  /\ effects \subseteq {"stop", "yield", "alarm"}

\* A thread without an executor: the initial members are typed.
LEMMA IdleType ==
  /\ Idle \in ExecType /\ Idle.pc = "idle" /\ ~Idle.own_lock /\ ~Idle.executes
  /\ ~Idle.from_queue /\ Idle.packet = NoPacket /\ Idle.signals = {} /\ Idle.pending = {}
  /\ Idle.context = {} /\ ~Idle.add_to_queue /\ NoPacket \in PacketType /\ NoPacket.no = 0
  BY DEF Idle, ExecType, FlagsType, PacketType, NoPacket, Threads, Names, PCs

\* What try_lock and try_unlock write into the word while locked.
LEMMA LockedType ==
  ASSUME NEW f \in FlagsType
  PROVE  /\ Locked(f) \in FlagsType
         /\ Locked(f).locked /\ Locked(f).closed = f.closed
         /\ Locked(f).in_queue = f.in_queue /\ Locked(f).signals = {}
  BY Zenon DEF Locked, FlagsType

\* An executor whose record is replaced: the types of the others are kept.
LEMMA ExecReplaced ==
  ASSUME exec \in [Threads -> ExecType], NEW t \in Threads, NEW r \in ExecType,
         exec' = [exec EXCEPT ![t] = r]
  PROVE  exec' \in [Threads -> ExecType]
  OBVIOUS

-----------------------------------------------------------------------------
(* What the steps of an executor do to its record                          *)

\* The members that start() and send() leave alone
Same(e, r) ==
  /\ r \in ExecType /\ r.from_queue = e.from_queue /\ r.new_flags = e.new_flags
  /\ r.own_lock = e.own_lock /\ r.executes = e.executes /\ r.add_to_queue = e.add_to_queue
  /\ r.flags.locked = e.flags.locked /\ r.flags.closed = e.flags.closed
  /\ r.flags.signals = e.flags.signals

\* The end of start(): what is left of the signals joins the pending ones.
Stopped(e, r, signals, pending) ==
  /\ Same(e, r) /\ r.packet = e.packet /\ r.pc = "send"
  /\ r.signals = {} /\ r.pending = pending \cup signals

\* After a handler: the owner goes on, or a flag in the context stops it.
GoesOn(e, r, pc, signals, pending) ==
  \/ /\ Same(e, r) /\ r.packet = e.packet /\ r.pc = pc
     /\ r.signals = signals /\ r.pending = pending /\ ~has_immediate_flags(r)
  \/ Stopped(e, r, signals, pending) /\ has_immediate_flags(r)

\* The record at the end of start() is such a record.
LEMMA StartedFacts ==
  ASSUME NEW e \in ExecType
  PROVE  /\ Stopped(e, Started(e), e.signals, e.pending) /\ Started(e).flags = e.flags
         /\ Started(e).context = e.context /\ Started(e).alarm = e.alarm
<1>1. e.pending \cup e.signals \in SUBSET Names /\ "send" \in PCs /\ {} \in SUBSET Names
  BY DEF ExecType, PCs
<1> QED BY Zenon, <1>1 DEF Stopped, Same, Started, ExecType

\* Continue goes on or stops.
LEMMA ContinueFacts ==
  ASSUME NEW e \in ExecType, NEW pc \in {"signals", "messages"}
  PROVE  /\ GoesOn(e, Continue(e, pc), pc, e.signals, e.pending)
         /\ Continue(e, pc).flags = e.flags /\ Continue(e, pc).alarm = e.alarm
<1>1. CASE has_immediate_flags(e)
  <2>1. Continue(e, pc) = Started(e) BY <1>1 DEF Continue
  <2>2. has_immediate_flags(Started(e)) BY <1>1, StartedFacts DEF has_immediate_flags
  <2> QED BY <2>1, <2>2, StartedFacts DEF GoesOn
<1>2. CASE ~has_immediate_flags(e)
  <2> DEFINE r == [e EXCEPT !.pc = pc]
  <2>1. Continue(e, pc) = r BY <1>2 DEF Continue
  <2>2. Same(e, r) /\ r.packet = e.packet /\ r.pc = pc /\ r.signals = e.signals
        /\ r.pending = e.pending /\ r.context = e.context /\ r.flags = e.flags /\ r.alarm = e.alarm
    BY DEF Same, ExecType, PCs
  <2> HIDE DEF r
  <2>3. ~has_immediate_flags(r) BY <1>2, <2>2 DEF has_immediate_flags
  <2> QED BY <2>1, <2>2, <2>3 DEF GoesOn
<1> QED BY <1>1, <1>2

\* What a handler leaves in the context.
LEMMA EffectFacts ==
  ASSUME TypeInv, NEW e \in ExecType, NEW effect \in Effects, Handler(effect)
  PROVE  LET r == AfterEffect(e, effect)
         IN  /\ Same(e, r) /\ r.packet = e.packet /\ r.pc = e.pc /\ r.flags = e.flags
             /\ r.signals = e.signals /\ r.pending = e.pending
             /\ e.alarm \in 1 .. Never => r.alarm \in 1 .. Never
<1> DEFINE c == IF effect = "none" THEN e.context ELSE e.context \cup {effect}
           a == IF effect = "alarm" THEN now + 1 ELSE e.alarm
           r == [e EXCEPT !.context = c, !.alarm = a]
<1>1. c \in SUBSET {"stop", "yield", "alarm", "pause"} BY DEF TypeInv, ExecType, Effects
<1>2. a \in Int /\ (e.alarm \in 1 .. Never => a \in 1 .. Never)
  BY ExecutorConstants DEF TypeInv, ExecType, Handler, Never
<1>3. AfterEffect(e, effect) = r BY DEF AfterEffect
<1> HIDE DEF c, a
<1>4. Same(e, r) /\ r.packet = e.packet /\ r.pc = e.pc /\ r.flags = e.flags
      /\ r.signals = e.signals /\ r.pending = e.pending /\ r.alarm = a
  BY Zenon, <1>1, <1>2 DEF Same, ExecType
<1> HIDE DEF r
<1> QED BY <1>2, <1>3, <1>4

\* Two such changes are one.
LEMMA GoesOnTrans ==
  ASSUME NEW e, NEW f, NEW r, NEW pc, NEW signals, NEW pending,
         Same(e, f), f.packet = e.packet, GoesOn(f, r, pc, signals, pending)
  PROVE  GoesOn(e, r, pc, signals, pending)
  BY DEF GoesOn, Stopped, Same

-----------------------------------------------------------------------------
(* What the actions do                                                     *)

\* The constructor of an executor: r is its record.
Constructed(t, fq, p, r) ==
  /\ exec' = [exec EXCEPT ![t] = r]
  /\ r.pc = "lock" /\ r.from_queue = fq /\ r.packet = p /\ r.flags = word
  /\ ~r.own_lock /\ ~r.executes /\ r.pending = {} /\ r.context = {} /\ ~r.add_to_queue
  /\ r.signals = p.signals \cup (IF fq THEN {"Pop"} ELSE {}) /\ r.alarm = alarm

\* Such is the new executor.
LEMMA ConstructFacts ==
  ASSUME TypeInv, NEW t \in Threads, NEW fq \in BOOLEAN, NEW p \in PacketType, Construct(t, fq, p)
  PROVE  \E r \in ExecType : Constructed(t, fq, p, r)
<1> DEFINE s == p.signals \cup (IF fq THEN {"Pop"} ELSE {})
           r == [Idle EXCEPT !.pc = "lock", !.from_queue = fq, !.packet = p,
                             !.flags = word, !.alarm = alarm, !.signals = s]
<1>1. s \in SUBSET Names /\ "lock" \in PCs BY DEF PacketType, Names, PCs
<1>2. exec' = [exec EXCEPT ![t] = r] BY DEF Construct
<1>2a. alarm \in Int /\ word \in FlagsType BY DEF TypeInv
<1> HIDE DEF s
<1>3. /\ r \in ExecType /\ r.pc = "lock" /\ r.from_queue = fq /\ r.packet = p /\ r.flags = word
      /\ r.own_lock = Idle.own_lock /\ r.executes = Idle.executes /\ r.pending = Idle.pending
      /\ r.context = Idle.context /\ r.add_to_queue = Idle.add_to_queue
      /\ r.signals = s /\ r.alarm = alarm
  BY Zenon, <1>1, <1>2a, IdleType DEF ExecType
<1> HIDE DEF r
<1> QED BY Zenon, <1>2, <1>3, IdleType DEF s, Constructed

\* Another value is loaded from the word.
Reloaded(t, r) ==
  /\ exec' = [exec EXCEPT ![t] = r] /\ word' = word /\ r.flags = word
  /\ r.pc = exec[t].pc /\ r.from_queue = exec[t].from_queue /\ r.packet = exec[t].packet
  /\ r.new_flags = exec[t].new_flags /\ r.own_lock = exec[t].own_lock
  /\ r.executes = exec[t].executes /\ r.signals = exec[t].signals
  /\ r.pending = exec[t].pending /\ r.context = exec[t].context
  /\ r.alarm = exec[t].alarm /\ r.add_to_queue = exec[t].add_to_queue

\* Reload does so, and the record keeps its type.
LEMMA ReloadFacts ==
  ASSUME TypeInv, NEW t \in Threads, Reload(t)
  PROVE  \E r \in ExecType : Reloaded(t, r)
<1> DEFINE r == [exec[t] EXCEPT !.flags = word]
<1>1. exec[t] \in ExecType /\ word \in FlagsType BY DEF TypeInv
<1>2. /\ r \in ExecType /\ r.flags = word
      /\ r.pc = exec[t].pc /\ r.from_queue = exec[t].from_queue /\ r.packet = exec[t].packet
      /\ r.new_flags = exec[t].new_flags /\ r.own_lock = exec[t].own_lock
      /\ r.executes = exec[t].executes /\ r.signals = exec[t].signals
      /\ r.pending = exec[t].pending /\ r.context = exec[t].context
      /\ r.alarm = exec[t].alarm /\ r.add_to_queue = exec[t].add_to_queue
  BY <1>1 DEF ExecType
<1>3. exec' = [exec EXCEPT ![t] = r] /\ word' = word BY DEF Reload, TypeInv
<1> HIDE DEF r
<1> QED BY Zenon, <1>2, <1>3 DEF Reloaded

\* start() takes the lock: the owner cannot run handlers, finds a closed actor,
\* or runs it.
TookLock(t, r) ==
  LET e == exec[t]
      signals == (e.signals \cup word.signals) \ (IF e.from_queue THEN {"Pause"} ELSE {})
  IN  /\ exec' = [exec EXCEPT ![t] = r] /\ ~word.locked /\ word' = Locked(word)
      /\ r.from_queue = e.from_queue /\ r.packet = e.packet /\ r.own_lock
      /\ r.new_flags = Locked(word) /\ r.add_to_queue = e.add_to_queue
      /\ r.context = e.context /\ r.alarm = e.alarm
      /\ ~r.flags.locked /\ r.flags.closed = word.closed /\ r.flags.in_queue = word.in_queue
      /\ \/ /\ ~can_execute(t, word) /\ r.pc = "send" /\ r.executes = e.executes
            /\ r.flags.signals = word.signals
            /\ r.signals = {} /\ r.pending = e.pending \cup e.signals
         \/ /\ can_execute(t, word) /\ word.closed /\ r.pc = "send" /\ r.executes
            /\ r.flags.signals = {} /\ r.signals = {} /\ r.pending = e.pending \cup signals
         \/ /\ can_execute(t, word) /\ ~word.closed /\ r.pc = "signals" /\ r.executes
            /\ r.flags.signals = {} /\ r.signals = signals /\ r.pending = e.pending

\* The compare-and-swap of try_lock does so.
LEMMA LockFacts ==
  ASSUME TypeInv, NEW t \in Threads, Start(t), word = exec[t].flags, ~can_try_add_signals(t)
  PROVE  \E r \in ExecType : TookLock(t, r)
<1> DEFINE e == exec[t]
           signals == (e.signals \cup word.signals) \ (IF e.from_queue THEN {"Pause"} ELSE {})
           own == [e EXCEPT !.own_lock = TRUE, !.new_flags = Locked(word)]
           taken == [own EXCEPT !.executes = TRUE, !.flags.signals = {}, !.signals = signals]
           run == [taken EXCEPT !.pc = "signals"]
<1>1. e \in ExecType /\ word \in FlagsType BY DEF TypeInv
<1>2. word = e.flags /\ word' = Locked(word) BY DEF Start, Reload
<1>3. exec' = [exec EXCEPT ![t] = IF ~can_execute(t, word) THEN Started(own)
                                  ELSE IF word.closed THEN Started(taken) ELSE run]
  BY <1>2 DEF Start, Reload
<1>4. ~word.locked BY <1>2 DEF can_try_add_signals
<1>5. Locked(word) \in FlagsType BY <1>1, LockedType
<1>6. /\ own \in ExecType /\ own.own_lock /\ own.new_flags = Locked(word) /\ own.flags = word
      /\ own.from_queue = e.from_queue /\ own.packet = e.packet
      /\ own.add_to_queue = e.add_to_queue /\ own.context = e.context /\ own.alarm = e.alarm
      /\ own.executes = e.executes /\ own.signals = e.signals /\ own.pending = e.pending
  BY Zenon, <1>1, <1>2, <1>5 DEF ExecType
<1>7. signals \in SUBSET Names BY <1>1 DEF ExecType, FlagsType
<1> HIDE DEF own, signals
<1>8. /\ taken \in ExecType /\ taken.own_lock /\ taken.new_flags = Locked(word)
      /\ taken.flags.locked = word.locked /\ taken.flags.closed = word.closed
      /\ taken.flags.in_queue = word.in_queue /\ taken.flags.signals = {}
      /\ taken.from_queue = own.from_queue /\ taken.packet = own.packet
      /\ taken.add_to_queue = own.add_to_queue /\ taken.context = own.context
      /\ taken.alarm = own.alarm /\ taken.executes
      /\ taken.signals = signals /\ taken.pending = own.pending
  BY Zenon, <1>6, <1>7 DEF ExecType, FlagsType
<1> HIDE DEF taken
<1>9. /\ run \in ExecType /\ run.own_lock /\ run.new_flags = taken.new_flags
      /\ run.flags = taken.flags /\ run.from_queue = taken.from_queue /\ run.packet = taken.packet
      /\ run.add_to_queue = taken.add_to_queue /\ run.context = taken.context
      /\ run.alarm = taken.alarm /\ run.executes = taken.executes
      /\ run.signals = signals /\ run.pending = taken.pending /\ run.pc = "signals"
  BY Zenon, <1>8 DEF ExecType, PCs
<1> HIDE DEF run
<1>10. CASE ~can_execute(t, word)
  <2>1. exec' = [exec EXCEPT ![t] = Started(own)] BY <1>3, <1>10
  <2>2. /\ Stopped(own, Started(own), own.signals, own.pending) /\ Started(own).flags = own.flags
        /\ Started(own).context = own.context /\ Started(own).alarm = own.alarm
    BY <1>6, StartedFacts
  <2> QED BY Zenon, <1>2, <1>4, <1>6, <1>10, <2>1, <2>2 DEF Stopped, Same, TookLock
<1>11. CASE can_execute(t, word) /\ word.closed
  <2>1. exec' = [exec EXCEPT ![t] = Started(taken)] BY <1>3, <1>11
  <2>2. /\ Stopped(taken, Started(taken), taken.signals, taken.pending)
        /\ Started(taken).flags = taken.flags
        /\ Started(taken).context = taken.context /\ Started(taken).alarm = taken.alarm
    BY <1>8, StartedFacts
  <2>3. Started(taken).pending = e.pending \cup signals
    BY <1>6, <1>8, <2>2 DEF Stopped
  <2> QED BY Zenon, <1>2, <1>4, <1>6, <1>8, <1>11, <2>1, <2>2, <2>3 DEF Stopped, Same, signals, TookLock
<1>12. CASE can_execute(t, word) /\ ~word.closed
  <2>1. exec' = [exec EXCEPT ![t] = run] BY <1>3, <1>12
  <2> QED BY Zenon, <1>2, <1>4, <1>6, <1>8, <1>9, <1>12, <2>1 DEF signals, TookLock
<1> QED BY <1>10, <1>11, <1>12

\* The first of some signals is one of them.
LEMMA FirstIn ==
  ASSUME NEW S \in SUBSET Names, S # {}
  PROVE  First(S) \in S
<1>1. /\ SignalValue["Pause"] = 1 /\ SignalValue["Kill"] = 2 /\ SignalValue["StartUp"] = 3
      /\ SignalValue["Wakeup"] = 4 /\ SignalValue["Alarm"] = 5 /\ SignalValue["Pop"] = 8
      /\ SignalValue["Message"] = 9
  BY DEF SignalValue
<1>2. \E s \in S : \A other \in S : SignalValue[s] <= SignalValue[other]
  <2>1. CASE "Pause" \in S BY <1>1, <2>1 DEF Names
  <2>2. CASE S \subseteq {"Kill", "StartUp", "Wakeup", "Alarm", "Pop", "Message"} /\ "Kill" \in S
    BY <1>1, <2>2
  <2>3. CASE S \subseteq {"StartUp", "Wakeup", "Alarm", "Pop", "Message"} /\ "StartUp" \in S
    BY <1>1, <2>3
  <2>4. CASE S \subseteq {"Wakeup", "Alarm", "Pop", "Message"} /\ "Wakeup" \in S BY <1>1, <2>4
  <2>5. CASE S \subseteq {"Alarm", "Pop", "Message"} /\ "Alarm" \in S BY <1>1, <2>5
  <2>6. CASE S \subseteq {"Pop", "Message"} /\ "Pop" \in S BY <1>1, <2>6
  <2>7. CASE S \subseteq {"Message"} /\ "Message" \in S BY <1>1, <2>7
  <2> QED BY Zenon, <2>1, <2>2, <2>3, <2>4, <2>5, <2>6, <2>7 DEF Names
<1> QED BY <1>2 DEF First

\* flush_one_signal handles a signal.
SignalDone(t, name, r) ==
  LET e == exec[t]
  IN  /\ exec' = [exec EXCEPT ![t] = r] /\ e.pc = "signals" /\ name \in e.signals
      /\ effects' \subseteq effects /\ alarm' \in {alarm, Never}
      /\ GoesOn(e, r, "signals", e.signals \ {name},
                IF name = "Message" THEN e.pending \cup {"Message"} ELSE e.pending)
      /\ r.flags.in_queue = (e.flags.in_queue /\ name # "Pop")
      /\ e.alarm \in 1 .. Never => r.alarm \in 1 .. Never
      /\ ran' = IF name = "StartUp" THEN Append(ran, NoPacket) ELSE ran
      /\ IF name = "Message" THEN reader' = reader \o mailbox /\ mailbox' = <<>>
                             ELSE reader' = reader /\ mailbox' = mailbox

\* FlushSignal handles the first signal of start() in this way.
LEMMA FlushSignalFacts ==
  ASSUME TypeInv, NEW t \in Threads, FlushSignal(t)
  PROVE  \E name, r : r \in ExecType /\ SignalDone(t, name, r)
<1> DEFINE name == First(exec[t].signals)
           e == [exec[t] EXCEPT !.signals = @ \ {name}]
           P == IF name = "Message" THEN exec[t].pending \cup {"Message"} ELSE exec[t].pending
           Goes(f) == exec' = [exec EXCEPT ![t] = Continue(f, "signals")]
           Fine(f) == /\ f \in ExecType /\ Same(exec[t], f) /\ f.packet = exec[t].packet
                      /\ f.signals = e.signals /\ f.pending = P
                      /\ f.flags.in_queue = (exec[t].flags.in_queue /\ name # "Pop")
                      /\ exec[t].alarm \in 1 .. Never => f.alarm \in 1 .. Never
           a == [e EXCEPT !.alarm = Never, !.context = @ \cup {"alarm"}]
<1>1. exec[t] \in ExecType /\ exec[t].pc = "signals" BY DEF FlushSignal, TypeInv
<1>2. name \in exec[t].signals BY <1>1, FirstIn DEF FlushSignal, ExecType
<1>3. \/ name = "Pause" /\ Goes([e EXCEPT !.context = @ \cup {"pause"}])
      \/ name = "Kill" /\ Goes([e EXCEPT !.context = @ \cup {"stop"}])
      \/ name = "Pop" /\ Goes([e EXCEPT !.flags.in_queue = FALSE])
      \/ name = "Message" /\ Goes([e EXCEPT !.pending = @ \cup {"Message"}])
      \/ name = "Alarm" /\ Goes(e)
      \/ name \in {"StartUp", "Wakeup"} /\ \E effect \in Effects :
           Handler(effect) /\ Goes(AfterEffect(e, effect))
      \/ name = "Alarm" /\ \E effect \in Effects : Handler(effect) /\ Goes(AfterEffect(a, effect))
  BY Zenon DEF FlushSignal
<1>4. /\ e \in ExecType /\ Same(exec[t], e) /\ e.packet = exec[t].packet
      /\ e.signals = exec[t].signals \ {name} /\ e.pending = exec[t].pending
      /\ e.flags = exec[t].flags /\ e.alarm = exec[t].alarm
  BY <1>1 DEF Same, ExecType
<1>5. /\ ran' = IF name = "StartUp" THEN Append(ran, NoPacket) ELSE ran
      /\ IF name = "Message" THEN reader' = reader \o mailbox /\ mailbox' = <<>>
                             ELSE reader' = reader /\ mailbox' = mailbox
      /\ effects' \subseteq effects /\ alarm' \in {alarm, Never}
  BY DEF FlushSignal, Handler
<1>6. Never \in 1 .. Never BY ExecutorConstants DEF Never
<1>6a. e.flags.in_queue \in BOOLEAN BY <1>4 DEF ExecType, FlagsType
<1> HIDE DEF e, name
<1>7. PICK f : Fine(f) /\ Goes(f)
  <2>1. CASE name = "Pause" /\ Goes([e EXCEPT !.context = @ \cup {"pause"}])
    <3> DEFINE f == [e EXCEPT !.context = @ \cup {"pause"}]
    <3>1. Same(e, f) /\ f.packet = e.packet /\ f.signals = e.signals /\ f.pending = e.pending
          /\ f.flags = e.flags /\ f.alarm = e.alarm
      BY <1>4 DEF Same, ExecType
    <3> HIDE DEF f
    <3>2. Fine(f) BY <1>4, <1>6a, <2>1, <3>1 DEF Same
    <3> QED BY Zenon, <2>1, <3>2 DEF f
  <2>2. CASE name = "Kill" /\ Goes([e EXCEPT !.context = @ \cup {"stop"}])
    <3> DEFINE f == [e EXCEPT !.context = @ \cup {"stop"}]
    <3>1. Same(e, f) /\ f.packet = e.packet /\ f.signals = e.signals /\ f.pending = e.pending
          /\ f.flags = e.flags /\ f.alarm = e.alarm
      BY <1>4 DEF Same, ExecType
    <3> HIDE DEF f
    <3>2. Fine(f) BY <1>4, <1>6a, <2>2, <3>1 DEF Same
    <3> QED BY Zenon, <2>2, <3>2 DEF f
  <2>3. CASE name = "Pop" /\ Goes([e EXCEPT !.flags.in_queue = FALSE])
    <3> DEFINE f == [e EXCEPT !.flags.in_queue = FALSE]
    <3>1. Same(e, f) /\ f.packet = e.packet /\ f.signals = e.signals /\ f.pending = e.pending
          /\ f.flags.in_queue = FALSE /\ f.alarm = e.alarm
      BY Zenon, <1>4 DEF Same, ExecType, FlagsType
    <3> HIDE DEF f
    <3>2. Fine(f) BY Zenon, <1>4, <1>6a, <2>3, <3>1 DEF Same
    <3> QED BY Zenon, <2>3, <3>2 DEF f
  <2>4. CASE name = "Message" /\ Goes([e EXCEPT !.pending = @ \cup {"Message"}])
    <3> DEFINE f == [e EXCEPT !.pending = @ \cup {"Message"}]
    <3>1. Same(e, f) /\ f.packet = e.packet /\ f.signals = e.signals
          /\ f.pending = e.pending \cup {"Message"} /\ f.flags = e.flags /\ f.alarm = e.alarm
      BY <1>4 DEF Same, ExecType, Names
    <3> HIDE DEF f
    <3>2. Fine(f) BY <1>4, <1>6a, <2>4, <3>1 DEF Same
    <3> QED BY Zenon, <2>4, <3>2 DEF f
  <2>5. CASE name = "Alarm" /\ Goes(e) BY Zenon, <1>4, <1>6a, <2>5
  <2>6. CASE name \in {"StartUp", "Wakeup"} /\ \E effect \in Effects :
               Handler(effect) /\ Goes(AfterEffect(e, effect))
    <3>1. PICK effect \in Effects : Handler(effect) /\ Goes(AfterEffect(e, effect)) BY Zenon, <2>6
    <3> DEFINE f == AfterEffect(e, effect)
    <3>2. /\ Same(e, f) /\ f.packet = e.packet /\ f.pc = e.pc /\ f.flags = e.flags
          /\ f.signals = e.signals /\ f.pending = e.pending
          /\ e.alarm \in 1 .. Never => f.alarm \in 1 .. Never
      BY <1>4, <3>1, EffectFacts
    <3> HIDE DEF f
    <3>3. Fine(f) BY <1>4, <1>6a, <2>6, <3>2 DEF Same
    <3> QED BY Zenon, <3>1, <3>3 DEF f
  <2>7. CASE name = "Alarm" /\ \E effect \in Effects :
               Handler(effect) /\ Goes(AfterEffect(a, effect))
    <3>1. PICK effect \in Effects : Handler(effect) /\ Goes(AfterEffect(a, effect)) BY Zenon, <2>7
    <3> DEFINE f == AfterEffect(a, effect)
    <3>2. Never \in Int BY ExecutorConstants DEF Never
    <3>3. /\ a \in ExecType /\ Same(e, a) /\ a.packet = e.packet /\ a.signals = e.signals
          /\ a.pending = e.pending /\ a.flags = e.flags /\ a.alarm = Never
      BY Zenon, <1>4, <3>2 DEF Same, ExecType
    <3> HIDE DEF a
    <3>4. /\ Same(a, f) /\ f.packet = a.packet /\ f.pc = a.pc /\ f.flags = a.flags
          /\ f.signals = a.signals /\ f.pending = a.pending
          /\ a.alarm \in 1 .. Never => f.alarm \in 1 .. Never
      BY <3>1, <3>3, EffectFacts
    <3> HIDE DEF f
    <3>5. Fine(f) BY <1>4, <1>6, <1>6a, <2>7, <3>3, <3>4 DEF Same
    <3> QED BY Zenon, <3>1, <3>5 DEF f, a
  <2> QED BY Zenon, <1>3, <2>1, <2>2, <2>3, <2>4, <2>5, <2>6, <2>7
<1> DEFINE r == Continue(f, "signals")
<1>8. GoesOn(f, r, "signals", f.signals, f.pending) /\ r.flags = f.flags /\ r.alarm = f.alarm
  BY <1>7, ContinueFacts
<1> HIDE DEF r
<1>9. GoesOn(exec[t], r, "signals", f.signals, f.pending)
  BY <1>7, <1>8, GoesOnTrans
<1>10. r \in ExecType BY <1>8 DEF GoesOn, Stopped, Same
<1>11. f.signals = exec[t].signals \ {name} /\ f.pending = P BY <1>4, <1>7
<1>12. exec' = [exec EXCEPT ![t] = r] BY <1>7 DEF r
<1> HIDE DEF P
<1>13. GoesOn(exec[t], r, "signals", exec[t].signals \ {name}, P) BY <1>9, <1>11
<1> QED BY Zenon, <1>1, <1>2, <1>5, <1>7, <1>8, <1>10, <1>12, <1>13 DEF P, SignalDone

\* flush_one_message: there is none, a big one has to wait, or one is handled.
MessageDone(t, r) ==
  LET e == exec[t]
  IN  /\ exec' = [exec EXCEPT ![t] = r] /\ e.pc = "messages" /\ effects' \subseteq effects
      /\ r.flags = e.flags /\ (e.alarm \in 1 .. Never => r.alarm \in 1 .. Never)
      /\ \/ /\ reader = <<>> /\ UNCHANGED <<reader, ran>>
            /\ Stopped(e, r, e.signals, e.pending \ {"Message"})
         \/ /\ reader # <<>> /\ UNCHANGED <<reader, ran>>
            /\ Stopped(e, r, e.signals, e.pending) /\ has_immediate_flags(r)
         \/ /\ reader # <<>> /\ reader' = Tail(reader) /\ ran' = Append(ran, Head(reader))
            /\ GoesOn(e, r, "messages", e.signals, e.pending)

\* FlushMessage is one of the three.
LEMMA FlushMessageFacts ==
  ASSUME TypeInv, NEW t \in Threads, FlushMessage(t)
  PROVE  \E r \in ExecType : MessageDone(t, r)
<1> DEFINE e == exec[t]
<1>1. e \in ExecType /\ e.pc = "messages" BY DEF FlushMessage, TypeInv
<1>2. effects' \subseteq effects BY DEF FlushMessage, Handler
<1>3. CASE reader = <<>>
  <2> DEFINE f == [e EXCEPT !.pending = @ \ {"Message"}]
  <2>1. /\ Same(e, f) /\ f.packet = e.packet /\ f.signals = e.signals
        /\ f.pending = e.pending \ {"Message"} /\ f.flags = e.flags /\ f.alarm = e.alarm
    BY <1>1 DEF Same, ExecType
  <2>2. exec' = [exec EXCEPT ![t] = Started(f)] /\ UNCHANGED <<reader, ran>>
    BY <1>3 DEF FlushMessage
  <2> HIDE DEF f
  <2>3. /\ Stopped(f, Started(f), f.signals, f.pending) /\ Started(f).flags = f.flags
        /\ Started(f).alarm = f.alarm
    BY <2>1, StartedFacts DEF Same
  <2>4. Stopped(e, Started(f), e.signals, e.pending \ {"Message"}) BY <2>1, <2>3 DEF Stopped, Same
  <2>5. Started(f) \in ExecType BY <2>3 DEF Stopped, Same
  <2> QED BY Zenon, <1>1, <1>2, <1>3, <2>1, <2>2, <2>3, <2>4, <2>5 DEF MessageDone
<1>4. CASE reader # <<>> /\ Head(reader).big /\ ~e.from_queue
  <2> DEFINE f == [e EXCEPT !.context = @ \cup {"pause"}]
  <2>1. /\ Same(e, f) /\ f.packet = e.packet /\ f.signals = e.signals
        /\ f.pending = e.pending /\ f.flags = e.flags /\ f.alarm = e.alarm
        /\ f.context = e.context \cup {"pause"}
    BY <1>1 DEF Same, ExecType
  <2>2. exec' = [exec EXCEPT ![t] = Started(f)] /\ UNCHANGED <<reader, ran>>
    BY <1>4 DEF FlushMessage
  <2> HIDE DEF f
  <2>3. /\ Stopped(f, Started(f), f.signals, f.pending) /\ Started(f).flags = f.flags
        /\ Started(f).alarm = f.alarm /\ Started(f).context = f.context
    BY <2>1, StartedFacts DEF Same
  <2>4. Stopped(e, Started(f), e.signals, e.pending) BY <2>1, <2>3 DEF Stopped, Same
  <2>5. Started(f) \in ExecType BY <2>3 DEF Stopped, Same
  <2>6. has_immediate_flags(Started(f)) BY <2>1, <2>3 DEF has_immediate_flags
  <2> QED BY Zenon, <1>1, <1>2, <1>4, <2>1, <2>2, <2>3, <2>4, <2>5, <2>6 DEF MessageDone
<1>5. CASE reader # <<>> /\ (Head(reader).big => e.from_queue)
  <2>1. PICK effect \in Effects :
          /\ Handler(effect)
          /\ exec' = [exec EXCEPT ![t] = Continue(AfterEffect(e, effect), "messages")]
          /\ reader' = Tail(reader) /\ ran' = Append(ran, Head(reader))
    BY <1>5 DEF FlushMessage
  <2> DEFINE f == AfterEffect(e, effect)
             r == Continue(f, "messages")
  <2>2. /\ Same(e, f) /\ f.packet = e.packet /\ f.flags = e.flags
        /\ f.signals = e.signals /\ f.pending = e.pending
        /\ e.alarm \in 1 .. Never => f.alarm \in 1 .. Never
    BY <1>1, <2>1, EffectFacts
  <2>3. exec' = [exec EXCEPT ![t] = r] BY <2>1
  <2> HIDE DEF f
  <2>4. GoesOn(f, r, "messages", f.signals, f.pending) /\ r.flags = f.flags /\ r.alarm = f.alarm
    BY <2>2, ContinueFacts DEF Same
  <2> HIDE DEF r
  <2>5. GoesOn(e, r, "messages", e.signals, e.pending) BY <2>2, <2>4, GoesOnTrans
  <2>6. r \in ExecType BY <2>5 DEF GoesOn, Stopped, Same
  <2> QED BY Zenon, <1>1, <1>2, <1>5, <2>1, <2>2, <2>3, <2>4, <2>5, <2>6 DEF MessageDone
<1> QED BY <1>3, <1>4, <1>5

\* send(message): nothing to do, an alarm, a message for later, a big one that
\* has to wait, or one that runs at once.
MessageSent(t, r) ==
  LET e == exec[t]
  IN  /\ exec' = [exec EXCEPT ![t] = r] /\ e.pc = "send" /\ effects' \subseteq effects
      /\ Same(e, r) /\ r.flags = e.flags
      /\ r.pc = "finish" /\ r.packet = NoPacket /\ r.signals = e.signals
      /\ e.alarm \in 1 .. Never => r.alarm \in 1 .. Never
      /\ \/ r.pending = e.pending /\ UNCHANGED <<mailbox, reader, ran>>
         \/ r.pending = e.pending \cup {"Alarm"} /\ UNCHANGED <<mailbox, reader, ran>>
         \/ /\ e.packet.no > 0 /\ ~e.flags.closed
            /\ r.pending = e.pending \cup {"Message"}
            /\ mailbox' = Append(mailbox, e.packet) /\ UNCHANGED <<reader, ran>>
         \/ /\ e.packet.no > 0 /\ ~e.flags.closed /\ can_send_immediate(e)
            /\ r.pending = e.pending \cup {"Message"}
            /\ reader' = <<e.packet>> \o reader /\ UNCHANGED <<mailbox, ran>>
         \/ /\ e.packet.no > 0 /\ ~e.flags.closed /\ can_send_immediate(e)
            /\ r.pending = e.pending
            /\ ran' = Append(ran, e.packet) /\ UNCHANGED <<mailbox, reader>>

\* SendMessage is one of these.
LEMMA SendMessageFacts ==
  ASSUME TypeInv, NEW t \in Threads, SendMessage(t)
  PROVE  \E r \in ExecType : MessageSent(t, r)
<1> DEFINE e == exec[t]
           Goes(f) == exec' = [exec EXCEPT ![t] = Sent(f)]
           later == [e EXCEPT !.pending = @ \cup {"Message"}]
           big == [later EXCEPT !.context = @ \cup {"pause"}]
           alarmed == [e EXCEPT !.pending = @ \cup {"Alarm"}]
           Fine(f, P) == /\ Same(e, f) /\ f.flags = e.flags /\ f.signals = e.signals
                         /\ f.pending = P
                         /\ e.alarm \in 1 .. Never => f.alarm \in 1 .. Never
           Done(r, P) == /\ r \in ExecType /\ exec' = [exec EXCEPT ![t] = r]
                         /\ Same(e, r) /\ r.flags = e.flags
                         /\ r.pc = "finish" /\ r.packet = NoPacket /\ r.signals = e.signals
                         /\ e.alarm \in 1 .. Never => r.alarm \in 1 .. Never
                         /\ r.pending = P
<1>1. e \in ExecType /\ e.pc = "send" BY DEF SendMessage, TypeInv
<1>2. effects' \subseteq effects BY DEF SendMessage, Handler
<1>3. ASSUME NEW f, NEW P, Fine(f, P), Goes(f) PROVE Done(Sent(f), P)
  <2>1. f \in ExecType BY <1>3 DEF Same
  <2>2. /\ Same(f, Sent(f)) /\ Sent(f).flags = f.flags /\ Sent(f).pc = "finish"
        /\ Sent(f).packet = NoPacket /\ Sent(f).signals = f.signals
        /\ Sent(f).pending = f.pending /\ Sent(f).alarm = f.alarm
    BY Zenon, <2>1, IdleType DEF Sent, Same, ExecType, PCs
  <2> QED BY <1>3, <2>2 DEF Same
<1>4. Fine(e, e.pending) BY <1>1 DEF Same
<1>5. Fine(later, e.pending \cup {"Message"}) /\ later.context = e.context
  BY <1>1 DEF Same, ExecType, Names
<1>6. Fine(alarmed, e.pending \cup {"Alarm"}) BY <1>1 DEF Same, ExecType, Names
<1>7. Fine(big, e.pending \cup {"Message"})
  <2> HIDE DEF later
  <2>1. /\ Same(later, big) /\ big.flags = later.flags /\ big.signals = later.signals
        /\ big.pending = later.pending /\ big.alarm = later.alarm
    BY <1>5 DEF Same, ExecType
  <2> HIDE DEF big
  <2> QED BY <1>5, <2>1 DEF Same
<1>8. ASSUME NEW effect \in Effects, Handler(effect) PROVE Fine(AfterEffect(e, effect), e.pending)
  BY <1>1, <1>8, EffectFacts
<1>9. \/ Goes(e) /\ UNCHANGED <<mailbox, reader, ran>>
      \/ Goes(alarmed) /\ UNCHANGED <<mailbox, reader, ran>>
      \/ /\ e.packet.no > 0 /\ ~e.flags.closed /\ Goes(later)
         /\ mailbox' = Append(mailbox, e.packet) /\ UNCHANGED <<reader, ran>>
      \/ /\ e.packet.no > 0 /\ ~e.flags.closed /\ can_send_immediate(e) /\ Goes(big)
         /\ reader' = <<e.packet>> \o reader /\ UNCHANGED <<mailbox, ran>>
      \/ /\ e.packet.no > 0 /\ ~e.flags.closed /\ can_send_immediate(e)
         /\ \E effect \in Effects : Handler(effect) /\ Goes(AfterEffect(e, effect))
         /\ ran' = Append(ran, e.packet) /\ UNCHANGED <<mailbox, reader>>
  BY DEF SendMessage
<1> HIDE DEF later, big, alarmed, Fine, Goes
<1>10. \E r : \/ Done(r, e.pending) /\ UNCHANGED <<mailbox, reader, ran>>
              \/ Done(r, e.pending \cup {"Alarm"}) /\ UNCHANGED <<mailbox, reader, ran>>
              \/ /\ e.packet.no > 0 /\ ~e.flags.closed /\ Done(r, e.pending \cup {"Message"})
                 /\ mailbox' = Append(mailbox, e.packet) /\ UNCHANGED <<reader, ran>>
              \/ /\ e.packet.no > 0 /\ ~e.flags.closed /\ can_send_immediate(e)
                 /\ Done(r, e.pending \cup {"Message"})
                 /\ reader' = <<e.packet>> \o reader /\ UNCHANGED <<mailbox, ran>>
              \/ /\ e.packet.no > 0 /\ ~e.flags.closed /\ can_send_immediate(e)
                 /\ Done(r, e.pending)
                 /\ ran' = Append(ran, e.packet) /\ UNCHANGED <<mailbox, reader>>
  <2> HIDE DEF Done
  <2> QED BY <1>3, <1>4, <1>5, <1>6, <1>7, <1>8, <1>9
<1> QED BY Zenon, <1>1, <1>2, <1>10 DEF MessageSent

\* add_signals takes the lock.
AddedLocked(t, r) ==
  LET e == exec[t]
  IN  /\ exec' = [exec EXCEPT ![t] = r]
      /\ r.pc = "settle" /\ r.from_queue = e.from_queue /\ r.packet = e.packet
      /\ r.own_lock /\ r.new_flags = Locked(e.flags) /\ r.executes = e.executes
      /\ r.signals = e.signals /\ r.pending = {} /\ r.context = e.context
      /\ r.add_to_queue = e.add_to_queue
      /\ r.flags.locked = e.flags.locked /\ r.flags.closed = e.flags.closed
      /\ r.flags.in_queue = e.flags.in_queue
      /\ r.flags.signals = e.flags.signals \cup e.pending

\* The record of add_signals, once it owns the lock.
LEMMA AddLockedFacts ==
  ASSUME TypeInv, NEW t \in Threads,
         exec' = [exec EXCEPT ![t] =
           [exec[t] EXCEPT !.own_lock = TRUE, !.new_flags = Locked(exec[t].flags),
                           !.flags.signals = @ \cup exec[t].pending, !.pending = {},
                           !.pc = "settle"]]
  PROVE  \E r \in ExecType : AddedLocked(t, r)
<1> DEFINE e == exec[t]
           s == e.flags.signals \cup e.pending
           r == [e EXCEPT !.own_lock = TRUE, !.new_flags = Locked(e.flags),
                          !.flags.signals = s, !.pending = {}, !.pc = "settle"]
<1>1. e \in ExecType /\ e.flags \in FlagsType BY DEF TypeInv, ExecType
<1>2. Locked(e.flags) \in FlagsType BY <1>1, LockedType
<1>3. s \in SUBSET Names /\ "settle" \in PCs /\ {} \in SUBSET Names
  BY <1>1 DEF ExecType, FlagsType, PCs
<1>4. exec' = [exec EXCEPT ![t] = r] OBVIOUS
<1> HIDE DEF s
<1>5. r \in ExecType BY Zenon, <1>1, <1>2, <1>3 DEF ExecType, FlagsType
<1>6. /\ r.pc = "settle" /\ r.from_queue = e.from_queue /\ r.packet = e.packet
      /\ r.own_lock /\ r.new_flags = Locked(e.flags) /\ r.executes = e.executes
      /\ r.signals = e.signals /\ r.pending = {} /\ r.context = e.context
      /\ r.add_to_queue = e.add_to_queue
      /\ r.flags.locked = e.flags.locked /\ r.flags.closed = e.flags.closed
      /\ r.flags.in_queue = e.flags.in_queue /\ r.flags.signals = s
  BY <1>1 DEF ExecType, FlagsType
<1> HIDE DEF r
<1> QED BY Zenon, <1>4, <1>5, <1>6 DEF s, AddedLocked

\* flush_context_flags
ContextFlushed(t, added, r) ==
  LET e == exec[t]
      stop == "stop" \in e.context
  IN  /\ exec' = [exec EXCEPT ![t] = r] /\ e.pc = "finish" /\ e.own_lock
      /\ alive' = (alive /\ ~stop) /\ alarm' \in {Never, e.alarm, alarm}
      /\ ioQueue' \in {ioQueue, ioQueue + 1}
      /\ r.pc = "settle" /\ r.from_queue = e.from_queue /\ r.packet = e.packet
      /\ r.own_lock /\ r.new_flags = e.new_flags /\ ~r.executes
      /\ r.signals = e.signals /\ r.pending = {} /\ r.add_to_queue = e.add_to_queue
      /\ r.flags.locked = e.flags.locked /\ r.flags.in_queue = e.flags.in_queue
      /\ r.flags.closed = (e.flags.closed \/ stop)
      /\ added \subseteq {"Pause", "Wakeup"}
      /\ r.flags.signals = e.flags.signals \cup e.pending \cup added

\* FlushContextFlags moves the context's flags into the actor's.
LEMMA FlushContextFacts ==
  ASSUME TypeInv, NEW t \in Threads, FlushContextFlags(t)
  PROVE  \E r \in ExecType : \E added : ContextFlushed(t, added, r)
<1> DEFINE e == exec[t]
           stop == "stop" \in e.context
           all == e.flags.signals \cup e.pending
           some == (IF "pause" \in e.context THEN {"Pause"} ELSE {})
                      \cup (IF "yield" \in e.context THEN {"Wakeup"} ELSE {})
           set == IF stop THEN all ELSE all \cup some
           g == [e.flags EXCEPT !.signals = set, !.closed = @ \/ stop]
           r == [e EXCEPT !.flags = g, !.pending = {}, !.executes = FALSE, !.alarm = 0,
                          !.pc = "settle"]
           added == IF stop THEN {} ELSE some
<1>1. /\ e \in ExecType /\ e.pc = "finish" /\ e.own_lock /\ e.flags \in FlagsType
      /\ stop \in BOOLEAN
  BY DEF FlushContextFlags, TypeInv, ExecType
<1>2. set \in SUBSET Names BY <1>1 DEF ExecType, FlagsType, Names
<1>3. set = e.flags.signals \cup e.pending \cup added /\ added \in SUBSET {"Pause", "Wakeup"}
  OBVIOUS
<1>4. alarm' \in {Never, e.alarm, alarm} /\ ioQueue' \in {ioQueue, ioQueue + 1}
  BY DEF FlushContextFlags
<1>5. alive' = (alive /\ ~stop) BY DEF FlushContextFlags
<1>6. exec' = [exec EXCEPT ![t] = r] BY DEF FlushContextFlags
<1> HIDE DEF set, stop, added
<1>7. /\ g \in FlagsType /\ g.locked = e.flags.locked /\ g.in_queue = e.flags.in_queue
      /\ g.closed = (e.flags.closed \/ stop) /\ g.signals = set
  BY Zenon, <1>1, <1>2 DEF FlagsType
<1> HIDE DEF g
<1>8. "settle" \in PCs /\ {} \in SUBSET Names /\ 0 \in Int BY DEF PCs
<1>9. r \in ExecType BY Zenon, <1>1, <1>7, <1>8 DEF ExecType
<1>10. /\ r.pc = "settle" /\ r.from_queue = e.from_queue /\ r.packet = e.packet
       /\ r.own_lock = e.own_lock /\ r.new_flags = e.new_flags /\ ~r.executes
       /\ r.signals = e.signals /\ r.pending = {} /\ r.add_to_queue = e.add_to_queue
       /\ r.flags = g
  BY Zenon, <1>1 DEF ExecType
<1> HIDE DEF r
<1>11. r.flags.closed = (e.flags.closed \/ stop)
       /\ r.flags.signals = e.flags.signals \cup e.pending \cup added
       /\ r.flags.locked = e.flags.locked /\ r.flags.in_queue = e.flags.in_queue
  BY <1>3, <1>7, <1>10
<1> QED BY Zenon, <1>1, <1>3, <1>4, <1>5, <1>6, <1>9, <1>10, <1>11 DEF stop, ContextFlushed

\* The loop of finish() before try_unlock: the actor is on its way into the
\* queue (add) if it has signals left and is not there.
Settled(t, add, r) ==
  LET e == exec[t]
      in == e.flags.in_queue /\ "Pop" \notin e.flags.signals
  IN  /\ exec' = [exec EXCEPT ![t] = r]
      /\ IF e.flags.closed THEN mailbox' = <<>> /\ reader' = <<>>
                           ELSE mailbox' = mailbox /\ reader' = reader
      /\ r.pc = "unlock" /\ r.from_queue = e.from_queue /\ r.packet = e.packet
      /\ r.own_lock = e.own_lock /\ r.new_flags = e.new_flags
      /\ r.executes = e.executes /\ r.signals = e.signals /\ r.pending = e.pending
      /\ r.flags.locked = e.flags.locked /\ r.flags.closed = e.flags.closed
      /\ r.flags.signals = e.flags.signals \ {"Pop"}
      /\ add <=> ~r.flags.closed /\ r.flags.signals # {} /\ ~in
      /\ r.flags.in_queue = (in \/ add)
      /\ r.add_to_queue = (e.add_to_queue \/ add)

\* Settle does so.
LEMMA SettleFacts ==
  ASSUME TypeInv, NEW t \in Threads, Settle(t)
  PROVE  \E r \in ExecType, add \in BOOLEAN : Settled(t, add, r)
<1> DEFINE e == exec[t]
           in == e.flags.in_queue /\ "Pop" \notin e.flags.signals
           popped == [e.flags EXCEPT !.signals = @ \ {"Pop"}, !.in_queue = in]
           add == NeedsQueue(popped)
           g == [popped EXCEPT !.in_queue = @ \/ add]
           r == [e EXCEPT !.flags = g, !.add_to_queue = @ \/ add, !.pc = "unlock"]
<1>1. e \in ExecType /\ e.flags \in FlagsType /\ "unlock" \in PCs BY DEF TypeInv, ExecType, PCs
<1>2. in \in BOOLEAN BY <1>1 DEF FlagsType
<1>3. exec' = [exec EXCEPT ![t] = r] BY Zenon DEF Settle, TypeInv
<1>4. IF e.flags.closed THEN mailbox' = <<>> /\ reader' = <<>>
                        ELSE mailbox' = mailbox /\ reader' = reader
  BY DEF Settle, ClearsMailbox
<1> HIDE DEF in
<1>5. /\ popped \in FlagsType /\ popped.locked = e.flags.locked /\ popped.closed = e.flags.closed
      /\ popped.in_queue = in /\ popped.signals = e.flags.signals \ {"Pop"}
  BY Zenon, <1>1, <1>2 DEF FlagsType
<1> HIDE DEF popped
<1>6. add \in BOOLEAN /\ (add <=> ~popped.closed /\ popped.signals # {} /\ ~in)
  BY <1>5 DEF NeedsQueue
<1> HIDE DEF add
<1>7. /\ g \in FlagsType /\ g.locked = popped.locked /\ g.closed = popped.closed
      /\ g.in_queue = (in \/ add) /\ g.signals = popped.signals
  BY <1>5, <1>6 DEF FlagsType
<1> HIDE DEF g
<1>8. /\ r \in ExecType /\ r.pc = "unlock" /\ r.from_queue = e.from_queue /\ r.packet = e.packet
      /\ r.own_lock = e.own_lock /\ r.new_flags = e.new_flags
      /\ r.executes = e.executes /\ r.signals = e.signals /\ r.pending = e.pending
      /\ r.flags = g /\ r.add_to_queue = (e.add_to_queue \/ add)
  BY Zenon, <1>1, <1>6, <1>7 DEF ExecType
<1> HIDE DEF r
<1>9. /\ r.flags.locked = e.flags.locked /\ r.flags.closed = e.flags.closed
      /\ r.flags.signals = e.flags.signals \ {"Pop"} /\ r.flags.in_queue = (in \/ add)
      /\ add <=> ~r.flags.closed /\ r.flags.signals # {} /\ ~in
  BY <1>5, <1>6, <1>7, <1>8
<1> QED BY Zenon, <1>3, <1>4, <1>6, <1>8, <1>9 DEF in, Settled

\* try_unlock succeeds.
Unlocked(t, r) ==
  /\ exec' = [exec EXCEPT ![t] = r] /\ word' = exec[t].flags
  /\ r.pc = (IF exec[t].add_to_queue THEN "enqueue" ELSE "idle")
  /\ ~r.own_lock /\ ~r.executes /\ ~r.from_queue /\ r.packet = NoPacket
  /\ r.signals = {} /\ r.pending = {} /\ r.context = {} /\ ~r.add_to_queue

\* The compare-and-swap of try_unlock writes the owner's flags.
LEMMA UnlockedFacts ==
  ASSUME TypeInv, NEW t \in Threads, try_unlock(t), word = exec[t].new_flags
  PROVE  \E r \in ExecType : Unlocked(t, r)
<1> DEFINE queued == [Idle EXCEPT !.pc = "enqueue"]
           r == IF exec[t].add_to_queue THEN queued ELSE Idle
<1>1. /\ queued \in ExecType /\ queued.pc = "enqueue" /\ queued.own_lock = Idle.own_lock
      /\ queued.executes = Idle.executes /\ queued.from_queue = Idle.from_queue
      /\ queued.packet = Idle.packet /\ queued.signals = Idle.signals
      /\ queued.pending = Idle.pending /\ queued.context = Idle.context
      /\ queued.add_to_queue = Idle.add_to_queue
  BY IdleType DEF ExecType, PCs
<1>2. exec' = [exec EXCEPT ![t] = r] /\ word' = exec[t].flags BY DEF try_unlock, TypeInv
<1> HIDE DEF queued
<1>3. /\ r \in ExecType /\ r.pc = (IF exec[t].add_to_queue THEN "enqueue" ELSE "idle")
      /\ ~r.own_lock /\ ~r.executes /\ ~r.from_queue /\ r.packet = NoPacket
      /\ r.signals = {} /\ r.pending = {} /\ r.context = {} /\ ~r.add_to_queue
  BY <1>1, IdleType
<1> HIDE DEF r
<1> QED BY Zenon, <1>2, <1>3 DEF Unlocked

\* try_unlock finds new signals.
KeptLocked(t, r) ==
  LET e == exec[t]
  IN  /\ exec' = [exec EXCEPT ![t] = r] /\ word' = Locked(e.flags)
      /\ r.pc = "settle" /\ r.from_queue = e.from_queue /\ r.packet = e.packet
      /\ r.own_lock = e.own_lock /\ r.new_flags = Locked(e.flags)
      /\ r.executes = e.executes /\ r.signals = e.signals /\ r.pending = e.pending
      /\ r.add_to_queue = e.add_to_queue
      /\ r.flags.locked = e.flags.locked /\ r.flags.closed = e.flags.closed
      /\ r.flags.in_queue = e.flags.in_queue
      /\ r.flags.signals = e.flags.signals \cup word.signals

\* The owner takes the signals over and stays the owner.
LEMMA KeptLockedFacts ==
  ASSUME TypeInv, NEW t \in Threads, try_unlock(t), word # exec[t].new_flags
  PROVE  \E r \in ExecType : KeptLocked(t, r)
<1> DEFINE e == exec[t]
           over == e.flags.signals \cup word.signals
           r == [e EXCEPT !.new_flags = Locked(e.flags), !.flags.signals = over, !.pc = "settle"]
<1>1. e \in ExecType /\ e.flags \in FlagsType BY DEF TypeInv, ExecType
<1>2. over \in SUBSET Names /\ "settle" \in PCs BY <1>1 DEF TypeInv, FlagsType, PCs
<1>3. exec' = [exec EXCEPT ![t] = r] /\ word' = Locked(e.flags)
  BY Zenon DEF try_unlock, TypeInv, TakesOver
<1> HIDE DEF over
<1>4. Locked(e.flags) \in FlagsType BY <1>1, LockedType
<1>5. /\ r \in ExecType /\ r.pc = "settle" /\ r.from_queue = e.from_queue /\ r.packet = e.packet
      /\ r.own_lock = e.own_lock /\ r.new_flags = Locked(e.flags)
      /\ r.executes = e.executes /\ r.signals = e.signals /\ r.pending = e.pending
      /\ r.add_to_queue = e.add_to_queue
      /\ r.flags.locked = e.flags.locked /\ r.flags.closed = e.flags.closed
      /\ r.flags.in_queue = e.flags.in_queue /\ r.flags.signals = over
  BY Zenon, <1>1, <1>2, <1>4 DEF ExecType, FlagsType
<1> HIDE DEF r
<1> QED BY Zenon, <1>3, <1>5 DEF over, KeptLocked

-----------------------------------------------------------------------------
(* The lock                                                                *)

\* What holds of one executor: where it owns the lock and where not, and what
\* an owner knows.
OwnerOK(e) ==
  /\ e.pc \in {"signals", "messages", "settle", "unlock"} => e.own_lock
  /\ e.pc \in {"idle", "lock", "enqueue"} => ~e.own_lock
  /\ e.pc \in {"signals", "messages"} => alive
  /\ e.own_lock => /\ word.locked /\ ~e.flags.locked
                   /\ e.new_flags = Locked(word)
                   /\ e.flags.closed = ~alive

\* RunsAlone is not inductive: who takes the lock must see in the word whether
\* the actor lives, and who releases it must leave that in the word.
LockInv ==
  /\ \A t \in Threads : OwnerOK(exec[t])
  /\ \A t, u \in Threads : exec[t].own_lock /\ exec[u].own_lock => t = u
  /\ word.locked => \E t \in Threads : exec[t].own_lock
  /\ ~word.locked => word.closed = ~alive

\* What holds of an executor at each place of its code
StageOK(t, e) ==
  /\ e.pc \notin {"lock", "signals"} => e.signals = {}
  /\ e.pc \in {"idle", "lock", "settle", "unlock", "enqueue"} => e.pending = {}
  /\ e.pc = "lock" => e.context = {}
  /\ e.pc \in {"signals", "messages"} =>
       /\ e.executes /\ e.flags.signals = {} /\ e.pending \subseteq {"Message"}
       /\ ~has_immediate_flags(e) /\ ~e.flags.closed
  /\ e.executes => e.own_lock
  /\ e.pc = "send" /\ e.executes /\ ~has_immediate_flags(e) /\ ~e.flags.closed => e.pending = {}
  /\ e.add_to_queue => e.pc \in {"settle", "unlock"}
  /\ "Pop" \in e.signals \/ "Pop" \in e.pending => e.from_queue /\ t \in Cpu
  /\ e.pc = "unlock" => /\ "Pop" \notin e.flags.signals
                        /\ ~e.flags.closed /\ e.flags.signals # {} => e.flags.in_queue
  /\ ~e.own_lock => "StartUp" \notin e.signals /\ "StartUp" \notin e.pending
  /\ e.pc \in {"lock", "signals", "messages", "send", "finish"} => e.alarm \in 1 .. Never

StageInv ==
  /\ \A t \in Threads : StageOK(t, exec[t])
  /\ ~word.locked => "Pop" \notin word.signals

Base == TypeInv /\ LockInv /\ StageInv

\* A step of one executor that neither takes nor releases the lock and leaves
\* the word and the actor alone.
LEMMA LockKept ==
  ASSUME Base, NEW t \in Threads, NEW r \in ExecType,
         exec' = [exec EXCEPT ![t] = r], word' = word, alive' = alive, OwnerOK(r),
         r.own_lock = exec[t].own_lock
  PROVE  LockInv'
<1>1. \A u \in Threads : exec'[u] = IF u = t THEN r ELSE exec[u]
  BY DEF Base, TypeInv
<1>2. \A u \in Threads : exec'[u].own_lock = exec[u].own_lock BY <1>1
<1>3. \A u \in Threads : OwnerOK(exec'[u]) BY <1>1 DEF Base, LockInv
<1>4. \A u \in Threads : OwnerOK(exec[u])' BY <1>3 DEF OwnerOK, Locked
<1> QED BY <1>2, <1>4 DEF Base, LockInv

\* Only the executor of t has changed, and what holds of it is shown.
LEMMA StageKept ==
  ASSUME Base, NEW t \in Threads, NEW r \in ExecType, exec' = [exec EXCEPT ![t] = r],
         StageOK(t, r), ~word'.locked => "Pop" \notin word'.signals
  PROVE  StageInv'
<1>1. \A u \in Threads : exec'[u] = IF u = t THEN r ELSE exec[u] BY DEF Base, TypeInv
<1>2. \A u \in Threads : StageOK(u, exec'[u]) BY <1>1 DEF Base, StageInv
<1> QED BY <1>2 DEF StageInv

\* An executor changes and neither takes nor releases the lock.
LEMMA BaseKept ==
  ASSUME Base, NEW t \in Threads, NEW r \in ExecType, exec' = [exec EXCEPT ![t] = r],
         word' = word, alive' = alive, OwnerOK(r), StageOK(t, r),
         r.own_lock = exec[t].own_lock
  PROVE  LockInv' /\ StageInv' /\ exec' \in [Threads -> ExecType]
<1>1. LockInv' BY Zenon, LockKept
<1>2. StageInv' BY StageKept DEF Base, StageInv
<1> QED BY <1>1, <1>2, ExecReplaced DEF Base, TypeInv

\* An owner that runs handlers goes on, or comes to the end of start().
LEMMA RunBase ==
  ASSUME Base, NEW t \in Threads, exec[t].pc \in {"signals", "messages"}, word' = word, alive' = alive,
         NEW r \in ExecType, exec' = [exec EXCEPT ![t] = r], Same(exec[t], r),
         r.pc \in {"signals", "messages", "send"}, StageOK(t, r)
  PROVE  LockInv' /\ StageInv' /\ exec' \in [Threads -> ExecType]
<1>1. OwnerOK(exec[t]) BY DEF Base, LockInv
<1>2. OwnerOK(r) BY <1>1 DEF OwnerOK, Same
<1> QED BY Zenon, <1>2, BaseKept DEF Same

\* The owner goes on to the messages.
LEMMA SignalsFlushedBase ==
  ASSUME Base, NEW t \in Threads, SignalsFlushed(t)
  PROVE  /\ Base'
         /\ \E r \in ExecType :
              /\ exec' = [exec EXCEPT ![t] = r] /\ r.pc = "messages"
              /\ Same(exec[t], r) /\ r.flags = exec[t].flags /\ r.packet = exec[t].packet
              /\ r.signals = exec[t].signals /\ r.pending = exec[t].pending
<1> DEFINE r == [exec[t] EXCEPT !.pc = "messages"]
<1>1. exec[t] \in ExecType /\ exec[t].pc = "signals" BY DEF Base, TypeInv, SignalsFlushed
<1>2. exec' = [exec EXCEPT ![t] = r] BY DEF SignalsFlushed
<1>3. /\ Same(exec[t], r) /\ r.pc = "messages" /\ r.flags = exec[t].flags
      /\ r.packet = exec[t].packet /\ r.signals = exec[t].signals
      /\ r.pending = exec[t].pending /\ r.context = exec[t].context /\ r.alarm = exec[t].alarm
  BY <1>1 DEF Same, ExecType, PCs
<1> HIDE DEF r
<1>4. StageOK(t, exec[t]) BY DEF Base, StageInv
<1>5. exec[t].signals = {} BY DEF SignalsFlushed
<1>6. StageOK(t, r) BY <1>1, <1>3, <1>4, <1>5 DEF StageOK, Same, has_immediate_flags
<1>7. LockInv' /\ StageInv' /\ exec' \in [Threads -> ExecType]
  BY Zenon, <1>1, <1>2, <1>3, <1>6, RunBase DEF SignalsFlushed, Same
<1> QED BY Zenon, <1>2, <1>3, <1>7 DEF SignalsFlushed, Base, TypeInv, Same

\* An executor is gone, or waits to put the actor into the queue.
LEMMA IdleStage == \A t \in Threads : StageOK(t, Idle)
  BY IdleType DEF StageOK

\* A new actor is unlocked and lives.
LEMMA InitBase == Init => Base
<1> SUFFICES ASSUME Init PROVE Base OBVIOUS
<1>1. word \in FlagsType /\ ~word.locked /\ ~word.closed /\ word.signals = {"StartUp"}
  BY DEF Init, FlagsType, Names
<1>2. \A t \in Threads : exec[t] = Idle BY DEF Init
<1>3. exec \in [Threads -> ExecType] BY IdleType DEF Init
<1>4. todo \in [Threads -> Seq(PacketType)] /\ effects \subseteq {"stop", "yield", "alarm"}
  <2>1. PICK plan \in Plans : todo = plan.send /\ effects = plan.effects BY DEF Init
  <2>2. todo \in [Threads -> Seq(Packets)] BY <2>1, ExecutorConstants
  <2>3. Packets \subseteq PacketType BY DEF Packets, PacketType
  <2>4. \A t \in Threads : todo[t] \in Seq(PacketType) BY <2>2, <2>3
  <2> QED BY <2>1, <2>2, <2>4, ExecutorConstants
<1>5. /\ alarm \in 1 .. Never /\ heap \in 1 .. Never /\ now \in 0 .. MaxTime /\ alive = TRUE
      /\ queue \in Nat /\ ioQueue \in Nat
  BY ExecutorConstants DEF Init, Never
<1>6. mailbox \in Seq(PacketType) /\ reader \in Seq(PacketType) /\ ran \in Seq(PacketType)
  BY DEF Init
<1>7. LockInv
  <2>1. OwnerOK(Idle) BY IdleType DEF OwnerOK
  <2>2. \A t \in Threads : OwnerOK(exec[t]) /\ ~exec[t].own_lock BY <1>2, <2>1, IdleType
  <2>3. word.closed = ~alive BY <1>1, <1>5 DEF FlagsType
  <2> QED BY <1>1, <2>2, <2>3 DEF LockInv
<1>8. StageInv BY <1>1, <1>2, IdleStage DEF StageInv
<1> QED BY <1>1, <1>3, <1>4, <1>5, <1>6, <1>7, <1>8 DEF Base, TypeInv

\* Every step keeps what holds of the lock and of the executors.
LEMMA NextBase == Base /\ [Next]_vars => Base'
\* What Locked keeps determines its value.
<1>LockedSame.
  ASSUME NEW f \in FlagsType, NEW g \in FlagsType, f.closed = g.closed, f.in_queue = g.in_queue
  PROVE  Locked(f) = Locked(g)
  <2> USE <1>LockedSame
  <2>1. /\ Locked(f) \in FlagsType /\ Locked(f).locked /\ Locked(f).closed = f.closed
        /\ Locked(f).in_queue = f.in_queue /\ Locked(f).signals = {} BY LockedType
  <2>2. /\ Locked(g) \in FlagsType /\ Locked(g).locked /\ Locked(g).closed = g.closed
        /\ Locked(g).in_queue = g.in_queue /\ Locked(g).signals = {} BY LockedType
  <2> QED BY <2>1, <2>2 DEF FlagsType

\* A step of one executor that takes the lock of the word it has seen.
<1>LockTaken.
  ASSUME Base, NEW t \in Threads, NEW r \in ExecType,
         exec' = [exec EXCEPT ![t] = r], alive' = alive,
         ~word.locked, word' = Locked(word), r.own_lock, r.new_flags = Locked(word),
         ~r.flags.locked, r.flags.closed = word.closed,
         r.pc \notin {"idle", "lock", "enqueue"},
         r.pc \in {"signals", "messages"} => ~word.closed
  PROVE  LockInv'
  <2> USE <1>LockTaken
  <2>1. \A u \in Threads : exec'[u] = IF u = t THEN r ELSE exec[u]
    BY DEF Base, TypeInv
  <2>2. \A u \in Threads : ~exec[u].own_lock /\ OwnerOK(exec[u]) BY DEF Base, LockInv, OwnerOK
  <2>3. word'.locked /\ Locked(word') = Locked(word)
    <3>1. word \in FlagsType BY DEF Base, TypeInv
    <3>2. word' \in FlagsType /\ word'.locked /\ word'.closed = word.closed
          /\ word'.in_queue = word.in_queue BY <3>1, LockedType
    <3> QED BY <3>1, <3>2, <1>LockedSame
  <2>4. OwnerOK(exec[t])'
    <3>1. word.closed = ~alive BY DEF Base, LockInv
    <3>2. exec'[t] = r BY <2>1
    <3>3. r.new_flags = Locked(word') BY <2>3
    <3> QED BY Zenon, <2>3, <3>1, <3>2, <3>3 DEF OwnerOK
  <2>5. ASSUME NEW u \in Threads, u # t PROVE OwnerOK(exec[u])'
    BY <2>1, <2>2, <2>5 DEF OwnerOK
  <2> QED BY <2>1, <2>2, <2>3, <2>4, <2>5 DEF LockInv

\* The owner of the lock changes the word or the actor and stays the owner.
<1>LockHeld.
  ASSUME Base, NEW t \in Threads, NEW r \in ExecType,
         exec' = [exec EXCEPT ![t] = r], exec[t].own_lock, r.own_lock,
         word'.locked, r.new_flags = Locked(word'), ~r.flags.locked,
         r.flags.closed = ~alive', r.pc \in {"settle", "unlock"}
  PROVE  LockInv'
  <2> USE <1>LockHeld
  <2>1. \A u \in Threads : exec'[u] = IF u = t THEN r ELSE exec[u]
    BY DEF Base, TypeInv
  <2>2. \A u \in Threads : u # t => ~exec[u].own_lock /\ OwnerOK(exec[u])
    BY DEF Base, LockInv
  <2>3. OwnerOK(exec[t])' BY <2>1 DEF OwnerOK
  <2>4. ASSUME NEW u \in Threads, u # t PROVE OwnerOK(exec[u])'
    BY <2>1, <2>2, <2>4 DEF OwnerOK
  <2> QED BY <2>1, <2>2, <2>3, <2>4 DEF LockInv

\* The owner releases the lock.
<1>LockReleased.
  ASSUME Base, NEW t \in Threads, NEW r \in ExecType,
         exec' = [exec EXCEPT ![t] = r], exec[t].own_lock, ~r.own_lock,
         r.pc \in {"idle", "enqueue"}, alive' = alive, word' = exec[t].flags
  PROVE  LockInv'
  <2> USE <1>LockReleased
  <2>1. \A u \in Threads : exec'[u] = IF u = t THEN r ELSE exec[u]
    BY DEF Base, TypeInv
  <2>2. \A u \in Threads : u # t => ~exec[u].own_lock /\ OwnerOK(exec[u])
    BY DEF Base, LockInv
  <2>3. ~exec[t].flags.locked /\ exec[t].flags.closed = ~alive BY DEF Base, LockInv, OwnerOK
  <2>4. OwnerOK(exec[t])' BY <2>1 DEF OwnerOK
  <2>5. ASSUME NEW u \in Threads, u # t PROVE OwnerOK(exec[u])'
    BY <2>1, <2>2, <2>5 DEF OwnerOK
  <2> QED BY <2>1, <2>2, <2>3, <2>4, <2>5 DEF LockInv

\* Signals are added to the word by a thread that does not own the lock.
<1>SignalsAdded.
  ASSUME Base, NEW t \in Threads, ~exec[t].own_lock, NEW S \in SUBSET Names,
         exec' = [exec EXCEPT ![t] = Idle], alive' = alive,
         word' = [word EXCEPT !.signals = @ \cup S]
  PROVE  LockInv' /\ word' \in FlagsType
  <2> USE <1>SignalsAdded
  <2>1. \A u \in Threads : exec'[u] = IF u = t THEN Idle ELSE exec[u]
    BY DEF Base, TypeInv
  <2>2. word \in FlagsType BY DEF Base, TypeInv
  <2>3. /\ word' \in FlagsType /\ word'.locked = word.locked /\ word'.closed = word.closed
        /\ word'.in_queue = word.in_queue
    BY <2>2 DEF FlagsType
  <2>4. Locked(word') = Locked(word) BY Zenon, <2>2, <2>3, <1>LockedSame
  <2>5. ASSUME NEW u \in Threads PROVE OwnerOK(exec[u])'
    <3>1. OwnerOK(exec[u]) BY DEF Base, LockInv
    <3> QED BY <2>1, <2>3, <2>4, <3>1, IdleType DEF OwnerOK
  <2>6. \A u \in Threads : exec'[u].own_lock <=> exec[u].own_lock BY <2>1, IdleType
  <2> QED BY <2>3, <2>5, <2>6 DEF Base, LockInv

\* A new executor has not taken the lock.
<1>ConstructBase.
  ASSUME Base, NEW t \in Threads, NEW fq \in BOOLEAN, NEW p \in PacketType, fq => t \in Cpu,
         exec[t].pc = "idle", Construct(t, fq, p), word' = word, alive' = alive
  PROVE  LockInv' /\ StageInv' /\ exec' \in [Threads -> ExecType]
  <2> USE <1>ConstructBase
  <2>1. PICK r \in ExecType : Constructed(t, fq, p, r) BY ConstructFacts DEF Base
  <2>2. OwnerOK(r) BY <2>1 DEF OwnerOK, Constructed
  <2>3. StageOK(t, r)
    <3>1. "StartUp" \notin r.signals /\ ("Pop" \in r.signals => fq)
      BY <2>1 DEF PacketType, Constructed
    <3>2. alarm \in 1 .. Never BY DEF Base, TypeInv
    <3> QED BY <2>1, <3>1, <3>2 DEF StageOK, Constructed
  <2>4. r.own_lock = exec[t].own_lock
    <3>1. ~exec[t].own_lock BY DEF Base, LockInv, OwnerOK
    <3> QED BY <2>1, <3>1 DEF Base, TypeInv, ExecType, Constructed
  <2> QED BY Zenon, <2>1, <2>2, <2>3, <2>4, BaseKept DEF Constructed

\* A thread begins to send.
<1>SendBase.
  ASSUME Base, NEW t \in Threads, Send(t)
  PROVE  Base'
  <2> USE <1>SendBase
  <2>1. Head(todo[t]) \in PacketType /\ Tail(todo[t]) \in Seq(PacketType)
    BY DEF Send, Base, TypeInv
  <2>2. LockInv' /\ StageInv' /\ exec' \in [Threads -> ExecType]
    BY Zenon, <2>1, <1>ConstructBase DEF Send
  <2>3. todo' \in [Threads -> Seq(PacketType)] BY <2>1 DEF Send, Base, TypeInv
  <2> QED BY <2>2, <2>3 DEF Send, Base, TypeInv

\* CpuWorker::run pops the actor.
<1>PopActorBase.
  ASSUME Base, NEW t \in Threads, PopActor(t)
  PROVE  Base'
  <2> USE <1>PopActorBase
  <2>1. LockInv' /\ StageInv' /\ exec' \in [Threads -> ExecType]
    BY Zenon, IdleType, <1>ConstructBase DEF PopActor
  <2>2. queue' \in Nat BY DEF PopActor, try_pop, Base, TypeInv
  <2> QED BY <2>1, <2>2 DEF PopActor, Base, TypeInv

\* IoWorker::run_once begins to send an Alarm signal.
<1>IoAlarmDueBase.
  ASSUME Base, IoAlarmDue
  PROVE  Base'
  <2> USE <1>IoAlarmDueBase
  <2>1. AlarmPacket \in PacketType /\ io \in Threads BY DEF AlarmPacket, PacketType, Threads
  <2>2. LockInv' /\ StageInv' /\ exec' \in [Threads -> ExecType]
    BY Zenon, <2>1, <1>ConstructBase DEF IoAlarmDue
  <2>3. heap' \in 1 .. Never BY ExecutorConstants DEF IoAlarmDue, Never
  <2> QED BY <2>2, <2>3 DEF IoAlarmDue, Base, TypeInv

\* A signal is handled by the owner of the lock.
<1>FlushSignalBase.
  ASSUME Base, NEW t \in Threads, FlushSignal(t)
  PROVE  Base'
  <2> USE <1>FlushSignalBase
  <2> DEFINE e == exec[t]
  <2>1. PICK name, r : r \in ExecType /\ SignalDone(t, name, r) BY FlushSignalFacts DEF Base
  <2>2. /\ GoesOn(e, r, "signals", e.signals \ {name},
                  IF name = "Message" THEN e.pending \cup {"Message"} ELSE e.pending)
        /\ e.pc = "signals" /\ (e.alarm \in 1 .. Never => r.alarm \in 1 .. Never)
    BY <2>1 DEF SignalDone
  <2>3. StageOK(t, e) /\ OwnerOK(e) /\ e.own_lock
    BY <2>2 DEF Base, LockInv, StageInv, OwnerOK
  <2>4. Same(e, r) /\ r.pc \in {"signals", "send"} BY <2>2 DEF GoesOn, Stopped
  <2>5. StageOK(t, r)
    <3>1. CASE r.pc = "signals"
      <4>1. /\ Same(e, r) /\ ~has_immediate_flags(r) /\ r.signals = e.signals \ {name}
            /\ r.pending = IF name = "Message" THEN e.pending \cup {"Message"} ELSE e.pending
        BY <2>2, <3>1 DEF GoesOn, Stopped
      <4>2. r.pending \subseteq e.pending \cup {"Message"} BY <4>1
      <4>3. /\ e.executes /\ e.flags.signals = {} /\ e.pending \subseteq {"Message"}
            /\ ~e.flags.closed /\ ~e.add_to_queue /\ e.alarm \in 1 .. Never
            /\ ("Pop" \in e.signals \/ "Pop" \in e.pending => e.from_queue /\ t \in Cpu)
        BY <2>2, <2>3 DEF StageOK
      <4>4. /\ r.executes /\ r.flags.signals = {} /\ ~r.flags.closed /\ ~r.add_to_queue
            /\ r.own_lock /\ r.from_queue = e.from_queue
        BY <2>3, <4>1, <4>3 DEF Same
      <4>5. r.pending \subseteq {"Message"} /\ r.alarm \in 1 .. Never BY <2>2, <4>2, <4>3
      <4>6. "Pop" \in r.signals \/ "Pop" \in r.pending => r.from_queue /\ t \in Cpu
        BY <4>1, <4>3, <4>4, <4>5
      <4> QED BY <3>1, <4>1, <4>4, <4>5, <4>6 DEF StageOK
    <3>2. CASE r.pc = "send"
      BY <2>2, <2>3, <2>4, <3>2 DEF GoesOn, Stopped, Same, StageOK
    <3> QED BY <2>4, <3>1, <3>2
  <2>6. LockInv' /\ StageInv' /\ exec' \in [Threads -> ExecType]
    BY Zenon, <2>1, <2>2, <2>4, <2>5, RunBase DEF FlushSignal, SignalDone
  <2>7. alarm' \in 1 .. Never
    <3>1. alarm \in 1 .. Never BY DEF Base, TypeInv
    <3>2. Never \in 1 .. Never BY ExecutorConstants DEF Never
    <3> QED BY <2>1, <3>1, <3>2 DEF SignalDone
  <2>8. reader' \in Seq(PacketType) /\ mailbox' \in Seq(PacketType) /\ ran' \in Seq(PacketType)
    <3>1. reader \in Seq(PacketType) /\ mailbox \in Seq(PacketType) /\ ran \in Seq(PacketType)
      BY DEF Base, TypeInv
    <3>2. /\ Append(ran, NoPacket) \in Seq(PacketType) /\ reader \o mailbox \in Seq(PacketType)
          /\ <<>> \in Seq(PacketType)
      BY <3>1, IdleType
    <3> QED BY Zenon, <2>1, <3>1, <3>2 DEF SignalDone
  <2> QED BY <2>1, <2>6, <2>7, <2>8 DEF FlushSignal, Base, TypeInv, SignalDone

\* A message is handled by the owner of the lock.
<1>FlushMessageBase.
  ASSUME Base, NEW t \in Threads, FlushMessage(t)
  PROVE  Base'
  <2> USE <1>FlushMessageBase
  <2> DEFINE e == exec[t]
  <2>1. PICK r \in ExecType : MessageDone(t, r) BY FlushMessageFacts DEF Base
  <2>2. /\ \/ Stopped(e, r, e.signals, e.pending \ {"Message"})
           \/ Stopped(e, r, e.signals, e.pending) /\ has_immediate_flags(r)
           \/ GoesOn(e, r, "messages", e.signals, e.pending)
        /\ r.flags = e.flags /\ e.pc = "messages"
        /\ e.alarm \in 1 .. Never => r.alarm \in 1 .. Never
    BY <2>1 DEF MessageDone
  <2>3. StageOK(t, e) /\ OwnerOK(e) /\ e.own_lock
    BY <2>2 DEF Base, LockInv, StageInv, OwnerOK
  <2>4. Same(e, r) /\ r.pc \in {"messages", "send"} BY <2>2 DEF GoesOn, Stopped
  <2>5. StageOK(t, r)
    <3>1. CASE Stopped(e, r, e.signals, e.pending \ {"Message"})
      BY Zenon, <2>2, <2>3, <2>4, <3>1 DEF Stopped, Same, StageOK
    <3>2. CASE Stopped(e, r, e.signals, e.pending) /\ has_immediate_flags(r)
      BY Zenon, <2>2, <2>3, <2>4, <3>2 DEF Stopped, Same, StageOK
    <3>3. CASE GoesOn(e, r, "messages", e.signals, e.pending)
      BY Zenon, <2>2, <2>3, <2>4, <3>3 DEF GoesOn, Stopped, Same, StageOK
    <3> QED BY <2>2, <3>1, <3>2, <3>3
  <2>6. LockInv' /\ StageInv' /\ exec' \in [Threads -> ExecType]
    BY Zenon, <2>1, <2>2, <2>4, <2>5, RunBase DEF FlushMessage, MessageDone
  <2>7. reader' \in Seq(PacketType) /\ ran' \in Seq(PacketType)
    <3>1. reader \in Seq(PacketType) /\ ran \in Seq(PacketType) BY DEF Base, TypeInv
    <3>2. reader # <<>> => Tail(reader) \in Seq(PacketType) /\ Append(ran, Head(reader)) \in Seq(PacketType)
      BY <3>1
    <3> QED BY Zenon, <2>1, <3>1, <3>2 DEF MessageDone
  <2> QED BY <2>1, <2>6, <2>7 DEF FlushMessage, Base, TypeInv, MessageDone

\* send(): the message runs at once, waits or is dropped; the lock stays as it is.
<1>SendMessageBase.
  ASSUME Base, NEW t \in Threads, SendMessage(t)
  PROVE  Base'
  <2> USE <1>SendMessageBase
  <2> DEFINE e == exec[t]
  <2>1. PICK r \in ExecType : MessageSent(t, r) BY SendMessageFacts DEF Base
  <2>2. /\ Same(e, r) /\ r.flags = e.flags /\ r.pc = "finish" /\ r.signals = e.signals
        /\ e.pc = "send" /\ r.pending \subseteq e.pending \cup {"Alarm", "Message"}
        /\ e.alarm \in 1 .. Never => r.alarm \in 1 .. Never
    BY Zenon, <2>1 DEF MessageSent
  <2>3. StageOK(t, e) /\ OwnerOK(e) /\ e \in ExecType BY Zenon DEF Base, LockInv, StageInv, TypeInv
  <2>4. OwnerOK(r) BY <2>2, <2>3 DEF OwnerOK, Same
  <2>5. StageOK(t, r) BY <2>2, <2>3 DEF StageOK, Same
  <2>6. LockInv' /\ StageInv' /\ exec' \in [Threads -> ExecType]
    <3>1. word' = word /\ alive' = alive BY DEF SendMessage
    <3>2. r.own_lock = e.own_lock BY <2>2 DEF Same
    <3> QED BY Zenon, <2>1, <2>4, <2>5, <3>1, <3>2, BaseKept DEF MessageSent
  <2>7. mailbox' \in Seq(PacketType) /\ reader' \in Seq(PacketType) /\ ran' \in Seq(PacketType)
    <3>1. reader \in Seq(PacketType) /\ ran \in Seq(PacketType) /\ mailbox \in Seq(PacketType)
      BY DEF Base, TypeInv
    <3>2. e.packet \in PacketType BY <2>3 DEF ExecType
    <3>3. /\ Append(mailbox, e.packet) \in Seq(PacketType) /\ <<e.packet>> \o reader \in Seq(PacketType)
          /\ Append(ran, e.packet) \in Seq(PacketType)
      BY <3>1, <3>2
    <3> QED BY Zenon, <2>1, <3>1, <3>3 DEF MessageSent
  <2> QED BY <2>1, <2>6, <2>7 DEF SendMessage, Base, TypeInv, MessageSent

\* An executor that finds another value in the word loads it.
<1>ReloadBase.
  ASSUME Base, NEW t \in Threads, Reload(t), ~exec[t].own_lock, alive' = alive,
         exec[t].pc \in {"lock", "finish"}
  PROVE  LockInv' /\ StageInv' /\ exec' \in [Threads -> ExecType]
  <2> USE <1>ReloadBase
  <2>1. PICK r \in ExecType : Reloaded(t, r) BY ReloadFacts DEF Base
  <2>2. StageOK(t, exec[t]) /\ OwnerOK(exec[t]) BY DEF Base, LockInv, StageInv
  <2>3. StageOK(t, r) BY <2>1, <2>2 DEF StageOK, Reloaded
  <2>4. OwnerOK(r) BY <2>1, <2>2 DEF OwnerOK, Reloaded
  <2> QED BY Zenon, <2>1, <2>3, <2>4, BaseKept DEF Reloaded

\* start(): signals are left for the owner, the word is loaded again, or the
\* lock is taken; a closed actor is not run.
<1>StartBase.
  ASSUME Base, NEW t \in Threads, Start(t)
  PROVE  Base'
  <2> USE <1>StartBase
  <2> DEFINE e == exec[t]
  <2>1. e \in ExecType /\ e.pc = "lock" /\ OwnerOK(e) /\ StageOK(t, e) /\ word \in FlagsType
    BY DEF Start, Base, TypeInv, LockInv, StageInv
  <2>2. ~e.own_lock BY <2>1 DEF OwnerOK
  <2>3. alive' = alive BY DEF Start
  <2>4. LockInv' /\ StageInv' /\ exec' \in [Threads -> ExecType] /\ word' \in FlagsType
    <3>1. CASE exec' = [exec EXCEPT ![t] = Started(e)] /\ word' = word
      <4>1. Stopped(e, Started(e), e.signals, e.pending) /\ Started(e).alarm = e.alarm
        BY <2>1, StartedFacts
      <4>2. OwnerOK(Started(e)) BY <2>1, <2>2, <4>1 DEF OwnerOK, Stopped, Same
      <4>3. StageOK(t, Started(e)) BY Zenon, <2>1, <2>2, <4>1 DEF StageOK, Stopped, Same
      <4> QED BY Zenon, <2>1, <2>3, <3>1, <4>1, <4>2, <4>3, BaseKept DEF Stopped, Same
    <3>2. CASE Reload(t)
      BY Zenon, <2>1, <2>2, <2>3, <3>2, <1>ReloadBase DEF Reload
    <3>3. CASE ~can_try_add_signals(t) /\ word = e.flags
      <4>1. PICK r \in ExecType : TookLock(t, r) BY <3>3, LockFacts DEF Base
      <4>2. r.pc \in {"send", "signals"} /\ (r.pc = "signals" => ~word.closed) BY <4>1 DEF TookLock
      <4>3. LockInv' BY Zenon, <2>3, <4>1, <4>2, <1>LockTaken DEF TookLock
      <4>4. StageOK(t, r)
        <5>1. ~e.executes /\ e.pending = {} /\ e.context = {} /\ ~e.add_to_queue
              /\ e.alarm \in 1 .. Never /\ "StartUp" \notin e.signals
              /\ ("Pop" \in e.signals => e.from_queue /\ t \in Cpu)
          BY <2>1, <2>2 DEF StageOK
        <5>2. ~has_immediate_flags(r) BY Zenon, <4>1, <5>1 DEF TookLock, has_immediate_flags
        <5>3. r.own_lock /\ ~r.add_to_queue /\ r.from_queue = e.from_queue /\ r.alarm = e.alarm
              /\ r.flags.closed = word.closed
          BY <4>1, <5>1 DEF TookLock
        <5>4. CASE ~can_execute(t, word)
          <6>1. r.pc = "send" /\ ~r.executes /\ r.signals = {} /\ r.pending = e.signals
            BY <4>1, <5>1, <5>4 DEF TookLock
          <6> QED BY <5>1, <5>3, <6>1 DEF StageOK
        <5>5. CASE can_execute(t, word)
          <6>1. "Pop" \notin word.signals BY <4>1 DEF TookLock, Base, StageInv
          <6>2. CASE word.closed
            <7>1. r.pc = "send" /\ r.signals = {} /\ r.pending \subseteq e.signals \cup word.signals
              BY <4>1, <5>1, <5>5, <6>2 DEF TookLock
            <7> QED BY <5>1, <5>3, <6>1, <6>2, <7>1 DEF StageOK
          <6>3. CASE ~word.closed
            <7>1. /\ r.pc = "signals" /\ r.executes /\ r.flags.signals = {} /\ r.pending = {}
                  /\ r.signals \subseteq e.signals \cup word.signals
              BY <4>1, <5>1, <5>5, <6>3 DEF TookLock
            <7> QED BY <5>1, <5>2, <5>3, <6>1, <6>3, <7>1 DEF StageOK
          <6> QED BY <6>2, <6>3
        <5> QED BY <5>4, <5>5
      <4>5. Locked(word) \in FlagsType BY <2>1, LockedType
      <4>6. StageInv' BY Zenon, <2>1, <4>1, <4>4, StageKept, LockedType DEF TookLock
      <4>7. exec' \in [Threads -> ExecType] BY <4>1, ExecReplaced DEF TookLock, Base, TypeInv
      <4> QED BY Zenon, <4>1, <4>3, <4>5, <4>6, <4>7 DEF TookLock
    <3> QED BY <3>1, <3>2, <3>3, <2>1 DEF Start
  <2> QED BY <2>4 DEF Start, Base, TypeInv

\* add_signals: the signals go into a locked or queued word, or with the lock.
<1>AddSignalsBase.
  ASSUME Base, NEW t \in Threads, AddSignals(t)
  PROVE  Base'
  <2> USE <1>AddSignalsBase
  <2> DEFINE e == exec[t]
             locked == [e EXCEPT !.own_lock = TRUE, !.new_flags = Locked(e.flags),
                                 !.flags.signals = @ \cup e.pending, !.pending = {},
                                 !.pc = "settle"]
  <2>1. e \in ExecType /\ e.pc = "finish" /\ ~e.own_lock /\ e.flags \in FlagsType
        /\ e.pending \in SUBSET Names /\ StageOK(t, e) /\ word \in FlagsType
    BY DEF AddSignals, Base, TypeInv, StageInv, ExecType
  <2>2. alive' = alive BY DEF AddSignals
  <2>3. LockInv' /\ StageInv' /\ exec' \in [Threads -> ExecType] /\ word' \in FlagsType
    <3>1. CASE exec' = [exec EXCEPT ![t] = Idle] /\ word' = word
      <4>1. OwnerOK(Idle) BY IdleType DEF OwnerOK
      <4>2. Idle.own_lock = e.own_lock BY <2>1, IdleType DEF ExecType
      <4> QED BY Zenon, <2>1, <2>2, <3>1, <4>1, <4>2, IdleType, IdleStage, BaseKept
    <3>2. CASE Reload(t)
      BY Zenon, <2>1, <2>2, <3>2, <1>ReloadBase DEF Reload
    <3>3. CASE /\ can_try_add_signals(t) /\ word = e.flags
               /\ word' = [word EXCEPT !.signals = @ \cup e.pending]
               /\ exec' = [exec EXCEPT ![t] = Idle]
      <4>1. LockInv' /\ word' \in FlagsType BY Zenon, <2>1, <2>2, <3>3, <1>SignalsAdded
      <4>2. ~word'.locked => "Pop" \notin word'.signals
        <5>1. word'.locked = word.locked /\ word'.signals = word.signals \cup e.pending
          BY <2>1, <3>3 DEF FlagsType
        <5>2. "Pop" \in e.pending => e.from_queue /\ t \in Cpu BY <2>1 DEF StageOK
        <5>3. ~word.locked => "Pop" \notin e.pending
          BY <2>1, <3>3, <5>2 DEF can_try_add_signals, can_execute
        <5> QED BY <5>1, <5>3 DEF Base, StageInv
      <4>3. StageInv' BY Zenon, <3>3, <4>2, IdleType, IdleStage, StageKept
      <4> QED BY <3>3, <4>1, <4>3, IdleType, ExecReplaced DEF Base, TypeInv
    <3>4. CASE /\ ~can_try_add_signals(t) /\ word = e.flags /\ word' = Locked(word)
               /\ exec' = [exec EXCEPT ![t] = locked]
      <4>1. ~word.locked BY <3>4 DEF can_try_add_signals
      <4>2. Locked(word) \in FlagsType BY <2>1, LockedType
      <4>3. PICK r \in ExecType : AddedLocked(t, r) BY Zenon, <3>4, AddLockedFacts DEF Base
      <4>4. LockInv' BY Zenon, <2>2, <3>4, <4>1, <4>3, <1>LockTaken DEF AddedLocked
      <4>5. StageOK(t, r) BY Zenon, <2>1, <4>3 DEF AddedLocked, StageOK
      <4>6. StageInv' BY Zenon, <2>1, <3>4, <4>3, <4>5, StageKept, LockedType DEF AddedLocked
      <4> QED BY <3>4, <4>2, <4>3, <4>4, <4>6, ExecReplaced DEF AddedLocked, Base, TypeInv
    <3> QED BY <3>1, <3>2, <3>3, <3>4 DEF AddSignals
  <2> QED BY <2>3 DEF AddSignals, Base, TypeInv

\* flush_context_flags: the owner that destroys the actor sets the Closed flag.
<1>FlushContextFlagsBase.
  ASSUME Base, NEW t \in Threads, FlushContextFlags(t)
  PROVE  Base'
  <2> USE <1>FlushContextFlagsBase
  <2> DEFINE e == exec[t]
  <2>1. PICK r \in ExecType : \E added : ContextFlushed(t, added, r) BY FlushContextFacts DEF Base
  <2>2. PICK added : ContextFlushed(t, added, r) BY <2>1
  <2>3. e \in ExecType /\ OwnerOK(e) /\ StageOK(t, e) /\ e.own_lock /\ e.pc = "finish"
    BY Zenon, <2>2 DEF ContextFlushed, Base, TypeInv, LockInv, StageInv
  <2>4. word' = word BY DEF FlushContextFlags
  <2>5. r.flags.closed = ~alive'
    <3>1. e.flags.closed = ~alive /\ alive \in BOOLEAN BY <2>3 DEF OwnerOK, Base, TypeInv
    <3>2. r.flags.closed \in BOOLEAN BY DEF ExecType, FlagsType
    <3> QED BY Zenon, <2>2, <3>1, <3>2 DEF ContextFlushed
  <2>6. LockInv'
    <3>1. word.locked /\ ~e.flags.locked /\ e.new_flags = Locked(word) BY <2>3 DEF OwnerOK
    <3> QED BY Zenon, <2>2, <2>3, <2>4, <2>5, <3>1, <1>LockHeld DEF ContextFlushed
  <2>7. StageOK(t, r) BY Zenon, <2>2, <2>3 DEF ContextFlushed, StageOK
  <2>8. StageInv' BY <2>2, <2>4, <2>7, StageKept DEF ContextFlushed, Base, StageInv
  <2>9. exec' \in [Threads -> ExecType] BY <2>2, ExecReplaced DEF ContextFlushed, Base, TypeInv
  <2>10. alarm' \in 1 .. Never
    <3>1. e.alarm \in 1 .. Never BY <2>3 DEF StageOK
    <3> QED BY <2>2, <3>1, ExecutorConstants DEF ContextFlushed, Base, TypeInv, Never
  <2>11. ioQueue' \in Nat /\ alive' \in BOOLEAN BY <2>2 DEF ContextFlushed, Base, TypeInv
  <2> QED BY <2>4, <2>6, <2>8, <2>9, <2>10, <2>11 DEF FlushContextFlags, Base, TypeInv

\* The loop of finish() before try_unlock changes only what the owner holds.
<1>SettleBase.
  ASSUME Base, NEW t \in Threads, exec[t].pc = "settle", Settle(t), word' = word, alive' = alive
  PROVE  /\ LockInv' /\ StageInv' /\ exec' \in [Threads -> ExecType]
         /\ mailbox' \in Seq(PacketType) /\ reader' \in Seq(PacketType)
  <2> USE <1>SettleBase
  <2> DEFINE e == exec[t]
  <2>1. PICK r \in ExecType, add \in BOOLEAN : Settled(t, add, r) BY SettleFacts DEF Base
  <2>2. e \in ExecType /\ OwnerOK(e) /\ StageOK(t, e) BY DEF Base, TypeInv, LockInv, StageInv
  <2>3. OwnerOK(r) BY <2>1, <2>2 DEF OwnerOK, Settled
  <2>4. StageOK(t, r)
    <3>1. "Pop" \notin r.flags.signals /\ (~r.flags.closed /\ r.flags.signals # {} => r.flags.in_queue)
      BY Zenon, <2>1 DEF Settled
    <3> QED BY Zenon, <2>1, <2>2, <3>1 DEF StageOK, Settled
  <2>5. mailbox' \in Seq(PacketType) /\ reader' \in Seq(PacketType)
    <3>1. mailbox \in Seq(PacketType) /\ reader \in Seq(PacketType) /\ <<>> \in Seq(PacketType)
      BY DEF Base, TypeInv
    <3> QED BY Zenon, <2>1, <3>1 DEF Settled
  <2> QED BY Zenon, <2>1, <2>3, <2>4, <2>5, BaseKept DEF Settled

\* try_unlock publishes the flags of the owner, Closed included, or keeps the lock.
<1>UnlockBase.
  ASSUME Base, NEW t \in Threads, exec[t].pc = "unlock", try_unlock(t), alive' = alive
  PROVE  LockInv' /\ StageInv' /\ exec' \in [Threads -> ExecType] /\ word' \in FlagsType
  <2> USE <1>UnlockBase
  <2> DEFINE e == exec[t]
  <2>1. e \in ExecType /\ e.flags \in FlagsType /\ OwnerOK(e) /\ e.own_lock /\ StageOK(t, e)
    BY Zenon DEF Base, TypeInv, LockInv, StageInv, ExecType, OwnerOK
  <2>2. CASE word = e.new_flags
    <3>1. PICK r \in ExecType : Unlocked(t, r) BY <2>2, UnlockedFacts DEF Base
    <3>2. LockInv' BY Zenon, <2>1, <3>1, <1>LockReleased DEF Unlocked
    <3>3. StageOK(t, r) BY <3>1 DEF StageOK, Unlocked
    <3>4. StageInv' BY Zenon, <2>1, <3>1, <3>3, StageKept DEF Unlocked, StageOK
    <3> QED BY <2>1, <3>1, <3>2, <3>4, ExecReplaced DEF Unlocked, Base, TypeInv
  <2>3. CASE word # e.new_flags
    <3>1. PICK r \in ExecType : KeptLocked(t, r) BY <2>3, KeptLockedFacts DEF Base
    <3>2. /\ Locked(e.flags) \in FlagsType /\ Locked(e.flags).locked
          /\ Locked(e.flags).closed = e.flags.closed
          /\ Locked(e.flags).in_queue = e.flags.in_queue
      BY <2>1, LockedType
    <3>3. Locked(Locked(e.flags)) = Locked(e.flags) BY <2>1, <3>2, <1>LockedSame
    <3>4. ~e.flags.locked /\ e.flags.closed = ~alive BY <2>1 DEF OwnerOK
    <3>5. LockInv' BY Zenon, <2>1, <3>1, <3>2, <3>3, <3>4, <1>LockHeld DEF KeptLocked
    <3>6. StageOK(t, r) BY Zenon, <2>1, <3>1 DEF StageOK, KeptLocked
    <3>7. StageInv' BY Zenon, <3>1, <3>2, <3>6, StageKept DEF KeptLocked
    <3> QED BY Zenon, <3>1, <3>2, <3>5, <3>7, ExecReplaced DEF KeptLocked, Base, TypeInv
  <2> QED BY <2>2, <2>3

\* Both parts of the loop of finish().
<1>FinishBase.
  ASSUME Base, NEW t \in Threads, Finish(t)
  PROVE  Base'
  BY <1>FinishBase, Zenon, <1>SettleBase, <1>UnlockBase DEF Finish, Base, TypeInv

\* The executor that puts the actor into the queue no longer owns the lock.
<1>AddToQueueBase.
  ASSUME Base, NEW t \in Threads, AddToQueue(t)
  PROVE  Base'
  <2> USE <1>AddToQueueBase
  <2>1. OwnerOK(Idle) BY IdleType DEF OwnerOK
  <2>2. Idle.own_lock = exec[t].own_lock
    BY IdleType DEF AddToQueue, Base, TypeInv, LockInv, OwnerOK, ExecType
  <2>3. LockInv' /\ StageInv' /\ exec' \in [Threads -> ExecType]
    BY Zenon, <2>1, <2>2, IdleType, IdleStage, BaseKept DEF AddToQueue
  <2> QED BY <2>3 DEF AddToQueue, Base, TypeInv
<1> SUFFICES ASSUME Base, [Next]_vars PROVE Base' OBVIOUS
<1>1. ASSUME NEW t \in Threads, Send(t) \/ PopActor(t) \/ Step(t) PROVE Base'
  BY <1>1, <1>SendBase, <1>PopActorBase, <1>StartBase, <1>FlushSignalBase, SignalsFlushedBase,
     <1>FlushMessageBase, <1>SendMessageBase, <1>AddSignalsBase, <1>FlushContextFlagsBase, <1>FinishBase,
     <1>AddToQueueBase DEF Step
<1>2. CASE IoAlarmChanged
  <2>1. ioQueue' \in Nat BY <1>2 DEF IoAlarmChanged, Base, TypeInv
  <2> QED BY <1>2, <2>1 DEF IoAlarmChanged, Base, TypeInv, LockInv, OwnerOK, StageInv
<1>3. CASE IoAlarmDue BY <1>3, <1>IoAlarmDueBase
<1>4. CASE Tick
  <2>1. now' \in 0 .. MaxTime BY <1>4, ExecutorConstants DEF Tick, Base, TypeInv
  <2> QED BY Zenon, <1>4, <2>1 DEF Tick, Base, TypeInv, LockInv, OwnerOK, StageInv
<1>5. CASE UNCHANGED vars BY Zenon, <1>5 DEF vars, Base, TypeInv, LockInv, OwnerOK, StageInv
<1> QED BY <1>1, <1>2, <1>3, <1>4, <1>5 DEF Next

\* The invariant contains the property.
LEMMA BaseRunsAlone == Base => RunsAlone
<1> SUFFICES ASSUME Base PROVE RunsAlone OBVIOUS
<1>1. word \in FlagsType BY DEF Base, TypeInv
<1>2. \A t \in Threads : exec[t].own_lock =>
        word.locked /\ exec[t].new_flags = Locked(word)
  BY DEF Base, LockInv, OwnerOK
<1>3. word.locked => [word EXCEPT !.signals = {}] = Locked(word)
  <2>1. /\ Locked(word) \in FlagsType /\ Locked(word).locked /\ Locked(word).closed = word.closed
        /\ Locked(word).in_queue = word.in_queue /\ Locked(word).signals = {}
    BY <1>1, LockedType
  <2>2. /\ [word EXCEPT !.signals = {}] \in FlagsType
        /\ [word EXCEPT !.signals = {}].locked = word.locked
        /\ [word EXCEPT !.signals = {}].closed = word.closed
        /\ [word EXCEPT !.signals = {}].in_queue = word.in_queue
        /\ [word EXCEPT !.signals = {}].signals = {}
    BY <1>1 DEF FlagsType
  <2> QED BY <1>1, <2>1, <2>2 DEF FlagsType
<1>4. word.locked <=> Owners # {} BY <1>2 DEF Owners, Base, LockInv
<1>5. \A t, u \in Owners : t = u BY DEF Owners, Base, LockInv
<1>6. \A t \in Owners : [word EXCEPT !.signals = {}] = exec[t].new_flags
  BY <1>2, <1>3 DEF Owners
<1>7. \A t \in Threads : exec[t].pc \in {"signals", "messages"} => t \in Owners /\ alive
  BY DEF Owners, Base, LockInv, OwnerOK
<1> QED BY <1>4, <1>5, <1>6, <1>7 DEF RunsAlone

\* However many threads send to an actor, pop it or stop it at once, the
\* LockFlag of its word (ActorLocker::try_lock, add_signals, try_unlock) has
\* one owner, and only the owner runs handlers, of a living actor.
THEOREM RunsAloneAlways == Spec => []RunsAlone
  BY InitBase, NextBase, BaseRunsAlone, PTL DEF Spec

-----------------------------------------------------------------------------
(* The InQueue flag                                                        *)

\* The executor has the Pop signal, or is about to put the actor into the queue.
Pops(e) == "Pop" \in e.signals \/ "Pop" \in e.pending \/ (e.own_lock /\ "Pop" \in e.flags.signals)
Queues(e) == e.add_to_queue \/ e.pc = "enqueue"
Points(e) == Pops(e) \/ Queues(e)
OtherPoints(t) == \E u \in Threads \ {t} : Points(exec[u])
Pointer == queue = 1 \/ "Pop" \in word.signals \/ \E t \in Threads : Points(exec[t])

\* At most one pointer to the actor is on its way, and the InQueue flag, which
\* the owner of the lock keeps for itself, tells whether there is one.  An
\* unlocked actor with signals is in the queue.
QueueInv ==
  /\ queue \in {0, 1}
  /\ \A t \in Threads : ~(Pops(exec[t]) /\ Queues(exec[t]))
  /\ \A t, u \in Threads : Points(exec[t]) /\ Points(exec[u]) => t = u
  /\ (\E t \in Threads : Points(exec[t])) => queue = 0 /\ "Pop" \notin word.signals
  /\ "Pop" \in word.signals => queue = 0
  /\ ~word.locked => (word.in_queue <=> Pointer)
  /\ \A t \in Threads : exec[t].own_lock => (exec[t].flags.in_queue <=> Pointer)
  /\ ~word.locked /\ ~word.closed /\ word.signals # {} => word.in_queue
  /\ \A t \in Threads : exec[t].add_to_queue => alive

\* The invariant seen from one thread.
Seen(t) ==
  /\ queue \in {0, 1} /\ ~(Pops(exec[t]) /\ Queues(exec[t]))
  /\ OtherPoints(t) => ~Points(exec[t])
  /\ OtherPoints(t) \/ Points(exec[t]) => queue = 0 /\ "Pop" \notin word.signals
  /\ "Pop" \in word.signals => queue = 0
  /\ Pointer <=> (queue = 1 \/ "Pop" \in word.signals \/ Points(exec[t]) \/ OtherPoints(t))
  /\ ~word.locked => (word.in_queue <=> Pointer)
  /\ exec[t].own_lock => (exec[t].flags.in_queue <=> Pointer)
  /\ ~word.locked /\ ~word.closed /\ word.signals # {} => word.in_queue
  /\ exec[t].add_to_queue => alive

\* A thread without an executor has no pointer.
LEMMA IdleQueue ==
  ASSUME Base, NEW t \in Threads, exec[t].pc = "idle"
  PROVE  ~Pops(exec[t]) /\ ~Queues(exec[t]) /\ ~exec[t].own_lock
  BY DEF Base, LockInv, StageInv, OwnerOK, StageOK, Pops, Queues

\* An owner is the only one.
LEMMA OwnerAlone ==
  ASSUME Base, NEW t \in Threads, exec[t].own_lock
  PROVE  \A u \in Threads \ {t} : ~exec[u].own_lock /\ ~exec[u].add_to_queue
<1>1. \A u \in Threads \ {t} : ~exec[u].own_lock BY DEF Base, LockInv
<1>2. \A u \in Threads : exec[u].add_to_queue => exec[u].own_lock
  BY Zenon DEF Base, LockInv, StageInv, OwnerOK, StageOK
<1> QED BY <1>1, <1>2

\* A new actor is in the queue.
LEMMA InitQueue == Init => QueueInv
<1> SUFFICES ASSUME Init PROVE QueueInv OBVIOUS
<1>1. \A t \in Threads : exec[t] = Idle BY DEF Init
<1>2. ~Pops(Idle) /\ ~Queues(Idle) /\ ~Points(Idle) /\ ~Idle.own_lock /\ ~Idle.add_to_queue
  BY IdleType DEF Pops, Queues, Points
<1>3. queue = 1 /\ ~word.locked /\ word.in_queue /\ "Pop" \notin word.signals BY DEF Init
<1> QED BY <1>1, <1>2, <1>3 DEF QueueInv, Pointer

\* Every step keeps the flag true.
LEMMA NextQueue == Base /\ QueueInv /\ [Next]_vars => QueueInv'
\* QueueInv, as seen from one thread.
<1>QueueNow.
  ASSUME QueueInv, NEW t \in Threads
  PROVE  Seen(t)
  <2> USE <1>QueueNow
  <2>1. Pointer <=> (queue = 1 \/ "Pop" \in word.signals \/ Points(exec[t]) \/ OtherPoints(t))
    BY DEF Pointer, OtherPoints
  <2>2. OtherPoints(t) => ~Points(exec[t]) BY DEF QueueInv, OtherPoints
  <2>3. OtherPoints(t) \/ Points(exec[t]) => queue = 0 /\ "Pop" \notin word.signals
    BY DEF QueueInv, OtherPoints
  <2> QED BY <2>1, <2>2, <2>3 DEF QueueInv, Seen

\* A step of t, with pointer what then tells whether there is a pointer.
<1>QueueStep.
  ASSUME TypeInv, QueueInv, NEW t \in Threads, NEW r, exec' = [exec EXCEPT ![t] = r],
         NEW pointer,
         pointer <=> (queue' = 1 \/ "Pop" \in word'.signals \/ Points(r) \/ OtherPoints(t)),
         queue' \in {0, 1}, ~(Pops(r) /\ Queues(r)),
         OtherPoints(t) => ~Points(r),
         OtherPoints(t) \/ Points(r) => queue' = 0 /\ "Pop" \notin word'.signals,
         "Pop" \in word'.signals => queue' = 0,
         ~word'.locked => (word'.in_queue <=> pointer),
         r.own_lock => (r.flags.in_queue <=> pointer),
         \A u \in Threads \ {t} : exec[u].own_lock => (pointer <=> Pointer),
         ~word'.locked /\ ~word'.closed /\ word'.signals # {} => word'.in_queue,
         r.add_to_queue => alive', \A u \in Threads \ {t} : exec[u].add_to_queue => alive'
  PROVE  QueueInv'
  <2> USE <1>QueueStep
  <2>1. \A u \in Threads : exec'[u] = IF u = t THEN r ELSE exec[u] BY DEF TypeInv
  <2>2. \A u \in Threads : Points(exec'[u]) <=> IF u = t THEN Points(r) ELSE Points(exec[u])
    BY <2>1
  <2>3. OtherPoints(t) <=> \E u \in Threads \ {t} : Points(exec[u]) BY DEF OtherPoints
  <2>4. Pointer' <=> pointer
    <3>1. Pointer' <=> (queue' = 1 \/ "Pop" \in word'.signals \/ \E u \in Threads : Points(exec'[u]))
      BY DEF Pointer
    <3> QED BY <2>2, <2>3, <3>1
  <2>5. \A u \in Threads : ~(Pops(exec'[u]) /\ Queues(exec'[u])) BY Zenon, <2>1 DEF QueueInv
  <2>6. \A u, v \in Threads : Points(exec'[u]) /\ Points(exec'[v]) => u = v
    BY <2>2, <2>3 DEF QueueInv
  <2>7. (\E u \in Threads : Points(exec'[u])) => queue' = 0 /\ "Pop" \notin word'.signals
    BY <2>2, <2>3
  <2>8. \A u \in Threads : exec'[u].own_lock => (exec'[u].flags.in_queue <=> Pointer')
    BY Zenon, <2>1, <2>4 DEF QueueInv
  <2>9. \A u \in Threads : exec'[u].add_to_queue => alive' BY Zenon, <2>1
  <2> QED BY Zenon, <2>4, <2>5, <2>6, <2>7, <2>8, <2>9 DEF QueueInv

\* A step of t that leaves its part in this, and the word, as they are.
<1>QueueKept.
  ASSUME Base, QueueInv, NEW t \in Threads, NEW r, exec' = [exec EXCEPT ![t] = r],
         queue' = queue, word' = word,
         Pops(r) <=> Pops(exec[t]), Queues(r) <=> Queues(exec[t]),
         r.own_lock => exec[t].own_lock /\ r.flags.in_queue = exec[t].flags.in_queue,
         alive' = alive \/ \A u \in Threads : ~exec[u].add_to_queue,
         r.add_to_queue => exec[t].add_to_queue
  PROVE  QueueInv'
  <2> USE <1>QueueKept
  <2>1. Points(r) <=> Points(exec[t]) BY DEF Points
  <2>2. \A u \in Threads : exec[u].add_to_queue => alive' BY DEF QueueInv
  <2> HIDE DEF QueueInv
  <2>3. Seen(t) BY <1>QueueNow
  <2>4. TypeInv BY DEF Base
  <2>5. Pointer <=> (queue' = 1 \/ "Pop" \in word'.signals \/ Points(r) \/ OtherPoints(t))
    BY <2>1, <2>3 DEF Seen
  <2> QED BY Zenon, <2>1, <2>2, <2>3, <2>4, <2>5, <1>QueueStep DEF Seen

\* The constructor without the Pop signal (Send, IoAlarmDue): the pointer stays
\* where it is.
<1>SendQueue.
  ASSUME Base, QueueInv, NEW t \in Threads, NEW p \in PacketType, Construct(t, FALSE, p),
         exec[t].pc = "idle", UNCHANGED <<word, queue, alive>>
  PROVE  QueueInv'
  <2> USE <1>SendQueue
  <2>1. PICK r \in ExecType : Constructed(t, FALSE, p, r) BY Zenon, ConstructFacts DEF Base
  <2>2. ~Pops(r) /\ ~Queues(r) /\ ~r.own_lock /\ ~r.add_to_queue /\ exec' = [exec EXCEPT ![t] = r]
    BY <2>1 DEF Constructed, PacketType, Pops, Queues
  <2> QED BY Zenon, <2>2, IdleQueue, <1>QueueKept

\* The popped pointer becomes a Pop signal.
<1>PopActorQueue.
  ASSUME Base, QueueInv, NEW t \in Threads, PopActor(t)
  PROVE  QueueInv'
  <2> USE <1>PopActorQueue
  <2>1. Construct(t, TRUE, NoPacket) /\ exec[t].pc = "idle" BY Zenon DEF PopActor
  <2>2. PICK r \in ExecType : Constructed(t, TRUE, NoPacket, r)
    BY Zenon, <2>1, IdleType, ConstructFacts DEF Base
  <2>3. Pops(r) /\ ~Queues(r) /\ ~r.own_lock /\ ~r.add_to_queue /\ exec' = [exec EXCEPT ![t] = r]
    BY <2>2 DEF Constructed, Pops, Queues
  <2>4. Seen(t) BY <1>QueueNow
  <2>5. queue = 1 /\ queue' = 0 /\ word' = word /\ alive' = alive
    BY <2>4 DEF PopActor, try_pop, Seen
  <2>6. Pointer /\ ~OtherPoints(t) /\ "Pop" \notin word.signals /\ Points(r)
    BY <2>3, <2>4, <2>5 DEF Seen, Points
  <2>7. \A u \in Threads \ {t} : exec[u].add_to_queue => alive' BY <2>5 DEF QueueInv
  <2>8. ~word'.locked => (word'.in_queue <=> TRUE) BY <2>4, <2>5, <2>6 DEF Seen
  <2>9. ~word'.locked /\ ~word'.closed /\ word'.signals # {} => word'.in_queue
    BY <2>4, <2>5 DEF Seen
  <2> QED BY Zenon, <2>3, <2>5, <2>6, <2>7, <2>8, <2>9, <1>QueueStep DEF Base

\* Loading the word again leaves the pointer where it is.
<1>ReloadQueue.
  ASSUME Base, QueueInv, NEW t \in Threads, Reload(t), ~exec[t].own_lock,
         UNCHANGED <<queue, alive>>
  PROVE  QueueInv'
  <2> USE <1>ReloadQueue
  <2>1. PICK r \in ExecType : Reloaded(t, r) BY ReloadFacts DEF Base
  <2>2. /\ Pops(r) <=> Pops(exec[t])
        /\ Queues(r) <=> Queues(exec[t])
        /\ ~r.own_lock
    BY <2>1 DEF Reloaded, Pops, Queues
  <2> QED BY Zenon, <2>1, <2>2, <1>QueueKept DEF Reloaded

\* Whoever takes the lock gets the InQueue flag with it: TookLock, AddedLocked.
<1>LockQueue.
  ASSUME Base, QueueInv, NEW t \in Threads, ~exec[t].own_lock, ~word.locked,
         UNCHANGED <<queue, alive>>,
         word' = Locked(word), NEW r \in ExecType, exec' = [exec EXCEPT ![t] = r],
         Pops(r) <=> Pops(exec[t]), Queues(r) <=> Queues(exec[t]),
         r.flags.in_queue = word.in_queue, r.add_to_queue = exec[t].add_to_queue
  PROVE  QueueInv'
  <2> USE <1>LockQueue
  <2>1. Seen(t) BY <1>QueueNow
  <2>2. word \in FlagsType BY DEF Base, TypeInv
  <2>3. word'.locked /\ word'.signals = {} BY <2>2, LockedType
  <2>4. Points(r) <=> Points(exec[t]) BY DEF Points
  <2>5. "Pop" \notin word.signals BY DEF Base, StageInv
  <2>6. Pointer <=> (queue' = 1 \/ "Pop" \in word'.signals \/ Points(r) \/ OtherPoints(t))
    BY <2>1, <2>3, <2>4, <2>5 DEF Seen
  <2>7. \A u \in Threads \ {t} : exec[u].add_to_queue => alive' BY DEF QueueInv
  <2>8. r.own_lock => (r.flags.in_queue <=> Pointer) BY <2>1 DEF Seen
  <2>9. queue' \in {0, 1} /\ ~(Pops(r) /\ Queues(r)) /\ (OtherPoints(t) => ~Points(r))
        /\ (OtherPoints(t) \/ Points(r) => queue' = 0) /\ (r.add_to_queue => alive')
    BY <2>1, <2>4 DEF Seen
  <2>10. TypeInv BY DEF Base
  <2> QED BY Zenon, <2>3, <2>6, <2>7, <2>8, <2>9, <2>10, <1>QueueStep

\* start() adds signals to a locked word or takes the lock, and with it the Pop
\* signal.
<1>StartQueue.
  ASSUME Base, QueueInv, NEW t \in Threads, Start(t)
  PROVE  QueueInv'
  <2> USE <1>StartQueue
  <2> DEFINE e == exec[t]
  <2>1. e \in ExecType /\ e.pc = "lock" /\ OwnerOK(e) /\ StageOK(t, e)
    BY DEF Start, Base, TypeInv, LockInv, StageInv
  <2>2. ~e.own_lock /\ ~e.add_to_queue /\ e.pending = {} BY Zenon, <2>1 DEF OwnerOK, StageOK
  <2>3. UNCHANGED <<queue, alive>> BY DEF Start
  <2>4. CASE exec' = [exec EXCEPT ![t] = Started(e)] /\ word' = word
    <3>1. Stopped(e, Started(e), e.signals, e.pending) BY <2>1, StartedFacts
    <3>2. /\ Pops(Started(e)) <=> Pops(e)
          /\ Queues(Started(e)) <=> Queues(e)
          /\ ~Started(e).own_lock /\ ~Started(e).add_to_queue
      BY Zenon, <2>1, <2>2, <3>1 DEF Stopped, Same, Pops, Queues
    <3> QED BY Zenon, <2>3, <2>4, <3>2, <1>QueueKept
  <2>5. CASE Reload(t) BY <2>2, <2>3, <2>5, <1>ReloadQueue
  <2>6. CASE ~can_try_add_signals(t) /\ word = e.flags
    <3>1. PICK r \in ExecType : TookLock(t, r) BY <2>6, LockFacts DEF Base
    <3>2. "Pop" \notin word.signals /\ ~word.locked BY Zenon, <3>1 DEF TookLock, Base, StageInv
    <3>3. Pops(r) <=> Pops(e)
      BY Zenon, <2>2, <3>1, <3>2 DEF TookLock, Pops
    <3>4. Queues(r) <=> Queues(e) BY Zenon, <2>1, <2>2, <3>1 DEF TookLock, Queues
    <3> QED BY Zenon, <2>2, <2>3, <3>1, <3>2, <3>3, <3>4, <1>LockQueue DEF TookLock
  <2> QED BY <2>1, <2>4, <2>5, <2>6 DEF Start

\* A step of the owner that only moves signals between its own sets.
<1>RunQueue.
  ASSUME Base, QueueInv, NEW t \in Threads, exec[t].pc \in {"signals", "messages"},
         UNCHANGED <<word, queue, alive>>, NEW r \in ExecType, exec' = [exec EXCEPT ![t] = r],
         Same(exec[t], r), r.pc \in {"signals", "messages", "send"},
         r.flags.in_queue = exec[t].flags.in_queue,
         "Pop" \in r.signals \/ "Pop" \in r.pending
           <=> "Pop" \in exec[t].signals \/ "Pop" \in exec[t].pending
  PROVE  QueueInv'
  <2> USE <1>RunQueue
  <2>1. Pops(r) <=> Pops(exec[t]) BY DEF Same, Pops
  <2>2. Queues(r) <=> Queues(exec[t]) BY DEF Same, Queues
  <2> QED BY Zenon, <2>1, <2>2, <1>QueueKept DEF Same

\* flush_one_signal: handling Pop drops the flag together with the pointer.
<1>FlushSignalQueue.
  ASSUME Base, QueueInv, NEW t \in Threads, FlushSignal(t)
  PROVE  QueueInv'
  <2> USE <1>FlushSignalQueue
  <2> DEFINE e == exec[t]
  <2>1. PICK name, r : r \in ExecType /\ SignalDone(t, name, r) BY FlushSignalFacts DEF Base
  <2>2. /\ exec' = [exec EXCEPT ![t] = r] /\ e.pc = "signals" /\ name \in e.signals
        /\ GoesOn(e, r, "signals", e.signals \ {name},
                  IF name = "Message" THEN e.pending \cup {"Message"} ELSE e.pending)
        /\ r.flags.in_queue = (e.flags.in_queue /\ name # "Pop")
    BY <2>1 DEF SignalDone
  <2>3. e \in ExecType /\ StageOK(t, e) /\ OwnerOK(e) /\ e.own_lock
    BY Zenon, <2>2 DEF Base, TypeInv, LockInv, StageInv, OwnerOK
  <2>4. Same(e, r) /\ r.pc \in {"signals", "send"} /\ r \in ExecType
    BY <2>1, <2>2 DEF GoesOn, Stopped
  <2>5. UNCHANGED <<word, queue, alive>> BY DEF FlushSignal
  <2>6. "Pop" \notin e.pending /\ e.flags.signals = {} /\ ~e.add_to_queue
    BY Zenon, <2>2, <2>3 DEF StageOK
  <2>7. CASE name # "Pop"
    <3>1. "Pop" \in r.signals \/ "Pop" \in r.pending <=> "Pop" \in e.signals \/ "Pop" \in e.pending
      BY <2>2, <2>7 DEF GoesOn, Stopped
    <3>2. r.flags.in_queue = e.flags.in_queue
      BY <2>2, <2>3, <2>4, <2>7 DEF ExecType, FlagsType
    <3> QED BY Zenon, <2>2, <2>4, <2>5, <3>1, <3>2, <1>RunQueue
  <2>8. CASE name = "Pop"
    <3>1. "Pop" \notin r.signals /\ "Pop" \notin r.pending
      BY Zenon, <2>2, <2>6, <2>8 DEF GoesOn, Stopped
    <3>2. ~Pops(r) /\ ~Queues(r) /\ ~Points(r) /\ ~r.add_to_queue /\ ~r.flags.in_queue
      BY Zenon, <2>2, <2>4, <2>6, <2>8, <3>1 DEF Same, Pops, Queues, Points
    <3>3. Seen(t) BY <1>QueueNow
    <3>4. Points(e) BY <2>2, <2>8 DEF Points, Pops
    <3>5. queue' = 0 /\ "Pop" \notin word'.signals /\ ~OtherPoints(t)
      BY <2>5, <3>3, <3>4 DEF Seen
    <3>6. word'.locked /\ TypeInv BY <2>3, <2>5 DEF OwnerOK, Base
    <3>7. \A u \in Threads \ {t} : ~exec[u].own_lock /\ ~exec[u].add_to_queue
      BY <2>3, OwnerAlone
    <3>8. FALSE <=> (queue' = 1 \/ "Pop" \in word'.signals \/ Points(r) \/ OtherPoints(t))
      BY <3>2, <3>5
    <3> QED BY Zenon, <2>2, <3>2, <3>5, <3>6, <3>7, <3>8, <1>QueueStep
  <2> QED BY <2>7, <2>8

\* The owner goes on to the messages.
<1>SignalsFlushedQueue.
  ASSUME Base, QueueInv, NEW t \in Threads, SignalsFlushed(t)
  PROVE  QueueInv'
  <2> USE <1>SignalsFlushedQueue
  <2>1. PICK r \in ExecType :
          /\ exec' = [exec EXCEPT ![t] = r] /\ r.pc = "messages"
          /\ Same(exec[t], r) /\ r.flags = exec[t].flags /\ r.packet = exec[t].packet
          /\ r.signals = exec[t].signals /\ r.pending = exec[t].pending
    BY SignalsFlushedBase
  <2>2. exec[t].pc = "signals" /\ UNCHANGED <<word, queue, alive>> BY DEF SignalsFlushed
  <2> QED BY Zenon, <2>1, <2>2, <1>RunQueue

\* flush_one_message leaves the pointer where it is.
<1>FlushMessageQueue.
  ASSUME Base, QueueInv, NEW t \in Threads, FlushMessage(t)
  PROVE  QueueInv'
  <2> USE <1>FlushMessageQueue
  <2> DEFINE e == exec[t]
  <2>1. PICK r \in ExecType : MessageDone(t, r) BY FlushMessageFacts DEF Base
  <2>2. /\ \/ Stopped(e, r, e.signals, e.pending \ {"Message"})
           \/ Stopped(e, r, e.signals, e.pending)
           \/ GoesOn(e, r, "messages", e.signals, e.pending)
        /\ r.flags = e.flags /\ e.pc = "messages" /\ exec' = [exec EXCEPT ![t] = r]
    BY <2>1 DEF MessageDone
  <2>3. Same(e, r) /\ r.pc \in {"messages", "send"} BY Zenon, <2>2 DEF GoesOn, Stopped
  <2>4. "Pop" \in r.signals \/ "Pop" \in r.pending <=> "Pop" \in e.signals \/ "Pop" \in e.pending
    BY <2>2 DEF GoesOn, Stopped
  <2>5. UNCHANGED <<word, queue, alive>> BY DEF FlushMessage
  <2> QED BY Zenon, <2>2, <2>3, <2>4, <2>5, <1>RunQueue

\* send() leaves the pointer where it is.
<1>SendMessageQueue.
  ASSUME Base, QueueInv, NEW t \in Threads, SendMessage(t)
  PROVE  QueueInv'
  <2> USE <1>SendMessageQueue
  <2> DEFINE e == exec[t]
  <2>1. PICK r \in ExecType : MessageSent(t, r) BY SendMessageFacts DEF Base
  <2>2. /\ exec' = [exec EXCEPT ![t] = r] /\ Same(e, r) /\ r.flags = e.flags /\ r.pc = "finish"
        /\ e.pc = "send" /\ r.signals = e.signals /\ ("Pop" \in r.pending <=> "Pop" \in e.pending)
    BY Zenon, <2>1 DEF MessageSent
  <2>3. Pops(r) <=> Pops(e) BY <2>2 DEF Same, Pops
  <2>4. Queues(r) <=> Queues(e) BY <2>2 DEF Same, Queues
  <2>5. UNCHANGED <<word, queue, alive>> BY DEF SendMessage
  <2> QED BY Zenon, <2>2, <2>3, <2>4, <2>5, <1>QueueKept DEF Same

\* add_signals: a Pop signal goes into the locked word, for the owner, or is
\* kept with the lock.
<1>AddSignalsQueue.
  ASSUME Base, QueueInv, NEW t \in Threads, AddSignals(t)
  PROVE  QueueInv'
  <2> USE <1>AddSignalsQueue
  <2> DEFINE e == exec[t]
  <2>1. e \in ExecType /\ e.pc = "finish" /\ ~e.own_lock /\ StageOK(t, e) /\ word \in FlagsType
    BY DEF AddSignals, Base, TypeInv, StageInv
  <2>2. UNCHANGED <<queue, alive>> BY DEF AddSignals
  <2>3. e.signals = {} /\ ~e.add_to_queue BY Zenon, <2>1 DEF StageOK
  <2>4. ~Queues(e) /\ (Pops(e) <=> "Pop" \in e.pending) BY <2>1, <2>3 DEF Queues, Pops
  <2>5. ~Pops(Idle) /\ ~Queues(Idle) BY IdleType DEF Pops, Queues
  <2>6. CASE e.pending = {} /\ exec' = [exec EXCEPT ![t] = Idle] /\ word' = word
    BY Zenon, <2>2, <2>4, <2>5, <2>6, IdleType, <1>QueueKept
  <2>7. CASE Reload(t) BY <2>1, <2>2, <2>7, <1>ReloadQueue
  <2>8. CASE /\ can_try_add_signals(t) /\ word = e.flags
             /\ word' = [word EXCEPT !.signals = @ \cup e.pending]
             /\ exec' = [exec EXCEPT ![t] = Idle]
    <3>1. /\ word'.locked = word.locked /\ word'.closed = word.closed
          /\ word'.in_queue = word.in_queue /\ word'.signals = word.signals \cup e.pending
      BY <2>1, <2>8 DEF FlagsType
    <3>2. Seen(t) BY <1>QueueNow
    <3>3. ~Points(Idle) /\ (Points(e) <=> "Pop" \in e.pending) BY <2>4, <2>5 DEF Points
    <3>4. Pointer <=> (queue' = 1 \/ "Pop" \in word'.signals \/ Points(Idle) \/ OtherPoints(t))
      BY <2>2, <3>1, <3>2, <3>3 DEF Seen
    <3>5. ~word.locked => word.in_queue BY <2>8 DEF can_try_add_signals
    <3>6. /\ OtherPoints(t) \/ Points(Idle) => queue' = 0 /\ "Pop" \notin word'.signals
          /\ "Pop" \in word'.signals => queue' = 0
      BY <2>2, <3>1, <3>2, <3>3 DEF Seen
    <3>7. \A u \in Threads \ {t} : exec[u].add_to_queue => alive' BY <2>2 DEF QueueInv
    <3>8. ~word'.locked => (word'.in_queue <=> Pointer) BY <3>1, <3>2 DEF Seen
    <3>9. queue' \in {0, 1} BY <2>2, <3>2 DEF Seen
    <3>10. TypeInv BY DEF Base
    <3>11. ~word'.locked /\ ~word'.closed /\ word'.signals # {} => word'.in_queue BY <3>1, <3>5
    <3>12. ~Idle.own_lock /\ ~Idle.add_to_queue /\ exec' = [exec EXCEPT ![t] = Idle]
      BY <2>8, IdleType
    <3>13. ~(Pops(Idle) /\ Queues(Idle)) BY <2>5
    <3> QED BY Zenon, <3>3, <3>4, <3>6, <3>7, <3>8, <3>9, <3>10, <3>11, <3>12, <3>13, <1>QueueStep
  <2>9. CASE /\ ~can_try_add_signals(t) /\ word = e.flags /\ word' = Locked(word)
             /\ exec' = [exec EXCEPT ![t] =
                  [e EXCEPT !.own_lock = TRUE, !.new_flags = Locked(e.flags),
                            !.flags.signals = @ \cup e.pending, !.pending = {}, !.pc = "settle"]]
    <3>1. ~word.locked BY <2>9 DEF can_try_add_signals
    <3>2. PICK r \in ExecType : AddedLocked(t, r) BY Zenon, <2>9, AddLockedFacts DEF Base
    <3>3. "Pop" \notin word.signals BY <3>1 DEF Base, StageInv
    <3>4. Pops(r) <=> Pops(e) BY <2>3, <2>4, <2>9, <3>2, <3>3 DEF AddedLocked, Pops
    <3>5. Queues(r) <=> Queues(e) BY <2>3, <2>4, <3>2 DEF AddedLocked, Queues
    <3> QED BY Zenon, <2>1, <2>2, <2>9, <3>1, <3>2, <3>4, <3>5, <1>LockQueue DEF AddedLocked
  <2> QED BY <2>1, <2>6, <2>7, <2>8, <2>9 DEF AddSignals

\* flush_context_flags adds no Pop signal.
<1>FlushContextFlagsQueue.
  ASSUME Base, QueueInv, NEW t \in Threads, FlushContextFlags(t)
  PROVE  QueueInv'
  <2> USE <1>FlushContextFlagsQueue
  <2> DEFINE e == exec[t]
  <2>1. PICK r \in ExecType : \E added : ContextFlushed(t, added, r) BY FlushContextFacts DEF Base
  <2>2. PICK added : ContextFlushed(t, added, r) BY <2>1
  <2>3. exec' = [exec EXCEPT ![t] = r] /\ e.pc = "finish" /\ e.own_lock
    BY <2>2 DEF ContextFlushed
  <2>4. e.signals = {} /\ ~e.add_to_queue BY <2>3 DEF Base, StageInv, StageOK
  <2>5. Pops(r) <=> Pops(e) BY Zenon, <2>2, <2>3, <2>4 DEF ContextFlushed, Pops
  <2>6. Queues(r) <=> Queues(e) BY <2>2, <2>3, <2>4 DEF ContextFlushed, Queues
  <2>7. UNCHANGED <<word, queue>> BY DEF FlushContextFlags
  <2>8. \A u \in Threads : ~exec[u].add_to_queue BY <2>3, <2>4, OwnerAlone
  <2>9. r.flags.in_queue = e.flags.in_queue /\ ~r.add_to_queue BY <2>2, <2>4 DEF ContextFlushed
  <2> QED BY Zenon, <2>3, <2>5, <2>6, <2>7, <2>8, <2>9, <1>QueueKept

\* The loop of finish(): the flag of a handled pointer is dropped, and set
\* again when the executor is to put the actor back.
<1>SettleQueue.
  ASSUME Base, QueueInv, NEW t \in Threads, exec[t].pc = "settle", Settle(t),
         UNCHANGED <<word, queue, alive>>
  PROVE  QueueInv'
  <2> USE <1>SettleQueue
  <2> DEFINE e == exec[t]
             in == e.flags.in_queue /\ "Pop" \notin e.flags.signals
  <2>1. PICK r \in ExecType, add \in BOOLEAN : Settled(t, add, r) BY Zenon, SettleFacts DEF Base
  <2>2. e \in ExecType /\ OwnerOK(e) /\ StageOK(t, e) /\ TypeInv
    BY Zenon DEF Base, TypeInv, LockInv, StageInv
  <2>3. e.own_lock /\ word.locked /\ e.signals = {} /\ e.pending = {} /\ e.flags.closed = ~alive
    BY Zenon, <2>2 DEF OwnerOK, StageOK
  <2>4. /\ exec' = [exec EXCEPT ![t] = r] /\ r.pc = "unlock" /\ "Pop" \notin r.flags.signals
        /\ r.signals = {} /\ r.pending = {} /\ r.flags.closed = e.flags.closed
        /\ add => ~e.flags.closed /\ ~in
        /\ r.flags.in_queue = (in \/ add) /\ r.add_to_queue = (e.add_to_queue \/ add)
    BY Zenon, <2>1, <2>3 DEF Settled
  <2>5. Seen(t) BY <1>QueueNow
  <2>6. Pops(e) <=> "Pop" \in e.flags.signals BY <2>3 DEF Pops
  <2>7. Queues(e) <=> e.add_to_queue BY DEF Queues
  <2>8. ~Pops(r) BY <2>4 DEF Pops
  <2>9. Queues(r) <=> e.add_to_queue \/ add BY Zenon, <2>4 DEF Queues
  <2>10. Points(r) <=> e.add_to_queue \/ add BY <2>8, <2>9 DEF Points
  <2>11. Points(e) <=> "Pop" \in e.flags.signals \/ e.add_to_queue BY <2>6, <2>7 DEF Points
  <2>12. e.flags.in_queue <=> Pointer BY Zenon, <2>3, <2>5 DEF Seen
  <2>13. e.add_to_queue => alive /\ "Pop" \notin e.flags.signals BY <2>5, <2>6, <2>7 DEF Seen
  <2>14. add => queue = 0 /\ "Pop" \notin word.signals /\ ~OtherPoints(t)
    BY Zenon, <2>4, <2>5, <2>11, <2>12 DEF Seen
  <2>15. (in \/ add) <=> (queue' = 1 \/ "Pop" \in word'.signals \/ Points(r) \/ OtherPoints(t))
    <3>1. CASE "Pop" \in e.flags.signals
      BY <2>5, <2>10, <2>11, <2>13, <3>1 DEF Seen
    <3>2. CASE "Pop" \notin e.flags.signals
      BY Zenon, <2>5, <2>10, <2>11, <2>12, <3>2 DEF Seen
    <3> QED BY Zenon, <3>1, <3>2
  <2>16. /\ OtherPoints(t) => ~Points(r)
         /\ OtherPoints(t) \/ Points(r) => queue' = 0 /\ "Pop" \notin word'.signals
         /\ "Pop" \in word'.signals => queue' = 0
         /\ queue' \in {0, 1}
    BY Zenon, <2>5, <2>10, <2>11, <2>14 DEF Seen
  <2>17. r.add_to_queue => alive' BY Zenon, <2>3, <2>4, <2>13 DEF Base, TypeInv
  <2>18. \A u \in Threads \ {t} : ~exec[u].own_lock /\ ~exec[u].add_to_queue
    BY <2>3, OwnerAlone
  <2>19. word'.locked /\ (r.flags.in_queue <=> (in \/ add)) BY Zenon, <2>3, <2>4
  <2> HIDE DEF in
  <2> QED BY Zenon, <2>2, <2>4, <2>8, <2>15, <2>16, <2>17, <2>18, <2>19, <1>QueueStep

\* try_unlock: the word gets the owner's flag, or its Pop signal is taken over.
<1>UnlockQueue.
  ASSUME Base, QueueInv, NEW t \in Threads, exec[t].pc = "unlock", try_unlock(t),
         UNCHANGED <<queue, alive>>
  PROVE  QueueInv'
  <2> USE <1>UnlockQueue
  <2> DEFINE e == exec[t]
  <2>1. e \in ExecType /\ e.flags \in FlagsType /\ OwnerOK(e) /\ StageOK(t, e) /\ TypeInv
        /\ word \in FlagsType
    BY Zenon DEF Base, TypeInv, LockInv, StageInv, ExecType
  <2>2. e.own_lock /\ word.locked /\ ~e.flags.locked /\ e.new_flags = Locked(word)
        /\ e.signals = {} /\ e.pending = {} /\ "Pop" \notin e.flags.signals
        /\ (~e.flags.closed /\ e.flags.signals # {} => e.flags.in_queue)
    BY Zenon, <2>1 DEF OwnerOK, StageOK
  <2>3. Seen(t) BY <1>QueueNow
  <2>4. ~Pops(e) BY Zenon, <2>2 DEF Pops
  <2>5. Points(e) <=> e.add_to_queue BY Zenon, <2>4 DEF Points, Queues
  <2>6. e.flags.in_queue <=> Pointer BY Zenon, <2>2, <2>3 DEF Seen
  <2>7. \A u \in Threads \ {t} : ~exec[u].own_lock /\ ~exec[u].add_to_queue
    BY <2>2, OwnerAlone
  <2>8. CASE word = e.new_flags
    <3>1. PICK r \in ExecType : Unlocked(t, r) BY <2>8, UnlockedFacts DEF Base
    <3>2. word.signals = {} BY <2>1, <2>2, <2>8, LockedType
    <3>3. /\ exec' = [exec EXCEPT ![t] = r] /\ word' = e.flags /\ ~r.own_lock /\ ~r.add_to_queue
          /\ r.pc = (IF e.add_to_queue THEN "enqueue" ELSE "idle")
          /\ r.signals = {} /\ r.pending = {}
      BY Zenon, <3>1 DEF Unlocked
    <3>4. ~Pops(r) /\ (Queues(r) <=> e.add_to_queue) BY <3>3 DEF Pops, Queues
    <3>5. Points(r) <=> e.add_to_queue BY <3>4 DEF Points
    <3>6. Pointer <=> (queue' = 1 \/ "Pop" \in word'.signals \/ Points(r) \/ OtherPoints(t))
      BY Zenon, <2>2, <2>3, <2>5, <3>2, <3>3, <3>5 DEF Seen
    <3>7. /\ OtherPoints(t) => ~Points(r)
          /\ OtherPoints(t) \/ Points(r) => queue' = 0 /\ "Pop" \notin word'.signals
          /\ "Pop" \in word'.signals => queue' = 0
          /\ queue' \in {0, 1}
      BY Zenon, <2>2, <2>3, <2>5, <3>3, <3>5 DEF Seen
    <3>8. word'.in_queue <=> Pointer BY Zenon, <2>6, <3>3
    <3>9. ~word'.closed /\ word'.signals # {} => word'.in_queue BY <2>2, <3>3
    <3> QED BY Zenon, <2>1, <2>7, <3>3, <3>4, <3>6, <3>7, <3>8, <3>9, <1>QueueStep
  <2>9. CASE word # e.new_flags
    <3>1. PICK r \in ExecType : KeptLocked(t, r) BY <2>9, KeptLockedFacts DEF Base
    <3>2. /\ exec' = [exec EXCEPT ![t] = r] /\ word' = Locked(e.flags) /\ r.own_lock
          /\ r.pc = "settle" /\ r.signals = {} /\ r.pending = {} /\ r.add_to_queue = e.add_to_queue
          /\ r.flags.in_queue = e.flags.in_queue
          /\ r.flags.signals = e.flags.signals \cup word.signals
      BY <2>2, <3>1 DEF KeptLocked
    <3>3. word'.locked /\ word'.signals = {} BY <2>1, <3>2, LockedType
    <3>4. Pops(r) <=> "Pop" \in word.signals BY <2>2, <3>2 DEF Pops
    <3>5. Queues(r) <=> e.add_to_queue BY <3>2 DEF Queues
    <3>6. Points(r) <=> "Pop" \in word.signals \/ e.add_to_queue BY <3>4, <3>5 DEF Points
    <3>7. Pointer <=> (queue' = 1 \/ "Pop" \in word'.signals \/ Points(r) \/ OtherPoints(t))
      BY Zenon, <2>3, <2>5, <3>3, <3>6 DEF Seen
    <3>8. /\ OtherPoints(t) => ~Points(r)
          /\ OtherPoints(t) \/ Points(r) => queue' = 0
          /\ queue' \in {0, 1} /\ ~(Pops(r) /\ Queues(r))
      BY Zenon, <2>3, <2>5, <3>4, <3>5, <3>6 DEF Seen
    <3>9. r.add_to_queue => alive' BY Zenon, <2>3, <3>2 DEF Seen
    <3>10. r.flags.in_queue <=> Pointer BY Zenon, <2>6, <3>2
    <3> QED BY Zenon, <2>1, <2>7, <3>2, <3>3, <3>7, <3>8, <3>9, <3>10, <1>QueueStep
  <2> QED BY <2>8, <2>9

\* dispatcher_.add_to_queue
<1>AddToQueueQueue.
  ASSUME Base, QueueInv, NEW t \in Threads, AddToQueue(t)
  PROVE  QueueInv'
  <2> USE <1>AddToQueueQueue
  <2>1. exec' = [exec EXCEPT ![t] = Idle] /\ queue' = queue + 1 /\ word' = word /\ alive' = alive
    BY DEF AddToQueue
  <2>2. Seen(t) BY <1>QueueNow
  <2>3. Points(exec[t]) BY DEF AddToQueue, Points, Queues
  <2>4. queue' = 1 /\ "Pop" \notin word'.signals /\ ~OtherPoints(t) /\ Pointer
    BY <2>1, <2>2, <2>3 DEF Seen
  <2>5. ~Pops(Idle) /\ ~Queues(Idle) /\ ~Points(Idle) BY IdleType DEF Pops, Queues, Points
  <2>6. \A u \in Threads \ {t} : exec[u].add_to_queue => alive' BY <2>1 DEF QueueInv
  <2>7. ~word'.locked => word'.in_queue BY <2>1, <2>2, <2>4 DEF Seen
  <2>8. TypeInv BY DEF Base
  <2> QED BY Zenon, <2>1, <2>4, <2>5, <2>6, <2>7, <2>8, IdleType, <1>QueueStep
<1> SUFFICES ASSUME Base, QueueInv, [Next]_vars PROVE QueueInv' OBVIOUS
<1>1. ASSUME NEW t \in Threads, Send(t) PROVE QueueInv'
  <2>1. Head(todo[t]) \in PacketType BY <1>1 DEF Send, Base, TypeInv
  <2> QED BY Zenon, <1>1, <2>1, <1>SendQueue DEF Send
<1>2. ASSUME NEW t \in Threads, Finish(t) PROVE QueueInv'
  BY <1>2, <1>SettleQueue, <1>UnlockQueue DEF Finish
<1>3. ASSUME NEW t \in Threads, PopActor(t) \/ Step(t) PROVE QueueInv'
  BY <1>2, <1>3, <1>PopActorQueue, <1>StartQueue, <1>FlushSignalQueue, <1>SignalsFlushedQueue,
     <1>FlushMessageQueue, <1>SendMessageQueue, <1>AddSignalsQueue, <1>FlushContextFlagsQueue,
     <1>AddToQueueQueue DEF Step
<1>4. CASE IoAlarmDue
  <2>1. AlarmPacket \in PacketType /\ io \in Threads BY DEF AlarmPacket, PacketType, Threads
  <2> QED BY Zenon, <1>4, <2>1, <1>SendQueue DEF IoAlarmDue
<1>5. CASE UNCHANGED <<word, alive, queue, exec>>
  BY <1>5 DEF QueueInv, Pointer
<1> QED BY <1>1, <1>3, <1>4, <1>5 DEF Next, vars, IoAlarmChanged, Tick

\* What QueuedOnce needs to know of Cardinality
NoneOrOne == Cardinality({}) = 0 /\ \A t \in Threads : Cardinality({t}) = 1

\* The invariant counts the pointers.
LEMMA QueueOnce == ASSUME NoneOrOne PROVE Base /\ QueueInv => QueuedOnce
<1> SUFFICES ASSUME Base, QueueInv PROVE QueuedOnce OBVIOUS
<1>1. TypeOK
  <2>1. Signals = Names BY DEF Signals, SignalValue, Names
  <2>2. Flags = FlagsType BY <2>1 DEF Flags, FlagsType
  <2> QED BY <2>1, <2>2 DEF TypeOK, Base, TypeInv, ExecType
<1>2. Queueing = {t \in Threads : Queues(exec[t])} BY DEF Queueing, Queues
<1>3. Popping = {t \in Threads : Pops(exec[t])} BY DEF Popping, Pops
<1>4. InQueue <=> Pointer
  <2>1. CASE word.locked
    <3>1. \E t \in Owners : TRUE BY <2>1 DEF Owners, Base, LockInv
    <3>2. (CHOOSE t \in Owners : TRUE) \in Owners BY <3>1
    <3>3. exec[CHOOSE t \in Owners : TRUE].flags.in_queue <=> Pointer
      BY <3>2 DEF Owners, QueueInv
    <3> QED BY <2>1, <3>3 DEF InQueue
  <2>2. CASE ~word.locked BY <2>2 DEF InQueue, QueueInv
  <2> QED BY <2>1, <2>2
<1>5. Cardinality({}) = 0 BY DEF NoneOrOne
<1>6. queue + Cardinality(Queueing) + Cardinality(Popping)
        + (IF "Pop" \in word.signals THEN 1 ELSE 0) = (IF InQueue THEN 1 ELSE 0)
  <2>1. CASE \A t \in Threads : ~Points(exec[t])
    <3>1. Queueing = {} /\ Popping = {} BY <1>2, <1>3, <2>1 DEF Points
    <3>2. /\ queue \in {0, 1} /\ ("Pop" \in word.signals => queue = 0)
          /\ Pointer <=> queue = 1 \/ "Pop" \in word.signals
      BY <2>1 DEF QueueInv, Pointer
    <3> QED BY <1>4, <1>5, <3>1, <3>2
  <2>2. CASE \E t \in Threads : Points(exec[t])
    <3>1. PICK t \in Threads : Points(exec[t]) BY <2>2
    <3>2. \A u \in Threads : Points(exec[u]) => u = t BY <3>1 DEF QueueInv
    <3>3. \/ Queueing = {t} /\ Popping = {}
          \/ Queueing = {} /\ Popping = {t}
      <4>1. ~(Pops(exec[t]) /\ Queues(exec[t])) BY DEF QueueInv
      <4>2. CASE Pops(exec[t])
        <5>1. Queueing = {} BY <1>2, <3>2, <4>1, <4>2 DEF Points
        <5>2. Popping = {t} BY <1>3, <3>2, <4>2 DEF Points
        <5> QED BY <5>1, <5>2
      <4>3. CASE Queues(exec[t])
        <5>1. Popping = {} BY <1>3, <3>2, <4>1, <4>3 DEF Points
        <5>2. Queueing = {t} BY <1>2, <3>2, <4>3 DEF Points
        <5> QED BY <5>1, <5>2
      <4> QED BY <3>1, <4>2, <4>3 DEF Points
    <3>4. queue = 0 /\ "Pop" \notin word.signals /\ Pointer BY <2>2 DEF QueueInv, Pointer
    <3>5. Cardinality({t}) = 1 BY DEF NoneOrOne
    <3> QED BY <1>4, <1>5, <3>3, <3>4, <3>5
  <2> QED BY <2>1, <2>2
<1>7. \A t \in Queueing : exec[t].own_lock => alive
  BY DEF Queueing, QueueInv, Base, LockInv, OwnerOK
<1> QED BY <1>1, <1>6, <1>7 DEF QueuedOnce
=============================================================================
