--------------------------- MODULE ActorExecutor ----------------------------
(***************************************************************************)
(* How the threads of a scheduler run one actor: ActorLocker, ActorState,  *)
(* ActorExecutor, ActorMailbox and the alarms of IoWorker                  *)
(* (tdactor/td/actor/core).  Any thread that has something for the actor   *)
(* makes an ActorExecutor: it tries to lock the actor's atomic state word; *)
(* the owner of the lock runs the signals and the messages on its own      *)
(* stack, everybody else leaves the message in the mailbox and a signal in *)
(* the word, for the owner to find when it unlocks or for the CPU worker   *)
(* that pops the actor from the scheduler's queue.                         *)
(*                                                                         *)
(* One action is one access to what threads share (the word, the mailbox,  *)
(* the queues, alarm_timestamp_at_) or one handler of the actor.  The      *)
(* actor is a shared one (is_shared: CPU workers run it, the I/O worker    *)
(* does not) of the scheduler the threads belong to.  A send from within   *)
(* a handler of the actor itself finds the word locked, as a send from     *)
(* another thread does.                                                    *)
(***************************************************************************)
EXTENDS Integers, Sequences, FiniteSets, Functions

CONSTANTS
  Cpu,       \* CPU workers
  io,        \* the I/O worker
  Plans,     \* what the threads send and what the actor's handlers do, each once
  MaxTime    \* bound of the clock

Threads == Cpu \cup {io}
Never == MaxTime + 1      \* Timestamp::never()

\* The signals and their values, which give the order in which they are flushed
SignalValue == [Pause |-> 1, Kill |-> 2, StartUp |-> 3, Wakeup |-> 4, Alarm |-> 5, Pop |-> 8,
                Message |-> 9]
Signals == DOMAIN SignalValue
First(signals) == CHOOSE s \in signals : \A other \in signals : SignalValue[s] <= SignalValue[other]

\* What one executor sends: the signals of its options, and the sender's
\* message number no (0: none), big when it is sent "later".
Packets == [from : Threads, no : Nat, big : BOOLEAN,
            signals : SUBSET {"Kill", "Wakeup", "Pause"}]

\* A thread numbers its messages in the order in which it sends them.
Numbered(t, packets) ==
  \A j \in DOMAIN packets : packets[j].no > 0 =>
    /\ packets[j].from = t
    /\ \A k \in DOMAIN packets : j < k /\ packets[k].no > 0 => packets[j].no < packets[k].no

ASSUME ExecutorConstants ==
  /\ IsFiniteSet(Cpu) /\ io \notin Cpu
  /\ \A plan \in Plans : /\ plan.send \in [Threads -> Seq(Packets)]
                          /\ plan.effects \subseteq {"stop", "yield", "alarm"}
                          /\ \A t \in Threads : Numbered(t, plan.send[t])
  /\ MaxTime \in Nat

VARIABLES
  word,     \* ActorState::state_
  mailbox,  \* ActorMailbox::queue_, oldest first
  reader,   \* ActorMailbox::reader_
  alive,    \* ActorInfo::actor_ is not null
  alarm,    \* ActorInfo::alarm_timestamp_at_
  queue,    \* pointers to the actor in the CPU queues
  ioQueue,  \* pointers to the actor in io_queue
  heap,     \* the actor's key in the heap of alarms, Never: not in the heap
  now,      \* the clock
  exec,     \* the ActorExecutor of each thread
  todo,     \* packets each thread has yet to send
  effects,  \* effects the handlers may still have
  ran       \* history: start_up and the messages that have run

vars == <<word, mailbox, reader, alive, alarm, queue, ioQueue, heap, now, exec,
          todo, effects, ran>>

Flags == [locked : BOOLEAN, in_queue : BOOLEAN, closed : BOOLEAN, signals : SUBSET Signals]

\* IoWorker::run_once sends the Alarm signal with send(), not as an option.
AlarmPacket == [from |-> io, no |-> -1, big |-> FALSE, signals |-> {}]
NoPacket == [from |-> io, no |-> 0, big |-> FALSE, signals |-> {}]

\* The members of an ActorExecutor and of its ActorLocker and context.  pc is
\* the next access; flags is flags_ of the locker, then of the executor.
Idle == [pc |-> "idle", from_queue |-> FALSE, packet |-> NoPacket,
         flags |-> [locked |-> FALSE, in_queue |-> FALSE, closed |-> FALSE, signals |-> {}],
         new_flags |-> [locked |-> FALSE, in_queue |-> FALSE, closed |-> FALSE, signals |-> {}],
         own_lock |-> FALSE, executes |-> FALSE, signals |-> {}, pending |-> {},
         context |-> {}, alarm |-> 0, add_to_queue |-> FALSE]

\* ActorInfoCreator::create and register_actor_info_ptr
Init ==
  /\ word = [locked |-> FALSE, in_queue |-> TRUE, closed |-> FALSE, signals |-> {"StartUp"}]
  /\ mailbox = <<>> /\ reader = <<>> /\ alive = TRUE
  /\ alarm = Never /\ heap = Never /\ now = 0
  /\ queue = 1 /\ ioQueue = 0
  /\ exec = [t \in Threads |-> Idle]
  /\ \E plan \in Plans : todo = plan.send /\ effects = plan.effects
  /\ ran = <<>>

-----------------------------------------------------------------------------
(* ActorLocker                                                             *)

can_execute(t, flags) ==
  t \in Cpu /\ (exec[t].from_queue \/ "Pause" \notin flags.signals)

\* Faulty variant: the LockFlag is not looked at.
TriesLocked(t) ==
  LET flags == exec[t].flags
  IN  flags.in_queue /\ ~can_execute(t, flags)

can_try_add_signals(t) ==
  LET flags == exec[t].flags
  IN  flags.locked \/ (flags.in_queue /\ ~can_execute(t, flags))

Locked(flags) == [flags EXCEPT !.locked = TRUE, !.signals = {}]

\* compare_exchange_strong that finds another value: it is loaded, and the
\* loop goes round.
Reload(t) ==
  /\ word # exec[t].flags
  /\ exec' = [exec EXCEPT ![t].flags = word]
  /\ UNCHANGED word

\* Faulty variant: the signals that made try_unlock fail are cleared, not kept.
KeepsOwnSignals(flags) == flags.signals

\* try_unlock: the signals in the word join those of the owner.
TakesOver(flags) == flags.signals \cup word.signals

\* try_unlock: a signal that was added since the lock was taken, or since the
\* last try, makes it fail; the owner then takes the signals over.
try_unlock(t) ==
  IF word = exec[t].new_flags
  THEN /\ word' = exec[t].flags
       /\ exec' = [exec EXCEPT ![t] = IF @.add_to_queue THEN [Idle EXCEPT !.pc = "enqueue"]
                                                        ELSE Idle]
  ELSE /\ word' = Locked(exec[t].flags)
       /\ exec' = [exec EXCEPT ![t].new_flags = Locked(exec[t].flags),
                               ![t].flags.signals = TakesOver(exec[t].flags),
                               ![t].pc = "settle"]

-----------------------------------------------------------------------------
(* Handlers of the actor                                                   *)

\* The flags a handler sets in the context: stop, yield, a new alarm.
AfterEffect(e, effect) ==
  [e EXCEPT !.context = IF effect = "none" THEN @ ELSE @ \cup {effect},
            !.alarm = IF effect = "alarm" THEN now + 1 ELSE @]

\* A handler runs and has an effect: one of those that are left, or none.
Effects == effects \cup {"none"}
Handler(effect) == (effect = "alarm" => now < MaxTime) /\ effects' = effects \ {effect}

has_immediate_flags(e) == e.context \ {"alarm"} # {}

-----------------------------------------------------------------------------
(* ActorExecutor                                                           *)

\* The constructor loads the word and the actor's alarm.
Construct(t, from_queue, packet) ==
  exec' = [exec EXCEPT ![t] =
             [Idle EXCEPT !.pc = "lock", !.from_queue = from_queue, !.packet = packet,
                          !.flags = word, !.alarm = alarm,
                          !.signals = packet.signals \cup (IF from_queue THEN {"Pop"} ELSE {})]]

\* send_message, send_message_later, send_closure, send_signals: a thread
\* that runs something else has a packet for the actor.
Send(t) ==
  /\ exec[t].pc = "idle" /\ todo[t] # <<>>
  /\ Construct(t, FALSE, Head(todo[t]))
  /\ todo' = [todo EXCEPT ![t] = Tail(@)]
  /\ UNCHANGED <<word, mailbox, reader, alive, alarm, queue, ioQueue, heap, now, effects, ran>>

\* CpuWorker::try_pop
try_pop == queue > 0

\* CpuWorker::run: a worker has popped the actor.
PopActor(t) ==
  /\ t \in Cpu /\ exec[t].pc = "idle" /\ try_pop
  /\ queue' = queue - 1
  /\ Construct(t, TRUE, NoPacket)
  /\ UNCHANGED <<word, mailbox, reader, alive, alarm, ioQueue, heap, now, todo, effects, ran>>

\* The end of start(): the signals that were not flushed stay pending.
Started(e) == [e EXCEPT !.pc = "send", !.pending = @ \cup e.signals, !.signals = {}]

\* start(): try_lock, and what the owner of the lock may do.
Start(t) ==
  LET e == exec[t]
      f == e.flags
      signals == (e.signals \cup f.signals) \ (IF e.from_queue THEN {"Pause"} ELSE {})
      own == [e EXCEPT !.own_lock = TRUE, !.new_flags = Locked(f)]
      taken == [own EXCEPT !.executes = TRUE, !.flags.signals = {}, !.signals = signals]
  IN  /\ e.pc = "lock"
      /\ \/ /\ can_try_add_signals(t)
            /\ exec' = [exec EXCEPT ![t] = Started(e)]
            /\ UNCHANGED word
         \/ ~can_try_add_signals(t) /\ Reload(t)
         \/ /\ ~can_try_add_signals(t) /\ word = f
            /\ word' = Locked(f)
            /\ exec' = [exec EXCEPT ![t] = IF ~can_execute(t, f) THEN Started(own)
                                           ELSE IF f.closed THEN Started(taken)
                                           ELSE [taken EXCEPT !.pc = "signals"]]
      /\ UNCHANGED <<mailbox, reader, alive, alarm, queue, ioQueue, heap, now, todo, effects, ran>>

\* After a signal or a message the owner stops when the context says so.
Continue(e, pc) == IF has_immediate_flags(e) THEN Started(e) ELSE [e EXCEPT !.pc = pc]

\* flush_one_signal: the first signal is handled.
FlushSignal(t) ==
  LET name == First(exec[t].signals)
      e == [exec[t] EXCEPT !.signals = @ \ {name}]
      Next(f) == exec' = [exec EXCEPT ![t] = Continue(f, "signals")]
      due == e.alarm <= now
  IN  /\ exec[t].pc = "signals" /\ exec[t].signals # {}
      /\ \/ /\ name = "Pause" /\ Next([e EXCEPT !.context = @ \cup {"pause"}])
            /\ UNCHANGED <<mailbox, reader, alarm, effects, ran>>
         \/ /\ name = "Kill" /\ Next([e EXCEPT !.context = @ \cup {"stop"}])
            /\ UNCHANGED <<mailbox, reader, alarm, effects, ran>>
         \/ /\ name = "Pop" /\ Next([e EXCEPT !.flags.in_queue = FALSE])
            /\ UNCHANGED <<mailbox, reader, alarm, effects, ran>>
         \/ /\ name = "StartUp" /\ ran' = Append(ran, NoPacket)
            /\ \E effect \in Effects : Handler(effect) /\ Next(AfterEffect(e, effect))
            /\ UNCHANGED <<mailbox, reader, alarm>>
         \/ /\ name = "Wakeup"
            /\ \E effect \in Effects : Handler(effect) /\ Next(AfterEffect(e, effect))
            /\ UNCHANGED <<mailbox, reader, alarm, ran>>
         \/ /\ name = "Alarm" /\ due /\ alarm' = Never
            /\ \E effect \in Effects :
                 /\ Handler(effect)
                 /\ Next(AfterEffect([e EXCEPT !.alarm = Never, !.context = @ \cup {"alarm"}], effect))
            /\ UNCHANGED <<mailbox, reader, ran>>
         \/ /\ name = "Alarm" /\ ~due /\ Next(e)
            /\ UNCHANGED <<mailbox, reader, alarm, effects, ran>>
         \/ /\ name = "Message" /\ Next([e EXCEPT !.pending = @ \cup {"Message"}])
            /\ reader' = reader \o mailbox /\ mailbox' = <<>>
            /\ UNCHANGED <<alarm, effects, ran>>
      /\ UNCHANGED <<word, alive, queue, ioQueue, heap, now, todo>>

\* No signal is left: the messages are next.
SignalsFlushed(t) ==
  /\ exec[t].pc = "signals" /\ exec[t].signals = {}
  /\ exec' = [exec EXCEPT ![t].pc = "messages"]
  /\ UNCHANGED <<word, mailbox, reader, alive, alarm, queue, ioQueue, heap, now, todo, effects, ran>>

\* flush_one_message
FlushMessage(t) ==
  LET e == exec[t]
      Next(f) == exec' = [exec EXCEPT ![t] = Continue(f, "messages")]
  IN  /\ e.pc = "messages"
      /\ \/ /\ reader = <<>>
            /\ exec' = [exec EXCEPT ![t] = Started([e EXCEPT !.pending = @ \ {"Message"}])]
            /\ UNCHANGED <<reader, effects, ran>>
         \/ /\ reader # <<>> /\ Head(reader).big /\ ~e.from_queue
            /\ exec' = [exec EXCEPT ![t] = Started([e EXCEPT !.context = @ \cup {"pause"}])]
            /\ UNCHANGED <<reader, effects, ran>>
         \/ /\ reader # <<>> /\ (Head(reader).big => e.from_queue)
            /\ reader' = Tail(reader) /\ ran' = Append(ran, Head(reader))
            /\ \E effect \in Effects : Handler(effect) /\ Next(AfterEffect(e, effect))
      /\ UNCHANGED <<word, mailbox, alive, alarm, queue, ioQueue, heap, now, todo>>

Sent(e) == [e EXCEPT !.pc = "finish", !.packet = NoPacket]

\* Faulty variant: a paused actor is run on the sender's stack.
CanSendImmediatePaused(e) == e.own_lock /\ e.executes

\* can_send_immediate
can_send_immediate(e) == e.own_lock /\ ~has_immediate_flags(e) /\ e.executes

\* send(message): dropped if the actor looks closed, run at once if it can
\* be, left in the mailbox otherwise.  An executor without a message goes on;
\* the I/O worker cannot run the actor, its Alarm signal stays pending.
SendMessage(t) ==
  LET e == exec[t]
      message == e.packet
      Next(f) == exec' = [exec EXCEPT ![t] = Sent(f)]
      later == [e EXCEPT !.pending = @ \cup {"Message"}]
  IN  /\ e.pc = "send"
      /\ \/ /\ message.no = 0 \/ e.flags.closed
            /\ Next(e)
            /\ UNCHANGED <<mailbox, reader, effects, ran>>
         \/ /\ message = AlarmPacket /\ ~e.flags.closed
            /\ Next([e EXCEPT !.pending = @ \cup {"Alarm"}])
            /\ UNCHANGED <<mailbox, reader, effects, ran>>
         \/ /\ message.no > 0 /\ ~e.flags.closed /\ ~can_send_immediate(e)
            /\ mailbox' = Append(mailbox, message)
            /\ Next(later)
            /\ UNCHANGED <<reader, effects, ran>>
         \/ /\ message.no > 0 /\ ~e.flags.closed /\ can_send_immediate(e) /\ message.big
            /\ reader' = <<message>> \o reader
            /\ Next([later EXCEPT !.context = @ \cup {"pause"}])
            /\ UNCHANGED <<mailbox, effects, ran>>
         \/ /\ message.no > 0 /\ ~e.flags.closed /\ can_send_immediate(e) /\ ~message.big
            /\ ran' = Append(ran, message)
            /\ \E effect \in Effects : Handler(effect) /\ Next(AfterEffect(e, effect))
            /\ UNCHANGED <<mailbox, reader>>
      /\ UNCHANGED <<word, alive, alarm, queue, ioQueue, heap, now, todo>>

\* finish() without the lock: add_signals, which may take the lock.
AddSignals(t) ==
  LET e == exec[t]
      locked == [e EXCEPT !.own_lock = TRUE, !.new_flags = Locked(e.flags),
                          !.flags.signals = @ \cup e.pending, !.pending = {}, !.pc = "settle"]
  IN  /\ e.pc = "finish" /\ ~e.own_lock
      /\ \/ /\ e.pending = {}
            /\ exec' = [exec EXCEPT ![t] = Idle]
            /\ UNCHANGED word
         \/ e.pending # {} /\ Reload(t)
         \/ /\ e.pending # {} /\ can_try_add_signals(t) /\ word = e.flags
            /\ word' = [word EXCEPT !.signals = @ \cup e.pending]
            /\ exec' = [exec EXCEPT ![t] = Idle]
         \/ /\ e.pending # {} /\ ~can_try_add_signals(t) /\ word = e.flags
            /\ word' = Locked(word)
            /\ exec' = [exec EXCEPT ![t] = locked]
      /\ UNCHANGED <<mailbox, reader, alive, alarm, queue, ioQueue, heap, now, todo, effects, ran>>

\* finish() with the lock: the pending signals and flush_context_flags.
\* set_alarm_timestamp hands a changed alarm to the I/O worker.
FlushContextFlags(t) ==
  LET e == exec[t]
      signals == e.flags.signals \cup e.pending
      stop == "stop" \in e.context
      added == (IF "pause" \in e.context THEN {"Pause"} ELSE {})
                 \cup (IF "yield" \in e.context THEN {"Wakeup"} ELSE {})
      flags == [e.flags EXCEPT !.signals = IF stop THEN signals ELSE signals \cup added,
                               !.closed = @ \/ stop]
      newAlarm == IF stop THEN Never
                  ELSE IF "alarm" \in e.context THEN e.alarm ELSE alarm
  IN  /\ e.pc = "finish" /\ e.own_lock
      /\ exec' = [exec EXCEPT ![t] = [e EXCEPT !.flags = flags, !.pending = {}, !.executes = FALSE,
                                               !.alarm = 0, !.pc = "settle"]]
      /\ alive' = (alive /\ ~stop)
      /\ alarm' = newAlarm
      /\ ioQueue' = IF newAlarm # alarm THEN ioQueue + 1 ELSE ioQueue
      /\ UNCHANGED <<word, mailbox, reader, queue, heap, now, todo, effects, ran>>

\* Faulty variant: the actor is queued although it is in the queue.
NeedsQueueAgain(flags) == ~flags.closed /\ flags.signals # {}

\* An actor that has signals and is not in the queue will be added to it.
NeedsQueue(flags) == ~flags.closed /\ flags.signals # {} /\ ~flags.in_queue

\* Faulty variant: the mailbox is cleared only by the executor that stops the actor.
ClearsOnStop(e) == "stop" \in e.context

\* Messages may be written while the actor is being closed.
ClearsMailbox(e) == e.flags.closed

\* The loop of finish() before try_unlock: a Pop signal drops the InQueue
\* flag, a closed actor's mailbox is cleared.
Settle(t) ==
  LET e == exec[t]
      popped == [e.flags EXCEPT !.signals = @ \ {"Pop"},
                                !.in_queue = @ /\ "Pop" \notin e.flags.signals]
      add == NeedsQueue(popped)
  IN  /\ exec' = [exec EXCEPT ![t].flags = [popped EXCEPT !.in_queue = @ \/ add],
                              ![t].add_to_queue = @ \/ add, ![t].pc = "unlock"]
      /\ IF ClearsMailbox(e) THEN mailbox' = <<>> /\ reader' = <<>>
                              ELSE UNCHANGED <<mailbox, reader>>

Finish(t) ==
  \/ /\ exec[t].pc = "settle" /\ Settle(t)
     /\ UNCHANGED <<word, alive, alarm, queue, ioQueue, heap, now, todo, effects, ran>>
  \/ /\ exec[t].pc = "unlock" /\ try_unlock(t)
     /\ UNCHANGED <<mailbox, reader, alive, alarm, queue, ioQueue, heap, now, todo, effects, ran>>

\* dispatcher_.add_to_queue after the lock is gone
AddToQueue(t) ==
  /\ exec[t].pc = "enqueue"
  /\ queue' = queue + 1
  /\ exec' = [exec EXCEPT ![t] = Idle]
  /\ UNCHANGED <<word, mailbox, reader, alive, alarm, ioQueue, heap, now, todo, effects, ran>>

-----------------------------------------------------------------------------
(* IoWorker::run_once                                                      *)

\* An actor of io_queue that is shared has a new alarm: the heap follows it.
IoAlarmChanged ==
  /\ exec[io].pc = "idle" /\ ioQueue > 0
  /\ ioQueue' = ioQueue - 1 /\ heap' = alarm
  /\ UNCHANGED <<word, mailbox, reader, alive, alarm, queue, now, exec, todo, effects, ran>>

\* The top of the heap is due: the actor is sent the Alarm signal.
IoAlarmDue ==
  /\ exec[io].pc = "idle" /\ heap <= now
  /\ heap' = Never
  /\ Construct(io, FALSE, AlarmPacket)
  /\ UNCHANGED <<word, mailbox, reader, alive, alarm, queue, ioQueue, now, todo, effects, ran>>

Tick ==
  /\ now < MaxTime /\ now' = now + 1
  /\ UNCHANGED <<word, mailbox, reader, alive, alarm, queue, ioQueue, heap, exec, todo, effects, ran>>

-----------------------------------------------------------------------------

Step(t) == Start(t) \/ FlushSignal(t) \/ SignalsFlushed(t) \/ FlushMessage(t) \/ SendMessage(t)
             \/ AddSignals(t) \/ FlushContextFlags(t) \/ Finish(t) \/ AddToQueue(t)

Next ==
  \/ \E t \in Threads : Send(t) \/ PopActor(t) \/ Step(t)
  \/ IoAlarmChanged \/ IoAlarmDue \/ Tick

\* A thread that has made an executor goes on, and as long as the actor is
\* queued some CPU worker comes to it.  Nobody has to send.
Fairness == (\A t \in Threads : WF_vars(Step(t))) /\ WF_vars(\E t \in Cpu : PopActor(t))

Spec == Init /\ [][Next]_vars /\ Fairness

-----------------------------------------------------------------------------
(* Properties                                                              *)

\* The word, the queues and the executors hold values of their types.
TypeOK ==
  /\ word \in Flags /\ alive \in BOOLEAN
  /\ {alarm, heap} \subseteq 1 .. Never /\ now \in 0 .. MaxTime
  /\ queue \in Nat /\ ioQueue \in Nat /\ effects \subseteq {"stop", "yield", "alarm"}
  /\ \A t \in Threads : exec[t].flags \in Flags /\ exec[t].pending \subseteq Signals

Owners == {t \in Threads : exec[t].own_lock}

\* The actor's handlers run in one thread at a time and only while the actor
\* lives: the LockFlag has one owner, whose new_flags the word repeats but for
\* signals, and an executor that runs handlers is the owner.
RunsAlone ==
  /\ word.locked <=> Owners # {}
  /\ \A t, u \in Owners : t = u
  /\ \A t \in Owners : [word EXCEPT !.signals = {}] = exec[t].new_flags
  /\ \A t \in Threads : exec[t].pc \in {"signals", "messages"} => t \in Owners /\ alive

\* Executors that hold the obligation to drop the InQueue flag
Popping == {t \in Threads : "Pop" \in exec[t].signals \cup exec[t].pending
                              \cup (IF exec[t].own_lock THEN exec[t].flags.signals ELSE {})}
Queueing == {t \in Threads : exec[t].add_to_queue \/ exec[t].pc = "enqueue"}
InQueue == IF word.locked THEN exec[CHOOSE t \in Owners : TRUE].flags.in_queue
                          ELSE word.in_queue

\* The InQueue flag tells the truth: it is set exactly while one pointer to
\* the actor is in a queue, on its way into it, or popped by an executor whose
\* Pop signal has not been handled, and only a living actor is on its way
\* (get_actor_info_ptr() of a destroyed actor is a failed CHECK).  Word, queues
\* and executors keep their types.
QueuedOnce ==
  /\ TypeOK
  /\ queue + Cardinality(Queueing) + Cardinality(Popping)
       + (IF "Pop" \in word.signals THEN 1 ELSE 0) = (IF InQueue THEN 1 ELSE 0)
  /\ \A t \in Queueing : exec[t].own_lock => alive

\* Messages of one thread run in the order in which it sends them, none twice,
\* and none before start_up (NoPacket in ran): a message that runs at once on
\* the sender's stack overtakes none that waits in the mailbox or was delayed.
InOrder ==
  /\ ran # <<>> => Head(ran) = NoPacket
  /\ \A j, k \in DOMAIN ran :
       j < k => ran[j] # ran[k] /\ (ran[j].from = ran[k].from => ran[j].no < ran[k].no)

Quiet == queue = 0 /\ \A t \in Threads : exec[t].pc = "idle"

\* Nothing is forgotten: when no executor is at work and the actor is not in
\* a queue, no signal is left in its word and no message in its mailbox; a
\* closed actor's mailbox has been emptied too (CHECK(!read()) of ~Reader).
NothingLeft ==
  Quiet => mailbox = <<>> /\ reader = <<>> /\ (word.closed \/ word.signals = {})

Messages == {p \in UNION {Range(plan.send[t]) : plan \in Plans, t \in Threads} : p.no > 0}
OnItsWay == {exec[t].packet : t \in Threads} \cup Range(mailbox) \cup Range(reader)

\* Every message that a thread has begun to send is run or, once the actor is
\* closed, dropped: no compare_exchange loop, pause or requeue keeps it
\* waiting for ever.
EveryMessageRuns ==
  \A p \in Messages : p \in OnItsWay ~> (p \in Range(ran) \/ word.closed)

\* A deadline is not forgotten (the test alarm() of actors_core.cpp wants every
\* alarm within 0.1 s of its deadline): when no executor is at work and the
\* actor is in no queue, an alarm in alarm_timestamp_at_ is in the heap.
AlarmNotLost == Quiet /\ ioQueue = 0 /\ alarm # Never => heap = alarm
=============================================================================
