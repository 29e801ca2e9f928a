------------------------- MODULE ActorMessageProofs -------------------------
(***************************************************************************)
(* The messages of an actor, for any number of threads and whatever they   *)
(* send.                                                                   *)
(*                                                                         *)
(* NothingLeftAlways: an idle actor has no message waiting.  CoverInv says *)
(* who sees to it that the mailbox is read: the owner of the lock, the     *)
(* word, or a sender that is about to add the Message signal.              *)
(*                                                                         *)
(* InOrderAlways: messages of one thread run in the order in which it      *)
(* sends them, after start_up.  The argument needs that start_up is first  *)
(* (StartInv), that a thread which may run its message at once has no      *)
(* other message waiting (OwnInv), and that what has run, what the reader  *)
(* holds and what is in the mailbox are one line (LineInv) with the        *)
(* messages yet to be sent behind it (AheadInv).                           *)
(*                                                                         *)
(* QueuedOnceAlways: the InQueue flag is set exactly while one pointer to  *)
(* the actor is queued, about to be queued or popped; ActorExecutorProofs  *)
(* has its inductive invariant.                                            *)
(***************************************************************************)
EXTENDS ActorExecutorProofs

-----------------------------------------------------------------------------
(* The senders' numbers                                                    *)

\* Every thread sends what it has numbered, in that order.
NumberOK(t, packet, packets) ==
  /\ Numbered(t, packets)
  /\ packet.no > 0 =>
       /\ packet.from = t
       /\ \A j \in DOMAIN packets : packets[j].no > 0 => packet.no < packets[j].no

NumberInv == \A t \in Threads : NumberOK(t, exec[t].packet, todo[t])

\* An executor's packet is sent once and then gone.
LEMMA StepPacket ==
  ASSUME Base, NEW t \in Threads, Step(t)
  PROVE  /\ todo' = todo
         /\ \E r \in ExecType : /\ exec' = [exec EXCEPT ![t] = r]
                                /\ r.packet = exec[t].packet \/ r.packet = NoPacket
<1> DEFINE e == exec[t]
           Q(r) == exec' = [exec EXCEPT ![t] = r] /\ (r.packet = e.packet \/ r.packet = NoPacket)
<1>1. e \in ExecType BY DEF Base, TypeInv
<1>2. TypeInv BY DEF Base
<1>3. todo' = todo
  BY Zenon DEF Step, Start, FlushSignal, SignalsFlushed, FlushMessage, SendMessage, AddSignals,
         FlushContextFlags, Finish, AddToQueue
<1>4. Q(Idle) \/ \E r \in ExecType : Q(r)
  <2>1. CASE Start(t)
    <3>1. CASE exec' = [exec EXCEPT ![t] = Started(e)]
      <4>1. Stopped(e, Started(e), e.signals, e.pending) BY <1>1, StartedFacts
      <4> QED BY Zenon, <3>1, <4>1 DEF Stopped, Same
    <3>2. CASE Reload(t) BY <1>2, <3>2, ReloadFacts DEF Reloaded
    <3>3. CASE ~can_try_add_signals(t) /\ word = e.flags
      BY <1>2, <2>1, <3>3, LockFacts DEF TookLock
    <3> QED BY <2>1, <3>1, <3>2, <3>3 DEF Start
  <2>2. CASE FlushSignal(t)
    <3>1. PICK name, r : r \in ExecType /\ SignalDone(t, name, r) BY <1>2, <2>2, FlushSignalFacts
    <3> QED BY Zenon, <3>1 DEF SignalDone, GoesOn, Stopped
  <2>3. CASE SignalsFlushed(t) BY <2>3, SignalsFlushedBase
  <2>4. CASE FlushMessage(t)
    <3>1. PICK r \in ExecType : MessageDone(t, r) BY <1>2, <2>4, FlushMessageFacts
    <3> QED BY Zenon, <3>1 DEF MessageDone, GoesOn, Stopped
  <2>5. CASE SendMessage(t) BY Zenon, <1>2, <2>5, SendMessageFacts DEF MessageSent
  <2>6. CASE AddSignals(t)
    <3>1. CASE exec' = [exec EXCEPT ![t] = Idle] BY <3>1, IdleType
    <3>2. CASE Reload(t) BY <1>2, <3>2, ReloadFacts DEF Reloaded
    <3>3. CASE exec' = [exec EXCEPT ![t] =
                [e EXCEPT !.own_lock = TRUE, !.new_flags = Locked(e.flags),
                          !.flags.signals = @ \cup e.pending, !.pending = {}, !.pc = "settle"]]
      BY Zenon, <1>2, <3>3, AddLockedFacts DEF AddedLocked
    <3> QED BY <2>6, <3>1, <3>2, <3>3 DEF AddSignals
  <2>7. CASE FlushContextFlags(t) BY <1>2, <2>7, FlushContextFacts DEF ContextFlushed
  <2>8. CASE Settle(t) BY <1>2, <2>8, SettleFacts DEF Settled
  <2>9. CASE try_unlock(t)
    BY <1>2, <2>9, UnlockedFacts, KeptLockedFacts DEF Unlocked, KeptLocked
  <2>10. CASE AddToQueue(t) BY <2>10, IdleType DEF AddToQueue
  <2> QED BY <2>1, <2>2, <2>3, <2>4, <2>5, <2>6, <2>7, <2>8, <2>9, <2>10 DEF Step, Finish
<1> QED BY <1>3, <1>4, IdleType

\* What a thread sends next has a larger number than what it has sent.
LEMMA SendNumber ==
  ASSUME Base, NumberInv, NEW t \in Threads, Send(t)
  PROVE  /\ NumberInv' /\ exec'[t].packet = Head(todo[t]) /\ todo' = [todo EXCEPT ![t] = Tail(@)]
         /\ \A u \in Threads \ {t} : exec'[u] = exec[u]
<1> DEFINE s == todo[t]
<1>1. s \in Seq(PacketType) /\ s # <<>> BY DEF Base, TypeInv, Send
<1>2. Head(s) \in PacketType BY <1>1
<1>3. PICK r \in ExecType : Constructed(t, FALSE, Head(s), r)
  BY Zenon, <1>2, ConstructFacts DEF Base, Send
<1>4. exec' = [exec EXCEPT ![t] = r] /\ r.packet = Head(s) BY <1>3 DEF Constructed
<1>5. todo' = [todo EXCEPT ![t] = Tail(s)] BY DEF Send
<1>6. \A u \in Threads : /\ exec'[u] = IF u = t THEN r ELSE exec[u]
                         /\ todo'[u] = IF u = t THEN Tail(s) ELSE todo[u]
  BY <1>4, <1>5 DEF Base, TypeInv
<1>7. \A j \in DOMAIN Tail(s) : j \in Nat /\ j + 1 \in DOMAIN s /\ Tail(s)[j] = s[j + 1]
  BY <1>1
<1>8. 1 \in DOMAIN s /\ Head(s) = s[1] BY <1>1
<1>9. Numbered(t, s) BY DEF NumberInv, NumberOK
<1>10. NumberOK(t, Head(s), Tail(s))
  <2>1. Numbered(t, Tail(s))
    <3> SUFFICES ASSUME NEW j \in DOMAIN Tail(s), Tail(s)[j].no > 0
                 PROVE  /\ Tail(s)[j].from = t
                        /\ \A k \in DOMAIN Tail(s) : j < k /\ Tail(s)[k].no > 0 =>
                             Tail(s)[j].no < Tail(s)[k].no
      BY DEF Numbered
    <3>1. j + 1 \in DOMAIN s /\ s[j + 1].no > 0 /\ Tail(s)[j] = s[j + 1] BY <1>7
    <3>2. s[j + 1].from = t /\ \A k \in DOMAIN s : j + 1 < k /\ s[k].no > 0 => s[j + 1].no < s[k].no
      BY <1>9, <3>1 DEF Numbered
    <3>3. ASSUME NEW k \in DOMAIN Tail(s), j < k, Tail(s)[k].no > 0
          PROVE  Tail(s)[j].no < Tail(s)[k].no
      <4>1. k + 1 \in DOMAIN s /\ s[k + 1].no > 0 /\ Tail(s)[k] = s[k + 1] /\ j + 1 < k + 1
        BY <1>7, <3>3
      <4> QED BY <3>1, <3>2, <4>1
    <3> QED BY <3>1, <3>2, <3>3
  <2>2. Head(s).no > 0 => /\ Head(s).from = t
                          /\ \A k \in DOMAIN s : 1 < k /\ s[k].no > 0 => s[1].no < s[k].no
    BY <1>8, <1>9 DEF Numbered
  <2>3. \A j \in DOMAIN Tail(s) : j + 1 \in DOMAIN s /\ 1 < j + 1 /\ Tail(s)[j] = s[j + 1]
    BY <1>1, <1>7
  <2> QED BY <1>8, <2>1, <2>2, <2>3 DEF NumberOK
<1>11. \A u \in Threads : NumberOK(u, exec'[u].packet, todo'[u])
  BY <1>4, <1>6, <1>10 DEF NumberInv
<1> QED BY <1>4, <1>5, <1>6, <1>11 DEF NumberInv

\* The numbers are those of the plan.
LEMMA InitNumber == Init => NumberInv
<1> SUFFICES ASSUME Init, NEW t \in Threads PROVE NumberOK(t, exec[t].packet, todo[t])
  BY DEF NumberInv
<1>1. exec[t] = Idle /\ Idle.packet.no = 0 BY IdleType DEF Init
<1>2. Numbered(t, todo[t]) BY ExecutorConstants DEF Init
<1> QED BY <1>1, <1>2 DEF NumberOK

\* An executor that is made without a message.
LEMMA NoMessage ==
  ASSUME Base, NEW t \in Threads, NEW fq \in BOOLEAN, NEW p \in {NoPacket, AlarmPacket},
         Construct(t, fq, p)
  PROVE  \E r \in ExecType : exec' = [exec EXCEPT ![t] = r] /\ ~(r.packet.no > 0)
<1>1. NoPacket \in PacketType /\ ~(NoPacket.no > 0) BY IdleType
<1>2. AlarmPacket \in PacketType /\ ~(AlarmPacket.no > 0)
  BY DEF AlarmPacket, PacketType, Threads
<1>3. p \in PacketType /\ ~(p.no > 0) BY <1>1, <1>2
<1> QED BY <1>3, ConstructFacts DEF Base, Constructed

\* Every step keeps the numbers in order.
LEMMA NextNumber == Base /\ NumberInv /\ [Next]_vars => NumberInv'
\* A step that leaves nothing to send, or keeps what it was.
<1>NumberKept.
  ASSUME Base, NumberInv, NEW t \in Threads, NEW r, exec' = [exec EXCEPT ![t] = r], todo' = todo,
         r.packet.no > 0 => r.packet = exec[t].packet
  PROVE  NumberInv'
  <2> USE <1>NumberKept
  <2>1. \A u \in Threads : exec'[u] = IF u = t THEN r ELSE exec[u] BY DEF Base, TypeInv
  <2>2. \A u \in Threads : NumberOK(u, exec[u].packet, todo[u]) BY DEF NumberInv
  <2>3. NumberOK(t, r.packet, todo[t]) BY <2>2 DEF NumberOK
  <2>4. \A u \in Threads : NumberOK(u, exec'[u].packet, todo'[u]) BY <2>1, <2>2, <2>3
  <2> QED BY <2>4 DEF NumberInv
<1> SUFFICES ASSUME Base, NumberInv, [Next]_vars PROVE NumberInv' OBVIOUS
<1>1. ASSUME NEW t \in Threads, Send(t) PROVE NumberInv' BY <1>1, SendNumber
<1>2. ASSUME NEW t \in Threads, PopActor(t) PROVE NumberInv'
  BY Zenon, <1>2, NoMessage, <1>NumberKept DEF PopActor
<1>3. ASSUME NEW t \in Threads, Step(t) PROVE NumberInv'
  BY <1>3, StepPacket, <1>NumberKept, IdleType
<1>4. CASE IoAlarmDue
  <2>1. io \in Threads BY DEF Threads
  <2> QED BY Zenon, <1>4, <2>1, NoMessage, <1>NumberKept DEF IoAlarmDue
<1>5. CASE UNCHANGED <<exec, todo>> BY <1>5 DEF NumberInv
<1> QED BY <1>1, <1>2, <1>3, <1>4, <1>5 DEF Next, vars, IoAlarmChanged, Tick

-----------------------------------------------------------------------------
(* Messages are not forgotten                                              *)

\* Who sees to it that the mailbox is read: an owner that has the Message
\* signal, the signal in a word that somebody will read, or a sender that is
\* about to add it.  An owner that has closed the actor and cleared the mailbox
\* does not.
OwnerCovers(e) ==
  /\ e.own_lock
  /\ "Message" \in (IF e.pc \in {"signals", "messages"} THEN e.signals
                                                      ELSE e.pending \cup e.flags.signals)
  /\ ~(e.pc = "unlock" /\ e.flags.closed)
WordCovers == "Message" \in word.signals /\ (word.locked \/ word.in_queue)
SenderCovers(e) == e.pc = "finish" /\ "Message" \in e.pending
Covered(from) ==
  WordCovers \/ SenderCovers(exec[from]) \/ \E t \in Threads : OwnerCovers(exec[t])

\* The same for the messages that an owner has moved to the reader.
OwnerReads(e) ==
  /\ e.own_lock
  /\ "Message" \in e.signals \cup e.pending \cup e.flags.signals
  /\ ~(e.pc = "unlock" /\ e.flags.closed)
WordReads == ~word.locked /\ "Message" \in word.signals /\ word.in_queue

CoverInv ==
  /\ \A p \in Range(mailbox) : Covered(p.from)
  /\ reader # <<>> => WordReads \/ \E t \in Threads : OwnerReads(exec[t])

\* A step of t, after which r is its record, leaves no message alone: what is
\* new in the mailbox is its own, and what it knows goes to the word or to r.
MailKept(t, r) ==
  \A p \in Range(mailbox') : p \in Range(mailbox) \/ (p.from = t /\ SenderCovers(r))
MailHanded(t, r) ==
  mailbox' # <<>> =>
    /\ WordCovers => WordCovers' \/ OwnerCovers(r)
    /\ SenderCovers(exec[t]) => SenderCovers(r) \/ WordCovers' \/ OwnerCovers(r)
    /\ OwnerCovers(exec[t]) => WordCovers' \/ OwnerCovers(r)
ReaderHanded(t, r) ==
  reader' # <<>> =>
    \/ OwnerReads(r)
    \/ /\ reader # <<>>
       /\ WordReads => WordReads' \/ OwnerReads(r)
       /\ OwnerReads(exec[t]) => WordReads' \/ OwnerReads(r)

\* An executor that neither owns the lock nor is about to add signals covers nothing.
LEMMA CoversNothing ==
  ASSUME NEW e, ~e.own_lock, e.pc # "finish"
  PROVE  ~SenderCovers(e) /\ ~OwnerCovers(e) /\ ~OwnerReads(e)
  BY DEF SenderCovers, OwnerCovers, OwnerReads

\* The elements of a sequence and of what is made of it.
LEMMA RangeAppend ==
  ASSUME NEW S, NEW s \in Seq(S), NEW x \in S
  PROVE  Range(Append(s, x)) = Range(s) \cup {x}
<1>1. DOMAIN Append(s, x) = 1 .. (Len(s) + 1) /\ DOMAIN s = 1 .. Len(s) /\ Len(s) \in Nat OBVIOUS
<1>2. \A k \in 1 .. Len(s) : Append(s, x)[k] = s[k] OBVIOUS
<1>3. Append(s, x)[Len(s) + 1] = x OBVIOUS
<1>4. ASSUME NEW k \in 1 .. (Len(s) + 1) PROVE Append(s, x)[k] \in Range(s) \cup {x}
  <2>1. CASE k = Len(s) + 1 BY <1>3, <2>1
  <2>2. CASE k \in 1 .. Len(s) BY <1>1, <1>2, <2>2 DEF Range
  <2> QED BY <1>1, <2>1, <2>2
<1>5. \A k \in 1 .. Len(s) : s[k] \in Range(Append(s, x))
  <2>1. \A k \in 1 .. Len(s) : k \in 1 .. (Len(s) + 1) BY <1>1
  <2> QED BY <1>1, <1>2, <2>1 DEF Range
<1>6. x \in Range(Append(s, x))
  <2>1. Len(s) + 1 \in 1 .. (Len(s) + 1) BY <1>1
  <2> QED BY <1>1, <1>3, <2>1 DEF Range
<1> QED BY <1>1, <1>4, <1>5, <1>6 DEF Range

\* A new actor has no message.
LEMMA InitCover == Init => CoverInv
  BY DEF Init, CoverInv, Range

\* Every step leaves every message with somebody.
LEMMA NextCover == Base /\ NumberInv /\ CoverInv /\ [Next]_vars => CoverInv'
\* Then nothing is forgotten.
<1>CoverStep.
  ASSUME Base, CoverInv, NEW t \in Threads, NEW r, exec' = [exec EXCEPT ![t] = r],
         MailKept(t, r), MailHanded(t, r), ReaderHanded(t, r)
  PROVE  CoverInv'
  <2> USE <1>CoverStep
  <2>1. \A u \in Threads : exec'[u] = IF u = t THEN r ELSE exec[u] BY DEF Base, TypeInv
  <2>2. exec'[t] = r BY <2>1
  <2>3. ASSUME NEW p \in Range(mailbox') PROVE Covered(p.from)'
    <3>0. /\ WordCovers => WordCovers' \/ OwnerCovers(r)
          /\ SenderCovers(exec[t]) => SenderCovers(r) \/ WordCovers' \/ OwnerCovers(r)
          /\ OwnerCovers(exec[t]) => WordCovers' \/ OwnerCovers(r)
      BY <2>3 DEF MailHanded, Range
    <3>1. CASE p.from = t /\ SenderCovers(r) BY <2>2, <3>1 DEF Covered
    <3>2. CASE p \in Range(mailbox)
      <4>1. WordCovers \/ SenderCovers(exec[p.from]) \/ \E u \in Threads : OwnerCovers(exec[u])
        BY <3>2 DEF CoverInv, Covered
      <4>2. WordCovers' \/ SenderCovers(exec'[p.from]) \/ \E u \in Threads : OwnerCovers(exec'[u])
        <5>1. p.from \in Threads
          <6>1. mailbox \in Seq(PacketType) BY DEF Base, TypeInv
          <6>2. p \in PacketType BY <3>2, <6>1 DEF Range
          <6> QED BY <6>2 DEF PacketType
        <5>2. CASE WordCovers BY <2>2, <3>0, <5>2
        <5>3. CASE SenderCovers(exec[p.from])
          <6>1. CASE p.from = t BY <2>2, <3>0, <5>3, <6>1
          <6>2. CASE p.from # t BY <2>1, <5>1, <5>3, <6>2
          <6> QED BY <6>1, <6>2
        <5>4. CASE \E u \in Threads : OwnerCovers(exec[u])
          <6>1. PICK u \in Threads : OwnerCovers(exec[u]) BY <5>4
          <6>2. CASE u = t BY <2>2, <3>0, <6>1, <6>2
          <6>3. CASE u # t BY <2>1, <6>1, <6>3
          <6> QED BY <6>2, <6>3
        <5> QED BY <4>1, <5>2, <5>3, <5>4
      <4> QED BY <4>2 DEF Covered
    <3> QED BY <2>3, <3>1, <3>2 DEF MailKept
  <2>4. ASSUME reader' # <<>> PROVE WordReads' \/ \E u \in Threads : OwnerReads(exec'[u])
    <3>1. CASE OwnerReads(r) BY <2>2, <3>1
    <3>2. CASE /\ reader # <<>>
               /\ WordReads => WordReads' \/ OwnerReads(r)
               /\ OwnerReads(exec[t]) => WordReads' \/ OwnerReads(r)
      <4>1. CASE WordReads BY <2>2, <3>2, <4>1
      <4>2. CASE \E u \in Threads : OwnerReads(exec[u])
        <5>1. PICK u \in Threads : OwnerReads(exec[u]) BY <4>2
        <5>2. CASE u = t BY <2>2, <3>2, <5>1, <5>2
        <5>3. CASE u # t BY <2>1, <5>1, <5>3
        <5> QED BY <5>2, <5>3
      <4> QED BY <3>2, <4>1, <4>2 DEF CoverInv
    <3> QED BY <2>4, <3>1, <3>2 DEF ReaderHanded
  <2> QED BY <2>3, <2>4 DEF CoverInv

\* A step of t that keeps the word and the messages.
<1>CoverKept.
  ASSUME Base, CoverInv, NEW t \in Threads, NEW r, exec' = [exec EXCEPT ![t] = r],
         UNCHANGED <<word, mailbox, reader>>,
         SenderCovers(exec[t]) => SenderCovers(r) \/ OwnerCovers(r),
         OwnerCovers(exec[t]) => OwnerCovers(r),
         OwnerReads(exec[t]) => OwnerReads(r)
  PROVE  CoverInv'
  <2> USE <1>CoverKept
  <2>1. (WordCovers' <=> WordCovers) /\ (WordReads' <=> WordReads) BY DEF WordCovers, WordReads
  <2>2. MailKept(t, r) BY DEF MailKept
  <2>3. MailHanded(t, r) BY <2>1 DEF MailHanded
  <2>4. ReaderHanded(t, r) BY <2>1 DEF ReaderHanded
  <2> QED BY Zenon, <2>2, <2>3, <2>4, <1>CoverStep

\* A new executor leaves the mailbox to those who saw to it.
<1>ConstructCover.
  ASSUME Base, CoverInv, NEW t \in Threads, NEW fq \in BOOLEAN, NEW p \in PacketType,
         Construct(t, fq, p), exec[t].pc = "idle", UNCHANGED <<word, mailbox, reader>>
  PROVE  CoverInv'
  <2> USE <1>ConstructCover
  <2>1. PICK r \in ExecType : Constructed(t, fq, p, r) BY ConstructFacts DEF Base
  <2>2. ~exec[t].own_lock BY DEF Base, LockInv, OwnerOK
  <2>3. ~SenderCovers(exec[t]) /\ ~OwnerCovers(exec[t]) /\ ~OwnerReads(exec[t])
    BY <2>2, CoversNothing
  <2> QED BY Zenon, <2>1, <2>3, <1>CoverKept DEF Constructed

\* Another value is loaded.
<1>ReloadCover.
  ASSUME Base, CoverInv, NEW t \in Threads, Reload(t), ~exec[t].own_lock,
         UNCHANGED <<mailbox, reader>>
  PROVE  CoverInv'
  <2> USE <1>ReloadCover
  <2>1. PICK r \in ExecType : Reloaded(t, r) BY ReloadFacts DEF Base
  <2>2. SenderCovers(exec[t]) => SenderCovers(r) BY <2>1 DEF Reloaded, SenderCovers
  <2>3. ~OwnerCovers(exec[t]) /\ ~OwnerReads(exec[t]) BY DEF OwnerCovers, OwnerReads
  <2> QED BY Zenon, <2>1, <2>2, <2>3, <1>CoverKept DEF Reloaded

\* start(): the new owner takes the signals of the word.
<1>StartCover.
  ASSUME Base, CoverInv, NEW t \in Threads, Start(t)
  PROVE  CoverInv'
  <2> USE <1>StartCover
  <2> DEFINE e == exec[t]
  <2>1. e.pc = "lock" /\ ~e.own_lock /\ UNCHANGED <<mailbox, reader>>
    BY DEF Start, Base, LockInv, OwnerOK
  <2>2. ~SenderCovers(e) /\ ~OwnerCovers(e) /\ ~OwnerReads(e) BY <2>1, CoversNothing
  <2>3. CASE exec' = [exec EXCEPT ![t] = Started(e)] /\ word' = word
    BY Zenon, <2>1, <2>2, <2>3, <1>CoverKept
  <2>4. CASE Reload(t) BY <2>1, <2>4, <1>ReloadCover
  <2>5. CASE ~can_try_add_signals(t) /\ word = e.flags
    <3>1. PICK r \in ExecType : TookLock(t, r) BY <2>5, LockFacts DEF Base
    <3>2. "Message" \in word.signals => OwnerCovers(r) /\ OwnerReads(r)
      BY <3>1 DEF TookLock, OwnerCovers, OwnerReads
    <3>3. MailKept(t, r) BY <2>1 DEF MailKept
    <3>4. MailHanded(t, r) BY <2>2, <3>2 DEF MailHanded, WordCovers
    <3>5. ReaderHanded(t, r) BY <2>1, <2>2, <3>2 DEF ReaderHanded, WordReads
    <3> QED BY Zenon, <3>1, <3>3, <3>4, <3>5, <1>CoverStep DEF TookLock
  <2> QED BY <2>3, <2>4, <2>5 DEF Start

\* flush_one_signal: a Message signal moves the mailbox to the reader and stays
\* pending until the reader is empty.
<1>FlushSignalCover.
  ASSUME Base, CoverInv, NEW t \in Threads, FlushSignal(t)
  PROVE  CoverInv'
  <2> USE <1>FlushSignalCover
  <2> DEFINE e == exec[t]
  <2>1. PICK name, r : r \in ExecType /\ SignalDone(t, name, r) BY FlushSignalFacts DEF Base
  <2>2. /\ exec' = [exec EXCEPT ![t] = r] /\ e.pc = "signals" /\ name \in e.signals
        /\ GoesOn(e, r, "signals", e.signals \ {name},
                  IF name = "Message" THEN e.pending \cup {"Message"} ELSE e.pending)
    BY <2>1 DEF SignalDone
  <2>3. e.own_lock /\ word' = word BY <2>2 DEF FlushSignal, Base, LockInv, OwnerOK
  <2>4. Same(e, r) /\ r.pc \in {"signals", "send"} BY <2>2 DEF GoesOn, Stopped
  <2>5. CASE name = "Message"
    <3>1. OwnerReads(r) BY <2>2, <2>3, <2>4, <2>5 DEF GoesOn, Stopped, Same, OwnerReads
    <3>2. mailbox' = <<>> BY <2>1, <2>5 DEF SignalDone
    <3>3. MailKept(t, r) BY <3>2 DEF MailKept, Range
    <3>4. MailHanded(t, r) /\ ReaderHanded(t, r) BY <3>1, <3>2 DEF MailHanded, ReaderHanded
    <3> QED BY Zenon, <2>2, <3>3, <3>4, <1>CoverStep
  <2>6. CASE name # "Message"
    <3>1. OwnerCovers(e) => OwnerCovers(r)
      BY <2>2, <2>3, <2>4, <2>6 DEF GoesOn, Stopped, Same, OwnerCovers
    <3>2. OwnerReads(e) => OwnerReads(r)
      BY <2>2, <2>3, <2>4, <2>6 DEF GoesOn, Stopped, Same, OwnerReads
    <3>3. ~SenderCovers(e) BY <2>2 DEF SenderCovers
    <3>4. UNCHANGED <<mailbox, reader>> BY <2>1, <2>6 DEF SignalDone
    <3> QED BY Zenon, <2>2, <2>3, <3>1, <3>2, <3>3, <3>4, <1>CoverKept
  <2> QED BY <2>5, <2>6

\* The owner has no signal left.
<1>SignalsFlushedCover.
  ASSUME Base, CoverInv, NEW t \in Threads, SignalsFlushed(t)
  PROVE  CoverInv'
  <2> USE <1>SignalsFlushedCover
  <2>1. PICK r \in ExecType :
          /\ exec' = [exec EXCEPT ![t] = r] /\ r.pc = "messages"
          /\ Same(exec[t], r) /\ r.flags = exec[t].flags /\ r.packet = exec[t].packet
          /\ r.signals = exec[t].signals /\ r.pending = exec[t].pending
    BY SignalsFlushedBase
  <2>2. exec[t].pc = "signals" /\ exec[t].signals = {} /\ UNCHANGED <<word, mailbox, reader>>
    BY DEF SignalsFlushed
  <2>3. ~SenderCovers(exec[t]) /\ ~OwnerCovers(exec[t]) BY <2>2 DEF SenderCovers, OwnerCovers
  <2>4. OwnerReads(exec[t]) => OwnerReads(r) BY <2>1 DEF Same, OwnerReads
  <2> QED BY Zenon, <2>1, <2>2, <2>3, <2>4, <1>CoverKept

\* flush_one_message: the Message signal goes when the reader is empty.
<1>FlushMessageCover.
  ASSUME Base, CoverInv, NEW t \in Threads, FlushMessage(t)
  PROVE  CoverInv'
  <2> USE <1>FlushMessageCover
  <2> DEFINE e == exec[t]
  <2>1. PICK r \in ExecType : MessageDone(t, r) BY FlushMessageFacts DEF Base
  <2>2. exec' = [exec EXCEPT ![t] = r] /\ e.pc = "messages" BY <2>1 DEF MessageDone
  <2>3. e.signals = {} /\ e.own_lock /\ UNCHANGED <<word, mailbox>>
    BY <2>2 DEF FlushMessage, Base, LockInv, StageInv, OwnerOK, StageOK
  <2>4. ~SenderCovers(e) /\ ~OwnerCovers(e) BY <2>2, <2>3 DEF SenderCovers, OwnerCovers
  <2>5. (WordCovers' <=> WordCovers) /\ (WordReads' <=> WordReads) BY <2>3 DEF WordCovers, WordReads
  <2>6. MailKept(t, r) /\ MailHanded(t, r) BY <2>3, <2>4, <2>5 DEF MailKept, MailHanded
  <2>7. reader # <<>> /\ OwnerReads(e) => OwnerReads(r)
    BY Zenon, <2>1 DEF MessageDone, GoesOn, Stopped, Same, OwnerReads
  <2>8. reader = <<>> => reader' = <<>> BY <2>1 DEF MessageDone
  <2>9. ReaderHanded(t, r) BY <2>5, <2>7, <2>8 DEF ReaderHanded
  <2> QED BY Zenon, <2>2, <2>6, <2>9, <1>CoverStep

\* send(): whoever leaves a message is about to add the signal.
<1>SendMessageCover.
  ASSUME Base, NumberInv, CoverInv, NEW t \in Threads, SendMessage(t)
  PROVE  CoverInv'
  <2> USE <1>SendMessageCover
  <2> DEFINE e == exec[t]
  <2>1. PICK r \in ExecType : MessageSent(t, r) BY SendMessageFacts DEF Base
  <2>2. /\ exec' = [exec EXCEPT ![t] = r] /\ e.pc = "send" /\ r.pc = "finish" /\ Same(e, r)
        /\ r.signals = e.signals /\ r.flags = e.flags /\ e.pending \subseteq r.pending
        /\ mailbox' # mailbox => e.packet.no > 0 /\ "Message" \in r.pending
                                 /\ mailbox' = Append(mailbox, e.packet)
        /\ reader' # reader => e.own_lock /\ "Message" \in r.pending
    BY <2>1 DEF MessageSent, can_send_immediate
  <2>3. word' = word BY DEF SendMessage
  <2>4. (WordCovers' <=> WordCovers) /\ (WordReads' <=> WordReads) BY <2>3 DEF WordCovers, WordReads
  <2>5. OwnerCovers(e) => OwnerCovers(r) BY <2>2 DEF OwnerCovers, Same
  <2>6. OwnerReads(e) => OwnerReads(r) BY <2>2 DEF OwnerReads, Same
  <2>7. ~SenderCovers(e) BY <2>2 DEF SenderCovers
  <2>8. MailKept(t, r)
    <3>1. CASE mailbox' = mailbox BY <3>1 DEF MailKept
    <3>2. CASE mailbox' # mailbox
      <4>1. mailbox \in Seq(PacketType) /\ e.packet \in PacketType BY DEF Base, TypeInv, ExecType
      <4>2. Range(mailbox') = Range(mailbox) \cup {e.packet}
        <5>1. Range(Append(mailbox, e.packet)) = Range(mailbox) \cup {e.packet}
          BY <4>1, RangeAppend
        <5> QED BY Zenon, <2>2, <3>2, <5>1
      <4>3. e.packet.from = t BY <2>2, <3>2 DEF NumberInv, NumberOK
      <4>4. SenderCovers(r) BY <2>2, <3>2 DEF SenderCovers
      <4> QED BY <4>2, <4>3, <4>4 DEF MailKept
    <3> QED BY <3>1, <3>2
  <2>9. MailHanded(t, r) BY <2>4, <2>5, <2>7 DEF MailHanded
  <2>10. ReaderHanded(t, r)
    <3>1. CASE reader' = reader BY <2>4, <2>6, <3>1 DEF ReaderHanded
    <3>2. CASE reader' # reader
      <4>1. OwnerReads(r) BY <2>2, <3>2 DEF OwnerReads, Same
      <4> QED BY <4>1 DEF ReaderHanded
    <3> QED BY <3>1, <3>2
  <2> QED BY Zenon, <2>2, <2>8, <2>9, <2>10, <1>CoverStep

\* add_signals: the signal is in a word that is locked or queued, or with the lock.
<1>AddSignalsCover.
  ASSUME Base, CoverInv, NEW t \in Threads, AddSignals(t)
  PROVE  CoverInv'
  <2> USE <1>AddSignalsCover
  <2> DEFINE e == exec[t]
  <2>1. e.pc = "finish" /\ ~e.own_lock /\ UNCHANGED <<mailbox, reader>> /\ word \in FlagsType
    BY DEF AddSignals, Base, TypeInv
  <2>2. ~OwnerCovers(e) /\ ~OwnerReads(e) BY <2>1 DEF OwnerCovers, OwnerReads
  <2>3. CASE e.pending = {} /\ exec' = [exec EXCEPT ![t] = Idle] /\ word' = word
    <3>1. ~SenderCovers(e) BY <2>3 DEF SenderCovers
    <3> QED BY Zenon, <2>1, <2>2, <2>3, <3>1, <1>CoverKept
  <2>4. CASE Reload(t) BY <2>1, <2>4, <1>ReloadCover
  <2>5. CASE /\ can_try_add_signals(t) /\ word = e.flags
             /\ word' = [word EXCEPT !.signals = @ \cup e.pending]
             /\ exec' = [exec EXCEPT ![t] = Idle]
    <3>1. /\ word'.locked = word.locked /\ word'.in_queue = word.in_queue
          /\ word'.signals = word.signals \cup e.pending
      BY <2>1, <2>5 DEF FlagsType
    <3>2. word.locked \/ word.in_queue BY <2>5 DEF can_try_add_signals
    <3>3. (WordCovers => WordCovers') /\ (WordReads => WordReads')
      BY <3>1 DEF WordCovers, WordReads
    <3>4. SenderCovers(e) => WordCovers' BY <3>1, <3>2 DEF SenderCovers, WordCovers
    <3>5. MailKept(t, Idle) BY <2>1 DEF MailKept
    <3>6. MailHanded(t, Idle) BY <2>2, <3>3, <3>4 DEF MailHanded
    <3>7. ReaderHanded(t, Idle) BY <2>1, <2>2, <3>3 DEF ReaderHanded
    <3> QED BY Zenon, <2>5, <3>5, <3>6, <3>7, <1>CoverStep
  <2>6. CASE /\ ~can_try_add_signals(t) /\ word = e.flags /\ word' = Locked(word)
             /\ exec' = [exec EXCEPT ![t] =
                  [e EXCEPT !.own_lock = TRUE, !.new_flags = Locked(e.flags),
                            !.flags.signals = @ \cup e.pending, !.pending = {}, !.pc = "settle"]]
    <3>1. PICK r \in ExecType : AddedLocked(t, r) BY Zenon, <2>6, AddLockedFacts DEF Base
    <3>2. "Message" \in word.signals \/ "Message" \in e.pending => OwnerCovers(r) /\ OwnerReads(r)
      BY <2>6, <3>1 DEF AddedLocked, OwnerCovers, OwnerReads
    <3>3. MailKept(t, r) BY <2>1 DEF MailKept
    <3>4. MailHanded(t, r) BY <2>2, <3>2 DEF MailHanded, WordCovers, SenderCovers
    <3>5. ReaderHanded(t, r) BY <2>1, <2>2, <3>2 DEF ReaderHanded, WordReads
    <3> QED BY Zenon, <3>1, <3>3, <3>4, <3>5, <1>CoverStep DEF AddedLocked
  <2> QED BY <2>3, <2>4, <2>5, <2>6 DEF AddSignals

\* flush_context_flags: the pending signals join those of the owner.
<1>FlushContextFlagsCover.
  ASSUME Base, CoverInv, NEW t \in Threads, FlushContextFlags(t)
  PROVE  CoverInv'
  <2> USE <1>FlushContextFlagsCover
  <2> DEFINE e == exec[t]
  <2>1. PICK r \in ExecType : \E added : ContextFlushed(t, added, r) BY FlushContextFacts DEF Base
  <2>2. PICK added : ContextFlushed(t, added, r) BY <2>1
  <2>3. e.pc = "finish" /\ e.own_lock /\ exec' = [exec EXCEPT ![t] = r] BY <2>2 DEF ContextFlushed
  <2>4. e.signals = {} /\ UNCHANGED <<word, mailbox, reader>>
    BY <2>3 DEF FlushContextFlags, Base, StageInv, StageOK
  <2>5. "Message" \in e.pending \cup e.flags.signals => OwnerCovers(r) /\ OwnerReads(r)
    BY <2>2 DEF ContextFlushed, OwnerCovers, OwnerReads
  <2>6. (SenderCovers(e) => OwnerCovers(r)) /\ (OwnerCovers(e) => OwnerCovers(r))
    BY <2>3, <2>5 DEF SenderCovers, OwnerCovers
  <2>7. OwnerReads(e) => OwnerReads(r) BY <2>4, <2>5 DEF OwnerReads
  <2> QED BY Zenon, <2>3, <2>4, <2>6, <2>7, <1>CoverKept

\* The loop of finish(): what the closing owner leaves uncovered it clears.
<1>SettleCover.
  ASSUME Base, CoverInv, NEW t \in Threads, exec[t].pc = "settle", Settle(t), word' = word
  PROVE  CoverInv'
  <2> USE <1>SettleCover
  <2> DEFINE e == exec[t]
  <2>1. PICK r \in ExecType, add \in BOOLEAN : Settled(t, add, r) BY SettleFacts DEF Base
  <2>2. exec' = [exec EXCEPT ![t] = r] BY <2>1 DEF Settled
  <2>3. CASE e.flags.closed
    <3>1. mailbox' = <<>> /\ reader' = <<>> BY <2>1, <2>3 DEF Settled
    <3>2. MailKept(t, r) BY <3>1 DEF MailKept, Range
    <3>3. MailHanded(t, r) /\ ReaderHanded(t, r) BY <3>1 DEF MailHanded, ReaderHanded
    <3> QED BY Zenon, <2>2, <3>2, <3>3, <1>CoverStep
  <2>4. CASE ~e.flags.closed
    <3>1. UNCHANGED <<mailbox, reader>> BY <2>1, <2>4 DEF Settled
    <3>2. ~SenderCovers(e) BY DEF SenderCovers
    <3>3. OwnerCovers(e) => OwnerCovers(r) BY <2>1, <2>4 DEF Settled, OwnerCovers
    <3>4. OwnerReads(e) => OwnerReads(r) BY <2>1, <2>4 DEF Settled, OwnerReads
    <3> QED BY Zenon, <2>2, <3>1, <3>2, <3>3, <3>4, <1>CoverKept
  <2> QED BY <2>3, <2>4

\* try_unlock: an actor with messages is in the queue when it is unlocked.
<1>UnlockCover.
  ASSUME Base, CoverInv, NEW t \in Threads, exec[t].pc = "unlock", try_unlock(t),
         UNCHANGED <<mailbox, reader>>
  PROVE  CoverInv'
  <2> USE <1>UnlockCover
  <2> DEFINE e == exec[t]
  <2>1. e \in ExecType /\ e.flags \in FlagsType /\ OwnerOK(e) /\ StageOK(t, e) /\ word \in FlagsType
    BY DEF Base, TypeInv, LockInv, StageInv, ExecType
  <2>2. /\ e.own_lock /\ ~e.flags.locked /\ e.new_flags = Locked(word)
        /\ e.signals = {} /\ e.pending = {}
        /\ ~e.flags.closed /\ e.flags.signals # {} => e.flags.in_queue
    BY <2>1 DEF OwnerOK, StageOK
  <2>3. OwnerCovers(e) \/ OwnerReads(e) => "Message" \in e.flags.signals /\ ~e.flags.closed
    BY <2>2 DEF OwnerCovers, OwnerReads
  <2>4. ~SenderCovers(e) BY DEF SenderCovers
  <2>5. CASE word = e.new_flags
    <3>1. PICK r \in ExecType : Unlocked(t, r) BY <2>5, UnlockedFacts DEF Base
    <3>2. exec' = [exec EXCEPT ![t] = r] /\ word' = e.flags BY <3>1 DEF Unlocked
    <3>3. word.signals = {} BY <2>1, <2>2, <2>5, LockedType
    <3>4. ~WordCovers /\ ~WordReads BY <3>3 DEF WordCovers, WordReads
    <3>5. OwnerCovers(e) \/ OwnerReads(e) => WordCovers' /\ WordReads'
      BY <2>2, <2>3, <3>2 DEF WordCovers, WordReads
    <3>6. MailKept(t, r) BY DEF MailKept
    <3>7. MailHanded(t, r) BY <2>4, <3>4, <3>5 DEF MailHanded
    <3>8. ReaderHanded(t, r) BY <3>4, <3>5 DEF ReaderHanded
    <3> QED BY Zenon, <3>2, <3>6, <3>7, <3>8, <1>CoverStep
  <2>6. CASE word # e.new_flags
    <3>1. PICK r \in ExecType : KeptLocked(t, r) BY <2>6, KeptLockedFacts DEF Base
    <3>2. exec' = [exec EXCEPT ![t] = r] BY <3>1 DEF KeptLocked
    <3>3. "Message" \in word.signals \/ "Message" \in e.flags.signals => OwnerCovers(r) /\ OwnerReads(r)
      BY <2>2, <3>1 DEF KeptLocked, OwnerCovers, OwnerReads
    <3>4. MailKept(t, r) BY DEF MailKept
    <3>5. MailHanded(t, r) BY <2>3, <2>4, <3>3 DEF MailHanded, WordCovers
    <3>6. ReaderHanded(t, r) BY <2>3, <3>3 DEF ReaderHanded, WordReads
    <3> QED BY Zenon, <3>2, <3>4, <3>5, <3>6, <1>CoverStep
  <2> QED BY <2>5, <2>6

\* dispatcher_.add_to_queue
<1>AddToQueueCover.
  ASSUME Base, CoverInv, NEW t \in Threads, AddToQueue(t)
  PROVE  CoverInv'
  <2> USE <1>AddToQueueCover
  <2>1. exec[t].pc = "enqueue" /\ ~exec[t].own_lock BY DEF AddToQueue, Base, LockInv, OwnerOK
  <2>2. ~SenderCovers(exec[t]) /\ ~OwnerCovers(exec[t]) /\ ~OwnerReads(exec[t])
    BY <2>1, CoversNothing
  <2> QED BY Zenon, <2>2, <1>CoverKept DEF AddToQueue
<1> SUFFICES ASSUME Base, NumberInv, CoverInv, [Next]_vars PROVE CoverInv' OBVIOUS
<1>1. ASSUME NEW t \in Threads, Send(t) PROVE CoverInv'
  <2>1. Head(todo[t]) \in PacketType BY <1>1 DEF Send, Base, TypeInv
  <2> QED BY Zenon, <1>1, <2>1, <1>ConstructCover DEF Send
<1>2. ASSUME NEW t \in Threads, PopActor(t) PROVE CoverInv'
  BY Zenon, <1>2, IdleType, <1>ConstructCover DEF PopActor
<1>3. ASSUME NEW t \in Threads, Finish(t) PROVE CoverInv'
  BY <1>3, <1>SettleCover, <1>UnlockCover DEF Finish
<1>4. ASSUME NEW t \in Threads, Step(t) PROVE CoverInv'
  BY <1>3, <1>4, <1>StartCover, <1>FlushSignalCover, <1>SignalsFlushedCover, <1>FlushMessageCover,
     <1>SendMessageCover, <1>AddSignalsCover, <1>FlushContextFlagsCover, <1>AddToQueueCover DEF Step
<1>5. CASE IoAlarmDue
  <2>1. AlarmPacket \in PacketType /\ io \in Threads BY DEF AlarmPacket, PacketType, Threads
  <2> QED BY Zenon, <1>5, <2>1, <1>ConstructCover DEF IoAlarmDue
<1>6. CASE UNCHANGED <<word, mailbox, reader, exec>>
  BY <1>6 DEF CoverInv, Covered, WordCovers, WordReads
<1> QED BY <1>1, <1>2, <1>4, <1>5, <1>6 DEF Next, vars, IoAlarmChanged, Tick

\* Without an executor and a pointer nobody is left to cover anything.
LEMMA CoverLeaves == Base /\ QueueInv /\ CoverInv => NothingLeft
<1> SUFFICES ASSUME Base, QueueInv, CoverInv, Quiet
             PROVE  mailbox = <<>> /\ reader = <<>> /\ (word.closed \/ word.signals = {})
  BY DEF NothingLeft
<1>1. \A t \in Threads : exec[t].pc = "idle" /\ ~exec[t].own_lock
  BY DEF Quiet, Base, LockInv, OwnerOK
<1>2. ~word.locked BY <1>1 DEF Base, LockInv
<1>3. \A t \in Threads : ~Points(exec[t]) BY <1>1, IdleQueue DEF Points
<1>4. ~word.in_queue BY <1>2, <1>3 DEF Quiet, QueueInv, Pointer, Base, StageInv
<1>5. \A t \in Threads : ~SenderCovers(exec[t]) /\ ~OwnerCovers(exec[t]) /\ ~OwnerReads(exec[t])
  BY <1>1, CoversNothing
<1>6. ~WordCovers /\ ~WordReads BY <1>2, <1>4 DEF WordCovers, WordReads
<1>7. mailbox \in Seq(PacketType) BY DEF Base, TypeInv
<1>8. mailbox = <<>>
  <2>1. SUFFICES ASSUME mailbox # <<>> PROVE FALSE OBVIOUS
  <2>2. 1 \in DOMAIN mailbox /\ mailbox[1] \in PacketType BY <1>7, <2>1
  <2>3. mailbox[1].from \in Threads BY <2>2 DEF PacketType
  <2>4. mailbox[1] \in Range(mailbox) BY <2>2 DEF Range
  <2> QED BY <1>5, <1>6, <2>3, <2>4 DEF CoverInv, Covered
<1>9. reader = <<>> BY <1>5, <1>6 DEF CoverInv
<1>10. word.closed \/ word.signals = {} BY <1>2, <1>4 DEF QueueInv
<1> QED BY <1>8, <1>9, <1>10

\* When no executor is at work and the actor is in no queue, no message waits
\* and no signal is left unless the actor is closed: no order of send(),
\* try_lock, add_signals, try_unlock and add_to_queue loses a wakeup.
THEOREM NothingLeftAlways == Spec => []NothingLeft
  BY InitBase, NextBase, InitQueue, NextQueue, InitNumber, NextNumber, InitCover, NextCover,
     CoverLeaves, PTL DEF Spec

-----------------------------------------------------------------------------
(* start_up comes first                                                    *)

\* Until it has run, the StartUp signal is in the unlocked word or with the
\* owner of the lock.
Starts(e) == "StartUp" \in e.signals \/ "StartUp" \in e.pending \/ "StartUp" \in e.flags.signals
StartOK(e) ==
  /\ e.own_lock => (Starts(e) <=> ran = <<>>)
  /\ e.pc = "send" /\ e.executes => e.flags.signals = {}
StartInv ==
  /\ ~word.locked => ("StartUp" \in word.signals <=> ran = <<>>)
  /\ word.locked => "StartUp" \notin word.signals
  /\ \A t \in Threads : StartOK(exec[t])

\* A step of t, which has the lock, takes it or has no part in this.
LEMMA StartStep ==
  ASSUME Base, StartInv, NEW t \in Threads, NEW r, exec' = [exec EXCEPT ![t] = r], StartOK(r)',
         ran' = ran \/ exec[t].own_lock,
         ~word'.locked => ("StartUp" \in word'.signals <=> ran' = <<>>),
         word'.locked => "StartUp" \notin word'.signals
  PROVE  StartInv'
<1>1. \A u \in Threads : exec'[u] = IF u = t THEN r ELSE exec[u] BY DEF Base, TypeInv
<1>2. ASSUME NEW u \in Threads PROVE StartOK(exec[u])'
  <2>1. CASE u = t BY <1>1, <2>1 DEF StartOK
  <2>2. CASE u # t
    <3>1. ran' = ran \/ ~exec[u].own_lock BY <2>2, OwnerAlone
    <3>2. StartOK(exec[u]) BY DEF StartInv
    <3>3. exec'[u] = exec[u] BY <1>1, <2>2
    <3> QED BY <3>1, <3>2, <3>3 DEF StartOK
  <2> QED BY <2>1, <2>2
<1> QED BY <1>2 DEF StartInv

\* An owner at its messages, or that may run one at once, has run start_up.
LEMMA HasStarted ==
  ASSUME Base, StartInv, NEW t \in Threads,
         exec[t].pc = "messages" \/ (exec[t].pc = "send" /\ can_send_immediate(exec[t])
                                       /\ ~exec[t].flags.closed)
  PROVE  ran # <<>> /\ exec[t].own_lock /\ exec[t].flags.signals = {} /\ exec[t].executes
<1> DEFINE e == exec[t]
<1>1. StageOK(t, e) /\ StartOK(e) /\ OwnerOK(e) BY DEF Base, StageInv, LockInv, StartInv
<1>2. CASE e.pc = "messages" BY <1>1, <1>2 DEF StageOK, StartOK, OwnerOK, Starts
<1>3. CASE e.pc = "send" /\ can_send_immediate(e) /\ ~e.flags.closed
  BY <1>1, <1>3 DEF StageOK, StartOK, Starts, can_send_immediate
<1> QED BY <1>2, <1>3

\* flush_one_message: a message runs after start_up.
LEMMA FlushMessageStart ==
  ASSUME Base, StartInv, NEW t \in Threads, FlushMessage(t)
  PROVE  StartInv' /\ ran # <<>>
<1> DEFINE e == exec[t]
<1>1. PICK r \in ExecType : MessageDone(t, r) BY FlushMessageFacts DEF Base
<1>2. /\ \/ Stopped(e, r, e.signals, e.pending \ {"Message"})
         \/ Stopped(e, r, e.signals, e.pending)
         \/ GoesOn(e, r, "messages", e.signals, e.pending)
      /\ r.flags = e.flags /\ e.pc = "messages" /\ exec' = [exec EXCEPT ![t] = r]
      /\ ran' = ran \/ (reader # <<>> /\ ran' = Append(ran, Head(reader)))
  BY <1>1 DEF MessageDone
<1>3. ran # <<>> /\ e.own_lock /\ e.flags.signals = {} BY <1>2, HasStarted
<1>4. Starts(r) <=> Starts(e) BY <1>2 DEF GoesOn, Stopped, Starts
<1>5. ran' # <<>>
  <2>1. ran \in Seq(PacketType) /\ reader \in Seq(PacketType) BY DEF Base, TypeInv
  <2>2. reader # <<>> => Append(ran, Head(reader)) # <<>> BY <2>1
  <2> QED BY <1>2, <1>3, <2>2
<1>6. StartOK(r)'
  <2>1. StartOK(e) BY DEF StartInv
  <2> QED BY Zenon, <1>2, <1>3, <1>4, <1>5, <2>1 DEF StartOK
<1>7. word' = word /\ word.locked BY <1>3 DEF FlushMessage, Base, LockInv, OwnerOK
<1> QED BY Zenon, <1>2, <1>3, <1>5, <1>6, <1>7, StartStep DEF StartInv

\* A new actor has the StartUp signal.
LEMMA InitStart == Init => StartInv
<1> SUFFICES ASSUME Init PROVE StartInv OBVIOUS
<1>1. \A t \in Threads : exec[t] = Idle BY DEF Init
<1>2. StartOK(Idle) BY IdleType DEF StartOK
<1>3. ~word.locked /\ "StartUp" \in word.signals /\ ran = <<>> BY DEF Init
<1> QED BY <1>1, <1>2, <1>3 DEF StartInv

\* Every step keeps the StartUp signal until it is handled.
LEMMA NextStart == Base /\ StartInv /\ [Next]_vars => StartInv'
\* A step of t that leaves the word and ran alone.
<1>StartKept.
  ASSUME Base, StartInv, NEW t \in Threads, NEW r, exec' = [exec EXCEPT ![t] = r],
         UNCHANGED <<word, ran>>,
         r.own_lock => exec[t].own_lock /\ (Starts(r) <=> Starts(exec[t])),
         r.pc = "send" /\ r.executes => r.flags.signals = {}
  PROVE  StartInv'
  <2> USE <1>StartKept
  <2>1. StartOK(exec[t]) BY DEF StartInv
  <2>2. StartOK(r)' BY <2>1 DEF StartOK
  <2> QED BY Zenon, <2>2, StartStep DEF StartInv

\* Whoever takes the lock gets the StartUp signal with it.
<1>StartTaken.
  ASSUME Base, StartInv, NEW t \in Threads, NEW r, exec' = [exec EXCEPT ![t] = r],
         ~word.locked, word' = Locked(word), ran' = ran,
         Starts(r) <=> "StartUp" \in word.signals,
         r.pc = "send" /\ r.executes => r.flags.signals = {}
  PROVE  StartInv'
  <2> USE <1>StartTaken
  <2>1. word \in FlagsType BY DEF Base, TypeInv
  <2>2. word'.locked /\ word'.signals = {} BY <2>1, LockedType
  <2>3. StartOK(r)' BY DEF StartOK, StartInv
  <2> QED BY Zenon, <2>2, <2>3, StartStep

\* A new executor has no StartUp signal.
<1>ConstructStart.
  ASSUME Base, StartInv, NEW t \in Threads, NEW fq \in BOOLEAN, NEW p \in PacketType,
         Construct(t, fq, p), UNCHANGED <<word, ran>>
  PROVE  StartInv'
  <2> USE <1>ConstructStart
  <2>1. PICK r \in ExecType : Constructed(t, fq, p, r) BY ConstructFacts DEF Base
  <2> QED BY Zenon, <2>1, <1>StartKept DEF Constructed

\* Loading the word again, without the lock.
<1>ReloadStart.
  ASSUME Base, StartInv, NEW t \in Threads, Reload(t), ~exec[t].own_lock, ran' = ran
  PROVE  StartInv'
  <2> USE <1>ReloadStart
  <2>1. PICK r \in ExecType : Reloaded(t, r) BY ReloadFacts DEF Base
  <2>2. ~r.own_lock /\ ~r.executes BY Zenon, <2>1 DEF Reloaded, Base, StageInv, StageOK
  <2> QED BY Zenon, <2>1, <2>2, <1>StartKept DEF Reloaded

\* start() takes the lock, and with it the StartUp signal of the word.
<1>StartStart.
  ASSUME Base, StartInv, NEW t \in Threads, Start(t)
  PROVE  StartInv'
  <2> USE <1>StartStart
  <2> DEFINE e == exec[t]
  <2>1. e \in ExecType /\ e.pc = "lock" /\ OwnerOK(e) /\ StageOK(t, e) /\ ran' = ran
    BY DEF Start, Base, TypeInv, LockInv, StageInv
  <2>2. ~e.own_lock /\ ~e.executes /\ e.pending = {} /\ "StartUp" \notin e.signals
    BY Zenon, <2>1 DEF OwnerOK, StageOK
  <2>3. CASE exec' = [exec EXCEPT ![t] = Started(e)] /\ word' = word
    <3>1. Stopped(e, Started(e), e.signals, e.pending) BY <2>1, StartedFacts
    <3> QED BY Zenon, <2>1, <2>2, <2>3, <3>1, <1>StartKept DEF Stopped, Same
  <2>4. CASE Reload(t) BY <2>1, <2>2, <2>4, <1>ReloadStart
  <2>5. CASE ~can_try_add_signals(t) /\ word = e.flags
    <3>1. PICK r \in ExecType : TookLock(t, r) BY <2>5, LockFacts DEF Base
    <3>2. Starts(r) <=> "StartUp" \in word.signals BY <2>2, <3>1 DEF TookLock, Starts
    <3>3. r.pc = "send" /\ r.executes => r.flags.signals = {} BY Zenon, <2>2, <3>1 DEF TookLock
    <3> QED BY Zenon, <2>1, <3>1, <3>2, <3>3, <1>StartTaken DEF TookLock
  <2> QED BY <2>1, <2>3, <2>4, <2>5 DEF Start

\* flush_one_signal: start_up runs, once.
<1>FlushSignalStart.
  ASSUME Base, StartInv, NEW t \in Threads, FlushSignal(t)
  PROVE  StartInv'
  <2> USE <1>FlushSignalStart
  <2> DEFINE e == exec[t]
  <2>1. PICK name, r : r \in ExecType /\ SignalDone(t, name, r) BY FlushSignalFacts DEF Base
  <2>2. /\ exec' = [exec EXCEPT ![t] = r] /\ e.pc = "signals" /\ name \in e.signals
        /\ GoesOn(e, r, "signals", e.signals \ {name},
                  IF name = "Message" THEN e.pending \cup {"Message"} ELSE e.pending)
        /\ ran' = IF name = "StartUp" THEN Append(ran, NoPacket) ELSE ran
    BY <2>1 DEF SignalDone
  <2>3. StageOK(t, e) /\ OwnerOK(e) /\ e.own_lock /\ word' = word
    BY <2>2 DEF FlushSignal, Base, LockInv, StageInv, OwnerOK
  <2>4. Same(e, r) BY <2>2 DEF GoesOn, Stopped
  <2>5. e.pending \subseteq {"Message"} /\ e.flags.signals = {} /\ r.flags.signals = {}
    BY Zenon, <2>2, <2>3, <2>4 DEF StageOK, Same
  <2>6. CASE name # "StartUp"
    <3>1. Starts(r) <=> Starts(e) BY <2>2, <2>5, <2>6 DEF GoesOn, Stopped, Starts
    <3> QED BY Zenon, <2>2, <2>3, <2>5, <2>6, <3>1, <1>StartKept
  <2>7. CASE name = "StartUp"
    <3>1. ~Starts(r) BY <2>2, <2>5, <2>7 DEF GoesOn, Stopped, Starts
    <3>2. ran' # <<>>
      <4>1. ran \in Seq(PacketType) /\ NoPacket \in PacketType BY IdleType DEF Base, TypeInv
      <4> QED BY <2>2, <2>7, <4>1
    <3>3. StartOK(r)' BY <2>5, <3>1, <3>2 DEF StartOK
    <3>4. word'.locked /\ "StartUp" \notin word'.signals BY <2>3 DEF OwnerOK, StartInv
    <3> QED BY Zenon, <2>2, <2>3, <3>2, <3>3, <3>4, StartStep
  <2> QED BY <2>6, <2>7

\* Once the owner comes to the messages, start_up has run.
<1>SignalsFlushedStart.
  ASSUME Base, StartInv, NEW t \in Threads, SignalsFlushed(t)
  PROVE  StartInv'
  <2> USE <1>SignalsFlushedStart
  <2>1. PICK r \in ExecType :
          /\ exec' = [exec EXCEPT ![t] = r] /\ r.pc = "messages"
          /\ Same(exec[t], r) /\ r.flags = exec[t].flags /\ r.packet = exec[t].packet
          /\ r.signals = exec[t].signals /\ r.pending = exec[t].pending
    BY SignalsFlushedBase
  <2>2. Starts(r) <=> Starts(exec[t]) BY <2>1 DEF Starts
  <2>3. UNCHANGED <<word, ran>> BY DEF SignalsFlushed
  <2> QED BY Zenon, <2>1, <2>2, <2>3, <1>StartKept DEF Same

\* send(): a message that runs at once runs after start_up.
<1>SendMessageStart.
  ASSUME Base, StartInv, NEW t \in Threads, SendMessage(t)
  PROVE  StartInv' /\ (ran' # ran => ran # <<>>)
  <2> USE <1>SendMessageStart
  <2> DEFINE e == exec[t]
  <2>1. PICK r \in ExecType : MessageSent(t, r) BY SendMessageFacts DEF Base
  <2>2. /\ exec' = [exec EXCEPT ![t] = r] /\ e.pc = "send" /\ Same(e, r) /\ r.flags = e.flags
        /\ r.pc = "finish" /\ r.signals = e.signals
        /\ "StartUp" \in r.pending <=> "StartUp" \in e.pending
        /\ ran' = ran \/ (can_send_immediate(e) /\ ~e.flags.closed /\ ran' = Append(ran, e.packet))
    BY <2>1 DEF MessageSent
  <2>3. Starts(r) <=> Starts(e) BY <2>2 DEF Starts
  <2>4. word' = word BY DEF SendMessage
  <2>5. CASE ran' = ran BY Zenon, <2>2, <2>3, <2>4, <2>5, <1>StartKept DEF Same
  <2>6. CASE ran' # ran
    <3>1. ran # <<>> /\ e.own_lock BY <2>2, <2>6, HasStarted
    <3>2. ran' # <<>>
      <4>1. ran \in Seq(PacketType) /\ e.packet \in PacketType BY DEF Base, TypeInv, ExecType
      <4> QED BY <2>2, <2>6, <4>1
    <3>3. StartOK(r)'
      <4>1. StartOK(e) BY DEF StartInv
      <4> QED BY <2>2, <2>3, <3>1, <3>2, <4>1 DEF StartOK
    <3>4. word.locked BY <3>1 DEF Base, LockInv, OwnerOK
    <3> QED BY Zenon, <2>2, <2>4, <3>1, <3>2, <3>3, <3>4, StartStep DEF StartInv
  <2> QED BY <2>5, <2>6

\* add_signals takes the lock, and with it the StartUp signal of the word.
<1>AddSignalsStart.
  ASSUME Base, StartInv, NEW t \in Threads, AddSignals(t)
  PROVE  StartInv'
  <2> USE <1>AddSignalsStart
  <2> DEFINE e == exec[t]
  <2>1. e.pc = "finish" /\ ~e.own_lock /\ StageOK(t, e) /\ word \in FlagsType /\ ran' = ran
    BY DEF AddSignals, Base, TypeInv, StageInv
  <2>2. e.signals = {} /\ "StartUp" \notin e.pending /\ ~e.executes BY <2>1 DEF StageOK
  <2>3. CASE exec' = [exec EXCEPT ![t] = Idle] /\ word' = word
    BY Zenon, <2>1, <2>3, IdleType, <1>StartKept
  <2>4. CASE Reload(t) BY <2>1, <2>4, <1>ReloadStart
  <2>5. CASE /\ word' = [word EXCEPT !.signals = @ \cup e.pending]
             /\ exec' = [exec EXCEPT ![t] = Idle]
    <3>1. word'.locked = word.locked /\ word'.signals = word.signals \cup e.pending
      BY <2>1, <2>5 DEF FlagsType
    <3>2. StartOK(Idle)' BY IdleType DEF StartOK
    <3> QED BY Zenon, <2>1, <2>2, <2>5, <3>1, <3>2, StartStep DEF StartInv
  <2>6. CASE /\ ~can_try_add_signals(t) /\ word = e.flags /\ word' = Locked(word)
             /\ exec' = [exec EXCEPT ![t] =
                  [e EXCEPT !.own_lock = TRUE, !.new_flags = Locked(e.flags),
                            !.flags.signals = @ \cup e.pending, !.pending = {}, !.pc = "settle"]]
    <3>1. PICK r \in ExecType : AddedLocked(t, r) BY Zenon, <2>6, AddLockedFacts DEF Base
    <3>2. ~word.locked BY <2>6 DEF can_try_add_signals
    <3>3. Starts(r) <=> "StartUp" \in word.signals BY <2>2, <2>6, <3>1 DEF AddedLocked, Starts
    <3> QED BY Zenon, <2>1, <2>6, <3>1, <3>2, <3>3, <1>StartTaken DEF AddedLocked
  <2> QED BY <2>3, <2>4, <2>5, <2>6 DEF AddSignals

\* flush_context_flags adds no StartUp signal.
<1>FlushContextFlagsStart.
  ASSUME Base, StartInv, NEW t \in Threads, FlushContextFlags(t)
  PROVE  StartInv'
  <2> USE <1>FlushContextFlagsStart
  <2>1. PICK r \in ExecType : \E added : ContextFlushed(t, added, r) BY FlushContextFacts DEF Base
  <2>2. PICK added : ContextFlushed(t, added, r) BY <2>1
  <2>3. Starts(r) <=> Starts(exec[t]) BY <2>2 DEF ContextFlushed, Starts
  <2>4. UNCHANGED <<word, ran>> BY DEF FlushContextFlags
  <2> QED BY Zenon, <2>2, <2>3, <2>4, <1>StartKept DEF ContextFlushed

\* finish() hands the StartUp signal back to the word.
<1>FinishStart.
  ASSUME Base, StartInv, NEW t \in Threads, Finish(t)
  PROVE  StartInv'
  <2> USE <1>FinishStart
  <2> DEFINE e == exec[t]
  <2>1. e \in ExecType /\ e.flags \in FlagsType /\ OwnerOK(e) /\ StageOK(t, e) /\ StartOK(e)
        /\ word \in FlagsType /\ ran' = ran
    BY DEF Finish, Base, TypeInv, LockInv, StageInv, ExecType, StartInv
  <2>2. CASE e.pc = "settle" /\ Settle(t) /\ word' = word
    <3>1. PICK r \in ExecType, add \in BOOLEAN : Settled(t, add, r) BY <2>2, SettleFacts DEF Base
    <3>2. Starts(r) <=> Starts(e) BY <3>1 DEF Settled, Starts
    <3> QED BY Zenon, <2>1, <2>2, <3>1, <3>2, <1>StartKept DEF Settled, OwnerOK
  <2>3. CASE e.pc = "unlock" /\ try_unlock(t)
    <3>1. /\ e.own_lock /\ word.locked /\ ~e.flags.locked /\ e.signals = {} /\ e.pending = {}
          /\ "StartUp" \notin word.signals
      BY Zenon, <2>1, <2>3 DEF OwnerOK, StageOK, StartInv
    <3>2. "StartUp" \in e.flags.signals <=> ran = <<>> BY Zenon, <2>1, <3>1 DEF StartOK, Starts
    <3>3. CASE word = e.new_flags
      <4>1. PICK r \in ExecType : Unlocked(t, r) BY <2>3, <3>3, UnlockedFacts DEF Base
      <4>2. StartOK(r)' BY <4>1 DEF Unlocked, StartOK
      <4> QED BY Zenon, <2>1, <3>1, <3>2, <4>1, <4>2, StartStep DEF Unlocked
    <3>4. CASE word # e.new_flags
      <4>1. PICK r \in ExecType : KeptLocked(t, r) BY <2>3, <3>4, KeptLockedFacts DEF Base
      <4>2. Starts(r) <=> "StartUp" \in e.flags.signals BY Zenon, <3>1, <4>1 DEF KeptLocked, Starts
      <4>3. StartOK(r)' BY <2>1, <3>2, <4>1, <4>2 DEF KeptLocked, StartOK
      <4>4. word'.locked /\ word'.signals = {} BY <2>1, <4>1, LockedType DEF KeptLocked
      <4> QED BY Zenon, <2>1, <4>1, <4>3, <4>4, StartStep DEF KeptLocked
    <3> QED BY <3>3, <3>4
  <2> QED BY <2>2, <2>3 DEF Finish
<1> SUFFICES ASSUME Base, StartInv, [Next]_vars PROVE StartInv' OBVIOUS
<1>1. ASSUME NEW t \in Threads, Send(t) PROVE StartInv'
  <2>1. Head(todo[t]) \in PacketType BY <1>1 DEF Send, Base, TypeInv
  <2> QED BY Zenon, <1>1, <2>1, <1>ConstructStart DEF Send
<1>2. ASSUME NEW t \in Threads, PopActor(t) PROVE StartInv'
  BY Zenon, <1>2, IdleType, <1>ConstructStart DEF PopActor
<1>3. ASSUME NEW t \in Threads, AddToQueue(t) PROVE StartInv'
  BY Zenon, <1>3, IdleType, <1>StartKept DEF AddToQueue
<1>4. ASSUME NEW t \in Threads, Step(t) PROVE StartInv'
  BY <1>3, <1>4, <1>StartStart, <1>FlushSignalStart, <1>SignalsFlushedStart, FlushMessageStart,
     <1>SendMessageStart, <1>AddSignalsStart, <1>FlushContextFlagsStart, <1>FinishStart DEF Step
<1>5. CASE IoAlarmDue
  <2>1. AlarmPacket \in PacketType /\ io \in Threads BY DEF AlarmPacket, PacketType, Threads
  <2> QED BY Zenon, <1>5, <2>1, <1>ConstructStart DEF IoAlarmDue
<1>6. CASE UNCHANGED <<word, exec, ran>>
  BY <1>6 DEF StartInv, StartOK
<1> QED BY <1>1, <1>2, <1>4, <1>5, <1>6 DEF Next, vars, IoAlarmChanged, Tick

-----------------------------------------------------------------------------
(* No message overtakes one that waits                                     *)

\* An owner that may run its own message at once has nothing of its own in the
\* mailbox, and nothing is in the reader.
Mine(t) == \E p \in Range(mailbox) : p.from = t
Stops(e) == has_immediate_flags(e) \/ e.flags.closed
OwnOK(t, e) ==
  e.executes =>
    /\ e.pc = "signals" /\ Mine(t) => "Message" \in e.signals
    /\ e.pc = "messages" => ~Mine(t)
    /\ e.pc = "send" /\ ~Stops(e) => ~Mine(t) /\ reader = <<>>
OwnInv == \A t \in Threads : OwnOK(t, exec[t])

\* At first nobody executes.
LEMMA InitOwn == Init => OwnInv
  BY Zenon, IdleType DEF Init, OwnInv, OwnOK

\* Every step keeps the line in front of an owner's own message empty.
LEMMA NextOwn == Base /\ NumberInv /\ CoverInv /\ OwnInv /\ [Next]_vars => OwnInv'
\* A step of t: an owner is alone, anybody else only adds messages of its own.
<1>OwnStep.
  ASSUME Base, OwnInv, NEW t \in Threads, NEW r, exec' = [exec EXCEPT ![t] = r], OwnOK(t, r)',
         \/ exec[t].own_lock
         \/ reader' = reader /\ \A p \in Range(mailbox') : p \in Range(mailbox) \/ p.from = t
  PROVE  OwnInv'
  <2> USE <1>OwnStep
  <2>1. \A u \in Threads : exec'[u] = IF u = t THEN r ELSE exec[u] BY DEF Base, TypeInv
  <2>2. ASSUME NEW u \in Threads PROVE OwnOK(u, exec[u])'
    <3>1. CASE u = t BY <2>1, <3>1 DEF OwnOK
    <3>2. CASE u # t
      <4>1. exec'[u] = exec[u] /\ OwnOK(u, exec[u]) BY <2>1, <3>2 DEF OwnInv
      <4>2. CASE exec[t].own_lock
        <5>1. ~exec[u].executes BY Zenon, <3>2, <4>2, OwnerAlone DEF Base, StageInv, StageOK
        <5> QED BY <4>1, <5>1 DEF OwnOK
      <4>3. CASE reader' = reader /\ \A p \in Range(mailbox') : p \in Range(mailbox) \/ p.from = t
        <5>1. Mine(u)' => Mine(u) BY <3>2, <4>3 DEF Mine
        <5> QED BY Zenon, <4>1, <4>3, <5>1 DEF OwnOK
      <4> QED BY <4>2, <4>3
    <3> QED BY <3>1, <3>2
  <2> QED BY <2>2 DEF OwnInv

\* start(): the word has a Message signal if t has left a message.
<1>StartOwn.
  ASSUME Base, CoverInv, OwnInv, NEW t \in Threads, Start(t)
  PROVE  OwnInv'
  <2> USE <1>StartOwn
  <2> DEFINE e == exec[t]
  <2>1. e \in ExecType /\ e.pc = "lock" /\ UNCHANGED <<mailbox, reader>> /\ OwnerOK(e) /\ StageOK(t, e)
    BY DEF Start, Base, TypeInv, LockInv, StageInv
  <2>2. ~e.own_lock /\ ~e.executes BY Zenon, <2>1 DEF OwnerOK, StageOK
  <2>3. ASSUME NEW r, exec' = [exec EXCEPT ![t] = r], OwnOK(t, r)' PROVE OwnInv'
    BY Zenon, <2>1, <2>3, <1>OwnStep
  <2>4. CASE exec' = [exec EXCEPT ![t] = Started(e)]
    <3>1. Stopped(e, Started(e), e.signals, e.pending) BY <2>1, StartedFacts
    <3>2. PICK r : r = Started(e) OBVIOUS
    <3>3. ~r.executes BY <2>2, <3>1, <3>2 DEF Stopped, Same
    <3>4. OwnOK(t, r)' BY <3>3 DEF OwnOK
    <3> QED BY Zenon, <2>3, <2>4, <3>2, <3>4
  <2>5. CASE Reload(t)
    <3>1. PICK r \in ExecType : Reloaded(t, r) BY <2>5, ReloadFacts DEF Base
    <3>2. OwnOK(t, r)' BY <2>2, <3>1 DEF Reloaded, OwnOK
    <3> QED BY Zenon, <2>3, <3>1, <3>2 DEF Reloaded
  <2>6. CASE ~can_try_add_signals(t) /\ word = e.flags
    <3>1. PICK r \in ExecType : TookLock(t, r) BY <2>6, LockFacts DEF Base
    <3>2. /\ exec' = [exec EXCEPT ![t] = r] /\ ~word.locked
          /\ r.pc \in {"signals", "send"}
          /\ r.pc = "signals" /\ "Message" \in word.signals => "Message" \in r.signals
          /\ r.pc = "send" /\ r.executes => r.flags.closed
      BY Zenon, <2>2, <3>1 DEF TookLock
    <3>3. Mine(t) => "Message" \in word.signals
      <4> SUFFICES ASSUME Mine(t) PROVE "Message" \in word.signals OBVIOUS
      <4>1. Covered(t) BY DEF Mine, CoverInv
      <4>2. ~SenderCovers(e) BY <2>1 DEF SenderCovers
      <4>3. \A u \in Threads : ~OwnerCovers(exec[u])
        BY <3>2 DEF OwnerCovers, Base, LockInv, OwnerOK
      <4> QED BY <4>1, <4>2, <4>3 DEF Covered, WordCovers
    <3>4. Mine(t)' => Mine(t) BY <2>1 DEF Mine
    <3>5. OwnOK(t, r)' BY <3>2, <3>3, <3>4 DEF OwnOK, Stops
    <3> QED BY Zenon, <2>3, <3>2, <3>5
  <2> QED BY <2>4, <2>5, <2>6 DEF Start

\* flush_one_signal: after the Message signal the owner goes on to the
\* messages.
<1>FlushSignalOwn.
  ASSUME Base, OwnInv, NEW t \in Threads, FlushSignal(t)
  PROVE  OwnInv'
  <2> USE <1>FlushSignalOwn
  <2> DEFINE e == exec[t]
  <2>1. PICK name, r : r \in ExecType /\ SignalDone(t, name, r) BY FlushSignalFacts DEF Base
  <2>2. /\ exec' = [exec EXCEPT ![t] = r] /\ e.pc = "signals" /\ name \in e.signals
        /\ GoesOn(e, r, "signals", e.signals \ {name},
                  IF name = "Message" THEN e.pending \cup {"Message"} ELSE e.pending)
        /\ mailbox' = IF name = "Message" THEN <<>> ELSE mailbox
    BY <2>1 DEF SignalDone
  <2>3. e.own_lock /\ e.executes /\ OwnOK(t, e)
    BY Zenon, <2>2 DEF Base, LockInv, StageInv, OwnerOK, StageOK, OwnInv
  <2>4. Mine(t)' => Mine(t) /\ name # "Message" BY <2>2 DEF Mine, Range
  <2>5. \/ r.pc = "signals" /\ r.signals = e.signals \ {name}
        \/ r.pc = "send" /\ Stops(r)
    BY <2>2 DEF GoesOn, Stopped, Stops
  <2>6. OwnOK(t, r)' BY <2>2, <2>3, <2>4, <2>5 DEF OwnOK
  <2> QED BY Zenon, <2>2, <2>3, <2>6, <1>OwnStep

\* An owner that comes to the messages has read its own.
<1>SignalsFlushedOwn.
  ASSUME Base, OwnInv, NEW t \in Threads, SignalsFlushed(t)
  PROVE  OwnInv'
  <2> USE <1>SignalsFlushedOwn
  <2>1. PICK r \in ExecType :
          /\ exec' = [exec EXCEPT ![t] = r] /\ r.pc = "messages"
          /\ Same(exec[t], r) /\ r.flags = exec[t].flags /\ r.packet = exec[t].packet
          /\ r.signals = exec[t].signals /\ r.pending = exec[t].pending
    BY SignalsFlushedBase
  <2>2. exec[t].pc = "signals" /\ exec[t].signals = {} /\ UNCHANGED <<mailbox, reader>>
    BY DEF SignalsFlushed
  <2>3. exec[t].own_lock /\ exec[t].executes /\ OwnOK(t, exec[t])
    BY Zenon, <2>2 DEF Base, LockInv, StageInv, OwnerOK, StageOK, OwnInv
  <2>4. ~Mine(t) BY <2>2, <2>3 DEF OwnOK
  <2>5. ~Mine(t)' BY <2>2, <2>4 DEF Mine
  <2>6. OwnOK(t, r)' BY <2>1, <2>5 DEF OwnOK
  <2> QED BY Zenon, <2>1, <2>3, <2>6, <1>OwnStep

\* flush_one_message: the owner comes to its own message with the reader empty.
<1>FlushMessageOwn.
  ASSUME Base, OwnInv, NEW t \in Threads, FlushMessage(t)
  PROVE  OwnInv'
  <2> USE <1>FlushMessageOwn
  <2> DEFINE e == exec[t]
  <2>1. PICK r \in ExecType : MessageDone(t, r) BY FlushMessageFacts DEF Base
  <2>2. exec' = [exec EXCEPT ![t] = r] /\ e.pc = "messages" BY <2>1 DEF MessageDone
  <2>3. \/ r.pc = "send" /\ reader' = <<>>
        \/ r.pc = "messages"
        \/ r.pc = "send" /\ Stops(r)
    BY <2>1 DEF MessageDone, GoesOn, Stopped, Stops
  <2>4. e.own_lock /\ e.executes /\ OwnOK(t, e) /\ mailbox' = mailbox
    BY <2>2 DEF FlushMessage, Base, LockInv, StageInv, OwnerOK, StageOK, OwnInv
  <2>5. ~Mine(t) BY <2>2, <2>4 DEF OwnOK
  <2>6. ~Mine(t)' BY <2>4, <2>5 DEF Mine
  <2>7. OwnOK(t, r)' BY <2>3, <2>6 DEF OwnOK
  <2> QED BY Zenon, <2>2, <2>4, <2>7, <1>OwnStep

\* Any other step of an executor.
<1>RestOwn.
  ASSUME Base, NumberInv, OwnInv, NEW t \in Threads,
         SendMessage(t) \/ AddSignals(t) \/ FlushContextFlags(t) \/ Finish(t) \/ AddToQueue(t)
  PROVE  OwnInv'
  <2> USE <1>RestOwn
  <2> DEFINE e == exec[t]
  <2>1. ASSUME NEW r, exec' = [exec EXCEPT ![t] = r], r.pc \notin {"signals", "messages", "send"},
               \/ e.own_lock
               \/ reader' = reader /\ \A p \in Range(mailbox') : p \in Range(mailbox) \/ p.from = t
        PROVE  OwnInv'
    <3>1. OwnOK(t, r)' BY <2>1 DEF OwnOK
    <3> QED BY Zenon, <2>1, <3>1, <1>OwnStep
  <2>2. CASE SendMessage(t)
    <3>1. PICK r \in ExecType : MessageSent(t, r) BY <2>2, SendMessageFacts DEF Base
    <3>2. /\ exec' = [exec EXCEPT ![t] = r] /\ r.pc = "finish"
          /\ e.own_lock \/ reader' = reader
          /\ mailbox' # mailbox => e.packet.no > 0 /\ mailbox' = Append(mailbox, e.packet)
      BY <3>1 DEF MessageSent, can_send_immediate
    <3>3. \A p \in Range(mailbox') : p \in Range(mailbox) \/ p.from = t
      <4>1. CASE mailbox' = mailbox BY <4>1
      <4>2. CASE mailbox' # mailbox
        <5>1. mailbox \in Seq(PacketType) /\ e.packet \in PacketType BY DEF Base, TypeInv, ExecType
        <5>2. Range(Append(mailbox, e.packet)) = Range(mailbox) \cup {e.packet}
          BY <5>1, RangeAppend
        <5>3. e.packet.from = t BY <3>2, <4>2 DEF NumberInv, NumberOK
        <5> QED BY Zenon, <3>2, <4>2, <5>2, <5>3
      <4> QED BY <4>1, <4>2
    <3> QED BY Zenon, <2>1, <3>2, <3>3
  <2>3. CASE AddSignals(t)
    <3>1. e.pc = "finish" /\ UNCHANGED <<mailbox, reader>> BY <2>3 DEF AddSignals
    <3>2. ASSUME NEW r, exec' = [exec EXCEPT ![t] = r], r.pc \notin {"signals", "messages", "send"}
          PROVE  OwnInv'
      BY Zenon, <2>1, <3>1, <3>2
    <3>3. CASE exec' = [exec EXCEPT ![t] = Idle] BY Zenon, <3>2, <3>3, IdleType
    <3>4. CASE Reload(t)
      <4>1. PICK r \in ExecType : Reloaded(t, r) BY <3>4, ReloadFacts DEF Base
      <4> QED BY Zenon, <3>1, <3>2, <4>1 DEF Reloaded
    <3>5. CASE exec' = [exec EXCEPT ![t] =
                  [e EXCEPT !.own_lock = TRUE, !.new_flags = Locked(e.flags),
                            !.flags.signals = @ \cup e.pending, !.pending = {}, !.pc = "settle"]]
      <4>1. PICK r \in ExecType : AddedLocked(t, r) BY Zenon, <3>5, AddLockedFacts DEF Base
      <4> QED BY Zenon, <3>2, <4>1 DEF AddedLocked
    <3> QED BY <2>3, <3>3, <3>4, <3>5 DEF AddSignals
  <2>4. CASE FlushContextFlags(t)
    <3>1. PICK r \in ExecType : \E added : ContextFlushed(t, added, r)
      BY <2>4, FlushContextFacts DEF Base
    <3> QED BY Zenon, <2>1, <3>1 DEF ContextFlushed
  <2>5. CASE Finish(t)
    <3>1. e.own_lock BY Zenon, <2>5 DEF Finish, Base, LockInv, OwnerOK
    <3>2. CASE Settle(t)
      <4>1. PICK r \in ExecType, add \in BOOLEAN : Settled(t, add, r) BY <3>2, SettleFacts DEF Base
      <4> QED BY Zenon, <2>1, <3>1, <4>1 DEF Settled
    <3>3. CASE try_unlock(t)
      <4>1. CASE word = e.new_flags
        <5>1. PICK r \in ExecType : Unlocked(t, r) BY <3>3, <4>1, UnlockedFacts DEF Base
        <5> QED BY Zenon, <2>1, <3>1, <5>1 DEF Unlocked
      <4>2. CASE word # e.new_flags
        <5>1. PICK r \in ExecType : KeptLocked(t, r) BY <3>3, <4>2, KeptLockedFacts DEF Base
        <5> QED BY Zenon, <2>1, <3>1, <5>1 DEF KeptLocked
      <4> QED BY <4>1, <4>2
    <3> QED BY <2>5, <3>2, <3>3 DEF Finish
  <2>6. CASE AddToQueue(t) BY Zenon, <2>1, <2>6, IdleType DEF AddToQueue
  <2> QED BY <2>2, <2>3, <2>4, <2>5, <2>6

\* A new executor does not run handlers.
<1>ConstructOwn.
  ASSUME Base, OwnInv, NEW t \in Threads, NEW fq \in BOOLEAN, NEW p \in PacketType,
         Construct(t, fq, p), UNCHANGED <<mailbox, reader>>
  PROVE  OwnInv'
  <2> USE <1>ConstructOwn
  <2>1. PICK r \in ExecType : Constructed(t, fq, p, r) BY ConstructFacts DEF Base
  <2>2. OwnOK(t, r)' BY Zenon, <2>1 DEF Constructed, OwnOK
  <2> QED BY Zenon, <2>1, <2>2, <1>OwnStep DEF Constructed
<1> SUFFICES ASSUME Base, NumberInv, CoverInv, OwnInv, [Next]_vars PROVE OwnInv' OBVIOUS
<1>1. ASSUME NEW t \in Threads, Send(t) PROVE OwnInv'
  <2>1. Head(todo[t]) \in PacketType BY <1>1 DEF Send, Base, TypeInv
  <2> QED BY Zenon, <1>1, <2>1, <1>ConstructOwn DEF Send
<1>2. ASSUME NEW t \in Threads, PopActor(t) PROVE OwnInv'
  BY Zenon, <1>2, IdleType, <1>ConstructOwn DEF PopActor
<1>3. ASSUME NEW t \in Threads, Step(t) PROVE OwnInv'
  BY <1>3, <1>StartOwn, <1>FlushSignalOwn, <1>SignalsFlushedOwn, <1>FlushMessageOwn, <1>RestOwn DEF Step
<1>4. CASE IoAlarmDue
  <2>1. AlarmPacket \in PacketType /\ io \in Threads BY DEF AlarmPacket, PacketType, Threads
  <2> QED BY Zenon, <1>4, <2>1, <1>ConstructOwn DEF IoAlarmDue
<1>5. CASE UNCHANGED <<mailbox, reader, exec>>
  BY <1>5 DEF OwnInv, OwnOK, Mine
<1> QED BY <1>1, <1>2, <1>3, <1>4, <1>5 DEF Next, vars, IoAlarmChanged, Tick

-----------------------------------------------------------------------------
(* The order of messages                                                   *)

\* p comes before q in the line if they are of one sender.
Lt(p, q) == p.from = q.from => p.no < q.no
Ordered(s) == \A j, k \in DOMAIN s : j < k => Lt(s[j], s[k])
Before(r, s) == \A p \in Range(r), q \in Range(s) : Lt(p, q)

\* What has run, what the reader holds and what waits in the mailbox are one
\* line, in which every sender's messages are in the order of their numbers;
\* what a sender has not sent yet comes after all that.
Line == Range(ran) \cup Range(reader) \cup Range(mailbox)
Below(line, t, n) == \A p \in line : p.from = t => p.no < n
LineInv ==
  /\ Ordered(ran) /\ Ordered(reader) /\ Ordered(mailbox)
  /\ Before(ran, reader) /\ Before(ran, mailbox) /\ Before(reader, mailbox)
  /\ \A p \in Range(reader) \cup Range(mailbox) : p.no > 0
  /\ ran # <<>> => ran[1] = NoPacket
AheadOK(line, t, packet, packets) ==
  /\ packet.no > 0 => Below(line, t, packet.no)
  /\ \A p \in Range(packets) : p.no > 0 => Below(line, t, p.no)
AheadInv == \A t \in Threads : AheadOK(Line, t, exec[t].packet, todo[t])

\* What is in the line are packets.
LEMMA LineType ==
  ASSUME Base
  PROVE  /\ ran \in Seq(PacketType) /\ reader \in Seq(PacketType) /\ mailbox \in Seq(PacketType)
         /\ \A p \in Line : p \in PacketType /\ p.no \in Int
<1>1. ran \in Seq(PacketType) /\ reader \in Seq(PacketType) /\ mailbox \in Seq(PacketType)
  BY DEF Base, TypeInv
<1>2. \A p \in Line : p \in PacketType BY <1>1 DEF Line, Range
<1>3. \A p \in PacketType : p.no \in Int BY DEF PacketType
<1> QED BY <1>1, <1>2, <1>3

\* A new actor has no message.
LEMMA InitLine == Init => LineInv /\ AheadInv
<1> SUFFICES ASSUME Init PROVE LineInv /\ AheadInv OBVIOUS
<1>1. ran = <<>> /\ reader = <<>> /\ mailbox = <<>> BY DEF Init
<1>2. Range(ran) = {} /\ Range(reader) = {} /\ Range(mailbox) = {} BY <1>1 DEF Range
<1>3. LineInv BY <1>1, <1>2 DEF LineInv, Ordered, Before
<1>4. AheadInv BY <1>2 DEF AheadInv, AheadOK, Below, Line
<1> QED BY <1>3, <1>4

\* Every step keeps the line.
LEMMA NextLine ==
  Base /\ NumberInv /\ StartInv /\ OwnInv /\ LineInv /\ AheadInv /\ [Next]_vars
    => LineInv' /\ AheadInv'

\* Appending a message that comes after all of the sequence.
<1>OrderedAppend.
  ASSUME NEW S, NEW s \in Seq(S), NEW p \in S, Ordered(s), \A q \in Range(s) : Lt(q, p)
  PROVE  Ordered(Append(s, p))
  <2> USE <1>OrderedAppend
  <2>1. DOMAIN Append(s, p) = 1 .. (Len(s) + 1) /\ DOMAIN s = 1 .. Len(s) /\ Len(s) \in Nat OBVIOUS
  <2>2. \A k \in 1 .. Len(s) : Append(s, p)[k] = s[k] /\ s[k] \in Range(s) BY <2>1 DEF Range
  <2>3. Append(s, p)[Len(s) + 1] = p OBVIOUS
  <2>4. SUFFICES ASSUME NEW j \in 1 .. (Len(s) + 1), NEW k \in 1 .. (Len(s) + 1), j < k
                 PROVE  Lt(Append(s, p)[j], Append(s, p)[k])
    BY <2>1 DEF Ordered
  <2>5. j \in 1 .. Len(s) BY <2>1, <2>4
  <2>6. CASE k = Len(s) + 1 BY <2>2, <2>3, <2>5, <2>6
  <2>7. CASE k \in 1 .. Len(s)
    <3>1. Lt(s[j], s[k]) BY <2>1, <2>4, <2>5, <2>7 DEF Ordered
    <3> QED BY <2>2, <2>5, <2>7, <3>1
  <2> QED BY <2>1, <2>6, <2>7

\* The first message and the others.
<1>OrderedTail.
  ASSUME NEW S, NEW s \in Seq(S), s # <<>>, Ordered(s)
  PROVE  /\ Ordered(Tail(s)) /\ Head(s) \in Range(s) /\ Range(Tail(s)) \subseteq Range(s)
         /\ \A q \in Range(Tail(s)) : Lt(Head(s), q)
  <2> USE <1>OrderedTail
  <2>1. \A j \in DOMAIN Tail(s) : j \in Nat /\ 1 < j + 1 /\ j + 1 \in DOMAIN s /\ Tail(s)[j] = s[j + 1]
    OBVIOUS
  <2>2. 1 \in DOMAIN s /\ Head(s) = s[1] OBVIOUS
  <2>3. Ordered(Tail(s))
    <3> SUFFICES ASSUME NEW j \in DOMAIN Tail(s), NEW k \in DOMAIN Tail(s), j < k
                 PROVE  Lt(Tail(s)[j], Tail(s)[k])
      BY DEF Ordered
    <3>1. j + 1 < k + 1 /\ j + 1 \in DOMAIN s /\ k + 1 \in DOMAIN s BY <2>1
    <3>2. Lt(s[j + 1], s[k + 1]) BY <3>1 DEF Ordered
    <3> QED BY <2>1, <3>2
  <2>4. Head(s) \in Range(s) BY <2>2 DEF Range
  <2>5. Range(Tail(s)) \subseteq Range(s) BY <2>1 DEF Range
  <2>6. ASSUME NEW q \in Range(Tail(s)) PROVE Lt(Head(s), q)
    <3>1. PICK j \in DOMAIN Tail(s) : q = Tail(s)[j] BY <2>6 DEF Range
    <3>2. 1 < j + 1 /\ j + 1 \in DOMAIN s /\ q = s[j + 1] BY <2>1, <3>1
    <3> QED BY <2>2, <3>2 DEF Ordered
  <2> QED BY <2>3, <2>4, <2>5, <2>6

\* One sequence behind the other.
<1>OrderedConcat.
  ASSUME NEW S, NEW r \in Seq(S), NEW s \in Seq(S), Ordered(r), Ordered(s), Before(r, s)
  PROVE  Ordered(r \o s) /\ Range(r \o s) = Range(r) \cup Range(s)
  <2> USE <1>OrderedConcat
  <2> DEFINE m == Len(r)
             n == Len(s)
  <2>1. /\ m \in Nat /\ n \in Nat /\ DOMAIN r = 1 .. m /\ DOMAIN s = 1 .. n
        /\ DOMAIN (r \o s) = 1 .. (m + n)
    OBVIOUS
  <2>2. \A k \in 1 .. m : (r \o s)[k] = r[k] OBVIOUS
  <2>3. \A k \in 1 .. n : (r \o s)[m + k] = s[k] OBVIOUS
  <2>4. \A k \in (m + 1) .. (m + n) : k - m \in 1 .. n /\ m + (k - m) = k BY <2>1
  <2>5. \A k \in (m + 1) .. (m + n) : (r \o s)[k] = s[k - m]
    <3> SUFFICES ASSUME NEW k \in (m + 1) .. (m + n) PROVE (r \o s)[k] = s[k - m] OBVIOUS
    <3>1. k - m \in 1 .. n /\ m + (k - m) = k BY <2>4
    <3>2. (r \o s)[m + (k - m)] = s[k - m] BY <2>3, <3>1
    <3> QED BY <3>1, <3>2
  <2> HIDE DEF m, n
  <2>6. ASSUME NEW j \in 1 .. (m + n), NEW k \in 1 .. (m + n), j < k
        PROVE  Lt((r \o s)[j], (r \o s)[k])
    <3>1. CASE k \in 1 .. m
      <4>1. j \in 1 .. m BY <2>1, <2>6, <3>1
      <4>2. Lt(r[j], r[k]) BY <2>1, <2>6, <3>1, <4>1 DEF Ordered
      <4> QED BY Zenon, <2>2, <3>1, <4>1, <4>2
    <3>2. CASE j \in 1 .. m /\ k \in (m + 1) .. (m + n)
      <4>1. r[j] \in Range(r) BY <2>1, <3>2 DEF Range
      <4>2. s[k - m] \in Range(s) BY <2>1, <2>4, <3>2 DEF Range
      <4> QED BY Zenon, <2>2, <2>5, <3>2, <4>1, <4>2 DEF Before
    <3>3. CASE j \in (m + 1) .. (m + n) /\ k \in (m + 1) .. (m + n)
      <4>1. j - m \in DOMAIN s /\ k - m \in DOMAIN s BY <2>1, <2>4, <3>3
      <4>2. j - m < k - m BY <2>1, <2>6, <3>3
      <4>3. Lt(s[j - m], s[k - m]) BY <4>1, <4>2 DEF Ordered
      <4> QED BY Zenon, <2>5, <3>3, <4>3
    <3> QED BY <2>1, <2>6, <3>1, <3>2, <3>3
  <2>7. Ordered(r \o s) BY <2>1, <2>6 DEF Ordered
  <2>8. \A k \in 1 .. (m + n) : (r \o s)[k] \in Range(r) \cup Range(s)
    <3> SUFFICES ASSUME NEW k \in 1 .. (m + n) PROVE (r \o s)[k] \in Range(r) \cup Range(s)
      BY Zenon
    <3>1. CASE k \in 1 .. m BY <2>1, <2>2, <3>1 DEF Range
    <3>2. CASE k \in (m + 1) .. (m + n) BY Zenon, <2>1, <2>4, <2>5, <3>2 DEF Range
    <3> QED BY <2>1, <3>1, <3>2
  <2>9. \A k \in 1 .. m : r[k] \in Range(r \o s)
    <3>1. \A k \in 1 .. m : k \in 1 .. (m + n) BY <2>1
    <3> QED BY <2>1, <2>2, <3>1 DEF Range
  <2>10. \A k \in 1 .. n : s[k] \in Range(r \o s)
    <3>1. \A k \in 1 .. n : m + k \in 1 .. (m + n) BY <2>1
    <3> QED BY Zenon, <2>1, <2>3, <3>1 DEF Range
  <2>11. Range(r \o s) = Range(r) \cup Range(s) BY Zenon, <2>1, <2>8, <2>9, <2>10 DEF Range
  <2> QED BY <2>7, <2>11

\* The head and the tail of a sequence are of its range.
<1>RangeTail.
  ASSUME NEW S, NEW s \in Seq(S), s # <<>>
  PROVE  Head(s) \in Range(s) /\ Range(Tail(s)) \subseteq Range(s)
  <2> USE <1>RangeTail
  <2>1. \A j \in DOMAIN Tail(s) : j + 1 \in DOMAIN s /\ Tail(s)[j] = s[j + 1] OBVIOUS
  <2>2. 1 \in DOMAIN s /\ Head(s) = s[1] OBVIOUS
  <2> QED BY <2>1, <2>2 DEF Range

\* A step of t that puts at most its own packet, or start_up, into the line.
<1>AheadStep.
  ASSUME Base, NumberInv, AheadInv, NEW t \in Threads, NEW r, exec' = [exec EXCEPT ![t] = r],
         todo' = todo, r.packet.no > 0 => r.packet = exec[t].packet,
         \A p \in Line' : \/ p \in Line \/ p.no = 0
                          \/ p = exec[t].packet /\ p.no > 0 /\ ~(r.packet.no > 0)
  PROVE  AheadInv'
  <2> USE <1>AheadStep
  <2> DEFINE e == exec[t]
  <2>1. \A u \in Threads : exec'[u] = IF u = t THEN r ELSE exec[u] BY DEF Base, TypeInv
  <2>2. e.packet.no > 0 => e.packet.from = t BY DEF NumberInv, NumberOK
  <2>3. ASSUME NEW u \in Threads, NEW n, n > 0, Below(Line, u, n),
               u = t /\ e.packet.no > 0 /\ ~(r.packet.no > 0) => e.packet.no < n
        PROVE  Below(Line', u, n)
    <3> SUFFICES ASSUME NEW p \in Line', p.from = u PROVE p.no < n BY DEF Below
    <3>1. CASE p \in Line BY <2>3, <3>1 DEF Below
    <3>2. CASE p.no = 0 BY <2>3, <3>2
    <3>3. CASE p = e.packet /\ p.no > 0 /\ ~(r.packet.no > 0) BY <2>2, <2>3, <3>3
    <3> QED BY <3>1, <3>2, <3>3
  <2>4. ASSUME NEW u \in Threads PROVE AheadOK(Line', u, exec'[u].packet, todo[u])
    <3>1. AheadOK(Line, u, exec[u].packet, todo[u]) BY DEF AheadInv
    <3>2. ASSUME exec'[u].packet.no > 0 PROVE Below(Line', u, exec'[u].packet.no)
      <4>1. CASE u = t
        <5>1. r.packet.no > 0 /\ r.packet = e.packet BY <2>1, <3>2, <4>1
        <5>2. Below(Line, u, r.packet.no) BY <3>1, <4>1, <5>1 DEF AheadOK
        <5> QED BY <2>1, <2>3, <4>1, <5>1, <5>2
      <4>2. CASE u # t
        <5>1. exec'[u] = exec[u] BY <2>1, <4>2
        <5>2. Below(Line, u, exec[u].packet.no) BY <3>1, <3>2, <5>1 DEF AheadOK
        <5> QED BY <2>3, <3>2, <4>2, <5>1, <5>2
      <4> QED BY <4>1, <4>2
    <3>3. ASSUME NEW p \in Range(todo[u]), p.no > 0 PROVE Below(Line', u, p.no)
      <4>1. Below(Line, u, p.no) BY <3>1, <3>3 DEF AheadOK
      <4>2. u = t /\ e.packet.no > 0 => e.packet.no < p.no
        <5>1. PICK j \in DOMAIN todo[u] : p = todo[u][j] BY <3>3 DEF Range
        <5> QED BY <3>3, <5>1 DEF NumberInv, NumberOK
      <4> QED BY <2>3, <3>3, <4>1, <4>2
    <3> QED BY <3>2, <3>3 DEF AheadOK
  <2> QED BY <2>4 DEF AheadInv

\* The line stays as it is.
<1>LineKept.
  ASSUME Base, NumberInv, LineInv, AheadInv, NEW t \in Threads, NEW r, exec' = [exec EXCEPT ![t] = r],
         UNCHANGED <<ran, reader, mailbox, todo>>, r.packet.no > 0 => r.packet = exec[t].packet
  PROVE  LineInv' /\ AheadInv'
  <2> USE <1>LineKept
  <2>1. LineInv' BY DEF LineInv
  <2>2. Line' = Line BY DEF Line
  <2>3. AheadInv' BY Zenon, <2>2, <1>AheadStep
  <2> QED BY <2>1, <2>3

\* Send: the next packet was behind the line before.
<1>SendLine.
  ASSUME Base, NumberInv, LineInv, AheadInv, NEW t \in Threads, Send(t)
  PROVE  LineInv' /\ AheadInv'
  <2> USE <1>SendLine
  <2>1. LineInv' BY DEF Send, LineInv
  <2>2. Line' = Line BY DEF Send, Line
  <2>3. todo[t] \in Seq(PacketType) /\ todo[t] # <<>> /\ todo \in [Threads -> Seq(PacketType)]
    BY DEF Send, Base, TypeInv
  <2>4. Head(todo[t]) \in Range(todo[t]) /\ Range(Tail(todo[t])) \subseteq Range(todo[t])
    BY <2>3, <1>RangeTail
  <2>5. /\ exec'[t].packet = Head(todo[t]) /\ todo' = [todo EXCEPT ![t] = Tail(todo[t])]
        /\ \A u \in Threads \ {t} : exec'[u] = exec[u]
    BY SendNumber
  <2>6. todo'[t] = Tail(todo[t]) /\ \A u \in Threads \ {t} : todo'[u] = todo[u] BY <2>3, <2>5
  <2>7. AheadOK(Line, t, Head(todo[t]), Tail(todo[t])) BY <2>4 DEF AheadInv, AheadOK
  <2>8. \A u \in Threads : AheadOK(Line', u, exec'[u].packet, todo'[u])
    BY <2>2, <2>5, <2>6, <2>7 DEF AheadInv
  <2> QED BY <2>1, <2>8 DEF AheadInv

\* flush_one_signal: start_up is the first to run, the mailbox follows the reader.
<1>FlushSignalLine.
  ASSUME Base, NumberInv, StartInv, LineInv, AheadInv, NEW t \in Threads, FlushSignal(t)
  PROVE  LineInv' /\ AheadInv'
  <2> USE <1>FlushSignalLine
  <2> DEFINE e == exec[t]
  <2>1. PICK name, r : r \in ExecType /\ SignalDone(t, name, r) BY FlushSignalFacts DEF Base
  <2>2. /\ exec' = [exec EXCEPT ![t] = r] /\ e.pc = "signals" /\ name \in e.signals
        /\ ran' = IF name = "StartUp" THEN Append(ran, NoPacket) ELSE ran
        /\ reader' = IF name = "Message" THEN reader \o mailbox ELSE reader
        /\ mailbox' = IF name = "Message" THEN <<>> ELSE mailbox
    BY <2>1 DEF SignalDone
  <2>3. r.packet = e.packet /\ todo' = todo BY <2>1 DEF SignalDone, GoesOn, Stopped, FlushSignal
  <2>4. ran \in Seq(PacketType) /\ reader \in Seq(PacketType) /\ mailbox \in Seq(PacketType)
    BY LineType
  <2>5. CASE name = "StartUp"
    <3>1. e.own_lock BY <2>2 DEF Base, LockInv, OwnerOK
    <3>2. ran = <<>> BY <2>2, <2>5, <3>1 DEF StartInv, StartOK, Starts
    <3>3. ran' = <<NoPacket>> /\ reader' = reader /\ mailbox' = mailbox BY <2>2, <2>5, <3>2
    <3>4. Range(ran') = {NoPacket} /\ Ordered(ran') /\ ran'[1] = NoPacket
      BY <3>3 DEF Range, Ordered
    <3>5. \A q : q.no > 0 => Lt(NoPacket, q) BY IdleType DEF Lt
    <3>6. Before(ran', reader) /\ Before(ran', mailbox) BY <3>4, <3>5 DEF Before, LineInv
    <3>7. LineInv' BY <3>3, <3>4, <3>6 DEF LineInv
    <3>8. \A p \in Line' : p \in Line \/ p.no = 0 BY <3>3, <3>4, IdleType DEF Line
    <3>9. AheadInv' BY Zenon, <2>2, <2>3, <3>8, <1>AheadStep
    <3> QED BY <3>7, <3>9
  <2>6. CASE name = "Message"
    <3>1. ran' = ran /\ reader' = reader \o mailbox /\ mailbox' = <<>> BY <2>2, <2>6
    <3>2. Ordered(reader) /\ Ordered(mailbox) /\ Before(reader, mailbox) BY DEF LineInv
    <3>3. Ordered(reader \o mailbox) /\ Range(reader \o mailbox) = Range(reader) \cup Range(mailbox)
      BY <2>4, <3>2, <1>OrderedConcat
    <3>4. Range(mailbox') = {} /\ Ordered(mailbox') BY <3>1 DEF Range, Ordered
    <3>5. Before(ran, reader \o mailbox) BY <3>3 DEF Before, LineInv
    <3>6. Before(ran', mailbox') /\ Before(reader', mailbox') BY <3>4 DEF Before
    <3>7. LineInv' BY <3>1, <3>3, <3>4, <3>5, <3>6 DEF LineInv
    <3>8. Line' = Line BY <3>1, <3>3, <3>4 DEF Line
    <3>9. AheadInv' BY Zenon, <2>2, <2>3, <3>8, <1>AheadStep
    <3> QED BY <3>7, <3>9
  <2>7. CASE name \notin {"StartUp", "Message"}
    BY Zenon, <2>2, <2>3, <2>7, <1>LineKept
  <2> QED BY <2>5, <2>6, <2>7

\* flush_one_message: the first message of the reader is the next to run.
<1>FlushMessageLine.
  ASSUME Base, NumberInv, StartInv, LineInv, AheadInv, NEW t \in Threads, FlushMessage(t)
  PROVE  LineInv' /\ AheadInv'
  <2> USE <1>FlushMessageLine
  <2> DEFINE e == exec[t]
  <2>1. PICK r \in ExecType : MessageDone(t, r) BY FlushMessageFacts DEF Base
  <2>2. /\ exec' = [exec EXCEPT ![t] = r] /\ r.packet = e.packet
        /\ \/ UNCHANGED <<reader, ran>>
           \/ reader # <<>> /\ reader' = Tail(reader) /\ ran' = Append(ran, Head(reader))
    BY Zenon, <2>1 DEF MessageDone, GoesOn, Stopped
  <2>3. mailbox' = mailbox /\ todo' = todo BY DEF FlushMessage
  <2>4. ran \in Seq(PacketType) /\ reader \in Seq(PacketType) BY LineType
  <2>5. CASE UNCHANGED <<reader, ran>> BY Zenon, <2>2, <2>3, <2>5, <1>LineKept
  <2>6. CASE reader # <<>> /\ reader' = Tail(reader) /\ ran' = Append(ran, Head(reader))
    <3> DEFINE h == Head(reader)
    <3>1. Ordered(reader) BY DEF LineInv
    <3>2. /\ Ordered(Tail(reader)) /\ h \in Range(reader) /\ Range(Tail(reader)) \subseteq Range(reader)
          /\ \A q \in Range(Tail(reader)) : Lt(h, q)
      BY <2>4, <2>6, <3>1, <1>OrderedTail
    <3>3. h \in PacketType BY <2>4, <2>6
    <3> HIDE DEF h
    <3>4. Range(Append(ran, h)) = Range(ran) \cup {h} BY <2>4, <3>3, RangeAppend
    <3>5. Ordered(Append(ran, h))
      <4>1. Ordered(ran) /\ \A q \in Range(ran) : Lt(q, h) BY <3>2 DEF LineInv, Before
      <4> QED BY <2>4, <3>3, <4>1, <1>OrderedAppend
    <3>6. ran' = Append(ran, h) /\ reader' = Tail(reader) BY <2>6 DEF h
    <3>7. Before(ran', reader') BY <3>2, <3>4, <3>6 DEF Before, LineInv
    <3>8. Before(ran', mailbox) /\ Before(reader', mailbox) BY <3>2, <3>4, <3>6 DEF Before, LineInv
    <3>9. ran'[1] = NoPacket
      <4>1. ran # <<>> BY FlushMessageStart
      <4>2. Append(ran, h)[1] = ran[1] BY <2>4, <3>3, <4>1
      <4> QED BY <3>6, <4>1, <4>2 DEF LineInv
    <3>10. LineInv' BY <2>3, <3>2, <3>5, <3>6, <3>7, <3>8, <3>9 DEF LineInv
    <3>11. \A p \in Line' : p \in Line BY <2>3, <3>2, <3>4, <3>6 DEF Line
    <3>12. AheadInv' BY Zenon, <2>2, <2>3, <3>11, <1>AheadStep
    <3> QED BY <3>10, <3>12
  <2> QED BY <2>2, <2>5, <2>6

\* send(): a message goes to the end of the line, or runs at once when nothing
\* of its sender waits.
<1>SendMessageLine.
  ASSUME Base, NumberInv, StartInv, OwnInv, LineInv, AheadInv, NEW t \in Threads, SendMessage(t)
  PROVE  LineInv' /\ AheadInv'
  <2> USE <1>SendMessageLine
  <2> DEFINE e == exec[t]
             m == e.packet
  <2>1. PICK r \in ExecType : MessageSent(t, r) BY SendMessageFacts DEF Base
  <2>2. /\ exec' = [exec EXCEPT ![t] = r] /\ e.pc = "send" /\ r.packet = NoPacket
        /\ \/ UNCHANGED <<mailbox, reader, ran>>
           \/ m.no > 0 /\ mailbox' = Append(mailbox, m) /\ UNCHANGED <<reader, ran>>
           \/ /\ m.no > 0 /\ ~e.flags.closed /\ can_send_immediate(e)
              /\ reader' = <<m>> \o reader /\ UNCHANGED <<mailbox, ran>>
           \/ /\ m.no > 0 /\ ~e.flags.closed /\ can_send_immediate(e)
              /\ ran' = Append(ran, m) /\ UNCHANGED <<mailbox, reader>>
    BY Zenon, <2>1 DEF MessageSent
  <2>3. todo' = todo BY DEF SendMessage
  <2>4. ran \in Seq(PacketType) /\ reader \in Seq(PacketType) /\ mailbox \in Seq(PacketType)
    BY LineType
  <2>5. m \in PacketType /\ ~(r.packet.no > 0) BY <2>2, IdleType DEF Base, TypeInv, ExecType
  <2>6. m.no > 0 => /\ m.from = t
                    /\ \A q \in Line : Lt(q, m)
    <3>1. m.no > 0 => m.from = t BY DEF NumberInv, NumberOK
    <3>2. m.no > 0 => Below(Line, t, m.no) BY DEF AheadInv, AheadOK
    <3> QED BY <3>1, <3>2 DEF Below, Lt
  <2>7. ~e.flags.closed /\ can_send_immediate(e) => ~Mine(t) /\ reader = <<>>
    <3>1. OwnOK(t, e) BY DEF OwnInv
    <3> QED BY <2>2, <3>1 DEF OwnOK, Stops, can_send_immediate
  <2> HIDE DEF m
  <2>8. CASE UNCHANGED <<mailbox, reader, ran>> BY Zenon, <2>2, <2>3, <2>5, <2>8, <1>LineKept
  <2>9. CASE m.no > 0 /\ mailbox' = Append(mailbox, m) /\ UNCHANGED <<reader, ran>>
    <3>1. Range(Append(mailbox, m)) = Range(mailbox) \cup {m} BY <2>4, <2>5, RangeAppend
    <3>2. Ordered(Append(mailbox, m))
      <4>1. Ordered(mailbox) /\ \A q \in Range(mailbox) : Lt(q, m) BY <2>6, <2>9 DEF LineInv, Line
      <4> QED BY <2>4, <2>5, <4>1, <1>OrderedAppend
    <3>3. Before(ran, mailbox') /\ Before(reader, mailbox')
      BY <2>6, <2>9, <3>1 DEF Before, LineInv, Line
    <3>4. LineInv' BY <2>9, <3>1, <3>2, <3>3 DEF LineInv
    <3>5. \A p \in Line' : p \in Line \/ p = m BY <2>9, <3>1 DEF Line
    <3>6. AheadInv' BY Zenon, <2>2, <2>3, <2>5, <2>9, <3>5, <1>AheadStep DEF m
    <3> QED BY <3>4, <3>6
  <2>10. CASE /\ m.no > 0 /\ ~e.flags.closed /\ can_send_immediate(e)
              /\ reader' = <<m>> \o reader /\ UNCHANGED <<mailbox, ran>>
    <3>1. reader' = <<m>>
      <4>1. reader = <<>> /\ reader' = <<m>> \o reader BY <2>7, <2>10
      <4>2. <<m>> \o <<>> = <<m>> OBVIOUS
      <4> QED BY <4>1, <4>2
    <3>2. Range(reader') = {m} /\ Ordered(reader') BY <3>1 DEF Range, Ordered
    <3>3. Before(ran, reader') BY Zenon, <2>6, <2>10, <3>2 DEF Before, Line
    <3>4. Before(reader', mailbox)
      <4>1. \A q \in Range(mailbox) : Lt(m, q) BY Zenon, <2>6, <2>7, <2>10 DEF Mine, Lt
      <4> QED BY <3>2, <4>1 DEF Before
    <3>5. LineInv' BY <2>10, <3>2, <3>3, <3>4 DEF LineInv
    <3>6. \A p \in Line' : p \in Line \/ p = m BY <2>10, <3>2 DEF Line
    <3>7. AheadInv' BY Zenon, <2>2, <2>3, <2>5, <2>10, <3>6, <1>AheadStep DEF m
    <3> QED BY <3>5, <3>7
  <2>11. CASE /\ m.no > 0 /\ ~e.flags.closed /\ can_send_immediate(e)
              /\ ran' = Append(ran, m) /\ UNCHANGED <<mailbox, reader>>
    <3>1. Range(Append(ran, m)) = Range(ran) \cup {m} BY <2>4, <2>5, RangeAppend
    <3>2. Ordered(Append(ran, m))
      <4>1. Ordered(ran) /\ \A q \in Range(ran) : Lt(q, m) BY <2>6, <2>11 DEF LineInv, Line
      <4> QED BY <2>4, <2>5, <4>1, <1>OrderedAppend
    <3>3. Before(ran', reader) BY <2>7, <2>11 DEF Before, Range
    <3>4. Before(ran', mailbox)
      <4>1. \A q \in Range(mailbox) : Lt(m, q) BY Zenon, <2>6, <2>7, <2>11 DEF Mine, Lt
      <4> QED BY <2>11, <3>1, <4>1 DEF Before, LineInv
    <3>5. ran'[1] = NoPacket
      <4>1. ran # <<>> BY <2>2, <2>11, HasStarted
      <4>2. Append(ran, m)[1] = ran[1] BY <2>4, <2>5, <4>1
      <4> QED BY <2>11, <4>1, <4>2 DEF LineInv
    <3>6. LineInv' BY <2>11, <3>2, <3>3, <3>4, <3>5 DEF LineInv
    <3>7. \A p \in Line' : p \in Line \/ p = m BY <2>11, <3>1 DEF Line
    <3>8. AheadInv' BY Zenon, <2>2, <2>3, <2>5, <2>11, <3>7, <1>AheadStep DEF m
    <3> QED BY <3>6, <3>8
  <2> QED BY <2>2, <2>8, <2>9, <2>10, <2>11

\* The loop of finish() clears a closed actor's mailbox; the other steps leave
\* the messages alone.
<1>RestLine.
  ASSUME Base, NumberInv, LineInv, AheadInv, NEW t \in Threads, Step(t),
         ~FlushSignal(t), ~FlushMessage(t), ~SendMessage(t)
  PROVE  LineInv' /\ AheadInv'
  <2> USE <1>RestLine
  <2>1. PICK r \in ExecType : /\ exec' = [exec EXCEPT ![t] = r]
                              /\ r.packet = exec[t].packet \/ r.packet = NoPacket
    BY StepPacket
  <2>2. todo' = todo BY StepPacket
  <2>3. r.packet.no > 0 => r.packet = exec[t].packet
    <3>1. NoPacket.no = 0 BY DEF NoPacket
    <3>2. ~(NoPacket.no > 0) BY <3>1
    <3> QED BY <2>1, <3>2
  <2>4. ran' = ran /\ (UNCHANGED <<mailbox, reader>> \/ (mailbox' = <<>> /\ reader' = <<>>))
    BY Zenon DEF Step, Start, SignalsFlushed, AddSignals, FlushContextFlags, Finish, Settle, AddToQueue
  <2>5. CASE UNCHANGED <<mailbox, reader>> BY Zenon, <2>1, <2>2, <2>3, <2>4, <2>5, <1>LineKept
  <2>6. CASE mailbox' = <<>> /\ reader' = <<>>
    <3>1. Range(mailbox') = {} /\ Range(reader') = {} /\ Ordered(mailbox') /\ Ordered(reader')
      BY <2>6 DEF Range, Ordered
    <3>2. LineInv' BY <2>4, <3>1 DEF LineInv, Before
    <3>3. \A p \in Line' : p \in Line BY <2>4, <3>1 DEF Line
    <3>4. AheadInv' BY Zenon, <2>1, <2>2, <2>3, <3>3, <1>AheadStep
    <3> QED BY <3>2, <3>4
  <2> QED BY <2>4, <2>5, <2>6
<1> SUFFICES ASSUME Base, NumberInv, StartInv, OwnInv, LineInv, AheadInv, [Next]_vars
             PROVE  LineInv' /\ AheadInv'
  OBVIOUS
<1>1. ASSUME NEW t \in Threads, Send(t) PROVE LineInv' /\ AheadInv' BY <1>1, <1>SendLine
<1>2. ASSUME NEW t \in Threads, PopActor(t) PROVE LineInv' /\ AheadInv'
  BY Zenon, <1>2, NoMessage, <1>LineKept DEF PopActor
<1>3. ASSUME NEW t \in Threads, Step(t) PROVE LineInv' /\ AheadInv'
  BY <1>3, <1>FlushSignalLine, <1>FlushMessageLine, <1>SendMessageLine, <1>RestLine
<1>4. CASE IoAlarmDue
  <2>1. io \in Threads BY DEF Threads
  <2> QED BY Zenon, <1>4, <2>1, NoMessage, <1>LineKept DEF IoAlarmDue
<1>5. CASE UNCHANGED <<ran, reader, mailbox, exec, todo>>
  BY Zenon, <1>5 DEF LineInv, AheadInv, Line
<1> QED BY <1>1, <1>2, <1>3, <1>4, <1>5 DEF Next, vars, IoAlarmChanged, Tick

\* The order of the line is the order in which messages run.
LEMMA LineInOrder == Base /\ LineInv => InOrder
<1> SUFFICES ASSUME Base, LineInv PROVE InOrder OBVIOUS
<1>1. ran \in Seq(PacketType) BY LineType
<1>2. ran # <<>> => Head(ran) = NoPacket BY <1>1 DEF LineInv
<1>3. ASSUME NEW j \in DOMAIN ran, NEW k \in DOMAIN ran, j < k
      PROVE  ran[j] # ran[k] /\ (ran[j].from = ran[k].from => ran[j].no < ran[k].no)
  <2>1. Lt(ran[j], ran[k]) BY <1>3 DEF LineInv, Ordered
  <2>2. ran[j] \in PacketType BY <1>1
  <2>3. ran[j].no \in Int BY <2>2 DEF PacketType
  <2> QED BY <2>1, <2>3 DEF Lt
<1> QED BY <1>2, <1>3 DEF InOrder

\* Messages of one thread run in the order in which it sends them, none twice
\* and none before start_up, whether they wait in the mailbox, are taken over
\* by another owner or run at once on the sender's stack.
THEOREM InOrderAlways == Spec => []InOrder
  BY InitBase, NextBase, InitNumber, NextNumber, InitCover, NextCover, InitStart, NextStart,
     InitOwn, NextOwn, InitLine, NextLine, LineInOrder, PTL DEF Spec

-----------------------------------------------------------------------------
(* The place in the queue                                                  *)

FS == INSTANCE FiniteSetTheorems

LEMMA Counted == NoneOrOne
<1>1. ASSUME NEW S PROVE FS!Cardinality(S) = Cardinality(S) BY DEF FS!Cardinality, Cardinality
<1>2. Cardinality({}) = 0 BY <1>1, FS!FS_EmptySet
<1>3. ASSUME NEW t PROVE Cardinality({t}) = 1 BY <1>1, FS!FS_Singleton
<1> QED BY <1>2, <1>3 DEF NoneOrOne

\* Whatever the threads do, the InQueue flag of the actor's word (or of the
\* owner's copy) is set exactly while one pointer to it is in the queue, on
\* its way there (finish(), add_to_queue) or popped and not yet handled (Pop).
THEOREM QueuedOnceAlways == Spec => []QueuedOnce
  BY InitBase, NextBase, InitQueue, NextQueue, Counted, QueueOnce, PTL DEF Spec
=============================================================================
