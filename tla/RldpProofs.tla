----------------------------- MODULE RldpProofs -----------------------------
(***************************************************************************)
(* Transfers of rldp are delivered once and whole, for any number of calls *)
(* and parts, any sizes of window, burst and code, and whatever the        *)
(* network loses, delays or reorders.                                      *)
(***************************************************************************)
EXTENDS Rldp, FiniteSetTheorems, TLAPS

SenderType == [part : Nat, seqno : Nat, confirmed : Nat]
ReceiverType == [alive : BOOLEAN, part : Nat, cnt : Nat, max_seqno : Nat,
                 decoder : SUBSET (Nat \X Nat), data : Seq(SUBSET Nat)]
SymbolType == [type : {"part", "confirm"}, transfer : Transfers, part : Nat, seqno : Nat]
CompleteType == [type : {"complete"}, transfer : Transfers, part : Nat]

TypeInv ==
  /\ setup \in [Calls -> Setups]
  /\ senders \in [Transfers -> SenderType \cup {None}]
  /\ ended \in [Transfers -> {"no", "timeout", "completed"}]
  /\ receivers \in [Transfers -> ReceiverType \cup {None}]
  /\ arrived \subseteq Transfers
  /\ received \in [Transfers -> Nat]
  /\ lru \in [Sides -> Seq(Transfers)]
  /\ max_size \subseteq Transfers /\ queries \subseteq Calls /\ serving \subseteq Calls
  /\ promise \in [Calls -> {"none", "pending", "answered", "timeout"}]
  /\ net \subseteq SymbolType \cup CompleteType

\* The parts a receiver has decoded, and that it has decoded all of them
Level(r) == IF r = None THEN 0 ELSE r.part
Done(r) == r # None /\ ~r.alive

\* A sender with n parts, whose receiver has decoded level of them
SenderOK(s, n, level) ==
  s # None => /\ s.part < n /\ s.part <= level
              /\ s.seqno <= MaxSeqno /\ s.confirmed <= s.seqno
              /\ s.seqno - s.confirmed <= Window + 1

\* A receiver of n parts: each decoded part comes from symbols of its own, and
\* the decoder holds symbols of the current part only.
ReceiverOK(r, n) ==
  r # None => /\ r.part = Len(r.data) /\ r.part <= n /\ (r.alive <=> r.part < n)
              /\ r.cnt < ConfirmEvery
              /\ \A symbol \in r.decoder : symbol[1] = r.part
              /\ \A k \in DOMAIN r.data : r.data[k] = {k - 1}

\* DeliveredIntact is not inductive: a completion on its way, and an entry of
\* the lru list, must be about what the receiver really has decoded.
IndInv ==
  /\ TypeInv
  /\ \A t \in Transfers :
       /\ SenderOK(senders[t], Parts(t), Level(receivers[t]))
       /\ ReceiverOK(receivers[t], Parts(t))
       /\ ended[t] = "completed" => Done(receivers[t])
       /\ t \in arrived => Done(receivers[t])
       /\ received[t] = IF Done(receivers[t]) /\ t \notin arrived THEN 1 ELSE 0
  /\ \A side \in Sides :
       /\ Len(lru[side]) <= LruSize
       /\ \A k \in DOMAIN lru[side] : Done(receivers[lru[side][k]])
  /\ \A p \in net : p.type = "complete" => p.part < Level(receivers[p.transfer])
  /\ \A q \in Calls : promise[q] = "answered" => received[<<q, "back">>] = 1

-----------------------------------------------------------------------------
(* Constants                                                               *)

\* A transfer has at least one part.
LEMMA PartsType ==
  ASSUME setup \in [Calls -> Setups], NEW t \in Transfers
  PROVE  Parts(t) \in Nat \ {0}
<1>1. t[1] \in Calls /\ t[2] \in Sides BY DEF Transfers
<1>2. setup[t[1]] \in Setups BY <1>1
<1>3. setup[t[1]].parts \in [Sides -> Nat \ {0}] BY <1>2, RldpConstants
<1> QED BY <1>1, <1>3 DEF Parts, Setup

\* The transfers of a call, and the other transfer of its exchange.
LEMMA TransferType ==
  /\ \A q \in Calls : <<q, "out">> \in Transfers /\ <<q, "back">> \in Transfers
  /\ \A t \in Transfers : Xor(t) \in Transfers /\ t[1] \in Calls /\ t[2] \in Sides
  BY DEF Transfers, Sides, Xor

\* The widths and bounds are numbers.
LEMMA BoundsType ==
  /\ Symbols \in Nat \ {0} /\ Burst \in Nat \ {0} /\ ConfirmEvery \in Nat \ {0}
  /\ LruSize \in Nat \ {0} /\ Window \in Nat /\ MaxSeqno \in Nat
  BY RldpConstants

\* None is neither a sender nor a receiver.
LEMMA NoneIsNone == None \notin SenderType /\ None \notin ReceiverType
  BY RldpConstants DEF SenderType, ReceiverType

\* A sender at its start.
LEMMA NewSenderType ==
  /\ NewSender \in SenderType /\ NewSender # None
  /\ NewSender.part = 0 /\ NewSender.seqno = 0 /\ NewSender.confirmed = 0
<1>1. NewSender \in SenderType /\ NewSender.part = 0 /\ NewSender.seqno = 0 /\ NewSender.confirmed = 0
  BY DEF NewSender, SenderType
<1> QED BY <1>1, NoneIsNone

\* A receiver at its start.
LEMMA NewReceiverType ==
  /\ NewReceiver \in ReceiverType /\ NewReceiver # None
  /\ NewReceiver.alive /\ NewReceiver.part = 0 /\ NewReceiver.cnt = 0
  /\ NewReceiver.decoder = {} /\ NewReceiver.data = << >>
<1>1. /\ NewReceiver \in ReceiverType
      /\ NewReceiver.alive /\ NewReceiver.part = 0 /\ NewReceiver.cnt = 0
      /\ NewReceiver.decoder = {} /\ NewReceiver.data = << >>
  BY DEF NewReceiver, ReceiverType
<1> QED BY <1>1, NoneIsNone

-----------------------------------------------------------------------------
(* Steps that leave the receivers alone                                    *)

\* One sender is replaced or removed, and completions that are added to the
\* network are true.
LEMMA SenderChanged ==
  ASSUME IndInv, NEW t \in Transfers, NEW s \in SenderType \cup {None},
         SenderOK(s, Parts(t), Level(receivers[t])),
         senders' = [senders EXCEPT ![t] = s],
         UNCHANGED <<setup, receivers, arrived, received, lru>>,
         ended' \in [Transfers -> {"no", "timeout", "completed"}],
         \A u \in Transfers : ended'[u] = "completed" => Done(receivers[u]),
         max_size' \subseteq Transfers, queries' \subseteq Calls, serving' \subseteq Calls,
         promise' \in [Calls -> {"none", "pending", "answered", "timeout"}],
         \A q \in Calls : promise'[q] = "answered" => promise[q] = "answered",
         net' \subseteq SymbolType \cup CompleteType,
         \A p \in net' : \/ p \in net
                         \/ p.type = "complete" => p.part < Level(receivers[p.transfer])
  PROVE  IndInv'
<1>1. TypeInv' BY DEF IndInv, TypeInv
<1>2. \A u \in Transfers : Parts(u)' = Parts(u) BY DEF Parts, Setup
<1>3. ASSUME NEW u \in Transfers
      PROVE  SenderOK(senders'[u], Parts(u), Level(receivers[u]))
  <2>1. senders'[u] = IF u = t THEN s ELSE senders[u] BY DEF IndInv, TypeInv
  <2> QED BY <2>1 DEF IndInv
<1>4. \A u \in Transfers : SenderOK(senders[u], Parts(u), Level(receivers[u]))'
  BY <1>2, <1>3 DEF SenderOK, Level
<1>5. \A u \in Transfers : ReceiverOK(receivers[u], Parts(u))' 
  BY <1>2 DEF IndInv, ReceiverOK
<1>6. \A u \in Transfers :
        /\ ended'[u] = "completed" => Done(receivers'[u])
        /\ u \in arrived' => Done(receivers'[u])
        /\ received'[u] = IF Done(receivers'[u]) /\ u \notin arrived' THEN 1 ELSE 0
  BY DEF IndInv
<1>7. \A p \in net' : p.type = "complete" => p.part < Level(receivers'[p.transfer])
  BY DEF IndInv
<1>8. \A q \in Calls : promise'[q] = "answered" => received'[<<q, "back">>] = 1
  BY DEF IndInv
<1> QED BY <1>1, <1>4, <1>5, <1>6, <1>7, <1>8 DEF IndInv, Done, Level

\* A packet is lost.
LEMMA LoseStep ==
  ASSUME IndInv, NEW p \in net, Lose(p)
  PROVE  IndInv'
<1>1. p.transfer \in Transfers BY DEF IndInv, TypeInv, SymbolType, CompleteType
<1>2. senders' = [senders EXCEPT ![p.transfer] = senders[p.transfer]]
  BY <1>1 DEF Lose, peer, IndInv, TypeInv
<1>3. senders[p.transfer] \in SenderType \cup {None} BY <1>1 DEF IndInv, TypeInv
<1>4. SenderOK(senders[p.transfer], Parts(p.transfer), Level(receivers[p.transfer]))
  BY <1>1 DEF IndInv
<1> QED BY <1>1, <1>2, <1>3, <1>4, SenderChanged DEF Lose, peer, rldp, IndInv, TypeInv

\* A new sender is behind its receiver, whatever that has.
LEMMA NewSenderOK ==
  ASSUME IndInv, NEW t \in Transfers
  PROVE  SenderOK(NewSender, Parts(t), Level(receivers[t]))
<1>1. Parts(t) \in Nat \ {0} BY PartsType DEF IndInv, TypeInv
<1>2. Level(receivers[t]) \in Nat BY DEF IndInv, TypeInv, Level, ReceiverType
<1> QED BY <1>1, <1>2, NewSenderType, BoundsType DEF SenderOK

\* A message is sent.
LEMMA SendMessageStep ==
  ASSUME IndInv, NEW q \in Calls, send_message(q)
  PROVE  IndInv'
<1>1. <<q, "out">> \in Transfers BY TransferType
<1> QED BY <1>1, NewSenderType, NewSenderOK, SenderChanged
        DEF send_message, rldp, IndInv, TypeInv

\* A query is sent.
LEMMA SendQueryStep ==
  ASSUME IndInv, NEW q \in Calls, send_query_ex(q)
  PROVE  IndInv'
<1>1. <<q, "out">> \in Transfers /\ Xor(<<q, "out">>) \in Transfers BY TransferType
<1>2. promise' \in [Calls -> {"none", "pending", "answered", "timeout"}]
  BY DEF send_query_ex, IndInv, TypeInv
<1>3. \A c \in Calls : promise'[c] = "answered" => promise[c] = "answered"
  BY DEF send_query_ex, IndInv, TypeInv
<1>4. max_size' \subseteq Transfers /\ queries' \subseteq Calls /\ serving' \subseteq Calls
  BY <1>1 DEF send_query_ex, IndInv, TypeInv
<1>5. /\ ended' \in [Transfers -> {"no", "timeout", "completed"}]
      /\ \A u \in Transfers : ended'[u] = "completed" => Done(receivers[u])
      /\ net' \subseteq SymbolType \cup CompleteType /\ net' = net
  BY DEF send_query_ex, IndInv, TypeInv
<1>6. SenderOK(NewSender, Parts(<<q, "out">>), Level(receivers[<<q, "out">>])) BY <1>1, NewSenderOK
<1>7. /\ senders' = [senders EXCEPT ![<<q, "out">>] = NewSender]
      /\ UNCHANGED <<setup, receivers, arrived, received, lru>>
  BY DEF send_query_ex
<1> QED BY <1>1, <1>2, <1>3, <1>4, <1>5, <1>6, <1>7, NewSenderType, SenderChanged

\* A query is answered, or not.
LEMMA AnswerQueryStep ==
  ASSUME IndInv, NEW q \in Calls, answer_query(q)
  PROVE  IndInv'
<1> DEFINE t == Xor(<<q, "out">>)
<1>1. t \in Transfers BY TransferType
<1> HIDE DEF t
<1>2. CASE senders' = [senders EXCEPT ![t] = NewSender]
  BY <1>1, <1>2, NewSenderType, NewSenderOK, SenderChanged DEF answer_query, IndInv, TypeInv
<1>3. CASE senders' = senders
  <2>1. senders' = [senders EXCEPT ![t] = senders[t]] BY <1>1, <1>3 DEF IndInv, TypeInv
  <2>2. senders[t] \in SenderType \cup {None} BY <1>1 DEF IndInv, TypeInv
  <2>3. SenderOK(senders[t], Parts(t), Level(receivers[t])) BY <1>1 DEF IndInv
  <2> QED BY <1>1, <2>1, <2>2, <2>3, SenderChanged DEF answer_query, IndInv, TypeInv
<1> QED BY <1>2, <1>3 DEF answer_query, t

\* A query times out, or RldpIn forgets it.
LEMMA QueryStep ==
  ASSUME IndInv, NEW q \in Calls, Query(q)
  PROVE  IndInv'
<1> DEFINE t == <<q, "out">>
<1>1. t \in Transfers BY TransferType
<1> HIDE DEF t
<1>2. senders' = [senders EXCEPT ![t] = senders[t]]
  BY <1>1 DEF Query, QueryAlarm, alarm_query, peer, IndInv, TypeInv
<1>3. senders[t] \in SenderType \cup {None} BY <1>1 DEF IndInv, TypeInv
<1>4. SenderOK(senders[t], Parts(t), Level(receivers[t])) BY <1>1 DEF IndInv
<1>5. promise' \in [Calls -> {"none", "pending", "answered", "timeout"}]
  BY DEF Query, QueryAlarm, alarm_query, IndInv, TypeInv
<1>6. \A c \in Calls : promise'[c] = "answered" => promise[c] = "answered"
  BY DEF Query, QueryAlarm, alarm_query, IndInv, TypeInv
<1>7. max_size' \subseteq Transfers /\ queries' \subseteq Calls /\ serving' \subseteq Calls
  BY DEF Query, QueryAlarm, alarm_query, IndInv, TypeInv
<1>8. UNCHANGED <<setup, receivers, arrived, received, lru, ended, net>>
  BY DEF Query, QueryAlarm, alarm_query, peer
<1>9. /\ ended' \in [Transfers -> {"no", "timeout", "completed"}]
      /\ \A u \in Transfers : ended'[u] = "completed" => Done(receivers[u])
      /\ net' \subseteq SymbolType \cup CompleteType
  BY <1>8 DEF IndInv, TypeInv
<1> QED BY <1>1, <1>2, <1>3, <1>4, <1>5, <1>6, <1>7, <1>8, <1>9, SenderChanged

\* What send_part adds to the sequence number: the window is not exceeded.
LEMMA FreshBounds ==
  ASSUME NEW s \in SenderType, s.confirmed <= s.seqno, s.seqno - s.confirmed <= Window + 1
  PROVE  Fresh(s) \in Nat /\ s.seqno + Fresh(s) - s.confirmed <= Window + 1
  BY BoundsType DEF Fresh, SenderType

\* A sender sends symbols.
LEMMA SenderAlarmStep ==
  ASSUME IndInv, NEW t \in Transfers, SenderAlarm(t)
  PROVE  IndInv'
<1> DEFINE s == senders[t]
           r == [s EXCEPT !.seqno = @ + Fresh(s)]
<1>1. s \in SenderType /\ s # None BY DEF SenderAlarm, IndInv, TypeInv
<1>2. SenderOK(s, Parts(t), Level(receivers[t])) BY DEF IndInv
<1>3. Fresh(s) \in Nat /\ s.seqno + Fresh(s) - s.confirmed <= Window + 1
  BY <1>1, <1>2, FreshBounds DEF SenderOK
<1>4. senders' = [senders EXCEPT ![t] = r] BY DEF SenderAlarm
<1>5. s.seqno + Fresh(s) <= MaxSeqno BY DEF SenderAlarm
<1>6. s.part \in Nat BY <1>1 DEF SenderType
<1>7. \A k \in SentSeqnos(s) : k \in Nat BY <1>1, <1>3 DEF SentSeqnos, SenderType
<1>8. net' \subseteq SymbolType \cup CompleteType /\ \A p \in net' : p \in net \/ p.type # "complete"
  <2>1. net' = net \cup {[type |-> "part", transfer |-> t, part |-> s.part, seqno |-> k] :
                           k \in SentSeqnos(s)} BY DEF SenderAlarm
  <2>2. \A k \in Nat : /\ [type |-> "part", transfer |-> t, part |-> s.part, seqno |-> k] \in SymbolType
                       /\ [type |-> "part", transfer |-> t, part |-> s.part, seqno |-> k].type = "part"
    BY <1>6 DEF SymbolType
  <2> QED BY <1>7, <2>1, <2>2 DEF IndInv, TypeInv
<1> HIDE DEF s
<1>9. /\ r \in SenderType /\ r.part = s.part /\ r.confirmed = s.confirmed
      /\ r.seqno = s.seqno + Fresh(s)
  BY <1>1, <1>3 DEF SenderType
<1> HIDE DEF r
<1>10. SenderOK(r, Parts(t), Level(receivers[t]))
  BY <1>1, <1>2, <1>3, <1>5, <1>9 DEF SenderOK, SenderType
<1>11. /\ UNCHANGED <<setup, receivers, arrived, received, lru>>
       /\ UNCHANGED <<ended, max_size, queries, serving, promise>>
  BY DEF SenderAlarm, rldp
<1>12. /\ ended' \in [Transfers -> {"no", "timeout", "completed"}]
       /\ \A u \in Transfers : ended'[u] = "completed" => Done(receivers[u])
       /\ max_size' \subseteq Transfers /\ queries' \subseteq Calls /\ serving' \subseteq Calls
       /\ promise' \in [Calls -> {"none", "pending", "answered", "timeout"}]
  BY <1>11 DEF IndInv, TypeInv
<1> QED BY <1>4, <1>8, <1>9, <1>10, <1>11, <1>12, SenderChanged

\* A sender gives up.
LEMMA SenderTimeoutStep ==
  ASSUME IndInv, NEW t \in Transfers, SenderTimeout(t)
  PROVE  IndInv'
<1>1. SenderOK(None, Parts(t), Level(receivers[t])) BY DEF SenderOK
<1>2. ended' \in [Transfers -> {"no", "timeout", "completed"}]
  BY DEF SenderTimeout, IndInv, TypeInv
<1>3. \A u \in Transfers : ended'[u] = "completed" => Done(receivers[u])
  BY DEF SenderTimeout, IndInv, TypeInv
<1> QED BY <1>1, <1>2, <1>3, SenderChanged DEF SenderTimeout, rldp, IndInv, TypeInv

\* A confirmation arrives.
LEMMA ConfirmStep ==
  ASSUME IndInv, NEW p \in net, confirm(p)
  PROVE  IndInv'
<1> DEFINE t == p.transfer
           s == senders[t]
           r == IF s # None /\ Confirms(s, p) THEN [s EXCEPT !.confirmed = p.seqno] ELSE s
<1>1. t \in Transfers /\ p.seqno \in Nat
  BY DEF confirm, IndInv, TypeInv, SymbolType, CompleteType
<1>2. s \in SenderType \cup {None} BY <1>1 DEF IndInv, TypeInv
<1>3. SenderOK(s, Parts(t), Level(receivers[t])) BY <1>1 DEF IndInv
<1>4. senders' = [senders EXCEPT ![t] = r] BY <1>1 DEF confirm, IndInv, TypeInv
<1>5. net' \subseteq net BY DEF confirm, Replies
<1> HIDE DEF s, t
<1>6. r \in SenderType \cup {None} /\ SenderOK(r, Parts(t), Level(receivers[t]))
  <2>1. CASE s # None /\ Confirms(s, p)
    <3> DEFINE c == [s EXCEPT !.confirmed = p.seqno]
    <3>1. c \in SenderType /\ c.part = s.part /\ c.seqno = s.seqno /\ c.confirmed = p.seqno
      BY <1>1, <1>2, <2>1 DEF SenderType
    <3>2. p.seqno <= s.seqno /\ p.seqno >= s.confirmed BY <2>1 DEF Confirms
    <3>3. r = c BY <2>1
    <3> HIDE DEF c, r
    <3> QED BY <1>1, <1>2, <1>3, <2>1, <3>1, <3>2, <3>3, BoundsType DEF SenderOK, SenderType
  <2>2. CASE ~(s # None /\ Confirms(s, p)) BY <1>2, <1>3, <2>2
  <2> QED BY <2>1, <2>2
<1> HIDE DEF r
<1> QED BY <1>1, <1>4, <1>5, <1>6, SenderChanged DEF confirm, rldp, IndInv, TypeInv

\* A completion arrives: what it is about has been decoded, so the sender stays
\* behind the receiver, and the last one means that all is decoded.
LEMMA CompleteStep ==
  ASSUME IndInv, NEW p \in net, complete(p)
  PROVE  IndInv'
<1> DEFINE t == p.transfer
           s == senders[t]
           next == [NewSender EXCEPT !.part = s.part + 1]
           last == s.part + 1 = Parts(t)
<1>1. t \in Transfers /\ p.part \in Nat
  BY DEF IndInv, TypeInv, SymbolType, CompleteType
<1>2. s \in SenderType \cup {None} BY <1>1 DEF IndInv, TypeInv
<1>3. SenderOK(s, Parts(t), Level(receivers[t])) /\ ReceiverOK(receivers[t], Parts(t))
  BY <1>1 DEF IndInv
<1>4. p.part < Level(receivers[t]) BY DEF complete, IndInv
<1>5. net' \subseteq net BY DEF complete, Replies
<1>6. Parts(t) \in Nat \ {0} BY <1>1, PartsType DEF IndInv, TypeInv
<1>7. Level(receivers[t]) \in Nat BY <1>1 DEF IndInv, TypeInv, Level, ReceiverType
<1>8. CASE s # None /\ Completes(s, p)
  <2>1. s \in SenderType /\ s.part \in Nat /\ s.part = p.part
    BY <1>2, <1>8 DEF SenderType, Completes
  <2>2. CASE last
    <3>1. Done(receivers[t])
      BY <1>1, <1>3, <1>4, <1>6, <2>1, <2>2 DEF Done, Level, ReceiverOK, IndInv, TypeInv, ReceiverType
    <3>2. senders' = [senders EXCEPT ![t] = None] BY <1>8, <2>2 DEF complete
    <3>3. ended' = [ended EXCEPT ![t] = "completed"] BY <1>8, <2>2 DEF complete
    <3>4. /\ ended' \in [Transfers -> {"no", "timeout", "completed"}]
          /\ \A u \in Transfers : ended'[u] = "completed" => Done(receivers[u])
      BY <1>1, <3>1, <3>3 DEF IndInv, TypeInv
    <3>5. SenderOK(None, Parts(t), Level(receivers[t])) BY DEF SenderOK
    <3> HIDE DEF s, t
    <3> QED BY <1>1, <1>5, <3>2, <3>4, <3>5, SenderChanged DEF complete, rldp, IndInv, TypeInv
  <2>3. CASE ~last
    <3>1. senders' = [senders EXCEPT ![t] = next] BY <1>8, <2>3 DEF complete
    <3>2. ended' = ended BY <1>8, <2>3 DEF complete
    <3>3. next \in SenderType /\ next.part = s.part + 1 /\ next.seqno = 0 /\ next.confirmed = 0
      BY <2>1 DEF NewSender, SenderType
    <3>4. s.part < Parts(t) BY <1>3, <1>8 DEF SenderOK
    <3> HIDE DEF s, t, next
    <3>5. SenderOK(next, Parts(t), Level(receivers[t]))
      BY <1>4, <1>6, <1>7, <2>1, <2>3, <3>3, <3>4, BoundsType DEF SenderOK
    <3> QED BY <1>1, <1>5, <3>1, <3>2, <3>3, <3>5, SenderChanged DEF complete, rldp, IndInv, TypeInv
  <2> QED BY <2>2, <2>3
<1>9. CASE ~(s # None /\ Completes(s, p))
  <2>1. senders' = senders /\ ended' = ended BY <1>9 DEF complete
  <2>2. senders' = [senders EXCEPT ![t] = s] BY <1>1, <2>1 DEF IndInv, TypeInv
  <2> HIDE DEF s, t
  <2> QED BY <1>1, <1>2, <1>3, <1>5, <2>1, <2>2, SenderChanged DEF complete, rldp, IndInv, TypeInv
<1> QED BY <1>8, <1>9

-----------------------------------------------------------------------------
(* Steps of the receivers                                                  *)

\* The receiver that gets a part is the transfer's, or a new one that has
\* nothing yet.  No transfer of the lru list is without its receiver.
LEMMA ReceiverOfFacts ==
  ASSUME IndInv, NEW p \in net, p.type = "part"
  PROVE  /\ p \in SymbolType /\ p.transfer \in Transfers
         /\ ReceiverOf(p) = None => ~(p.part = 0 /\ Accepts(p.transfer))
         /\ receivers[p.transfer] # None => ReceiverOf(p) = receivers[p.transfer]
         /\ receivers[p.transfer] = None /\ ReceiverOf(p) # None
              => ReceiverOf(p) = NewReceiver /\ p.part = 0
<1> DEFINE t == p.transfer
<1>1. p \in SymbolType /\ t \in Transfers
  BY DEF IndInv, TypeInv, SymbolType, CompleteType
<1>2. t[2] \in Sides BY <1>1, TransferType
<1>3. receivers[t] = None => ~InLru(lru[t[2]], t)
  BY <1>2 DEF IndInv, Done, InLru
<1> HIDE DEF t
<1>4. ReceiverOf(p) = IF receivers[t] # None THEN receivers[t]
                      ELSE IF p.part = 0 /\ Accepts(t) /\ ~InLru(lru[t[2]], t)
                           THEN NewReceiver ELSE None
  BY DEF ReceiverOf, t
<1> QED BY <1>1, <1>3, <1>4, NewReceiverType DEF t

\* A part that no living receiver gets.
LEMMA DropPartStep ==
  ASSUME IndInv, NEW p \in net, drop_part(p)
  PROVE  IndInv'
<1> DEFINE t == p.transfer
<1>1. t \in Transfers BY DEF IndInv, TypeInv, SymbolType, CompleteType
<1>2. ~(ReceiverOf(p) = None /\ p.part = 0 /\ Accepts(t))
  BY ReceiverOfFacts DEF drop_part
<1>3. net' \subseteq net BY <1>2 DEF drop_part, Replies
<1>4. senders' = [senders EXCEPT ![t] = senders[t]]
  BY <1>1 DEF drop_part, peer, IndInv, TypeInv
<1>5. senders[t] \in SenderType \cup {None} BY <1>1 DEF IndInv, TypeInv
<1>6. SenderOK(senders[t], Parts(t), Level(receivers[t])) BY <1>1 DEF IndInv
<1> HIDE DEF t
<1> QED BY <1>1, <1>3, <1>4, <1>5, <1>6, SenderChanged
        DEF drop_part, peer, rldp, IndInv, TypeInv

\* A receiver that was not done goes on, and is done when it has all parts.
LEMMA ReceiverChanged ==
  ASSUME IndInv, NEW t \in Transfers, NEW r \in ReceiverType,
         ~Done(receivers[t]), ReceiverOK(r, Parts(t)), Level(receivers[t]) <= r.part,
         receivers' = [receivers EXCEPT ![t] = r],
         arrived' = IF r.alive THEN arrived ELSE arrived \cup {t},
         UNCHANGED <<setup, senders, ended, rldp>>,
         net' \subseteq SymbolType \cup CompleteType,
         \A p \in net' : p \in net \/ (p.transfer = t /\ (p.type = "complete" => p.part < r.part))
  PROVE  IndInv'
<1>1. TypeInv' BY DEF IndInv, TypeInv, rldp
<1>2. \A u \in Transfers : Parts(u)' = Parts(u) BY DEF Parts, Setup
<1>3. \A u \in Transfers : receivers'[u] = IF u = t THEN r ELSE receivers[u]
  BY DEF IndInv, TypeInv
<1>4. r # None /\ Level(r) = r.part /\ r.part \in Nat BY NoneIsNone DEF Level, ReceiverType
<1>5. ASSUME NEW u \in Transfers
      PROVE  /\ Level(receivers[u]) \in Nat /\ Level(receivers'[u]) \in Nat
             /\ Level(receivers[u]) <= Level(receivers'[u])
             /\ Done(receivers[u]) => u # t /\ Done(receivers'[u])
  <2>1. Level(receivers[u]) \in Nat BY DEF IndInv, TypeInv, Level, ReceiverType
  <2> QED BY <1>3, <1>4, <2>1
<1>6. ASSUME NEW u \in Transfers
      PROVE  SenderOK(senders[u], Parts(u), Level(receivers'[u]))
  <2>1. SenderOK(senders[u], Parts(u), Level(receivers[u])) BY DEF IndInv
  <2>2. senders[u] # None => senders[u].part \in Nat BY DEF IndInv, TypeInv, SenderType
  <2> QED BY <1>5, <2>1, <2>2 DEF SenderOK
<1>7. \A u \in Transfers : SenderOK(senders[u], Parts(u), Level(receivers[u]))'
  BY <1>2, <1>6 DEF SenderOK, Level
<1>8. \A u \in Transfers : ReceiverOK(receivers'[u], Parts(u)) BY <1>3 DEF IndInv
<1>9. \A u \in Transfers : ReceiverOK(receivers[u], Parts(u))'
  BY <1>2, <1>8 DEF ReceiverOK
<1>10. ASSUME NEW u \in Transfers
       PROVE  /\ ended'[u] = "completed" => Done(receivers'[u])
              /\ u \in arrived' => Done(receivers'[u])
              /\ received'[u] = IF Done(receivers'[u]) /\ u \notin arrived' THEN 1 ELSE 0
  <2>1. /\ ended[u] = "completed" => Done(receivers[u])
        /\ u \in arrived => Done(receivers[u])
        /\ received[u] = IF Done(receivers[u]) /\ u \notin arrived THEN 1 ELSE 0
    BY DEF IndInv
  <2>2. CASE u = t
    <3>1. Done(receivers'[u]) <=> ~r.alive BY <1>3, <1>4, <2>2 DEF Done
    <3> QED BY <2>1, <2>2, <3>1 DEF rldp
  <2>3. CASE u # t
    <3>1. receivers'[u] = receivers[u] BY <1>3, <2>3
    <3>2. u \in arrived' <=> u \in arrived BY <2>3
    <3> QED BY <2>1, <3>1, <3>2 DEF rldp
  <2> QED BY <2>2, <2>3
<1>11. ASSUME NEW side \in Sides
       PROVE  /\ Len(lru'[side]) <= LruSize
              /\ \A k \in DOMAIN lru'[side] : Done(receivers'[lru'[side][k]])
  <2>1. lru' = lru BY DEF rldp
  <2>2. \A k \in DOMAIN lru[side] : lru[side][k] \in Transfers BY DEF IndInv, TypeInv
  <2> QED BY <1>5, <2>1, <2>2 DEF IndInv
<1>12. ASSUME NEW p \in net', p.type = "complete"
       PROVE  p.part < Level(receivers'[p.transfer])
  <2>1. p \in CompleteType BY <1>12 DEF SymbolType, CompleteType
  <2>2. p.transfer \in Transfers /\ p.part \in Nat BY <2>1 DEF CompleteType
  <2>3. CASE p \in net
    <3>1. p.part < Level(receivers[p.transfer]) BY <1>12, <2>3 DEF IndInv
    <3> QED BY <1>5, <2>2, <3>1
  <2>4. CASE p.transfer = t /\ p.part < r.part BY <1>3, <1>4, <2>2, <2>4
  <2> QED BY <1>12, <2>3, <2>4
<1>13. \A q \in Calls : promise'[q] = "answered" => received'[<<q, "back">>] = 1
  BY DEF IndInv, rldp
<1> QED BY <1>1, <1>7, <1>9, <1>10, <1>11, <1>12, <1>13 DEF IndInv, Done, Level

\* The receiver adds a symbol of its current part.
LEMMA AddedFacts ==
  ASSUME NEW r \in ReceiverType, NEW p \in SymbolType, p.part = r.part,
         \A symbol \in r.decoder : symbol[1] = r.part
  PROVE  /\ Added(r, p) \in ReceiverType
         /\ Added(r, p).alive = r.alive /\ Added(r, p).part = r.part
         /\ Added(r, p).data = r.data /\ Added(r, p).cnt = r.cnt + 1
         /\ \A symbol \in Added(r, p).decoder : symbol[1] = r.part
         /\ {symbol[1] : symbol \in Added(r, p).decoder} = {r.part}
<1>1. p.part \in Nat /\ p.seqno \in Nat /\ <<p.part, p.seqno>> \in Nat \X Nat BY DEF SymbolType
<1>2. /\ Added(r, p) \in ReceiverType
      /\ Added(r, p).alive = r.alive /\ Added(r, p).part = r.part
      /\ Added(r, p).data = r.data /\ Added(r, p).cnt = r.cnt + 1
      /\ Added(r, p).decoder = r.decoder \cup {<<p.part, p.seqno>>}
  <2> DEFINE m == IF p.seqno > r.max_seqno THEN p.seqno ELSE r.max_seqno
             d == r.decoder \cup {<<p.part, p.seqno>>}
             n == r.cnt + 1
  <2>1. m \in Nat /\ d \in SUBSET (Nat \X Nat) /\ n \in Nat BY <1>1 DEF ReceiverType
  <2>2. Added(r, p) = [r EXCEPT !.cnt = n, !.max_seqno = m, !.decoder = d] BY DEF Added, ReceiverType
  <2> HIDE DEF m, d, n
  <2>3. /\ Added(r, p) \in ReceiverType
        /\ Added(r, p).alive = r.alive /\ Added(r, p).part = r.part
        /\ Added(r, p).data = r.data /\ Added(r, p).cnt = n /\ Added(r, p).decoder = d
    BY <2>1, <2>2 DEF ReceiverType
  <2> QED BY <2>3 DEF d, n
<1>3. <<p.part, p.seqno>>[1] = r.part OBVIOUS
<1> HIDE DEF Added
<1> QED BY <1>2, <1>3


\* A part is decoded: the data of the part come from its own symbols.
LEMMA DecodedFacts ==
  ASSUME NEW r \in ReceiverType, NEW p \in SymbolType, p.part = r.part,
         \A symbol \in r.decoder : symbol[1] = r.part, r.part = Len(r.data),
         \A k \in DOMAIN r.data : r.data[k] = {k - 1}
  PROVE  /\ Decoded(r, p) \in ReceiverType
         /\ Decoded(r, p).alive /\ Decoded(r, p).part = r.part + 1 /\ Decoded(r, p).cnt = 0
         /\ Decoded(r, p).decoder = {} /\ Len(Decoded(r, p).data) = r.part + 1
         /\ \A k \in DOMAIN Decoded(r, p).data : Decoded(r, p).data[k] = {k - 1}
<1> DEFINE d == Append(r.data, {r.part})
<1>1. r.part \in Nat /\ r.data \in Seq(SUBSET Nat) BY DEF ReceiverType
<1>2. d \in Seq(SUBSET Nat) /\ Len(d) = r.part + 1 BY <1>1
<1>3. \A k \in DOMAIN d : d[k] = {k - 1} BY <1>1
<1>4. {symbol[1] : symbol \in Added(r, p).decoder} = {r.part} BY AddedFacts
<1>5. Decoded(r, p) = [NewReceiver EXCEPT !.part = r.part + 1, !.data = d]
  BY <1>4 DEF Decoded
<1> HIDE DEF d
<1>6. /\ Decoded(r, p) \in ReceiverType
      /\ Decoded(r, p).alive /\ Decoded(r, p).part = r.part + 1 /\ Decoded(r, p).cnt = 0
      /\ Decoded(r, p).decoder = {} /\ Decoded(r, p).data = d
  <2>1. Decoded(r, p) = [alive |-> TRUE, part |-> r.part + 1, cnt |-> 0, max_seqno |-> 0,
                         decoder |-> {}, data |-> d]
    BY <1>5 DEF NewReceiver
  <2>2. r.part + 1 \in Nat BY <1>1
  <2> QED BY <1>2, <2>1, <2>2 DEF ReceiverType
<1> QED BY <1>2, <1>3, <1>6

\* A living receiver gets a part.
LEMMA ReceivePartStep ==
  ASSUME IndInv, NEW p \in net, receive_part(p)
  PROVE  IndInv'
<1> DEFINE t == p.transfer
           r == ReceiverOf(p)
<1>1. p.type = "part" /\ r # None /\ r.alive BY DEF receive_part
<1>2. p \in SymbolType /\ t \in Transfers BY <1>1, ReceiverOfFacts
<1>3. \/ receivers[t] # None /\ r = receivers[t]
      \/ receivers[t] = None /\ r = NewReceiver /\ p.part = 0
  BY <1>1, ReceiverOfFacts
<1>4. Parts(t) \in Nat \ {0} BY <1>2, PartsType DEF IndInv, TypeInv
<1>5. UNCHANGED <<setup, senders, ended, rldp>> BY DEF receive_part
<1>6. /\ r \in ReceiverType /\ ReceiverOK(r, Parts(t)) /\ Level(receivers[t]) = r.part
      /\ ~Done(receivers[t])
  <2>1. CASE receivers[t] # None /\ r = receivers[t]
    BY <1>1, <1>2, <2>1 DEF IndInv, TypeInv, Level, Done
  <2>2. CASE receivers[t] = None /\ r = NewReceiver
    <3>1. ReceiverOK(NewReceiver, Parts(t)) BY <1>4, NewReceiverType, BoundsType DEF ReceiverOK
    <3> QED BY <2>2, <3>1, NewReceiverType DEF Level, Done
  <2> QED BY <1>3, <2>1, <2>2
<1>7. p.part \in Nat /\ r.part \in Nat BY <1>2, <1>6 DEF SymbolType, ReceiverType
<1>8. \/ ReceiveOther(r, p)
      \/ p.part = r.part /\ ReceiveSymbol(r, p)
      \/ p.part = r.part /\ ReceiveDecodes(r, p)
  BY <1>7 DEF receive_part, IsOld
<1> HIDE DEF t, r
<1>9. ASSUME NEW n \in Nat
      PROVE  /\ [type |-> "complete", transfer |-> t, part |-> n] \in CompleteType
             /\ [type |-> "complete", transfer |-> t, part |-> n].transfer = t
             /\ [type |-> "complete", transfer |-> t, part |-> n].part = n
  BY <1>2 DEF CompleteType
<1>10. CASE ReceiveOther(r, p)
  <2>1. senders' = [senders EXCEPT ![t] = senders[t]] BY <1>2, <1>5 DEF IndInv, TypeInv
  <2>2. senders[t] \in SenderType \cup {None} BY <1>2 DEF IndInv, TypeInv
  <2>3. SenderOK(senders[t], Parts(t), Level(receivers[t])) BY <1>2 DEF IndInv
  <2>4. net' \subseteq SymbolType \cup CompleteType
    BY <1>7, <1>9, <1>10 DEF ReceiveOther, Replies, Complete, IndInv, TypeInv, t
  <2>5. \A c \in net' : \/ c \in net
                        \/ c.type = "complete" => c.part < Level(receivers[c.transfer])
    BY <1>6, <1>7, <1>9, <1>10 DEF ReceiveOther, Replies, Complete, IsOld, t
  <2> QED BY <1>2, <1>5, <1>10, <2>1, <2>2, <2>3, <2>4, <2>5, SenderChanged
          DEF ReceiveOther, rldp, IndInv, TypeInv
<1>11. CASE p.part = r.part /\ ReceiveSymbol(r, p)
  <2> DEFINE r1 == Added(r, p)
             due == r1.cnt >= ConfirmEvery
             r2 == IF due THEN [r1 EXCEPT !.cnt = 0] ELSE r1
             c == [type |-> "confirm", transfer |-> t, part |-> r.part, seqno |-> r1.max_seqno]
  <2>1. /\ r1 \in ReceiverType /\ r1.alive = r.alive /\ r1.part = r.part
        /\ r1.data = r.data /\ r1.cnt = r.cnt + 1
        /\ \A symbol \in r1.decoder : symbol[1] = r.part
    BY <1>1, <1>2, <1>6, <1>11, AddedFacts DEF ReceiverOK
  <2>2. /\ receivers' = [receivers EXCEPT ![t] = r2] /\ arrived' = arrived
        /\ net' = (net \ {p}) \cup (IF due THEN {c} ELSE {})
    BY <1>11 DEF ReceiveSymbol, Replies, t
  <2> HIDE DEF r1
  <2>3. /\ r2 \in ReceiverType /\ r2.alive = r.alive /\ r2.part = r.part
        /\ r2.data = r.data /\ r2.decoder = r1.decoder /\ r2.cnt < ConfirmEvery
    <3>1. CASE due
      <4>1. r2 = [r1 EXCEPT !.cnt = 0] BY <3>1
      <4>2. 0 \in Nat /\ 0 < ConfirmEvery BY BoundsType
      <4> HIDE DEF r2, due
      <4>3. /\ r2 \in ReceiverType /\ r2.cnt = 0 /\ r2.alive = r1.alive /\ r2.part = r1.part
            /\ r2.data = r1.data /\ r2.decoder = r1.decoder
        BY <2>1, <4>1, <4>2 DEF ReceiverType
      <4> QED BY <2>1, <4>2, <4>3
    <3>2. CASE ~due
      <4>1. r2 = r1 BY <3>2
      <4>2. r1.cnt \in Nat BY <2>1 DEF ReceiverType
      <4> QED BY <2>1, <3>2, <4>1, <4>2, BoundsType
    <3> QED BY <3>1, <3>2
  <2>4. c \in SymbolType /\ c.type = "confirm" /\ c.transfer = t
    BY <1>2, <1>7, <2>1 DEF SymbolType, ReceiverType
  <2> HIDE DEF r2, c, due
  <2>5. ReceiverOK(r2, Parts(t)) BY <1>1, <1>6, <2>1, <2>3 DEF ReceiverOK
  <2>6. net' \subseteq SymbolType \cup CompleteType BY <2>2, <2>4 DEF IndInv, TypeInv
  <2>7. \A d \in net' : d \in net \/ (d.transfer = t /\ (d.type = "complete" => d.part < r2.part))
    BY <2>2, <2>4
  <2>8. r2.alive /\ Level(receivers[t]) <= r2.part BY <1>1, <1>6, <1>7, <2>3
  <2> QED BY <1>2, <1>5, <1>6, <2>2, <2>3, <2>5, <2>6, <2>7, <2>8, ReceiverChanged
<1>12. CASE p.part = r.part /\ ReceiveDecodes(r, p)
  <2> DEFINE r1 == Decoded(r, p)
             last == Len(r1.data) = Parts(t)
             r2 == IF last THEN [r1 EXCEPT !.alive = FALSE] ELSE r1
             c == [type |-> "complete", transfer |-> t, part |-> r.part]
  <2>1. /\ r1 \in ReceiverType /\ r1.alive /\ r1.part = r.part + 1 /\ r1.cnt = 0
        /\ r1.decoder = {} /\ Len(r1.data) = r.part + 1
        /\ \A k \in DOMAIN r1.data : r1.data[k] = {k - 1}
    BY <1>1, <1>2, <1>6, <1>12, DecodedFacts DEF ReceiverOK
  <2>2. Complete([p EXCEPT !.part = r.part]) = c
    BY <1>2 DEF Complete, SymbolType, t
  <2>3. /\ receivers' = [receivers EXCEPT ![t] = r2]
        /\ arrived' = (IF last THEN arrived \cup {t} ELSE arrived)
        /\ net' = (net \ {p}) \cup {c}
    BY <1>12, <2>2 DEF ReceiveDecodes, Replies, t
  <2> HIDE DEF r1
  <2>4. /\ r2 \in ReceiverType /\ (r2.alive <=> ~last) /\ r2.part = r1.part
        /\ r2.data = r1.data /\ r2.decoder = r1.decoder /\ r2.cnt = 0
    BY <2>1 DEF ReceiverType
  <2>5. c \in CompleteType /\ c.transfer = t /\ c.part = r.part BY <1>7, <1>9
  <2> HIDE DEF r2, c
  <2>6. r.part < Parts(t) BY <1>1, <1>6 DEF ReceiverOK
  <2>7. last <=> r2.part = Parts(t) BY <2>1, <2>4
  <2> HIDE DEF last
  <2>8. ReceiverOK(r2, Parts(t))
    BY <1>4, <1>7, <2>1, <2>4, <2>6, <2>7, BoundsType DEF ReceiverOK
  <2>9. net' \subseteq SymbolType \cup CompleteType BY <2>3, <2>5 DEF IndInv, TypeInv
  <2>10. \A d \in net' : d \in net \/ (d.transfer = t /\ (d.type = "complete" => d.part < r2.part))
    BY <1>7, <2>1, <2>3, <2>4, <2>5
  <2>11. Level(receivers[t]) <= r2.part BY <1>6, <1>7, <2>1, <2>4
  <2>12. arrived' = IF r2.alive THEN arrived ELSE arrived \cup {t} BY <2>3, <2>4
  <2> QED BY <1>2, <1>5, <1>6, <2>3, <2>4, <2>8, <2>9, <2>10, <2>11, <2>12, ReceiverChanged
<1> QED BY <1>8, <1>10, <1>11, <1>12

-----------------------------------------------------------------------------
(* What has arrived                                                        *)

\* The lru list stays within its size and remembers what has arrived.
LEMMA RememberedFacts ==
  ASSUME NEW l \in Seq(Transfers), NEW t \in Transfers, Len(l) <= LruSize
  PROVE  /\ Remembered(l, t) \in Seq(Transfers) /\ Len(Remembered(l, t)) <= LruSize
         /\ \A k \in DOMAIN Remembered(l, t) :
              Remembered(l, t)[k] = t \/ \E j \in DOMAIN l : Remembered(l, t)[k] = l[j]
<1>1. CASE InLru(l, t) BY <1>1 DEF Remembered
<1>2. CASE ~InLru(l, t) /\ Len(l) < LruSize
  <2>1. Remembered(l, t) = Append(l, t) BY <1>2, BoundsType DEF Remembered
  <2> QED BY <1>2, <2>1, BoundsType
<1>3. CASE ~InLru(l, t) /\ Len(l) = LruSize
  <2>1. Remembered(l, t) = Append(Tail(l), t) BY <1>3, BoundsType DEF Remembered
  <2>2. /\ Tail(l) \in Seq(Transfers) /\ Len(Tail(l)) = Len(l) - 1
        /\ \A k \in DOMAIN Tail(l) : k + 1 \in DOMAIN l /\ Tail(l)[k] = l[k + 1]
    BY <1>3, BoundsType
  <2>3. \A k \in DOMAIN Append(Tail(l), t) :
          Append(Tail(l), t)[k] = t \/ (k \in DOMAIN Tail(l) /\ Append(Tail(l), t)[k] = Tail(l)[k])
    BY <2>2
  <2>4. Append(Tail(l), t) \in Seq(Transfers) /\ Len(Append(Tail(l), t)) = Len(l) BY <2>2
  <2> QED BY <1>3, <2>1, <2>2, <2>3, <2>4, BoundsType
<1> QED BY <1>1, <1>2, <1>3, BoundsType

\* Data that have arrived are handed over.
LEMMA ReceiveMessageStep ==
  ASSUME IndInv, NEW t \in Transfers, receive_message(t)
  PROVE  IndInv'
<1>1. t \in arrived /\ Done(receivers[t]) /\ received[t] = 0 BY DEF receive_message, IndInv
<1>2. t[1] \in Calls /\ t[2] \in Sides BY TransferType
<1>3. /\ received' = [received EXCEPT ![t] = 1] /\ arrived' = arrived \ {t}
      /\ UNCHANGED <<setup, senders, ended, receivers, max_size, net>>
  BY <1>1 DEF receive_message, IndInv, TypeInv
<1>4. lru' = [lru EXCEPT ![t[2]] = Remembered(lru[t[2]], t)]
  BY <1>2 DEF receive_message, IndInv, TypeInv
<1>5. lru[t[2]] \in Seq(Transfers) /\ Len(lru[t[2]]) <= LruSize BY <1>2 DEF IndInv, TypeInv
<1>6. Remembered(lru[t[2]], t) \in Seq(Transfers) BY <1>5, RememberedFacts
<1>7. TypeInv'
  <2>1. lru' \in [Sides -> Seq(Transfers)] BY <1>4, <1>6 DEF IndInv, TypeInv
  <2>2. promise' \in [Calls -> {"none", "pending", "answered", "timeout"}]
    BY DEF receive_message, IndInv, TypeInv
  <2>3. queries' \subseteq Calls /\ serving' \subseteq Calls
    BY <1>2 DEF receive_message, IndInv, TypeInv
  <2>4. received' \in [Transfers -> Nat] BY <1>3 DEF IndInv, TypeInv
  <2> QED BY <1>3, <2>1, <2>2, <2>3, <2>4 DEF IndInv, TypeInv
<1>8. \A u \in Transfers : Parts(u)' = Parts(u) BY <1>3 DEF Parts, Setup
<1>9. \A u \in Transfers : /\ SenderOK(senders[u], Parts(u), Level(receivers[u]))'
                           /\ ReceiverOK(receivers[u], Parts(u))'
  <2> SUFFICES ASSUME NEW u \in Transfers
               PROVE  /\ SenderOK(senders[u], Parts(u), Level(receivers[u]))'
                      /\ ReceiverOK(receivers[u], Parts(u))'
    OBVIOUS
  <2>1. SenderOK(senders[u], Parts(u), Level(receivers[u])) /\ ReceiverOK(receivers[u], Parts(u))
    BY DEF IndInv
  <2>2. Parts(u)' = Parts(u) BY <1>8
  <2>3. SenderOK(senders[u], Parts(u), Level(receivers[u]))'
    BY <1>3, <2>1, <2>2 DEF SenderOK, Level
  <2>4. ReceiverOK(receivers[u], Parts(u))' BY <1>3, <2>1, <2>2 DEF ReceiverOK
  <2> QED BY <2>3, <2>4
<1>10. ASSUME NEW u \in Transfers
       PROVE  /\ ended'[u] = "completed" => Done(receivers'[u])
              /\ u \in arrived' => Done(receivers'[u])
              /\ received'[u] = IF Done(receivers'[u]) /\ u \notin arrived' THEN 1 ELSE 0
  <2>1. /\ ended[u] = "completed" => Done(receivers[u])
        /\ u \in arrived => Done(receivers[u])
        /\ received[u] = IF Done(receivers[u]) /\ u \notin arrived THEN 1 ELSE 0
    BY DEF IndInv
  <2>2. received'[u] = IF u = t THEN 1 ELSE received[u] BY <1>3 DEF IndInv, TypeInv
  <2> QED BY <1>1, <1>3, <2>1, <2>2
<1>11. ASSUME NEW side \in Sides
       PROVE  /\ Len(lru'[side]) <= LruSize
              /\ \A k \in DOMAIN lru'[side] : Done(receivers'[lru'[side][k]])
  <2>1. CASE side = t[2]
    <3>1. lru'[side] = Remembered(lru[side], t) BY <1>4, <2>1 DEF IndInv, TypeInv
    <3>2. \A k \in DOMAIN lru[side] : Done(receivers[lru[side][k]]) BY DEF IndInv
    <3>3. lru[side] \in Seq(Transfers) /\ Len(lru[side]) <= LruSize BY <1>5, <2>1
    <3>4. /\ Len(Remembered(lru[side], t)) <= LruSize
          /\ \A k \in DOMAIN Remembered(lru[side], t) :
               \/ Remembered(lru[side], t)[k] = t
               \/ \E j \in DOMAIN lru[side] : Remembered(lru[side], t)[k] = lru[side][j]
      BY <3>3, RememberedFacts
    <3>5. \A k \in DOMAIN Remembered(lru[side], t) : Done(receivers[Remembered(lru[side], t)[k]])
      BY <1>1, <3>2, <3>4
    <3> QED BY <1>3, <3>1, <3>4, <3>5
  <2>2. CASE side # t[2]
    <3>1. lru'[side] = lru[side] BY <1>4, <2>2 DEF IndInv, TypeInv
    <3> QED BY <1>3, <3>1 DEF IndInv
  <2> QED BY <2>1, <2>2
<1>12. ASSUME NEW q \in Calls, promise'[q] = "answered"
       PROVE  received'[<<q, "back">>] = 1
  <2>1. <<q, "back">> \in Transfers BY TransferType
  <2>2. CASE promise[q] = "answered" BY <1>1, <1>3, <2>1, <2>2 DEF IndInv, TypeInv
  <2>3. CASE promise[q] # "answered"
    <3>1. t[1] = q /\ t[2] = "back" BY <1>12, <2>3 DEF receive_message, IndInv, TypeInv
    <3>2. t = <<q, "back">> BY <3>1 DEF Transfers
    <3> QED BY <1>3, <3>2 DEF IndInv, TypeInv
  <2> QED BY <2>2, <2>3
<1>13. \A p \in net' : p.type = "complete" => p.part < Level(receivers'[p.transfer])
  BY <1>3 DEF IndInv
<1> QED BY <1>7, <1>9, <1>10, <1>11, <1>12, <1>13 DEF IndInv, Done, Level

-----------------------------------------------------------------------------
(* The theorem                                                             *)

\* Nothing has been sent.
LEMMA InitInv == Init => IndInv
<1> SUFFICES ASSUME Init PROVE IndInv OBVIOUS
<1>1. TypeInv BY DEF Init, TypeInv
<1>2. \A t \in Transfers : Parts(t) \in Nat \ {0} BY <1>1, PartsType DEF TypeInv
<1>3. \A t \in Transfers : senders[t] = None /\ receivers[t] = None /\ ended[t] = "no" /\ received[t] = 0
  BY DEF Init
<1>4. \A side \in Sides : lru[side] = << >> BY DEF Init
<1>5. \A q \in Calls : promise[q] = "none" BY DEF Init
<1>6. arrived = {} /\ net = {} BY DEF Init
<1>7. \A t \in Transfers : /\ SenderOK(senders[t], Parts(t), Level(receivers[t]))
                           /\ ReceiverOK(receivers[t], Parts(t)) /\ ~Done(receivers[t])
  BY <1>3 DEF SenderOK, ReceiverOK, Done
<1>8. \A side \in Sides : Len(lru[side]) <= LruSize /\ DOMAIN lru[side] = {} BY <1>4, BoundsType
<1> QED BY <1>1, <1>3, <1>5, <1>6, <1>7, <1>8 DEF IndInv

\* Every step keeps the invariant.
LEMMA NextInv == IndInv /\ [Next]_vars => IndInv'
<1> SUFFICES ASSUME IndInv, [Next]_vars PROVE IndInv' OBVIOUS
<1>1. ASSUME NEW q \in Calls,
             send_message(q) \/ send_query_ex(q) \/ answer_query(q) \/ Query(q)
      PROVE  IndInv'
  BY <1>1, SendMessageStep, SendQueryStep, AnswerQueryStep, QueryStep
<1>2. ASSUME NEW t \in Transfers, SenderAlarm(t) \/ SenderTimeout(t) \/ receive_message(t)
      PROVE  IndInv'
  BY <1>2, SenderAlarmStep, SenderTimeoutStep, ReceiveMessageStep
<1>3. ASSUME NEW p \in net, confirm(p) \/ complete(p) \/ receive_part(p) \/ drop_part(p)
      PROVE  IndInv'
  BY <1>3, ConfirmStep, CompleteStep, ReceivePartStep, DropPartStep
<1>4. ASSUME NEW p \in net, Lose(p) PROVE IndInv' BY <1>4, LoseStep
<1>5. CASE UNCHANGED vars
  <2>1. /\ UNCHANGED <<setup, senders, ended, receivers, arrived, received, lru>>
        /\ UNCHANGED <<max_size, queries, promise, serving, net>>
    BY <1>5 DEF vars, peer, rldp
  <2>2. TypeInv' BY <2>1 DEF IndInv, TypeInv
  <2>3. \A t \in Transfers : Parts(t)' = Parts(t) BY <2>1 DEF Parts, Setup
  <2>4. \A t \in Transfers : /\ SenderOK(senders[t], Parts(t), Level(receivers[t]))'
                             /\ ReceiverOK(receivers[t], Parts(t))'
    BY <2>1, <2>3 DEF IndInv, SenderOK, ReceiverOK, Level
  <2>5. \A t \in Transfers :
          /\ ended'[t] = "completed" => Done(receivers'[t])
          /\ t \in arrived' => Done(receivers'[t])
          /\ received'[t] = IF Done(receivers'[t]) /\ t \notin arrived' THEN 1 ELSE 0
    BY <2>1 DEF IndInv
  <2>6. \A side \in Sides : /\ Len(lru'[side]) <= LruSize
                            /\ \A k \in DOMAIN lru'[side] : Done(receivers'[lru'[side][k]])
    BY <2>1 DEF IndInv
  <2>7. /\ \A p \in net' : p.type = "complete" => p.part < Level(receivers'[p.transfer])
        /\ \A q \in Calls : promise'[q] = "answered" => received'[<<q, "back">>] = 1
    BY <2>1 DEF IndInv
  <2> QED BY <2>2, <2>4, <2>5, <2>6, <2>7 DEF IndInv, Done, Level
<1> QED BY <1>1, <1>2, <1>3, <1>4, <1>5 DEF Next, Receive

\* What the invariant says of one transfer, as DeliveredIntact puts it.
LEMMA InvTransfer ==
  ASSUME IndInv, NEW t \in Transfers
  PROVE  /\ received[t] + Cardinality({t} \cap arrived) = (IF Len(Got(t)) = Parts(t) THEN 1 ELSE 0)
         /\ \A k \in DOMAIN Got(t) : Got(t)[k] = {k - 1}
         /\ senders[t] # None => senders[t].part <= Len(Got(t))
         /\ ended[t] = "completed" => Len(Got(t)) = Parts(t)
<1>1. Parts(t) \in Nat \ {0} BY PartsType DEF IndInv, TypeInv
<1>2. ReceiverOK(receivers[t], Parts(t)) /\ SenderOK(senders[t], Parts(t), Level(receivers[t]))
  BY DEF IndInv
<1>3. receivers[t] \in ReceiverType \cup {None} BY DEF IndInv, TypeInv
<1>4. Len(Got(t)) = Level(receivers[t]) BY <1>2, <1>3 DEF Got, Level, ReceiverOK
<1>5. Done(receivers[t]) <=> Len(Got(t)) = Parts(t)
  BY <1>1, <1>2, <1>3, <1>4 DEF Done, Level, ReceiverOK, ReceiverType
<1>6. received[t] + Cardinality({t} \cap arrived) = (IF Done(receivers[t]) THEN 1 ELSE 0)
  <2>1. /\ t \in arrived => Done(receivers[t])
        /\ received[t] = IF Done(receivers[t]) /\ t \notin arrived THEN 1 ELSE 0
    BY DEF IndInv
  <2>2. CASE t \in arrived
    <3>1. {t} \cap arrived = {t} BY <2>2
    <3> QED BY <2>1, <2>2, <3>1, FS_Singleton
  <2>3. CASE t \notin arrived
    <3>1. {t} \cap arrived = {} BY <2>3
    <3> QED BY <2>1, <2>3, <3>1, FS_EmptySet
  <2> QED BY <2>2, <2>3
<1>7. \A k \in DOMAIN Got(t) : Got(t)[k] = {k - 1} BY <1>2 DEF Got, ReceiverOK
<1>8. senders[t] # None => senders[t].part <= Len(Got(t)) BY <1>2, <1>4 DEF SenderOK
<1>9. ended[t] = "completed" => Done(receivers[t]) BY DEF IndInv
<1> QED BY <1>5, <1>6, <1>7, <1>8, <1>9

\* The type invariant.
LEMMA InvTypes == IndInv => TypeOK
<1> SUFFICES ASSUME IndInv PROVE TypeOK OBVIOUS
<1>1. ASSUME NEW t \in Transfers
      PROVE  /\ senders[t] = None \/
                  /\ senders[t] \in [part : 0 .. Parts(t) - 1, seqno : Seqnos, confirmed : Seqnos]
                  /\ senders[t].confirmed <= senders[t].seqno
             /\ receivers[t] # None => receivers[t].part \in 0 .. Parts(t) /\ receivers[t].cnt < ConfirmEvery
  <2>1. Parts(t) \in Nat \ {0} BY PartsType DEF IndInv, TypeInv
  <2>2. ReceiverOK(receivers[t], Parts(t)) /\ SenderOK(senders[t], Parts(t), Level(receivers[t]))
    BY DEF IndInv
  <2>3. receivers[t] \in ReceiverType \cup {None} /\ senders[t] \in SenderType \cup {None}
    BY DEF IndInv, TypeInv
  <2>4. receivers[t] # None => receivers[t].part \in 0 .. Parts(t) /\ receivers[t].cnt < ConfirmEvery
    BY <2>1, <2>2, <2>3 DEF ReceiverOK, ReceiverType
  <2>5. CASE senders[t] # None
    <3>1. senders[t] \in SenderType BY <2>3, <2>5
    <3>2. /\ senders[t].part \in 0 .. Parts(t) - 1 /\ senders[t].seqno \in Seqnos
          /\ senders[t].confirmed \in Seqnos /\ senders[t].confirmed <= senders[t].seqno
      BY <2>1, <2>2, <2>5, <3>1, BoundsType DEF SenderOK, SenderType, Seqnos
    <3>3. senders[t] \in [part : 0 .. Parts(t) - 1, seqno : Seqnos, confirmed : Seqnos]
      BY <3>1, <3>2 DEF SenderType
    <3> QED BY <2>4, <3>2, <3>3
  <2> QED BY <2>4, <2>5
<1>2. promise \in [Calls -> {"none", "pending", "answered", "timeout"}] BY DEF IndInv, TypeInv
<1>3. /\ queries \subseteq Calls /\ max_size \subseteq Transfers
      /\ \A side \in Sides : Len(lru[side]) <= LruSize
  BY DEF IndInv, TypeInv
<1> QED BY <1>1, <1>2, <1>3 DEF TypeOK

\* A transfer is handed over at most once and whole, whatever is lost, late or
\* repeated; the sender is never ahead of the receiver, one that ends because
\* all parts were completed has delivered them, and a promise is answered only
\* with an answer that has arrived (RldpTransferSenderImpl::complete,
\* RldpTransferReceiverImpl::receive_part, RldpIn::process_message).
THEOREM DeliveredIntactAlways == Spec => []DeliveredIntact
<1>1. Init => IndInv BY InitInv
<1>2. IndInv /\ [Next]_vars => IndInv' BY NextInv
<1>3. IndInv => DeliveredIntact
  <2> SUFFICES ASSUME IndInv PROVE DeliveredIntact OBVIOUS
  <2>1. TypeOK BY InvTypes
  <2>2. \A q \in Calls : promise[q] = "answered" => received[<<q, "back">>] = 1 BY DEF IndInv
  <2> QED BY <2>1, <2>2, InvTransfer DEF DeliveredIntact
<1> QED BY <1>1, <1>2, <1>3, PTL DEF Spec
=============================================================================
