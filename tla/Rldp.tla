-------------------------------- MODULE Rldp --------------------------------
(***************************************************************************)
(* rldp: messages and queries of any size between two nodes over ADNL,     *)
(* whose packets are lost and reordered (adnl-peer.cpp drops duplicates).  *)
(* A transfer is cut into parts, and a part is sent as symbols of a        *)
(* rateless code within a window, until the receiver completes it.  A      *)
(* query and its answer are two transfers; each is followed here from the  *)
(* call to the promise.  The tables of RldpIn are keyed by random ids, so  *)
(* exchanges do not meet.                                                  *)
(***************************************************************************)
EXTENDS Integers, FiniteSets, Sequences

CONSTANTS
  Calls,         \* the calls of send_message or send_query
  Setups,        \* what may be sent: records [kind, patient, parts, size]
  Symbols,       \* symbols that a part has
  Overhead,      \* symbols beyond that with which the decoder does not fail
  Window,        \* window_size()
  Burst,         \* symbols sent per alarm of the sender
  ConfirmEvery,  \* symbols per rldp_confirm
  LruSize,       \* lru_size()
  MaxSeqno,      \* bound: symbols of a part that are sent
  Capacity,      \* bound: packets of a transfer in flight
  None

\* A transfer goes out to the server or comes back with the answer to a query.
Sides == {"out", "back"}
Transfers == Calls \X Sides

ASSUME RldpConstants ==
  /\ {Symbols, Burst, ConfirmEvery, LruSize, Capacity} \subseteq Nat \ {0}
  /\ {Overhead, Window, MaxSeqno} \subseteq Nat
  /\ Setups \subseteq
       [kind : {"message", "query"}, patient : BOOLEAN, parts : [Sides -> Nat \ {0}],
        size : [Sides -> {"small", "big", "header", "too big"}]]
  /\ None \notin [part : Nat, seqno : Nat, confirmed : Nat]
  /\ None \notin [alive : BOOLEAN, part : Nat, cnt : Nat, max_seqno : Nat,
                  decoder : SUBSET (Nat \X Nat), data : Seq(SUBSET Nat)]

\* transfer_id ^ TransferId::ones()
Xor(t) == <<t[1], IF t[2] = "out" THEN "back" ELSE "out">>

VARIABLES
  setup,      \* of each call: is it a query, are its timeouts far away, and of its
              \* transfers the parts and the size
  senders,    \* senders_ and the sender actors
  ended,      \* history: how a sender has ended
  receivers,  \* receivers_ and the receiver actors
  arrived,    \* transfers whose data are on their way from receiver to RldpIn
  received,   \* history: how often receive_message has got a transfer
  lru,        \* lru_set_ and lru_ of the node that receives these transfers
  max_size,   \* keys of max_size_
  queries,    \* keys of queries_
  promise,    \* of the caller of a query, as AdnlQuery sets it
  destroyed,  \* calls of alarm_query on their way from AdnlQuery to RldpIn
  serving,    \* queries that the application of the server is working on
  net         \* packets in flight

peer == <<senders, ended, receivers, arrived>>
rldp == <<received, lru, max_size, queries, promise, destroyed, serving>>
vars == <<setup, peer, rldp, net>>

Setup(t) == setup[t[1]]
Parts(t) == Setup(t).parts[t[2]]

\* Sizes are told apart by the limits: at most default_mtu(), at most
\* max_answer_size, more than that only with the header of rldp_answer, more.
Size(t) == Setup(t).size[t[2]]

Init ==
  /\ setup \in [Calls -> Setups]
  /\ senders = [t \in Transfers |-> None] /\ ended = [t \in Transfers |-> "no"]
  /\ receivers = [t \in Transfers |-> None] /\ arrived = {}
  /\ received = [t \in Transfers |-> 0] /\ lru = [side \in Sides |-> << >>]
  /\ max_size = {} /\ queries = {} /\ promise = [q \in Calls |-> "none"]
  /\ destroyed = {} /\ serving = {} /\ net = {}

\* UDP below ADNL loses and reorders packets.
Lose(p) == net' = net \ {p} /\ UNCHANGED <<setup, peer, rldp>>

\* Packet p is taken from the network and answered.
Replies(p, packets) == net' = (net \ {p}) \cup packets

-----------------------------------------------------------------------------
(* RldpIn: calls                                                           *)

\* transfer(): a sender actor, before its start_up
NewSender == [part |-> 0, seqno |-> 0, confirmed |-> 0]

send_message(q) ==
  /\ setup[q].kind = "message" /\ senders[<<q, "out">>] = None /\ ended[<<q, "out">>] = "no"
  /\ senders' = [senders EXCEPT ![<<q, "out">>] = NewSender]
  /\ UNCHANGED <<setup, ended, receivers, arrived, rldp, net>>

send_query_ex(q) ==
  /\ setup[q].kind = "query" /\ promise[q] = "none"
  /\ senders' = [senders EXCEPT ![<<q, "out">>] = NewSender]
  /\ max_size' = max_size \cup {Xor(<<q, "out">>)}
  /\ queries' = queries \cup {q}
  /\ promise' = [promise EXCEPT ![q] = "pending"]
  /\ UNCHANGED <<setup, ended, receivers, arrived, received, lru, destroyed, serving, net>>

\* The application answers, and RldpIn sends the answer unless it is too big;
\* or it fails, and nothing is sent.
answer_query(q) ==
  /\ q \in serving
  /\ serving' = serving \ {q}
  /\ \/ /\ Size(<<q, "back">>) # "too big"
        /\ senders' = [senders EXCEPT ![Xor(<<q, "out">>)] = NewSender]
     \/ UNCHANGED senders
  /\ UNCHANGED <<setup, ended, receivers, arrived, received, lru, max_size, queries, promise,
                 destroyed, net>>

\* Faulty variant: tear_down tells RldpIn nothing.
Forgets(q) == destroyed

\* AdnlQuery::tear_down: destroy_(id_)
Destroys(q) == destroyed \cup {q}

\* AdnlQuery::alarm
QueryAlarm(q) ==
  /\ promise[q] = "pending" /\ ~setup[q].patient
  /\ promise' = [promise EXCEPT ![q] = "timeout"]
  /\ destroyed' = Destroys(q)
  /\ UNCHANGED <<setup, peer, received, lru, max_size, queries, serving, net>>

\* max_size_ is erased under the id of the query, and was set under the other.
alarm_query(q) ==
  /\ q \in destroyed
  /\ destroyed' = destroyed \ {q}
  /\ queries' = queries \ {q}
  /\ max_size' = max_size \ {<<q, "out">>}
  /\ UNCHANGED <<setup, peer, received, lru, promise, serving, net>>

-----------------------------------------------------------------------------
(* The sender                                                              *)

\* send_part: new symbols as long as the window is open, and the next one
\* again and again when it is closed
Fresh(s) == LET room == Window + 1 - (s.seqno - s.confirmed)
            IN IF room < Burst THEN room ELSE Burst
SentSeqnos(s) == s.seqno .. s.seqno + Fresh(s) - (IF Fresh(s) < Burst THEN 0 ELSE 1)

\* start_up and alarm of a sender whose timeout has not passed
SenderAlarm(t) ==
  LET s == senders[t]
  IN /\ s # None /\ s.seqno + Fresh(s) <= MaxSeqno
     /\ senders' = [senders EXCEPT ![t].seqno = @ + Fresh(s)]
     /\ net' = net \cup {[type |-> "part", transfer |-> t, part |-> s.part, seqno |-> k] :
                           k \in SentSeqnos(s)}
     /\ Cardinality({p \in net' : p.transfer = t}) <= Capacity
     /\ UNCHANGED <<setup, ended, receivers, arrived, rldp>>

\* start_up and alarm when the timeout has passed
SenderTimeout(t) ==
  /\ senders[t] # None /\ ~Setup(t).patient
  /\ senders' = [senders EXCEPT ![t] = None]
  /\ ended' = [ended EXCEPT ![t] = "timeout"]
  /\ UNCHANGED <<setup, receivers, arrived, rldp, net>>

\* Faulty variant: the next symbol, which a closed window repeats, is not confirmed.
ConfirmsSent(s, p) == p.part = s.part /\ p.seqno >= s.confirmed /\ p.seqno < s.seqno

Confirms(s, p) == p.part = s.part /\ p.seqno >= s.confirmed /\ p.seqno <= s.seqno

confirm(p) ==
  LET s == senders[p.transfer]
  IN /\ p.type = "confirm" /\ Replies(p, {})
     /\ senders' = IF s # None /\ Confirms(s, p)
                   THEN [senders EXCEPT ![p.transfer].confirmed = p.seqno] ELSE senders
     /\ UNCHANGED <<setup, ended, receivers, arrived, rldp>>

\* Faulty variant: a completion is not compared with the part that is sent.
CompletesAny(s, p) == TRUE

Completes(s, p) == p.part = s.part

\* complete and create_encoder
complete(p) ==
  LET t == p.transfer
      s == senders[t]
      last == s.part + 1 = Parts(t)
  IN /\ p.type = "complete" /\ Replies(p, {})
     /\ IF s # None /\ Completes(s, p)
        THEN /\ senders' = [senders EXCEPT ![t] =
                              IF last THEN None ELSE [NewSender EXCEPT !.part = s.part + 1]]
             /\ ended' = IF last THEN [ended EXCEPT ![t] = "completed"] ELSE ended
        ELSE UNCHANGED <<senders, ended>>
     /\ UNCHANGED <<setup, receivers, arrived, rldp>>

-----------------------------------------------------------------------------
(* The receiver                                                            *)

NewReceiver == [alive |-> TRUE, part |-> 0, cnt |-> 0, max_seqno |-> 0, decoder |-> {}, data |-> << >>]

\* The size checks of process_message_part
Accepts(t) == Size(t) = "small" \/ (t \in max_size /\ Size(t) = "big")

\* lru_set_ holds the transfers of lru_.
InLru(l, t) == \E k \in DOMAIN l : l[k] = t

\* The receiver that process_message_part hands a part to, None if it drops it
ReceiverOf(p) ==
  LET t == p.transfer
  IN IF receivers[t] # None THEN receivers[t]
     ELSE IF p.part = 0 /\ Accepts(t) /\ ~InLru(lru[t[2]], t) THEN NewReceiver ELSE None

Complete(p) == [type |-> "complete", transfer |-> p.transfer, part |-> p.part]

\* A part for which there is no receiver, or whose receiver has stopped: only a
\* transfer in lru_set_ is completed again.
drop_part(p) ==
  LET r == ReceiverOf(p)
  IN /\ p.type = "part" /\ (IF r = None THEN TRUE ELSE ~r.alive)
     /\ Replies(p, IF r = None /\ p.part = 0 /\ Accepts(p.transfer) THEN {Complete(p)} ELSE {})
     /\ UNCHANGED <<setup, peer, rldp>>

\* What the decoder makes of the symbols it holds
MayDecode(symbols) == Cardinality(symbols) >= Symbols
SureToDecode(symbols, part) ==
  \/ {<<part, k>> : k \in 0 .. Symbols - 1} \subseteq symbols
  \/ Cardinality(symbols) >= Symbols + Overhead

\* receive_part, up to the decoder
Added(r, p) ==
  [r EXCEPT !.cnt = @ + 1, !.max_seqno = IF p.seqno > @ THEN p.seqno ELSE @,
            !.decoder = @ \cup {<<p.part, p.seqno>>}]
Decoded(r, p) ==
  [NewReceiver EXCEPT !.part = r.part + 1,
                      !.data = Append(r.data, {symbol[1] : symbol \in Added(r, p).decoder})]

IsOld(r, p) == p.part < r.part

\* The part was completed before: completed again.  It is not the current one
\* yet: dropped.
ReceiveOther(r, p) ==
  /\ IsOld(r, p) \/ p.part > r.part
  /\ Replies(p, IF IsOld(r, p) THEN {Complete(p)} ELSE {})
  /\ UNCHANGED <<receivers, arrived>>

\* A symbol with which the part cannot be decoded, or which is not new
ReceiveSymbol(r, p) ==
  LET r1 == Added(r, p)
      due == r1.cnt >= ConfirmEvery
  IN /\ r1.decoder = r.decoder \/ ~SureToDecode(r1.decoder, r.part)
     /\ receivers' = [receivers EXCEPT ![p.transfer] = IF due THEN [r1 EXCEPT !.cnt = 0] ELSE r1]
     /\ Replies(p, IF due THEN {[type |-> "confirm", transfer |-> p.transfer, part |-> r.part,
                                 seqno |-> r1.max_seqno]} ELSE {})
     /\ UNCHANGED arrived

\* The part is decoded; with the last one the transfer is finished.
ReceiveDecodes(r, p) ==
  LET t == p.transfer
      r1 == Decoded(r, p)
      last == Len(r1.data) = Parts(t)
  IN /\ Added(r, p).decoder # r.decoder /\ MayDecode(Added(r, p).decoder)
     /\ receivers' = [receivers EXCEPT ![t] = IF last THEN [r1 EXCEPT !.alive = FALSE] ELSE r1]
     /\ arrived' = IF last THEN arrived \cup {t} ELSE arrived
     /\ Replies(p, {Complete([p EXCEPT !.part = r.part])})

receive_part(p) ==
  LET r == ReceiverOf(p)
  IN /\ p.type = "part" /\ r # None /\ r.alive
     /\ \/ ReceiveOther(r, p)
        \/ ~IsOld(r, p) /\ p.part <= r.part /\ (ReceiveSymbol(r, p) \/ ReceiveDecodes(r, p))
     /\ UNCHANGED <<setup, senders, ended, rldp>>

-----------------------------------------------------------------------------
(* RldpIn: what has arrived                                                *)

\* in_transfer_completed
Remembered(l, t) ==
  IF InLru(l, t) THEN l ELSE Append(IF Len(l) >= LruSize THEN Tail(l) ELSE l, t)

\* in_transfer_completed and receive_message: a message goes to the node, a
\* query to the application, an answer to its AdnlQuery if that still is in
\* queries_, where it sets the promise unless the alarm was first.
receive_message(t) ==
  LET q == t[1]
      known == t[2] = "back" /\ q \in queries
      first == known /\ promise[q] = "pending"
  IN /\ t \in arrived /\ arrived' = arrived \ {t}
     /\ received' = [received EXCEPT ![t] = @ + 1]
     /\ lru' = [lru EXCEPT ![t[2]] = Remembered(@, t)]
     /\ serving' = IF t[2] = "out" /\ setup[q].kind = "query" THEN serving \cup {q} ELSE serving
     /\ queries' = IF known THEN queries \ {q} ELSE queries
     /\ promise' = IF first THEN [promise EXCEPT ![q] = "answered"] ELSE promise
     /\ destroyed' = IF first THEN Destroys(q) ELSE destroyed
     /\ UNCHANGED <<setup, senders, ended, receivers, max_size, net>>

Receive(type, t) ==
  \E p \in net : /\ p.type = type /\ p.transfer = t
                 /\ confirm(p) \/ complete(p) \/ receive_part(p) \/ drop_part(p)

Types == {"part", "confirm", "complete"}
Query(q) == QueryAlarm(q) \/ alarm_query(q)

Next ==
  \/ \E q \in Calls : send_message(q) \/ send_query_ex(q) \/ answer_query(q) \/ Query(q)
  \/ \E t \in Transfers : \/ SenderAlarm(t) \/ SenderTimeout(t) \/ receive_message(t)
                          \/ \E type \in Types : Receive(type, t)
  \/ \E p \in net : Lose(p)

\* Alarms fire and actors handle their messages; of the packets of one kind
\* that are sent again and again some are received.  Applications and callers
\* promise nothing.
Fairness ==
  /\ \A q \in Calls : WF_vars(QueryAlarm(q)) /\ WF_vars(alarm_query(q))
  /\ \A t \in Transfers :
       /\ WF_vars(SenderAlarm(t)) /\ WF_vars(SenderTimeout(t)) /\ WF_vars(receive_message(t))
       /\ \A type \in Types : SF_vars(Receive(type, t))

Spec == Init /\ [][Next]_vars /\ Fairness

-----------------------------------------------------------------------------
(* Properties                                                              *)

Seqnos == 0 .. MaxSeqno

\* The tables hold values of their types, and the CHECK of the sender's alarm holds.
TypeOK ==
  /\ \A t \in Transfers :
       /\ senders[t] = None \/
            /\ senders[t] \in [part : 0 .. Parts(t) - 1, seqno : Seqnos, confirmed : Seqnos]
            /\ senders[t].confirmed <= senders[t].seqno
       /\ receivers[t] # None => receivers[t].part \in 0 .. Parts(t) /\ receivers[t].cnt < ConfirmEvery
  /\ promise \in [Calls -> {"none", "pending", "answered", "timeout"}]
  /\ queries \subseteq Calls /\ max_size \subseteq Transfers /\ \A side \in Sides : Len(lru[side]) <= LruSize

Got(t) == IF receivers[t] = None THEN << >> ELSE receivers[t].data

\* A transfer is handed over at most once and whole: each part comes from
\* symbols of that part and in its place, whatever is lost, late or repeated.
\* The sender is never ahead of the receiver, so one that ends because all
\* parts were completed has delivered them, and a promise is answered only
\* with an answer that has arrived.
DeliveredIntact ==
  /\ TypeOK
  /\ \A t \in Transfers :
       /\ received[t] + Cardinality({t} \cap arrived) = (IF Len(Got(t)) = Parts(t) THEN 1 ELSE 0)
       /\ \A k \in DOMAIN Got(t) : Got(t)[k] = {k - 1}
       /\ senders[t] # None => senders[t].part <= Len(Got(t))
       /\ ended[t] = "completed" => Len(Got(t)) = Parts(t)
  /\ \A q \in Calls : promise[q] = "answered" => received[<<q, "back">>] = 1

\* A sender whose timeout is far away never stalls: it goes on sending new
\* symbols (up to the bound) until the transfer has been received, even if the
\* window was closed and symbols, confirmations and completions were lost.
KeepsMoving ==
  \A t \in Transfers :
    (senders[t] # None /\ Accepts(t))
      ~> \/ Len(Got(t)) = Parts(t) \/ senders[t] = None
         \/ senders[t].seqno + Fresh(senders[t]) > MaxSeqno

\* With timeouts every sender ends, every promise is set and queries_ gets empty.
CleansUp ==
  \A q \in Calls : ~setup[q].patient =>
    <>[](/\ senders[<<q, "out">>] = None /\ senders[<<q, "back">>] = None
         /\ q \notin queries /\ promise[q] # "pending")
=============================================================================
