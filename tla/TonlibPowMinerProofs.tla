------------------------ MODULE TonlibPowMinerProofs -------------------------
(***************************************************************************)
(* The actor PowMiner for any givers, workers and rounds of queries in     *)
(* flight: its counter counts the workers and answers outstanding, workers *)
(* mine what the actor holds or are cancelled, and the options they read   *)
(* do not change under them.                                               *)
(***************************************************************************)
EXTENDS TonlibPowMiner, TLAPS, FiniteSetTheorems

-----------------------------------------------------------------------------
(* The invariant, on a record of the actor and the answers on their way    *)

\* The actor's record when G are the givers.
ActorState(G) ==
  [status : {"up", "stopped", "exited", "aborted"}, close_flag : BOOLEAN,
   giver : G \cup {None}, checked : BOOLEAN,
   giver_params : Seq([giver : G, complexity : Complexities]),
   pending : SUBSET [round : Rounds, giver : G, value : PowParams \cup {None}],
   next_query : {"due", "later", "none"},
   query : [giver : G, value : PowParams \cup {None}] \cup {None},
   miner_options : PowParams \cup {None}, miner_options_copy : PowParams \cup {None},
   need_run_miners : BOOLEAN, threads : SUBSET Workers,
   threads_alive : 0 .. Cardinality(Workers), running : SUBSET Workers, cancelled : BOOLEAN]

\* threads_alive_ counts the running workers and the answers A; a worker has
\* answered or is running; there are workers only once a giver is known; and
\* workers that are not cancelled mine miner_options_.
Counted(s, A) ==
  /\ IsFiniteSet(A) /\ s.threads_alive = Cardinality(s.running) + Cardinality(A)
  /\ s.running \subseteq s.threads
  /\ s.threads = {} => s.threads_alive = 0
  /\ s.giver = None => s.threads = {}
  /\ s.checked => s.giver # None
  /\ \A x \in A : x.worker \notin s.running
  /\ s.running # {} /\ ~s.cancelled => s.miner_options_copy = s.miner_options
  /\ s.status = "stopped" => s.threads_alive = 0

Good(s, A, G) == s \in ActorState(G) /\ Counted(s, A)

\* A step from s to t within a handler that leaves rounds and workers alone.
Keeps(s, t) ==
  /\ t.pending = s.pending /\ t.giver_params = s.giver_params
  /\ t.threads = s.threads /\ t.threads_alive = s.threads_alive /\ t.running = s.running
  /\ t.miner_options_copy = s.miner_options_copy

\* options_ come from Setups.
LEMMA OptFacts ==
  ASSUME opt \in Setups
  PROVE  /\ opt.givers \subseteq Givers /\ opt.givers # {} /\ IsFiniteSet(opt.givers)
         /\ opt.workers \subseteq Workers /\ opt.workers # {} /\ IsFiniteSet(opt.workers)
         /\ opt.complexities \subseteq Complexities /\ None \notin opt.givers
         /\ Cardinality(opt.workers) \in 0 .. Cardinality(Workers)
<1>1. /\ opt.givers \subseteq Givers /\ opt.givers # {}
      /\ opt.workers \subseteq Workers /\ opt.workers # {} /\ opt.complexities \subseteq Complexities
  BY ActorConstants
<1>2. IsFiniteSet(Givers) /\ IsFiniteSet(Workers) /\ None \notin Givers BY ActorConstants
<1>3. IsFiniteSet(opt.givers) BY <1>1, <1>2, FS_Subset
<1>4. IsFiniteSet(opt.workers) /\ Cardinality(opt.workers) <= Cardinality(Workers)
  BY <1>1, <1>2, FS_Subset
<1>5. Cardinality(opt.workers) \in Nat /\ Cardinality(Workers) \in Nat
  BY <1>2, <1>4, FS_CardinalityType
<1>6. Cardinality(opt.workers) \in 0 .. Cardinality(Workers) BY <1>4, <1>5
<1> QED BY <1>1, <1>2, <1>3, <1>4, <1>6

-----------------------------------------------------------------------------
(* What the handlers do to the record                                      *)

\* The elements of a sequence.
LEMMA ElementOf == ASSUME NEW S, NEW q \in Seq(S), NEW k \in DOMAIN q PROVE q[k] \in S
  OBVIOUS

\* The length of a sequence.
LEMMA LenNat == ASSUME NEW S, NEW q \in Seq(S) PROVE Len(q) \in Nat
  OBVIOUS

\* A sum with nothing, and a counter that is one.
LEMMA Small == ASSUME NEW n \in Nat PROVE 0 + n = n /\ 1 <= 1 /\ 0 <= 1
  OBVIOUS

\* A larger set has more sequences.
LEMMA SeqMonotone == ASSUME NEW S, NEW T, S \subseteq T, NEW q \in Seq(S) PROVE q \in Seq(T)
  OBVIOUS

\* source_.cancel() keeps the invariant.
LEMMA CancelledGood ==
  ASSUME NEW G, NEW A, NEW s, Good(s, A, G)
  PROVE  Good(Cancelled(s), A, G) /\ Keeps(s, Cancelled(s)) /\ Cancelled(s).checked = s.checked
<1> DEFINE t == Cancelled(s)
<1>1. s \in ActorState(G) /\ Counted(s, A) BY DEF Good
<1>2. t \in ActorState(G) BY <1>1 DEF ActorState, Cancelled
<1>3. /\ t.status = s.status /\ t.giver = s.giver /\ t.checked = s.checked
      /\ t.miner_options = s.miner_options /\ t.cancelled = TRUE /\ Keeps(s, t)
  BY <1>1 DEF ActorState, Cancelled, Keeps
<1> HIDE DEF t
<1>4. Counted(t, A) BY <1>1, <1>3 DEF Counted, Keeps
<1> QED BY <1>2, <1>3, <1>4 DEF Good, t

\* try_stop stops the actor only when no worker is left.
LEMMA TryStopGood ==
  ASSUME NEW G, NEW A, NEW s, Good(s, A, G)
  PROVE  Good(TryStop(s), A, G) /\ Keeps(s, TryStop(s)) /\ TryStop(s).checked = s.checked
<1> DEFINE t == TryStop(s)
<1>1. s \in ActorState(G) /\ Counted(s, A) BY DEF Good
<1>2. CASE s.threads_alive = 0
  <2>1. t = [s EXCEPT !.status = "stopped"] BY <1>2 DEF TryStop
  <2>2. t \in ActorState(G) BY <1>1, <2>1 DEF ActorState
  <2>3. /\ t.giver = s.giver /\ t.checked = s.checked
        /\ t.miner_options = s.miner_options /\ t.cancelled = s.cancelled /\ Keeps(s, t)
    BY <1>1, <2>1 DEF ActorState, Keeps
  <2> HIDE DEF t
  <2>4. Counted(t, A) BY <1>1, <1>2, <2>3 DEF Counted, Keeps
  <2> QED BY <2>2, <2>3, <2>4 DEF Good, t
<1>3. CASE s.threads_alive # 0 BY <1>3 DEF TryStop, Keeps
<1> QED BY <1>2, <1>3

\* The giver selected is one of the givers that have answered.
LEMMA SelectGiverGood ==
  ASSUME opt \in Setups, NEW A, NEW s, Good(s, A, opt.givers), NEW t \in SelectGiver(s)
  PROVE  /\ Good(t, A, opt.givers) /\ Keeps(s, t) /\ t.status = s.status
         /\ \/ t.checked = s.checked
            \/ t.checked /\ ~s.checked /\ Len(s.giver_params) >= Cardinality(opt.givers)
<1> DEFINE G == opt.givers
<1>1. s \in ActorState(G) /\ Counted(s, A) BY DEF Good
<1>2. CASE ~s.checked /\ Len(s.giver_params) >= Cardinality(opt.givers)
  <2>1. PICK g \in get_giver_params(s) : t = [s EXCEPT !.giver = g, !.checked = TRUE]
    BY <1>2 DEF SelectGiver
  <2>2. g \in G
    <3>1. s.giver_params \in Seq([giver : G, complexity : Complexities]) BY <1>1 DEF ActorState
    <3> DEFINE p == s.giver_params
    <3>2. PICK k \in DOMAIN p : g = p[k].giver BY <2>1 DEF get_giver_params
    <3> HIDE DEF p
    <3>3. p[k] \in [giver : G, complexity : Complexities]
      <4>1. p \in Seq([giver : G, complexity : Complexities]) BY <3>1 DEF p
      <4> QED BY <3>2, <4>1, ElementOf
    <3> QED BY <3>2, <3>3
  <2>3. g # None BY <2>2, OptFacts
  <2>4. t \in ActorState(G) BY <1>1, <2>1, <2>2 DEF ActorState
  <2>5. /\ t.status = s.status /\ t.giver = g /\ t.checked = TRUE
        /\ t.miner_options = s.miner_options /\ t.cancelled = s.cancelled /\ Keeps(s, t)
    BY <1>1, <2>1 DEF ActorState, Keeps
  <2>6. Counted(t, A) BY <1>1, <2>3, <2>5 DEF Counted, Keeps
  <2> QED BY <1>2, <2>4, <2>5, <2>6 DEF Good
<1>3. CASE ~(~s.checked /\ Len(s.giver_params) >= Cardinality(opt.givers))
  BY <1>3 DEF SelectGiver, Keeps
<1> QED BY <1>2, <1>3

\* The query goes to a giver.
LEMMA QueryGiverGood ==
  ASSUME NEW G, NEW A, NEW s, Good(s, A, G)
  PROVE  /\ Good(QueryGiver(s), A, G) /\ Keeps(s, QueryGiver(s))
         /\ QueryGiver(s).checked = s.checked /\ QueryGiver(s).status = s.status
<1> DEFINE t == QueryGiver(s)
<1>1. s \in ActorState(G) /\ Counted(s, A) BY DEF Good
<1>2. CASE s.checked /\ s.next_query = "due"
  <2>1. t = [s EXCEPT !.next_query = "none", !.query = [giver |-> s.giver, value |-> None]]
    BY <1>2 DEF QueryGiver
  <2>2. s.giver \in G BY <1>1, <1>2 DEF ActorState, Counted
  <2>3. [giver |-> s.giver, value |-> None] \in [giver : G, value : PowParams \cup {None}]
    BY <2>2
  <2>4. t \in ActorState(G) BY <1>1, <2>1, <2>3 DEF ActorState
  <2>5. /\ t.status = s.status /\ t.giver = s.giver /\ t.checked = s.checked
        /\ t.miner_options = s.miner_options /\ t.cancelled = s.cancelled /\ Keeps(s, t)
    BY <1>1, <2>1 DEF ActorState, Keeps
  <2> HIDE DEF t
  <2>6. Counted(t, A) BY <1>1, <2>5 DEF Counted, Keeps
  <2> QED BY <2>4, <2>5, <2>6 DEF Good, t
<1>3. CASE ~(s.checked /\ s.next_query = "due") BY <1>3 DEF QueryGiver, Keeps
<1> QED BY <1>2, <1>3

\* Workers are started when none are left, so that no answer is on its way.
LEMMA StartWorkersGood ==
  ASSUME opt \in Setups, NEW A, NEW s, Good(s, A, opt.givers), s.status = "up"
  PROVE  /\ Good(StartWorkers(s), A, opt.givers)
         /\ \/ Keeps(s, StartWorkers(s))
            \/ /\ s.checked /\ s.threads = {}
               /\ StartWorkers(s).threads_alive = Cardinality(opt.workers)
         /\ StartWorkers(s).pending = s.pending /\ StartWorkers(s).giver_params = s.giver_params
         /\ StartWorkers(s).checked = s.checked
<1> DEFINE t == StartWorkers(s)
           G == opt.givers
<1>1. s \in ActorState(G) /\ Counted(s, A) BY DEF Good
<1>2. CASE s.checked /\ s.miner_options # None /\ s.threads = {} /\ s.need_run_miners
  <2>1. t = [s EXCEPT !.need_run_miners = FALSE, !.miner_options_copy = s.miner_options,
                      !.threads = opt.workers, !.threads_alive = Cardinality(opt.workers),
                      !.running = opt.workers, !.cancelled = FALSE]
    BY <1>2 DEF StartWorkers
  <2>2. t \in ActorState(G) BY <1>1, <2>1, OptFacts DEF ActorState
  <2>3. /\ t.status = s.status /\ t.giver = s.giver /\ t.checked = s.checked
        /\ t.miner_options = s.miner_options /\ t.cancelled = FALSE
        /\ t.pending = s.pending /\ t.giver_params = s.giver_params
        /\ t.threads = opt.workers /\ t.threads_alive = Cardinality(opt.workers)
        /\ t.running = opt.workers /\ t.miner_options_copy = s.miner_options
    BY <1>1, <2>1 DEF ActorState
  <2> HIDE DEF t
  <2>4. s.threads_alive = 0 /\ s.giver # None BY <1>1, <1>2 DEF Counted
  <2>5. s.running = {} BY <1>1, <1>2 DEF Counted
  <2>6. A = {} /\ Cardinality(A) = 0
    <3>1. IsFiniteSet(A) /\ Cardinality({}) + Cardinality(A) = 0 BY <1>1, <2>4, <2>5 DEF Counted
    <3>2. Cardinality({}) = 0 /\ Cardinality(A) \in Nat BY <3>1, FS_EmptySet, FS_CardinalityType
    <3>3. Cardinality(A) = 0 BY <3>1, <3>2
    <3> QED BY <3>1, <3>3, FS_EmptySet
  <2>7. Cardinality(opt.workers) \in Nat BY OptFacts, FS_CardinalityType
  <2>8. t.threads_alive = Cardinality(t.running) + Cardinality(A) BY <2>3, <2>6, <2>7
  <2>9. t.threads # {} /\ t.status # "stopped" /\ t.giver # None BY <2>3, <2>4, OptFacts
  <2>10. Counted(t, A) BY <1>1, <2>3, <2>6, <2>8, <2>9 DEF Counted
  <2> QED BY <1>2, <2>2, <2>3, <2>10 DEF Good, t
<1>3. CASE ~(s.checked /\ s.miner_options # None /\ s.threads = {} /\ s.need_run_miners)
  BY <1>3 DEF StartWorkers, Keeps
<1> QED BY <1>2, <1>3

\* loop: the record stays good; the options the workers read change only when
\* there are no workers; a giver is selected only with all answers there.
LEMMA LoopGood ==
  ASSUME opt \in Setups, NEW A, NEW s, Good(s, A, opt.givers), s.status = "up", NEW t \in Loop(s)
  PROVE  /\ Good(t, A, opt.givers)
         /\ t.pending = s.pending /\ t.giver_params = s.giver_params
         /\ \/ Keeps(s, t)
            \/ t.checked /\ s.threads = {} /\ t.threads_alive = Cardinality(opt.workers)
         /\ \/ t.checked = s.checked
            \/ t.checked /\ ~s.checked /\ Len(s.giver_params) >= Cardinality(opt.givers)
<1>1. CASE s.close_flag
  <2>1. t = TryStop(s) BY <1>1 DEF Loop
  <2> QED BY <2>1, TryStopGood DEF Keeps
<1>2. CASE ~s.close_flag
  <2>1. PICK u \in SelectGiver(s) : t = StartWorkers(QueryGiver(u)) BY <1>2 DEF Loop
  <2> DEFINE v == QueryGiver(u)
  <2>2. /\ Good(u, A, opt.givers) /\ Keeps(s, u) /\ u.status = "up"
        /\ \/ u.checked = s.checked
           \/ u.checked /\ ~s.checked /\ Len(s.giver_params) >= Cardinality(opt.givers)
    BY <2>1, SelectGiverGood
  <2>3. Good(v, A, opt.givers) /\ Keeps(u, v) /\ v.checked = u.checked /\ v.status = "up"
    BY <2>2, QueryGiverGood
  <2>4. t = StartWorkers(v) BY <2>1
  <2> HIDE DEF v
  <2>5. /\ Good(t, A, opt.givers)
        /\ \/ Keeps(v, t)
           \/ v.checked /\ v.threads = {} /\ t.threads_alive = Cardinality(opt.workers)
        /\ t.pending = v.pending /\ t.giver_params = v.giver_params /\ t.checked = v.checked
    BY <2>3, <2>4, StartWorkersGood
  <2> QED BY <2>2, <2>3, <2>5 DEF Keeps
<1> QED BY <1>1, <1>2

\* with_giver_info before it calls loop.
InfoTaken(s, params) ==
  [do_with_giver_info(s, params) EXCEPT !.query = None, !.next_query = "later"]

\* do_with_giver_info cancels the workers whenever it changes the options.
LEMMA GiverInfoGood ==
  ASSUME NEW G, NEW A, NEW s, Good(s, A, G), NEW params \in PowParams
  PROVE  /\ Good(InfoTaken(s, params), A, G) /\ Keeps(s, InfoTaken(s, params))
         /\ InfoTaken(s, params).checked = s.checked /\ InfoTaken(s, params).status = s.status
<1> DEFINE u == do_with_giver_info(s, params)
           t == InfoTaken(s, params)
<1>0. t = [u EXCEPT !.query = None, !.next_query = "later"] BY DEF InfoTaken
<1> HIDE DEF t
<1>1. s \in ActorState(G) /\ Counted(s, A) BY DEF Good
<1>2. u \in ActorState(G)
      /\ u.status = s.status /\ u.giver = s.giver /\ u.checked = s.checked /\ Keeps(s, u)
      /\ (u.cancelled = TRUE \/ (u.miner_options = s.miner_options /\ u.cancelled = s.cancelled))
  <2>1. ASSUME NEW o \in PowParams \cup {None},
               u = [[s EXCEPT !.miner_options = o, !.need_run_miners = TRUE] EXCEPT !.cancelled = TRUE]
        PROVE  u \in ActorState(G)
               /\ u.status = s.status /\ u.giver = s.giver /\ u.checked = s.checked /\ Keeps(s, u)
               /\ u.cancelled = TRUE
    <3> HIDE DEF u
    <3>1. u \in ActorState(G) BY <1>1, <2>1 DEF ActorState
    <3>2. u.status = s.status /\ u.giver = s.giver /\ u.checked = s.checked /\ Keeps(s, u)
          /\ u.cancelled = TRUE
      BY <1>1, <2>1 DEF ActorState, Keeps
    <3> QED BY <3>1, <3>2
  <2>2. CASE s.miner_options # None /\ s.miner_options.seed = params.seed
    <3>1. u = s BY <2>2 DEF do_with_giver_info
    <3> QED BY <1>1, <3>1 DEF Keeps
  <2>3. CASE ~(s.miner_options # None /\ s.miner_options.seed = params.seed)
    <3>1. \/ u = Cancelled([s EXCEPT !.miner_options = None, !.need_run_miners = TRUE])
          \/ u = Cancelled([s EXCEPT !.miner_options = params, !.need_run_miners = TRUE])
      BY <2>3 DEF do_with_giver_info
    <3> HIDE DEF u
    <3>2. PICK o \in PowParams \cup {None} :
            u = Cancelled([s EXCEPT !.miner_options = o, !.need_run_miners = TRUE])
      BY <3>1
    <3>3. u = [[s EXCEPT !.miner_options = o, !.need_run_miners = TRUE] EXCEPT !.cancelled = TRUE]
      BY <3>2 DEF Cancelled
    <3>4. u \in ActorState(G) /\ u.status = s.status /\ u.giver = s.giver
          /\ u.checked = s.checked /\ Keeps(s, u) /\ u.cancelled = TRUE
      BY <2>1, <3>3, Zenon
    <3> QED BY <3>4
  <2> QED BY <2>2, <2>3
<1> HIDE DEF u
<1>3. t \in ActorState(G) BY <1>0, <1>2 DEF ActorState
<1>4. /\ t.status = u.status /\ t.giver = u.giver /\ t.checked = u.checked /\ Keeps(u, t)
      /\ t.cancelled = u.cancelled /\ t.miner_options = u.miner_options
  BY <1>0, <1>2 DEF ActorState, Keeps
<1>5. Counted(t, A) BY <1>1, <1>2, <1>4 DEF Counted, Keeps
<1>6. Good(t, A, G) /\ Keeps(s, t) /\ t.checked = s.checked /\ t.status = s.status
  BY <1>2, <1>3, <1>4, <1>5 DEF Good, Keeps
<1> QED BY <1>6 DEF t

\* got_answer takes an answer from s to t: the last one leaves no worker.
OneLess(s, t) ==
  /\ t.status = s.status /\ t.checked = s.checked /\ t.giver = s.giver /\ s.giver # None
  /\ t.pending = s.pending /\ t.giver_params = s.giver_params
  /\ t.miner_options_copy = s.miner_options_copy
  /\ t.threads_alive = s.threads_alive - 1 /\ s.threads_alive > 0
  /\ t.threads = (IF s.threads_alive = 1 THEN {} ELSE s.threads)
  /\ s.threads_alive = 1 => s.running = {}
  /\ s.threads # {}

\* got_answer counts the answer it takes.
LEMMA AnsweredGood ==
  ASSUME NEW G, NEW A, NEW s, Good(s, A, G), NEW a \in A
  PROVE  Good(Answered(s), A \ {a}, G) /\ OneLess(s, Answered(s))
<1> DEFINE t == Answered(s)
<1>1. s \in ActorState(G) /\ Counted(s, A) BY DEF Good
<1>2. s.running \subseteq Workers /\ IsFiniteSet(s.running) /\ s.threads_alive \in Nat
      /\ s.threads_alive <= Cardinality(Workers)
      /\ Cardinality(Workers) \in Nat
  <2>1. s.running \subseteq Workers /\ s.threads_alive \in 0 .. Cardinality(Workers)
    BY <1>1 DEF ActorState
  <2>2. IsFiniteSet(Workers) BY ActorConstants
  <2>3. IsFiniteSet(s.running) BY <2>1, <2>2, FS_Subset
  <2>4. Cardinality(Workers) \in Nat BY <2>2, FS_CardinalityType
  <2> QED BY <2>1, <2>3, <2>4
<1>3. IsFiniteSet(A \ {a}) /\ Cardinality(A \ {a}) = Cardinality(A) - 1
      /\ Cardinality(A) \in Nat /\ Cardinality(A \ {a}) \in Nat /\ Cardinality(s.running) \in Nat
  <2>1. IsFiniteSet(A) BY <1>1 DEF Counted
  <2>2. IsFiniteSet(A \ {a}) /\ Cardinality(A \ {a}) = Cardinality(A) - 1
    BY <2>1, FS_RemoveElement
  <2> QED BY <1>2, <2>1, <2>2, FS_CardinalityType
<1>4. s.threads_alive = Cardinality(s.running) + Cardinality(A) BY <1>1 DEF Counted
<1>5. s.threads_alive > 0 /\ s.threads_alive - 1 \in 0 .. Cardinality(Workers)
      /\ s.threads_alive - 1 = Cardinality(s.running) + Cardinality(A \ {a})
  BY <1>2, <1>3, <1>4
<1>6. s.threads_alive = 1 => s.running = {}
  <2>1. s.threads_alive = 1 => Cardinality(s.running) = 0 BY <1>3, <1>4
  <2> QED BY <1>2, <2>1, FS_EmptySet
<1>7. s.threads # {} /\ s.giver # None BY <1>1, <1>5 DEF Counted
<1>8. t = [[s EXCEPT !.need_run_miners = TRUE, !.threads_alive = s.threads_alive - 1,
                     !.threads = IF s.threads_alive = 1 THEN {} ELSE s.threads]
             EXCEPT !.cancelled = TRUE]
  BY <1>1 DEF Answered, Cancelled, ActorState
<1> HIDE DEF t
<1> DEFINE h == IF s.threads_alive = 1 THEN {} ELSE s.threads
<1>9. h \subseteq Workers BY <1>1 DEF ActorState
<1>10. t = [[s EXCEPT !.need_run_miners = TRUE, !.threads_alive = s.threads_alive - 1,
                      !.threads = h] EXCEPT !.cancelled = TRUE]
  BY <1>8
<1> HIDE DEF h
<1>11. t \in ActorState(G) BY <1>1, <1>5, <1>9, <1>10 DEF ActorState
<1>12. /\ t.status = s.status /\ t.giver = s.giver /\ t.checked = s.checked
       /\ t.pending = s.pending /\ t.giver_params = s.giver_params
       /\ t.threads = h /\ t.threads_alive = s.threads_alive - 1 /\ t.running = s.running
       /\ t.miner_options_copy = s.miner_options_copy /\ t.cancelled = TRUE
  BY <1>1, <1>10 DEF ActorState
<1>13. Counted(t, A \ {a})
  <2>1. t.threads = {} => t.threads_alive = 0 BY <1>7, <1>12 DEF h
  <2>2. t.running \subseteq t.threads BY <1>1, <1>6, <1>12 DEF h, Counted
  <2>3. t.status # "stopped" BY <1>1, <1>2, <1>5, <1>12 DEF Counted
  <2>4. t.threads_alive = Cardinality(t.running) + Cardinality(A \ {a}) BY <1>5, <1>12
  <2> QED BY <1>1, <1>3, <1>7, <1>12, <2>1, <2>2, <2>3, <2>4 DEF Counted
<1>14. OneLess(s, t) BY <1>5, <1>6, <1>7, <1>12 DEF OneLess, h
<1> QED BY <1>11, <1>13, <1>14 DEF Good, t

\* query_givers_params starts over with no answer and one query for each giver.
LEMMA QueryGiversGood ==
  ASSUME opt \in Setups, NEW A, NEW s, Good(s, A, opt.givers), FreeRounds(s) # {}
  PROVE  LET t == query_givers_params(s)
         IN  /\ Good(t, A, opt.givers) /\ t.status = s.status /\ t.checked = s.checked
             /\ t.threads = s.threads /\ t.threads_alive = s.threads_alive /\ t.running = s.running
             /\ t.miner_options_copy = s.miner_options_copy /\ t.giver_params = << >>
             /\ \E r \in Rounds :
                  t.pending = s.pending \cup [round : {r}, giver : opt.givers, value : {None}]
<1> DEFINE round == CHOOSE r \in FreeRounds(s) : TRUE
           new == s.pending \cup [round : {round}, giver : opt.givers, value : {None}]
           t == query_givers_params(s)
           G == opt.givers
<1>1. s \in ActorState(G) /\ Counted(s, A) BY DEF Good
<1>2. round \in Rounds BY DEF FreeRounds
<1>3. t = [s EXCEPT !.giver_params = << >>, !.pending = new] BY <1>1 DEF query_givers_params, ActorState
<1>4. new \subseteq [round : Rounds, giver : G, value : PowParams \cup {None}]
  BY <1>1, <1>2 DEF ActorState
<1> HIDE DEF round, t
<1>5. new = s.pending \cup [round : {round}, giver : opt.givers, value : {None}] OBVIOUS
<1> HIDE DEF new
<1>6. << >> \in Seq([giver : G, complexity : Complexities]) OBVIOUS
<1>7. t \in ActorState(G) BY <1>1, <1>3, <1>4, <1>6 DEF ActorState
<1>8. /\ t.status = s.status /\ t.giver = s.giver /\ t.checked = s.checked
      /\ t.miner_options = s.miner_options /\ t.cancelled = s.cancelled
      /\ t.threads = s.threads /\ t.threads_alive = s.threads_alive /\ t.running = s.running
      /\ t.miner_options_copy = s.miner_options_copy /\ t.giver_params = << >> /\ t.pending = new
  BY <1>1, <1>3 DEF ActorState
<1>9. Counted(t, A) BY <1>1, <1>8 DEF Counted
<1> QED BY <1>2, <1>5, <1>7, <1>8, <1>9 DEF Good, t

-----------------------------------------------------------------------------
(* The invariant of the actor                                              *)

Inv ==
  /\ opt \in Setups /\ onchain \in [opt.givers -> PowParams]
  /\ answers \subseteq [worker : Workers, proof : PowParams \cup {None}]
  /\ sent \subseteq [to : Givers, seed : Seeds]
  /\ Good(m, answers, opt.givers)

\* start_up: the record before loop.
Fresh(g, fixed) ==
  [status |-> "up", close_flag |-> FALSE,
   giver |-> IF fixed THEN g ELSE None, checked |-> fixed,
   giver_params |-> <<>>, pending |-> {}, next_query |-> "due", query |-> None,
   miner_options |-> None, miner_options_copy |-> None,
   need_run_miners |-> FALSE, threads |-> {}, threads_alive |-> 0,
   running |-> {}, cancelled |-> FALSE]

LEMMA FreshGood ==
  ASSUME opt \in Setups, NEW g \in opt.givers, NEW fixed \in BOOLEAN
  PROVE  /\ Good(Fresh(g, fixed), {}, opt.givers) /\ FreeRounds(Fresh(g, fixed)) # {}
         /\ Fresh(g, fixed).status = "up" /\ Fresh(g, fixed).checked = fixed
         /\ Fresh(g, fixed).pending = {} /\ Fresh(g, fixed).threads = {}
         /\ Fresh(g, fixed).threads_alive = 0
<1> DEFINE s == Fresh(g, fixed)
           G == opt.givers
<1>1. Cardinality({}) = 0 /\ IsFiniteSet({}) BY FS_EmptySet
<1>2. 0 \in 0 .. Cardinality(Workers)
  <2>1. Cardinality(Workers) \in Nat BY ActorConstants, FS_CardinalityType
  <2> QED BY <2>1
<1>3. << >> \in Seq([giver : G, complexity : Complexities]) OBVIOUS
<1>4. g # None BY OptFacts
<1>5. s \in ActorState(G) BY <1>2, <1>3 DEF Fresh, ActorState
<1>6. Counted(s, {}) BY <1>1, <1>4 DEF Fresh, Counted
<1>7. FreeRounds(s) # {}
  <2>0. MaxRounds \in Nat \ {0} BY ActorConstants
  <2>1. 1 \in Rounds BY <2>0 DEF Rounds
  <2>2. s.pending = {} BY DEF Fresh
  <2> HIDE DEF s
  <2> QED BY <2>1, <2>2 DEF FreeRounds
<1> QED BY <1>5, <1>6, <1>7 DEF Good, Fresh

\* What start_up hands to loop.
LEMMA StartUp ==
  ASSUME Init
  PROVE  /\ opt \in Setups
         /\ \E g \in opt.givers :
              LET s == Fresh(g, opt.strategy = "")
              IN  m \in Loop(IF opt.strategy = "" THEN s ELSE query_givers_params(s))
  BY DEF Init, Fresh

LEMMA InvInit == ASSUME Init PROVE Inv
<1>1. opt \in Setups BY StartUp
<1>2. onchain \in [opt.givers -> PowParams]
  <2>1. PICK c \in [opt.givers -> opt.complexities] :
          onchain = [g \in opt.givers |-> [seed |-> [giver |-> g, n |-> 0], complexity |-> c[g]]]
    BY DEF Init
  <2>2. ASSUME NEW g \in opt.givers
        PROVE  [seed |-> [giver |-> g, n |-> 0], complexity |-> c[g]] \in PowParams
    BY <1>1, OptFacts DEF PowParams, Seeds
  <2> QED BY <2>1, <2>2
<1>3. PICK g \in opt.givers :
        LET s == Fresh(g, opt.strategy = "")
        IN  m \in Loop(IF opt.strategy = "" THEN s ELSE query_givers_params(s))
  BY StartUp
<1> DEFINE s == Fresh(g, opt.strategy = "")
           t == IF opt.strategy = "" THEN s ELSE query_givers_params(s)
<1>4. Good(s, {}, opt.givers) /\ FreeRounds(s) # {} /\ s.status = "up" BY <1>1, FreshGood
<1>5. m \in Loop(t) BY <1>3
<1> HIDE DEF s
<1>6. Good(t, {}, opt.givers) /\ t.status = "up" BY <1>1, <1>4, QueryGiversGood
<1> HIDE DEF t
<1>7. Good(m, {}, opt.givers) BY <1>1, <1>5, <1>6, LoopGood
<1>8. answers = {} /\ sent = {} BY DEF Init
<1> QED BY <1>1, <1>2, <1>7, <1>8 DEF Inv

\* The steps that go through loop with the rounds as they are.
LEMMA AlarmGood ==
  ASSUME Inv, Alarm
  PROVE  /\ Inv'
         /\ \E s : /\ Good(s, answers, opt.givers) /\ Keeps(m, s) /\ s.checked = m.checked
                   /\ s.status = "up" /\ m' \in Loop(s)
<1> DEFINE s == [m EXCEPT !.next_query = "due"]
           G == opt.givers
<1>1. m \in ActorState(G) /\ Counted(m, answers) /\ opt \in Setups BY DEF Inv, Good
<1>2. s \in ActorState(G) BY <1>1 DEF ActorState
<1>3. /\ s.status = m.status /\ s.giver = m.giver /\ s.checked = m.checked
      /\ s.miner_options = m.miner_options /\ s.cancelled = m.cancelled /\ Keeps(m, s)
  BY <1>1 DEF ActorState, Keeps
<1>4. m' \in Loop(s) /\ m.status = "up" BY DEF Alarm, Up
<1> HIDE DEF s
<1>5. Counted(s, answers) BY <1>1, <1>3 DEF Counted, Keeps
<1>6. Good(s, answers, G) /\ s.status = "up" BY <1>2, <1>3, <1>4, <1>5 DEF Good
<1>7. Good(m', answers, G) BY <1>1, <1>4, <1>6, LoopGood
<1>8. UNCHANGED <<opt, onchain, answers, sent>> BY DEF Alarm
<1>9. Inv' BY <1>7, <1>8 DEF Inv
<1> QED BY <1>3, <1>4, <1>6, <1>9

LEMMA WithGiverInfoGood ==
  ASSUME Inv, with_giver_info
  PROVE  /\ Inv'
         /\ \E s : /\ Good(s, answers, opt.givers) /\ Keeps(m, s) /\ s.checked = m.checked
                   /\ s.status = "up" /\ m' \in Loop(s)
<1> DEFINE s == InfoTaken(m, m.query.value)
           G == opt.givers
<1>1. m \in ActorState(G) /\ Good(m, answers, G) /\ opt \in Setups BY DEF Inv, Good
<1>2. m.query.value \in PowParams
  <2>1. m.query # None /\ m.query.value # None BY DEF with_giver_info
  <2>2. m.query \in [giver : G, value : PowParams \cup {None}] BY <1>1, <2>1 DEF ActorState
  <2> QED BY <2>1, <2>2
<1>3. m' \in Loop(s) /\ m.status = "up" BY DEF with_giver_info, Up, InfoTaken
<1>4. Good(s, answers, G) /\ Keeps(m, s) /\ s.checked = m.checked /\ s.status = m.status
  BY <1>1, <1>2, GiverInfoGood
<1> HIDE DEF s
<1>5. Good(m', answers, G) BY <1>1, <1>3, <1>4, LoopGood
<1>6. UNCHANGED <<opt, onchain, answers, sent>> BY DEF with_giver_info
<1>7. Inv' BY <1>5, <1>6 DEF Inv
<1> QED BY <1>3, <1>4, <1>7

\* The steps that leave rounds and workers alone, and whether a giver is selected.
LEMMA QuietGood ==
  ASSUME Inv, ServeQuery \/ with_giver_info_error \/ hangup
              \/ \E q \in m.pending : GiverParamsError(q)
  PROVE  Inv' /\ Keeps(m, m') /\ m'.checked = m.checked
<1> DEFINE G == opt.givers
<1>1. m \in ActorState(G) /\ Counted(m, answers) /\ opt \in Setups /\ Good(m, answers, G)
  BY DEF Inv, Good
<1>2. UNCHANGED <<opt, onchain, answers, sent>>
  <2>1. CASE ServeQuery BY <2>1 DEF ServeQuery
  <2>2. CASE with_giver_info_error BY <2>2 DEF with_giver_info_error
  <2>3. CASE hangup BY <2>3 DEF hangup
  <2>4. CASE \E q \in m.pending : GiverParamsError(q) BY <2>4 DEF GiverParamsError
  <2> QED BY <2>1, <2>2, <2>3, <2>4
<1>3. Good(m', answers, G) /\ Keeps(m, m') /\ m'.checked = m.checked
  <2>1. CASE ServeQuery
    <3> DEFINE v == onchain[m.query.giver]
    <3>1. m.query \in [giver : G, value : PowParams \cup {None}] BY <1>1, <2>1 DEF ServeQuery, ActorState
    <3>2. v \in PowParams BY <3>1 DEF Inv
    <3>3. m' = [m EXCEPT !.query = [m.query EXCEPT !.value = v]]
      BY <1>1, <2>1, <3>1 DEF ServeQuery, ActorState
    <3> HIDE DEF v
    <3>4. [m.query EXCEPT !.value = v] \in [giver : G, value : PowParams \cup {None}]
      BY <3>1, <3>2
    <3>5. m' \in ActorState(G) BY <1>1, <3>3, <3>4 DEF ActorState
    <3>6. /\ m'.status = m.status /\ m'.giver = m.giver /\ m'.checked = m.checked
          /\ m'.miner_options = m.miner_options /\ m'.cancelled = m.cancelled /\ Keeps(m, m')
      BY <1>1, <3>3 DEF ActorState, Keeps
    <3>7. Counted(m', answers) BY <1>1, <3>6 DEF Counted, Keeps
    <3> QED BY <3>5, <3>6, <3>7 DEF Good
  <2>2. ASSUME NEW s, s = [m EXCEPT !.close_flag = TRUE]
        PROVE  Good(s, answers, G) /\ Keeps(m, s) /\ s.checked = m.checked
    <3>1. s \in ActorState(G) BY <1>1, <2>2 DEF ActorState
    <3>2. /\ s.status = m.status /\ s.giver = m.giver /\ s.checked = m.checked
          /\ s.miner_options = m.miner_options /\ s.cancelled = m.cancelled /\ Keeps(m, s)
      BY <1>1, <2>2 DEF ActorState, Keeps
    <3>3. Counted(s, answers) BY <1>1, <3>2 DEF Counted, Keeps
    <3> QED BY <3>1, <3>2, <3>3 DEF Good
  <2>3. ASSUME NEW s, Good(s, answers, G), NEW status \in {"exited", "aborted"},
               m' = [s EXCEPT !.status = status]
        PROVE  Good(m', answers, G) /\ Keeps(s, m') /\ m'.checked = s.checked
    <3>1. s \in ActorState(G) /\ Counted(s, answers) BY <2>3 DEF Good
    <3>2. m' \in ActorState(G) BY <2>3, <3>1 DEF ActorState
    <3>3. /\ m'.status = status /\ m'.giver = s.giver /\ m'.checked = s.checked
          /\ m'.miner_options = s.miner_options /\ m'.cancelled = s.cancelled /\ Keeps(s, m')
      BY <2>3, <3>1 DEF ActorState, Keeps
    <3>4. Counted(m', answers) BY <2>3, <3>1, <3>3 DEF Counted, Keeps
    <3> QED BY <3>2, <3>3, <3>4 DEF Good
  <2> DEFINE s == [m EXCEPT !.close_flag = TRUE]
             u == Cancelled(s)
  <2>4. Good(s, answers, G) /\ Keeps(m, s) /\ s.checked = m.checked BY <2>2
  <2> HIDE DEF s
  <2>5. Good(u, answers, G) /\ Keeps(s, u) /\ u.checked = s.checked BY <2>4, CancelledGood
  <2>6. CASE with_giver_info_error
    <3>1. m' = [u EXCEPT !.status = "exited"] BY <2>6 DEF with_giver_info_error, s
    <3> HIDE DEF u
    <3> QED BY <2>3, <2>4, <2>5, <3>1 DEF Keeps
  <2>7. CASE hangup
    <3>1. m' = TryStop(u) BY <2>7 DEF hangup, s
    <3> HIDE DEF u
    <3> QED BY <2>4, <2>5, <3>1, TryStopGood DEF Keeps
  <2>8. CASE \E q \in m.pending : GiverParamsError(q)
    <3>1. m' = [m EXCEPT !.status = "aborted"] BY <2>8 DEF GiverParamsError
    <3> QED BY <1>1, <2>3, <3>1
  <2> QED BY <2>1, <2>6, <2>7, <2>8
<1> QED BY <1>2, <1>3 DEF Inv

\* The liteserver's answers to a round of queries.
LEMMA ServeRoundGood ==
  ASSUME Inv, NEW q \in m.pending, ServeRound(q)
  PROVE  /\ Inv' /\ m'.miner_options_copy = m.miner_options_copy /\ m'.threads = m.threads
         /\ m'.threads_alive = m.threads_alive /\ m'.giver_params = m.giver_params
         /\ m'.checked = m.checked
         /\ \E r : r.giver = q.giver /\ m'.pending = (m.pending \ {q}) \cup {r}
<1> DEFINE G == opt.givers
           Q == [round : Rounds, giver : G, value : PowParams \cup {None}]
           r == [q EXCEPT !.value = onchain[q.giver]]
           new == (m.pending \ {q}) \cup {r}
<1>1. m \in ActorState(G) /\ Counted(m, answers) /\ opt \in Setups /\ m.pending \subseteq Q
  BY DEF Inv, Good, ActorState
<1>2. q \in Q BY <1>1
<1>3. onchain[q.giver] \in PowParams BY <1>2 DEF Inv
<1>4. r \in Q /\ r.giver = q.giver BY <1>2, <1>3
<1>5. m' = [m EXCEPT !.pending = new] BY <1>1 DEF ServeRound, ActorState
<1> HIDE DEF r
<1>6. new \subseteq Q /\ new = (m.pending \ {q}) \cup {r} BY <1>1, <1>4
<1> HIDE DEF new
<1>7. m' \in ActorState(G) BY <1>1, <1>5, <1>6 DEF ActorState
<1>8. /\ m'.status = m.status /\ m'.giver = m.giver /\ m'.checked = m.checked
      /\ m'.miner_options = m.miner_options /\ m'.cancelled = m.cancelled
      /\ m'.pending = new /\ m'.giver_params = m.giver_params
      /\ m'.threads = m.threads /\ m'.threads_alive = m.threads_alive /\ m'.running = m.running
      /\ m'.miner_options_copy = m.miner_options_copy
  BY <1>1, <1>5 DEF ActorState
<1>9. Counted(m', answers) BY <1>1, <1>8 DEF Counted
<1>10. Inv' BY <1>7, <1>9 DEF Inv, Good, ServeRound
<1> QED BY <1>4, <1>6, <1>8, <1>10

LEMMA GiverParamsGood ==
  ASSUME Inv, NEW q \in m.pending, GiverParams(q)
  PROVE  /\ Inv' /\ m'.miner_options_copy = m.miner_options_copy /\ m'.threads = m.threads
         /\ m'.threads_alive = m.threads_alive /\ m'.checked = m.checked
         /\ m'.pending = m.pending \ {q}
         /\ \E p \in [giver : opt.givers, complexity : Complexities] :
              p.giver = q.giver /\ m'.giver_params = Append(m.giver_params, p)
<1> DEFINE G == opt.givers
           P == [giver : G, complexity : Complexities]
           p == [giver |-> q.giver, complexity |-> q.value.complexity]
           new == Append(m.giver_params, p)
<1>1. /\ m \in ActorState(G) /\ Counted(m, answers) /\ opt \in Setups
      /\ m.pending \subseteq [round : Rounds, giver : G, value : PowParams \cup {None}]
      /\ m.giver_params \in Seq(P)
  BY DEF Inv, Good, ActorState
<1>2. q.giver \in G /\ q.value \in PowParams BY <1>1 DEF GiverParams
<1>3. p \in P /\ p.giver = q.giver BY <1>2 DEF PowParams
<1>4. m' = [m EXCEPT !.pending = m.pending \ {q}, !.giver_params = new]
  BY <1>1 DEF GiverParams, ActorState
<1> HIDE DEF p, P
<1>5. new \in Seq(P) /\ new = Append(m.giver_params, p) BY <1>1, <1>3
<1> HIDE DEF new
<1>6. m' \in ActorState(G) BY <1>1, <1>4, <1>5 DEF ActorState, P
<1>7. /\ m'.status = m.status /\ m'.giver = m.giver /\ m'.checked = m.checked
      /\ m'.miner_options = m.miner_options /\ m'.cancelled = m.cancelled
      /\ m'.pending = m.pending \ {q} /\ m'.giver_params = new
      /\ m'.threads = m.threads /\ m'.threads_alive = m.threads_alive /\ m'.running = m.running
      /\ m'.miner_options_copy = m.miner_options_copy
  BY <1>1, <1>4 DEF ActorState
<1>8. Counted(m', answers) BY <1>1, <1>7 DEF Counted
<1>9. Inv' BY <1>6, <1>8 DEF Inv, Good, GiverParams
<1> QED BY <1>3, <1>5, <1>7, <1>9 DEF P

\* A worker turns into an answer.
LEMMA WorkerReturnsGood ==
  ASSUME Inv, NEW w \in Workers, WorkerReturns(w)
  PROVE  /\ Inv' /\ m'.miner_options_copy = m.miner_options_copy /\ m'.threads = m.threads
         /\ m'.threads_alive = m.threads_alive /\ m'.giver_params = m.giver_params
         /\ m'.checked = m.checked /\ m'.pending = m.pending
<1> DEFINE G == opt.givers
<1>1. m \in ActorState(G) /\ Counted(m, answers) /\ opt \in Setups BY DEF Inv, Good
<1>2. m.running \subseteq Workers /\ w \in m.running /\ m.status = "up"
      /\ m.miner_options_copy \in PowParams \cup {None}
  BY <1>1 DEF ActorState, WorkerReturns, Up
<1>3. PICK proof \in {None, m.miner_options_copy} :
        answers' = answers \cup {[worker |-> w, proof |-> proof]}
  BY DEF WorkerReturns
<1> DEFINE x == [worker |-> w, proof |-> proof]
<1>4. x \in [worker : Workers, proof : PowParams \cup {None}] /\ x.worker = w BY <1>2, <1>3
<1> HIDE DEF x
<1>5. answers' = answers \cup {x} BY <1>3 DEF x
<1>6. x \notin answers BY <1>1, <1>2, <1>4 DEF Counted
<1>7. IsFiniteSet(m.running) /\ IsFiniteSet(answers)
  <2>1. IsFiniteSet(Workers) BY ActorConstants
  <2> QED BY <1>1, <1>2, <2>1, FS_Subset DEF Counted
<1>8. IsFiniteSet(answers') /\ Cardinality(answers') = Cardinality(answers) + 1
  BY <1>5, <1>6, <1>7, FS_AddElement
<1>9. Cardinality(m.running \ {w}) = Cardinality(m.running) - 1
  BY <1>2, <1>7, FS_RemoveElement
<1>10. Cardinality(m.running) \in Nat /\ Cardinality(answers) \in Nat BY <1>7, FS_CardinalityType
<1>11. m' = [m EXCEPT !.running = m.running \ {w}] BY <1>1 DEF WorkerReturns, ActorState
<1>12. m' \in ActorState(G) BY <1>1, <1>11 DEF ActorState
<1>13. /\ m'.status = m.status /\ m'.giver = m.giver /\ m'.checked = m.checked
       /\ m'.miner_options = m.miner_options /\ m'.cancelled = m.cancelled
       /\ m'.pending = m.pending /\ m'.giver_params = m.giver_params
       /\ m'.threads = m.threads /\ m'.threads_alive = m.threads_alive
       /\ m'.running = m.running \ {w} /\ m'.miner_options_copy = m.miner_options_copy
  BY <1>1, <1>11 DEF ActorState
<1>14. Counted(m', answers')
  <2>1. m'.threads_alive = Cardinality(m'.running) + Cardinality(answers')
    <3>1. m.threads_alive = Cardinality(m.running) + Cardinality(answers) BY <1>1 DEF Counted
    <3> QED BY <1>8, <1>9, <1>10, <1>13, <3>1
  <2>2. \A y \in answers' : y.worker \notin m'.running BY <1>1, <1>4, <1>5, <1>13 DEF Counted
  <2> QED BY <1>1, <1>8, <1>13, <2>1, <2>2 DEF Counted
<1>15. answers' \subseteq [worker : Workers, proof : PowParams \cup {None}]
  BY <1>4, <1>5 DEF Inv
<1>16. UNCHANGED <<opt, onchain, sent>> BY DEF WorkerReturns
<1>17. Inv' BY <1>12, <1>14, <1>15, <1>16 DEF Inv, Good
<1> QED BY <1>13, <1>17

\* got_answer before it calls loop.
AnswerTaken(s) ==
  IF opt.strategy = "" THEN Answered(s)
  ELSE query_givers_params([Answered(s) EXCEPT !.checked = FALSE])

LEMMA GotAnswerGood ==
  ASSUME Inv, NEW a \in answers, got_answer(a)
  PROVE  /\ Inv'
         /\ LET s == AnswerTaken(m)
            IN  /\ Good(s, answers', opt.givers) /\ s.status = "up" /\ m' \in Loop(s)
                /\ s.miner_options_copy = m.miner_options_copy /\ m.threads # {}
                /\ s.threads = (IF m.threads_alive = 1 THEN {} ELSE m.threads)
                /\ m.threads_alive = 1 => m.running = {}
                /\ s.threads_alive = m.threads_alive - 1 /\ m.threads_alive > 0
                /\ opt.strategy = "" => s.checked = m.checked
                /\ opt.strategy # "" =>
                     /\ ~s.checked /\ s.giver_params = << >>
                     /\ \E r \in Rounds :
                          s.pending = m.pending \cup [round : {r}, giver : opt.givers, value : {None}]
<1> DEFINE G == opt.givers
           B == answers \ {a}
           t == Answered(m)
           u == [t EXCEPT !.checked = FALSE]
           s == AnswerTaken(m)
<1>1. Good(m, answers, G) /\ opt \in Setups BY DEF Inv
<1>2. m.status = "up" /\ FreeRounds(m) # {} /\ answers' = B /\ m' \in Loop(s)
      /\ UNCHANGED <<opt, onchain>>
  BY DEF got_answer, Up, AnswerTaken
<1>3. Good(t, B, G) /\ OneLess(m, t) BY <1>1, AnsweredGood
<1>4. s = IF opt.strategy = "" THEN t ELSE query_givers_params(u) BY DEF AnswerTaken
<1> HIDE DEF t, s
<1>5. t \in ActorState(G) /\ Counted(t, B) BY <1>3 DEF Good
<1>6. u \in ActorState(G) BY <1>5 DEF ActorState
<1>7. /\ u.status = t.status /\ u.giver = t.giver /\ ~u.checked
      /\ u.miner_options = t.miner_options /\ u.cancelled = t.cancelled /\ Keeps(t, u)
  BY <1>5 DEF ActorState, Keeps
<1> HIDE DEF u
<1>8. Good(u, B, G)
  <2>1. Counted(u, B) BY <1>5, <1>7 DEF Counted, Keeps
  <2> QED BY <1>6, <2>1 DEF Good
<1>9. FreeRounds(u) # {} /\ u.pending = m.pending
  BY <1>2, <1>3, <1>7 DEF FreeRounds, Keeps, OneLess
<1>10. /\ Good(s, B, G) /\ s.status = "up"
       /\ s.miner_options_copy = m.miner_options_copy
       /\ s.threads = (IF m.threads_alive = 1 THEN {} ELSE m.threads)
       /\ s.threads_alive = m.threads_alive - 1
       /\ opt.strategy = "" => s.checked = m.checked
       /\ opt.strategy # "" =>
            /\ ~s.checked /\ s.giver_params = << >>
            /\ \E r \in Rounds :
                 s.pending = m.pending \cup [round : {r}, giver : opt.givers, value : {None}]
  <2>1. CASE opt.strategy = "" BY <1>2, <1>3, <1>4, <2>1 DEF OneLess
  <2>2. CASE opt.strategy # ""
    <3>1. s = query_givers_params(u) BY <1>4, <2>2
    <3>2. /\ Good(s, B, opt.givers) /\ s.status = u.status /\ s.checked = u.checked
          /\ s.threads = u.threads /\ s.threads_alive = u.threads_alive
          /\ s.miner_options_copy = u.miner_options_copy /\ s.giver_params = << >>
          /\ \E r \in Rounds :
               s.pending = u.pending \cup [round : {r}, giver : opt.givers, value : {None}]
      BY <1>1, <1>8, <1>9, <3>1, QueryGiversGood
    <3> QED BY <1>2, <1>3, <1>7, <1>9, <2>2, <3>2 DEF Keeps, OneLess
  <2> QED BY <2>1, <2>2
<1>11. Good(m', B, G) BY <1>1, <1>2, <1>10, LoopGood
<1>12. sent' \subseteq [to : Givers, seed : Seeds]
  <2>1. CASE a.proof = None BY <2>1 DEF got_answer, Inv
  <2>2. CASE a.proof # None
    <3>1. a.proof \in PowParams BY <2>2 DEF Inv
    <3>2. a.proof.seed \in Seeds BY <3>1 DEF PowParams
    <3>3. m.giver \in G BY <1>1, <1>3 DEF Good, ActorState, OneLess
    <3>4. m.giver \in Givers BY <1>1, <3>3, OptFacts
    <3>5. sent' = sent \cup {[to |-> m.giver, seed |-> a.proof.seed]} BY <2>2 DEF got_answer
    <3> QED BY <3>2, <3>4, <3>5 DEF Inv
  <2> QED BY <2>1, <2>2
<1>13. Inv' BY <1>2, <1>11, <1>12 DEF Inv
<1> QED BY <1>2, <1>3, <1>10, <1>13 DEF s, OneLess

\* The givers change on their own.
LEMMA GiverGood ==
  ASSUME Inv, NEW g \in opt.givers, GiverChanges(g) \/ GiverRescaled(g)
  PROVE  Inv' /\ m' = m
<1>1. UNCHANGED <<opt, m, answers, sent>> BY DEF GiverChanges, GiverRescaled
<1>2. onchain \in [opt.givers -> PowParams] /\ opt \in Setups BY DEF Inv
<1>3. opt.complexities \subseteq Complexities /\ opt.givers \subseteq Givers BY <1>2, OptFacts
<1>4. onchain[g] \in PowParams /\ onchain[g].seed \in Seeds /\ onchain[g].seed.n \in Nat
  BY <1>2 DEF PowParams, Seeds
<1>5. onchain' \in [opt.givers -> PowParams]
  <2>1. CASE GiverChanges(g)
    <3> DEFINE v(c) == [seed |-> [giver |-> g, n |-> onchain[g].seed.n + 1], complexity |-> c]
    <3>1. PICK c \in opt.complexities : onchain' = [onchain EXCEPT ![g] = v(c)]
      BY <1>2, <2>1 DEF GiverChanges
    <3>2. v(c) \in PowParams BY <1>3, <1>4 DEF PowParams, Seeds
    <3> QED BY <1>2, <3>1, <3>2
  <2>2. CASE GiverRescaled(g)
    <3>1. PICK c \in opt.complexities : onchain' = [onchain EXCEPT ![g].complexity = c]
      BY <2>2 DEF GiverRescaled
    <3>2. [onchain[g] EXCEPT !.complexity = c] \in PowParams BY <1>3, <1>4 DEF PowParams
    <3>3. onchain' = [onchain EXCEPT ![g] = [onchain[g] EXCEPT !.complexity = c]]
      BY <1>2, <3>1
    <3> QED BY <1>2, <3>2, <3>3
  <2> QED BY <2>1, <2>2
<1> QED BY <1>1, <1>5 DEF Inv

LEMMA InvNext == ASSUME Inv, [Next]_vars PROVE Inv'
<1>1. CASE UNCHANGED vars BY <1>1 DEF vars, Inv
<1>2. ASSUME NEW w \in Workers, WorkerDone(w) PROVE Inv'
  BY <1>2, WorkerReturnsGood, GotAnswerGood DEF WorkerDone
<1>3. CASE AnswerRound BY <1>3, ServeRoundGood, GiverParamsGood DEF AnswerRound
<1>4. CASE AnswerQuery BY <1>4, QuietGood, WithGiverInfoGood DEF AnswerQuery
<1>5. CASE with_giver_info_error \/ hangup \/ \E q \in m.pending : GiverParamsError(q)
  BY <1>5, QuietGood
<1>6. CASE \E g \in opt.givers : GiverChanges(g) \/ GiverRescaled(g) BY <1>6, GiverGood
<1>7. CASE Alarm BY <1>7, AlarmGood
<1> QED BY <1>1, <1>2, <1>3, <1>4, <1>5, <1>6, <1>7 DEF Next

LEMMA Invariance == Spec => []Inv
<1>1. Init => Inv BY InvInit
<1>2. Inv /\ [Next]_vars => Inv' BY InvNext
<1> QED BY <1>1, <1>2, PTL DEF Spec

-----------------------------------------------------------------------------
(* Theorems                                                                *)

\* Workers that are not cancelled mine the options the actor holds, and
\* threads_alive_ counts the workers that have not been answered for.
THEOREM UncancelledIsCurrentAlways == Spec => []UncancelledIsCurrent
<1>1. Inv => UncancelledIsCurrent
  <2> SUFFICES ASSUME Inv PROVE UncancelledIsCurrent OBVIOUS
  <2>1. m \in ActorState(opt.givers) /\ Counted(m, answers) /\ opt \in Setups BY DEF Inv, Good
  <2>2. opt.givers \subseteq Givers BY <2>1, OptFacts
  <2>3. m.giver_params \in Seq([giver : Givers, complexity : Complexities])
    <3> DEFINE S == [giver : opt.givers, complexity : Complexities]
               T == [giver : Givers, complexity : Complexities]
    <3>1. m.giver_params \in Seq(S) BY <2>1 DEF ActorState
    <3>2. S \subseteq T BY <2>2
    <3> HIDE DEF S, T
    <3>3. m.giver_params \in Seq(T) BY <3>1, <3>2, SeqMonotone
    <3> QED BY <3>3 DEF T
  <2>4. m.pending \subseteq [round : Rounds, giver : Givers, value : PowParams \cup {None}]
    BY <2>1, <2>2 DEF ActorState
  <2>5. m.query = None \/ m.query \in [giver : Givers, value : PowParams \cup {None}]
    BY <2>1, <2>2 DEF ActorState
  <2>6. /\ m.status \in {"up", "stopped", "exited", "aborted"}
        /\ {m.close_flag, m.checked, m.need_run_miners, m.cancelled} \subseteq BOOLEAN
        /\ m.giver \in Givers \cup {None} /\ m.next_query \in {"due", "later", "none"}
        /\ m.miner_options \in PowParams \cup {None}
        /\ m.miner_options_copy \in PowParams \cup {None}
        /\ m.threads \subseteq Workers /\ m.threads_alive \in 0 .. Cardinality(Workers)
    BY <2>1, <2>2 DEF ActorState
  <2>7. TypeOK BY <2>1, <2>3, <2>4, <2>5, <2>6 DEF TypeOK, Inv, Counted
  <2> QED BY <2>1, <2>7 DEF UncancelledIsCurrent, Counted
<1> QED BY <1>1, Invariance, PTL

\* The options the worker threads read by reference do not change while a
\* worker runs.
THEOREM CopyStableAlways == Spec => CopyStable
<1>1. Inv /\ [Next]_vars =>
        [m.running # {} => m'.miner_options_copy = m.miner_options_copy]_vars
  <2> SUFFICES ASSUME Inv, [Next]_vars, m.running # {}
               PROVE  m'.miner_options_copy = m.miner_options_copy
    OBVIOUS
  <2>0. opt \in Setups /\ m.threads # {} BY DEF Inv, Good, Counted
  <2>1. CASE UNCHANGED vars BY <2>1 DEF vars
  <2>2. ASSUME NEW s, Good(s, answers, opt.givers), Keeps(m, s), s.status = "up", m' \in Loop(s)
        PROVE  m'.miner_options_copy = m.miner_options_copy
    <3>1. Keeps(s, m') \/ s.threads = {} BY <2>0, <2>2, LoopGood
    <3> QED BY <2>0, <2>2, <3>1 DEF Keeps
  <2>3. CASE Alarm BY <2>2, <2>3, AlarmGood
  <2>4. CASE with_giver_info BY <2>2, <2>4, WithGiverInfoGood
  <2>5. CASE ServeQuery \/ with_giver_info_error \/ hangup
             \/ \E q \in m.pending : GiverParamsError(q)
    BY <2>5, QuietGood DEF Keeps
  <2>6. CASE AnswerRound BY <2>6, ServeRoundGood, GiverParamsGood DEF AnswerRound
  <2>7. ASSUME NEW w \in Workers, WorkerReturns(w) PROVE m'.miner_options_copy = m.miner_options_copy
    BY <2>7, WorkerReturnsGood
  <2>8. ASSUME NEW a \in answers, got_answer(a) PROVE m'.miner_options_copy = m.miner_options_copy
    <3> DEFINE s == AnswerTaken(m)
    <3>1. /\ Good(s, answers', opt.givers) /\ s.status = "up" /\ m' \in Loop(s)
          /\ s.miner_options_copy = m.miner_options_copy
          /\ s.threads = (IF m.threads_alive = 1 THEN {} ELSE m.threads)
          /\ m.threads_alive = 1 => m.running = {}
      BY <2>8, GotAnswerGood
    <3> HIDE DEF s
    <3>2. Keeps(s, m') \/ s.threads = {} BY <2>0, <3>1, LoopGood
    <3> QED BY <2>0, <3>1, <3>2 DEF Keeps
  <2>9. CASE \E g \in opt.givers : GiverChanges(g) \/ GiverRescaled(g) BY <2>9, GiverGood
  <2> QED BY <2>1, <2>3, <2>4, <2>5, <2>6, <2>7, <2>8, <2>9 DEF Next, AnswerQuery, WorkerDone
<1> QED BY <1>1, Invariance, PTL DEF Spec, CopyStable

-----------------------------------------------------------------------------
(* The selection of a giver                                                *)

\* GPU builds run one worker; then no round of queries starts before the last
\* one has ended.
OneWorker == \A o \in Setups : o.strategy # "" => Cardinality(o.workers) = 1

\* Every giver is still being asked, once, or has answered; a round has ended
\* when a giver is selected or a worker runs.
RoundOK(s, G) ==
  /\ IsFiniteSet(s.pending)
  /\ s.checked \/ s.threads # {} => s.pending = {}
  /\ Len(s.giver_params) + Cardinality(s.pending) = Cardinality(G)
  /\ s.threads_alive <= 1
  /\ \A p, q \in s.pending : p.giver = q.giver => p = q
  /\ \A g \in G : \/ \E q \in s.pending : q.giver = g
                  \/ \E k \in DOMAIN s.giver_params : s.giver_params[k].giver = g

\* A fixed giver needs no selection.
RoundInv == IF opt.strategy = "" THEN m.checked ELSE RoundOK(m, opt.givers)

\* All givers have answered.
AllAnswered(s, G) == \A g \in G : \E k \in DOMAIN s.giver_params : s.giver_params[k].giver = g

LEMMA RoundKeeps ==
  ASSUME NEW G, NEW s, NEW t, RoundOK(s, G),
         t.pending = s.pending, t.giver_params = s.giver_params, t.checked = s.checked,
         t.threads = s.threads, t.threads_alive = s.threads_alive
  PROVE  RoundOK(t, G)
  BY DEF RoundOK

\* With as many answers as givers the round has ended.
LEMMA RoundEnded ==
  ASSUME opt \in Setups, NEW s, RoundOK(s, opt.givers), Len(s.giver_params) \in Nat,
         Len(s.giver_params) >= Cardinality(opt.givers)
  PROVE  s.pending = {} /\ AllAnswered(s, opt.givers)
<1>1. Cardinality(opt.givers) \in Nat BY OptFacts, FS_CardinalityType
<1>2. IsFiniteSet(s.pending) /\ Len(s.giver_params) + Cardinality(s.pending) = Cardinality(opt.givers)
  BY DEF RoundOK
<1>3. Cardinality(s.pending) \in Nat BY <1>2, FS_CardinalityType
<1>4. Cardinality(s.pending) = 0 BY <1>1, <1>2, <1>3
<1>5. s.pending = {} BY <1>2, <1>4, FS_EmptySet
<1> QED BY <1>5 DEF RoundOK, AllAnswered

\* loop selects a giver only when all have answered.
LEMMA LoopRound ==
  ASSUME opt \in Setups, OneWorker, opt.strategy # "", NEW A, NEW s, Good(s, A, opt.givers),
         s.status = "up", RoundOK(s, opt.givers), NEW t \in Loop(s)
  PROVE  RoundOK(t, opt.givers) /\ (~s.checked /\ t.checked => AllAnswered(s, opt.givers))
<1>1. /\ t.pending = s.pending /\ t.giver_params = s.giver_params
      /\ \/ Keeps(s, t)
         \/ t.checked /\ s.threads = {} /\ t.threads_alive = Cardinality(opt.workers)
      /\ \/ t.checked = s.checked
         \/ t.checked /\ ~s.checked /\ Len(s.giver_params) >= Cardinality(opt.givers)
  BY LoopGood
<1>2. Len(s.giver_params) \in Nat
  <2>1. s.giver_params \in Seq([giver : opt.givers, complexity : Complexities])
    BY DEF Good, ActorState
  <2> QED BY <2>1, LenNat
<1>3. Cardinality(opt.workers) = 1 BY DEF OneWorker
<1>4. t.checked # s.checked => s.pending = {} /\ AllAnswered(s, opt.givers)
  BY <1>1, <1>2, RoundEnded
<1>5. t.checked => t.pending = {} BY <1>1, <1>4 DEF RoundOK
<1>6. t.threads # {} => t.pending = {} BY <1>1, <1>5 DEF RoundOK, Keeps
<1>7. t.threads_alive <= 1
  <2>1. CASE Keeps(s, t) BY <2>1 DEF RoundOK, Keeps
  <2>2. CASE t.threads_alive = 1 BY <2>2, Small
  <2> QED BY <1>1, <1>3, <2>1, <2>2
<1>8. RoundOK(t, opt.givers) BY <1>1, <1>5, <1>6, <1>7 DEF RoundOK
<1> QED BY <1>4, <1>8

\* A new round asks every giver once.
LEMMA NewRound ==
  ASSUME opt \in Setups, NEW r \in Rounds, NEW s,
         s.pending = [round : {r}, giver : opt.givers, value : {None}], s.giver_params = << >>,
         ~s.checked, s.threads = {}, s.threads_alive <= 1
  PROVE  RoundOK(s, opt.givers)
<1> DEFINE G == opt.givers
           P == [round : {r}, giver : G, value : {None}]
           f == [g \in G |-> [round |-> r, giver |-> g, value |-> None]]
<1>1. IsFiniteSet(G) BY OptFacts
<1>2. f \in Bijection(G, P)
  <2>1. f \in [G -> P] OBVIOUS
  <2>2. \A g, h \in G : f[g] = f[h] => g = h
    <3> SUFFICES ASSUME NEW g \in G, NEW h \in G, f[g] = f[h] PROVE g = h OBVIOUS
    <3>1. f[g].giver = g /\ f[h].giver = h OBVIOUS
    <3> QED BY <3>1
  <2>3. \A p \in P : \E g \in G : f[g] = p
    <3> SUFFICES ASSUME NEW p \in P PROVE f[p.giver] = p /\ p.giver \in G OBVIOUS
    <3> QED OBVIOUS
  <2> HIDE DEF f, P
  <2> QED BY <2>1, <2>2, <2>3 DEF Bijection, Injection, IsInjective, Surjection
<1>3. IsFiniteSet(P) /\ Cardinality(P) = Cardinality(G)
  BY <1>1, <1>2, FS_Bijection DEF ExistsBijection
<1>4. \A g \in G : \E q \in P : q.giver = g
  <2> SUFFICES ASSUME NEW g \in G PROVE f[g] \in P /\ f[g].giver = g BY Zenon
  <2> QED OBVIOUS
<1>5. \A p, q \in P : p.giver = q.giver => p = q OBVIOUS
<1>6. s.pending = P OBVIOUS
<1>7. Len(s.giver_params) = 0 OBVIOUS
<1>8. Cardinality(G) \in Nat BY <1>1, FS_CardinalityType
<1> HIDE DEF P
<1>9. Len(s.giver_params) + Cardinality(s.pending) = Cardinality(G)
  BY <1>3, <1>6, <1>7, <1>8, Small
<1> QED BY <1>3, <1>4, <1>5, <1>6, <1>9 DEF RoundOK

LEMMA RoundInit == ASSUME OneWorker, Init PROVE RoundInv
<1>1. opt \in Setups BY StartUp
<1>2. PICK g \in opt.givers :
        LET s == Fresh(g, opt.strategy = "")
        IN  m \in Loop(IF opt.strategy = "" THEN s ELSE query_givers_params(s))
  BY StartUp
<1> DEFINE s == Fresh(g, opt.strategy = "")
           t == query_givers_params(s)
<1>3. /\ Good(s, {}, opt.givers) /\ FreeRounds(s) # {} /\ s.status = "up"
      /\ s.checked = (opt.strategy = "") /\ s.pending = {} /\ s.threads = {} /\ s.threads_alive = 0
  BY <1>1, FreshGood
<1>4. CASE opt.strategy = ""
  <2>1. m \in Loop(s) BY <1>2, <1>4
  <2> HIDE DEF s
  <2>2. m.checked = s.checked \/ m.checked BY <1>1, <1>3, <2>1, LoopGood
  <2>3. s.checked BY <1>3, <1>4
  <2>4. m.checked BY <2>2, <2>3
  <2> QED BY <1>4, <2>4 DEF RoundInv
<1>5. CASE opt.strategy # ""
  <2>1. m \in Loop(t) BY <1>2, <1>5
  <2> HIDE DEF s
  <2>2. /\ Good(t, {}, opt.givers) /\ t.status = s.status /\ t.checked = s.checked
        /\ t.threads = s.threads /\ t.threads_alive = s.threads_alive /\ t.giver_params = << >>
        /\ \E r \in Rounds :
             t.pending = s.pending \cup [round : {r}, giver : opt.givers, value : {None}]
    BY <1>1, <1>3, QueryGiversGood
  <2> HIDE DEF t
  <2>3. PICK r \in Rounds : t.pending = [round : {r}, giver : opt.givers, value : {None}]
    BY <1>3, <2>2
  <2>4. ~t.checked /\ t.threads = {} /\ t.threads_alive <= 1
    <3>1. ~t.checked /\ t.threads = {} /\ t.threads_alive = 0 BY <1>3, <1>5, <2>2
    <3> QED BY <3>1
  <2>5. RoundOK(t, opt.givers) BY <1>1, <2>2, <2>3, <2>4, NewRound
  <2>6. RoundOK(m, opt.givers) BY <1>1, <1>3, <1>5, <2>1, <2>2, <2>5, LoopRound
  <2> QED BY <1>5, <2>6 DEF RoundInv
<1> QED BY <1>4, <1>5

\* An answer moves a giver from the queries to the values.
LEMMA RoundAnswered ==
  ASSUME NEW G, NEW s, NEW t, NEW q \in s.pending, NEW p, NEW S, s.giver_params \in Seq(S),
         RoundOK(s, G), p \in S, p.giver = q.giver,
         t.pending = s.pending \ {q}, t.giver_params = Append(s.giver_params, p),
         t.checked = s.checked, t.threads = s.threads, t.threads_alive = s.threads_alive
  PROVE  RoundOK(t, G)
<1>1. ~s.checked /\ s.threads = {} /\ IsFiniteSet(s.pending) BY DEF RoundOK
<1>2. IsFiniteSet(t.pending) /\ Cardinality(t.pending) = Cardinality(s.pending) - 1
  BY <1>1, FS_RemoveElement
<1>3. Cardinality(s.pending) \in Nat BY <1>1, FS_CardinalityType
<1> DEFINE a == s.giver_params
           b == t.giver_params
<1>4. a \in Seq(S) /\ b = Append(a, p) OBVIOUS
<1> HIDE DEF a, b
<1>5. /\ Len(a) \in Nat /\ Len(b) = Len(a) + 1 /\ DOMAIN b = 1 .. Len(a) + 1 /\ b[Len(a) + 1] = p
      /\ DOMAIN a = 1 .. Len(a) /\ \A k \in DOMAIN a : b[k] = a[k] /\ k \in DOMAIN b
  BY <1>4
<1>6. ASSUME NEW g \in G
      PROVE  \/ \E x \in t.pending : x.giver = g
             \/ \E k \in DOMAIN b : b[k].giver = g
  <2>1. (\E x \in s.pending : x.giver = g) \/ (\E k \in DOMAIN a : a[k].giver = g)
    BY DEF RoundOK, a
  <2>2. CASE \E k \in DOMAIN a : a[k].giver = g BY <1>5, <2>2
  <2>3. CASE \E x \in s.pending : x.giver = g
    <3>1. PICK x \in s.pending : x.giver = g BY <2>3
    <3>2. CASE x = q
      <4>1. Len(a) + 1 \in DOMAIN b /\ b[Len(a) + 1].giver = g BY <1>5, <3>1, <3>2
      <4> QED BY <4>1
    <3>3. CASE x # q BY <3>1, <3>3
    <3> QED BY <3>2, <3>3
  <2> QED BY <2>1, <2>2, <2>3
<1>7. Len(b) + Cardinality(t.pending) = Cardinality(G)
  <2>1. Len(a) + Cardinality(s.pending) = Cardinality(G) BY DEF RoundOK, a
  <2> QED BY <1>2, <1>3, <1>5, <2>1
<1>8. \A x, y \in t.pending : x.giver = y.giver => x = y BY DEF RoundOK
<1>9. t.threads_alive <= 1 BY DEF RoundOK
<1> QED BY <1>1, <1>2, <1>6, <1>7, <1>8, <1>9 DEF RoundOK, b

\* A served query stands for the same giver.
LEMMA RoundServed ==
  ASSUME NEW G, NEW s, NEW t, NEW q \in s.pending, NEW r, RoundOK(s, G), r.giver = q.giver,
         t.pending = (s.pending \ {q}) \cup {r}, t.giver_params = s.giver_params,
         t.checked = s.checked, t.threads = s.threads, t.threads_alive = s.threads_alive
  PROVE  RoundOK(t, G)
<1>1. ~s.checked /\ s.threads = {} /\ IsFiniteSet(s.pending) BY DEF RoundOK
<1>2. IsFiniteSet(s.pending \ {q}) /\ Cardinality(s.pending \ {q}) = Cardinality(s.pending) - 1
  BY <1>1, FS_RemoveElement
<1>3. r \notin s.pending \ {q} BY DEF RoundOK
<1>4. IsFiniteSet(t.pending) /\ Cardinality(t.pending) = Cardinality(s.pending \ {q}) + 1
  <2> DEFINE Q == s.pending \ {q}
  <2>1. t.pending = Q \cup {r} /\ IsFiniteSet(Q) /\ r \notin Q BY <1>2, <1>3
  <2> HIDE DEF Q
  <2>2. IsFiniteSet(Q \cup {r}) /\ Cardinality(Q \cup {r}) = Cardinality(Q) + 1
    BY <2>1, FS_AddElement
  <2> QED BY <2>1, <2>2 DEF Q
<1>5. Cardinality(s.pending) \in Nat BY <1>1, FS_CardinalityType
<1>6. Cardinality(t.pending) = Cardinality(s.pending) BY <1>2, <1>4, <1>5
<1>7. \A x, y \in t.pending : x.giver = y.giver => x = y BY DEF RoundOK
<1>8. \A g : (\E x \in s.pending : x.giver = g) => \E x \in t.pending : x.giver = g
  OBVIOUS
<1> QED BY <1>1, <1>4, <1>6, <1>7, <1>8 DEF RoundOK

\* The step that every handler makes of the rounds, and when it selects.
LEMMA RoundNext ==
  ASSUME OneWorker, Inv, RoundInv, [Next]_vars
  PROVE  RoundInv' /\ (~m.checked /\ m'.checked => AllAnswered(m, opt.givers))
<1> DEFINE G == opt.givers
<1>0. opt \in Setups /\ opt' = opt /\ Good(m, answers, G)
  BY DEF Inv, Next, vars, Alarm, AnswerQuery, ServeQuery, with_giver_info, AnswerRound, ServeRound,
         GiverParams, with_giver_info_error, hangup, GiverParamsError, WorkerDone, WorkerReturns,
         got_answer, GiverChanges, GiverRescaled
<1>1. ASSUME m'.checked = m.checked, opt.strategy # "" => RoundOK(m', G)
      PROVE  RoundInv' /\ (~m.checked /\ m'.checked => AllAnswered(m, G))
  BY <1>0, <1>1 DEF RoundInv
<1>2. ASSUME NEW s, Good(s, answers, G), Keeps(m, s), s.checked = m.checked, s.status = "up",
             m' \in Loop(s)
      PROVE  RoundInv' /\ (~m.checked /\ m'.checked => AllAnswered(m, G))
  <2>1. CASE opt.strategy = ""
    <3>1. m'.checked = s.checked \/ m'.checked BY <1>0, <1>2, LoopGood
    <3> QED BY <1>0, <1>2, <2>1, <3>1 DEF RoundInv
  <2>2. CASE opt.strategy # ""
    <3>1. RoundOK(m, G) BY <2>2 DEF RoundInv
    <3>2. RoundOK(s, G) BY <1>2, <3>1, RoundKeeps DEF Keeps
    <3>3. RoundOK(m', G) /\ (~s.checked /\ m'.checked => AllAnswered(s, G))
      BY <1>0, <1>2, <2>2, <3>2, LoopRound
    <3> QED BY <1>0, <1>2, <2>2, <3>3 DEF RoundInv, AllAnswered, Keeps
  <2> QED BY <2>1, <2>2
<1>3. ASSUME Keeps(m, m'), m'.checked = m.checked
      PROVE  opt.strategy # "" => RoundOK(m', G)
  BY <1>3, RoundKeeps DEF RoundInv, Keeps
<1>4. CASE Alarm BY <1>2, <1>4, AlarmGood
<1>5. CASE with_giver_info BY <1>2, <1>5, WithGiverInfoGood
<1>6. CASE ServeQuery \/ with_giver_info_error \/ hangup
           \/ \E q \in m.pending : GiverParamsError(q)
  BY <1>1, <1>3, <1>6, QuietGood
<1>7. ASSUME NEW q \in m.pending, ServeRound(q)
      PROVE  m'.checked = m.checked /\ (opt.strategy # "" => RoundOK(m', G))
  <2>1. /\ m'.threads = m.threads /\ m'.threads_alive = m.threads_alive
        /\ m'.giver_params = m.giver_params /\ m'.checked = m.checked
    BY <1>7, ServeRoundGood
  <2>2. PICK r : r.giver = q.giver /\ m'.pending = (m.pending \ {q}) \cup {r}
    BY <1>7, ServeRoundGood
  <2> QED BY <2>1, <2>2, RoundServed DEF RoundInv
<1>8. ASSUME NEW q \in m.pending, GiverParams(q)
      PROVE  m'.checked = m.checked /\ (opt.strategy # "" => RoundOK(m', G))
  <2> DEFINE S == [giver : G, complexity : Complexities]
  <2>1. /\ m'.threads = m.threads /\ m'.threads_alive = m.threads_alive
        /\ m'.checked = m.checked /\ m'.pending = m.pending \ {q}
    BY <1>8, GiverParamsGood
  <2>2. PICK p : p.giver = q.giver /\ p \in S /\ m'.giver_params = Append(m.giver_params, p)
    BY <1>8, GiverParamsGood
  <2>3. m.giver_params \in Seq(S) BY <1>0 DEF Good, ActorState
  <2> HIDE DEF S
  <2>4. CASE opt.strategy # ""
    <3>1. RoundOK(m, G) BY <2>4 DEF RoundInv
    <3>2. RoundOK(m', G) BY <2>1, <2>2, <2>3, <3>1, RoundAnswered
    <3> QED BY <2>1, <3>2
  <2> QED BY <2>1, <2>4
<1>9. ASSUME NEW w \in Workers, WorkerReturns(w)
      PROVE  m'.checked = m.checked /\ (opt.strategy # "" => RoundOK(m', G))
  <2>1. /\ m'.threads = m.threads /\ m'.threads_alive = m.threads_alive
        /\ m'.giver_params = m.giver_params /\ m'.checked = m.checked /\ m'.pending = m.pending
    BY <1>9, WorkerReturnsGood
  <2> QED BY <2>1, RoundKeeps DEF RoundInv
<1>10. ASSUME NEW a \in answers, got_answer(a)
       PROVE  RoundInv' /\ (~m.checked /\ m'.checked => AllAnswered(m, G))
  <2> DEFINE s == AnswerTaken(m)
  <2>1. /\ Good(s, answers', G) /\ s.status = "up" /\ m' \in Loop(s) /\ m.threads # {}
        /\ s.threads = (IF m.threads_alive = 1 THEN {} ELSE m.threads)
        /\ s.threads_alive = m.threads_alive - 1 /\ m.threads_alive > 0
        /\ opt.strategy = "" => s.checked = m.checked
        /\ opt.strategy # "" =>
             /\ ~s.checked /\ s.giver_params = << >>
             /\ \E r \in Rounds :
                  s.pending = m.pending \cup [round : {r}, giver : opt.givers, value : {None}]
    BY <1>10, GotAnswerGood
  <2> HIDE DEF s
  <2>2. CASE opt.strategy = ""
    <3>1. m'.checked = s.checked \/ m'.checked BY <1>0, <2>1, LoopGood
    <3> QED BY <1>0, <2>1, <2>2, <3>1 DEF RoundInv
  <2>3. CASE opt.strategy # ""
    <3>1. RoundOK(m, G) BY <2>3 DEF RoundInv
    <3>2. m.pending = {} /\ m.threads_alive <= 1 BY <2>1, <3>1 DEF RoundOK
    <3>3. m.threads_alive \in Nat
      <4>1. m.threads_alive \in 0 .. Cardinality(Workers) BY <1>0 DEF Good, ActorState
      <4>2. Cardinality(Workers) \in Nat BY ActorConstants, FS_CardinalityType
      <4> QED BY <4>1, <4>2
    <3>4. m.threads_alive = 1
      <4>1. m.threads_alive > 0 BY <2>1
      <4>2. m.threads_alive <= 1 BY <3>2
      <4> QED BY <3>3, <4>1, <4>2
    <3>5. s.threads = {} /\ s.threads_alive <= 1
      <4>1. s.threads = {} /\ s.threads_alive = 1 - 1 BY <2>1, <3>4
      <4> QED BY <4>1
    <3>6. PICK r \in Rounds : s.pending = [round : {r}, giver : opt.givers, value : {None}]
      BY <2>1, <2>3, <3>2
    <3>7. RoundOK(s, G) BY <1>0, <2>1, <2>3, <3>5, <3>6, NewRound
    <3>8. RoundOK(m', G) /\ (~s.checked /\ m'.checked => AllAnswered(s, G))
      BY <1>0, <2>1, <2>3, <3>7, LoopRound
    <3>9. ~AllAnswered(s, G)
      <4>0. s.giver_params = << >> BY <2>1, <2>3
      <4>1. DOMAIN s.giver_params = {} BY <4>0
      <4>2. G # {} BY <1>0, OptFacts
      <4> QED BY <4>1, <4>2 DEF AllAnswered
    <3> QED BY <1>0, <2>1, <2>3, <3>8, <3>9 DEF RoundInv
  <2> QED BY <2>2, <2>3
<1>11. CASE \E g \in opt.givers : GiverChanges(g) \/ GiverRescaled(g)
  <2>1. m' = m BY <1>11, GiverGood
  <2> QED BY <1>0, <2>1 DEF RoundInv
<1>12. CASE UNCHANGED vars BY <1>0, <1>12 DEF RoundInv, vars
<1>13. CASE AnswerRound BY <1>1, <1>7, <1>8, <1>13 DEF AnswerRound
<1>14. ASSUME NEW w \in Workers, WorkerDone(w)
       PROVE  RoundInv' /\ (~m.checked /\ m'.checked => AllAnswered(m, G))
  BY <1>1, <1>9, <1>10, <1>14 DEF WorkerDone
<1> QED BY <1>4, <1>5, <1>6, <1>11, <1>12, <1>13, <1>14 DEF Next, AnswerQuery

\* In builds with one worker a giver is selected only among the values of all
\* givers.
THEOREM SelectionSeesAllAlways ==
  ASSUME OneWorker
  PROVE  Spec => SelectionSeesAll
<1>1. Init => RoundInv BY RoundInit
<1>2. Inv /\ RoundInv /\ [Next]_vars =>
        /\ RoundInv'
        /\ [(~m.checked /\ m'.checked) =>
              \A g \in opt.givers : \E k \in DOMAIN m.giver_params : m.giver_params[k].giver = g]_vars
  BY RoundNext DEF AllAnswered
<1> QED BY <1>1, <1>2, Invariance, PTL DEF Spec, SelectionSeesAll
=============================================================================
