--------------------------- MODULE TonlibPowMiner ---------------------------
(***************************************************************************)
(* The actor TonlibCli::PowMiner (tonlib/tonlib/tonlib-cli.cpp): it asks   *)
(* the liteserver for a giver's seed and complexity every five seconds,    *)
(* keeps worker threads mining that seed and sends what they find to the   *)
(* giver.  With a strategy it first asks all givers and selects one.       *)
(*                                                                         *)
(* Handlers of an actor run one at a time, so each is one action; what the *)
(* handlers share is the record m, and loop(), which ends most of them, is *)
(* the operator Loop from a record to the possible next ones.  Answers of  *)
(* the liteserver and results of the workers arrive in any order; a        *)
(* worker's run is a mining call of module MinerRun.  The givers' values   *)
(* change on their own.                                                    *)
(***************************************************************************)
EXTENDS Integers, Sequences, FiniteSets

CONSTANTS
  Givers,       \* addresses of givers
  Workers,      \* worker threads: one in GPU builds
  Complexities, \* values of a giver's complexity
  Setups,       \* options_ and bounds: strategy "" (a fixed giver), "auto" or "random",
                \* givers and workers; the complexities the givers take, the changes of
                \* their seeds and whether queries may fail
  MaxRounds,    \* bound on the rounds of queries in flight
  None

\* A seed belongs to one giver; its number counts the changes.
Seeds == [giver : Givers, n : Nat]
PowParams == [seed : Seeds, complexity : Complexities]
Rounds == 1 .. MaxRounds

ASSUME ActorConstants ==
  /\ IsFiniteSet(Givers) /\ Givers # {} /\ IsFiniteSet(Workers) /\ Workers # {}
  /\ Complexities \subseteq Nat \ {0}
  /\ Setups \subseteq [strategy : {"", "auto", "random"}, givers : (SUBSET Givers) \ {{}},
                       workers : (SUBSET Workers) \ {{}}, complexities : SUBSET Complexities,
                       changes : Nat, errors : BOOLEAN]
  /\ MaxRounds \in Nat \ {0} /\ None \notin Givers \cup Workers

VARIABLES
  opt,        \* options_ and givers_, which the actor keeps, and the bounds
  m,          \* the actor
  onchain,    \* each giver's seed and complexity
  answers,    \* results of workers, on their way to got_answer
  sent        \* history: messages sent with raw_createAndSendMessage

vars == <<opt, m, onchain, answers, sent>>

-----------------------------------------------------------------------------
(* What the handlers do to the actor's record                              *)

\* source_.cancel(): the running workers hold the source's token.
Cancelled(s) == [s EXCEPT !.cancelled = TRUE]

\* try_stop
TryStop(s) == IF s.threads_alive = 0 THEN [s EXCEPT !.status = "stopped"] ELSE s

\* get_giver_params: "auto" takes the first giver of highest complexity,
\* "random" any.
get_giver_params(s) ==
  LET Best(k) == /\ \A j \in DOMAIN s.giver_params :
                      s.giver_params[j].complexity <= s.giver_params[k].complexity
                 /\ \A j \in 1 .. k - 1 :
                      s.giver_params[j].complexity < s.giver_params[k].complexity
  IN  {s.giver_params[k].giver :
         k \in {k \in DOMAIN s.giver_params : opt.strategy = "auto" => Best(k)}}

\* Faulty variant: the selection does not wait for all givers.
SelectGiverEarly(s) ==
  IF ~s.checked /\ Len(s.giver_params) > 0
  THEN {[s EXCEPT !.giver = g, !.checked = TRUE] : g \in get_giver_params(s)}
  ELSE {s}

\* loop: the giver is selected once there are as many answers as givers.
SelectGiver(s) ==
  IF ~s.checked /\ Len(s.giver_params) >= Cardinality(opt.givers)
  THEN {[s EXCEPT !.giver = g, !.checked = TRUE] : g \in get_giver_params(s)}
  ELSE {s}

\* loop: the selected giver is queried when the time has come.
QueryGiver(s) ==
  IF s.checked /\ s.next_query = "due"
  THEN [s EXCEPT !.next_query = "none", !.query = [giver |-> s.giver, value |-> None]]
  ELSE s

\* loop: workers are started when none are left.
StartWorkers(s) ==
  IF s.checked /\ s.miner_options # None /\ s.threads = {} /\ s.need_run_miners
  THEN [s EXCEPT !.need_run_miners = FALSE, !.miner_options_copy = s.miner_options,
                 !.threads = opt.workers, !.threads_alive = Cardinality(opt.workers),
                 !.running = opt.workers, !.cancelled = FALSE]
  ELSE s

\* Faulty variant: loop() does not look at close_flag_.
LoopOpen(s) == {StartWorkers(QueryGiver(s1)) : s1 \in SelectGiver(s)}

\* loop
Loop(s) ==
  IF s.close_flag THEN {TryStop(s)}
                  ELSE {StartWorkers(QueryGiver(s1)) : s1 \in SelectGiver(s)}

FreeRounds(s) == {r \in Rounds : \A q \in s.pending : q.round # r}

\* query_givers_params: a new round of queries to all givers.
query_givers_params(s) ==
  LET round == CHOOSE r \in FreeRounds(s) : TRUE
  IN  [s EXCEPT !.giver_params = <<>>,
                !.pending = @ \cup [round : {round}, giver : opt.givers, value : {None}]]

\* Faulty variant: the running workers are not cancelled.
NewOptionsKeepWorkers(s, params) ==
  IF s.miner_options # None /\ s.miner_options.seed = params.seed THEN s
  ELSE IF s.miner_options # None /\ opt.strategy # ""
       THEN [s EXCEPT !.miner_options = None, !.need_run_miners = TRUE]
       ELSE [s EXCEPT !.miner_options = params, !.need_run_miners = TRUE]

\* Faulty variant: the workers are cancelled but not started again.
NewOptionsNoRestart(s, params) ==
  IF s.miner_options # None /\ s.miner_options.seed = params.seed THEN s
  ELSE Cancelled([s EXCEPT !.miner_options = IF opt.strategy # "" THEN None ELSE params])

\* Faulty variant: the options the workers read are overwritten.
NewOptionsInPlace(s, params) ==
  IF s.miner_options # None /\ s.miner_options.seed = params.seed THEN s
  ELSE Cancelled([s EXCEPT !.miner_options = params, !.miner_options_copy = params,
                           !.need_run_miners = TRUE])

\* do_with_giver_info: nothing for a known seed; otherwise the workers are
\* cancelled, and with a strategy the options are dropped before new ones are
\* taken.
do_with_giver_info(s, params) ==
  IF s.miner_options # None /\ s.miner_options.seed = params.seed THEN s
  ELSE IF s.miner_options # None /\ opt.strategy # ""
       THEN Cancelled([s EXCEPT !.miner_options = None, !.need_run_miners = TRUE])
       ELSE Cancelled([s EXCEPT !.miner_options = params, !.need_run_miners = TRUE])

-----------------------------------------------------------------------------

\* start_up
Init ==
  /\ opt \in Setups
  /\ onchain \in {[g \in opt.givers |-> [seed |-> [giver |-> g, n |-> 0], complexity |-> c[g]]] :
                    c \in [opt.givers -> opt.complexities]}
  /\ answers = {} /\ sent = {}
  /\ \E g \in opt.givers :
       LET fixed == opt.strategy = ""
           s == [status |-> "up", close_flag |-> FALSE,
                 giver |-> IF fixed THEN g ELSE None, checked |-> fixed,
                 giver_params |-> <<>>, pending |-> {}, next_query |-> "due", query |-> None,
                 miner_options |-> None, miner_options_copy |-> None,
                 need_run_miners |-> FALSE, threads |-> {}, threads_alive |-> 0,
                 running |-> {}, cancelled |-> FALSE]
       IN  m \in Loop(IF fixed THEN s ELSE query_givers_params(s))

Up == m.status = "up"

\* The alarm at next_options_query_at_.
Alarm ==
  /\ Up /\ m.next_query \in {"due", "later"}
  /\ m' \in Loop([m EXCEPT !.next_query = "due"])
  /\ UNCHANGED <<opt, onchain, answers, sent>>

\* The liteserver loads a giver's state for smc_load, for the query of the
\* selected giver or for one of a round.
ServeQuery ==
  /\ Up /\ m.query # None /\ m.query.value = None
  /\ m' = [m EXCEPT !.query.value = onchain[m.query.giver]]
  /\ UNCHANGED <<opt, onchain, answers, sent>>

ServeRound(q) ==
  /\ Up /\ q.value = None
  /\ m' = [m EXCEPT !.pending = (@ \ {q}) \cup {[q EXCEPT !.value = onchain[q.giver]]}]
  /\ UNCHANGED <<opt, onchain, answers, sent>>

\* with_giver_info with the values of the selected giver.
with_giver_info ==
  /\ Up /\ m.query # None /\ m.query.value # None
  /\ m' \in Loop([do_with_giver_info(m, m.query.value) EXCEPT !.query = None,
                                                               !.next_query = "later"])
  /\ UNCHANGED <<opt, onchain, answers, sent>>

\* with_giver_info with an error: hangup and std::exit(3).
with_giver_info_error ==
  /\ opt.errors /\ Up /\ m.query # None
  /\ m' = [Cancelled([m EXCEPT !.close_flag = TRUE]) EXCEPT !.status = "exited"]
  /\ UNCHANGED <<opt, onchain, answers, sent>>

\* The lambda of query_givers_params with a giver's values; no loop() follows.
GiverParams(q) ==
  /\ Up /\ q.value # None
  /\ m' = [m EXCEPT !.pending = @ \ {q},
                    !.giver_params = Append(@, [giver |-> q.giver,
                                                complexity |-> q.value.complexity])]
  /\ UNCHANGED <<opt, onchain, answers, sent>>

\* The lambda of query_givers_params with an error, which is logged and then
\* dereferenced with move_as_ok.  "Lost promise" is such an error: queries that
\* the actor leaves behind when it stops end this way.
GiverParamsError(q) ==
  /\ (opt.errors /\ Up) \/ m.status = "stopped"
  /\ m' = [m EXCEPT !.status = "aborted"]
  /\ UNCHANGED <<opt, onchain, answers, sent>>

\* A worker's run returns a proof for the options it was given, or nothing.
WorkerReturns(w) ==
  /\ Up /\ w \in m.running
  /\ m' = [m EXCEPT !.running = @ \ {w}]
  /\ \E proof \in {None, m.miner_options_copy} :
       answers' = answers \cup {[worker |-> w, proof |-> proof]}
  /\ UNCHANGED <<opt, onchain, sent>>

\* got_answer: the workers are cancelled and, when all have answered, joined.
Answered(s) ==
  Cancelled([s EXCEPT !.need_run_miners = TRUE, !.threads_alive = @ - 1,
                      !.threads = IF s.threads_alive = 1 THEN {} ELSE @])

\* got_answer: what was found goes to the giver selected now.
got_answer(a) ==
  /\ Up /\ FreeRounds(m) # {}
  /\ answers' = answers \ {a}
  /\ sent' = IF a.proof = None THEN sent
             ELSE sent \cup {[to |-> m.giver, seed |-> a.proof.seed]}
  /\ m' \in Loop(IF opt.strategy = "" THEN Answered(m)
                 ELSE query_givers_params([Answered(m) EXCEPT !.checked = FALSE]))
  /\ UNCHANGED <<opt, onchain>>

\* hangup, from pminer_stop.
hangup ==
  /\ Up /\ ~m.close_flag
  /\ m' = TryStop(Cancelled([m EXCEPT !.close_flag = TRUE]))
  /\ UNCHANGED <<opt, onchain, answers, sent>>

\* A giver accepts a proof of anyone: a new seed and a new complexity.
GiverChanges(g) ==
  /\ onchain[g].seed.n < opt.changes
  /\ \E c \in opt.complexities :
       onchain' = [onchain EXCEPT ![g] = [seed |-> [giver |-> g, n |-> @.seed.n + 1],
                                          complexity |-> c]]
  /\ UNCHANGED <<opt, m, answers, sent>>

\* A giver is rescaled: a higher complexity for the same seed.
GiverRescaled(g) ==
  /\ \E c \in opt.complexities : /\ c > onchain[g].complexity
                             /\ onchain' = [onchain EXCEPT ![g].complexity = c]
  /\ UNCHANGED <<opt, m, answers, sent>>

AnswerQuery == ServeQuery \/ with_giver_info
AnswerRound == \E q \in m.pending : ServeRound(q) \/ GiverParams(q)
WorkerDone(w) == WorkerReturns(w) \/ \E a \in answers : a.worker = w /\ got_answer(a)

Next ==
  \/ Alarm \/ AnswerQuery \/ AnswerRound \/ with_giver_info_error \/ hangup
  \/ \E q \in m.pending : GiverParamsError(q)
  \/ \E w \in Workers : WorkerDone(w)
  \/ \E g \in opt.givers : GiverChanges(g) \/ GiverRescaled(g)

\* Alarms fire, the liteserver answers, mining calls return (MinerRun).
Spec ==
  /\ Init /\ [][Next]_vars
  /\ WF_vars(Alarm) /\ WF_vars(AnswerQuery) /\ WF_vars(AnswerRound)
  /\ \A w \in Workers : WF_vars(WorkerDone(w))

-----------------------------------------------------------------------------
(* Properties                                                              *)

\* The actor's record, the givers' values and the messages have their types.
TypeOK ==
  /\ opt \in Setups /\ m.status \in {"up", "stopped", "exited", "aborted"}
  /\ {m.close_flag, m.checked, m.need_run_miners, m.cancelled} \subseteq BOOLEAN
  /\ m.giver \in Givers \cup {None} /\ (m.checked => m.giver # None)
  /\ m.giver_params \in Seq([giver : Givers, complexity : Complexities])
  /\ m.pending \subseteq [round : Rounds, giver : Givers, value : PowParams \cup {None}]
  /\ m.next_query \in {"due", "later", "none"}
  /\ m.query = None \/ m.query \in [giver : Givers, value : PowParams \cup {None}]
  /\ m.miner_options \in PowParams \cup {None}
  /\ m.miner_options_copy \in PowParams \cup {None}
  /\ m.threads \subseteq Workers /\ m.running \subseteq m.threads
  /\ m.threads_alive \in 0 .. Cardinality(Workers)
  /\ onchain \in [opt.givers -> PowParams]
  /\ answers \subseteq [worker : Workers, proof : PowParams \cup {None}]
  /\ sent \subseteq [to : Givers, seed : Seeds]

\* Worker threads read miner_options_copy_ through a reference while they run:
\* no handler assigns it before the last of them has answered.
CopyStable == [][m.running # {} => m'.miner_options_copy = m.miner_options_copy]_vars

\* Workers that have not been cancelled mine the options the actor holds: a new
\* seed never leaves a worker on the old one.  threads_alive_ counts the workers
\* that have not been answered for, and the actor whose members the threads use
\* does not stop before.
UncancelledIsCurrent ==
  /\ TypeOK
  /\ (Up /\ m.running # {} /\ ~m.cancelled) => m.miner_options_copy = m.miner_options
  /\ m.status \in {"up", "stopped"} =>
       m.threads_alive = Cardinality(m.running) + Cardinality(answers)
  /\ m.status = "stopped" => m.threads_alive = 0

\* A giver is selected among the values of all givers.
SelectionSeesAll ==
  [][(~m.checked /\ m'.checked) =>
       \A g \in opt.givers : \E k \in DOMAIN m.giver_params : m.giver_params[k].giver = g]_vars

\* With a fixed giver, when its seed has changed for the last time the workers
\* end up mining that seed.
CatchesUp ==
  <>[](opt.strategy = "" /\ Up =>
         m.miner_options_copy # None /\ m.miner_options_copy.seed = onchain[m.giver].seed)

\* After pminer stop the actor stops.
StopCompletes == m.close_flag ~> ~Up

\* pow-miner-howto.md: a solution is sent "to the selected giver", the one
\* whose seed it was found for.
SolutionToItsGiver == \A msg \in sent : msg.seed.giver = msg.to
=============================================================================
