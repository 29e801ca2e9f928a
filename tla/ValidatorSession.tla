-------------------------- MODULE ValidatorSession --------------------------
(***************************************************************************)
(* Validators that run a session (validator-session/validator-session.cpp) *)
(* over a catchain.  Each validator makes blocks; the state of a block is  *)
(* a function of the states of the blocks it refers to and of the messages *)
(* its author put into it, and every validator computes it for itself.     *)
(*                                                                         *)
(* The network is the choice of the blocks a new block refers to: the last *)
(* ones of any set of the other validators.  Blocks that arrive late, in   *)
(* part or in different orders are covered, because the clocks of the      *)
(* validators are independent: a block that refers to an older block of    *)
(* another validator can as well be made before that one's next block,     *)
(* unless it refers to the next block through a third one.                 *)
(* Validators follow the code; none forks its chain.                       *)
(***************************************************************************)
EXTENDS SessionState, SequencesExt

CONSTANT
  Starts      \* bound: [real, until]: the states of the validators' earlier blocks, and the
              \* point of the round after which a validator makes no more blocks

VARIABLES
  real,       \* real[n]: real_state_ of validator n, the state of its last block
  until       \* the chosen bound

vars == <<real, until>>

Init == \E s \in Starts : real = s.real /\ until = s.until

\* The points of a round: a block is voted, precommitted, and committed by its signatures.
Reached(s, point) ==
  \/ s.cur.seqno > 0
  \/ point = "voted" /\ LastVoted(s.cur.votes) # 0
  \/ point \in {"voted", "precommitted"} /\ s.cur.precommitted

\* n's state with those of other validators merged in one by one; MergeIsJoin says why their
\* order does not matter.
MergeAll(n, others) == FoldSet(LAMBDA m, s : Merge(s, real[m]), real[n], others)

-----------------------------------------------------------------------------
\* The messages n makes itself from state s: its candidate when it has one to submit,
\* approvals of the candidates it validated, its signature of the precommitted block.
MaySubmit(n, s) == Priority(n, s.cur.seqno) >= 0 /\ CandidateOf(n, s.cur.seqno) \notin s.cur.sent
MaySign(n, s) == s.cur.precommitted /\ n \notin s.cur.signatures

OwnMessages(n, s) ==
  LET msg(type, c) == [type |-> type, round |-> s.cur.seqno, candidate |-> c]
      submits == {<< >>} \cup IF MaySubmit(n, s) THEN {<<msg("submit", CandidateOf(n, s.cur.seqno))>>} ELSE {}
      signs == {<< >>} \cup IF MaySign(n, s) THEN {<<msg("commit", s.cur.precommittedBlock)>>} ELSE {}
  IN {submit \o [i \in DOMAIN ids |-> msg("approve", ids[i])] \o sign :
        submit \in submits, sign \in signs,
        ids \in {SetToSeq(A) : A \in SUBSET BlocksToApprove(s, n)}}

VoteForMessages(n, s, att) ==
  IF NeedVoteFor(s, n, att)
  THEN {<<[type |-> "voteFor", round |-> s.cur.seqno, candidate |-> c]>> : c \in VoteForChoices(s)}
  ELSE {<< >>}

\* Only the first message that the state requires is applied.
AllActionsFaulty(s, n, att) == Action(s, n, att, CreateAction(s, n, att))

\* The loop that applies what the state requires of n until that is EMPTY.  In one attempt n
\* votes and precommits once, so that the third turn is the last; NothingImplicit fails if a
\* state ever requires more.
LoopTurn(loop, n, att, msg) ==
  IF loop.done THEN loop
  ELSE [state |-> Action(loop.state, n, att, msg), done |-> msg.type = "empty"]
AllActions(s, n, att) ==
  FoldLeft(LAMBDA loop, turn : LoopTurn(loop, n, att, CreateAction(loop.state, n, att)),
           [state |-> s, done |-> FALSE], <<1, 2, 3>>).state

\* The state of the block that n makes in attempt att from what it has merged: its own
\* messages, a VOTEFOR when one is due, and everything the state requires of it.
ApplyAll(s, n, att, msgs) == FoldLeft(LAMBDA t, msg : Action(t, n, att, msg), s, msgs)

BlocksFrom(n, att, own) ==
  {AllActions(ApplyAll(own, n, att, voteFor), n, att) : voteFor \in VoteForMessages(n, own, att)}
NewBlocks(n, att, merged, msgs) == BlocksFrom(n, att, ApplyAll(merged, n, att, msgs))

\* ValidatorSessionImpl::process_blocks, on any blocks that have arrived and at any time.
ProcessBlocks(n) ==
  /\ ~Reached(real[n], until)
  /\ \E merged \in {MergeAll(n, others) : others \in SUBSET (Nodes \ {n})} :
       \E msgs \in OwnMessages(n, merged), att \in Max({1, real[n].att[n]}) .. MaxAtt :
         \E new \in NewBlocks(n, att, merged, msgs) \ {real[n]} : real' = [real EXCEPT ![n] = new]
  /\ UNCHANGED until

Next == \E n \in Nodes : ProcessBlocks(n)

Spec == Init /\ [][Next]_vars

-----------------------------------------------------------------------------
StateOK(s) ==
  /\ s.att \in [Nodes -> 0 .. MaxAtt] /\ s.cur.seqno = Len(s.old)
  /\ s.cur.firstAttempt \in [Nodes -> 0 .. MaxAtt]
  /\ s.cur.lastPrecommit \in [Nodes -> 0 .. MaxAtt]
  /\ s.cur.voteFor \in [Attempts -> Candidates \cup {NotFound}]

\* Type invariant.
TypeOK == \A n \in Nodes : StateOK(real[n])

\* The block a state has decided for the round, if any: committed or precommitted.
Decided(s) ==
  IF s.cur.seqno > 0 THEN {s.old[1].block}
  ELSE IF s.cur.precommitted THEN {s.cur.precommittedBlock} ELSE {}

\* No two validators ever hold different blocks for precommitted or committed in one round,
\* whatever attempts they reached it in: the block that process_blocks signs is the one that
\* check_sign_slot asked a signature of.  A committed block has been approved by a quorum and
\* signed by a quorum in every validator's copy of the finished round: on_new_round exports both
\* signature sets.
Agreement ==
  /\ Cardinality(UNION {Decided(real[n]) : n \in Nodes}) <= 1
  /\ \A n \in Nodes : \A k \in DOMAIN real[n].old :
       HasCutoff(real[n].old[k].approvers) /\ HasCutoff(real[n].old[k].signatures)

\* None of the CHECKs in the merge of two rounds, in forward_action_to_attempt and in
\* choose_block_to_vote can fail on blocks of validators that follow the code, and states keep
\* their types.
ChecksHold ==
  /\ TypeOK
  /\ \A m, n \in Nodes :
       real[m].cur.seqno = real[n].cur.seqno => MergeRoundChecks(real[m].cur, real[n].cur)
  /\ \A n \in Nodes, att \in Attempts : ForwardChecks(real[n].cur, n, att)
  /\ \A n \in Nodes : real[n].cur.precommitted => real[n].cur.precommittedBlock \in real[n].cur.sent

\* ValidatorSessionState::merge is idempotent and does not depend on the order in which a
\* validator merges the blocks it has received: process_blocks, which merges the top blocks
\* in the order catchain picked, and preprocess_block, which merges the deps of the block,
\* compute the same state hash.
MergeIsJoin ==
  LET mergedIn(p) == FoldLeft(LAMBDA s, n : Merge(s, real[n]), real[p[1]], Tail(p))
  IN /\ \A n \in Nodes : Merge(real[n], real[n]) = real[n]
     /\ Cardinality({mergedIn(p) : p \in SetToSeqs(Nodes)}) = 1

\* The implicit steps that preprocess_block appends to the messages of a block (make_all) find
\* nothing left to do on a block that process_blocks made, so the receivers of the block, and
\* its author after a restart, compute the state the author had.  And the loop of process_blocks
\* ends: as long as the clock has not gone back, a message other than EMPTY that create_action
\* returns changes the state it is applied to.
NothingImplicit ==
  /\ \A n \in Nodes : real[n].att[n] # 0 => MakeOneImplicit(real[n], n, real[n].att[n]) = real[n]
  /\ \A n \in Nodes, att \in Attempts : att >= real[n].att[n] =>
       \A msg \in {CreateAction(real[n], n, att)} :
         msg.type # "empty" => Action(real[n], n, att, msg) # real[n]

\* Everything that any validator has done.
Global == MergeAll(0, Nodes \ {0})

\* A validator that precommitted in an attempt votes for another block later only after an
\* attempt in between had a quorum of votes for another block: last_precommit is the lock
\* that makes two precommits of one round agree.  In one attempt it votes at most once, over all
\* blocks it has ever made.
PrecommitLocks ==
  \A r \in {Global.cur} :
    /\ \A v, w \in r.votes : v[1] = w[1] /\ v[3] = w[3] => v = w
    /\ \A p \in r.precommits, v \in r.votes :
         p[2] = v[3] /\ p[1] < v[1] /\ v[2] # VotedBlock(r.votes, p[1])
           => \E a \in p[1] + 1 .. v[1] - 1 :
                VotedBlock(r.votes, a) \notin {NotFound, VotedBlock(r.votes, p[1])}

=============================================================================
