---------------------------- MODULE SessionState ----------------------------
(***************************************************************************)
(* The replicated state of a validator session: the pure functions of      *)
(* validator-session/validator-session-state.cpp that every validator      *)
(* evaluates on the blocks of the catchain.  A state is never changed in   *)
(* place; `Merge` joins the states of two blocks and `Action` applies one  *)
(* message of the validator that made a block.                             *)
(*                                                                         *)
(* Data is abstracted to what the functions compare.  A candidate stands   *)
(* for its author (an honest author submits one per round): candidate p is *)
(* the one of the author with priority p - 1.  The empty candidate, a null *)
(* SentBlock with the all-zero id, is SKIP and is the least id.  A         *)
(* signature is its signer.  A missing element of a vector is the empty    *)
(* set, a missing attempt an attempt without votes: the code never tells   *)
(* the two apart.                                                          *)
(***************************************************************************)
EXTENDS Integers, Sequences, FiniteSets, FiniteSetsExt

CONSTANTS
  N,                  \* number of validators, desc.get_total_nodes()
  Weight,             \* [Nodes -> weights], desc.get_node_weight()
  RoundCandidates,    \* opts().round_candidates
  MaxRoundAttempts,   \* opts().max_round_attempts
  MaxAtt              \* bound: attempts 1..MaxAtt (1 stands for 1024, the least att)

Nodes == 0 .. N - 1

ASSUME SessionAssumption ==
  /\ N \in Nat \ {0} /\ Weight \in [Nodes -> Nat \ {0}]
  /\ RoundCandidates \in 1 .. N /\ MaxRoundAttempts \in Nat /\ MaxAtt \in Nat \ {0}

SKIP == 0
Candidates == 0 .. RoundCandidates
NotFound == -1
Attempts == 1 .. MaxAtt

WeightOf(S) == MapThenSumSet(LAMBDA n : Weight[n], S)
CutoffWeight == (WeightOf(Nodes) * 2) \div 3 + 1
Quorums == {S \in SUBSET Nodes : WeightOf(S) >= CutoffWeight}
HasCutoff(S) == S \in Quorums

MaxOr0(S) == IF S = {} THEN 0 ELSE Max(S)
MinOrNotFound(S) == IF S = {} THEN NotFound ELSE Min(S)

\* Position of src in the round's order of block producers, -1 when it is not one.
Priority(src, round) ==
  LET p == (src + N - (round % N)) % N IN IF p < RoundCandidates THEN p ELSE -1

CandidateOf(src, round) == Priority(src, round) + 1

VoteForAuthor(att) == att % N

-----------------------------------------------------------------------------
(* The attempts of the round in progress: votes <<att, candidate, node>>,  *)
(* precommits <<att, node>>, and the VOTEFOR candidate per attempt.        *)

Voters(votes, att, c) == {n \in Nodes : <<att, c, n>> \in votes}
HasVoted(r, att, src) == \E c \in Candidates : <<att, c, src>> \in r.votes

VotedBlock(votes, att) ==
  MinOrNotFound({c \in Candidates : HasCutoff(Voters(votes, att, c))})

Precommitted(precommits, att) == HasCutoff({n \in Nodes : <<att, n>> \in precommits})

MergeVoteFor(l, r) ==
  IF l = NotFound THEN r ELSE IF r = NotFound THEN l ELSE Min({l, r})

\* The attempts that have a voted block, and the two the merge looks at: the latest one and
\* the latest one that voted another block (0 when there is none).
VotedAttempts(votes) == {a \in Attempts : VotedBlock(votes, a) # NotFound}
LastVoted(votes) == MaxOr0(VotedAttempts(votes))
LastOtherVoted(votes) ==
  MaxOr0({a \in VotedAttempts(votes) : VotedBlock(votes, a) # VotedBlock(votes, LastVoted(votes))})

-----------------------------------------------------------------------------
(* The round in progress.                                                  *)

NewRound(seqno) ==
  [seqno |-> seqno, precommitted |-> FALSE, precommittedBlock |-> SKIP,
   firstAttempt |-> [n \in Nodes |-> 0], lastPrecommit |-> [n \in Nodes |-> 0],
   sent |-> {}, approvals |-> {}, signatures |-> {},
   votes |-> {}, precommits |-> {}, voteFor |-> [a \in Attempts |-> NotFound]]

Approvers(r, c) == {n \in Nodes : <<c, n>> \in r.approvals}
IsApproved(r, c) == HasCutoff(Approvers(r, c))
IsSigned(r) == HasCutoff(r.signatures)

MergeFirst(x, y) == IF x = 0 THEN y ELSE IF y = 0 THEN x ELSE Min({x, y})

\* Only the left value is compared with the attempt that overtook it.
MergeLastPrecommitFaulty(x, y, last, other) == IF last = 0 \/ x > other THEN Max({x, y}) ELSE 0

\* A precommit that an attempt with another voted block has overtaken is forgotten.
MergeLastPrecommit(x, y, last, other) ==
  LET z == Max({x, y}) IN IF last = 0 \/ z > other THEN z ELSE 0

\* The round, when the attempts are merged: last and other are the latest attempts with voted
\* blocks, fresh those that are precommitted.
MergeRoundWith(l, r, votes, precommits, last, other, fresh) ==
  LET known == l.precommitted \/ r.precommitted
  IN [seqno |-> l.seqno,
      precommitted |-> known \/ fresh # {},
      precommittedBlock |->
        IF known \/ fresh = {}
        THEN IF l.precommittedBlock # SKIP THEN l.precommittedBlock ELSE r.precommittedBlock
        ELSE VotedBlock(votes, Max(fresh)),
      firstAttempt |-> [n \in Nodes |-> MergeFirst(l.firstAttempt[n], r.firstAttempt[n])],
      lastPrecommit |-> [n \in Nodes |->
        MergeLastPrecommit(l.lastPrecommit[n], r.lastPrecommit[n], last, other)],
      sent |-> l.sent \cup r.sent,
      approvals |-> l.approvals \cup r.approvals,
      signatures |-> l.signatures \cup r.signatures,
      votes |-> votes,
      precommits |-> precommits,
      voteFor |-> [a \in Attempts |-> MergeVoteFor(l.voteFor[a], r.voteFor[a])]]

MergeRound(l, r) ==
  LET votes == l.votes \cup r.votes
      precommits == l.precommits \cup r.precommits
  IN MergeRoundWith(l, r, votes, precommits, LastVoted(votes), LastOtherVoted(votes),
                    {a \in Attempts : Precommitted(precommits, a)})

\* The CHECKs of ValidatorSessionRoundState::merge.
MergeRoundChecks(l, r) ==
  LET votes == l.votes \cup r.votes
  IN /\ l.precommitted /\ r.precommitted => l.precommittedBlock = r.precommittedBlock
     /\ \A a \in Attempts :
          Precommitted(l.precommits \cup r.precommits, a) => a \in VotedAttempts(votes)
     /\ LastVoted(votes) = 0 => \A n \in Nodes : l.lastPrecommit[n] = 0 /\ r.lastPrecommit[n] = 0

\* ValidatorSessionRoundState::choose_block_to_vote: the candidate src has to vote for in
\* attempt att, or NotFound.
SlowMode(r, src, att) ==
  \/ r.firstAttempt[src] > 0 /\ r.firstAttempt[src] + MaxRoundAttempts <= att
  \/ MaxRoundAttempts = 0

FirstOf(approved) ==
  LET prio(c) == IF c = SKIP THEN RoundCandidates ELSE c - 1
  IN IF approved = {} THEN NotFound
     ELSE CHOOSE c \in approved : \A d \in approved : prio(c) <= prio(d)

FastChoice(r) ==
  IF LastVoted(r.votes) # 0 THEN VotedBlock(r.votes, LastVoted(r.votes))
  ELSE FirstOf({c \in r.sent : IsApproved(r, c)})

\* The precommit of src in an earlier attempt is ignored.
BlockToVoteFaulty(r, src, att) == IF SlowMode(r, src, att) THEN r.voteFor[att] ELSE FastChoice(r)

BlockToVote(r, src, att) ==
  IF r.sent = {} THEN NotFound
  ELSE IF r.lastPrecommit[src] > 0 THEN VotedBlock(r.votes, r.lastPrecommit[src])
  ELSE IF SlowMode(r, src, att) THEN r.voteFor[att]
  ELSE FastChoice(r)

MustVote(r, src, att) == ~HasVoted(r, att, src) /\ BlockToVote(r, src, att) # NotFound
\* Precommits before a quorum has voted.
MustPrecommitFaulty(r, src, att) == <<att, src>> \notin r.precommits /\ HasVoted(r, att, src)
MustPrecommit(r, src, att) ==
  <<att, src>> \notin r.precommits /\ VotedBlock(r.votes, att) # NotFound

\* ValidatorSessionRoundAttemptState::make_one: the content of VOTE, PRECOMMIT and EMPTY
\* messages is only compared with what the state requires, which is what is done.
MakeOne(r, src, att) ==
  IF MustVote(r, src, att)
  THEN [r EXCEPT !.votes = @ \cup {<<att, BlockToVote(r, src, att), src>>}]
  ELSE IF MustPrecommit(r, src, att) THEN [r EXCEPT !.precommits = @ \cup {<<att, src>>}]
  ELSE r

VoteForAllowed(r, src, att, c) ==
  /\ r.voteFor[att] = NotFound
  /\ src = VoteForAuthor(att)
  /\ MaxRoundAttempts > 0 => r.firstAttempt[src] # 0
  /\ MaxRoundAttempts = 0 => r.firstAttempt[src] <= att
  /\ c \in r.sent /\ IsApproved(r, c)

AttemptAction(r, src, att, msg) ==
  IF msg.type # "voteFor" THEN MakeOne(r, src, att)
  ELSE IF VoteForAllowed(r, src, att, msg.candidate) THEN [r EXCEPT !.voteFor[att] = msg.candidate]
  ELSE r

\* The attempt of src's own precommit is not recorded.
NextLastPrecommitFaulty(r, q, src, att, eq) == r.lastPrecommit

\* The latest attempts in which validators precommitted, when src's step in attempt att has
\* led from r to q: a block voted in att that differs from the one precommitted latest cancels
\* the precommits up to att, and src's own counts unless it is older than a different one.
LatestPrecommit(r) == Max({r.lastPrecommit[n] : n \in Nodes})
SameBlock(r, e, voted) == e = 0 \/ voted = NotFound \/ voted = VotedBlock(r.votes, e)
Kept(r, att, eq) ==
  [n \in Nodes |-> IF eq \/ r.lastPrecommit[n] > att THEN r.lastPrecommit[n] ELSE 0]
WithOwn(kept, src, att, counts) ==
  IF counts /\ kept[src] < att THEN [kept EXCEPT ![src] = att] ELSE kept

NextLastPrecommit(r, q, src, att, eq) ==
  WithOwn(Kept(r, att, eq), src, att,
          <<att, src>> \in q.precommits /\ (att > LatestPrecommit(r) \/ eq))

\* From r to q by a step of src in attempt att, in which block voted is voted then.
Forwarded(r, q, src, att, voted) ==
  LET done == Precommitted(q.precommits, att)
  IN [q EXCEPT !.precommitted = done,
               !.precommittedBlock = IF done THEN voted ELSE @,
               !.lastPrecommit = NextLastPrecommit(r, q, src, att, SameBlock(r, LatestPrecommit(r), voted))]
ForwardStep(r, q, src, att) == Forwarded(r, q, src, att, VotedBlock(q.votes, att))

ForwardToAttempt(r, src, att, msg) ==
  IF r.precommitted THEN r ELSE ForwardStep(r, AttemptAction(r, src, att, msg), src, att)

\* The CHECKs of forward_action_to_attempt and choose_block_to_vote.
ForwardStepChecks(r, q, src, att) ==
  LET e == LatestPrecommit(r)
  IN /\ Precommitted(q.precommits, att) \/ <<att, src>> \in q.precommits
          => VotedBlock(q.votes, att) # NotFound
     /\ e # 0 /\ VotedBlock(q.votes, att) # NotFound => VotedBlock(r.votes, e) # NotFound
     /\ r.lastPrecommit[src] # 0 => VotedBlock(r.votes, r.lastPrecommit[src]) # NotFound
ForwardChecks(r, src, att) == ForwardStepChecks(r, MakeOne(r, src, att), src, att)

Submit(r, src) ==
  IF Priority(src, r.seqno) >= 0 THEN [r EXCEPT !.sent = @ \cup {CandidateOf(src, r.seqno)}] ELSE r

Approve(r, src, c) ==
  IF c = SKIP \/ c \in r.sent
  THEN [r EXCEPT !.sent = @ \cup {c}, !.approvals = @ \cup {<<c, src>>}] ELSE r

Commit(r, src, c) ==
  IF r.precommitted /\ r.precommittedBlock = c
  THEN [r EXCEPT !.signatures = @ \cup {src}] ELSE r

\* ValidatorSessionRoundState::action.  A REJECT, which only logs, has no message here.
RoundAction(r0, src, att, msg) ==
  LET r == [r0 EXCEPT !.firstAttempt[src] = IF @ = 0 \/ @ > att THEN att ELSE @]
  IN CASE msg.type = "submit"  -> Submit(r, src)
       [] msg.type = "approve" -> Approve(r, src, msg.candidate)
       [] msg.type = "commit"  -> Commit(r, src, msg.candidate)
       [] OTHER                -> ForwardToAttempt(r, src, att, msg)

-----------------------------------------------------------------------------
(* A finished round: its block, who signed it and who approved it.         *)

NewOldRound(r) ==
  [block |-> r.precommittedBlock, signatures |-> r.signatures,
   approvers |-> Approvers(r, r.precommittedBlock)]

MergeOldRound(l, r) ==
  [l EXCEPT !.signatures = @ \cup r.signatures, !.approvers = @ \cup r.approvers]

\* Merging a finished round with one that is still in progress on the other side.
MergeOldWithRound(l, r) ==
  [l EXCEPT !.signatures = @ \cup r.signatures, !.approvers = @ \cup Approvers(r, l.block)]

OldRoundAction(o, src, msg) ==
  IF msg.type \in {"approve", "commit"} /\ msg.candidate = o.block
  THEN IF msg.type = "approve" THEN [o EXCEPT !.approvers = @ \cup {src}]
       ELSE [o EXCEPT !.signatures = @ \cup {src}]
  ELSE o

-----------------------------------------------------------------------------
(* The whole state: attempt clock per validator, finished rounds (round k  *)
(* is old[k + 1]) and the current round.                                   *)

NewState == [att |-> [n \in Nodes |-> 0], old |-> << >>, cur |-> NewRound(0)]

\* A round whose block has enough signatures becomes an old one, and the next one starts.
CloseRound(s) ==
  IF IsSigned(s.cur)
  THEN [s EXCEPT !.old = Append(@, NewOldRound(s.cur)), !.cur = NewRound(s.cur.seqno + 1)]
  ELSE s

MergeOld(l, r) ==
  LET short == IF Len(l) < Len(r) THEN l ELSE r
      long == IF Len(l) < Len(r) THEN r ELSE l
  IN [i \in 1 .. Len(long) |-> IF i <= Len(short) THEN MergeOldRound(l[i], r[i]) ELSE long[i]]

Merge(l, r) ==
  LET ahead == IF l.cur.seqno < r.cur.seqno THEN r ELSE l
      behind == IF l.cur.seqno < r.cur.seqno THEN l ELSE r
      old == MergeOld(l.old, r.old)
  IN CloseRound(
       [att |-> [n \in Nodes |-> Max({l.att[n], r.att[n]})],
        old |-> IF l.cur.seqno = r.cur.seqno THEN old
                ELSE [old EXCEPT ![behind.cur.seqno + 1] = MergeOldWithRound(@, behind.cur)],
        cur |-> IF l.cur.seqno = r.cur.seqno THEN MergeRound(l.cur, r.cur) ELSE ahead.cur])

\* An attempt number smaller than an earlier one of the same validator is replaced by it.
ClampAtt(s, src, att) == Max({att, s.att[src]})

\* ValidatorSessionState::action: msg of validator src, made in attempt att.
Action(s0, src, att0, msg) ==
  LET att == ClampAtt(s0, src, att0)
      s == [s0 EXCEPT !.att[src] = att]
  IN IF msg.round > s.cur.seqno THEN s
     ELSE IF msg.round = s.cur.seqno
          THEN CloseRound([s EXCEPT !.cur = RoundAction(@, src, att, msg)])
     ELSE [s EXCEPT !.old[msg.round + 1] = OldRoundAction(@, src, msg)]

\* Implicit steps: ValidatorSessionState::make_one, which the other validators repeat on the
\* state of src's block until it changes nothing.
MakeOneImplicit(s, src, att0) ==
  LET att == ClampAtt(s, src, att0)
      r == [s.cur EXCEPT !.firstAttempt[src] = IF @ = 0 \/ @ > att THEN att ELSE @]
  IN [s EXCEPT !.att[src] = att,
               !.cur = IF r.precommitted THEN r
                       ELSE MakeOne(r, src, att)]

\* The message src owes in attempt att: ValidatorSessionState::create_action.
CreateAction(s, src, att) ==
  LET r == s.cur
      type == IF r.precommitted THEN "empty"
              ELSE IF MustVote(r, src, att) THEN "vote"
              ELSE IF MustPrecommit(r, src, att) THEN "precommit" ELSE "empty"
  IN [type |-> type, round |-> r.seqno]

NeedVoteFor(s, src, att) ==
  LET r == s.cur
  IN /\ src = VoteForAuthor(att)
     /\ ~r.precommitted
     /\ MaxRoundAttempts > 0 =>
          r.firstAttempt[src] # 0 /\ r.firstAttempt[src] + MaxRoundAttempts <= att
     /\ r.voteFor[att] = NotFound
     /\ \E c \in r.sent : IsApproved(r, c)

VoteForChoices(s) == {c \in s.cur.sent : IsApproved(s.cur, c)}

\* The candidates src could still approve: choose_blocks_to_approve.
BlocksToApprove(s, src) == {c \in s.cur.sent \cup {SKIP} : <<c, src>> \notin s.cur.approvals}
=============================================================================
