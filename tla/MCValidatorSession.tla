------------------------- MODULE MCValidatorSession -------------------------
(***************************************************************************)
(* Three validators of weights 2, 1 and 1, so that validator 0 and either  *)
(* of the others are a quorum; two attempts and one round.                 *)
(***************************************************************************)
EXTENDS ValidatorSession

MCWeight == [n \in Nodes |-> IF n = 0 THEN 2 ELSE 1]

Submits(c) == [type |-> "submit", round |-> 0, candidate |-> c]
Approves(c) == [type |-> "approve", round |-> 0, candidate |-> c]
ApprovesAll == <<Approves(0), Approves(1)>>

\* The states of the validators when n has made a block in attempt att with what from has
\* sent and msgs of its own; it can be one block only.
Made(states, n, att, from, msgs) ==
  [states EXCEPT ![n] = CHOOSE s \in NewBlocks(n, att, Merge(@, states[from]), msgs) : StateOK(s)]
After(att, steps) ==
  FoldLeft(LAMBDA states, step : Made(states, step[1], att, step[2], step[3]),
           [n \in Nodes |-> NewState], steps)

\* Validator 0 submits its candidate and approves it and SKIP; then validator 1, when it has
\* merged that, approves both, and then validator 2, who therefore votes.
Submission == <<0, 0, <<Submits(1)>> \o ApprovesAll>>
Silence == << <<1, 1, << >> >>, <<2, 2, << >> >> >>
Approvals == << <<1, 0, ApprovesAll>>, <<2, 1, ApprovesAll>> >>

\* Three bounded phases of the round: until a block is voted, from where the candidate is
\* submitted; until a block is precommitted, over two attempts, from where the approvals are
\* complete; and until the round is committed, over one attempt, from there.
MCStarts ==
  {[real |-> After(phase[2], <<Submission>> \o phase[3]), until |-> phase[1]] :
     phase \in {<<"voted", MaxAtt, Silence>>, <<"precommitted", 1, Approvals>>,
                <<"committed", MaxAtt, Approvals>>}}

\* The clock and first attempt of a validator are read in its own blocks only.
View ==
  <<until, [n \in Nodes |-> <<real[n].att[n], real[n].old,
                              [real[n].cur EXCEPT !.firstAttempt = <<@[n]>>]>>]>>
=============================================================================
