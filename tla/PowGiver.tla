------------------------------ MODULE PowGiver ------------------------------
(***************************************************************************)
(* The proof-of-work giver smart contract                                  *)
(* (crypto/smartcont/pow-testgiver-code.fc).                               *)
(*                                                                         *)
(* The contract's persistent data are the variables below; a transaction   *)
(* processes one external message and is atomic, so each kind of message   *)
(* is one action.  A message that the contract throws on before or after   *)
(* accept_message() leaves the data alone, which is a stuttering step.     *)
(* Messages are public and may be delivered any number of times and in any *)
(* order: an action picks its message from everything that could be sent.  *)
(***************************************************************************)
EXTENDS Integers, Sequences

CONSTANTS
  Seeds,         \* 128-bit seeds
  Rdata,         \* 256-bit values of rdata1 and rdata2
  Wallets,       \* reward addresses ("whom")
  Params,        \* xdata cells: [target_delta, min, max], with
                 \*   min = 1 << min_cpl and max = 1 << max_cpl
  Subwallet,     \* stored_subwallet, the giver's id (not 0)
  OwnerMsgs,     \* messages signed with the owner's key: [subwallet_id,
                 \*   valid_until, seqno, actions], actions a sequence of
                 \*   [mode, reset, xdata], reset = 1 << reset_cpl or 0
  Hash(_),       \* slice_hash: a proof message to 0 .. 2^256 - 1
  IntBound,      \* 2^256, the bound of a TVM integer
  One,           \* 1 << 128, the fixed point one of the factors
  ExpireWindow,  \* 2^10: ufits(expire - now(), 10)
  IdleFactor,    \* 16: target intervals without success before a rescale
  Uint32Max,     \* 2^32 - 1, also the last_success of a new giver
  MaxTime        \* bound of the clock

\* The constants are numbers of the sizes the contract's fields have.
ASSUME GiverConstants ==
  /\ IntBound \in Nat /\ One \in Nat \ {0} /\ One % 8 = 0
  /\ ExpireWindow \in Nat /\ IdleFactor \in Nat \ {0}
  /\ Uint32Max \in Nat /\ MaxTime \in Nat /\ MaxTime < Uint32Max
  /\ \A p \in Params : /\ p.target_delta \in Nat \ {0}
                       /\ p.min \in Nat \ {0} /\ p.max \in Nat
                       /\ p.min <= p.max /\ p.max < IntBound
  /\ \A m \in OwnerMsgs :
       /\ m.valid_until \in Nat /\ m.seqno \in Nat
       /\ m.actions \in Seq([mode : 0 .. 255, reset : 0 .. IntBound - 1,
                             xdata : Params])

VARIABLES
  stored_seqno,    \* sequence number of the next owner message
  seed,            \* current seed
  pow_complexity,  \* a proof's hash must be below it
  last_success,    \* time of the last success (or the time a rescale puts)
  xdata,           \* parameters in force
  now,             \* unixtime of the block under construction
  used,            \* seeds drawn so far: a 128-bit seed is not drawn twice
  rewards,         \* history: proofs accepted, in order, with their payout
  executed         \* history: owner messages executed, in order

vars == <<stored_seqno, seed, pow_complexity, last_success, xdata, now,
          used, rewards, executed>>

MineMsgs == [expire : 0 .. MaxTime + ExpireWindow, whom : Wallets,
             rdata1 : Rdata, rseed : Seeds, rdata2 : Rdata]

\* A hash is a 256-bit unsigned number.
ASSUME HashIsNat == \A m \in MineMsgs : Hash(m) \in Nat

-----------------------------------------------------------------------------
(* TVM arithmetic: muldiv rounds down, muldivr to the nearest integer.     *)

muldiv(x, y, z) == (x * y) \div z

muldivr(x, y, z) == (2 * x * y + z) \div (2 * z)

MinOf(a, b) == IF a <= b THEN a ELSE b

MaxOf(a, b) == IF a >= b THEN a ELSE b

-----------------------------------------------------------------------------

Init ==
  /\ stored_seqno = 0
  /\ xdata \in Params
  /\ pow_complexity \in {xdata.min, xdata.max}
  /\ last_success = Uint32Max
  /\ seed \in Seeds
  /\ used = {seed}
  /\ now = 0
  /\ rewards = <<>>
  /\ executed = <<>>

\* The conditions under which the contract accepts the proof m.
Acceptable(m) ==
  /\ Hash(m) < pow_complexity
  /\ 0 <= m.expire - now /\ m.expire - now < ExpireWindow
  /\ m.rseed = seed
  /\ m.rdata1 = m.rdata2

\* The complexity after a success delta seconds after the previous one.
Recomputed(cpl, delta, x) ==
  IF delta > 0
  THEN LET factor == MinOf(MaxOf(muldivr(delta, One, x.target_delta),
                                 7 * (One \div 8)), 9 * (One \div 8))
       IN  MinOf(MaxOf(muldivr(cpl, factor, One), x.min), x.max)
  ELSE cpl

\* Faulty variant: a new seed only when the complexity is recomputed.
MineKeepsSeed(m) ==
  /\ Acceptable(m)
  /\ pow_complexity' = Recomputed(pow_complexity, now - last_success, xdata)
  /\ IF now = last_success
     THEN UNCHANGED <<seed, used>>
     ELSE \E s \in Seeds \ used : seed' = s /\ used' = used \cup {s}
  /\ last_success' = now
  /\ rewards' = Append(rewards, [msg |-> m, at |-> now, paid |-> TRUE])
  /\ UNCHANGED <<stored_seqno, xdata, now, executed>>

\* check_proof_of_work: the data are committed with a new seed before the
\* payout, which is skipped (send mode 3) when the account cannot cover it.
Mine(m) ==
  /\ Acceptable(m)
  /\ pow_complexity' = Recomputed(pow_complexity, now - last_success, xdata)
  /\ \E s \in Seeds \ used : seed' = s /\ used' = used \cup {s}
  /\ last_success' = now
  /\ \E paid \in BOOLEAN :
       rewards' = Append(rewards, [msg |-> m, at |-> now, paid |-> paid])
  /\ UNCHANGED <<stored_seqno, xdata, now, executed>>

\* Faulty variant: the cap at max is forgotten.
RescaledUncapped(cpl, delta, x) ==
  muldivr(cpl, muldivr(delta, One, x.target_delta), One)

\* Faulty variant: the factor is applied the wrong way round.
RescaledInverted(cpl, delta, x) ==
  MaxOf(x.min, muldivr(cpl, One, muldivr(delta, One, x.target_delta)))

\* The complexity a rescale gives after delta seconds without success.
Rescaled(cpl, delta, x) ==
  LET factor == muldivr(delta, One, x.target_delta)
  IN  IF muldiv(x.max, One, cpl) < factor
      THEN x.max ELSE muldivr(cpl, factor, One)

\* Faulty variant: a rescale needs no idle time.
RescaleEager(expire) ==
  /\ now > expire
  /\ expire > last_success
  /\ now >= xdata.target_delta
  /\ pow_complexity' = Rescaled(pow_complexity, now - last_success, xdata)
  /\ last_success' = now - xdata.target_delta
  /\ UNCHANGED <<stored_seqno, seed, xdata, now, used, rewards, executed>>

\* rescale_complexity: the division that bounds the factor overflows, and the
\* transaction fails, when the complexity is too small for max.
Rescale(expire) ==
  /\ now > expire
  /\ expire > last_success
  /\ now - last_success >= xdata.target_delta * IdleFactor
  /\ muldiv(xdata.max, One, pow_complexity) < IntBound
  /\ pow_complexity' = Rescaled(pow_complexity, now - last_success, xdata)
  /\ last_success' = now - xdata.target_delta
  /\ UNCHANGED <<stored_seqno, seed, xdata, now, used, rewards, executed>>

\* Faulty variant: a message without actions does not use up its number.
OwnerKeepsSeqno(m) ==
  /\ now < m.valid_until
  /\ m.seqno = stored_seqno
  /\ stored_seqno' = IF m.actions = <<>> THEN stored_seqno ELSE stored_seqno + 1
  /\ executed' = Append(executed, m)
  /\ Len(executed) < 3
  /\ UNCHANGED <<seed, pow_complexity, last_success, xdata, now, used, rewards>>

\* The owner's branch of recv_external: the actions of a message are applied
\* in order; mode 255 is ~update_params, whose last occurrence wins, any other
\* mode sends a message and leaves the data alone.
Owner(m) ==
  LET updates == {i \in DOMAIN m.actions : m.actions[i].mode = 255}
      resets  == {i \in updates : m.actions[i].reset # 0}
  IN  /\ now < m.valid_until
      /\ m.seqno = stored_seqno
      /\ m.subwallet_id \in {Subwallet, 0}
      /\ stored_seqno + 1 <= Uint32Max
      /\ stored_seqno' = stored_seqno + 1
      /\ \/ updates = {} /\ UNCHANGED <<xdata, last_success>>
         \/ \E i \in updates : /\ \A j \in updates : j <= i
                               /\ xdata' = m.actions[i].xdata
                               /\ last_success' = now
      /\ \/ resets = {} /\ UNCHANGED <<pow_complexity, seed, used>>
         \/ \E i \in resets, s \in Seeds \ used :
              /\ \A j \in resets : j <= i
              /\ pow_complexity' = m.actions[i].reset
              /\ seed' = s /\ used' = used \cup {s}
      /\ executed' = Append(executed, m)
      /\ UNCHANGED <<now, rewards>>

\* Block time never goes back; two transactions may share a time.
Tick ==
  /\ now < MaxTime
  /\ now' = now + 1
  /\ UNCHANGED <<stored_seqno, seed, pow_complexity, last_success, xdata, used,
                 rewards, executed>>

Next ==
  \/ \E m \in MineMsgs : Mine(m)
  \/ \E e \in 0 .. MaxTime : Rescale(e)
  \/ \E m \in OwnerMsgs : Owner(m)
  \/ Tick

Spec == Init /\ [][Next]_vars

-----------------------------------------------------------------------------
(* Properties                                                              *)

\* The contract's data stay within the widths of their fields, the current
\* seed is one that was drawn, and last_success is either the initial -1 or a
\* time that has passed.
TypeOK ==
  /\ stored_seqno \in 0 .. Uint32Max
  /\ xdata \in Params
  /\ pow_complexity \in 1 .. IntBound - 1
  /\ last_success \in 0 .. now \cup {Uint32Max}
  /\ now \in 0 .. MaxTime
  /\ used \subseteq Seeds
  /\ seed \in used
  /\ rewards \in Seq([msg : MineMsgs, at : 0 .. MaxTime, paid : BOOLEAN])
  /\ executed \in Seq(OwnerMsgs)

\* A seed is rewarded at most once, however often proofs are delivered: the
\* commit of a new seed precedes every payout (check_proof_of_work).
OneRewardPerSeed ==
  \A i, j \in DOMAIN rewards :
    rewards[i].msg.rseed = rewards[j].msg.rseed => i = j

\* A signed owner message is executed at most once, and owner messages are
\* executed in the order of their sequence numbers (recv_external).
OwnerMessageOnce ==
  \A i, j \in DOMAIN executed :
    i < j => executed[i].seqno < executed[j].seqno

\* last_success only moves forward once it has been set: neither a rescale,
\* which dates the success back by one interval, nor an update of parameters
\* ever moves it to an earlier time.
LastSuccessMonotone ==
  [][last_success # Uint32Max => last_success <= last_success']_vars

InRange == xdata.min <= pow_complexity /\ pow_complexity <= xdata.max

\* Miners' messages (proofs and rescales, with their fixed point roundings)
\* never take the complexity out of the range of the owner's parameters.
RangeKept == [][InRange /\ executed' = executed => InRange']_vars

\* A proof that the giver would accept stays acceptable until it expires,
\* unless another proof is rewarded or the owner intervenes: a concurrent
\* rescale can never invalidate work already done.
StandingProof ==
  [][InRange /\ rewards' = rewards /\ executed' = executed =>
       \A m \in MineMsgs :
         Acceptable(m) /\ now' <= m.expire => Acceptable(m)']_vars
=============================================================================
