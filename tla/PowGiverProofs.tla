--------------------------- MODULE PowGiverProofs ---------------------------
(***************************************************************************)
(* Proofs about the giver contract for every set of seeds, messages and    *)
(* parameters, every clock bound and every hash function.                  *)
(***************************************************************************)
EXTENDS PowGiver, TLAPS

-----------------------------------------------------------------------------
(* Arithmetic                                                              *)

\* Integer division rounds down.
LEMMA DivBounds ==
  ASSUME NEW a \in Nat, NEW b \in Nat \ {0}
  PROVE  /\ a \div b \in Nat
         /\ b * (a \div b) <= a
         /\ a < b * (a \div b) + b
  OBVIOUS

\* Multiplication by a natural number is monotone.
LEMMA MulMonotone ==
  ASSUME NEW a \in Nat, NEW b \in Nat, NEW c \in Nat, a <= b
  PROVE  c * a <= c * b
  OBVIOUS

\* The product of natural numbers is one.
LEMMA MulNat == ASSUME NEW a \in Nat, NEW b \in Nat PROVE a * b \in Nat
  OBVIOUS

\* muldivr returns a natural number.
LEMMA MuldivrNat ==
  ASSUME NEW x \in Nat, NEW y \in Nat, NEW z \in Nat \ {0}
  PROVE  muldivr(x, y, z) \in Nat
<1>1. x * y \in Nat BY MulNat
<1>2. 2 * x * y = 2 * (x * y) OBVIOUS
<1>3. 2 * x * y + z \in Nat /\ 2 * z \in Nat \ {0} BY <1>1, <1>2
<1> QED BY <1>3, DivBounds DEF muldivr

\* The recomputed complexity is in the range of the parameters, whatever the
\* factor was rounded to.
LEMMA RecomputedInRange ==
  ASSUME NEW x \in Params, NEW cpl \in Nat, NEW delta \in Int,
         delta > 0 \/ (x.min <= cpl /\ cpl <= x.max)
  PROVE  /\ Recomputed(cpl, delta, x) \in Nat
         /\ x.min <= Recomputed(cpl, delta, x)
         /\ Recomputed(cpl, delta, x) <= x.max
<1>1. x.min \in Nat /\ x.max \in Nat /\ x.min <= x.max /\ x.target_delta \in Nat \ {0}
  BY GiverConstants
<1>2. CASE ~ (delta > 0)
  BY <1>1, <1>2 DEF Recomputed
<1>3. CASE delta > 0
  <2> DEFINE f0 == muldivr(delta, One, x.target_delta)
             factor == MinOf(MaxOf(f0, 7 * (One \div 8)), 9 * (One \div 8))
  <2>1. One \in Nat \ {0} /\ One \div 8 \in Nat
    BY GiverConstants
  <2>2. f0 \in Nat
    <3>1. delta \in Nat BY <1>3
    <3> QED BY <1>1, <2>1, <3>1, MuldivrNat
  <2>3. factor \in Nat BY <2>1, <2>2 DEF MinOf, MaxOf
  <2> HIDE DEF factor
  <2>4. muldivr(cpl, factor, One) \in Nat BY <2>1, <2>3, MuldivrNat
  <2>5. Recomputed(cpl, delta, x)
          = MinOf(MaxOf(muldivr(cpl, factor, One), x.min), x.max)
    BY <1>3 DEF Recomputed, factor
  <2> QED BY <1>1, <2>4, <2>5 DEF MinOf, MaxOf
<1> QED BY <1>2, <1>3

\* After at least one target interval the rescaled complexity is no smaller
\* than min(cpl, max) and, because muldiv rounds down, never exceeds max.
LEMMA RescaledInRange ==
  ASSUME NEW x \in Params, NEW cpl \in Nat \ {0}, NEW delta \in Nat,
         delta >= x.target_delta
  PROVE  /\ Rescaled(cpl, delta, x) \in Nat
         /\ Rescaled(cpl, delta, x) <= x.max
         /\ cpl <= x.max => cpl <= Rescaled(cpl, delta, x)
         /\ x.max < cpl => Rescaled(cpl, delta, x) = x.max
<1> DEFINE t == x.target_delta
           factor == muldivr(delta, One, t)
           limit == muldiv(x.max, One, cpl)
<1>1. x.max \in Nat /\ t \in Nat \ {0} /\ One \in Nat \ {0}
  BY GiverConstants
<1>2. factor \in Nat BY <1>1, MuldivrNat
<1>3. factor >= One
  <2>1. One * t <= One * delta BY <1>1, MulMonotone
  <2>2. 2 * delta * One = 2 * (One * delta) BY <1>1
  <2>3. One * delta \in Nat /\ One * t \in Nat BY <1>1, MulNat
  <2>4. 2 * delta * One + t < 2 * t * factor + 2 * t
    <3>1. 2 * delta * One + t \in Nat BY <1>1, <2>2, <2>3
    <3>2. 2 * t \in Nat \ {0} BY <1>1
    <3> QED BY <3>1, <3>2, DivBounds DEF muldivr
  <2>5. SUFFICES ASSUME factor < One PROVE FALSE BY <1>1, <1>2
  <2>6. factor + 1 <= One BY <2>5, <1>1, <1>2
  <2>7. t * (factor + 1) <= t * One BY <2>6, <1>1, <1>2, MulMonotone
  <2>8. t * (factor + 1) = t * factor + t BY <1>1, <1>2
  <2> HIDE DEF factor
  <2> DEFINE tf == t * factor
             ot == One * t
             od == One * delta
  <2>9. 2 * t * factor = 2 * tf BY <1>1, <1>2
  <2>10. t * One = ot BY <1>1
  <2>11. tf \in Nat /\ ot \in Nat /\ od \in Nat BY <1>1, <1>2, <2>3, MulNat
  <2>12. ot <= od /\ 2 * od + t < 2 * tf + 2 * t /\ tf + t <= ot
    BY <2>1, <2>2, <2>4, <2>7, <2>8, <2>9, <2>10
  <2> HIDE DEF tf, ot, od
  <2> QED BY <2>11, <2>12, <1>1
<1>4. limit \in Nat /\ cpl * limit <= One * x.max /\ One * x.max < cpl * limit + cpl
  <2>1. x.max * One \in Nat BY <1>1, MulNat
  <2>2. x.max * One = One * x.max BY <1>1
  <2> QED BY <2>1, <2>2, DivBounds DEF muldiv
<1>5. Rescaled(cpl, delta, x)
        = IF limit < factor THEN x.max ELSE muldivr(cpl, factor, One)
  BY DEF Rescaled
<1> HIDE DEF factor, limit
<1>6. CASE limit < factor
  BY <1>1, <1>5, <1>6
<1>7. CASE ~ (limit < factor)
  <2> DEFINE r == muldivr(cpl, factor, One)
             cf == cpl * factor
             oc == One * cpl
             om == One * x.max
             orr == One * r
  <2>1. cf \in Nat /\ oc \in Nat /\ om \in Nat BY <1>1, <1>2, MulNat
  <2>2. r \in Nat BY <1>1, <1>2, MuldivrNat
  <2>3. orr \in Nat BY <1>1, <2>2, MulNat
  <2>4. 2 * orr <= 2 * cf + One /\ 2 * cf + One < 2 * orr + 2 * One
    <3>1. 2 * cpl * factor = 2 * cf BY <1>2
    <3>2. 2 * cf + One \in Nat /\ 2 * One \in Nat \ {0} BY <1>1, <2>1
    <3>3. r = (2 * cf + One) \div (2 * One) BY <3>1 DEF muldivr
    <3>4. (2 * One) * r <= 2 * cf + One /\ 2 * cf + One < (2 * One) * r + 2 * One
      BY <3>2, <3>3, DivBounds
    <3>5. (2 * One) * r = 2 * orr BY <1>1, <2>2
    <3> QED BY <3>4, <3>5
  <2>5. cf <= om
    <3>1. cpl * factor <= cpl * limit BY <1>2, <1>4, <1>7, MulMonotone
    <3> QED BY <3>1, <1>1, <1>2, <1>4, MulNat
  <2>6. oc <= cf
    <3>1. cpl * One <= cpl * factor BY <1>1, <1>2, <1>3, MulMonotone
    <3> QED BY <3>1, <1>1, <1>2
  <2>7. r <= x.max
    <3>1. SUFFICES ASSUME x.max + 1 <= r PROVE FALSE BY <1>1, <2>2
    <3>2. One * (x.max + 1) <= One * r BY <3>1, <1>1, <2>2, MulMonotone
    <3>3. One * (x.max + 1) = om + One BY <1>1
    <3>4. om + One <= orr BY <3>2, <3>3
    <3> HIDE DEF cf, om, orr
    <3> QED BY <3>4, <2>1, <2>3, <2>4, <2>5, <1>1
  <2>8. cpl <= r
    <3>1. SUFFICES ASSUME r + 1 <= cpl PROVE FALSE BY <2>2
    <3>2. One * (r + 1) <= One * cpl BY <3>1, <1>1, <2>2, MulMonotone
    <3>3. One * (r + 1) = orr + One BY <1>1, <2>2
    <3>4. orr + One <= oc BY <3>2, <3>3
    <3> HIDE DEF cf, oc, orr
    <3> QED BY <3>4, <2>1, <2>3, <2>4, <2>6, <1>1
  <2> HIDE DEF r
  <2>9. Rescaled(cpl, delta, x) = r BY <1>5, <1>7 DEF r
  <2> QED BY <2>2, <2>7, <2>8, <2>9, <1>1
<1> QED BY <1>6, <1>7

-----------------------------------------------------------------------------
(* Type correctness                                                        *)

\* The actions of a signed owner message carry parameters and complexities.
LEMMA ActionTypes ==
  ASSUME NEW m \in OwnerMsgs, NEW i \in DOMAIN m.actions
  PROVE  m.actions[i].xdata \in Params /\ m.actions[i].reset \in 0 .. IntBound - 1
<1> DEFINE R == [mode : 0 .. 255, reset : 0 .. IntBound - 1, xdata : Params]
<1>1. m.actions \in Seq(R) BY GiverConstants
<1> HIDE DEF R
<1>2. m.actions[i] \in R BY <1>1
<1> QED BY <1>2 DEF R

\* The idle time a rescale asks for is at least one target interval.
LEMMA IdleTime ==
  ASSUME NEW x \in Params, NEW d \in Int, d >= x.target_delta * IdleFactor
  PROVE  d \in Nat /\ d >= x.target_delta
<1>1. x.target_delta \in Nat /\ IdleFactor \in Nat /\ 1 <= IdleFactor
  BY GiverConstants
<1>2. x.target_delta * 1 <= x.target_delta * IdleFactor
  BY <1>1, MulMonotone
<1>3. x.target_delta * 1 = x.target_delta /\ x.target_delta * IdleFactor \in Nat
  BY <1>1, MulNat
<1> QED BY <1>1, <1>2, <1>3

\* The part of the type invariant that is about numbers.
NumbersOK ==
  /\ stored_seqno \in 0 .. Uint32Max
  /\ xdata \in Params
  /\ pow_complexity \in 1 .. IntBound - 1
  /\ last_success \in 0 .. now \cup {Uint32Max}
  /\ now \in 0 .. MaxTime

\* The part of the type invariant that is about seeds and histories.
HistoryOK ==
  /\ used \subseteq Seeds
  /\ seed \in used
  /\ rewards \in Seq([msg : MineMsgs, at : 0 .. MaxTime, paid : BOOLEAN])
  /\ executed \in Seq(OwnerMsgs)

\* Every step keeps the numbers in their ranges.
LEMMA NumbersStep == NumbersOK /\ [Next]_vars => NumbersOK'
<1> SUFFICES ASSUME NumbersOK, [Next]_vars PROVE NumbersOK'
  OBVIOUS
<1>0. /\ IntBound \in Nat /\ Uint32Max \in Nat /\ MaxTime \in Nat
      /\ now \in Nat /\ last_success \in Nat /\ now - last_success \in Int
      /\ pow_complexity \in Nat \ {0} /\ xdata \in Params
      /\ xdata.min \in Nat \ {0} /\ xdata.max \in Nat /\ xdata.max < IntBound
      /\ xdata.target_delta \in Nat \ {0}
  BY GiverConstants DEF NumbersOK
<1>1. ASSUME NEW m \in MineMsgs, Mine(m) PROVE NumbersOK'
  <2> DEFINE r == Recomputed(pow_complexity, now - last_success, xdata)
  <2>1. r \in 1 .. IntBound - 1
    <3>1. CASE now - last_success > 0
      <4>1. r \in Nat /\ xdata.min <= r /\ r <= xdata.max
        BY <1>0, <3>1, RecomputedInRange
      <4> QED BY <1>0, <4>1
    <3>2. CASE ~ (now - last_success > 0)
      BY <3>2 DEF Recomputed, NumbersOK
    <3> QED BY <3>1, <3>2
  <2> HIDE DEF r
  <2>2. pow_complexity' = r BY <1>1 DEF Mine, r
  <2> QED BY <1>0, <1>1, <2>1, <2>2 DEF Mine, NumbersOK
<1>2. ASSUME NEW e \in 0 .. MaxTime, Rescale(e) PROVE NumbersOK'
  <2> DEFINE d == now - last_success
             r == Rescaled(pow_complexity, d, xdata)
  <2>1. d \in Nat /\ d >= xdata.target_delta
    BY <1>0, <1>2, IdleTime DEF Rescale
  <2>2. /\ r \in Nat /\ r <= xdata.max
        /\ (pow_complexity <= xdata.max => pow_complexity <= r)
        /\ (xdata.max < pow_complexity => r = xdata.max)
    BY <1>0, <2>1, RescaledInRange
  <2>3. xdata.max > 0 BY <1>0, GiverConstants
  <2>4. last_success' = now - xdata.target_delta /\ pow_complexity' = r
    BY <1>2 DEF Rescale
  <2>5. last_success' \in 0 .. now BY <1>0, <2>1, <2>4
  <2> HIDE DEF r, d
  <2>6. r \in 1 .. IntBound - 1 BY <1>0, <2>2, <2>3
  <2> QED BY <1>2, <2>4, <2>5, <2>6 DEF Rescale, NumbersOK
<1>3. ASSUME NEW m \in OwnerMsgs, Owner(m) PROVE NumbersOK'
  <2>1. xdata' \in Params /\ last_success' \in 0 .. now \cup {Uint32Max}
    BY <1>0, <1>3, ActionTypes DEF Owner, NumbersOK
  <2>2. pow_complexity' \in 1 .. IntBound - 1
    BY <1>0, <1>3, ActionTypes DEF Owner, NumbersOK
  <2>3. stored_seqno' \in 0 .. Uint32Max /\ now' = now
    BY <1>0, <1>3 DEF Owner, NumbersOK
  <2> QED BY <2>1, <2>2, <2>3 DEF NumbersOK
<1>4. CASE Tick
  BY <1>0, <1>4 DEF Tick, NumbersOK
<1>5. CASE UNCHANGED vars
  BY <1>5 DEF vars, NumbersOK
<1> QED BY <1>1, <1>2, <1>3, <1>4, <1>5 DEF Next

\* Every step keeps seeds and histories well formed.
LEMMA HistoryStep == NumbersOK /\ HistoryOK /\ [Next]_vars => HistoryOK'
<1> SUFFICES ASSUME NumbersOK, HistoryOK, [Next]_vars PROVE HistoryOK'
  OBVIOUS
<1>1. ASSUME NEW m \in MineMsgs, Mine(m) PROVE HistoryOK'
  <2>1. PICK p \in BOOLEAN :
          rewards' = Append(rewards, [msg |-> m, at |-> now, paid |-> p])
    BY <1>1 DEF Mine
  <2>2. [msg |-> m, at |-> now, paid |-> p]
          \in [msg : MineMsgs, at : 0 .. MaxTime, paid : BOOLEAN]
    BY DEF NumbersOK
  <2>3. rewards' \in Seq([msg : MineMsgs, at : 0 .. MaxTime, paid : BOOLEAN])
    BY <2>1, <2>2 DEF HistoryOK
  <2>4. used' \subseteq Seeds /\ seed' \in used' /\ executed' = executed
    BY <1>1 DEF Mine, HistoryOK
  <2> QED BY <2>3, <2>4 DEF HistoryOK
<1>2. ASSUME NEW e \in 0 .. MaxTime, Rescale(e) PROVE HistoryOK'
  BY <1>2 DEF Rescale, HistoryOK
<1>3. ASSUME NEW m \in OwnerMsgs, Owner(m) PROVE HistoryOK'
  <2>1. used' \subseteq Seeds /\ seed' \in used' /\ rewards' = rewards
    BY <1>3 DEF Owner, HistoryOK
  <2>2. executed' \in Seq(OwnerMsgs)
    BY <1>3 DEF Owner, HistoryOK
  <2> QED BY <2>1, <2>2 DEF HistoryOK
<1>4. CASE Tick
  BY <1>4 DEF Tick, HistoryOK
<1>5. CASE UNCHANGED vars
  BY <1>5 DEF vars, HistoryOK
<1> QED BY <1>1, <1>2, <1>3, <1>4, <1>5 DEF Next

\* The data of the contract keep their types and widths: in particular the
\* complexity never becomes 0 or overflows, whatever miners and owner send.
THEOREM TypeCorrect == Spec => []TypeOK
<1>1. TypeOK <=> NumbersOK /\ HistoryOK
  BY DEF TypeOK, NumbersOK, HistoryOK
<1>2. Init => NumbersOK /\ HistoryOK
  BY GiverConstants DEF Init, NumbersOK, HistoryOK
<1> QED BY <1>1, <1>2, NumbersStep, HistoryStep, PTL DEF Spec

-----------------------------------------------------------------------------
(* A seed is rewarded at most once                                         *)

\* The strengthening: a rewarded seed has been drawn and is no longer current.
SeedInv ==
  /\ OneRewardPerSeed
  /\ \A i \in DOMAIN rewards : rewards[i].msg.rseed \in used \ {seed}

\* Every step preserves the strengthened invariant.
LEMMA SeedStep == HistoryOK /\ SeedInv /\ [Next]_vars => SeedInv'
<1> SUFFICES ASSUME HistoryOK, SeedInv, [Next]_vars PROVE SeedInv'
  OBVIOUS
<1>1. ASSUME NEW m \in MineMsgs, Mine(m) PROVE SeedInv'
  <2>1. PICK p \in BOOLEAN :
          rewards' = Append(rewards, [msg |-> m, at |-> now, paid |-> p])
    BY <1>1 DEF Mine
  <2>2. PICK s \in Seeds \ used : seed' = s /\ used' = used \cup {s}
    BY <1>1 DEF Mine
  <2> DEFINE n == Len(rewards)
  <2>3. n \in Nat /\ DOMAIN rewards = 1 .. n /\ DOMAIN rewards' = 1 .. n + 1
    BY <2>1 DEF HistoryOK
  <2>4. /\ \A i \in 1 .. n : rewards'[i] = rewards[i]
        /\ rewards'[n + 1].msg = m
    BY <2>1 DEF HistoryOK
  <2>5. m.rseed = seed /\ seed \in used
    BY <1>1 DEF Mine, Acceptable, HistoryOK
  <2> HIDE DEF n
  <2>6. \A i \in DOMAIN rewards' : rewards'[i].msg.rseed \in used' \ {seed'}
    BY <2>2, <2>3, <2>4, <2>5 DEF SeedInv
  <2>7. \A i \in 1 .. n : rewards'[i].msg.rseed # rewards'[n + 1].msg.rseed
    BY <2>3, <2>4, <2>5 DEF SeedInv
  <2>8. OneRewardPerSeed'
    BY <2>3, <2>4, <2>7 DEF SeedInv, OneRewardPerSeed
  <2> QED BY <2>6, <2>8 DEF SeedInv
<1>2. ASSUME NEW e \in 0 .. MaxTime, Rescale(e) PROVE SeedInv'
  BY <1>2 DEF Rescale, SeedInv, OneRewardPerSeed
<1>3. ASSUME NEW m \in OwnerMsgs, Owner(m) PROVE SeedInv'
  <2>1. rewards' = rewards BY <1>3 DEF Owner
  <2>2. \/ UNCHANGED <<seed, used>>
        \/ \E s \in Seeds \ used : seed' = s /\ used' = used \cup {s}
    BY <1>3 DEF Owner
  <2> QED BY <2>1, <2>2 DEF SeedInv, OneRewardPerSeed
<1>4. CASE Tick
  BY <1>4 DEF Tick, SeedInv, OneRewardPerSeed
<1>5. CASE UNCHANGED vars
  BY <1>5 DEF vars, SeedInv, OneRewardPerSeed
<1> QED BY <1>1, <1>2, <1>3, <1>4, <1>5 DEF Next

\* However often and in whatever order proofs, rescales and owner messages are
\* delivered, no seed is rewarded twice.
THEOREM SeedRewardedOnce == Spec => []OneRewardPerSeed
<1>1. Init => NumbersOK /\ HistoryOK /\ SeedInv
  BY GiverConstants DEF Init, NumbersOK, HistoryOK, SeedInv, OneRewardPerSeed
<1>2. SeedInv => OneRewardPerSeed
  BY DEF SeedInv
<1> QED BY <1>1, <1>2, NumbersStep, HistoryStep, SeedStep, PTL DEF Spec

-----------------------------------------------------------------------------
(* An owner message is executed at most once                               *)

\* The strengthening: executed messages have numbers below the stored one.
OwnerInv ==
  /\ OwnerMessageOnce
  /\ \A i \in DOMAIN executed : executed[i].seqno < stored_seqno

\* Every step preserves the strengthened invariant.
LEMMA OwnerStep ==
  NumbersOK /\ HistoryOK /\ OwnerInv /\ [Next]_vars => OwnerInv'
<1> SUFFICES ASSUME NumbersOK, HistoryOK, OwnerInv, [Next]_vars PROVE OwnerInv'
  OBVIOUS
<1>1. ASSUME NEW m \in OwnerMsgs, Owner(m) PROVE OwnerInv'
  <2> DEFINE n == Len(executed)
  <2>1. /\ executed' = Append(executed, m) /\ m.seqno = stored_seqno
        /\ stored_seqno' = stored_seqno + 1
    BY <1>1 DEF Owner
  <2>2. n \in Nat /\ DOMAIN executed = 1 .. n /\ DOMAIN executed' = 1 .. n + 1
    BY <2>1 DEF HistoryOK
  <2>3. (\A i \in 1 .. n : executed'[i] = executed[i]) /\ executed'[n + 1] = m
    BY <2>1 DEF HistoryOK
  <2>4. stored_seqno \in Nat BY GiverConstants DEF NumbersOK
  <2>5. \A i \in 1 .. n : executed[i] \in OwnerMsgs /\ executed[i].seqno \in Nat
    BY <2>2, GiverConstants DEF HistoryOK
  <2> HIDE DEF n
  <2>6. \A i \in DOMAIN executed' : executed'[i].seqno < stored_seqno'
    BY <2>1, <2>2, <2>3, <2>4, <2>5 DEF OwnerInv
  <2>7. OwnerMessageOnce'
    <3> SUFFICES ASSUME NEW i \in 1 .. n + 1, NEW j \in 1 .. n + 1, i < j
                 PROVE  executed'[i].seqno < executed'[j].seqno
      BY <2>2 DEF OwnerMessageOnce
    <3>1. i \in 1 .. n BY <2>2
    <3>2. CASE j = n + 1
      BY <3>1, <3>2, <2>1, <2>2, <2>3 DEF OwnerInv
    <3>3. CASE j # n + 1
      BY <3>1, <3>3, <2>2, <2>3 DEF OwnerInv, OwnerMessageOnce
    <3> QED BY <3>2, <3>3
  <2> QED BY <2>6, <2>7 DEF OwnerInv
<1>2. CASE UNCHANGED <<executed, stored_seqno>>
  BY <1>2 DEF OwnerInv, OwnerMessageOnce
<1> QED BY <1>1, <1>2 DEF Next, Mine, Rescale, Tick, vars

\* A signed owner message cannot be replayed, and two owner messages are never
\* executed out of the order of their sequence numbers.
THEOREM OwnerMessageExecutedOnce == Spec => []OwnerMessageOnce
<1>1. Init => NumbersOK /\ HistoryOK /\ OwnerInv
  BY GiverConstants DEF Init, NumbersOK, HistoryOK, OwnerInv, OwnerMessageOnce
<1>2. OwnerInv => OwnerMessageOnce
  BY DEF OwnerInv
<1> QED BY <1>1, <1>2, NumbersStep, HistoryStep, OwnerStep, PTL DEF Spec

-----------------------------------------------------------------------------
(* What a step may never do                                                *)

\* The time of the last success never goes back.
THEOREM SuccessTimeMonotone == Spec => LastSuccessMonotone
<1> DEFINE A == last_success # Uint32Max => last_success <= last_success'
<1>1. NumbersOK /\ [Next]_vars => [A]_vars
  <2> SUFFICES ASSUME NumbersOK, [Next]_vars, last_success # Uint32Max
               PROVE  last_success <= last_success'
    OBVIOUS
  <2>0. now \in Nat /\ last_success \in 0 .. now /\ xdata \in Params
        /\ xdata.target_delta \in Nat
    BY GiverConstants DEF NumbersOK
  <2>1. ASSUME NEW m \in MineMsgs, Mine(m) PROVE last_success <= last_success'
    BY <2>0, <2>1 DEF Mine
  <2>2. ASSUME NEW e \in 0 .. MaxTime, Rescale(e) PROVE last_success <= last_success'
    BY <2>0, <2>2, IdleTime DEF Rescale
  <2>3. ASSUME NEW m \in OwnerMsgs, Owner(m) PROVE last_success <= last_success'
    BY <2>0, <2>3 DEF Owner
  <2>4. CASE Tick BY <2>0, <2>4 DEF Tick
  <2>5. CASE UNCHANGED vars BY <2>0, <2>5 DEF vars
  <2> QED BY <2>1, <2>2, <2>3, <2>4, <2>5 DEF Next
<1>2. Init => NumbersOK
  BY GiverConstants DEF Init, NumbersOK
<1> QED BY <1>1, <1>2, NumbersStep, PTL DEF Spec, LastSuccessMonotone

\* What miners send keeps the complexity within the owner's range.
LEMMA RangeStep ==
  ASSUME NumbersOK, InRange, [Next]_vars, executed' = executed, HistoryOK
  PROVE  /\ InRange'
         /\ rewards' = rewards => seed' = seed /\ pow_complexity <= pow_complexity'
<1>0. /\ now \in Nat /\ last_success \in Nat /\ now - last_success \in Int
      /\ pow_complexity \in Nat \ {0} /\ xdata \in Params
      /\ xdata.min \in Nat /\ xdata.max \in Nat
  BY GiverConstants DEF NumbersOK
<1>1. ASSUME NEW m \in MineMsgs, Mine(m) PROVE InRange' /\ rewards' # rewards
  <2> DEFINE r == Recomputed(pow_complexity, now - last_success, xdata)
  <2>1. r \in Nat /\ xdata.min <= r /\ r <= xdata.max
    BY <1>0, RecomputedInRange DEF InRange
  <2>2. pow_complexity' = r /\ xdata' = xdata BY <1>1 DEF Mine
  <2>3. PICK p \in BOOLEAN :
          rewards' = Append(rewards, [msg |-> m, at |-> now, paid |-> p])
    BY <1>1 DEF Mine
  <2>4. Len(rewards') = Len(rewards) + 1 /\ Len(rewards) \in Nat
    BY <2>3 DEF HistoryOK
  <2> HIDE DEF r
  <2> QED BY <2>1, <2>2, <2>4 DEF InRange
<1>2. ASSUME NEW e \in 0 .. MaxTime, Rescale(e)
      PROVE  InRange' /\ seed' = seed /\ pow_complexity <= pow_complexity'
  <2> DEFINE d == now - last_success
             r == Rescaled(pow_complexity, d, xdata)
  <2>1. d \in Nat /\ d >= xdata.target_delta
    BY <1>0, <1>2, IdleTime DEF Rescale
  <2>2. /\ r \in Nat /\ r <= xdata.max
        /\ (pow_complexity <= xdata.max => pow_complexity <= r)
    BY <1>0, <2>1, RescaledInRange
  <2>3. pow_complexity' = r /\ xdata' = xdata /\ seed' = seed BY <1>2 DEF Rescale
  <2> HIDE DEF r
  <2> QED BY <1>0, <2>2, <2>3 DEF InRange
<1>3. ASSUME NEW m \in OwnerMsgs, Owner(m) PROVE FALSE
  <2>1. executed' = Append(executed, m) BY <1>3 DEF Owner
  <2>2. Len(executed') = Len(executed) + 1 /\ Len(executed) \in Nat
    BY <2>1 DEF HistoryOK
  <2> QED BY <2>2
<1>4. CASE Tick
  BY <1>0, <1>4 DEF Tick, InRange
<1>5. CASE UNCHANGED vars
  BY <1>0, <1>5 DEF vars, InRange
<1> QED BY <1>1, <1>2, <1>3, <1>4, <1>5 DEF Next

\* The fixed point arithmetic of proofs and rescales never takes the
\* complexity out of the range the owner set.
THEOREM ComplexityStaysInRange == Spec => RangeKept
<1>1. NumbersOK /\ HistoryOK /\ [Next]_vars
        => [InRange /\ executed' = executed => InRange']_vars
  BY RangeStep
<1>2. Init => NumbersOK /\ HistoryOK
  BY GiverConstants DEF Init, NumbersOK, HistoryOK
<1> QED BY <1>1, <1>2, NumbersStep, HistoryStep, PTL DEF Spec, RangeKept

\* No rescale and no passing of time short of its expiry invalidates a proof
\* that the giver would have accepted.
THEOREM ProofStands == Spec => StandingProof
<1> DEFINE A == InRange /\ rewards' = rewards /\ executed' = executed =>
                  \A m \in MineMsgs :
                    Acceptable(m) /\ now' <= m.expire => Acceptable(m)'
<1>1. NumbersOK /\ HistoryOK /\ NumbersOK' /\ [Next]_vars => [A]_vars
  <2> SUFFICES ASSUME NumbersOK, HistoryOK, NumbersOK', [Next]_vars, InRange,
                      rewards' = rewards, executed' = executed,
                      NEW m \in MineMsgs, Acceptable(m), now' <= m.expire
               PROVE  Acceptable(m)'
    OBVIOUS
  <2>1. seed' = seed /\ pow_complexity <= pow_complexity' BY RangeStep
  <2>2. Hash(m) \in Nat /\ pow_complexity \in Nat /\ pow_complexity' \in Nat
    BY HashIsNat, GiverConstants DEF NumbersOK
  <2>3. now \in Nat /\ now' \in Nat /\ now <= now'
    BY GiverConstants DEF Next, Mine, Rescale, Owner, Tick, vars, NumbersOK
  <2>4. m.expire \in Nat /\ ExpireWindow \in Nat BY GiverConstants DEF MineMsgs
  <2> QED BY <2>1, <2>2, <2>3, <2>4 DEF Acceptable
<1>2. Init => NumbersOK /\ HistoryOK
  BY GiverConstants DEF Init, NumbersOK, HistoryOK
<1> QED BY <1>1, <1>2, NumbersStep, HistoryStep, PTL DEF Spec, StandingProof

=============================================================================
