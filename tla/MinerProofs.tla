---------------------------- MODULE MinerProofs -----------------------------
(***************************************************************************)
(* Proofs about the two mining loops.                                      *)
(*                                                                         *)
(* The GPU loop, for any number of virtual CPUs, block size, throughput,   *)
(* number of iterations and width of the nonce: launches neither repeat    *)
(* nor skip a nonce, the result record is that of one hit, and the run     *)
(* keeps the promise of a mining call.                                     *)
(*                                                                         *)
(* The CPU loop, for any number of threads, size of rdata, position of the *)
(* guard byte, check period and hash function.  It is an instance with     *)
(* constants and variables of its own, so neither half rests on what the   *)
(* other one assumes.                                                      *)
(***************************************************************************)
EXTENDS GpuMiner, TLAPS, WellFoundedInduction, SequenceTheorems

-----------------------------------------------------------------------------
(* Ranges of nonces                                                        *)

\* Integer division rounds down.
LEMMA DivBounds ==
  ASSUME NEW a \in Nat, NEW b \in Nat \ {0}
  PROVE  /\ a \div b \in Nat
         /\ b * (a \div b) <= a
         /\ a < b * (a \div b) + b
  OBVIOUS

\* A quotient is determined by its bounds.
LEMMA DivUnique ==
  ASSUME NEW a \in Nat, NEW b \in Nat \ {0}, NEW q \in Nat, b * q <= a, a < b * q + b
  PROVE  a \div b = q
<1> DEFINE d == a \div b
<1>1. d \in Nat /\ b * d <= a /\ a < b * d + b BY DivBounds
<1> HIDE DEF d
<1>2. CASE d < q
  <2>1. d + 1 <= q BY <1>1, <1>2
  <2>2. b * (d + 1) <= b * q BY <1>1, <2>1
  <2>3. b * (d + 1) = b * d + b BY <1>1
  <2>4. b * q \in Int /\ b * d \in Int BY <1>1
  <2> QED BY <1>1, <2>2, <2>3, <2>4
<1>3. CASE q < d
  <2>1. q + 1 <= d BY <1>1, <1>3
  <2>2. b * (q + 1) <= b * d BY <1>1, <2>1
  <2>3. b * (q + 1) = b * q + b BY <1>1
  <2>4. b * q \in Int /\ b * d \in Int BY <1>1
  <2> QED BY <1>1, <2>2, <2>3, <2>4
<1> QED BY <1>1, <1>2, <1>3 DEF d

\* A multiple of the divisor adds to the quotient.
LEMMA DivAdd ==
  ASSUME NEW a \in Nat, NEW b \in Nat \ {0}, NEW q \in Nat
  PROVE  (a + b * q) \div b = a \div b + q
<1> DEFINE d == a \div b
<1>1. d \in Nat /\ b * d <= a /\ a < b * d + b BY DivBounds
<1> HIDE DEF d
<1>2. b * (d + q) = b * d + b * q BY <1>1
<1>3. b * q \in Nat /\ b * d \in Nat BY <1>1
<1>4. a + b * q \in Nat /\ d + q \in Nat BY <1>1, <1>3
<1>5. b * (d + q) <= a + b * q /\ a + b * q < b * (d + q) + b BY <1>1, <1>2, <1>3
<1>6. (a + b * q) \div b = d + q BY Zenon, <1>4, <1>5, DivUnique
<1> QED BY <1>6 DEF d

\* Multiplication keeps the order.
LEMMA MulLess ==
  ASSUME NEW b \in Nat \ {0}, NEW p \in Nat, NEW q \in Nat
  PROVE  b * p \in Nat /\ b * q \in Nat /\ (p <= q <=> b * p <= b * q)
<1>1. p <= q => b * p <= b * q OBVIOUS
<1>2. q + 1 <= p => b * (q + 1) <= b * p OBVIOUS
<1>3. b * (q + 1) = b * q + b /\ b * p \in Nat /\ b * q \in Nat OBVIOUS
<1> QED BY <1>1, <1>2, <1>3

\* A multiple divides without rest.
LEMMA Multiple ==
  ASSUME NEW a \in Nat, NEW b \in Nat \ {0}, a % b = 0
  PROVE  a = b * (a \div b)
  OBVIOUS

\* The launches of a run: the range of a launch covers what the host counts,
\* ends before the next one begins, and stays within the bound on hashes.
LEMMA LaunchRange ==
  ASSUME device \in Devices, NEW n \in Nat, n < MaxIterations,
         throughput < FullThroughput => n = 0
  PROVE  /\ LaunchSize \in Nat /\ throughput \in Nat /\ throughput <= FullThroughput
         /\ n \div GpuThreads \in Nat
         /\ (n + throughput) \div GpuThreads <= n \div GpuThreads + LaunchSize
         /\ n + throughput < MaxIterations =>
              n \div GpuThreads + LaunchSize <= (n + throughput) \div GpuThreads
         /\ n + throughput < MaxIterations => throughput = FullThroughput
         /\ GpuThreads * (n \div GpuThreads + LaunchSize) < MaxIterations + FullThroughput
<1> DEFINE G == GpuThreads
           B == BlockSize
           F == FullThroughput
           M == MaxIterations
           T == throughput
           S == LaunchSize
           c == F \div (G * B)
<1>1. G \in Nat \ {0} /\ B \in Nat \ {0} /\ F \in Nat \ {0} /\ M \in Nat /\ F % (G * B) = 0
  BY GpuConstants
<1>2. T \in Nat /\ T <= F /\ T = (IF M < F THEN M ELSE F) BY <1>1 DEF throughput
<1>3. S = IF device.backend = "cuda" THEN B * ((T + B * G - 1) \div (B * G)) ELSE T \div G
  BY DEF LaunchSize
<1>4. T < F => n = 0 OBVIOUS
<1>5. n < M OBVIOUS
<1> HIDE DEF G, B, F, M, T, S
<1>6. G * B \in Nat \ {0} /\ B * G = G * B BY <1>1
<1>7. c \in Nat /\ F = (G * B) * c BY Zenon, <1>1, <1>6, Multiple, DivBounds
<1> HIDE DEF c
<1>8. B * c \in Nat /\ (G * B) * c = G * (B * c) BY <1>1, <1>7
<1>9. n \div G \in Nat /\ G * (n \div G) <= n BY <1>1, DivBounds
<1>10. CASE T = F
  <2>1. S = B * c
    <3>1. CASE device.backend = "cuda"
      <4>1. (T + B * G - 1) \div (B * G) = c
        <5>1. (G * B) * c <= T + G * B - 1 /\ T + G * B - 1 < (G * B) * c + G * B
          BY <1>2, <1>6, <1>7, <1>10
        <5>2. T + G * B - 1 \in Nat BY <1>2, <1>6
        <5>3. (T + G * B - 1) \div (G * B) = c BY <1>6, <1>7, <5>1, <5>2, DivUnique
        <5> QED BY <1>6, <5>3
      <4> QED BY <1>3, <3>1, <4>1
    <3>2. CASE device.backend # "cuda"
      <4>1. T = G * (B * c) BY <1>7, <1>8, <1>10
      <4>2. G * (B * c) <= T /\ T < G * (B * c) + G BY <1>1, <1>2, <4>1
      <4>3. T \div G = B * c BY Zenon, <1>1, <1>2, <1>8, <4>2, DivUnique
      <4> QED BY <1>3, <3>2, <4>3
    <3> QED BY <3>1, <3>2
  <2>2. S \in Nat /\ T = G * S BY <1>7, <1>8, <1>10, <2>1
  <2>3. (n + T) \div G = n \div G + S BY Zenon, <1>1, <2>2, DivAdd
  <2>4. G * (n \div G + S) = G * (n \div G) + G * S BY <1>1, <1>9, <2>2
  <2>5. G * (n \div G + S) < M + F
    <3>1. G * (n \div G) \in Nat BY <1>1, <1>9
    <3> QED BY <1>1, <1>5, <1>9, <1>10, <2>2, <2>4, <3>1
  <2>6. (n + T) \div G <= n \div G + S /\ n \div G + S <= (n + T) \div G BY <1>9, <2>2, <2>3
  <2> QED BY <1>2, <1>9, <1>10, <2>2, <2>5, <2>6 DEF G, F, M, T, S
<1>11. CASE T # F
  <2>1. n = 0 /\ T = M /\ M < F /\ M > 0 BY <1>1, <1>2, <1>4, <1>5, <1>11
  <2>2. n \div G = 0 BY <1>1, <2>1
  <2>3. S \in Nat /\ T \div G <= S /\ G * S < M + F
    <3>1. CASE device.backend = "cuda"
      <4> DEFINE m == G * B
                 d == (T + m - 1) \div m
      <4>1. m \in Nat \ {0} /\ T + m - 1 \in Nat BY <1>2, <1>6
      <4>2. d \in Nat /\ m * d <= T + m - 1 /\ T + m - 1 < m * d + m BY <4>1, DivBounds
      <4>3. S = B * d BY <1>3, <1>6, <3>1
      <4>4. F = m * c BY <1>7
      <4> HIDE DEF d
      <4>5. G * S = m * d BY <1>1, <4>2, <4>3
      <4>6. S \in Nat BY <1>1, <4>2, <4>3
      <4> HIDE DEF m
      <4>7. m * d \in Nat /\ m * c \in Nat BY <1>7, <4>1, <4>2
      <4>8. T <= m * d
        <5> DEFINE x == m * d
        <5>1. x \in Nat /\ T + m - 1 < x + m BY <4>2, <4>7
        <5> HIDE DEF x
        <5>2. T \in Int /\ m \in Int /\ x \in Int BY <1>2, <4>1, <5>1
        <5>3. T + m - 1 < x + m BY <5>1
        <5>4. T <= x BY <5>2, <5>3
        <5> QED BY <5>4 DEF x
      <4>9. T \div G <= S
        <5>1. T \div G \in Nat /\ G * (T \div G) <= T BY <1>1, <1>2, DivBounds
        <5>2. G * (T \div G) \in Nat BY <1>1, <5>1
        <5>3. G * (T \div G) <= G * S BY <1>2, <4>5, <4>7, <4>8, <5>1, <5>2
        <5> QED BY <1>1, <4>6, <5>1, <5>3, MulLess
      <4>10. d <= c
        <5>1. CASE c + 1 <= d
          <6>1. m * (c + 1) <= m * d BY <1>7, <4>1, <4>2, <5>1, MulLess
          <6>2. m * (c + 1) = m * c + m BY <1>7, <4>1
          <6> QED BY <1>1, <1>2, <2>1, <4>1, <4>2, <4>4, <4>7, <6>1, <6>2
        <5> QED BY <1>7, <4>2, <5>1
      <4>11. m * d <= F BY <1>7, <4>1, <4>2, <4>4, <4>10, MulLess
      <4> QED BY <1>1, <2>1, <4>5, <4>6, <4>7, <4>9, <4>11
    <3>2. CASE device.backend # "cuda"
      <4>1. S = T \div G BY <1>3, <3>2
      <4>2. T \div G \in Nat /\ G * (T \div G) <= T BY <1>1, <1>2, DivBounds
      <4>3. G * (T \div G) \in Nat BY <1>1, <4>2
      <4> QED BY <1>1, <1>2, <2>1, <4>1, <4>2, <4>3
    <3> QED BY <3>1, <3>2
  <2>4. G * (n \div G + S) < M + F BY <2>2, <2>3
  <2>5. (n + T) \div G <= n \div G + S BY <1>2, <2>1, <2>2, <2>3
  <2>6. ~(n + T < M) BY <1>1, <1>2, <2>1
  <2> QED BY <1>2, <1>9, <2>3, <2>4, <2>5, <2>6 DEF G, F, M, T, S
<1> QED BY <1>10, <1>11

-----------------------------------------------------------------------------
(* The invariant                                                           *)

\* Where the range of the next or the current launch starts.
Start == i \div GpuThreads

\* The types; a kernel runs only below the limit, and a launch that is not a
\* full one is the first and only one.
Types ==
  /\ TypeOK
  /\ dev \in [found : Nat, nonce : Nat \cup {None}, vcpu : Vcpus \cup {None}]
  /\ winner # None \/ items # {} => pc = "kernel"
  /\ pc = "kernel" => i < MaxIterations
  /\ i < MaxIterations /\ throughput < FullThroughput => i = 0
  /\ pc \in {"loop", "kernel"} => result = None

\* Which nonces are waiting and which have been hashed.
ScanInv ==
  /\ items \subseteq Vcpus \X (Start .. Start + LaunchSize - 1)
  /\ items \cap tried = {}
  /\ pc = "loop" /\ i < MaxIterations => tried \subseteq Vcpus \X (0 .. Start - 1)
  /\ pc = "kernel" => tried \subseteq Vcpus \X (0 .. Start + LaunchSize - 1)
  /\ \A x \in tried : GpuThreads * (x[2] + 1) < MaxIterations + FullThroughput

\* The device takes nonce v, n for a hit only if it is one, or is overclocked.
Hit(v, n) == device.overclocked \/ IsProof(kernel_body(v, n))

\* The result record is empty, or its nonce is that of one hit, whose virtual
\* CPU is stored there too or about to be.
DevInv ==
  /\ rejected => device.overclocked
  /\ pc = "kernel" =>
       /\ dev.found = 0 => dev.nonce = None /\ dev.vcpu = None /\ winner = None
       /\ dev.found > 0 => dev.nonce # None /\ (winner # None <=> dev.vcpu = None)
       /\ winner # None => winner[2] = dev.nonce /\ Hit(winner[1], winner[2])
       /\ dev.vcpu # None => Hit(dev.vcpu, dev.nonce)

\* The run has seen no device error and has no result.
Clean == ~failed /\ ~device.overclocked /\ result = None

\* On a correct device nothing below the current launch is left or a proof,
\* and a hit of the current launch has been recorded.
MissInv ==
  Clean =>
    /\ \A v \in Vcpus, n \in 0 .. Start - 1 : <<v, n>> \in tried /\ ~IsProof(kernel_body(v, n))
    /\ pc = "kernel" =>
         \A v \in Vcpus, n \in Start .. Start + LaunchSize - 1 :
           \/ <<v, n>> \in items
           \/ <<v, n>> \in tried /\ (IsProof(kernel_body(v, n)) => dev.found > 0)

Inv == Types /\ ScanInv /\ DevInv /\ MissInv

\* A nonce below the end of a range is in the range or below it.
LEMMA BelowOrIn ==
  ASSUME NEW s \in Nat, NEW k \in Nat, NEW t \in Nat, t <= s + k, NEW n \in 0 .. t - 1
  PROVE  n \in 0 .. s - 1 \/ n \in s .. s + k - 1
  OBVIOUS

\* What the range of a launch is used for below.
LEMMA CurrentRange ==
  ASSUME Types
  PROVE  /\ i \in Nat /\ Start \in Nat
         /\ i < MaxIterations =>
              /\ LaunchSize \in Nat /\ throughput \in Nat /\ throughput <= FullThroughput
              /\ (i + throughput) \div GpuThreads <= Start + LaunchSize
              /\ i + throughput < MaxIterations =>
                   Start + LaunchSize <= (i + throughput) \div GpuThreads
              /\ i + throughput < MaxIterations => throughput = FullThroughput
              /\ GpuThreads * (Start + LaunchSize) < MaxIterations + FullThroughput
<1>1. i \in Nat /\ device \in Devices BY GpuConstants DEF Types, TypeOK
<1>2. Start \in Nat BY <1>1, GpuConstants, DivBounds DEF Start
<1>3. CASE i < MaxIterations
  <2>1. throughput < FullThroughput => i = 0 BY <1>3 DEF Types
  <2> QED BY <1>1, <1>2, <1>3, <2>1, LaunchRange DEF Start
<1> QED BY <1>1, <1>2, <1>3

\* The host rebuilds a body of the run.
LEMMA HostBody ==
  ASSUME rdata \in Starts, NEW v \in Vcpus, NEW n \in Nat
  PROVE  host_body(v, n) \in Bodies
<1>1. rdata[v] \in Nat /\ NonceMod \in Nat \ {0} BY GpuConstants
<1>2. (rdata[v] + n) % NonceMod \in 0 .. NonceMod - 1 BY <1>1
<1> QED BY <1>2 DEF host_body, Bodies

LEMMA InvInit == Init => Inv
<1> SUFFICES ASSUME Init PROVE Inv OBVIOUS
<1>1. throughput \in Nat BY GpuConstants DEF throughput
<1>2. Types
  <2>1. dev \in [found : Nat, nonce : Nat \cup {None}, vcpu : Vcpus \cup {None}]
    BY DEF Init, NoResult
  <2>2. 0 \in 0 .. MaxIterations + FullThroughput /\ 0 \in 0 .. MaxTime BY GpuConstants
  <2>3. dev.found \in Nat /\ dev.nonce \in Nat \cup {None} /\ dev.vcpu \in Vcpus \cup {None}
    BY <2>1
  <2>4. TypeOK BY Zenon, <2>2, <2>3 DEF Init, TypeOK
  <2> QED BY <2>1, <2>4 DEF Init, Types
<1>3. Start = 0 BY GpuConstants DEF Init, Start
<1>4. ScanInv BY <1>3 DEF Init, ScanInv
<1>5. DevInv BY DEF Init, DevInv
<1>6. MissInv BY <1>3 DEF Init, MissInv
<1> QED BY <1>2, <1>4, <1>5, <1>6 DEF Inv

LEMMA LaunchKeeps == ASSUME Inv, Launch PROVE Inv'
<1> USE DEF Inv
<1>0. Types BY DEF Inv
<1>1. Start \in Nat /\ LaunchSize \in Nat BY <1>0, CurrentRange DEF Launch
<1>2. Start' = Start /\ LaunchSize' = LaunchSize BY DEF Launch, Start, LaunchSize
<1>3. dev' = NoResult /\ items' = Vcpus \X (Start .. Start + LaunchSize - 1)
  BY DEF Launch, Start
<1>4. Types'
  <2>1. (dev \in [found : Nat, nonce : Nat \cup {None}, vcpu : Vcpus \cup {None}])'
    BY <1>3 DEF NoResult
  <2>2. items' \subseteq Vcpus \X Nat BY <1>1, <1>3
  <2>3. (dev.found \in Nat /\ dev.nonce \in Nat \cup {None} /\ dev.vcpu \in Vcpus \cup {None})'
    BY <1>3 DEF NoResult
  <2>4. winner = None BY DEF Types, Launch
  <2> QED BY <2>1, <2>2, <2>3, <2>4, <1>0 DEF Launch, Types, TypeOK
<1>5. ScanInv'
  <2>1. tried \subseteq Vcpus \X (0 .. Start - 1) BY DEF Launch, ScanInv
  <2>2. items' \cap tried' = {} BY <1>1, <1>3, <2>1 DEF Launch
  <2>3. tried' \subseteq Vcpus \X (0 .. Start + LaunchSize - 1) BY <1>1, <2>1 DEF Launch
  <2> QED BY <1>2, <1>3, <2>2, <2>3 DEF Launch, ScanInv
<1>6. DevInv'
  <2>1. winner = None BY DEF Types, Launch
  <2>2. dev'.found = 0 /\ dev'.nonce = None /\ dev'.vcpu = None BY <1>3 DEF NoResult
  <2> QED BY <2>1, <2>2 DEF Launch, DevInv
<1>7. MissInv'
  <2> SUFFICES ASSUME Clean' PROVE MissInv' BY DEF MissInv
  <2>1. Clean BY DEF Clean, Launch
  <2>2. \A v \in Vcpus, n \in Start .. Start + LaunchSize - 1 : <<v, n>> \in items' BY <1>3
  <2> QED BY <1>2, <2>1, <2>2 DEF MissInv, Launch, kernel_body
<1> QED BY <1>4, <1>5, <1>6, <1>7

\* The host goes on after a launch that brought no verified candidate.
LEMMA AdvanceKeeps ==
  ASSUME Inv, pc = "kernel", NEW counted \in Nat, Advance(counted),
         items' = {}, winner' = None,
         UNCHANGED <<device, rdata, dev, cancelled, clock, tried>>,
         rejected' \in BOOLEAN, failed' \in BOOLEAN, failed => failed',
         rejected' => device.overclocked,
         ~failed' /\ ~device.overclocked => items = {} /\ dev.found = 0
  PROVE  Inv'
<1>0. Types BY DEF Inv
<1>1. i < MaxIterations /\ result = None BY <1>0 DEF Types
<1>2. i' = i + throughput /\ result' = result /\ pc' \in {"loop", "done"} BY DEF Advance
<1>3. Start \in Nat /\ LaunchSize \in Nat /\ throughput \in Nat /\ i \in Nat
  BY <1>0, <1>1, CurrentRange
<1>4. LaunchSize' = LaunchSize BY DEF LaunchSize
<1>5. Start' \in Nat /\ Start' <= Start + LaunchSize
      /\ (i' < MaxIterations => Start + LaunchSize <= Start')
  <2>1. Start' = (i + throughput) \div GpuThreads BY <1>2 DEF Start
  <2>2. i + throughput \in Nat BY <1>3
  <2>3. Start' \in Nat BY <2>1, <2>2, GpuConstants, DivBounds
  <2> QED BY <1>0, <1>1, <1>2, <2>1, <2>3, CurrentRange
<1>6. Types'
  <2>1. i' \in 0 .. MaxIterations + FullThroughput
    BY <1>0, <1>1, <1>2, <1>3, CurrentRange, GpuConstants
  <2>2. hashes_computed' \in Nat BY <1>0, <1>3 DEF Advance, Types, TypeOK
  <2>3. i' < MaxIterations => throughput = FullThroughput BY <1>0, <1>1, <1>2, CurrentRange
  <2>4. TypeOK' BY <1>0, <1>2, <2>1, <2>2 DEF Types, TypeOK
  <2> QED BY <1>0, <1>1, <1>2, <1>3, <2>3, <2>4, GpuConstants DEF Types
<1>7. ScanInv'
  <2>1. tried \subseteq Vcpus \X (0 .. Start + LaunchSize - 1) BY DEF Inv, ScanInv
  <2>2. i' < MaxIterations => tried' \subseteq Vcpus \X (0 .. Start' - 1) BY <1>3, <1>5, <2>1
  <2>3. \A x \in tried' : GpuThreads * (x[2] + 1) < MaxIterations + FullThroughput
    BY DEF Inv, ScanInv
  <2> QED BY <1>2, <2>2, <2>3 DEF ScanInv
<1>8. DevInv' BY <1>2 DEF DevInv
<1>9. MissInv'
  <2> SUFFICES ASSUME Clean', NEW v \in Vcpus, NEW n, n \in 0 .. Start' - 1
               PROVE  <<v, n>> \in tried /\ ~IsProof(kernel_body(v, n))
    BY <1>2 DEF MissInv, kernel_body
  <2>1. Clean /\ items = {} /\ dev.found = 0 BY <1>1 DEF Clean
  <2>2. n \in 0 .. Start - 1 \/ n \in Start .. Start + LaunchSize - 1
    BY Zenon, <1>3, <1>5, BelowOrIn
  <2>3. MissInv BY DEF Inv
  <2>4. CASE n \in 0 .. Start - 1 BY <2>1, <2>3, <2>4 DEF MissInv
  <2>5. CASE n \in Start .. Start + LaunchSize - 1 BY <2>1, <2>3, <2>5 DEF MissInv
  <2> QED BY <2>2, <2>4, <2>5
<1> QED BY <1>6, <1>7, <1>8, <1>9 DEF Inv

LEMMA WorkItemKeeps ==
  ASSUME Inv, NEW vcpu, NEW nonce, <<vcpu, nonce>> \in items, WorkItem(vcpu, nonce)
  PROVE  Inv'
<1>0. Types /\ ScanInv /\ DevInv /\ MissInv BY DEF Inv
<1> DEFINE w == <<vcpu, nonce>>
<1>1. /\ pc = "kernel" /\ items' = items \ {w} /\ tried' = tried \cup {w}
      /\ UNCHANGED <<device, rdata, pc, i, hashes_computed, cancelled, clock, result, rejected,
                     failed>>
  BY DEF WorkItem
<1>2. i < MaxIterations /\ result = None BY <1>0, <1>1 DEF Types
<1>3. Start \in Nat /\ LaunchSize \in Nat BY <1>0, <1>2, CurrentRange
<1>4. Start' = Start /\ LaunchSize' = LaunchSize BY <1>1 DEF Start, LaunchSize
<1>5. vcpu \in Vcpus /\ nonce \in Start .. Start + LaunchSize - 1 BY <1>0 DEF ScanInv
<1>6. nonce \in Nat /\ nonce + 1 <= Start + LaunchSize BY <1>3, <1>5
<1>7. w \in Vcpus \X Nat /\ w # None BY <1>5, <1>6, GpuConstants
<1>8. dev \in [found : Nat, nonce : Nat \cup {None}, vcpu : Vcpus \cup {None}]
  BY <1>0 DEF Types
<1>9. nonce # None BY <1>6, GpuConstants
<1>10. \/ UNCHANGED <<dev, winner>> /\ (~IsProof(kernel_body(vcpu, nonce)) \/ device.overclocked)
       \/ /\ dev.found = 0 /\ winner' = w /\ Hit(vcpu, nonce)
          /\ dev' = [dev EXCEPT !.found = 1, !.nonce = nonce]
       \/ dev.found # 0 /\ winner' = winner /\ dev' = [dev EXCEPT !.found = @ + 1]
  BY DEF WorkItem, Hit
<1>11. /\ (dev \in [found : Nat, nonce : Nat \cup {None}, vcpu : Vcpus \cup {None}])'
       /\ (winner \in (Vcpus \X Nat) \cup {None})'
       /\ \/ dev' = dev /\ winner' = winner
             /\ (~IsProof(kernel_body(vcpu, nonce)) \/ device.overclocked)
          \/ /\ dev.found = 0 /\ winner' = w /\ Hit(vcpu, nonce)
             /\ dev'.found = 1 /\ dev'.nonce = nonce /\ dev'.vcpu = dev.vcpu
          \/ /\ dev.found # 0 /\ winner' = winner
             /\ dev'.found = dev.found + 1 /\ dev'.nonce = dev.nonce /\ dev'.vcpu = dev.vcpu
  <2>1. winner \in (Vcpus \X Nat) \cup {None} BY <1>0 DEF Types, TypeOK
  <2>2. CASE UNCHANGED <<dev, winner>>
    BY Zenon, <1>8, <1>10, <2>1, <2>2
  <2>3. CASE dev' = [dev EXCEPT !.found = 1, !.nonce = nonce] /\ winner' = w
    <3>1. (dev \in [found : Nat, nonce : Nat \cup {None}, vcpu : Vcpus \cup {None}])'
          /\ dev'.found = 1 /\ dev'.nonce = nonce /\ dev'.vcpu = dev.vcpu
      BY Zenon, <1>6, <1>8, <2>3
    <3> QED BY Zenon, <1>7, <1>10, <2>2, <2>3, <3>1
  <2>4. CASE dev' = [dev EXCEPT !.found = @ + 1] /\ winner' = winner
    <3>1. (dev \in [found : Nat, nonce : Nat \cup {None}, vcpu : Vcpus \cup {None}])'
          /\ dev'.found = dev.found + 1 /\ dev'.nonce = dev.nonce /\ dev'.vcpu = dev.vcpu
      BY <1>8, <2>4
    <3> QED BY Zenon, <1>10, <2>1, <2>2, <2>4, <3>1
  <2> QED BY <1>10, <2>2, <2>3, <2>4
<1> HIDE DEF w
<1>12. Types'
  <2>1. items' \subseteq Vcpus \X Nat /\ tried' \subseteq Vcpus \X Nat
    BY <1>0, <1>1, <1>7 DEF Types, TypeOK
  <2>2. (dev.found \in Nat /\ dev.nonce \in Nat \cup {None} /\ dev.vcpu \in Vcpus \cup {None})'
    BY <1>11
  <2>3. TypeOK' BY <1>0, <1>1, <1>11, <2>1, <2>2 DEF Types, TypeOK
  <2> QED BY <1>0, <1>1, <1>11, <2>3 DEF Types
<1>13. ScanInv'
  <2>1. items' \cap tried' = {} BY <1>0, <1>1 DEF ScanInv
  <2>2. w \in Vcpus \X (0 .. Start + LaunchSize - 1) BY <1>3, <1>5, <1>6 DEF w
  <2>3. GpuThreads * (w[2] + 1) < MaxIterations + FullThroughput
    <3> DEFINE x == GpuThreads * (nonce + 1)
               y == GpuThreads * (Start + LaunchSize)
    <3>1. GpuThreads \in Nat \ {0} /\ MaxIterations + FullThroughput \in Nat BY GpuConstants
    <3>2. nonce + 1 \in Nat /\ Start + LaunchSize \in Nat BY <1>3, <1>6
    <3>3. x \in Nat /\ y \in Nat /\ x <= y BY <1>6, <3>1, <3>2, MulLess
    <3>4. y < MaxIterations + FullThroughput BY <1>0, <1>2, CurrentRange
    <3>5. w[2] = nonce BY DEF w
    <3> HIDE DEF x, y
    <3>6. x < MaxIterations + FullThroughput BY <3>1, <3>3, <3>4
    <3> QED BY <3>5, <3>6 DEF x
  <2> QED BY <1>0, <1>1, <1>4, <2>1, <2>2, <2>3 DEF ScanInv
<1>14. DevInv'
  <2>1. Hit(vcpu, nonce)' = Hit(vcpu, nonce) /\ w[1] = vcpu /\ w[2] = nonce
    BY <1>1 DEF Hit, kernel_body, w
  <2>2. dev.found \in Nat BY <1>8
  <2>3. \A v, n : Hit(v, n)' <=> Hit(v, n) BY <1>1 DEF Hit, kernel_body
  <2>4. CASE dev.found = 0 /\ winner' = w
    BY <1>0, <1>1, <1>7, <1>9, <1>11, <2>1, <2>4 DEF DevInv
  <2>5. CASE dev' = dev /\ winner' = winner
    BY <1>0, <1>1, <2>3, <2>5 DEF DevInv
  <2>6. CASE dev.found # 0 /\ winner' = winner /\ dev'.found = dev.found + 1
             /\ dev'.nonce = dev.nonce /\ dev'.vcpu = dev.vcpu
    BY <1>0, <1>1, <2>2, <2>3, <2>6 DEF DevInv
  <2> QED BY <1>11, <2>4, <2>5, <2>6
<1>15. MissInv'
  <2> SUFFICES ASSUME Clean' PROVE MissInv' BY DEF MissInv
  <2>1. Clean /\ ~device.overclocked BY <1>1 DEF Clean
  <2>2. dev'.found \in Nat /\ dev.found \in Nat /\ dev'.found >= dev.found
        /\ (IsProof(kernel_body(vcpu, nonce)) => dev'.found > 0)
    BY <1>8, <1>11, <2>1
  <2>3. ASSUME NEW v \in Vcpus, NEW n \in Start .. Start + LaunchSize - 1
        PROVE  \/ <<v, n>> \in items'
               \/ <<v, n>> \in tried' /\ (IsProof(kernel_body(v, n)) => dev'.found > 0)
    <3>1. \/ <<v, n>> \in items
          \/ <<v, n>> \in tried /\ (IsProof(kernel_body(v, n)) => dev.found > 0)
      BY <1>0, <1>1, <2>1 DEF MissInv
    <3>2. CASE <<v, n>> = w
      <4>1. v = vcpu /\ n = nonce BY <3>2 DEF w
      <4> QED BY <1>1, <2>2, <3>2, <4>1
    <3>3. CASE <<v, n>> # w BY <1>1, <2>2, <3>1, <3>3
    <3> QED BY <3>2, <3>3
  <2>4. \A v, n : kernel_body(v, n)' = kernel_body(v, n) BY <1>1 DEF kernel_body
  <2>5. \A v \in Vcpus, n \in 0 .. Start - 1 : <<v, n>> \in tried' /\ ~IsProof(kernel_body(v, n))
    BY Zenon, <1>0, <1>1, <2>1 DEF MissInv
  <2> QED BY <1>4, <2>3, <2>4, <2>5 DEF MissInv, IsProof
<1> QED BY <1>12, <1>13, <1>14, <1>15 DEF Inv

LEMMA StoreVcpuKeeps == ASSUME Inv, StoreVcpu PROVE Inv'
<1>0. Types /\ ScanInv /\ DevInv /\ MissInv BY DEF Inv
<1>1. /\ winner # None /\ winner' = None
      /\ UNCHANGED <<device, rdata, pc, i, items, hashes_computed, cancelled, clock, result, tried,
                     rejected, failed>>
  BY DEF StoreVcpu
<1>2. pc = "kernel" BY <1>0, <1>1 DEF Types
<1>3. dev \in [found : Nat, nonce : Nat \cup {None}, vcpu : Vcpus \cup {None}]
      /\ winner[1] \in Vcpus
  BY <1>0, <1>1 DEF Types, TypeOK
<1>4. /\ (dev \in [found : Nat, nonce : Nat \cup {None}, vcpu : Vcpus \cup {None}])'
      /\ dev'.found = dev.found /\ dev'.nonce = dev.nonce /\ dev'.vcpu = winner[1]
  BY <1>3 DEF StoreVcpu
<1>5. Start' = Start /\ LaunchSize' = LaunchSize BY <1>1 DEF Start, LaunchSize
<1>6. \A v, n : kernel_body(v, n)' = kernel_body(v, n) /\ (Hit(v, n)' <=> Hit(v, n))
  BY <1>1 DEF kernel_body, Hit
<1>7. Types'
  <2>1. (dev.found \in Nat /\ dev.nonce \in Nat \cup {None} /\ dev.vcpu \in Vcpus \cup {None})'
    BY <1>4
  <2>2. TypeOK' BY <1>0, <1>1, <2>1 DEF Types, TypeOK
  <2> QED BY <1>0, <1>1, <1>4, <2>2 DEF Types
<1>8. ScanInv' BY <1>0, <1>1, <1>5 DEF ScanInv
<1>9. DevInv'
  <2>1. dev.found # 0 BY <1>0, <1>1, <1>2 DEF DevInv
  <2>2. dev.found \in Nat BY <1>3
  <2>3. dev'.vcpu # None
    <3>1. GpuThreads \in Nat BY GpuConstants
    <3>2. Vcpus \subseteq Nat BY <3>1 DEF Vcpus
    <3> QED BY Zenon, <1>3, <1>4, <3>2, GpuConstants
  <2>4. dev.nonce # None /\ Hit(winner[1], winner[2]) /\ winner[2] = dev.nonce
    BY <1>0, <1>1, <1>2, <2>1, <2>2 DEF DevInv
  <2>5. Hit(dev.vcpu, dev.nonce)' BY <1>1, <1>4, <2>4 DEF Hit, kernel_body
  <2>6. (rejected => device.overclocked)' BY <1>0, <1>1 DEF DevInv
  <2>7. dev'.found # 0 /\ dev'.nonce # None /\ winner' = None BY <1>1, <1>4, <2>1, <2>4
  <2> QED BY <2>3, <2>5, <2>6, <2>7 DEF DevInv
<1>10. MissInv' BY <1>0, <1>1, <1>4, <1>5, <1>6 DEF MissInv, Clean, IsProof
<1> QED BY <1>7, <1>8, <1>9, <1>10 DEF Inv

LEMMA ReadBackKeeps == ASSUME Inv, ReadBack PROVE Inv'
<1>0. Types /\ ScanInv /\ DevInv /\ MissInv BY DEF Inv
<1>1. /\ pc = "kernel" /\ items = {} /\ winner = None
      /\ UNCHANGED <<device, rdata, items, dev, winner, cancelled, clock, tried, failed>>
  BY DEF ReadBack
<1>2. i < MaxIterations /\ result = None /\ rejected \in BOOLEAN /\ failed \in BOOLEAN
  BY <1>0, <1>1 DEF Types, TypeOK
<1>3. dev \in [found : Nat, nonce : Nat \cup {None}, vcpu : Vcpus \cup {None}] /\ rdata \in Starts
      /\ dev.found \in Nat
  BY <1>0 DEF Types, TypeOK
<1>4. rejected => device.overclocked BY <1>0 DEF DevInv
<1>5. CASE ~(dev.nonce # None /\ dev.vcpu # None)
  <2>1. Advance(0) /\ rejected' = rejected BY <1>5 DEF ReadBack
  <2>2. dev.found = 0 BY <1>0, <1>1, <1>3, <1>5 DEF DevInv
  <2> QED BY <1>1, <1>2, <1>4, <2>1, <2>2, AdvanceKeeps
<1>6. CASE dev.nonce # None /\ dev.vcpu # None
  <2>1. Candidate(dev.vcpu, dev.nonce) BY <1>6 DEF ReadBack
  <2>2. dev.nonce \in Nat /\ dev.vcpu \in Vcpus BY <1>3, <1>6
  <2>3. dev.nonce * dev.vcpu \in Nat
    <3>1. GpuThreads \in Nat BY GpuConstants
    <3>2. dev.vcpu \in Nat BY <2>2, <3>1 DEF Vcpus
    <3> QED BY <2>2, <3>2
  <2>4. Hit(dev.vcpu, dev.nonce) BY <1>0, <1>1, <1>6 DEF DevInv
  <2>5. CASE Advance(dev.nonce * dev.vcpu) /\ ~IsProof(host_body(dev.vcpu, dev.nonce))
    <3>1. device.overclocked BY <2>4, <2>5 DEF Hit, kernel_body, host_body
    <3>2. rejected' \in BOOLEAN BY Zenon, <2>1, <2>5 DEF Candidate
    <3> QED BY <1>1, <1>2, <2>3, <2>5, <3>1, <3>2, AdvanceKeeps
  <2>6. CASE /\ pc' = "done" /\ UNCHANGED i
             /\ hashes_computed' = hashes_computed + dev.nonce * dev.vcpu
             /\ \/ result' = host_body(dev.vcpu, dev.nonce) /\ rejected' = rejected
                \/ result' = result /\ rejected' = TRUE /\ device.overclocked
    <3>1. host_body(dev.vcpu, dev.nonce) \in Bodies BY <1>3, <2>2, HostBody
    <3>2. hashes_computed' \in Nat BY <1>0, <2>3, <2>6 DEF Types, TypeOK
    <3>3. result' \in Bodies \cup {None} /\ rejected' \in BOOLEAN BY Zenon, <1>2, <2>6, <3>1
    <3>4. TypeOK' BY <1>0, <1>1, <2>6, <3>2, <3>3 DEF Types, TypeOK
    <3>5. Types' BY <1>0, <1>1, <2>6, <3>4 DEF Types
    <3>6. Start' = Start /\ LaunchSize' = LaunchSize BY <1>1, <2>6 DEF Start, LaunchSize
    <3>7. ScanInv' BY <1>0, <1>1, <2>6, <3>6 DEF ScanInv
    <3>8. DevInv' BY <1>1, <1>4, <2>6 DEF DevInv
    <3>9. MissInv'
      <4> SUFFICES ASSUME Clean' PROVE MissInv' BY DEF MissInv
      <4>1. result' = None /\ ~device.overclocked BY <1>1 DEF Clean
      <4>2. FALSE BY <2>6, <3>1, <4>1, GpuConstants
      <4> QED BY <4>2
    <3> QED BY <3>5, <3>7, <3>8, <3>9 DEF Inv
  <2>7. CASE IsProof(host_body(dev.vcpu, dev.nonce))
    BY <2>1, <2>6, <2>7 DEF Candidate
  <2>8. CASE ~IsProof(host_body(dev.vcpu, dev.nonce))
    <3>1. device.overclocked BY <2>4, <2>8 DEF Hit, kernel_body, host_body
    <3> QED BY Zenon, <2>1, <2>5, <2>6, <2>8, <3>1 DEF Candidate
  <2> QED BY <2>7, <2>8
<1> QED BY <1>5, <1>6

LEMMA DeviceErrorKeeps == ASSUME Inv, DeviceError PROVE Inv'
<1>0. Types /\ ScanInv /\ DevInv /\ MissInv BY DEF Inv
<1>1. /\ pc = "kernel" /\ items' = {} /\ winner' = None /\ failed' = TRUE
      /\ UNCHANGED <<device, rdata, dev, cancelled, clock, tried, rejected>>
  BY DEF DeviceError
<1>2. rejected \in BOOLEAN /\ (rejected => device.overclocked) BY <1>0 DEF Types, TypeOK, DevInv
<1>3. CASE Advance(0) BY <1>1, <1>2, <1>3, AdvanceKeeps
<1>4. CASE pc' = "aborted" /\ UNCHANGED <<i, hashes_computed, result>>
  <2>1. TypeOK' BY <1>0, <1>1, <1>4 DEF Types, TypeOK
  <2>2. Types' BY <1>0, <1>1, <1>4, <2>1 DEF Types
  <2>3. ScanInv' BY <1>0, <1>1, <1>4 DEF ScanInv, Start, LaunchSize
  <2>4. DevInv' BY <1>1, <1>2, <1>4 DEF DevInv
  <2>5. MissInv' BY <1>1 DEF MissInv, Clean
  <2> QED BY <2>2, <2>3, <2>4, <2>5 DEF Inv
<1> QED BY <1>3, <1>4 DEF DeviceError

\* The other steps leave the scan and the device alone.
LEMMA IdleKeeps ==
  ASSUME Inv, Exhausted \/ Cancel \/ Tick \/ UNCHANGED vars
  PROVE  Inv'
<1>0. Types /\ ScanInv /\ DevInv /\ MissInv BY DEF Inv
<1>1. UNCHANGED <<device, rdata, i, items, dev, winner, hashes_computed, result, tried, rejected,
                  failed>>
  BY DEF Exhausted, Cancel, Tick, vars
<1>2. pc' = pc \/ (pc = "loop" /\ pc' = "done")
  <2>1. CASE Exhausted BY <2>1 DEF Exhausted
  <2>2. CASE Cancel \/ Tick \/ UNCHANGED vars BY <2>2 DEF Cancel, Tick, vars
  <2> QED BY <2>1, <2>2
<1>3. cancelled' \in BOOLEAN /\ clock' \in 0 .. MaxTime
  <2>1. cancelled \in BOOLEAN /\ clock \in 0 .. MaxTime BY <1>0 DEF Types, TypeOK
  <2>2. CASE Tick
    <3>1. clock \in Nat /\ MaxTime \in Nat /\ clock < MaxTime /\ clock' = clock + 1
      BY <2>1, <2>2, GpuConstants DEF Tick
    <3> QED BY <2>1, <2>2, <3>1 DEF Tick
  <2>3. CASE Cancel BY <2>1, <2>3 DEF Cancel
  <2>4. CASE Exhausted \/ UNCHANGED vars BY <2>1, <2>4 DEF Exhausted, vars
  <2> QED BY <2>2, <2>3, <2>4
<1>4. Start' = Start /\ LaunchSize' = LaunchSize BY <1>1 DEF Start, LaunchSize
<1>5. TypeOK' BY <1>0, <1>1, <1>2, <1>3 DEF Types, TypeOK
<1>6. Types' BY <1>0, <1>1, <1>2, <1>5 DEF Types
<1>7. ScanInv' BY <1>0, <1>1, <1>2, <1>4 DEF ScanInv
<1>8. DevInv' BY Zenon, <1>0, <1>1, <1>2 DEF DevInv, Hit, kernel_body
<1>9. MissInv' BY <1>0, <1>1, <1>2, <1>4 DEF MissInv, Clean, kernel_body
<1> QED BY <1>6, <1>7, <1>8, <1>9 DEF Inv

\* The invariant holds in every reachable state.
LEMMA Invariance == Spec => []Inv
<1>1. Inv /\ [Next]_vars => Inv'
  <2> SUFFICES ASSUME Inv, [Next]_vars PROVE Inv' OBVIOUS
  <2>1. ASSUME NEW item \in items, WorkItem(item[1], item[2]) PROVE Inv'
    <3>1. items \subseteq Vcpus \X Nat BY DEF Inv, Types, TypeOK
    <3>2. <<item[1], item[2]>> \in items BY <3>1
    <3> QED BY <2>1, <3>2, WorkItemKeeps
  <2> QED BY <2>1, LaunchKeeps, ReadBackKeeps, StoreVcpuKeeps, DeviceErrorKeeps, IdleKeeps
          DEF Next, Host, Kernel
<1> QED BY <1>1, InvInit, PTL DEF Spec

-----------------------------------------------------------------------------
(* Theorems                                                                *)

\* A verified device is never accused: build_mine_result refuses a candidate
\* only of an overclocked device.
THEOREM NoFalseOverclockAlways == Spec => []NoFalseOverclock
<1>1. Inv => NoFalseOverclock BY DEF Inv, DevInv, NoFalseOverclock
<1> QED BY <1>1, Invariance, PTL

\* A launch never repeats a nonce of an earlier one.
THEOREM NoNonceTwiceAlways == Spec => NoNonceTwice
<1>1. Inv /\ Inv' /\ [Next]_vars => [pc = "loop" => items' \cap tried = {}]_vars
  <2> SUFFICES ASSUME Inv, Inv', [Next]_vars, pc = "loop" PROVE items' \cap tried = {} OBVIOUS
  <2>1. tried \subseteq tried'
    BY DEF Next, Host, Kernel, Launch, ReadBack, Exhausted, StoreVcpu, WorkItem, DeviceError, Cancel,
           Tick, vars
  <2>2. items' \cap tried' = {} BY DEF Inv, ScanInv
  <2> QED BY <2>1, <2>2
<1> QED BY <1>1, Invariance, PTL DEF Spec, NoNonceTwice

\* Every step of the GPU loop is a step or a stutter of the mining call's
\* promise: the run returns once, and only a verified proof of work or nothing.
THEOREM StepsImplementMinerRun ==
  Spec => Abstract!Init /\ [][Abstract!Next]_(Abstract!vars)
<1> DEFINE Running == {r \in {"gpu"} : pc \in {"loop", "kernel"}}
           Result == [r \in {"gpu"} |-> result]
<1>1. Init => Abstract!Init BY DEF Init, Abstract!Init
<1>2. Inv /\ [Next]_vars => [Abstract!Next]_(Abstract!vars)
  <2> SUFFICES ASSUME Inv, [Next]_vars PROVE Abstract!Next \/ UNCHANGED Abstract!vars OBVIOUS
  <2>0. Types BY DEF Inv
  <2>1. ASSUME pc \in {"loop", "kernel"}, pc' \in {"done", "aborted"}, UNCHANGED cancelled,
               result' \in {x \in Bodies : IsProof(x)} \cup {None}
        PROVE  Abstract!Next
    <3>1. "gpu" \in Running /\ Running' = Running \ {"gpu"} BY <2>1
    <3>2. Result' = [Result EXCEPT !["gpu"] = result'] OBVIOUS
    <3>3. Abstract!Return("gpu") BY <2>1, <3>1, <3>2 DEF Abstract!Return
    <3> QED BY <3>3 DEF Abstract!Next
  <2>2. ASSUME pc \in {"loop", "kernel"}, pc' \in {"loop", "kernel"}, UNCHANGED <<cancelled, result>>
        PROVE  UNCHANGED Abstract!vars
    BY <2>2 DEF Abstract!vars
  <2>3. ASSUME NEW counted, pc = "kernel", Advance(counted), UNCHANGED cancelled
        PROVE  Abstract!Next \/ UNCHANGED Abstract!vars
    <3>1. result = None BY <2>0, <2>3 DEF Types
    <3> QED BY <2>1, <2>2, <2>3, <3>1 DEF Advance
  <2>4. CASE Launch BY <2>2, <2>4 DEF Launch
  <2>5. CASE Exhausted
    <3>1. result = None BY <2>0, <2>5 DEF Types, Exhausted
    <3> QED BY <2>1, <2>5, <3>1 DEF Exhausted
  <2>6. CASE StoreVcpu
    <3>1. pc = "kernel" BY <2>0, <2>6 DEF Types, StoreVcpu
    <3> QED BY <2>2, <2>6, <3>1 DEF StoreVcpu
  <2>7. ASSUME NEW item \in items, WorkItem(item[1], item[2]) PROVE UNCHANGED Abstract!vars
    BY <2>2, <2>7 DEF WorkItem
  <2>8. CASE DeviceError
    <3>1. result = None /\ pc = "kernel" /\ UNCHANGED cancelled
      BY <2>0, <2>8 DEF Types, DeviceError
    <3>2. CASE Advance(0) BY <2>3, <3>1, <3>2
    <3>3. CASE pc' = "aborted" /\ UNCHANGED result BY <2>1, <3>1, <3>3
    <3> QED BY <2>8, <3>2, <3>3 DEF DeviceError
  <2>9. CASE ReadBack
    <3>1. result = None /\ pc = "kernel" /\ UNCHANGED cancelled
      BY <2>0, <2>9 DEF Types, ReadBack
    <3>2. CASE Advance(0) BY <2>3, <3>1, <3>2
    <3>3. CASE dev.nonce # None /\ dev.vcpu # None /\ Candidate(dev.vcpu, dev.nonce)
      <4>1. dev.nonce \in Nat /\ dev.vcpu \in Vcpus /\ rdata \in Starts
        BY <2>0, <3>3 DEF Types, TypeOK
      <4>2. host_body(dev.vcpu, dev.nonce) \in Bodies BY <4>1, HostBody
      <4>3. CASE Advance(dev.nonce * dev.vcpu) BY <2>3, <3>1, <4>3
      <4>4. CASE pc' = "done" /\ (result' = result \/ (IsProof(host_body(dev.vcpu, dev.nonce))
                                    /\ result' = host_body(dev.vcpu, dev.nonce)))
        BY <2>1, <3>1, <4>2, <4>4
      <4> QED BY <3>3, <4>3, <4>4 DEF Candidate
    <3> QED BY <2>9, <3>2, <3>3 DEF ReadBack
  <2>10. CASE Cancel BY <2>10 DEF Cancel, Abstract!Next, Abstract!Cancel
  <2>11. CASE Tick \/ UNCHANGED vars BY <2>11 DEF Tick, vars, Abstract!vars
  <2> QED BY <2>4, <2>5, <2>6, <2>7, <2>8, <2>9, <2>10, <2>11 DEF Next, Host, Kernel
<1> QED BY <1>1, <1>2, Invariance, PTL DEF Spec

-----------------------------------------------------------------------------
(* The CPU loop                                                            *)

CONSTANTS Threads, Base, RdataLen, GuardPos, CheckPeriod, ExpireIn, CpuIterations, CpuStarts,
          CpuHash(_), CpuComplexity, CpuDeadline, CpuMaxTime, CpuNone

VARIABLES th, cpu_result, cpu_cancelled, cpu_hashes_computed, cpu_clock

Cpu == INSTANCE CpuMiner WITH
  MaxIterations <- CpuIterations, Starts <- CpuStarts, Hash <- CpuHash,
  Complexity <- CpuComplexity, Deadline <- CpuDeadline, MaxTime <- CpuMaxTime, None <- CpuNone,
  result <- cpu_result, cancelled <- cpu_cancelled, hashes_computed <- cpu_hashes_computed,
  clock <- cpu_clock

-----------------------------------------------------------------------------
(* The CPU loop: arithmetic and sequences                                  *)

\* The number after a block of b numbers starts a new one.
LEMMA ModMultiple ==
  ASSUME NEW q \in Nat, NEW b \in Nat \ {0}
  PROVE  (b * q + b) % b = 0
<1>1. b * q + b = b * (q + 1) OBVIOUS
<1> DEFINE a == b * (q + 1)
           d == a \div b
           r == a % b
<1>2. a \in Nat /\ d \in Nat /\ r \in Nat /\ a = b * d + r /\ r < b OBVIOUS
<1>3. r = b * (q + 1) - b * d BY <1>2
<1> QED BY <1>1, <1>2, <1>3

\* A nonempty set of positions has a last one.
LEMMA LastPosition ==
  ASSUME NEW n \in Nat, NEW S \in SUBSET (1 .. n), S # {}
  PROVE  \E j \in S : \A k \in S : k <= j
<1> DEFINE D == {n - j : j \in S}
<1>1. D \subseteq Nat /\ D # {}
  <2>1. \A j \in S : n - j \in Nat OBVIOUS
  <2>2. PICK j \in S : TRUE BY Zenon
  <2>3. n - j \in D OBVIOUS
  <2> QED BY <2>1, <2>3
<1>2. PICK d \in D : \A e \in D : ~ (<<e, d>> \in OpToRel(<, Nat))
  <2> HIDE DEF D
  <2> QED BY Zenon, <1>1, WFMin, NatLessThanWellFounded
<1>3. \A e \in D : d <= e
  <2> HIDE DEF D
  <2> SUFFICES ASSUME NEW e \in D, e < d PROVE FALSE
    <3>1. \A e \in D : e \in Nat /\ d \in Nat BY <1>1
    <3>2. \A e \in D : ~ (e < d) => d <= e BY <3>1
    <3> QED BY <3>2
  <2>1. <<e, d>> \in Nat \X Nat BY <1>1
  <2>2. <<e, d>> \in OpToRel(<, Nat) BY <2>1, SMT DEF OpToRel
  <2> QED BY Zenon, <1>2, <2>2
<1>4. PICK j \in S : d = n - j OBVIOUS
<1>5. ASSUME NEW k \in S PROVE k <= j
  <2>1. n - k \in D BY Zenon
  <2>2. n - j <= n - k BY Zenon, <1>3, <1>4, <2>1
  <2>3. k \in 1 .. n /\ j \in 1 .. n BY Zenon
  <2> QED BY <2>2, <2>3
<1> QED BY <1>5

\* The head of rdata has its first bytes.
LEMMA HeadBytes ==
  ASSUME Cpu!FieldSizes, NEW r \in Cpu!Rdatas
  PROVE  /\ Cpu!head(r) \in Seq(Cpu!Bytes) /\ Len(Cpu!head(r)) = GuardPos
         /\ Cpu!head(r) \in [1 .. GuardPos -> Cpu!Bytes]
         /\ \A n \in 1 .. GuardPos : Cpu!head(r)[n] = r[n]
<1>1. GuardPos \in Nat /\ 1 <= GuardPos /\ GuardPos < RdataLen /\ RdataLen \in Nat
  BY DEF Cpu!FieldSizes
<1>2. \A n \in 1 .. GuardPos : r[n] \in Cpu!Bytes BY <1>1 DEF Cpu!Rdatas
<1>3. /\ Cpu!head(r) \in Seq(Cpu!Bytes)
      /\ Len(Cpu!head(r)) = IF 1 <= GuardPos THEN GuardPos - 1 + 1 ELSE 0
      /\ \A n \in 1 .. GuardPos - 1 + 1 : Cpu!head(r)[n] = r[1 + n - 1]
  BY <1>1, <1>2, SubSeqProperties, SMTT(30) DEF Cpu!head
<1> QED BY <1>1, <1>3

\* A sequence of bytes is its head followed by its tail.
LEMMA HeadTail ==
  ASSUME Cpu!FieldSizes, NEW r \in Cpu!Rdatas
  PROVE  Cpu!head(r) \o Cpu!tail(r) = r
<1>1. RdataLen \in Nat /\ GuardPos \in Nat /\ 1 <= GuardPos /\ GuardPos < RdataLen
  BY DEF Cpu!FieldSizes
<1>2. r \in Seq(Cpu!Bytes) /\ Len(r) = RdataLen /\ \A n \in 1 .. RdataLen : r[n] \in Cpu!Bytes
  BY <1>1 DEF Cpu!Rdatas
<1> DEFINE h == Cpu!head(r)
           l == Cpu!tail(r)
<1>3. /\ h \in Seq(Cpu!Bytes) /\ Len(h) = GuardPos
      /\ \A n \in 1 .. GuardPos : h[n] = r[n]
  BY HeadBytes
<1>4. /\ l \in Seq(Cpu!Bytes) /\ Len(l) = RdataLen - GuardPos
      /\ \A n \in 1 .. RdataLen - GuardPos : l[n] = r[GuardPos + n]
  <2>1. \A n \in GuardPos + 1 .. RdataLen : r[n] \in Cpu!Bytes BY <1>1, <1>2
  <2>2. /\ l \in Seq(Cpu!Bytes)
        /\ Len(l) = IF GuardPos + 1 <= RdataLen THEN RdataLen - (GuardPos + 1) + 1 ELSE 0
        /\ \A n \in 1 .. RdataLen - (GuardPos + 1) + 1 : l[n] = r[GuardPos + 1 + n - 1]
    <3>1. GuardPos + 1 \in Int /\ RdataLen \in Int BY <1>1
    <3> QED BY <3>1, <2>1, SubSeqProperties, SMTT(30) DEF Cpu!tail
  <2> QED BY <1>1, <2>2
<1> HIDE DEF h, l
<1>5. /\ h \o l \in Seq(Cpu!Bytes) /\ Len(h \o l) = RdataLen
      /\ \A n \in 1 .. RdataLen :
           (h \o l)[n] = IF n <= GuardPos THEN h[n] ELSE l[n - GuardPos]
  <2>1. /\ h \o l \in Seq(Cpu!Bytes)
        /\ Len(h \o l) = Len(h) + Len(l)
        /\ \A n \in 1 .. Len(h) + Len(l) :
             (h \o l)[n] = IF n <= Len(h) THEN h[n] ELSE l[n - Len(h)]
    BY <1>3, <1>4, ConcatProperties, Zenon
  <2>2. Len(h) + Len(l) = RdataLen BY <1>1, <1>3, <1>4
  <2> QED BY <1>3, <2>1, <2>2
<1>6. \A n \in 1 .. RdataLen : (h \o l)[n] = r[n]
  BY <1>1, <1>3, <1>4, <1>5
<1>7. h \o l = r BY <1>2, <1>5, <1>6, SeqEqual
<1> QED BY <1>7 DEF h, l

\* HData::inc leaves bytes in rdata, and if it leaves the guard byte alone it
\* leaves the whole head alone: a carry that reaches the head changes it.
LEMMA IncHead ==
  ASSUME Cpu!FieldSizes, NEW r \in Cpu!Rdatas, \E j \in 1 .. RdataLen : r[j] # Base - 1
  PROVE  /\ Cpu!inc(r, r) \in Cpu!Rdatas
         /\ Cpu!inc(r, r)[GuardPos] = r[GuardPos] => Cpu!head(Cpu!inc(r, r)) = Cpu!head(r)
<1>1. /\ RdataLen \in Nat /\ GuardPos \in Nat /\ 1 <= GuardPos /\ GuardPos < RdataLen
      /\ Base \in Nat /\ Base > 1
  BY DEF Cpu!FieldSizes
<1> DEFINE S == {j \in 1 .. RdataLen : r[j] # Base - 1}
           Last(j) == r[j] # Base - 1 /\ \A k \in j + 1 .. RdataLen : r[k] = Base - 1
           p == CHOOSE j \in 1 .. RdataLen : Last(j)
<1>2. \A j \in 1 .. RdataLen : r[j] \in 0 .. Base - 1 BY DEF Cpu!Rdatas, Cpu!Bytes
<1>3. \E j \in 1 .. RdataLen : Last(j)
  <2>1. PICK j \in S : \A k \in S : k <= j BY Zenon, <1>1, LastPosition
  <2>2. ASSUME NEW k \in j + 1 .. RdataLen, r[k] # Base - 1 PROVE FALSE
    <3>1. k \in 1 .. RdataLen BY <1>1
    <3>2. k \in S BY <3>1, <2>2
    <3> QED BY <2>1, <3>2, <1>1
  <2> QED BY <2>1, <2>2
<1>4. p \in 1 .. RdataLen /\ Last(p) BY <1>3
<1>5. Cpu!inc(r, r) = [j \in 1 .. RdataLen |-> IF j > p THEN 0
                                           ELSE IF j = p THEN r[p] + 1 ELSE r[j]]
  BY DEF Cpu!inc
<1> HIDE DEF p
<1>6. r[p] + 1 \in 0 .. Base - 1 BY <1>1, <1>2, <1>4
<1>7. Cpu!inc(r, r) \in Cpu!Rdatas
  BY <1>1, <1>2, <1>4, <1>5, <1>6 DEF Cpu!Rdatas, Cpu!Bytes
<1>8. ASSUME Cpu!inc(r, r)[GuardPos] = r[GuardPos] PROVE Cpu!head(Cpu!inc(r, r)) = Cpu!head(r)
  <2>1. GuardPos \in 1 .. RdataLen /\ r[GuardPos] \in Int BY <1>1, <1>2
  <2>2. ~ (GuardPos > p)
    <3> SUFFICES ASSUME GuardPos > p PROVE FALSE OBVIOUS
    <3>1. Cpu!inc(r, r)[GuardPos] = 0 BY <1>5, <2>1
    <3>2. GuardPos \in p + 1 .. RdataLen BY <1>1, <1>4
    <3>3. r[GuardPos] = Base - 1 BY <1>4, <3>2
    <3>4. 0 = Base - 1 BY Zenon, <1>8, <3>1, <3>3
    <3> QED BY <1>1, <3>4
  <2>3. GuardPos # p
    <3> SUFFICES ASSUME GuardPos = p PROVE FALSE OBVIOUS
    <3>1. Cpu!inc(r, r)[GuardPos] = r[GuardPos] + 1 BY <1>1, <1>5, <2>1
    <3> QED BY <1>8, <2>1, <3>1
  <2>4. \A j \in 1 .. GuardPos : Cpu!inc(r, r)[j] = r[j]
    <3> SUFFICES ASSUME NEW j \in 1 .. GuardPos PROVE Cpu!inc(r, r)[j] = r[j] OBVIOUS
    <3>1. j \in 1 .. RdataLen /\ ~ (j > p) /\ j # p BY <1>1, <1>4, <2>2, <2>3
    <3> QED BY <1>5, <3>1
  <2> DEFINE h1 == Cpu!head(Cpu!inc(r, r))
             h2 == Cpu!head(r)
  <2>5. /\ h1 \in Seq(Cpu!Bytes) /\ h2 \in Seq(Cpu!Bytes) /\ Len(h1) = GuardPos /\ Len(h2) = GuardPos
        /\ \A j \in 1 .. GuardPos : h1[j] = h2[j]
    BY <1>7, <2>4, HeadBytes
  <2> HIDE DEF h1, h2
  <2>6. h1 = h2 BY <2>5, SeqEqual
  <2> QED BY <2>6 DEF h1, h2
<1> QED BY <1>7, <1>8

-----------------------------------------------------------------------------
(* The CPU loop: the inductive invariant                                   *)

\* The types of the variables that the proofs need.
CpuTypes ==
  /\ th \in [Threads -> Cpu!ThreadState]
  /\ cpu_result \in [Threads -> Cpu!Bodies \cup {CpuNone}]
  /\ cpu_cancelled \in BOOLEAN
  /\ cpu_clock \in 0 .. CpuMaxTime

\* The next check falls due at this iteration at the latest.
NextCheck(s) == CheckPeriod * (s.i0 \div CheckPeriod) + CheckPeriod

\* The two copies of rdata agree.  Whenever the loop is about to hash without
\* renewing shactx1, that context has absorbed the current expire and head.
CtxInv(s) ==
  /\ s.rdata1 = s.rdata2
  /\ (s.pc = "hash" \/ (s.pc = "top" /\ s.i # 0 /\ s.rdata1[GuardPos] = s.guard)) =>
       /\ s.guard = s.rdata1[GuardPos]
       /\ s.shactx1 = [expire |-> s.expire, head |-> Cpu!head(s.rdata1)]

\* Hashes computed since the token was cancelled come after the last check,
\* and no check falls due between the last one and the current iteration.
CountInv(s, c) ==
  /\ s.i0 <= s.i /\ s.late <= s.i - s.i0
  /\ c \/ s.late = 0
  /\ s.i <= NextCheck(s)
  /\ s.pc = "hash" => s.i = s.i0 /\ s.i < CpuIterations /\ s.i < NextCheck(s)

CpuInv ==
  /\ CpuTypes
  /\ \A t \in Threads : CtxInv(th[t]) /\ CountInv(th[t], cpu_cancelled)
  /\ \A t \in Threads : th[t].pc # "done" => cpu_result[t] = CpuNone
  /\ Cpu!FoundIsProof

LEMMA CpuInit == ASSUME Cpu!FieldSizes PROVE Cpu!Init => CpuInv
<1> SUFFICES ASSUME Cpu!Init PROVE CpuInv OBVIOUS
<1> PICK start \in [Threads -> CpuStarts] :
       th = [t \in Threads |->
              [pc |-> "top", i |-> 0, i0 |-> 0, expire |-> 0,
               rdata1 |-> start[t], rdata2 |-> start[t],
               guard |-> start[t][GuardPos], shactx1 |-> CpuNone, late |-> 0]]
  BY DEF Cpu!Init
<1>1. /\ CpuIterations \in Nat /\ CpuMaxTime \in Nat /\ ExpireIn \in Nat
      /\ CheckPeriod \in Nat \ {0} /\ GuardPos \in 1 .. RdataLen
  BY DEF Cpu!FieldSizes
<1>2. \A t \in Threads : start[t] \in Cpu!Rdatas BY DEF Cpu!FieldSizes
<1>3. \A t \in Threads : start[t][GuardPos] \in Cpu!Bytes BY Zenon, <1>1, <1>2 DEF Cpu!Rdatas
<1>4. CpuTypes
  <2>1. \A t \in Threads : th[t] \in Cpu!ThreadState
    BY <1>1, <1>2, <1>3 DEF Cpu!ThreadState
  <2>2. th \in [Threads -> Cpu!ThreadState] BY <2>1
  <2>3. cpu_result \in [Threads -> Cpu!Bodies \cup {CpuNone}] BY DEF Cpu!Init
  <2>4. cpu_cancelled \in BOOLEAN BY Zenon DEF Cpu!Init
  <2>5. cpu_clock \in 0 .. CpuMaxTime BY <1>1 DEF Cpu!Init
  <2> QED BY <2>2, <2>3, <2>4, <2>5 DEF CpuTypes
<1>5. ASSUME NEW t \in Threads PROVE CtxInv(th[t]) /\ CountInv(th[t], cpu_cancelled)
  <2>1. 0 <= CheckPeriod * (0 \div CheckPeriod) + CheckPeriod
    BY <1>1, DivBounds
  <2>2. /\ th[t].pc = "top" /\ th[t].i = 0 /\ th[t].i0 = 0 /\ th[t].late = 0
        /\ th[t].rdata1 = start[t] /\ th[t].rdata2 = start[t]
    OBVIOUS
  <2>3. CtxInv(th[t]) BY <2>2 DEF CtxInv
  <2>4. NextCheck(th[t]) = CheckPeriod * (0 \div CheckPeriod) + CheckPeriod
    BY <2>2 DEF NextCheck
  <2>5. CountInv(th[t], cpu_cancelled) BY <2>1, <2>2, <2>4 DEF CountInv
  <2> QED BY <2>3, <2>5
<1>6. Cpu!FoundIsProof BY DEF Cpu!Init, Cpu!FoundIsProof
<1>7. \A t \in Threads : cpu_result[t] = CpuNone BY DEF Cpu!Init
<1> QED BY <1>4, <1>5, <1>6, <1>7 DEF CpuInv

\* A step of thread t that changes only its local variables, and its result to
\* a proof of work or not at all, has to be looked at for that thread only.
LEMMA OneThread ==
  ASSUME CpuInv, NEW t \in Threads, NEW s \in Cpu!ThreadState,
         th' = [th EXCEPT ![t] = s], cpu_cancelled' = cpu_cancelled, cpu_clock' = cpu_clock,
         CtxInv(s), CountInv(s, cpu_cancelled),
         NEW r \in Cpu!Bodies \cup {CpuNone}, r # CpuNone => Cpu!IsProof(r),
         cpu_result' = cpu_result \/ cpu_result' = [cpu_result EXCEPT ![t] = r],
         s.pc = "done" \/ (cpu_result' = cpu_result /\ th[t].pc # "done")
  PROVE  CpuInv'
<1>1. CpuTypes' BY DEF CpuInv, CpuTypes
<1>2. ASSUME NEW u \in Threads PROVE CtxInv(th'[u]) /\ CountInv(th'[u], cpu_cancelled')
  <2>1. th'[u] = IF u = t THEN s ELSE th[u] BY DEF CpuInv, CpuTypes
  <2> QED BY <2>1 DEF CpuInv
<1>3. Cpu!FoundIsProof'
  <2> SUFFICES ASSUME NEW u \in Threads, cpu_result'[u] # CpuNone PROVE Cpu!IsProof(cpu_result'[u])
    BY Zenon DEF Cpu!FoundIsProof
  <2>1. cpu_result'[u] = cpu_result[u] \/ cpu_result'[u] = r BY DEF CpuInv, CpuTypes
  <2> QED BY Zenon, <2>1 DEF CpuInv, Cpu!FoundIsProof
<1>4. ASSUME NEW u \in Threads, th'[u].pc # "done" PROVE cpu_result'[u] = CpuNone
  <2>1. th'[u] = IF u = t THEN s ELSE th[u] BY DEF CpuInv, CpuTypes
  <2>2. cpu_result'[u] = cpu_result[u] BY <1>4, <2>1 DEF CpuInv, CpuTypes
  <2> QED BY <1>4, <2>1, <2>2 DEF CpuInv
<1> QED BY Zenon, <1>1, <1>2, <1>3, <1>4 DEF CpuInv

\* Returning changes nothing but pc.
LEMMA ReturnInv ==
  ASSUME CpuInv, NEW t \in Threads, NEW r \in Cpu!Bodies \cup {CpuNone},
         r # CpuNone => Cpu!IsProof(r), Cpu!Return(t, r)
  PROVE  CpuInv'
<1> DEFINE s == [th[t] EXCEPT !.pc = "done"]
<1>1. th[t] \in Cpu!ThreadState /\ CtxInv(th[t]) /\ CountInv(th[t], cpu_cancelled)
  BY DEF CpuInv, CpuTypes
<1>2. s \in Cpu!ThreadState BY <1>1 DEF Cpu!ThreadState
<1>3. CtxInv(s) BY <1>1, <1>2 DEF CtxInv, Cpu!ThreadState
<1>4. CountInv(s, cpu_cancelled) BY <1>1, <1>2 DEF CountInv, NextCheck, Cpu!ThreadState
<1>5. th' = [th EXCEPT ![t] = s] /\ s.pc = "done" BY <1>1 DEF Cpu!Return, CpuInv, CpuTypes, Cpu!ThreadState
<1> HIDE DEF s
<1> QED BY Zenon, <1>2, <1>3, <1>4, <1>5, OneThread DEF Cpu!Return

\* Right after a check the counts agree.
LEMMA CheckCount ==
  ASSUME Cpu!FieldSizes, NEW s, NEW n \in 0 .. CpuIterations, NEW k \in Int, n < CpuIterations,
         s.i = n, s.i0 = n, s.late = 0, NextCheck(s) = k, n < k
  PROVE  \A c : CountInv(s, c)
<1>1. CpuIterations \in Nat BY DEF Cpu!FieldSizes
<1> QED BY <1>1 DEF CountInv

\* The periodic part renews the context and moves i0 up to i.
LEMMA CheckInv ==
  ASSUME Cpu!FieldSizes, CpuInv, NEW t \in Threads, Cpu!Check(t)
  PROVE  CpuInv'
<1>1. /\ CpuIterations \in Nat /\ CpuMaxTime \in Nat /\ ExpireIn \in Nat
      /\ CheckPeriod \in Nat \ {0} /\ GuardPos \in 1 .. RdataLen /\ RdataLen \in Nat
  BY DEF Cpu!FieldSizes
<1>2. /\ th[t] \in Cpu!ThreadState /\ CtxInv(th[t]) /\ CountInv(th[t], cpu_cancelled)
      /\ cpu_clock \in 0 .. CpuMaxTime /\ ~cpu_cancelled /\ th[t].i < CpuIterations
  BY DEF CpuInv, CpuTypes, Cpu!Check
<1>3. th[t].i \in 0 .. CpuIterations /\ th[t].late = 0 /\ th[t].rdata1 \in Cpu!Rdatas
  BY Zenon, <1>2 DEF CountInv, Cpu!ThreadState
<1>4. th[t].i < CheckPeriod * (th[t].i \div CheckPeriod) + CheckPeriod
  <2>1. th[t].i \in Nat BY <1>1, <1>3
  <2> QED BY Zenon, <1>1, <2>1, DivBounds
<1>5. CASE th' = [th EXCEPT ![t].pc = "done", ![t].i0 = th[t].i]
  <2> DEFINE s == [th[t] EXCEPT !.pc = "done", !.i0 = th[t].i]
  <2>1. s \in Cpu!ThreadState BY Zenon, <1>2 DEF Cpu!ThreadState
  <2>2. CtxInv(s) BY <1>2 DEF CtxInv, Cpu!ThreadState
  <2>3. CountInv(s, cpu_cancelled)
    <3>1. s.i = th[t].i /\ s.i0 = th[t].i /\ s.late = 0 /\ s.pc = "done"
      BY <1>2, <1>3 DEF Cpu!ThreadState
    <3>2. NextCheck(s) = CheckPeriod * (th[t].i \div CheckPeriod) + CheckPeriod
      BY <3>1 DEF NextCheck
    <3> HIDE DEF s
    <3>3. CheckPeriod * (th[t].i \div CheckPeriod) + CheckPeriod \in Int BY <1>1, <1>3
    <3> QED BY Zenon, <1>2, <1>3, <1>4, <3>1, <3>2, <3>3, CheckCount
  <2>4. th' = [th EXCEPT ![t] = s] /\ s.pc = "done"
    BY Zenon, <1>2, <1>5 DEF CpuInv, CpuTypes, Cpu!ThreadState
  <2> HIDE DEF s
  <2> QED BY Zenon, <2>1, <2>2, <2>3, <2>4, OneThread DEF Cpu!Check
<1>6. CASE th' = [th EXCEPT ![t].pc = "hash", ![t].i0 = th[t].i,
                            ![t].expire = cpu_clock + ExpireIn,
                            ![t].guard = th[t].rdata1[GuardPos],
                            ![t].shactx1 = [expire |-> cpu_clock + ExpireIn,
                                            head |-> Cpu!head(th[t].rdata1)]]
  <2> DEFINE e == cpu_clock + ExpireIn
             g == th[t].rdata1[GuardPos]
             c == [expire |-> e, head |-> Cpu!head(th[t].rdata1)]
             s == [th[t] EXCEPT !.pc = "hash", !.i0 = th[t].i, !.expire = e,
                                !.guard = g, !.shactx1 = c]
  <2>1. e \in 0 .. CpuMaxTime + ExpireIn BY <1>1, <1>2
  <2>2. g \in Cpu!Bytes BY <1>1, <1>3 DEF Cpu!Rdatas
  <2>3. c \in [expire : 0 .. CpuMaxTime + ExpireIn, head : [1 .. GuardPos -> Cpu!Bytes]]
    BY <1>3, <2>1, HeadBytes
  <2>4. th' = [th EXCEPT ![t] = s] BY Zenon, <1>6 DEF CpuInv, CpuTypes
  <2>5. s \in Cpu!ThreadState
    <3> HIDE DEF e, g, c
    <3> QED BY Zenon, <1>2, <2>1, <2>2, <2>3 DEF Cpu!ThreadState
  <2>6. CtxInv(s) BY <1>2 DEF CtxInv, Cpu!ThreadState
  <2>7. CountInv(s, cpu_cancelled)
    <3> HIDE DEF e, g, c
    <3>1. s.i = th[t].i /\ s.i0 = th[t].i /\ s.late = 0
      BY <1>2, <1>3 DEF Cpu!ThreadState
    <3>2. NextCheck(s) = CheckPeriod * (th[t].i \div CheckPeriod) + CheckPeriod
      BY <3>1 DEF NextCheck
    <3> HIDE DEF s
    <3>3. CheckPeriod * (th[t].i \div CheckPeriod) + CheckPeriod \in Int BY <1>1, <1>3
    <3> QED BY Zenon, <1>2, <1>3, <1>4, <3>1, <3>2, <3>3, CheckCount
  <2> HIDE DEF s
  <2> QED BY Zenon, <2>4, <2>5, <2>6, <2>7, OneThread DEF Cpu!Check
<1> QED BY <1>5, <1>6 DEF Cpu!Check

\* Before a hash the context is up to date and no check is due.
LEMMA BeforeHash ==
  ASSUME Cpu!FieldSizes, CpuInv, NEW t \in Threads, Cpu!HashOnce(t)
  PROVE  /\ th[t].rdata1 = th[t].rdata2
         /\ th[t].guard = th[t].rdata1[GuardPos]
         /\ th[t].shactx1 = [expire |-> th[t].expire, head |-> Cpu!head(th[t].rdata1)]
         /\ th[t].i < CpuIterations
         /\ th[t].i < NextCheck(th[t])
<1>1. th[t] \in Cpu!ThreadState /\ CtxInv(th[t]) /\ CountInv(th[t], cpu_cancelled)
  BY DEF CpuInv, CpuTypes
<1>2. CheckPeriod \in Nat \ {0} /\ CpuIterations \in Nat BY DEF Cpu!FieldSizes
<1>3. th[t].i \in Nat /\ th[t].i0 \in Nat BY <1>1, <1>2 DEF Cpu!ThreadState
<1>4. CASE th[t].pc = "hash"
  BY Zenon, <1>1, <1>4 DEF CtxInv, CountInv
<1>5. CASE th[t].pc = "top" /\ th[t].i < CpuIterations /\ ~Cpu!CheckDue(t)
  <2>1. th[t].i % CheckPeriod # 0 /\ th[t].rdata1[GuardPos] = th[t].guard
    BY <1>5 DEF Cpu!CheckDue
  <2>2. th[t].i # 0
    <3>1. 0 % CheckPeriod = 0 BY <1>2
    <3> QED BY <2>1, <3>1
  <2>3. th[t].i # NextCheck(th[t])
    <3> DEFINE q == th[t].i0 \div CheckPeriod
    <3>1. q \in Nat BY <1>2, <1>3, DivBounds
    <3> HIDE DEF q
    <3>2. (CheckPeriod * q + CheckPeriod) % CheckPeriod = 0 BY <1>2, <3>1, ModMultiple
    <3> QED BY <2>1, <3>2 DEF NextCheck, q
  <2>4. NextCheck(th[t]) \in Nat
    <3>1. th[t].i0 \div CheckPeriod \in Nat BY <1>2, <1>3, DivBounds
    <3> QED BY <1>2, <3>1 DEF NextCheck
  <2>5. /\ th[t].rdata1 = th[t].rdata2 /\ th[t].guard = th[t].rdata1[GuardPos]
        /\ th[t].shactx1 = [expire |-> th[t].expire, head |-> Cpu!head(th[t].rdata1)]
    BY Zenon, <1>1, <1>5, <2>1, <2>2 DEF CtxInv
  <2>6. th[t].i <= NextCheck(th[t]) BY Zenon, <1>1 DEF CountInv
  <2>7. th[t].i < NextCheck(th[t]) BY <1>3, <2>3, <2>4, <2>6
  <2> QED BY Zenon, <1>5, <2>5, <2>7
<1> QED BY <1>4, <1>5 DEF Cpu!HashOnce

\* What is found is a proof of work of the body that is returned: the digest
\* is that of the message itself.
LEMMA FoundBody ==
  ASSUME Cpu!FieldSizes, CpuInv, NEW t \in Threads, Cpu!HashOnce(t), Cpu!digest(t) < CpuComplexity
  PROVE  Cpu!body(t) \in Cpu!Bodies /\ Cpu!IsProof(Cpu!body(t))
<1>1. th[t] \in Cpu!ThreadState BY DEF CpuInv, CpuTypes
<1>2. Cpu!body(t) \in Cpu!Bodies BY <1>1 DEF Cpu!ThreadState, Cpu!Bodies, Cpu!body
<1>3. th[t].rdata1 \in Cpu!Rdatas BY <1>1 DEF Cpu!ThreadState
<1>4. Cpu!digest(t) = CpuHash([expire |-> th[t].expire,
                        rdata1 |-> Cpu!head(th[t].rdata1) \o Cpu!tail(th[t].rdata1),
                        rdata2 |-> th[t].rdata2])
  <2>1. th[t].shactx1 = [expire |-> th[t].expire, head |-> Cpu!head(th[t].rdata1)]
    BY BeforeHash
  <2>2. th[t].shactx1.expire = th[t].expire /\ th[t].shactx1.head = Cpu!head(th[t].rdata1)
    BY <2>1
  <2> QED BY <2>2, Zenon DEF Cpu!digest
<1>5. Cpu!digest(t) = CpuHash(Cpu!body(t)) BY Zenon, <1>3, <1>4, HeadTail DEF Cpu!body
<1>6. Cpu!body(t).rdata1 = Cpu!body(t).rdata2 BY Zenon, BeforeHash DEF Cpu!body
<1> QED BY <1>2, <1>5, <1>6 DEF Cpu!IsProof

\* One hash keeps the invariant.
LEMMA HashInv ==
  ASSUME Cpu!FieldSizes, CpuInv, NEW t \in Threads, Cpu!HashOnce(t)
  PROVE  CpuInv'
<1>1. CASE Cpu!digest(t) < CpuComplexity /\ Cpu!Return(t, Cpu!body(t))
  BY <1>1, FoundBody, ReturnInv
<1>2. CASE /\ Cpu!CarryFits(t)
           /\ th' = [th EXCEPT ![t].pc = "top", ![t].i = @ + 1,
                               ![t].rdata1 = Cpu!inc(th[t].rdata1, th[t].rdata2),
                               ![t].rdata2 = Cpu!inc(th[t].rdata2, th[t].rdata2),
                               ![t].late = IF cpu_cancelled THEN @ + 1 ELSE @]
           /\ UNCHANGED <<cpu_result, cpu_cancelled, cpu_hashes_computed, cpu_clock>>
  <2> DEFINE r == th[t].rdata1
             l == IF cpu_cancelled THEN th[t].late + 1 ELSE th[t].late
             n == th[t].i + 1
             r2 == Cpu!inc(r, r)
             s == [th[t] EXCEPT !.pc = "top", !.i = n, !.rdata1 = r2, !.rdata2 = r2, !.late = l]
  <2>1. /\ CpuIterations \in Nat /\ CheckPeriod \in Nat \ {0}
    BY DEF Cpu!FieldSizes
  <2>2. th[t] \in Cpu!ThreadState /\ CountInv(th[t], cpu_cancelled) /\ cpu_cancelled \in BOOLEAN
    BY DEF CpuInv, CpuTypes
  <2>3. /\ r \in Cpu!Rdatas /\ th[t].rdata2 = r /\ th[t].guard = r[GuardPos]
        /\ th[t].shactx1 = [expire |-> th[t].expire, head |-> Cpu!head(r)]
        /\ th[t].i < CpuIterations /\ th[t].i < NextCheck(th[t])
    BY Zenon, <2>2, BeforeHash DEF Cpu!ThreadState
  <2>4. r2 \in Cpu!Rdatas /\ (r2[GuardPos] = r[GuardPos] => Cpu!head(r2) = Cpu!head(r))
    BY <1>2, <2>3, IncHead DEF Cpu!CarryFits
  <2>5. /\ th[t].i \in Nat /\ th[t].i0 \in Nat /\ th[t].late \in Nat
        /\ th[t].i0 <= th[t].i /\ th[t].late <= th[t].i - th[t].i0
    <3>1. th[t].i \in Nat /\ th[t].i0 \in Nat /\ th[t].late \in Nat
      BY <2>1, <2>2 DEF Cpu!ThreadState
    <3>2. th[t].i0 <= th[t].i /\ th[t].late <= th[t].i - th[t].i0 BY Zenon, <2>2 DEF CountInv
    <3> QED BY <3>1, <3>2
  <2>6. n \in 0 .. CpuIterations
    <3>1. th[t].i < CpuIterations BY Zenon, <2>3
    <3> QED BY <2>1, <2>5, <3>1
  <2>7. l \in 0 .. CpuIterations /\ l <= n - th[t].i0
    BY <2>1, <2>2, <2>5, <2>6
  <2>8. cpu_cancelled \/ l = 0 BY <2>2 DEF CountInv
  <2>9. th' = [th EXCEPT ![t] = s] BY <1>2, <2>2, <2>3 DEF CpuInv, CpuTypes, Cpu!ThreadState
  <2> HIDE DEF r, l, n, r2
  <2>10. s \in Cpu!ThreadState BY Zenon, <2>2, <2>4, <2>6, <2>7 DEF Cpu!ThreadState
  <2>11. /\ s.pc = "top" /\ s.i = n /\ s.i0 = th[t].i0 /\ s.late = l /\ s.guard = th[t].guard
         /\ s.rdata1 = r2 /\ s.rdata2 = r2 /\ s.expire = th[t].expire
         /\ s.shactx1 = th[t].shactx1
    BY <2>2 DEF Cpu!ThreadState
  <2> HIDE DEF s
  <2>12. CtxInv(s)
    BY Zenon, <2>3, <2>4, <2>11 DEF CtxInv
  <2>13. CountInv(s, cpu_cancelled)
    <3>1. NextCheck(s) = NextCheck(th[t]) BY <2>11 DEF NextCheck
    <3>2. NextCheck(th[t]) \in Nat
      <4>1. th[t].i0 \div CheckPeriod \in Nat BY <2>1, <2>5, DivBounds
      <4> QED BY <2>1, <4>1 DEF NextCheck
    <3>3. n <= NextCheck(th[t])
      <4>1. th[t].i < NextCheck(th[t]) BY Zenon, <2>3
      <4> QED BY <2>5, <3>2, <4>1 DEF n
    <3>4. th[t].i0 <= n BY <2>5 DEF n
    <3> QED BY <2>7, <2>8, <2>11, <3>1, <3>3, <3>4 DEF CountInv
  <2>14. th[t].pc # "done" BY DEF Cpu!HashOnce
  <2> QED BY Zenon, <1>2, <2>9, <2>10, <2>12, <2>13, <2>14, OneThread
<1> QED BY <1>1, <1>2 DEF Cpu!HashOnce

LEMMA CpuNext == ASSUME Cpu!FieldSizes PROVE CpuInv /\ [Cpu!Next]_(Cpu!vars) => CpuInv'
<1> SUFFICES ASSUME CpuInv, [Cpu!Next]_(Cpu!vars) PROVE CpuInv' OBVIOUS
<1>1. CASE Cpu!Cancel
  <2>1. CpuTypes' BY <1>1 DEF CpuInv, CpuTypes, Cpu!Cancel
  <2>2. Cpu!FoundIsProof' BY Zenon, <1>1 DEF CpuInv, Cpu!FoundIsProof, Cpu!Cancel
  <2>3. ASSUME NEW t \in Threads PROVE CtxInv(th'[t]) /\ CountInv(th'[t], cpu_cancelled')
    BY Zenon, <1>1 DEF CpuInv, Cpu!Cancel, CountInv
  <2> QED BY Zenon, <1>1, <2>1, <2>2, <2>3 DEF CpuInv, Cpu!Cancel
<1>2. CASE Cpu!Tick
  <2>1. CpuTypes'
    <3>1. cpu_clock' \in 0 .. CpuMaxTime BY <1>2 DEF Cpu!FieldSizes, CpuInv, CpuTypes, Cpu!Tick
    <3> QED BY <1>2, <3>1 DEF CpuInv, CpuTypes, Cpu!Tick
  <2>2. Cpu!FoundIsProof' BY Zenon, <1>2 DEF CpuInv, Cpu!FoundIsProof, Cpu!Tick
  <2> QED BY Zenon, <1>2, <2>1, <2>2 DEF CpuInv, Cpu!Tick
<1>3. ASSUME NEW t \in Threads, Cpu!Stop(t) PROVE CpuInv'
  BY Zenon, <1>3, ReturnInv DEF Cpu!Stop
<1>4. ASSUME NEW t \in Threads, Cpu!Check(t) PROVE CpuInv' BY <1>4, CheckInv
<1>5. ASSUME NEW t \in Threads, Cpu!HashOnce(t) PROVE CpuInv' BY <1>5, HashInv
<1>6. CASE UNCHANGED Cpu!vars
  BY <1>6 DEF CpuInv, CpuTypes, Cpu!FoundIsProof, Cpu!vars
<1> QED BY <1>1, <1>2, <1>3, <1>4, <1>5, <1>6 DEF Cpu!Next, Cpu!Step

LEMMA CpuInvariance == ASSUME Cpu!FieldSizes PROVE Cpu!Spec => []CpuInv
  BY CpuInit, CpuNext, PTL DEF Cpu!Spec

-----------------------------------------------------------------------------
(* The CPU loop: theorems                                                  *)

\* What Miner::run returns is a proof of work of the returned body, whatever
\* carries, checks and renewals of expire happened on the way.
THEOREM FoundIsProofAlways ==
  ASSUME Cpu!FieldSizes PROVE Cpu!Spec => []Cpu!FoundIsProof
<1>1. CpuInv => Cpu!FoundIsProof BY DEF CpuInv
<1> QED BY <1>1, CpuInvariance, PTL

\* After a cancellation a thread computes at most one check period of hashes.
THEOREM StopsSoonAlways ==
  ASSUME Cpu!FieldSizes PROVE Cpu!Spec => []Cpu!StopsSoon
<1>1. CpuInv => Cpu!StopsSoon
  <2> SUFFICES ASSUME CpuInv, NEW t \in Threads PROVE th[t].late <= CheckPeriod
    BY DEF Cpu!StopsSoon
  <2>1. CheckPeriod \in Nat \ {0} /\ CpuIterations \in Nat BY DEF Cpu!FieldSizes
  <2>2. th[t] \in Cpu!ThreadState /\ CountInv(th[t], cpu_cancelled) BY DEF CpuInv, CpuTypes
  <2>3. th[t].i \in Nat /\ th[t].i0 \in Nat /\ th[t].late \in Nat
    BY <2>1, <2>2 DEF Cpu!ThreadState
  <2> DEFINE k == CheckPeriod * (th[t].i0 \div CheckPeriod)
  <2>4. k \in Int /\ k <= th[t].i0
    <3>1. th[t].i0 \div CheckPeriod \in Nat BY <2>1, <2>3, DivBounds
    <3> QED BY <2>1, <2>3, <3>1, DivBounds
  <2>5. th[t].i <= k + CheckPeriod /\ th[t].late <= th[t].i - th[t].i0
    BY <2>2 DEF CountInv, NextCheck
  <2> HIDE DEF k
  <2> QED BY <2>1, <2>3, <2>4, <2>5
<1> QED BY <1>1, CpuInvariance, PTL

\* Every step of the loop is a step or a stutter of the mining call's promise:
\* a run returns once, and only a proof of work or nothing.
THEOREM CpuStepsImplementMinerRun ==
  ASSUME Cpu!FieldSizes
  PROVE  Cpu!Spec => Cpu!Abstract!Init /\ [][Cpu!Abstract!Next]_(Cpu!Abstract!vars)
<1>1. Cpu!Init => Cpu!Abstract!Init
  BY DEF Cpu!Init, Cpu!Abstract!Init
<1>2. CpuInv /\ [Cpu!Next]_(Cpu!vars) => [Cpu!Abstract!Next]_(Cpu!Abstract!vars)
  <2> DEFINE Running == {t \in Threads : th[t].pc # "done"}
  <2> SUFFICES ASSUME CpuInv, [Cpu!Next]_(Cpu!vars)
               PROVE  Cpu!Abstract!Next \/ UNCHANGED Cpu!Abstract!vars
    OBVIOUS
  <2>1. ASSUME NEW t \in Threads, th[t].pc # "done", NEW r \in Cpu!Bodies \cup {CpuNone},
               r # CpuNone => Cpu!IsProof(r), Cpu!Return(t, r)
        PROVE  Cpu!Abstract!Next
    <3>1. t \in Running BY <2>1
    <3>2. Running' = Running \ {t} BY <2>1 DEF Cpu!Return, CpuInv, CpuTypes
    <3>3. r \in {x \in Cpu!Bodies : Cpu!IsProof(x)} \cup {CpuNone} BY <2>1
    <3>4. Cpu!Abstract!Return(t)
      BY Zenon, <2>1, <3>1, <3>2, <3>3 DEF Cpu!Abstract!Return, Cpu!Return
    <3> QED BY <3>4 DEF Cpu!Abstract!Next
  <2>2. CASE Cpu!Cancel
    BY <2>2 DEF Cpu!Cancel, Cpu!Abstract!Next, Cpu!Abstract!Cancel
  <2>3. CASE Cpu!Tick
    BY <2>3 DEF Cpu!Tick, Cpu!Abstract!vars
  <2>4. ASSUME NEW t \in Threads, Cpu!Stop(t) PROVE Cpu!Abstract!Next
    BY <2>4, <2>1 DEF Cpu!Stop
  <2>5. ASSUME NEW t \in Threads, Cpu!Check(t) PROVE Cpu!Abstract!Next \/ UNCHANGED Cpu!Abstract!vars
    <3>1. th \in [Threads -> Cpu!ThreadState] BY DEF CpuInv, CpuTypes
    <3>2. CASE th' = [th EXCEPT ![t].pc = "done", ![t].i0 = th[t].i]
      <4>1. t \in Running /\ Running' = Running \ {t}
        BY <2>5, <3>1, <3>2 DEF Cpu!Check, Cpu!ThreadState
      <4>2. cpu_result' = [cpu_result EXCEPT ![t] = CpuNone] BY <2>5 DEF Cpu!Check, CpuInv, CpuTypes
      <4> QED BY Zenon, <4>1, <4>2, <2>5 DEF Cpu!Check, Cpu!Abstract!Next, Cpu!Abstract!Return
    <3>3. CASE th'[t].pc = "hash" /\ \A u \in Threads \ {t} : th'[u] = th[u]
      <4>1. Running' = Running BY <2>5, <3>3 DEF Cpu!Check
      <4> QED BY <4>1, <2>5 DEF Cpu!Check, Cpu!Abstract!vars
    <3>4. ASSUME th' = [th EXCEPT ![t].pc = "hash", ![t].i0 = th[t].i,
                                  ![t].expire = cpu_clock + ExpireIn,
                                  ![t].guard = th[t].rdata1[GuardPos],
                                  ![t].shactx1 = [expire |-> cpu_clock + ExpireIn,
                                                  head |-> Cpu!head(th[t].rdata1)]]
          PROVE  th'[t].pc = "hash" /\ \A u \in Threads \ {t} : th'[u] = th[u]
      BY <3>1, <3>4 DEF Cpu!ThreadState
    <3> QED BY <2>5, <3>2, <3>3, <3>4 DEF Cpu!Check
  <2>6. ASSUME NEW t \in Threads, Cpu!HashOnce(t) PROVE Cpu!Abstract!Next \/ UNCHANGED Cpu!Abstract!vars
    <3>1. CASE Cpu!digest(t) < CpuComplexity /\ Cpu!Return(t, Cpu!body(t))
      BY Zenon, <2>1, <2>6, <3>1, FoundBody DEF Cpu!HashOnce
    <3>2. CASE ~ (Cpu!digest(t) < CpuComplexity /\ Cpu!Return(t, Cpu!body(t)))
      <4>1. th \in [Threads -> Cpu!ThreadState] BY DEF CpuInv, CpuTypes
      <4>2. Running' = Running BY <2>6, <3>2, <4>1 DEF Cpu!HashOnce, Cpu!ThreadState
      <4> QED BY <2>6, <3>2, <4>2 DEF Cpu!HashOnce, Cpu!Abstract!vars
    <3> QED BY <3>1, <3>2
  <2>7. CASE UNCHANGED Cpu!vars
    BY <2>7 DEF Cpu!vars, Cpu!Abstract!vars
  <2> QED BY <2>2, <2>3, <2>4, <2>5, <2>6, <2>7 DEF Cpu!Next, Cpu!Step
<1> QED BY <1>1, <1>2, CpuInvariance, PTL DEF Cpu!Spec

-----------------------------------------------------------------------------
(* The GPU loop: the number of work items                                  *)

FS == INSTANCE FiniteSetTheorems

\* The work items that have run are fewer than the iterations asked for and
\* one full launch more.
LEMMA FewTried == ASSUME Inv PROVE Cardinality(tried) < MaxIterations + FullThroughput
<1> DEFINE G == GpuThreads
           L == MaxIterations + FullThroughput
           c == (L - 1) \div G
<1>1. G \in Nat \ {0} /\ L \in Nat \ {0} BY GpuConstants
<1>2. tried \subseteq Vcpus \X Nat /\ \A x \in tried : G * (x[2] + 1) < L
  BY DEF Inv, Types, TypeOK, ScanInv
<1>3. Vcpus = 0 .. G - 1 BY DEF Vcpus
<1> HIDE DEF G, L
<1>4. c \in Nat /\ G * c <= L - 1 /\ L - 1 < G * c + G
  <2>1. L - 1 \in Nat BY <1>1
  <2> QED BY <1>1, <2>1, DivBounds
<1> HIDE DEF c
<1>5. tried \subseteq Vcpus \X (0 .. c - 1)
  <2> SUFFICES ASSUME NEW x \in tried PROVE x \in Vcpus \X (0 .. c - 1) OBVIOUS
  <2>1. x \in Vcpus \X Nat /\ x[2] \in Nat /\ G * (x[2] + 1) < L BY <1>2
  <2>2. x[2] + 1 <= c
    <3>1. x[2] + 1 \in Nat /\ c + 1 \in Nat BY <1>4, <2>1
    <3>2. CASE c + 1 <= x[2] + 1
      <4>1. G * (c + 1) <= G * (x[2] + 1) /\ G * (x[2] + 1) \in Nat BY <1>1, <3>1, <3>2, MulLess
      <4>2. G * (c + 1) = G * c + G /\ G * c \in Nat BY <1>1, <1>4
      <4> QED BY <1>1, <1>4, <2>1, <4>1, <4>2
    <3> QED BY <1>4, <2>1, <3>2
  <2>3. x[2] \in 0 .. c - 1 BY <1>4, <2>1, <2>2
  <2> QED BY <2>1, <2>3
<1>6. FS!IsFiniteSet(Vcpus) /\ FS!Cardinality(Vcpus) = G
  <2>1. G - 1 \in Int /\ 0 \in Int BY <1>1
  <2>2. FS!IsFiniteSet(0 .. G - 1) /\ FS!Cardinality(0 .. G - 1) = IF 0 > G - 1 THEN 0 ELSE (G - 1) - 0 + 1
    BY <2>1, FS!FS_Interval
  <2> QED BY <1>1, <1>3, <2>2
<1>7. FS!IsFiniteSet(0 .. c - 1) /\ FS!Cardinality(0 .. c - 1) = c
  <2>1. c - 1 \in Int /\ 0 \in Int BY <1>4
  <2>2. FS!IsFiniteSet(0 .. c - 1) /\ FS!Cardinality(0 .. c - 1) = IF 0 > c - 1 THEN 0 ELSE (c - 1) - 0 + 1
    BY <2>1, FS!FS_Interval
  <2> QED BY <1>4, <2>2
<1>8. FS!IsFiniteSet(Vcpus \X (0 .. c - 1)) /\ FS!Cardinality(Vcpus \X (0 .. c - 1)) = G * c
  BY Zenon, <1>6, <1>7, FS!FS_Product
<1>9. FS!Cardinality(tried) \in Nat /\ FS!Cardinality(tried) <= G * c
  <2>1. FS!IsFiniteSet(tried) /\ FS!Cardinality(tried) <= FS!Cardinality(Vcpus \X (0 .. c - 1))
    BY <1>5, <1>8, FS!FS_Subset
  <2>2. FS!Cardinality(tried) \in Nat BY <2>1, FS!FS_CardinalityType
  <2> QED BY <1>8, <2>1, <2>2
<1>10. G * c \in Nat BY <1>1, <1>4
<1>11. FS!Cardinality(tried) = Cardinality(tried) BY DEF FS!Cardinality, Cardinality
<1> QED BY <1>1, <1>4, <1>9, <1>10, <1>11 DEF L

\* No launch skips a nonce or loses a hit on a device that works, and the run
\* computes less than one full launch more than the iterations it was given.
THEOREM NothingMissedAlways == Spec => []NothingMissed
<1>1. Inv => NothingMissed
  <2> SUFFICES ASSUME Inv PROVE NothingMissed OBVIOUS
  <2>1. TypeOK /\ Cardinality(tried) < MaxIterations + FullThroughput
    BY FewTried DEF Inv, Types
  <2>2. ASSUME Clean, NEW item \in Vcpus \X (0 .. i \div GpuThreads - 1)
        PROVE  item \in tried /\ ~IsProof(host_body(item[1], item[2]))
    <3>1. item = <<item[1], item[2]>> /\ item[1] \in Vcpus /\ item[2] \in 0 .. Start - 1
      BY <2>2 DEF Start
    <3>2. <<item[1], item[2]>> \in tried /\ ~IsProof(kernel_body(item[1], item[2]))
      BY <2>2, <3>1 DEF Inv, MissInv
    <3> QED BY <3>1, <3>2 DEF kernel_body, host_body
  <2> QED BY <2>1, <2>2 DEF NothingMissed, Clean
<1> QED BY <1>1, Invariance, PTL
=============================================================================
