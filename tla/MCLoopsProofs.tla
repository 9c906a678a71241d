--------------------------- MODULE MCLoopsProofs ----------------------------
(***************************************************************************)
(* Theorems about the loops of the Hermite integrator, for parameters of   *)
(* any size: the loops that compute a block time step, for every number of *)
(* halvings of dt_max_ and every time that fits the word; the loops that   *)
(* edit index lists in place; the array in which new groups are collected. *)
(*                                                                         *)
(* A loop written as a fold is the last of a chain of lists or arrays, one *)
(* for each iteration; what an iteration keeps holds along the chain.      *)
(***************************************************************************)
EXTENDS MCLoops, IndexListProofs

-----------------------------------------------------------------------------
(* Arithmetic *)

\* A product of naturals bounds its factor if the other one is positive.
LEMMA FactorBelow ==
    ASSUME NEW q \in Nat, NEW d \in Nat \ {0}
    PROVE  q * d \in Nat /\ q <= q * d
<1>1. PICK e \in Nat : d = e + 1
  <2>1. d - 1 \in Nat /\ d = (d - 1) + 1
    OBVIOUS
  <2> QED
    BY <2>1
<1>2. q * d = q * e + q /\ q * e \in Nat
    BY <1>1
<1> QED
    BY <1>1, <1>2

\* Products with a positive factor have one other factor.
LEMMA Cancel ==
    ASSUME NEW a \in Nat, NEW b \in Nat, NEW d \in Nat \ {0}, a * d = b * d
    PROVE  a = b
<1>1. ASSUME NEW p \in Nat, NEW q \in Nat, p * d = q * d
      PROVE  ~(p < q)
  <2> SUFFICES ASSUME p < q PROVE FALSE
    OBVIOUS
  <2>1. PICK e \in Nat : q = p + 1 + e
    <3>1. q - (p + 1) \in Nat /\ q = p + 1 + (q - (p + 1))
      OBVIOUS
    <3> QED
      BY <3>1
  <2>2. q * d = p * d + d + e * d /\ e * d \in Nat /\ p * d \in Nat
    BY <2>1
  <2> QED
    BY <1>1, <2>2
<1>2. ~(a < b) /\ ~(b < a)
    BY <1>1
<1> QED
    BY <1>2

-----------------------------------------------------------------------------
(* The steps *)

LEMMA StepsPositive == \A d \in Steps : d \in Nat \ {0}
BY StepsAssumption

LEMMA LargestIsDtMax == DtMax \in Steps /\ \A d \in Steps : d <= DtMax
BY HalvingAssumption DEF DtMax

\* Of two different steps the larger is a multiple, at least the double.
LEMMA LargerIsDouble ==
    ASSUME NEW d \in Steps, NEW e \in Steps, d < e
    PROVE  2 * d <= e
<1>1. d \in Nat \ {0} /\ e \in Nat \ {0}
    BY StepsPositive
<1>2. PICK q \in 1..e : e = q * d
    BY <1>1, StepsAssumption
<1>3. q # 1
    BY <1>1, <1>2
<1>4. PICK r \in Nat : q = 2 + r
  <2>1. q - 2 \in Nat /\ q = 2 + (q - 2)
    BY <1>2, <1>3
  <2> QED
    BY <2>1
<1>5. e = 2 * d + r * d /\ r * d \in Nat
    BY <1>1, <1>2, <1>4
<1> QED
    BY <1>1, <1>5

\* Every step but the largest is half of another one.
LEMMA Doubled ==
    ASSUME NEW d \in Steps, d # DtMax
    PROVE  2 * d \in Steps
<1> DEFINE S == {e \in Steps : d < e}
<1>1. DtMax \in S /\ S \subseteq Nat
    BY LargestIsDtMax, StepsPositive
<1>2. PICK e \in S : \A x \in S : e <= x
    BY <1>1, LeastNat
<1>3. d \in Nat \ {0} /\ e \in Nat \ {0} /\ e # 1
    BY <1>2, StepsPositive
<1>4. e % 2 = 0 /\ e \div 2 \in Steps
    BY <1>2, <1>3, HalvingAssumption
<1>5. e = 2 * (e \div 2) /\ e \div 2 < e /\ e \div 2 \in Nat
    BY <1>3, <1>4
<1>6. ~(d < e \div 2)
    BY <1>2, <1>3, <1>4, <1>5
<1>7. 2 * d <= e
    BY <1>2, LargerIsDouble
<1>8. e = 2 * d
    BY <1>3, <1>5, <1>6, <1>7
<1> QED
    BY <1>2, <1>8

\* The step on whose grid t lies, with no larger one, is what calcNextDtLimit is to
\* compute.
LEMMA LimitUnique ==
    ASSUME NEW t \in Nat, NEW k \in StepsAt(t), \A d \in StepsAt(t) : d <= k
    PROVE  CalcNextDtLimit(t) = k
<1>1. \A d \in StepsAt(t) : d \in Nat
    BY StepsPositive DEF StepsAt
<1>2. CalcNextDtLimit(t) \in StepsAt(t) /\ \A d \in StepsAt(t) : d <= CalcNextDtLimit(t)
    BY DEF CalcNextDtLimit
<1> QED
    BY <1>1, <1>2

LEMMA OnGridOf ==
    ASSUME NEW t \in Nat, NEW q \in Nat, NEW d \in Nat \ {0}, t = q * d
    PROVE  Divides(d, t)
<1>1. q \in 0..t
    BY FactorBelow
<1> QED
    BY <1>1 DEF Divides

\* One of the steps whose grid holds a time is the largest.
LEMMA LargestExists ==
    ASSUME NEW t \in Nat
    PROVE  \E k \in StepsAt(t) : \A d \in StepsAt(t) : d <= k
<1> DEFINE Gaps == {DtMax - d : d \in StepsAt(t)}
<1>1. DtMax \in Nat /\ \A d \in StepsAt(t) : d \in Nat /\ d <= DtMax
    BY LargestIsDtMax, StepsPositive DEF StepsAt
<1>2. 1 \in StepsAt(t)
    BY OnGridOf, HalvingAssumption DEF StepsAt
<1>3. Gaps \subseteq Nat /\ Gaps # {}
    BY <1>1, <1>2
<1>4. PICK m \in Gaps : \A x \in Gaps : m <= x
    BY <1>3, LeastNat
<1>5. PICK k \in StepsAt(t) : m = DtMax - k
    BY <1>4
<1>6. ASSUME NEW d \in StepsAt(t) PROVE d <= k
  <2>1. m <= DtMax - d
    BY <1>4
  <2> QED
    BY <1>1, <1>5, <2>1
<1> QED
    BY <1>6

-----------------------------------------------------------------------------
(* The loops *)

\* What the bit loop has shifted out: c is a step, or a multiple of the largest.
Shifted ==
    /\ c \in Nat \ {0} /\ bitmap \in Nat \ {0} /\ time = bitmap * c
    /\ c \in Steps \/ (DtMax < c /\ \E q \in Nat : c = q * DtMax)

\* The steps that the halving loop has passed are too long.
Halved ==
    /\ dt \in StepsAt(time) \/ dt = 0
    /\ \A d \in StepsAt(time) : d > dt => d > dtRef

BlockInv ==
    /\ part = "block" => /\ time \in 0..TimeMax /\ dtRef \in Nat
                         /\ blockPc \in {"bits", "limit", "halve", "return", "abort"}
    /\ part # "block" => blockPc = "idle"
    /\ blockPc = "bits" => time # 0 /\ Shifted
    /\ blockPc = "limit" => time = 0 \/ (Shifted /\ bitmap % 2 # 0)
    /\ blockPc = "halve" => limit = CalcNextDtLimit(time) /\ Halved
    /\ blockPc = "return" => dt \in StepsAt(time) /\ dt <= dtRef /\ Halved
    /\ blockPc = "abort" => dt = 0 /\ Halved

\* One shift of the bit loop: nothing is lost at the end of the word.
LEMMA ShiftKeeps ==
    ASSUME time \in 0..TimeMax, Shifted, bitmap % 2 = 0,
           bitmap' = bitmap \div 2, c' = (c * 2) % Word, time' = time
    PROVE  Shifted'
<1> USE DEF Shifted
<1> DEFINE b == bitmap \div 2
<1>1. b \in Nat \ {0} /\ bitmap = 2 * b
  <2>1. bitmap \in Nat \ {0} /\ bitmap % 2 = 0
    OBVIOUS
  <2> QED
    BY <2>1
<1>2. time = b * (2 * c)
    BY <1>1
<1>3. 2 * c \in Nat \ {0} /\ 2 * c <= time
  <2>1. 2 * c \in Nat \ {0} /\ b \in Nat \ {0}
    BY <1>1
  <2>2. (2 * c) * b \in Nat /\ 2 * c <= (2 * c) * b
    BY <2>1, FactorBelow
  <2>3. (2 * c) * b = b * (2 * c)
    BY <2>1
  <2> QED
    BY <1>2, <2>1, <2>2, <2>3
<1>4. 2 * c < Word
    BY <1>3, LoopAssumption
<1>5. c' = 2 * c
  <2>1. c * 2 = 2 * c /\ c * 2 \in 0..Word - 1
    BY <1>3, <1>4, LoopAssumption
  <2> HIDE DEF Shifted
  <2>2. \A x \in 0..Word - 1 : x % Word = x
    BY LoopAssumption
  <2> QED
    BY <2>1, <2>2
<1>6. 2 * c \in Steps \/ (DtMax < 2 * c /\ \E q \in Nat : 2 * c = q * DtMax)
  <2>1. CASE c \in Steps /\ c # DtMax
    BY <2>1, Doubled
  <2>2. CASE c = DtMax
    BY <2>2
  <2>3. CASE DtMax < c /\ \E q \in Nat : c = q * DtMax
    <3>1. PICK q \in Nat : c = q * DtMax
      BY <2>3
    <3>2. DtMax \in Nat \ {0}
      BY LargestIsDtMax, StepsPositive
    <3>3. 2 * c = (2 * q) * DtMax /\ DtMax < 2 * c /\ 2 * q \in Nat
      BY <2>3, <3>1, <3>2
    <3> QED
      BY <3>3
  <2> QED
    BY <2>1, <2>2, <2>3
<1> QED
    BY <1>1, <1>2, <1>3, <1>5, <1>6

\* When the lowest bit is set, no step above c holds the time on its grid.
LEMMA NoneAbove ==
    ASSUME time \in Nat, Shifted, bitmap % 2 # 0, c \in Steps
    PROVE  \A d \in StepsAt(time) : d <= c
<1> SUFFICES ASSUME NEW d \in Steps, Divides(d, time), ~(d <= c) PROVE FALSE
    BY DEF StepsAt
<1>1. c \in Nat \ {0} /\ d \in Nat \ {0} /\ c < d
    BY StepsPositive
<1>2. c # DtMax
    BY <1>1, LargestIsDtMax, StepsPositive
<1>3. 2 * c \in Steps /\ 2 * c <= d
    BY <1>1, <1>2, Doubled, LargerIsDouble
<1>4. PICK q \in 1..d : d = q * (2 * c)
    BY <1>3, StepsAssumption
<1>5. PICK r \in 0..time : time = r * d
    BY DEF Divides
<1>6. time = (2 * (r * q)) * c /\ r * q \in Nat
  <2>1. r \in Nat /\ q \in Nat
    BY <1>4, <1>5
  <2>2. r * (q * (2 * c)) = (2 * (r * q)) * c
    BY <1>1, <2>1
  <2> QED
    BY <1>4, <1>5, <2>1, <2>2
<1>7. bitmap \in Nat /\ bitmap * c = (2 * (r * q)) * c
    BY <1>6 DEF Shifted
<1>8. bitmap = 2 * (r * q)
    BY <1>1, <1>6, <1>7, Cancel
<1> QED
    BY <1>6, <1>8

\* The result of the bit loop, capped.
LEMMA LimitFound ==
    ASSUME time \in Nat, time = 0 \/ (Shifted /\ bitmap % 2 # 0)
    PROVE  Block!Capped(time, c) = CalcNextDtLimit(time)
<1>1. DtMax \in Steps /\ DtMax \in Nat \ {0} /\ \A d \in StepsAt(time) : d <= DtMax
    BY LargestIsDtMax, StepsPositive DEF StepsAt
<1>2. CASE time = 0
  <2>1. Divides(DtMax, 0)
    BY <1>1, OnGridOf
  <2>2. DtMax \in StepsAt(time)
    BY <1>1, <1>2, <2>1 DEF StepsAt
  <2> QED
    BY <1>1, <1>2, <2>2, LimitUnique DEF Block!Capped, Block!DtMax, DtMax
<1>3. CASE time # 0 /\ c \in Steps
  <2>1. c \in Nat \ {0} /\ Divides(c, time)
    BY <1>3, OnGridOf, StepsPositive DEF Shifted
  <2>2. c \in StepsAt(time)
    BY <1>3, <2>1 DEF StepsAt
  <2>3. CalcNextDtLimit(time) = c
    BY <1>3, <2>2, NoneAbove, LimitUnique
  <2>4. ~(c > DtMax)
    BY <1>1, <1>3, <2>1, LargestIsDtMax
  <2> QED
    BY <1>3, <2>3, <2>4 DEF Block!Capped, Block!DtMax, DtMax
<1>4. CASE time # 0 /\ c \notin Steps
  <2>1. PICK q \in Nat : c = q * DtMax
    BY <1>4 DEF Shifted
  <2>2. DtMax < c /\ c \in Nat /\ time = bitmap * c /\ bitmap \in Nat
    BY <1>4 DEF Shifted
  <2>3. time = (bitmap * q) * DtMax /\ bitmap * q \in Nat
    BY <1>1, <2>1, <2>2
  <2>4. Divides(DtMax, time)
    BY <1>1, <2>3, OnGridOf
  <2>5. CalcNextDtLimit(time) = DtMax
    BY <1>1, <2>4, LimitUnique DEF StepsAt
  <2> QED
    BY <1>1, <1>4, <2>2, <2>5 DEF Block!Capped, Block!DtMax, DtMax
<1> QED
    BY <1>2, <1>3, <1>4

\* One halving passes one step.
LEMMA HalveKeeps ==
    ASSUME time \in Nat, dtRef \in Nat, Halved, dt > dtRef,
           dt' = dt \div 2, UNCHANGED <<time, dtRef>>
    PROVE  Halved'
<1>1. dt \in StepsAt(time) /\ dt \in Nat \ {0}
    BY StepsPositive DEF Halved, StepsAt
<1>2. CASE dt = 1
  <2>1. dt' = 0
    BY <1>2
  <2>2. \A d \in StepsAt(time) : d > 0 => d > dtRef
    BY <1>1, <1>2, StepsPositive DEF Halved, StepsAt
  <2> QED
    BY <2>1, <2>2 DEF Halved, StepsAt
<1>3. CASE dt # 1
  <2> DEFINE h == dt \div 2
  <2>1. h \in Steps /\ dt % 2 = 0 /\ dt \in Steps
    BY <1>1, <1>3, HalvingAssumption DEF StepsAt
  <2>2. h \in Nat \ {0} /\ dt = 2 * h
    BY <1>1, <2>1, StepsPositive
  <2>3. PICK q \in 0..time : time = q * dt
    BY <1>1 DEF StepsAt, Divides
  <2>4. time = (2 * q) * h /\ 2 * q \in Nat
    BY <2>2, <2>3
  <2>5. h \in StepsAt(time)
    BY <2>1, <2>2, <2>4, OnGridOf DEF StepsAt
  <2>6. \A d \in StepsAt(time) : d > h => d > dtRef
    <3> SUFFICES ASSUME NEW d \in StepsAt(time), d > h PROVE d > dtRef
      OBVIOUS
    <3>1. d \in Steps /\ d \in Nat
      BY StepsPositive DEF StepsAt
    <3>2. 2 * h <= d
      BY <2>1, <2>2, <3>1, LargerIsDouble
    <3> QED
      BY <2>2, <3>1, <3>2 DEF Halved
  <2> QED
    BY <2>5, <2>6 DEF Halved, StepsAt
<1> QED
    BY <1>2, <1>3

LEMMA BlockInit == PartsInit => BlockInv
<1> SUFFICES ASSUME PartsInit PROVE BlockInv
    OBVIOUS
<1>1. CASE part # "block"
    BY <1>1 DEF PartsInit, NoBlock, BlockInv
<1>2. CASE part = "block"
  <2>1. /\ time \in 0..TimeMax /\ blockPc = (IF time = 0 THEN "limit" ELSE "bits")
        /\ bitmap = time /\ c = 1 /\ dtRef \in 0..2 * DtMax
    BY <1>2 DEF PartsInit, Block!Init, Block!FirstCall, Block!DtMax, DtMax
  <2>2. dtRef \in Nat
    BY <2>1, LargestIsDtMax, StepsPositive
  <2>3. time # 0 => Shifted
    BY <2>1, HalvingAssumption DEF Shifted
  <2> QED
    BY <1>2, <2>1, <2>2, <2>3 DEF BlockInv
<1> QED
    BY <1>1, <1>2

LEMMA BlockNext == BlockInv /\ [PartsNext]_parts => BlockInv'
<1> SUFFICES ASSUME BlockInv, [PartsNext]_parts PROVE BlockInv'
    OBVIOUS
<1>1. CASE UNCHANGED <<part, block>>
    BY <1>1 DEF block, BlockInv, Shifted, Halved
<1>2. CASE part = "block" /\ part' = part /\ BlockTurn
  <2>0. time \in 0..TimeMax /\ time \in Nat /\ dtRef \in Nat
    BY <1>2, LoopAssumption DEF BlockInv
  <2>1. CASE Block!ShiftBit
    <3>1. /\ blockPc = "bits" /\ time # 0 /\ Shifted /\ UNCHANGED <<time, dtRef>>
      BY <2>1 DEF Block!ShiftBit, BlockInv
    <3>2. CASE bitmap % 2 = 0
      <4>1. bitmap' = bitmap \div 2 /\ c' = (c * 2) % Word /\ blockPc' = "bits"
        BY <2>1, <3>1, <3>2 DEF Block!ShiftBit
      <4>2. Shifted'
        BY <2>0, <3>1, <3>2, <4>1, ShiftKeeps
      <4> QED
        BY <1>2, <2>0, <3>1, <4>1, <4>2 DEF BlockInv
    <3>3. CASE bitmap % 2 # 0
      <4>1. UNCHANGED <<bitmap, c>> /\ blockPc' = "limit"
        BY <2>1, <3>3 DEF Block!ShiftBit
      <4> QED
        BY <1>2, <2>0, <3>1, <3>3, <4>1 DEF BlockInv, Shifted
    <3> QED
      BY <3>2, <3>3
  <2>2. CASE Block!ReturnLimit
    <3>1. /\ blockPc = "limit" /\ blockPc' = "halve" /\ UNCHANGED <<time, dtRef>>
          /\ limit' = Block!Capped(time, c) /\ dt' = limit'
          /\ time = 0 \/ (Shifted /\ bitmap % 2 # 0)
      BY <2>2 DEF Block!ReturnLimit, BlockInv
    <3>2. limit' = CalcNextDtLimit(time)
      BY <2>0, <3>1, LimitFound
    <3>3. dt' \in StepsAt(time) /\ \A d \in StepsAt(time) : d <= dt'
      <4>1. \E k \in StepsAt(time) : \A d \in StepsAt(time) : d <= k
        BY <2>0, LargestExists
      <4> QED
        BY <3>1, <3>2, <4>1 DEF CalcNextDtLimit
    <3>4. \A d \in StepsAt(time) : d \in Nat
      BY StepsPositive DEF StepsAt
    <3>5. Halved'
      BY <3>1, <3>3, <3>4 DEF Halved, StepsAt
    <3>6. CalcNextDtLimit(time)' = CalcNextDtLimit(time)
      BY <3>1 DEF CalcNextDtLimit
    <3> QED
      BY <1>2, <2>0, <3>1, <3>2, <3>5, <3>6 DEF BlockInv
  <2>3. CASE Block!Halve
    <3>1. /\ blockPc = "halve" /\ Halved /\ UNCHANGED <<time, dtRef, limit>>
          /\ limit = CalcNextDtLimit(time)
      BY <2>3 DEF Block!Halve, BlockInv
    <3>2. dt \in Nat
      BY <3>1, StepsPositive DEF Halved, StepsAt
    <3>3. CASE dt > dtRef
      <4>1. dt' = dt \div 2 /\ blockPc' = "halve"
        BY <2>3, <3>1, <3>3 DEF Block!Halve, Block!Longer
      <4>2. Halved'
        BY <2>0, <3>1, <3>3, <4>1, HalveKeeps
      <4>3. CalcNextDtLimit(time)' = CalcNextDtLimit(time)
        BY <3>1 DEF CalcNextDtLimit
      <4> QED
        BY <1>2, <2>0, <3>1, <4>1, <4>2, <4>3 DEF BlockInv
    <3>4. CASE ~(dt > dtRef)
      <4>1. dt' = dt /\ blockPc' = IF dt < 1 THEN "abort" ELSE "return"
        BY <2>3, <3>4 DEF Block!Halve, Block!Longer
      <4>2. Halved'
        BY <3>1, <4>1 DEF Halved, StepsAt
      <4>3. blockPc' = "abort" => dt' = 0
        BY <3>2, <4>1
      <4>4. blockPc' = "return" => dt' \in StepsAt(time') /\ dt' <= dtRef'
        BY <2>0, <3>1, <3>2, <3>4, <4>1 DEF Halved
      <4> QED
        BY <1>2, <2>0, <3>1, <4>1, <4>2, <4>3, <4>4 DEF BlockInv, StepsAt
    <3> QED
      BY <3>3, <3>4
  <2>4. CASE Block!Return
    BY <1>1, <1>2, <2>4 DEF Block!Return, Block!vars, block
  <2> QED
    BY <1>2, <2>1, <2>2, <2>3, <2>4 DEF BlockTurn, Block!Next
<1>3. part' = part /\ (UNCHANGED <<part, block>> \/ (part = "block" /\ BlockTurn))
    BY DEF PartsNext, parts, ScheduleTurn, BlockTurn, ListsTurn, ArrayTurn
<1> QED
    BY <1>1, <1>2, <1>3

\* For every time the bit loop returns the largest step on whose grid the time lies,
\* and the halving loop the largest of those that is no longer than dt_ref, aborting
\* exactly when there is none (calcNextDtLimit, calcBlockDt2nd, calcBlockDt4th).
THEOREM LargestStepFound == PartsSpec => []LargestStep
<1>1. BlockInv => LargestStep
  <2> SUFFICES ASSUME BlockInv PROVE LargestStep
    OBVIOUS
  <2>1. Block!CalcNextDtLimit(time) = CalcNextDtLimit(time)
    BY DEF Block!CalcNextDtLimit, CalcNextDtLimit, Block!StepsAt, StepsAt, Block!Divides, Divides
  <2>2. Block!StepsAt(time) = StepsAt(time)
    BY DEF Block!StepsAt, StepsAt, Block!Divides, Divides
  <2>3. Block!LimitIsLargest
    BY <2>1 DEF BlockInv, Block!LimitIsLargest
  <2>4. Block!LargestAllowed
    <3>1. \A d \in StepsAt(time) : d \in Nat \ {0}
      BY StepsPositive DEF StepsAt
    <3>2. blockPc \in {"return", "abort"} => dtRef \in Nat
      BY DEF BlockInv
    <3>3. ASSUME blockPc = "return"
          PROVE  /\ dt \in StepsAt(time) /\ dt <= dtRef
                 /\ \A d \in StepsAt(time) : d <= dtRef => d <= dt
      BY <3>1, <3>2, <3>3 DEF BlockInv, Halved
    <3>4. ASSUME blockPc = "abort"
          PROVE  \A d \in StepsAt(time) : ~(d <= dtRef)
      BY <3>1, <3>2, <3>4 DEF BlockInv, Halved
    <3> QED
      BY <2>2, <3>3, <3>4 DEF Block!LargestAllowed
  <2> QED
    BY <2>3, <2>4 DEF LargestStep
<1> QED
    BY <1>1, BlockInit, BlockNext, PTL DEF PartsSpec

-----------------------------------------------------------------------------
(* The greatest element of a set of numbers *)

LEMMA Greatest ==
    ASSUME NEW k \in Nat, NEW s \in SUBSET (1..k), s # {}
    PROVE  Max(s) \in s /\ (k > 0 => s \ {Max(s)} \in SUBSET (1..k - 1))
<1> DEFINE U == {i \in Nat : \A x \in s : x <= i}
<1>1. k \in U /\ U \subseteq Nat
    OBVIOUS
<1>2. PICK m \in U : \A i \in U : m <= i
    BY <1>1, LeastNat
<1>3. m \in s
  <2> SUFFICES ASSUME m \notin s PROVE FALSE
    OBVIOUS
  <2>1. PICK y \in s : TRUE
    OBVIOUS
  <2>2. \A x \in s : x <= m - 1 /\ x \in 1..k
    BY <1>2
  <2>3. m - 1 \in U
    BY <1>2, <2>1, <2>2
  <2> QED
    BY <1>2, <2>3
<1>4. Max(s) \in s /\ \A x \in s : x <= Max(s)
    BY <1>2, <1>3 DEF Max
<1>5. ASSUME NEW x \in s \ {Max(s)} PROVE x \in 1..k - 1
  <2> DEFINE M == Max(s)
  <2>1. x \in 1..k /\ M \in 1..k /\ x <= M /\ x # M
    BY <1>4
  <2> HIDE DEF M
  <2> QED
    BY <2>1
<1> QED
    BY <1>4, <1>5

LEMMA GreatestUpTo ==
    ASSUME NEW k \in Nat \ {0}
    PROVE  Max(1..k) = k /\ (1..k) \ {k} = 1..k - 1
<1>1. k \in 1..k /\ \A x \in 1..k : x <= k
    OBVIOUS
<1>2. \A y \in 1..k : (\A x \in 1..k : x <= y) => y = k
    OBVIOUS
<1> QED
    BY <1>1, <1>2 DEF Max


\* What holds at 0 and is kept by each step holds up to n.
LEMMA Upwards ==
    ASSUME NEW n \in Nat, NEW S, 0 \in S, \A k \in 1..n : k - 1 \in S => k \in S
    PROVE  \A k \in 0..n : k \in S
<1> DEFINE Bad == (0..n) \ S
<1> SUFFICES ASSUME Bad # {} PROVE FALSE
    OBVIOUS
<1>1. Bad \subseteq Nat
    OBVIOUS
<1>2. PICK k \in Bad : \A i \in Bad : k <= i
  <2> HIDE DEF Bad
  <2> QED
    BY <1>1, LeastNat
<1>3. k \in 1..n /\ k - 1 \in 0..n /\ ~(k <= k - 1)
    BY <1>2
<1>4. k - 1 \in S
    BY <1>2, <1>3
<1> QED
    BY <1>2, <1>3, <1>4

\* The recursive function by which FoldLeft is defined exists.
FoldsBy(g, n, base, F) ==
    g = [s \in SUBSET (1..n) |-> IF s = {} THEN base ELSE F[Max(s)][g[s \ {Max(s)}]]]

LEMMA FoldExists ==
    ASSUME NEW n \in Nat, NEW B, NEW base \in B, NEW F \in [1..n -> [B -> B]]
    PROVE  \E g : FoldsBy(g, n, base, F) /\ \A s \in SUBSET (1..n) : g[s] \in B
<1> DEFINE Good(k) == \E g : FoldsBy(g, k, base, F) /\ \A s \in SUBSET (1..k) : g[s] \in B
           S == {k \in 0..n : Good(k)}
<1>1. \A k \in 1..n : \A b \in B : F[k][b] \in B
    OBVIOUS
<1>2. 0 \in S
  <2> DEFINE g == [s \in SUBSET (1..0) |-> base]
  <2>1. \A s \in SUBSET (1..0) : s = {}
    OBVIOUS
  <2>2. FoldsBy(g, 0, base, F) /\ \A s \in SUBSET (1..0) : g[s] \in B
    BY <2>1 DEF FoldsBy
  <2> HIDE DEF g
  <2>3. Good(0)
    BY <2>2
  <2> QED
    BY <2>3
<1>3. ASSUME NEW k \in 1..n, k - 1 \in S PROVE k \in S
  <2>1. PICK g : FoldsBy(g, k - 1, base, F) /\ \A s \in SUBSET (1..k - 1) : g[s] \in B
    BY <1>3
  <2> DEFINE h == [s \in SUBSET (1..k) |-> IF s = {} THEN base ELSE F[Max(s)][g[s \ {Max(s)}]]]
  <2>2. ASSUME NEW s \in SUBSET (1..k), s # {}
        PROVE  Max(s) \in s /\ Max(s) \in 1..n /\ s \ {Max(s)} \in SUBSET (1..k - 1)
    <3>1. k \in Nat /\ k > 0 /\ k <= n
      OBVIOUS
    <3>2. Max(s) \in s /\ s \ {Max(s)} \in SUBSET (1..k - 1)
      BY <2>2, <3>1, Greatest
    <3>3. Max(s) \in 1..k
      BY <3>2
    <3> QED
      BY <3>1, <3>2, <3>3
  <2>3. \A t \in SUBSET (1..k - 1) : t \in SUBSET (1..k) /\ h[t] = g[t]
    <3> SUFFICES ASSUME NEW t \in SUBSET (1..k - 1)
                 PROVE  t \in SUBSET (1..k) /\ h[t] = g[t]
      OBVIOUS
    <3>1. t \in SUBSET (1..k)
      OBVIOUS
    <3>2. g[t] = IF t = {} THEN base ELSE F[Max(t)][g[t \ {Max(t)}]]
      BY <2>1 DEF FoldsBy
    <3> QED
      BY <3>1, <3>2
  <2>4. ASSUME NEW s \in SUBSET (1..k)
        PROVE  h[s] = (IF s = {} THEN base ELSE F[Max(s)][h[s \ {Max(s)}]]) /\ h[s] \in B
    <3>1. CASE s = {}
      BY <3>1
    <3>2. CASE s # {}
      <4>1. s \ {Max(s)} \in SUBSET (1..k - 1) /\ Max(s) \in 1..n
        BY <2>2, <3>2
      <4>2. h[s \ {Max(s)}] = g[s \ {Max(s)}] /\ g[s \ {Max(s)}] \in B
        BY <2>1, <2>3, <4>1
      <4>3. h[s] = F[Max(s)][g[s \ {Max(s)}]]
        BY <3>2
      <4> QED
        BY <1>1, <3>2, <4>1, <4>2, <4>3
    <3> QED
      BY <3>1, <3>2
  <2>5. h = [s \in SUBSET (1..k) |-> h[s]]
    OBVIOUS
  <2> HIDE DEF h
  <2>6. FoldsBy(h, k, base, F)
    BY <2>4, <2>5 DEF FoldsBy
  <2>7. Good(k)
    BY <2>4, <2>6
  <2> QED
    BY <2>7
<1>4. \A k \in 0..n : k \in S
  <2> HIDE DEF S
  <2> QED
    BY <1>2, <1>3, Upwards
<1>5. n \in 0..n
    OBVIOUS
<1>6. Good(n)
    BY <1>4, <1>5
<1> QED
    BY <1>6

-----------------------------------------------------------------------------
(* The loops over index lists *)

\* The shift entry by entry: what the list is after each iteration.
ShiftSteps(C, l, lo, hi, by) ==
    /\ C[0] = l
    /\ \A k \in 1..hi - lo :
          C[k] = Lists!Put(C[k - 1], hi + 1 - k, Lists!At(C[k - 1], hi + 1 - k - by))
    /\ C[hi - lo] = Lists!ShiftRight(l, lo, hi, by)

LEMMA ShiftChain ==
    ASSUME NEW L, NEW X, NEW l \in [L -> X], NEW lo \in Nat, NEW hi \in Nat, lo <= hi, NEW by \in Nat,
           \A m \in [L -> X], j \in lo + 1..hi : Lists!Put(m, j, Lists!At(m, j - by)) \in [L -> X]
    PROVE  \E C : ShiftSteps(C, l, lo, hi, by)
<1> DEFINE n == hi - lo
           B == [L -> X]
           j == [q \in 1..n |-> hi + 1 - q]
           Op(x, m) == Lists!Put(m, j[x], Lists!At(m, j[x] - by))
           F == [k \in 1..n |-> [m \in B |-> Op(k, m)]]
           Solves(g) == g = [s \in SUBSET (1..n) |->
                               IF s = {} THEN l ELSE Op(Lists!Max(s), g[s \ {Lists!Max(s)}])]
           iter == CHOOSE g : Solves(g)
<1>1. n \in Nat /\ \A k \in 1..n : j[k] = hi + 1 - k /\ j[k] \in lo + 1..hi
    OBVIOUS
<1>2. Lists!ShiftRight(l, lo, hi, by) = iter[1..n]
  <2>1. DOMAIN j = 1..n
    OBVIOUS
  <2> QED
    BY <2>1, Zenon DEF Lists!ShiftRight, Lists!FoldLeft, Lists!MapThenFoldSet
<1>3. \A k \in 1..n : Op(k, iter[1..k - 1]) =
         Lists!Put(iter[1..k - 1], hi + 1 - k, Lists!At(iter[1..k - 1], hi + 1 - k - by))
    BY <1>1
<1>4. F \in [1..n -> [B -> B]] /\ \A k \in 1..n, m \in B : F[k][m] = Op(k, m)
    BY <1>1
<1>5. \A s : Lists!Max(s) = Max(s)
    BY DEF Lists!Max, Max
<1> HIDE DEF Op, j, F, B, n, Solves
<1>6. l \in B
    BY DEF B
<1>7. PICK g : FoldsBy(g, n, l, F) /\ \A s \in SUBSET (1..n) : g[s] \in B
    BY <1>1, <1>4, <1>6, FoldExists
<1>8. Solves(g)
  <2>1. ASSUME NEW s \in SUBSET (1..n), s # {}
        PROVE  F[Max(s)][g[s \ {Max(s)}]] = Op(Lists!Max(s), g[s \ {Lists!Max(s)}])
    <3>1. Max(s) \in 1..n /\ s \ {Max(s)} \in SUBSET (1..n)
      BY <1>1, <2>1, Greatest
    <3>2. g[s \ {Max(s)}] \in B
      BY <1>7, <3>1
    <3> QED
      BY <1>4, <1>5, <3>1, <3>2
  <2> QED
    BY <1>7, <2>1 DEF Solves, FoldsBy
<1>9. Solves(iter)
    BY <1>8
<1> HIDE DEF iter
<1>10. iter[1..0] = l
  <2>1. (1..0) = {} /\ {} \in SUBSET (1..n)
    OBVIOUS
  <2> QED
    BY <1>9, <2>1 DEF Solves
<1>11. \A k \in 1..n : iter[1..k] = Op(k, iter[1..k - 1])
  <2> SUFFICES ASSUME NEW k \in 1..n PROVE iter[1..k] = Op(k, iter[1..k - 1])
    OBVIOUS
  <2>0. k \in Nat \ {0} /\ k <= n /\ n \in Nat
    BY <1>1
  <2>1. (1..k) \in SUBSET (1..n) /\ 1..k # {}
    <3>1. \A i \in 1..k : i \in 1..n
      BY <2>0
    <3>2. k \in 1..k
      BY <2>0
    <3> QED
      BY <3>1, <3>2
  <2>2. Max(1..k) = k /\ (1..k) \ {k} = 1..k - 1
    BY <2>0, GreatestUpTo
  <2> QED
    BY <1>5, <1>9, <2>1, <2>2 DEF Solves
<1> DEFINE C == [k \in 0..n |-> iter[1..k]]
<1>12. /\ C[0] = l
       /\ \A k \in 1..n : C[k] = iter[1..k] /\ C[k - 1] = iter[1..k - 1]
       /\ C[n] = iter[1..n]
    BY <1>1, <1>10
<1> HIDE DEF C
<1>13. ShiftSteps(C, l, lo, hi, by)
    BY <1>2, <1>3, <1>11, <1>12 DEF ShiftSteps, n
<1> QED
    BY <1>13
Slid(l, L, lo, hi, by) ==
    [p \in 1..L |-> IF p \in lo + 2..hi + 1 THEN l[p - by] ELSE l[p]]

\* The arguments a shift is called with: the entries lo..hi of l, from zero, move
\* right by some places, within the list.
Slides(L, l, lo, hi, by) ==
    /\ L \in Nat /\ l \in [1..L -> 1..L]
    /\ lo \in Nat /\ hi \in Nat /\ lo <= hi /\ hi < L
    /\ by \in Nat \ {0} /\ by <= lo + 1

\* A shift moves the entries between lo and hi by some places and nothing else:
\* an entry is read before it is overwritten.
LEMMA ShiftProps ==
    \A L, l, lo, hi, by :
        Slides(L, l, lo, hi, by) =>
            /\ Lists!ShiftRight(l, lo, hi, by) \in [1..L -> 1..L]
            /\ Lists!ShiftRight(l, lo, hi, by) = Slid(l, L, lo, hi, by)
<1> SUFFICES ASSUME NEW L, NEW l, NEW lo, NEW hi, NEW by, Slides(L, l, lo, hi, by)
             PROVE  /\ Lists!ShiftRight(l, lo, hi, by) \in [1..L -> 1..L]
                    /\ Lists!ShiftRight(l, lo, hi, by) = Slid(l, L, lo, hi, by)
    OBVIOUS
<1>0. /\ L \in Nat /\ l \in [1..L -> 1..L]
      /\ lo \in Nat /\ hi \in Nat /\ lo <= hi /\ hi < L
      /\ by \in Nat \ {0} /\ by <= lo + 1
    BY DEF Slides
<1> USE <1>0
<1> DEFINE n == hi - lo
           After(m, k) == /\ m \in [1..L -> 1..L]
                          /\ \A p \in 1..L : m[p] = IF p \in hi + 2 - k..hi + 1 THEN l[p - by] ELSE l[p]
<1>1. n \in Nat
    OBVIOUS
<1>2. PICK C : ShiftSteps(C, l, lo, hi, by)
  <2>1. \A m \in [1..L -> 1..L], j \in lo + 1..hi :
           Lists!Put(m, j, Lists!At(m, j - by)) \in [1..L -> 1..L]
    <3> TAKE m \in [1..L -> 1..L], j \in lo + 1..hi
    <3>1. j - by + 1 \in 1..L /\ j + 1 \in 1..L
      OBVIOUS
    <3>2. m[j - by + 1] \in 1..L
      BY <3>1
    <3> QED
      BY <3>1, <3>2 DEF Lists!Put, Lists!At
  <2> QED
    BY <2>1, ShiftChain
<1>3. After(C[0], 0)
    BY <1>2 DEF ShiftSteps
<1>4. ASSUME NEW k \in 1..n, After(C[k - 1], k - 1) PROVE After(C[k], k)
  <2> DEFINE m == C[k - 1]
             w == hi + 2 - k
  <2>1. w \in 1..L /\ w - by \in 1..L /\ w - by < w /\ w \in Nat
    OBVIOUS
  <2>2. C[k] = [m EXCEPT ![w] = m[w - by]]
    <3>1. hi + 1 - k + 1 = w /\ hi + 1 - k - by + 1 = w - by
      OBVIOUS
    <3> QED
      BY <1>2, <3>1 DEF ShiftSteps, Lists!Put, Lists!At
  <2>3. m \in [1..L -> 1..L] /\ m[w - by] = l[w - by]
    <3>1. w - by \notin hi + 2 - (k - 1)..hi + 1
      OBVIOUS
    <3> QED
      BY <1>4, <2>1, <3>1
  <2>4. C[k] \in [1..L -> 1..L]
    BY <2>1, <2>2, <2>3
  <2>5. ASSUME NEW p \in 1..L
        PROVE  C[k][p] = IF p \in w..hi + 1 THEN l[p - by] ELSE l[p]
    <3>1. C[k][p] = IF p = w THEN l[w - by] ELSE m[p]
      BY <2>2, <2>3
    <3>2. m[p] = IF p \in hi + 2 - (k - 1)..hi + 1 THEN l[p - by] ELSE l[p]
      BY <1>4
    <3>3. /\ p = w => p \in w..hi + 1
          /\ p # w => (p \in w..hi + 1 <=> p \in hi + 2 - (k - 1)..hi + 1)
      OBVIOUS
    <3> HIDE DEF m, w
    <3> QED
      BY <3>1, <3>2, <3>3
  <2> QED
    BY <2>4, <2>5
<1> HIDE DEF After
<1>5. \A k \in 0..n : After(C[k], k)
  <2> DEFINE S == {k \in 0..n : After(C[k], k)}
  <2>1. 0 \in S /\ \A k \in 1..n : k - 1 \in S => k \in S
    BY <1>1, <1>3, <1>4
  <2>2. \A k \in 0..n : k \in S
    <3> HIDE DEF S, n
    <3> QED
      BY <1>1, <2>1, Upwards
  <2> QED
    BY <2>2
<1>6. After(C[n], n)
    BY <1>1, <1>5
<1>7. hi + 2 - n = lo + 2
    OBVIOUS
<1>8. /\ C[n] \in [1..L -> 1..L]
      /\ \A p \in 1..L : C[n][p] = IF p \in lo + 2..hi + 1 THEN l[p - by] ELSE l[p]
    BY <1>6, <1>7 DEF After
<1>9. C[n] = Lists!ShiftRight(l, lo, hi, by)
    BY <1>2 DEF ShiftSteps
<1> QED
    BY <1>8, <1>9 DEF Slid

\* The routines of IndexListLoops are written with the operators of IndexLists.
LEMMA SameLists ==
    ASSUME NEW l, NEW T, NEW n
    PROVE  /\ Lists!Removed(l, T) = Removed(l, T) /\ Lists!Selected(l, T) = Selected(l, T)
           /\ Lists!Remaining(l, n, T) = Remaining(l, n, T)
           /\ Lists!MovedToFront(l, T) = Reverse(Selected(l, T)) \o Removed(l, T)
           /\ Lists!ToSet(l) = ToSet(l) /\ Lists!IsInjective(l) = IsInjective(l)
<1>1. Lists!Removed(l, T) = Removed(l, T) /\ Lists!Selected(l, T) = Selected(l, T)
  <2>1. \A K : Lists!Picked(l, K) = Picked(l, K)
    BY Zenon DEF Lists!Picked, Lists!Rank, Lists!Cardinality, Lists!IsFiniteSet, Picked, Rank,
       Cardinality, IsFiniteSet
  <2> QED
    BY <2>1, Zenon DEF Lists!Removed, Lists!Selected, Removed, Selected
<1>2. \A s : Lists!Reverse(s) = Reverse(s)
    BY DEF Lists!Reverse, Reverse
<1>3. Lists!MovedToFront(l, T) = Reverse(Selected(l, T)) \o Removed(l, T)
    BY <1>1, <1>2, Zenon DEF Lists!MovedToFront
<1>4. Lists!Remaining(l, n, T) = Remaining(l, n, T)
    BY Zenon DEF Lists!Remaining, Lists!Cardinality, Lists!IsFiniteSet, Remaining, Cardinality, IsFiniteSet
<1>5. Lists!ToSet(l) = ToSet(l) /\ Lists!IsInjective(l) = IsInjective(l)
    BY DEF Lists!ToSet, ToSet, Lists!IsInjective, IsInjective
<1> QED
    BY <1>1, <1>3, <1>4, <1>5

Size == Len(given.list)
Hit == given.marked
Open == (1..Size) \ Hit    \* the places that stay

GivenOK ==
    /\ Size \in Nat /\ given.list = [i \in 1..Size |-> i] /\ Hit \subseteq 1..Size
    /\ given.nAct \in 0..Size /\ given.nInit \in 0..given.nAct

\* removeDtIndexFromTable has looked at the first loc.i + loc.imove entries: those that
\* stay are in front, the next one has been fetched, those behind are as they were.
Seen == loc.i + loc.imove
Counted(n) == IF Seen < n THEN n - loc.imove ELSE Rank(Open, n)
Removing ==
    /\ loc \in [i : Nat, imove : Nat, n : Nat, nAct : Int, nInit : Int]
    /\ loc.i <= loc.n /\ loc.n + loc.imove = Size
    /\ list \in [1..Size -> 1..Size]
    /\ Rank(Open, Seen) = loc.i
    /\ \A p \in Open : p <= Seen => list[Rank(Open, p)] = p
    /\ \A p \in loc.i + 2..Size : list[p] = p
    /\ loc.i < loc.n => list[loc.i + 1] = Seen + 1
    /\ loc.nAct = Counted(given.nAct)
    /\ loc.nInit = Counted(given.nInit)

\* The r-th marked place
NthHit(r) == CHOOSE p \in Hit : Rank(Hit, p) = r

\* integrateGroupsOneStep has moved the last loc.off marked entries out: what stays
\* behind the last of them is where it belongs, what is in front of it has not moved.
Moving ==
    LET m == Cardinality(Hit)
        b == NthHit(m - loc.off + 1)
    IN  /\ loc \in [i : Int, shift : Int, off : Int, front : Seq(1..Size), nAct : 0..Size]
        /\ loc.off \in 1..m /\ loc.i = m - 1 - loc.off
        /\ loc.front = [j \in 1..loc.off |-> NthHit(m - j + 1)]
        /\ loc.shift = b + loc.off - 2
        /\ loc.nAct = given.nAct /\ \A p \in 1..given.nAct : p \notin Hit
        /\ list \in [1..Size -> 1..Size]
        /\ \A p \in 1..b - 1 : list[p] = p
        /\ \A p \in b + 1..Size : p \in Open => list[m + Rank(Open, p)] = p

\* removeNB*AddressFromTable: what is left is among the first loc.last + 1 entries.
Replacing ==
    /\ loc \in [k : Nat, last : Int]
    /\ loc.k <= loc.last + 1 /\ loc.last < Size
    /\ list \in [1..Size -> 1..Size]
    /\ \A p \in 1..loc.k : list[p] \notin Hit
    /\ \A p, q \in 1..loc.last + 1 : list[p] = list[q] => p = q
    /\ \A x \in Open : \E p \in 1..loc.last + 1 : list[p] = x

ListsInv ==
    /\ listPc \in {"removeDtIndex", "moveInterrupted", "removeNBAddress", "done"}
    /\ GivenOK
    /\ listPc = "removeDtIndex" => Removing
    /\ listPc = "moveInterrupted" => Moving
    /\ listPc = "removeNBAddress" => Replacing
    /\ listPc = "done" =>
          Lists!RemovedInOrder /\ Lists!InterruptedInFront /\ Lists!NeighboursKept

\* What stays of a prefix is the rank of its end.
LEMMA RemainingRank ==
    ASSUME GivenOK, NEW n \in 0..Size
    PROVE  Remaining(given.list, n, Hit) = Rank(Open, n)
<1>1. \A i \in 1..n : i \in 1..Size /\ given.list[i] = i /\ i <= n
    BY DEF GivenOK
<1>2. \A i \in 1..Size : i <= n => i \in 1..n
    BY DEF GivenOK
<1>3. {i \in 1..n : given.list[i] \notin Hit} = {j \in Open : j <= n}
    BY <1>1, <1>2, Zenon DEF Open
<1> QED
    BY <1>3 DEF Remaining, Rank

\* What is removed leaves the places of Open.
LEMMA RemovedIs ==
    ASSUME GivenOK, NEW t \in Seq(1..Size), Len(t) = Cardinality(Open),
           \A p \in Open : t[Rank(Open, p)] = p
    PROVE  t = Removed(given.list, Hit)
<1>1. given.list \in Seq(1..Size) /\ DOMAIN given.list = 1..Size
    BY DEF GivenOK
<1>2. {i \in DOMAIN given.list : given.list[i] \notin Hit} = Open
  <2>1. \A i \in 1..Size : given.list[i] = i
    BY DEF GivenOK
  <2> QED
    BY <1>1, <2>1, Zenon DEF Open
<1>3. Open \in SUBSET DOMAIN given.list /\ \A p \in Open : given.list[p] = p
    BY <1>1 DEF Open, GivenOK
<1>5. \A p \in Open : t[Rank(Open, p)] = given.list[p]
    BY <1>3
<1> DEFINE l == given.list
           K == Open
           X == 1..Size
<1>4. t = Picked(l, K)
  <2>1. l \in Seq(X) /\ K \in SUBSET DOMAIN l
    BY <1>1, <1>3
  <2>2. t \in Seq(X) /\ Len(t) = Cardinality(K)
    OBVIOUS
  <2>3. \A p \in K : t[Rank(K, p)] = l[p]
    BY <1>5
  <2> HIDE DEF l, K, X
  <2> QED
    BY <2>1, <2>2, <2>3, PickedIs
<1> QED
    BY <1>2, <1>4 DEF Removed


LEMMA GivenKept ==
    ASSUME GivenOK, UNCHANGED given
    PROVE  /\ GivenOK' /\ Size' = Size /\ Hit' = Hit /\ Open' = Open
           /\ Size \in Nat /\ Open \subseteq 1..Size /\ Hit \subseteq 1..Size
           /\ \A p \in 1..Size : p \in Open <=> p \notin Hit
BY DEF GivenOK, Size, Hit, Open

\* Ranks of what stays and of what is marked
LEMMA OpenRanks ==
    ASSUME GivenOK
    PROVE  \A A \in {Open, Hit} :
             /\ Rank(A, 0) = 0 /\ Rank(A, Size) = Cardinality(A)
             /\ \A q \in 0..Size : Rank(A, q) \in 0..q
             /\ \A q \in 0..Size - 1 : Rank(A, q + 1) = Rank(A, q) + (IF q + 1 \in A THEN 1 ELSE 0)
             /\ \A p, q \in 0..Size : p <= q => Rank(A, p) <= Rank(A, q)
             /\ \A p \in 0..Size, q \in A : p < q => Rank(A, p) < Rank(A, q)
             /\ \A p \in A : Rank(A, p) \in 1..Cardinality(A) /\ Rank(A, p) <= p
<1> DEFINE N == Size
<1>1. N \in Nat /\ Open \subseteq 1..N /\ Hit \subseteq 1..N
    BY DEF GivenOK, Open
<1> SUFFICES ASSUME NEW A \in {Open, Hit}
             PROVE  /\ Rank(A, 0) = 0 /\ Rank(A, N) = Cardinality(A)
                    /\ \A q \in 0..N : Rank(A, q) \in 0..q
                    /\ \A q \in 0..N - 1 : Rank(A, q + 1) = Rank(A, q) + (IF q + 1 \in A THEN 1 ELSE 0)
                    /\ \A p, q \in 0..N : p <= q => Rank(A, p) <= Rank(A, q)
                    /\ \A p \in 0..N, q \in A : p < q => Rank(A, p) < Rank(A, q)
                    /\ \A p \in A : Rank(A, p) \in 1..Cardinality(A) /\ Rank(A, p) <= p
    OBVIOUS
<1> HIDE DEF N
<1>2. A \subseteq 1..N
    BY <1>1
<1>3. /\ Rank(A, 0) = 0 /\ Rank(A, N) = Cardinality(A)
      /\ \A q \in Nat : Rank(A, q) \in Nat
      /\ \A q \in Nat : Rank(A, q + 1) = Rank(A, q) + (IF q + 1 \in A THEN 1 ELSE 0)
    BY <1>1, <1>2, RankStep
<1>4. \A p, q \in 0..N : p <= q => /\ Rank(A, p) <= Rank(A, q)
                                  /\ Rank(A, q) <= Rank(A, p) + (q - p)
                                  /\ (p < q /\ q \in A => Rank(A, p) < Rank(A, q))
    BY <1>1, <1>2, RankGrows
<1>5. \A q \in 0..N : Rank(A, q) \in 0..q
  <2> SUFFICES ASSUME NEW q \in 0..N PROVE Rank(A, q) \in 0..q
    OBVIOUS
  <2>1. 0 \in 0..N /\ 0 <= q /\ q \in Nat
    BY <1>1
  <2>2. Rank(A, q) <= Rank(A, 0) + (q - 0)
    BY <1>4, <2>1
  <2> QED
    BY <1>3, <2>1, <2>2
<1>6. \A p \in 0..N, q \in A : p < q => Rank(A, p) < Rank(A, q)
  <2> SUFFICES ASSUME NEW p \in 0..N, NEW q \in A, p < q PROVE Rank(A, p) < Rank(A, q)
    OBVIOUS
  <2>1. q \in 0..N /\ p <= q
    BY <1>1, <1>2
  <2> QED
    BY <1>4, <2>1
<1>7. \A p \in A : Rank(A, p) \in 1..Cardinality(A) /\ Rank(A, p) <= p
  <2> SUFFICES ASSUME NEW p \in A PROVE Rank(A, p) \in 1..Cardinality(A) /\ Rank(A, p) <= p
    OBVIOUS
  <2>1. p \in 0..N /\ 0 \in 0..N /\ N \in 0..N /\ p <= N /\ 0 < p
    BY <1>1, <1>2
  <2>2. Rank(A, 0) < Rank(A, p) /\ Rank(A, p) <= Rank(A, N)
    BY <1>4, <1>6, <2>1
  <2>3. Rank(A, p) \in 0..p
    BY <1>5, <2>1
  <2> QED
    BY <1>1, <1>3, <2>1, <2>2, <2>3
<1> QED
    BY <1>3, <1>4, <1>5, <1>6, <1>7

\* The prefix counts follow when one more entry has been looked at.
LEMMA CountedStep ==
    ASSUME GivenOK, Removing, loc.i < loc.n, NEW a \in 0..Size
    PROVE  IF Seen + 1 \in Hit
           THEN Lists!Lowered(Counted(a), loc.i) =
                   (IF Seen + 1 < a THEN a - (loc.imove + 1) ELSE Rank(Open, a))
           ELSE Counted(a) = (IF Seen + 1 < a THEN a - loc.imove ELSE Rank(Open, a))
<1> DEFINE q == Seen
<1>0. Size \in Nat /\ Open \subseteq 1..Size /\ \A p \in 1..Size : p \in Open <=> p \notin Hit
    BY DEF GivenOK, Open
<1>1. /\ loc.i \in Nat /\ loc.imove \in Nat /\ q = loc.i + loc.imove /\ Rank(Open, q) = loc.i
      /\ q + 1 \in 1..Size /\ q \in 0..Size
  <2>1. /\ loc.i \in Nat /\ loc.imove \in Nat /\ loc.n \in Nat /\ loc.n + loc.imove = Size
        /\ Rank(Open, Seen) = loc.i
    BY DEF Removing
  <2> QED
    BY <1>0, <2>1 DEF Seen
<1>r. /\ \A p \in 0..Size - 1 : Rank(Open, p + 1) = Rank(Open, p) + (IF p + 1 \in Open THEN 1 ELSE 0)
      /\ \A p \in 0..Size : Rank(Open, p) \in 0..p
      /\ \A p, r \in 0..Size : p <= r => Rank(Open, p) <= Rank(Open, r)
    BY OpenRanks
<1>2. Rank(Open, q + 1) = loc.i + (IF q + 1 \in Open THEN 1 ELSE 0)
  <2>1. q \in 0..Size - 1
    BY <1>0, <1>1
  <2> QED
    BY <1>1, <1>r, <2>1
<1>3. CASE a <= q
  <2>1. Rank(Open, a) \in Nat /\ Rank(Open, a) <= loc.i
    BY <1>0, <1>1, <1>3, <1>r
  <2>2. Counted(a) = Rank(Open, a)
    BY <1>1, <1>3 DEF Counted
  <2>3. ~(loc.i < Rank(Open, a))
    BY <1>1, <2>1
  <2> QED
    BY <1>1, <1>3, <2>2, <2>3 DEF Lists!Lowered
<1>4. CASE q < a
  <2>1. Counted(a) = a - loc.imove /\ loc.i < a - loc.imove
    BY <1>1, <1>4 DEF Counted
  <2>2. CASE a = q + 1
    BY <1>0, <1>1, <1>2, <2>1, <2>2 DEF Lists!Lowered
  <2>3. CASE q + 1 < a
    BY <1>0, <1>1, <2>1, <2>3 DEF Lists!Lowered
  <2> QED
    BY <1>1, <1>4, <2>2, <2>3
<1> QED
    BY <1>1, <1>3, <1>4

\* One iteration of removeDtIndexFromTable.
LEMMA RemovingStep ==
    ASSUME GivenOK, Removing, loc.i < loc.n, Lists!RemoveDtIndex
    PROVE  Removing' /\ listPc' = "removeDtIndex" /\ UNCHANGED given
<1> DEFINE i == loc.i
           v == loc.imove
           n == loc.n
           q == Seen
           hit == list[i + 1] \in Hit
<1>1. /\ i \in Nat /\ v \in Nat /\ n \in Nat /\ i < n /\ n + v = Size /\ q = i + v
      /\ q + 1 \in 1..Size /\ q \in 0..Size /\ i + 1 \in 1..Size
      /\ list \in [1..Size -> 1..Size] /\ list[i + 1] = q + 1
      /\ Rank(Open, q) = i
      /\ loc.nAct = Counted(given.nAct) /\ loc.nInit = Counted(given.nInit)
      /\ loc.nAct \in Int /\ loc.nInit \in Int
    BY DEF Removing, Seen, GivenOK
<1>2. /\ listPc = "removeDtIndex" /\ listPc' = listPc /\ UNCHANGED given
      /\ loc' = [i |-> IF hit THEN i ELSE i + 1, imove |-> IF hit THEN v + 1 ELSE v,
                 n |-> IF hit THEN n - 1 ELSE n,
                 nAct |-> IF hit THEN Lists!Lowered(loc.nAct, i) ELSE loc.nAct,
                 nInit |-> IF hit THEN Lists!Lowered(loc.nInit, i) ELSE loc.nInit]
      /\ list' = IF loc'.i >= loc'.n THEN list
                 ELSE [list EXCEPT ![loc'.i + 1] = list[loc'.i + loc'.imove + 1]]
    BY <1>1 DEF Lists!RemoveDtIndex, Lists!At, Lists!Put, Hit
<1>3. /\ Size' = Size /\ Hit' = Hit /\ Open' = Open /\ Open \subseteq 1..Size
      /\ \A p \in 1..Size : p \in Open <=> p \notin Hit
    BY <1>2, GivenKept
<1>r. /\ \A p \in 0..Size - 1 : Rank(Open, p + 1) = Rank(Open, p) + (IF p + 1 \in Open THEN 1 ELSE 0)
      /\ \A p, r \in 0..Size : p <= r => Rank(Open, p) <= Rank(Open, r)
      /\ \A p \in Open : Rank(Open, p) \in 1..Cardinality(Open) /\ Rank(Open, p) <= p
    BY OpenRanks
<1>4. Rank(Open, q + 1) = i + (IF q + 1 \in Open THEN 1 ELSE 0)
  <2>1. q \in 0..Size - 1
    BY <1>1
  <2> QED
    BY <1>1, <1>r, <2>1
<1>5. /\ loc'.i = (IF hit THEN i ELSE i + 1) /\ loc'.imove = (IF hit THEN v + 1 ELSE v)
      /\ loc'.n = (IF hit THEN n - 1 ELSE n)
      /\ loc'.nAct = (IF hit THEN Lists!Lowered(loc.nAct, i) ELSE loc.nAct)
      /\ loc'.nInit = (IF hit THEN Lists!Lowered(loc.nInit, i) ELSE loc.nInit)
    BY <1>2
<1>6. Seen' = q + 1 /\ hit = (q + 1 \in Hit) /\ hit = (q + 1 \notin Open)
    BY <1>1, <1>3, <1>5 DEF Seen
<1>7. loc' \in [i : Nat, imove : Nat, n : Nat, nAct : Int, nInit : Int]
  <2>1. Lists!Lowered(loc.nAct, i) \in Int /\ Lists!Lowered(loc.nInit, i) \in Int
    BY <1>1 DEF Lists!Lowered
  <2>2. n - 1 \in Nat /\ v + 1 \in Nat /\ i + 1 \in Nat
    BY <1>1
  <2> QED
    BY <1>1, <1>2, <2>1, <2>2
<1>8. /\ Rank(Open, Seen') = loc'.i /\ loc'.i <= loc'.n /\ loc'.n + loc'.imove = Size
  <2>1. /\ Rank(Open, Seen') = Rank(Open, q + 1)
        /\ Rank(Open, q + 1) = IF hit THEN i ELSE i + 1
    <3>1. Rank(Open, Seen') = Rank(Open, q + 1)
      BY <1>6
    <3>2. CASE q + 1 \in Open
      BY <3>1, <3>2, <1>1, <1>4, <1>6
    <3>3. CASE q + 1 \notin Open
      BY <3>1, <3>3, <1>1, <1>4, <1>6
    <3> QED
      BY <3>2, <3>3
  <2>2. i \in Nat /\ v \in Nat /\ n \in Nat /\ i < n /\ n + v = Size
    BY <1>1
  <2> HIDE DEF q, i, v, n, hit
  <2>3. CASE hit
    BY <2>1, <2>2, <2>3, <1>5
  <2>4. CASE ~hit
    BY <2>1, <2>2, <2>4, <1>5
  <2> QED
    BY <2>3, <2>4
<1>9. \A p \in q + 2..Size : list[p] = p
    BY <1>1 DEF Removing, Seen
<1>10. /\ list' \in [1..Size -> 1..Size]
       /\ \A p \in 1..Size : p # loc'.i + 1 => list'[p] = list[p]
       /\ loc'.i < loc'.n => list'[loc'.i + 1] = q + 2
  <2>1. CASE loc'.i >= loc'.n
    BY <1>1, <1>2, <1>7, <2>1
  <2>2. CASE loc'.i < loc'.n
    <3>0. loc'.i \in Nat /\ loc'.imove \in Nat /\ loc'.n \in Nat
      BY <1>7
    <3>1. loc'.i + 1 \in 1..Size /\ loc'.i + loc'.imove + 1 = q + 2 /\ q + 2 \in 1..Size
      <4>1. loc'.i + loc'.imove = q + 1
        <5>1. i \in Nat /\ v \in Nat /\ q = i + v
          BY <1>1
        <5>2. loc'.i = (IF hit THEN i ELSE i + 1) /\ loc'.imove = (IF hit THEN v + 1 ELSE v)
          BY <1>5
        <5> HIDE DEF q, i, v, hit
        <5> QED
          BY <5>1, <5>2
      <4>2. q \in Nat /\ Size \in Nat /\ loc'.n + loc'.imove = Size
        BY <1>1, <1>8
      <4> HIDE DEF q, i, v, n
      <4> QED
        BY <2>2, <3>0, <4>1, <4>2
    <3>2. list[q + 2] = q + 2
      BY <1>9, <3>1
    <3>3. list' = [list EXCEPT ![loc'.i + 1] = q + 2]
      <4>1. ~(loc'.i >= loc'.n)
        BY <2>2, <3>0
      <4> QED
        BY <1>2, <3>1, <3>2, <4>1
    <3> QED
      BY <1>1, <3>1, <3>3
  <2> QED
    BY <1>7, <2>1, <2>2
<1>11. ASSUME NEW p \in Open, p <= q + 1 PROVE list'[Rank(Open, p)] = p
  <2>1. p \in 1..Size
    BY <1>3
  <2>2. CASE p <= q
    <3>1. Rank(Open, p) \in Nat /\ Rank(Open, p) <= i /\ 0 < Rank(Open, p)
      <4>1. p \in 0..Size /\ q \in 0..Size
        BY <1>1, <2>1
      <4> QED
        BY <1>1, <1>r, <2>2, <4>1
    <3>2. Rank(Open, p) \in 1..Size /\ Rank(Open, p) # loc'.i + 1
      <4>1. i \in Nat /\ i + 1 \in 1..Size /\ Size \in Nat
        BY <1>1
      <4>2. loc'.i = i \/ loc'.i = i + 1
        BY <1>5
      <4> HIDE DEF i
      <4> QED
        BY <3>1, <4>1, <4>2
    <3>3. list[Rank(Open, p)] = p
      BY <2>2 DEF Removing
    <3> QED
      BY <1>10, <3>2, <3>3
  <2>3. CASE p = q + 1
    <3>1. Rank(Open, p) = i + 1 /\ loc'.i = i + 1
      BY <1>1, <1>4, <1>5, <1>6, <2>3
    <3>2. i + 1 \in 1..Size /\ i + 1 # loc'.i + 1
      BY <1>1, <3>1
    <3> QED
      BY <1>1, <1>10, <2>3, <3>1, <3>2
  <2> QED
    BY <1>1, <1>11, <2>1, <2>2, <2>3
<1>12. \A p \in loc'.i + 2..Size : list'[p] = p
  <2> SUFFICES ASSUME NEW p \in loc'.i + 2..Size PROVE list'[p] = p
    OBVIOUS
  <2>1. p \in 1..Size /\ p # loc'.i + 1 /\ p \in i + 2..Size
    BY <1>1, <1>5
  <2> QED
    BY <1>10, <2>1 DEF Removing
<1>13. \A a \in 0..Size : Counted(a)' = (IF q + 1 < a THEN a - loc'.imove ELSE Rank(Open, a))
    BY <1>3, <1>6 DEF Counted
<1>14. loc'.nAct = Counted(given.nAct)' /\ loc'.nInit = Counted(given.nInit)'
  <2>1. given.nAct \in 0..Size /\ given.nInit \in 0..Size
    BY DEF GivenOK
  <2>2. \A a \in 0..Size : IF q + 1 \in Hit
           THEN Lists!Lowered(Counted(a), i) = (IF q + 1 < a THEN a - (v + 1) ELSE Rank(Open, a))
           ELSE Counted(a) = (IF q + 1 < a THEN a - v ELSE Rank(Open, a))
    BY <1>1, CountedStep
  <2> HIDE DEF i, v, n, q
  <2>3. CASE q + 1 \in Hit
    <3>1. \A a \in 0..Size : Lists!Lowered(Counted(a), i) = Counted(a)'
      BY <1>5, <1>6, <1>13, <2>2, <2>3
    <3> QED
      BY <1>1, <1>2, <1>5, <1>6, <2>1, <2>3, <3>1
  <2>4. CASE q + 1 \notin Hit
    <3>1. \A a \in 0..Size : Counted(a) = Counted(a)'
      BY <1>5, <1>6, <1>13, <2>2, <2>4
    <3> QED
      BY <1>1, <1>2, <1>5, <1>6, <2>1, <2>4, <3>1
  <2> QED
    BY <2>3, <2>4
<1>15. Removing'
  <2>1. \A p \in Open : p <= Seen' => list'[Rank(Open, p)] = p
    BY <1>6, <1>11
  <2>2. loc'.i < loc'.n => list'[loc'.i + 1] = Seen' + 1
    BY <1>1, <1>6, <1>10
  <2> QED
    BY <1>3, <1>7, <1>8, <1>10, <1>12, <1>14, <2>1, <2>2 DEF Removing
<1> QED
    BY <1>2, <1>15

\* The end of removeDtIndexFromTable.
LEMMA RemovingEnd ==
    ASSUME GivenOK, Removing, ~(loc.i < loc.n), Lists!RemoveDtIndex
    PROVE  listPc' = "done" /\ UNCHANGED given /\ Lists!RemovedInOrder'
           /\ Lists!InterruptedInFront' /\ Lists!NeighboursKept'
<1>1. /\ loc \in [i : Nat, imove : Nat, n : Nat, nAct : Int, nInit : Int]
      /\ loc.i = loc.n /\ Seen = Size /\ loc.n \in 0..Size
      /\ list \in [1..Size -> 1..Size] /\ Size \in Nat
      /\ Rank(Open, Size) = loc.n /\ Open \subseteq 1..Size
    BY DEF Removing, Seen, GivenOK, Open
<1>2. listPc' = "done" /\ UNCHANGED <<given, loc>> /\ list' = SubSeq(list, 1, loc.n)
  <2>1. loc.i >= loc.n
    BY <1>1
  <2> QED
    BY <2>1 DEF Lists!RemoveDtIndex
<1>3. Cardinality(Open) = loc.n /\ Rank(Open, 0) = 0
    BY <1>1, OpenRanks
<1>4. /\ list' \in Seq(1..Size) /\ Len(list') = loc.n
      /\ \A p \in 1..loc.n : list'[p] = list[p]
    BY <1>1, <1>2
<1>5. \A p \in Open : list'[Rank(Open, p)] = p
  <2> SUFFICES ASSUME NEW p \in Open PROVE list'[Rank(Open, p)] = p
    OBVIOUS
  <2>1. p <= Size /\ Rank(Open, p) \in 1..loc.n
    BY <1>1, <1>3, OpenRanks
  <2>4. list[Rank(Open, p)] = p
    BY <1>1, <2>1 DEF Removing
  <2> QED
    BY <1>4, <2>1, <2>4
<1>6. list' = Removed(given.list, Hit)
    BY <1>3, <1>4, <1>5, RemovedIs
<1>7. \A a \in 0..Size : Counted(a) = Remaining(given.list, a, Hit)
    BY <1>1, RemainingRank DEF Counted
<1>8. /\ loc.nAct = Remaining(given.list, given.nAct, Hit)
      /\ loc.nInit = Remaining(given.list, given.nInit, Hit)
  <2>1. given.nAct \in 0..Size /\ given.nInit \in 0..Size
    BY DEF GivenOK
  <2> QED
    BY <1>7, <2>1 DEF Removing
<1>9. Lists!RemovedInOrder'
    BY <1>2, <1>6, <1>8, SameLists DEF Lists!RemovedInOrder, Hit
<1>10. "front" \notin DOMAIN loc' /\ "last" \notin DOMAIN loc'
    BY <1>1, <1>2
<1> QED
    BY <1>2, <1>9, <1>10 DEF Lists!InterruptedInFront, Lists!NeighboursKept

\* One iteration of removeNB*AddressFromTable: an entry that is overwritten by the last
\* one is marked, and the last one is looked at again in its new place.
LEMMA ReplacingStep ==
    ASSUME GivenOK, Replacing, ~(loc.k > loc.last), Lists!RemoveNBAddress
    PROVE  Replacing' /\ listPc' = "removeNBAddress" /\ UNCHANGED given
<1> DEFINE k == loc.k
           l == loc.last
           masked == list[k + 1] \in Hit
<1>1. /\ k \in Nat /\ l \in Int /\ k <= l /\ l < Size /\ Size \in Nat
      /\ k + 1 \in 1..Size /\ l + 1 \in 1..Size /\ list \in [1..Size -> 1..Size]
  <2>1. loc \in [k : Nat, last : Int] /\ l < Size /\ list \in [1..Size -> 1..Size]
    BY DEF Replacing
  <2>2. k \in Nat /\ l \in Int /\ Size \in Nat
    BY <2>1 DEF GivenOK
  <2>3. k <= l
    BY <2>2
  <2> HIDE DEF k, l
  <2> QED
    BY <2>1, <2>2, <2>3
<1>2. /\ \A p \in 1..k : list[p] \notin Hit
      /\ \A p, q \in 1..l + 1 : list[p] = list[q] => p = q
      /\ \A x \in Open : \E p \in 1..l + 1 : list[p] = x
    BY DEF Replacing
<1>3. /\ listPc = "removeNBAddress" /\ listPc' = listPc /\ UNCHANGED given
      /\ loc' = [k |-> IF masked THEN k ELSE k + 1, last |-> IF masked THEN l - 1 ELSE l]
      /\ list' = IF masked THEN [list EXCEPT ![k + 1] = list[l + 1]] ELSE list
  <2>1. ~(loc.k > loc.last)
    OBVIOUS
  <2> QED
    BY <2>1 DEF Lists!RemoveNBAddress, Lists!At, Lists!Put, Lists!NextPlace, Hit
<1>4. Size' = Size /\ Hit' = Hit /\ Open' = Open /\ \A p \in Open : p \notin Hit
    BY <1>3, GivenKept DEF Open
<1>7. loc'.k = (IF masked THEN k ELSE k + 1) /\ loc'.last = (IF masked THEN l - 1 ELSE l)
      /\ loc' \in [k : Nat, last : Int]
  <2>1. loc' = [k |-> IF masked THEN k ELSE k + 1, last |-> IF masked THEN l - 1 ELSE l]
    BY <1>3
  <2>2. k \in Nat /\ l \in Int
    BY <1>1
  <2> HIDE DEF k, l, masked
  <2>3. k + 1 \in Nat /\ l - 1 \in Int
    BY <2>2
  <2> QED
    BY <2>1, <2>2, <2>3
<1> HIDE DEF k, l
<1>5. CASE masked
  <2>1. /\ loc'.k = k /\ loc'.last = l - 1 /\ loc' \in [k : Nat, last : Int]
        /\ list' = [list EXCEPT ![k + 1] = list[l + 1]]
    BY <1>3, <1>5, <1>7
  <2>2. /\ list' \in [1..Size -> 1..Size]
        /\ \A p \in 1..Size : list'[p] = IF p = k + 1 THEN list[l + 1] ELSE list[p]
    BY <1>1, <2>1
  <2>3. \A p \in 1..k : list'[p] \notin Hit
    BY <1>1, <1>2, <2>2
  <2>4. ASSUME NEW p \in 1..l, NEW q \in 1..l, list'[p] = list'[q] PROVE p = q
    <3>1. p \in 1..Size /\ q \in 1..Size /\ p \in 1..l + 1 /\ q \in 1..l + 1 /\ l + 1 \in 1..l + 1
          /\ p # l + 1 /\ q # l + 1
      BY <1>1
    <3> QED
      BY <1>2, <2>2, <2>4, <3>1
  <2>5. ASSUME NEW x \in Open PROVE \E p \in 1..l : list'[p] = x
    <3>1. PICK p \in 1..l + 1 : list[p] = x
      BY <1>2
    <3>2. p # k + 1 /\ p \in 1..Size
      BY <1>1, <1>4, <1>5, <3>1
    <3>3. CASE p = l + 1
      <4>1. k + 1 \in 1..l
        BY <1>1, <3>2, <3>3
      <4> QED
        BY <1>1, <2>2, <3>1, <3>3, <4>1
    <3>4. CASE p # l + 1
      <4>1. p \in 1..l
        BY <1>1, <3>4
      <4> QED
        BY <2>2, <3>1, <3>2, <4>1
    <3> QED
      BY <3>3, <3>4
  <2>6. loc'.last + 1 = l /\ k <= l - 1 + 1 /\ l - 1 < Size
    BY <1>1, <2>1
  <2> QED
    BY <1>3, <1>4, <2>1, <2>2, <2>3, <2>4, <2>5, <2>6 DEF Replacing
<1>6. CASE ~masked
  <2>1. /\ loc'.k = k + 1 /\ loc'.last = l /\ loc' \in [k : Nat, last : Int] /\ list' = list
    BY <1>3, <1>6, <1>7
  <2>2. \A p \in 1..k + 1 : list'[p] \notin Hit
    BY <1>1, <1>2, <1>6, <2>1
  <2>3. loc'.k <= loc'.last + 1 /\ loc'.last < Size /\ \A p \in 1..loc'.k : list'[p] \notin Hit
    BY <1>1, <2>1, <2>2
  <2>4. /\ \A p, q \in 1..loc'.last + 1 : list'[p] = list'[q] => p = q
        /\ \A x \in Open : \E p \in 1..loc'.last + 1 : list'[p] = x
    BY <1>2, <2>1
  <2>5. list' \in [1..Size -> 1..Size]
    BY <1>1, <2>1
  <2> QED
    BY <1>3, <1>4, <2>1, <2>3, <2>4, <2>5 DEF Replacing
<1> QED
    BY <1>5, <1>6

\* The end of removeNB*AddressFromTable.
LEMMA ReplacingEnd ==
    ASSUME GivenOK, Replacing, loc.k > loc.last, Lists!RemoveNBAddress
    PROVE  listPc' = "done" /\ UNCHANGED given /\ Lists!RemovedInOrder'
           /\ Lists!InterruptedInFront' /\ Lists!NeighboursKept'
<1> DEFINE n == loc.k
<1>1. /\ loc \in [k : Nat, last : Int] /\ n = loc.last + 1 /\ n \in 0..Size /\ Size \in Nat
      /\ list \in [1..Size -> 1..Size]
    BY DEF Replacing, GivenOK
<1>2. /\ listPc' = "done" /\ UNCHANGED <<given, loc>> /\ list' = SubSeq(list, 1, n)
  <2>1. loc.k > loc.last
    OBVIOUS
  <2> QED
    BY <1>1, <2>1 DEF Lists!RemoveNBAddress
<1>3. /\ \A p \in 1..n : list[p] \notin Hit
      /\ \A p, q \in 1..n : list[p] = list[q] => p = q
      /\ \A x \in Open : \E p \in 1..n : list[p] = x
    BY <1>1 DEF Replacing
<1> HIDE DEF n
<1>4. /\ list' \in Seq(1..Size) /\ Len(list') = n /\ DOMAIN list' = 1..n
      /\ \A p \in 1..n : list'[p] = list[p] /\ list'[p] \in 1..Size
    BY <1>1, <1>2
<1>5. IsInjective(list')
    BY <1>3, <1>4 DEF IsInjective
<1>6. ToSet(given.list) = 1..Size
  <2>1. DOMAIN given.list = 1..Size /\ \A p \in 1..Size : given.list[p] = p
    BY DEF GivenOK
  <2> QED
    BY <2>1 DEF ToSet
<1>7. ToSet(list') = ToSet(given.list) \ Hit
  <2>1. \A x : x \in ToSet(list') <=> \E p \in 1..n : list'[p] = x
    BY <1>4 DEF ToSet
  <2> QED
    BY <1>3, <1>4, <1>6, <2>1 DEF Open
<1>8. Lists!NeighboursKept'
  <2>1. Lists!IsInjective(list') /\ Lists!ToSet(list') = Lists!ToSet(given.list) \ Hit
    BY <1>5, <1>7, SameLists
  <2> QED
    BY <1>2, <2>1 DEF Lists!NeighboursKept, Hit
<1>9. "front" \notin DOMAIN loc' /\ "imove" \notin DOMAIN loc'
    BY <1>1, <1>2
<1> QED
    BY <1>2, <1>8, <1>9 DEF Lists!InterruptedInFront, Lists!RemovedInOrder

\* A place is either marked or stays.
LEMMA RanksApart ==
    ASSUME GivenOK
    PROVE  /\ \A q \in 0..Size : Rank(Hit, q) + Rank(Open, q) = q
           /\ \A p, q \in 0..Size : p <= q => Rank(Hit, q) <= Rank(Hit, p) + (q - p)
           /\ Cardinality(Hit) \in Nat /\ Cardinality(Open) \in Nat
           /\ Cardinality(Hit) + Cardinality(Open) = Size /\ Size \in Nat
<1> DEFINE N == Size
           A == Hit
<1>1. N \in Nat /\ A \subseteq 1..N /\ Open = (1..N) \ A
    BY DEF GivenOK, Open
<1>2. Rank(A, N) = Cardinality(A) /\ Rank(Open, N) = Cardinality(Open)
    BY OpenRanks
<1> HIDE DEF N, A
<1>3. \A q \in 0..N : Rank(A, q) + Rank(Open, q) = q
    BY <1>1, RankSplit
<1>4. \A p, q \in 0..N : p <= q => Rank(A, q) <= Rank(A, p) + (q - p)
    BY <1>1, RankGrows
<1>5. Cardinality(A) \in Nat /\ Cardinality(Open) \in Nat /\ Cardinality(A) + Cardinality(Open) = N
  <2>1. N \in 0..N /\ Open \subseteq 1..N
    BY <1>1
  <2>2. IsFiniteSet(A) /\ IsFiniteSet(Open)
    BY <1>1, <2>1, RankStep
  <2>3. Cardinality(A) \in Nat /\ Cardinality(Open) \in Nat
    BY <2>2, FS_CardinalityType
  <2> QED
    BY <1>2, <1>3, <2>1, <2>3
<1> QED
    BY <1>1, <1>3, <1>4, <1>5 DEF N, A

\* The marked places in order
LEMMA NthHits ==
    ASSUME GivenOK
    PROVE  /\ \A r \in 1..Cardinality(Hit) : NthHit(r) \in Hit /\ Rank(Hit, NthHit(r)) = r
           /\ \A p \in Hit : Rank(Hit, p) \in 1..Cardinality(Hit) /\ NthHit(Rank(Hit, p)) = p
           /\ \A q, r \in 1..Cardinality(Hit) : q < r => NthHit(q) < NthHit(r)
<1> DEFINE l == given.list
           m == Cardinality(Hit)
<1>1. /\ l \in Seq(Int) /\ Hit \in SUBSET DOMAIN l /\ Hit \subseteq 1..Size /\ Size \in Nat
    BY DEF GivenOK
<1>r. /\ \A p \in Hit : Rank(Hit, p) \in 1..m
      /\ \A p \in 0..Size, q \in Hit : p < q => Rank(Hit, p) < Rank(Hit, q)
    BY OpenRanks
<1>c. m \in Nat
    BY RanksApart
<1>2. \A r \in 1..m : \E p \in Hit : Rank(Hit, p) = r
  <2> HIDE DEF l
  <2> QED
    BY <1>1, PickedAt
<1>3. \A r \in 1..m : NthHit(r) \in Hit /\ Rank(Hit, NthHit(r)) = r
    BY <1>2 DEF NthHit
<1> HIDE DEF m
<1>4. ASSUME NEW p \in Hit, NEW q \in Hit, p # q
      PROVE  p < q => Rank(Hit, p) < Rank(Hit, q)
    BY <1>1, <1>r
<1>5. \A p, q \in Hit : p \in Int /\ q \in Int
    BY <1>1
<1>6. \A p \in Hit : NthHit(Rank(Hit, p)) = p
  <2> SUFFICES ASSUME NEW p \in Hit, NthHit(Rank(Hit, p)) # p PROVE FALSE
    OBVIOUS
  <2> DEFINE q == NthHit(Rank(Hit, p))
  <2>1. q \in Hit /\ Rank(Hit, q) = Rank(Hit, p) /\ Rank(Hit, p) \in Int
    BY <1>r, <1>3
  <2> HIDE DEF q
  <2>2. p < q \/ q < p
    BY <1>5, <2>1 DEF q
  <2> QED
    BY <1>4, <1>5, <2>1, <2>2
<1>7. ASSUME NEW q \in 1..m, NEW r \in 1..m, q < r PROVE NthHit(q) < NthHit(r)
  <2>1. NthHit(q) \in Hit /\ NthHit(r) \in Hit /\ Rank(Hit, NthHit(q)) = q /\ Rank(Hit, NthHit(r)) = r
    BY <1>3
  <2>2. NthHit(q) # NthHit(r) /\ ~(NthHit(r) < NthHit(q))
    BY <1>4, <1>7, <1>c, <2>1
  <2> QED
    BY <1>5, <2>1, <2>2
<1> QED
    BY <1>r, <1>3, <1>6, <1>7 DEF m

\* The interrupted groups and what is selected
LEMMA HitsPicked ==
    ASSUME GivenOK
    PROVE  LET P == Lists!Positions(given.list, Hit)
               s == Selected(given.list, Hit)
           IN  /\ Len(P) = Cardinality(Hit) /\ s \in Seq(1..Size) /\ Len(s) = Cardinality(Hit)
               /\ \A r \in 1..Cardinality(Hit) : P[r] = NthHit(r) - 1 /\ s[r] = NthHit(r)
<1> DEFINE l == given.list
           K == Hit
           i == [p \in DOMAIN l |-> p - 1]
           m == Cardinality(K)
           X == 1..Size
<1>1. /\ l \in Seq(X) /\ i \in Seq(Int) /\ K \in SUBSET DOMAIN l /\ DOMAIN i = DOMAIN l
      /\ DOMAIN l = 1..Size /\ \A p \in K : l[p] = p /\ i[p] = p - 1
  <2>1. Size \in Nat /\ l = [p \in 1..Size |-> p] /\ K \subseteq 1..Size
    BY DEF GivenOK
  <2> QED
    BY <2>1
<1>2. {p \in DOMAIN l : l[p] \in Hit} = K
  <2>1. \A p \in DOMAIN l : l[p] = p
    BY <1>1 DEF GivenOK
  <2>2. K \subseteq DOMAIN l
    BY <1>1
  <2> QED
    BY <2>1, <2>2, Zenon
<1>3. Lists!Positions(l, Hit) = Picked(i, K) /\ Selected(l, Hit) = Picked(l, K)
  <2>1. Lists!Picked(i, K) = Picked(i, K)
    BY Zenon DEF Lists!Picked, Lists!Rank, Lists!Cardinality, Lists!IsFiniteSet, Picked, Rank,
       Cardinality, IsFiniteSet
  <2>2. Lists!Positions(l, Hit) = Lists!Picked(i, {p \in DOMAIN l : l[p] \in Hit})
    BY DEF Lists!Positions
  <2> QED
    BY <1>2, <2>1, <2>2, Zenon DEF Selected
<1>4. \A r \in 1..m : NthHit(r) \in K /\ Rank(K, NthHit(r)) = r
    BY NthHits
<1> HIDE DEF l, K, i, m, X
<1>5. /\ Picked(l, K) \in Seq(X) /\ Len(Picked(l, K)) = m
      /\ \A p \in K : Picked(l, K)[Rank(K, p)] = l[p]
    BY <1>1, PickedProps, PickedAt DEF m
<1>6. /\ Len(Picked(i, K)) = m
      /\ \A p \in K : Picked(i, K)[Rank(K, p)] = i[p]
    BY <1>1, PickedProps, PickedAt DEF m
<1>7. ASSUME NEW r \in 1..m PROVE Picked(i, K)[r] = NthHit(r) - 1 /\ Picked(l, K)[r] = NthHit(r)
  <2>1. NthHit(r) \in K /\ Rank(K, NthHit(r)) = r
    BY <1>4
  <2>2. Picked(i, K)[r] = i[NthHit(r)] /\ Picked(l, K)[r] = l[NthHit(r)]
    BY <1>5, <1>6, <2>1
  <2> QED
    BY <1>1, <2>1, <2>2
<1>8. /\ Len(Lists!Positions(l, Hit)) = m
      /\ Selected(l, Hit) \in Seq(X) /\ Len(Selected(l, Hit)) = m
      /\ \A r \in 1..m : Lists!Positions(l, Hit)[r] = NthHit(r) - 1 /\ Selected(l, Hit)[r] = NthHit(r)
    BY <1>3, <1>5, <1>6, <1>7
<1> QED
    BY <1>8 DEF l, K, m, X

\* What stays, in order
LEMMA OpenPicked ==
    ASSUME GivenOK
    PROVE  LET u == Removed(given.list, Hit)
           IN  /\ u \in Seq(1..Size) /\ Len(u) = Cardinality(Open)
               /\ \A p \in Open : u[Rank(Open, p)] = p
               /\ \A r \in 1..Cardinality(Open) : \E p \in Open : Rank(Open, p) = r
<1> DEFINE l == given.list
           K == Open
           X == 1..Size
<1>1. l \in Seq(X) /\ K \in SUBSET DOMAIN l /\ \A p \in DOMAIN l : l[p] = p
  <2>1. Size \in Nat /\ l = [p \in 1..Size |-> p] /\ K \subseteq 1..Size
    BY DEF GivenOK, Open
  <2> QED
    BY <2>1
<1>2. {p \in DOMAIN l : l[p] \notin Hit} = K
  <2>1. DOMAIN l = 1..Size
    BY DEF GivenOK
  <2> QED
    BY <1>1, <2>1, Zenon DEF Open
<1>3. Removed(l, Hit) = Picked(l, K)
    BY <1>2, Zenon DEF Removed
<1> HIDE DEF l, K, X
<1>4. Picked(l, K) \in Seq(X) /\ Len(Picked(l, K)) = Cardinality(K)
    BY <1>1, PickedProps
<1>5. \A p \in K : Picked(l, K)[Rank(K, p)] = l[p]
    BY <1>1, PickedAt
<1>6. \A r \in 1..Cardinality(K) : \E p \in K : Rank(K, p) = r
    BY <1>1, PickedAt
<1>7. \A p \in K : Picked(l, K)[Rank(K, p)] = p
    BY <1>1, <1>5
<1> QED
    BY <1>3, <1>4, <1>6, <1>7 DEF l, K, X

\* One iteration of integrateGroupsOneStep.
LEMMA MovingStep ==
    ASSUME GivenOK, Moving, loc.i >= 0, Lists!MoveInterrupted
    PROVE  Moving' /\ listPc' = "moveInterrupted" /\ UNCHANGED given
<1> DEFINE m == Cardinality(Hit)
           o == loc.off
           b == NthHit(m - o + 1)
           d == NthHit(m - o)
           k == d - 1
           P == Lists!Positions(given.list, Hit)
<1>1. /\ loc \in [i : Int, shift : Int, off : Int, front : Seq(1..Size), nAct : 0..Size]
      /\ o \in 1..m /\ loc.i = m - 1 - o
      /\ loc.front = [j \in 1..o |-> NthHit(m - j + 1)]
      /\ loc.shift = b + o - 2 /\ loc.nAct = given.nAct
      /\ \A p \in 1..given.nAct : p \notin Hit
      /\ list \in [1..Size -> 1..Size]
      /\ \A p \in 1..b - 1 : list[p] = p
      /\ \A p \in b + 1..Size : p \in Open => list[m + Rank(Open, p)] = p
    BY DEF Moving
<1>2. m \in Nat /\ o \in Int /\ m - o \in 1..m /\ m - o + 1 \in 1..m /\ Size \in Nat
  <2>1. m \in Nat /\ Size \in Nat
    BY RanksApart
  <2>2. o \in Int /\ loc.i >= 0
    BY <1>1
  <2> HIDE DEF m, o
  <2> QED
    BY <1>1, <2>1, <2>2
<1>3. /\ b \in Hit /\ d \in Hit /\ d < b /\ Rank(Hit, b) = m - o + 1 /\ Rank(Hit, d) = m - o
      /\ b \in 1..Size /\ d \in 1..Size /\ Open \subseteq 1..Size /\ \A p \in Open : p \notin Hit
  <2> HIDE DEF m, o
  <2>1. m - o < m - o + 1
    BY <1>2
  <2>2. \A r \in 1..m : NthHit(r) \in Hit /\ Rank(Hit, NthHit(r)) = r
    BY NthHits DEF m
  <2>3. \A q, r \in 1..m : q < r => NthHit(q) < NthHit(r)
    BY NthHits DEF m
  <2>4. Hit \subseteq 1..Size /\ Open \subseteq 1..Size /\ \A p \in Open : p \notin Hit
    BY DEF GivenOK, Open
  <2> QED
    BY <1>2, <2>1, <2>2, <2>3, <2>4
<1>4. P[loc.i + 1] = k
  <2>1. \A r \in 1..m : P[r] = NthHit(r) - 1
    BY HitsPicked
  <2>2. loc.i + 1 = m - o
    BY <1>1, <1>2
  <2> HIDE DEF m, o, P
  <2> QED
    BY <1>2, <2>1, <2>2
<1>5. /\ listPc' = "moveInterrupted" /\ UNCHANGED given
      /\ loc' = [loc EXCEPT !.i = loc.i - 1, !.shift = k + o, !.off = o + 1,
                            !.front = Append(loc.front, list[k + 1])]
      /\ list' = Lists!ShiftRight(list, k + o, loc.shift, o)
  <2>1. ~(loc.i < 0)
    BY <1>1
  <2> HIDE DEF k, P
  <2> QED
    BY <1>4, <2>1 DEF Lists!MoveInterrupted, Lists!At, Hit, P
<1>6. k + 1 = d /\ list[k + 1] = d
  <2> HIDE DEF b, d
  <2> QED
    BY <1>1, <1>2, <1>3
<1>7. /\ Size' = Size /\ Hit' = Hit /\ Open' = Open
    BY <1>5, GivenKept
<1>8. /\ loc' \in [i : Int, shift : Int, off : Int, front : Seq(1..Size), nAct : 0..Size]
      /\ loc'.off = o + 1 /\ loc'.i = loc.i - 1 /\ loc'.shift = k + o /\ loc'.nAct = loc.nAct
      /\ loc'.front = Append(loc.front, d)
  <2>1. Append(loc.front, d) \in Seq(1..Size) /\ loc.i - 1 \in Int /\ k + o \in Int /\ o + 1 \in Int
    <3>1. loc.front \in Seq(1..Size) /\ loc.i \in Int /\ o \in Int /\ d \in 1..Size
      BY <1>1, <1>2, <1>3
    <3>2. k \in Int /\ o + 1 \in Int /\ loc.i - 1 \in Int
      BY <3>1
    <3> HIDE DEF b, d, k, o, m
    <3> QED
      BY <3>1, <3>2
  <2>2. loc' = [loc EXCEPT !.i = loc.i - 1, !.shift = k + o, !.off = o + 1,
                           !.front = Append(loc.front, d)]
    BY <1>5, <1>6
  <2>3. loc \in [i : Int, shift : Int, off : Int, front : Seq(1..Size), nAct : 0..Size]
    BY <1>1
  <2> DEFINE i == loc.i - 1
             f == Append(loc.front, d)
  <2> HIDE DEF b, d, k, o, m, i, f
  <2>4. loc' = [loc EXCEPT !.i = i, !.shift = k + o, !.off = o + 1, !.front = f]
    BY <2>2 DEF i, f
  <2>5. i \in Int /\ f \in Seq(1..Size)
    BY <2>1 DEF i, f
  <2>6. /\ loc' \in [i : Int, shift : Int, off : Int, front : Seq(1..Size), nAct : 0..Size]
        /\ loc'.off = o + 1 /\ loc'.i = i /\ loc'.shift = k + o /\ loc'.nAct = loc.nAct
        /\ loc'.front = f
    BY <2>1, <2>3, <2>4, <2>5
  <2> QED
    BY <2>6 DEF i, f
<1>9. loc'.front = [j \in 1..o + 1 |-> NthHit(m - j + 1)]
  <2>1. Len(loc.front) = o /\ loc.front \in Seq(1..Size) /\ loc.front = [j \in 1..o |-> NthHit(m - j + 1)]
    <3> DEFINE f == loc.front
    <3>1. f \in Seq(1..Size) /\ f = [j \in 1..o |-> NthHit(m - j + 1)] /\ o \in Nat
      <4>1. f \in Seq(1..Size)
        BY <1>1
      <4>2. f = [j \in 1..o |-> NthHit(m - j + 1)]
        BY <1>1
      <4>3. o \in Nat
        BY <1>1, <1>2
      <4> QED
        BY <4>1, <4>2, <4>3
    <3> HIDE DEF f, o, m
    <3>2. DOMAIN f = 1..o /\ DOMAIN f = 1..Len(f) /\ Len(f) \in Nat
      BY <3>1
    <3>3. Len(f) = o
      BY <3>1, <3>2
    <3> QED
      BY <3>1, <3>3 DEF f
  <2>2. d = NthHit(m - (o + 1) + 1) /\ d \in 1..Size
    <3>1. m - (o + 1) + 1 = m - o
      BY <1>2
    <3> QED
      BY <1>3, <3>1
  <2> HIDE DEF d, o, m
  <2>3. /\ Append(loc.front, d) \in Seq(1..Size) /\ Len(Append(loc.front, d)) = o + 1
        /\ \A j \in 1..o : Append(loc.front, d)[j] = loc.front[j]
        /\ Append(loc.front, d)[o + 1] = d
    BY <1>2, <2>1, <2>2
  <2>4. \A j \in 1..o + 1 : Append(loc.front, d)[j] = NthHit(m - j + 1)
    <3> SUFFICES ASSUME NEW j \in 1..o + 1 PROVE Append(loc.front, d)[j] = NthHit(m - j + 1)
      OBVIOUS
    <3>0. j \in 1..o \/ j = o + 1
      BY <1>2
    <3>1. CASE j \in 1..o
      BY <2>1, <2>3, <3>1
    <3>2. CASE j = o + 1
      BY <2>2, <2>3, <3>2
    <3> QED
      BY <3>0, <3>1, <3>2
  <2>5. Append(loc.front, d) = [j \in 1..o + 1 |-> Append(loc.front, d)[j]]
    BY <2>3
  <2> QED
    BY <1>8, <2>4, <2>5
<1>s. /\ list' \in [1..Size -> 1..Size]
      /\ \A p \in 1..Size : list'[p] = IF p \in d + o + 1..b + o - 1 THEN list[p - o] ELSE list[p]
  <2> DEFINE lo == k + o
             hi == loc.shift
  <2>1. Rank(Hit, Size) <= Rank(Hit, b) + (Size - b) /\ Rank(Hit, Size) = m
    <3>1. b \in 0..Size /\ Size \in 0..Size /\ b <= Size
      BY <1>2, <1>3
    <3> QED
      BY <3>1, RanksApart, OpenRanks
  <2>2. k \in Int /\ k = d - 1 /\ hi = b + o - 2 /\ o \in 1..m
    BY <1>1, <1>3
  <2> HIDE DEF b, d, k, o, m, hi
  <2>3. /\ lo \in Nat /\ hi \in Nat /\ lo <= hi /\ hi < Size /\ o \in Nat \ {0} /\ o <= lo + 1
        /\ lo + 2 = d + o + 1 /\ hi + 1 = b + o - 1
    BY <1>2, <1>3, <2>1, <2>2
  <2>4. list' = Lists!ShiftRight(list, lo, hi, o) /\ list \in [1..Size -> 1..Size]
    BY <1>1, <1>5 DEF hi, o
  <2> DEFINE L == Size
  <2> HIDE DEF lo, L
  <2>6. L \in Nat /\ list \in [1..L -> 1..L] /\ hi < L
    BY <1>2, <2>3, <2>4 DEF L
  <2>7. /\ Lists!ShiftRight(list, lo, hi, o) \in [1..L -> 1..L]
        /\ Lists!ShiftRight(list, lo, hi, o) = Slid(list, L, lo, hi, o)
    <3>1. Slides(L, list, lo, hi, o)
      BY <2>3, <2>6 DEF Slides
    <3> QED
      BY <3>1, ShiftProps
  <2>8. \A p \in 1..L : Slid(list, L, lo, hi, o)[p] =
                           IF p \in lo + 2..hi + 1 THEN list[p - o] ELSE list[p]
    BY DEF Slid
  <2>5. /\ list' \in [1..Size -> 1..Size]
        /\ \A p \in 1..Size : list'[p] = IF p \in lo + 2..hi + 1 THEN list[p - o] ELSE list[p]
    BY <2>4, <2>7, <2>8 DEF L
  <2> QED
    BY <2>3, <2>5
<1>10. \A p \in 1..d - 1 : list'[p] = p
  <2> SUFFICES ASSUME NEW p \in 1..d - 1 PROVE list'[p] = p
    OBVIOUS
  <2> HIDE DEF b, d, k, o, m
  <2>1. p \in 1..Size /\ p \in 1..b - 1 /\ p \notin d + o + 1..b + o - 1
    BY <1>1, <1>2, <1>3
  <2> QED
    BY <1>1, <1>s, <2>1
<1>r. /\ \A q \in 0..Size : Rank(Hit, q) + Rank(Open, q) = q /\ Rank(Hit, q) \in 0..q /\ Rank(Open, q) \in 0..q
      /\ \A p, q \in 0..Size : p <= q => Rank(Hit, p) <= Rank(Hit, q)
      /\ \A p \in 0..Size, q \in Hit : p < q => Rank(Hit, p) < Rank(Hit, q)
      /\ \A p \in 0..Size, q \in Open : p < q => Rank(Open, p) < Rank(Open, q)
      /\ \A p \in Open : Rank(Open, p) \in 1..Cardinality(Open)
      /\ m + Cardinality(Open) = Size /\ Cardinality(Open) \in Nat
    BY RanksApart, OpenRanks
<1>11. \A p \in d + 1..Size : p \in Open => list'[m + Rank(Open, p)] = p
  <2> SUFFICES ASSUME NEW p \in d + 1..Size, p \in Open PROVE list'[m + Rank(Open, p)] = p
    OBVIOUS
  <2> HIDE DEF b, d, k, o, m
  <2>1. p # b /\ p \in 0..Size /\ b \in 0..Size /\ d \in 0..Size /\ p \in Int /\ b \in Int /\ d < p
    BY <1>3
  <2>2. CASE p < b
    <3>1. Rank(Hit, p) = m - o
      BY <1>2, <1>3, <1>r, <2>1, <2>2
    <3>2. m + Rank(Open, p) = p + o
      BY <1>2, <1>r, <2>1, <3>1
    <3>3. p + o \in 1..Size /\ p + o \in d + o + 1..b + o - 1 /\ p \in 1..b - 1 /\ p + o - o = p
      <4>1. m + Rank(Open, p) \in 1..Size
        BY <1>2, <1>r
      <4> QED
        BY <1>2, <1>3, <2>1, <2>2, <3>2, <4>1
    <3> QED
      BY <1>1, <1>s, <3>2, <3>3
  <2>3. CASE b < p
    <3>1. Rank(Open, b) = b - (m - o + 1)
      BY <1>2, <1>3, <1>r, <2>1
    <3>2. Rank(Open, b) < Rank(Open, p)
      BY <1>r, <2>1, <2>3
    <3>3. m + Rank(Open, p) \in 1..Size /\ m + Rank(Open, p) \notin d + o + 1..b + o - 1
      BY <1>2, <1>3, <1>r, <3>1, <3>2
    <3>4. p \in b + 1..Size
      BY <1>2, <1>3, <2>1, <2>3
    <3> QED
      BY <1>1, <1>s, <3>3, <3>4
  <2> QED
    BY <2>1, <2>2, <2>3
<1>12. /\ \A r : NthHit(r)' = NthHit(r)
       /\ m - (o + 1) + 1 = m - o /\ o + 1 \in 1..m /\ loc'.i = m - 1 - (o + 1)
       /\ loc'.shift = d + (o + 1) - 2
  <2>1. \A r : NthHit(r)' = NthHit(r)
    BY <1>7 DEF NthHit
  <2>2. loc'.i = loc.i - 1 /\ loc.i = m - 1 - o /\ loc'.shift = d - 1 + o /\ d \in Int
    BY <1>1, <1>3, <1>8
  <2> HIDE DEF b, d, k, o, m
  <2> QED
    BY <1>2, <2>1, <2>2
<1>13. /\ loc'.nAct = given'.nAct /\ \A p \in 1..given'.nAct : p \notin Hit
    BY <1>1, <1>5, <1>8
<1>14. Moving'
  <2>1. m' = m /\ (NthHit(m - loc.off + 1))' = d
    <3>1. m' = m
      BY <1>7
    <3>2. (NthHit(m - loc.off + 1))' = NthHit(m - (o + 1) + 1)
      BY <1>8, <1>12, <3>1
    <3> QED
      BY <1>12, <3>1, <3>2
  <2> HIDE DEF b, d, k, o
  <2> QED
    BY <1>7, <1>8, <1>9, <1>s, <1>10, <1>11, <1>12, <1>13, <2>1 DEF Moving, m
<1> QED
    BY <1>5, <1>14

\* The end of integrateGroupsOneStep: the last shift makes room for the front.
LEMMA MovingEnd ==
    ASSUME GivenOK, Moving, ~(loc.i >= 0), Lists!MoveInterrupted
    PROVE  listPc' = "done" /\ UNCHANGED given /\ Lists!RemovedInOrder'
           /\ Lists!InterruptedInFront' /\ Lists!NeighboursKept'
<1> DEFINE m == Cardinality(Hit)
           n == Cardinality(Open)
           b == NthHit(1)
           a == given.nAct
           s == Selected(given.list, Hit)
           u == Removed(given.list, Hit)
<1>1. /\ loc \in [i : Int, shift : Int, off : Int, front : Seq(1..Size), nAct : 0..Size]
      /\ loc.off \in 1..m /\ loc.i = m - 1 - loc.off
      /\ loc.front = [j \in 1..loc.off |-> NthHit(m - j + 1)]
      /\ loc.shift = NthHit(m - loc.off + 1) + loc.off - 2 /\ loc.nAct = a
      /\ \A p \in 1..a : p \notin Hit
      /\ list \in [1..Size -> 1..Size]
      /\ \A p \in 1..NthHit(m - loc.off + 1) - 1 : list[p] = p
      /\ \A p \in NthHit(m - loc.off + 1) + 1..Size : p \in Open => list[m + Rank(Open, p)] = p
    BY DEF Moving
<1>2. /\ m \in Nat \ {0} /\ n \in Nat /\ m + n = Size /\ Size \in Nat /\ loc.off = m /\ m - m + 1 = 1
      /\ a \in 0..Size
  <2>1. m \in Nat /\ n \in Nat /\ m + n = Size /\ Size \in Nat
    BY RanksApart
  <2>2. loc.off \in 1..m /\ loc.i = m - 1 - loc.off /\ loc.i \in Int /\ ~(loc.i >= 0)
    BY <1>1
  <2>3. a \in 0..Size
    BY DEF GivenOK
  <2> HIDE DEF m, n, a
  <2> QED
    BY <2>1, <2>2, <2>3
<1>3. /\ loc.front = [j \in 1..m |-> NthHit(m - j + 1)] /\ loc.shift = b + m - 2
      /\ \A p \in 1..b - 1 : list[p] = p
      /\ \A p \in b + 1..Size : p \in Open => list[m + Rank(Open, p)] = p
  <2>1. m - loc.off + 1 = 1
    BY <1>2
  <2> HIDE DEF m, n
  <2> QED
    BY <1>1, <1>2, <2>1
<1>4. /\ b \in Hit /\ Rank(Hit, b) = 1 /\ b \in 1..Size
      /\ \A r \in 1..m : NthHit(r) \in Hit
      /\ \A p \in Hit : Rank(Hit, p) \in 1..m /\ NthHit(Rank(Hit, p)) = p
      /\ Hit \subseteq 1..Size /\ Open \subseteq 1..Size
      /\ \A p \in 1..Size : p \in Open <=> p \notin Hit
  <2>1. 1 \in 1..m
    BY <1>2
  <2>2. \A r \in 1..m : NthHit(r) \in Hit /\ Rank(Hit, NthHit(r)) = r
    BY NthHits
  <2>3. \A p \in Hit : Rank(Hit, p) \in 1..m /\ NthHit(Rank(Hit, p)) = p
    BY NthHits
  <2>4. Hit \subseteq 1..Size /\ Open \subseteq 1..Size /\ \A p \in 1..Size : p \in Open <=> p \notin Hit
    BY DEF GivenOK, Open
  <2> HIDE DEF m, n
  <2> QED
    BY <2>1, <2>2, <2>3, <2>4
<1>r. /\ \A q \in 0..Size : Rank(Hit, q) + Rank(Open, q) = q /\ Rank(Hit, q) \in 0..q /\ Rank(Open, q) \in 0..q
      /\ \A p \in 0..Size, q \in Hit : p < q => Rank(Hit, p) < Rank(Hit, q)
      /\ \A p \in 0..Size, q \in Open : p < q => Rank(Open, p) < Rank(Open, q)
      /\ \A p, q \in 0..Size : p <= q => Rank(Open, p) <= Rank(Open, q)
      /\ \A p \in Open : Rank(Open, p) \in 1..n
    BY RanksApart, OpenRanks
<1>5. /\ listPc' = "done" /\ UNCHANGED given
      /\ list' = [i \in DOMAIN Lists!ShiftRight(list, m - 1, loc.shift, m) |->
                    IF i <= m THEN loc.front[i] ELSE Lists!ShiftRight(list, m - 1, loc.shift, m)[i]]
      /\ loc' = [loc EXCEPT !.nAct = Lists!Min({loc.nAct + m, Len(list)})]
  <2>1. loc.i < 0 /\ loc.off = m
    <3>1. loc.i \in Int
      BY <1>1
    <3> QED
      BY <1>2, <3>1
  <2> QED
    BY <2>1 DEF Lists!MoveInterrupted
<1>6. /\ Lists!ShiftRight(list, m - 1, loc.shift, m) \in [1..Size -> 1..Size]
      /\ \A p \in 1..Size : Lists!ShiftRight(list, m - 1, loc.shift, m)[p] =
                               IF p \in m + 1..b + m - 1 THEN list[p - m] ELSE list[p]
  <2> DEFINE lo == m - 1
             hi == loc.shift
             L == Size
  <2>1. Rank(Hit, Size) <= Rank(Hit, b) + (Size - b) /\ Rank(Hit, Size) = m
    <3>1. b \in 0..Size /\ Size \in 0..Size /\ b <= Size
      BY <1>2, <1>4
    <3> QED
      BY <3>1, RanksApart, OpenRanks
  <2>2. hi = b + m - 2 /\ b \in 1..Size /\ m \in Nat \ {0} /\ Size \in Nat /\ Rank(Hit, b) = 1
    BY <1>2, <1>3, <1>4
  <2> HIDE DEF m, b, hi
  <2>3. /\ lo \in Nat /\ hi \in Nat /\ lo <= hi /\ hi < Size /\ m <= lo + 1
        /\ lo + 2 = m + 1 /\ hi + 1 = b + m - 1
    BY <2>1, <2>2
  <2> HIDE DEF lo, L
  <2>4. L \in Nat /\ list \in [1..L -> 1..L]
    BY <1>1, <1>2 DEF L
  <2>5. lo \in Nat /\ hi \in Nat /\ lo <= hi /\ hi < L /\ m \in Nat \ {0} /\ m <= lo + 1
    BY <2>2, <2>3 DEF L
  <2>6. Slides(L, list, lo, hi, m)
    BY <2>4, <2>5 DEF Slides
  <2>7. /\ Lists!ShiftRight(list, lo, hi, m) \in [1..L -> 1..L]
        /\ Lists!ShiftRight(list, lo, hi, m) = Slid(list, L, lo, hi, m)
    BY <2>6, ShiftProps
  <2>8. \A p \in 1..L : Slid(list, L, lo, hi, m)[p] =
                           IF p \in lo + 2..hi + 1 THEN list[p - m] ELSE list[p]
    BY DEF Slid
  <2> QED
    BY <2>3, <2>6, <2>7, <2>8 DEF L, lo, hi
<1>7. /\ DOMAIN list' = 1..Size
      /\ \A p \in 1..Size : p <= m => list'[p] = loc.front[p]
      /\ \A p \in 1..Size : p \in m + 1..b + m - 1 => list'[p] = list[p - m]
      /\ \A p \in 1..Size : ~(p <= m) /\ p \notin m + 1..b + m - 1 => list'[p] = list[p]
  <2> DEFINE S == Lists!ShiftRight(list, m - 1, loc.shift, m)
  <2>1. S \in [1..Size -> 1..Size]
    BY <1>6
  <2> HIDE DEF S
  <2>2. list' = [i \in 1..Size |-> IF i <= m THEN loc.front[i] ELSE S[i]]
    BY <1>5, <2>1 DEF S
  <2>3. \A p \in m + 1..b + m - 1 : ~(p <= m)
    BY <1>2, <1>4
  <2>4. \A p \in 1..Size : S[p] = IF p \in m + 1..b + m - 1 THEN list[p - m] ELSE list[p]
    BY <1>6 DEF S
  <2> HIDE DEF m, b
  <2> QED
    BY <2>2, <2>3, <2>4
<1>8. \A j \in 1..m : list'[j] = NthHit(m - j + 1)
  <2> HIDE DEF m, n
  <2>1. \A j \in 1..m : j \in 1..Size /\ j <= m
    BY <1>2
  <2> QED
    BY <1>3, <1>7, <2>1
<1>9. \A p \in Open : list'[m + Rank(Open, p)] = p
  <2> SUFFICES ASSUME NEW p \in Open PROVE list'[m + Rank(Open, p)] = p
    OBVIOUS
  <2> HIDE DEF m, n, b
  <2>1. p # b /\ p \in 0..Size /\ b \in 0..Size /\ p \in Int /\ b \in Int /\ 1 <= p
    BY <1>4
  <2>2. m + Rank(Open, p) \in 1..Size /\ ~(m + Rank(Open, p) <= m)
    BY <1>2, <1>r
  <2>3. CASE p < b
    <3>1. Rank(Hit, p) = 0
      BY <1>4, <1>r, <2>1, <2>3
    <3>2. Rank(Open, p) = p
      BY <1>r, <2>1, <3>1
    <3>3. m + p \in m + 1..b + m - 1 /\ p \in 1..b - 1
      BY <1>2, <2>1, <2>3
    <3>4. list'[m + p] = p
      <4> DEFINE q == m + p
      <4>1. q \in 1..Size /\ q \in m + 1..b + m - 1
        BY <2>2, <3>2, <3>3
      <4> HIDE DEF q
      <4>2. list'[q] = list[q - m]
        BY <1>7, <4>1
      <4>3. q = m + p /\ q - m = p /\ list[p] = p
        <5>1. q - m = p
          BY <1>2, <2>1 DEF q
        <5>2. list[p] = p
          BY <1>3, <3>3
        <5> QED
          BY <5>1, <5>2 DEF q
      <4> QED
        BY <4>2, <4>3, Zenon
    <3> QED
      BY <3>2, <3>4, Zenon
  <2>4. CASE b < p
    <3>1. Rank(Open, b) = b - 1
      BY <1>4, <1>r, <2>1
    <3>2. Rank(Open, b) < Rank(Open, p)
      BY <1>r, <2>1, <2>4
    <3>3. m + Rank(Open, p) \notin m + 1..b + m - 1
      BY <1>2, <1>r, <2>1, <3>1, <3>2
    <3>4. p \in b + 1..Size
      BY <1>2, <2>1, <2>4
    <3> QED
      BY <1>3, <1>7, <2>2, <3>3, <3>4
  <2> QED
    BY <2>1, <2>3, <2>4
<1>10. list' = Reverse(s) \o u
  <2> DEFINE X == 1..Size
             R == Reverse(s)
  <2>1. /\ s \in Seq(X) /\ Len(s) = m /\ u \in Seq(X) /\ Len(u) = n
        /\ \A r \in 1..m : s[r] = NthHit(r)
        /\ \A p \in Open : u[Rank(Open, p)] = p
        /\ \A r \in 1..n : \E p \in Open : Rank(Open, p) = r
    BY HitsPicked, OpenPicked
  <2> HIDE DEF m, n, s, u, X
  <2>2. R \in Seq(X) /\ Len(R) = m
    BY <2>1, Reversed
  <2>3. \A j \in 1..m : R[j] = NthHit(m - j + 1)
    <3> SUFFICES ASSUME NEW j \in 1..m PROVE R[j] = NthHit(m - j + 1)
      OBVIOUS
    <3>1. R[j] = s[m - j + 1]
      BY <1>2, <2>1 DEF Reverse
    <3>2. m - j + 1 \in 1..m
      BY <1>2
    <3> QED
      BY <2>1, <3>1, <3>2
  <2> HIDE DEF R
  <2> DEFINE t == R \o u
  <2>4. t \in Seq(X) /\ Len(t) = m + n
    BY <2>1, <2>2, Joined
  <2>5. \A i \in 1..m : t[i] = R[i]
    BY <2>1, <2>2, Joined
  <2>6. \A i \in m + 1..m + n : t[i] = u[i - m]
    BY <2>1, <2>2, Joined
  <2> HIDE DEF t
  <2>7. DOMAIN t = 1..Size
    BY <1>2, <2>4
  <2>8. ASSUME NEW q \in 1..Size PROVE list'[q] = t[q]
    <3>1. CASE q <= m
      <4>1. q \in 1..m
        BY <1>2, <3>1
      <4> QED
        BY <1>8, <2>3, <2>5, <4>1
    <3>2. CASE ~(q <= m)
      <4>1. q - m \in 1..n /\ q \in m + 1..m + n /\ m + (q - m) = q
        BY <1>2, <3>2
      <4>2. PICK p \in Open : Rank(Open, p) = q - m
        BY <2>1, <4>1
      <4>3. list'[q] = p
        BY <1>9, <4>1, <4>2
      <4>4. t[q] = u[q - m] /\ u[q - m] = p
        BY <2>1, <2>6, <4>1, <4>2
      <4> QED
        BY <4>3, <4>4
    <3> QED
      BY <3>1, <3>2
  <2>9. list' = [q \in 1..Size |-> list'[q]] /\ t = [q \in 1..Size |-> t[q]]
    <3>1. list' = [i \in DOMAIN list' |-> list'[i]]
      BY <1>5
    <3>2. t = [q \in DOMAIN t |-> t[q]]
      BY <2>4
    <3> QED
      BY <1>7, <2>7, <3>1, <3>2
  <2>10. list' = t
    BY <2>8, <2>9
  <2> QED
    BY <2>10 DEF t, R
<1>11. a + m <= Size /\ loc'.nAct = a + m
  <2>1. Rank(Hit, a) = 0
    <3>1. {j \in Hit : j <= a} = {}
      <4> SUFFICES ASSUME NEW j \in Hit, j <= a PROVE FALSE
        OBVIOUS
      <4>1. j \in 1..a
        BY <1>2, <1>4
      <4> QED
        BY <1>1, <4>1
    <3> QED
      BY <3>1, FS_EmptySet DEF Rank
  <2> HIDE DEF a, m, n
  <2>2. Rank(Open, a) = a /\ Rank(Open, a) <= Rank(Open, Size) /\ Rank(Open, Size) = n
    <3>1. Size \in 0..Size /\ a <= Size
      BY <1>2
    <3>2. Rank(Open, Size) = n
      BY OpenRanks DEF n
    <3> QED
      BY <1>2, <1>r, <2>1, <3>1, <3>2
  <2>3. Len(list) = Size
    <3>1. list \in [1..Size -> 1..Size] /\ Size \in Nat
      BY <1>1, <1>2
    <3>2. list \in Seq(1..Size) /\ DOMAIN list = 1..Size
      BY <3>1
    <3>3. DOMAIN list = 1..Len(list) /\ Len(list) \in Nat
      BY <3>2
    <3> QED
      BY <1>2, <3>2, <3>3
  <2>4. a + m <= Size
    BY <1>2, <2>2
  <2>5. Lists!Min({a + m, Size}) = a + m
    <3>1. a + m \in {a + m, Size} /\ \A y \in {a + m, Size} : a + m <= y
      BY <1>2, <2>4
    <3>2. \A x \in {a + m, Size} : (\A y \in {a + m, Size} : x <= y) => x = a + m
      BY <1>2, <2>4
    <3> QED
      BY <3>1, <3>2 DEF Lists!Min
  <2>6. loc'.nAct = Lists!Min({a + m, Size})
    BY <1>1, <1>5, <2>3
  <2> QED
    BY <2>4, <2>5, <2>6
<1>13. \A p \in 1..a : p \in Open /\ Rank(Open, p) = p
  <2> SUFFICES ASSUME NEW p \in 1..a PROVE p \in Open /\ Rank(Open, p) = p
    OBVIOUS
  <2>0. p \notin Hit
    BY <1>1
  <2> HIDE DEF a, m, n
  <2>1. p \in 1..Size /\ p \notin Hit
    BY <1>2, <2>0
  <2>2. {j \in Hit : j <= p} = {}
    <3> SUFFICES ASSUME NEW j \in Hit, j <= p PROVE FALSE
      OBVIOUS
    <3>1. j \in 1..a
      BY <1>2, <1>4
    <3> QED
      BY <1>1, <3>1 DEF a
  <2>3. Rank(Hit, p) = 0
    BY <2>2, FS_EmptySet DEF Rank
  <2>4. p \in 0..Size /\ p \in Int
    BY <2>1
  <2> QED
    BY <1>4, <1>r, <2>1, <2>3, <2>4
<1>12. ToSet(SubSeq(list', 1, a + m)) = Hit \cup (1..a)
  <2> HIDE DEF m, n, a
  <2>1. a + m \in 0..Size /\ list' \in Seq(1..Size) /\ Len(list') = Size
    <3>1. list' = [i \in 1..Size |-> list'[i]]
      <4>1. list' = [i \in DOMAIN list' |-> list'[i]]
        BY <1>5
      <4> QED
        BY <1>7, <4>1
    <3>2. \A i \in 1..Size : list'[i] \in 1..Size
      <4> DEFINE X == 1..Size
                 t == Reverse(s) \o u
      <4>1. s \in Seq(X) /\ u \in Seq(X)
        BY HitsPicked, OpenPicked
      <4> HIDE DEF X, s, u
      <4>2. Reverse(s) \in Seq(X)
        BY <4>1, Reversed
      <4>3. t \in Seq(X)
        BY <4>1, <4>2, Joined
      <4> HIDE DEF t
      <4>4. \A i \in DOMAIN t : t[i] \in X
        BY <4>3
      <4>5. list' = t
        BY <1>10 DEF t
      <4> QED
        BY <1>7, <4>4, <4>5 DEF X
    <3> QED
      BY <1>2, <1>11, <3>1, <3>2
  <2>2. ToSet(SubSeq(list', 1, a + m)) = {list'[i] : i \in 1..a + m}
    BY <2>1, Prefix
  <2>3. ASSUME NEW i \in 1..a + m PROVE list'[i] \in Hit \cup (1..a)
    <3>1. CASE i <= m
      <4>1. i \in 1..m /\ m - i + 1 \in 1..m
        BY <1>2, <3>1
      <4> QED
        BY <1>4, <1>8, <4>1
    <3>2. CASE ~(i <= m)
      <4>1. i - m \in 1..a /\ i - m \in 1..Size /\ m + (i - m) = i
        BY <1>2, <3>2
      <4>2. i - m \in Open /\ Rank(Open, i - m) = i - m
        BY <1>13, <4>1
      <4> QED
        BY <1>9, <4>1, <4>2
    <3> QED
      BY <3>1, <3>2
  <2>4. ASSUME NEW p \in Hit PROVE \E i \in 1..a + m : list'[i] = p
    <3> DEFINE r == Rank(Hit, p)
    <3>1. r \in 1..m /\ NthHit(r) = p
      BY <1>4
    <3> HIDE DEF r
    <3>2. m - r + 1 \in 1..m /\ m - (m - r + 1) + 1 = r /\ m - r + 1 \in 1..a + m
      BY <1>2, <3>1
    <3> QED
      BY <1>8, <3>1, <3>2
  <2>5. ASSUME NEW p \in 1..a PROVE \E i \in 1..a + m : list'[i] = p
    <3>1. p \in Open /\ Rank(Open, p) = p
      BY <1>13
    <3>2. m + p \in 1..a + m
      BY <1>2
    <3> QED
      BY <1>9, <3>1, <3>2
  <2> QED
    BY <2>2, <2>3, <2>4, <2>5
<1>14. ToSet(SubSeq(given.list, 1, a)) = 1..a
  <2>1. given.list \in Seq(1..Size) /\ Len(given.list) = Size /\ \A p \in 1..Size : given.list[p] = p
    BY DEF GivenOK
  <2>2. a \in 0..Len(given.list)
    BY <1>2, <2>1
  <2> HIDE DEF a
  <2>3. ToSet(SubSeq(given.list, 1, a)) = {given.list[p] : p \in 1..a}
    BY <2>1, <2>2, Prefix
  <2>4. \A p \in 1..a : given.list[p] = p
    BY <1>2, <2>1
  <2> QED
    BY <2>3, <2>4
<1>15. Lists!InterruptedInFront'
  <2>1. list' = Lists!MovedToFront(given.list, given.marked)
    BY <1>10, SameLists DEF Hit
  <2>2. Lists!ToSet(SubSeq(list', 1, a + m)) = given.marked \cup Lists!ToSet(SubSeq(given.list, 1, a))
    BY <1>12, <1>14, SameLists DEF Hit
  <2> HIDE DEF m
  <2> QED
    BY <1>5, <1>11, <2>1, <2>2 DEF Lists!InterruptedInFront
<1>16. "imove" \notin DOMAIN loc' /\ "last" \notin DOMAIN loc'
    BY <1>1, <1>5
<1> QED
    BY <1>5, <1>15, <1>16 DEF Lists!RemovedInOrder, Lists!NeighboursKept

\* The arguments tried are among those the lemmas are about.
LEMMA GivenInit ==
    ASSUME Lists!Init
    PROVE  /\ GivenOK /\ list = given.list
           /\ listPc = "moveInterrupted" => Hit # {} /\ \A p \in 1..given.nAct : p \notin Hit
<1>1. PICK n \in 0..MaxLength : list = [i \in 1..n |-> i]
    BY DEF Lists!Init, Lists!Lists
<1>2. n \in Nat
    BY ArrayAssumption
<1>3. list \in Seq(1..n) /\ Len(list) = n /\ DOMAIN list = 1..n /\ \A p \in 1..n : list[p] = p
    BY <1>1, <1>2
<1>4. PICK marked \in SUBSET Lists!ToSet(list), a \in 0..Len(list), b \in Nat :
         b \in 0..a /\ given = [list |-> list, marked |-> marked, nAct |-> a, nInit |-> b]
  <2>1. PICK marked \in SUBSET Lists!ToSet(list), a \in 0..Len(list) : \E b \in 0..a :
           given = [list |-> list, marked |-> marked, nAct |-> a, nInit |-> b]
    BY DEF Lists!Init
  <2>2. PICK b \in 0..a :
           given = [list |-> list, marked |-> marked, nAct |-> a, nInit |-> b]
    BY <2>1
  <2>3. b \in Nat
    BY <2>2
  <2> QED
    BY <2>2, <2>3
<1>5. Lists!ToSet(list) = 1..n
  <2>1. ToSet(list) = 1..n
    BY <1>3 DEF ToSet
  <2> QED
    BY <2>1, SameLists
<1>6. given.list = list /\ Hit = marked /\ given.nAct = a /\ given.nInit = b /\ Size = n
    BY <1>3, <1>4 DEF Hit, Size
<1>7. GivenOK
    BY <1>1, <1>2, <1>3, <1>4, <1>5, <1>6 DEF GivenOK
<1>8. ASSUME listPc = "moveInterrupted" PROVE Hit # {} /\ \A p \in 1..given.nAct : p \notin Hit
  <2>1. Hit # {} /\ Hit \cap Lists!ToSet(SubSeq(list, 1, a)) = {}
    BY <1>6, <1>8 DEF Lists!Init, Hit
  <2>2. Lists!ToSet(SubSeq(list, 1, a)) = {list[p] : p \in 1..a}
    <3>1. a \in 0..Len(list)
      BY <1>4
    <3>2. ToSet(SubSeq(list, 1, a)) = {list[p] : p \in 1..a}
      BY <1>3, <3>1, Prefix
    <3> QED
      BY <3>2, SameLists
  <2>3. \A p \in 1..a : list[p] = p
    BY <1>2, <1>3, <1>4
  <2> QED
    BY <1>6, <2>1, <2>2, <2>3
<1> QED
    BY <1>6, <1>7, <1>8

LEMMA ListsInit ==
    ASSUME Lists!Init
    PROVE  ListsInv
<1>1. /\ GivenOK /\ list = given.list /\ Size \in Nat /\ list = [p \in 1..Size |-> p]
      /\ list \in [1..Size -> 1..Size] /\ \A p \in 1..Size : list[p] = p
      /\ Len(list) = Size /\ Open \subseteq 1..Size
  <2>1. GivenOK /\ list = given.list
    BY GivenInit
  <2>2. Size \in Nat /\ list = [p \in 1..Size |-> p] /\ Open \subseteq 1..Size
    BY <2>1 DEF GivenOK, Open
  <2>3. Len(list) = Size
    BY <2>1 DEF Size
  <2> QED
    BY <2>1, <2>2, <2>3
<1>2. listPc \in {"removeDtIndex", "moveInterrupted", "removeNBAddress"}
    BY DEF Lists!Init
<1>3. ASSUME listPc = "removeDtIndex" PROVE Removing
  <2>1. loc = [i |-> 0, imove |-> 0, n |-> Size, nAct |-> given.nAct, nInit |-> given.nInit]
    BY <1>1, <1>3 DEF Lists!Init
  <2>2. /\ loc.i = 0 /\ loc.imove = 0 /\ loc.n = Size /\ loc.nAct = given.nAct
        /\ loc.nInit = given.nInit
        /\ loc \in [i : Nat, imove : Nat, n : Nat, nAct : Int, nInit : Int]
    <3>1. given.nAct \in Int /\ given.nInit \in Int
      BY <1>1 DEF GivenOK
    <3> QED
      BY <1>1, <2>1, <3>1
  <2>3. Rank(Open, 0) = 0 /\ Seen = 0
    BY <1>1, <2>2, OpenRanks DEF Seen
  <2>4. \A n \in 0..Size : Counted(n) = n
    BY <2>2, <2>3 DEF Counted
  <2>5. given.nAct \in 0..Size /\ given.nInit \in 0..Size
    BY <1>1 DEF GivenOK
  <2> QED
    BY <1>1, <2>2, <2>3, <2>4, <2>5 DEF Removing
<1>4. ASSUME listPc = "moveInterrupted" PROVE Moving
  <2> DEFINE m == Cardinality(Hit)
             b == NthHit(m)
             P == Lists!Positions(given.list, Hit)
  <2>0. loc = [i |-> Len(P) - 2, shift |-> Lists!Last(P), off |-> 1,
               front |-> <<Lists!At(list, Lists!Last(P))>>, nAct |-> given.nAct]
    BY <1>1, <1>4 DEF Lists!Init, Hit
  <2>1. m \in Nat \ {0}
    <3>1. Rank(Hit, Size) = m /\ Hit \subseteq 1..Size /\ \A p \in Hit : Rank(Hit, p) \in 1..m
      BY <1>1, OpenRanks DEF GivenOK
    <3>2. m \in Nat /\ Hit # {}
      BY <1>1, <1>4, GivenInit, RanksApart
    <3>3. PICK p \in Hit : Rank(Hit, p) \in 1..m
      BY <3>1, <3>2
    <3> HIDE DEF m
    <3> QED
      BY <3>2, <3>3
  <2>2. b \in Hit /\ b \in 1..Size /\ Rank(Hit, b) = m
    <3>1. m \in 1..m
      BY <2>1
    <3> QED
      BY <1>1, <3>1, NthHits DEF GivenOK
  <2>3. Len(P) = m /\ P[m] = b - 1
    <3>1. m \in 1..m
      BY <2>1
    <3> QED
      BY <1>1, <3>1, HitsPicked
  <2> HIDE DEF m, b, P
  <2>4. Lists!Last(P) = b - 1 /\ Lists!At(list, b - 1) = b
    <3>1. b - 1 + 1 = b
      BY <2>2
    <3> QED
      BY <1>1, <2>2, <2>3, <3>1 DEF Lists!Last, Lists!At
  <2>5. loc = [i |-> m - 2, shift |-> b - 1, off |-> 1, front |-> <<b>>, nAct |-> given.nAct]
    BY <2>0, <2>3, <2>4
  <2>6. /\ loc \in [i : Int, shift : Int, off : Int, front : Seq(1..Size), nAct : 0..Size]
        /\ loc.off = 1 /\ loc.i = m - 2 /\ loc.shift = b - 1 /\ loc.front = <<b>>
        /\ loc.nAct = given.nAct
    <3>1. given.nAct \in 0..Size
      BY <1>1 DEF GivenOK
    <3>2. <<b>> \in Seq(1..Size) /\ m - 2 \in Int /\ b - 1 \in Int
      BY <2>1, <2>2
    <3> QED
      BY <2>5, <3>1, <3>2
  <2>7. m - 1 + 1 = m /\ m - 2 = m - 1 - 1 /\ b - 1 = b + 1 - 2 /\ 1 \in 1..m
    BY <2>1, <2>2
  <2>8. <<b>> = [j \in 1..1 |-> NthHit(m - j + 1)]
    <3>1. \A j \in 1..1 : NthHit(m - j + 1) = b
      BY <2>7 DEF b
    <3> QED
      BY <3>1
  <2>9. \A p \in b + 1..Size : p \in Open => list[m + Rank(Open, p)] = p
    <3> SUFFICES ASSUME NEW p \in b + 1..Size PROVE list[m + Rank(Open, p)] = p
      OBVIOUS
    <3>1. p \in 0..Size /\ b \in 0..Size /\ Size \in 0..Size /\ b <= p /\ p <= Size /\ p \in 1..Size
      BY <1>1, <2>2
    <3>2. Rank(Hit, b) <= Rank(Hit, p) /\ Rank(Hit, p) <= Rank(Hit, Size) /\ Rank(Hit, Size) = m
      BY <1>1, <3>1, OpenRanks DEF m
    <3>3. Rank(Hit, p) + Rank(Open, p) = p /\ Rank(Hit, p) \in 0..p /\ Rank(Open, p) \in 0..p
      BY <1>1, <3>1, RanksApart, OpenRanks
    <3>4. m + Rank(Open, p) = p
      BY <2>1, <2>2, <3>2, <3>3
    <3> QED
      BY <1>1, <3>1, <3>4
  <2>10. \A p \in 1..given.nAct : p \notin Hit
    BY <1>4, GivenInit
  <2>11. \A p \in 1..b - 1 : list[p] = p
    BY <1>1, <2>2
  <2>12. NthHit(m - loc.off + 1) = b
    BY <2>6, <2>7 DEF b
  <2> QED
    BY <1>1, <2>6, <2>7, <2>8, <2>9, <2>10, <2>11, <2>12 DEF Moving, m
<1>5. ASSUME listPc = "removeNBAddress" PROVE Replacing
  <2>1. loc = [k |-> 0, last |-> Size - 1]
    BY <1>1, <1>5 DEF Lists!Init
  <2>2. loc.k = 0 /\ loc.last = Size - 1 /\ loc \in [k : Nat, last : Int] /\ Size - 1 + 1 = Size
    BY <1>1, <2>1
  <2> QED
    BY <1>1, <2>2 DEF Replacing
<1> QED
    BY <1>1, <1>2, <1>3, <1>4, <1>5 DEF ListsInv

LEMMA ListsStep ==
    ASSUME ListsInv, Lists!Next
    PROVE  ListsInv'
<1>1. GivenOK
    BY DEF ListsInv
<1>2. CASE Lists!RemoveDtIndex
  <2>1. listPc = "removeDtIndex" /\ Removing
    BY <1>2 DEF Lists!RemoveDtIndex, ListsInv
  <2>2. CASE loc.i < loc.n
    <3>1. Removing' /\ listPc' = "removeDtIndex" /\ UNCHANGED given
      BY <1>1, <1>2, <2>1, <2>2, RemovingStep
    <3> QED
      BY <1>1, <3>1, GivenKept DEF ListsInv
  <2>3. CASE ~(loc.i < loc.n)
    <3>1. listPc' = "done" /\ UNCHANGED given /\ Lists!RemovedInOrder'
           /\ Lists!InterruptedInFront' /\ Lists!NeighboursKept'
      BY <1>1, <1>2, <2>1, <2>3, RemovingEnd
    <3> QED
      BY <1>1, <3>1, GivenKept DEF ListsInv
  <2> QED
    BY <2>2, <2>3
<1>3. CASE Lists!MoveInterrupted
  <2>1. listPc = "moveInterrupted" /\ Moving
    BY <1>3 DEF Lists!MoveInterrupted, ListsInv
  <2>2. CASE loc.i >= 0
    <3>1. Moving' /\ listPc' = "moveInterrupted" /\ UNCHANGED given
      BY <1>1, <1>3, <2>1, <2>2, MovingStep
    <3> QED
      BY <1>1, <3>1, GivenKept DEF ListsInv
  <2>3. CASE ~(loc.i >= 0)
    <3>1. listPc' = "done" /\ UNCHANGED given /\ Lists!RemovedInOrder'
           /\ Lists!InterruptedInFront' /\ Lists!NeighboursKept'
      BY <1>1, <1>3, <2>1, <2>3, MovingEnd
    <3> QED
      BY <1>1, <3>1, GivenKept DEF ListsInv
  <2> QED
    BY <2>2, <2>3
<1>4. CASE Lists!RemoveNBAddress
  <2>1. listPc = "removeNBAddress" /\ Replacing
    BY <1>4 DEF Lists!RemoveNBAddress, ListsInv
  <2>2. CASE ~(loc.k > loc.last)
    <3>1. Replacing' /\ listPc' = "removeNBAddress" /\ UNCHANGED given
      BY <1>1, <1>4, <2>1, <2>2, ReplacingStep
    <3> QED
      BY <1>1, <3>1, GivenKept DEF ListsInv
  <2>3. CASE loc.k > loc.last
    <3>1. listPc' = "done" /\ UNCHANGED given /\ Lists!RemovedInOrder'
           /\ Lists!InterruptedInFront' /\ Lists!NeighboursKept'
      BY <1>1, <1>4, <2>1, <2>3, ReplacingEnd
    <3> QED
      BY <1>1, <3>1, GivenKept DEF ListsInv
  <2> QED
    BY <2>2, <2>3
<1>5. CASE Lists!Return
  <2>1. listPc = "done" /\ UNCHANGED lists
    BY <1>5 DEF Lists!Return, Lists!vars, lists
  <2>2. Lists!RemovedInOrder' /\ Lists!InterruptedInFront' /\ Lists!NeighboursKept'
    BY <2>1 DEF ListsInv, lists, Lists!RemovedInOrder, Lists!InterruptedInFront, Lists!NeighboursKept
  <2>3. UNCHANGED given /\ listPc' = "done"
    BY <2>1 DEF lists
  <2> QED
    BY <1>1, <2>2, <2>3, GivenKept DEF ListsInv
<1> QED
    BY <1>2, <1>3, <1>4, <1>5 DEF Lists!Next

LEMMA ListsUnchanged ==
    ASSUME ListsInv, UNCHANGED lists
    PROVE  ListsInv'
<1>1. GivenOK /\ UNCHANGED <<given, list, loc, listPc>>
    BY DEF ListsInv, lists
<1>2. GivenOK' /\ Size' = Size /\ Hit' = Hit /\ Open' = Open
    BY <1>1, GivenKept
<1>3. Removing => Removing'
  <2>1. \A n : Counted(n)' = Counted(n)
    BY <1>1, <1>2 DEF Counted, Seen
  <2> QED
    BY <1>1, <1>2, <2>1 DEF Removing, Seen
<1>4. Moving => Moving'
  <2>1. \A r : NthHit(r)' = NthHit(r)
    BY <1>2 DEF NthHit
  <2> QED
    BY <1>1, <1>2, <2>1 DEF Moving
<1>5. Replacing => Replacing'
    BY <1>1, <1>2 DEF Replacing
<1>6. /\ Lists!RemovedInOrder => Lists!RemovedInOrder'
      /\ Lists!InterruptedInFront => Lists!InterruptedInFront'
      /\ Lists!NeighboursKept => Lists!NeighboursKept'
    BY <1>1 DEF Lists!RemovedInOrder, Lists!InterruptedInFront, Lists!NeighboursKept
<1> QED
    BY <1>1, <1>2, <1>3, <1>4, <1>5, <1>6 DEF ListsInv

\* The loops that remove and move entries of index lists in place compute what IndexLists
\* says, for lists of every length: removeDtIndexFromTable keeps the order and lowers both
\* prefix counts, the shifts by growing offsets of integrateGroupsOneStep lose no entry,
\* removeNB*AddressFromTable keeps each unmarked address once.
THEOREM ListsAreEdited == PartsSpec => []ListsEdited
<1> DEFINE Inv == part = "lists" => ListsInv
<1>1. PartsInit => Inv
  <2> SUFFICES ASSUME PartsInit, part = "lists" PROVE ListsInv
    OBVIOUS
  <2> QED
    BY ListsInit DEF PartsInit
<1>2. Inv /\ [PartsNext]_parts => Inv'
  <2> SUFFICES ASSUME Inv, [PartsNext]_parts, part' = "lists" PROVE ListsInv'
    OBVIOUS
  <2>1. part = "lists" /\ (UNCHANGED lists \/ Lists!Next)
    BY DEF PartsNext, parts, ScheduleTurn, BlockTurn, ListsTurn, ArrayTurn
  <2> QED
    BY <2>1, ListsUnchanged, ListsStep
<1>3. Inv => ListsEdited
  <2> SUFFICES ASSUME ListsInv PROVE Lists!RemovedInOrder /\ Lists!InterruptedInFront /\ Lists!NeighboursKept
    BY DEF ListsEdited
  <2>1. CASE listPc = "done"
    BY <2>1 DEF ListsInv
  <2>2. CASE listPc # "done"
    BY <2>2 DEF Lists!RemovedInOrder, Lists!InterruptedInFront, Lists!NeighboursKept
  <2> QED
    BY <2>1, <2>2
<1> HIDE DEF Inv
<1> QED
    BY <1>1, <1>2, <1>3, PTL DEF PartsSpec

-----------------------------------------------------------------------------
(* The array of new groups *)

Places == 0..NParticle - 1
Cells == [Places -> {-1} \cup Places]

\* The copy entry by entry.
CopySteps(C, a, to, from, n) ==
    /\ C[0] = a
    /\ \A k \in 1..n : C[k] = [C[k - 1] EXCEPT ![to + (k - 1)] = C[k - 1][from + (k - 1)]]
    /\ C[n] = Array!Copied(a, to, from, n)

LEMMA CopyChain ==
    ASSUME NEW a \in Cells, NEW to \in Nat, NEW from \in Nat, NEW n \in Nat,
           from <= to, to + n <= NParticle
    PROVE  \E C : CopySteps(C, a, to, from, n)
<1> DEFINE B == Cells
           j == [k \in 1..n |-> k - 1]
           Op(x, m) == [m EXCEPT ![to + j[x]] = m[from + j[x]]]
           F == [k \in 1..n |-> [m \in B |-> Op(k, m)]]
           Solves(g) == g = [s \in SUBSET (1..n) |->
                               IF s = {} THEN a ELSE Op(Array!Max(s), g[s \ {Array!Max(s)}])]
           iter == CHOOSE g : Solves(g)
<1>1. \A k \in 1..n : j[k] = k - 1
    OBVIOUS
<1>2. Array!Copied(a, to, from, n) = iter[1..n]
  <2>1. DOMAIN j = 1..n
    OBVIOUS
  <2> QED
    BY <2>1, Zenon DEF Array!Copied, Array!FoldLeft, Array!MapThenFoldSet
<1>3. \A k \in 1..n : Op(k, iter[1..k - 1]) =
         [iter[1..k - 1] EXCEPT ![to + (k - 1)] = iter[1..k - 1][from + (k - 1)]]
    BY <1>1
<1>4. F \in [1..n -> [B -> B]] /\ \A k \in 1..n, m \in B : F[k][m] = Op(k, m)
  <2>1. ASSUME NEW k \in 1..n, NEW m \in B PROVE Op(k, m) \in B
    <3>1. j[k] = k - 1 /\ from + (k - 1) \in Places
      BY <1>1, ArrayAssumption DEF Places
    <3> HIDE DEF j
    <3>2. m[from + j[k]] \in {-1} \cup Places
      BY <3>1 DEF Cells
    <3> QED
      BY <3>2 DEF Cells
  <2> HIDE DEF Op, B
  <2> QED
    BY <2>1
<1>5. \A s : Array!Max(s) = Max(s)
    BY DEF Array!Max, Max
<1> HIDE DEF Op, j, F, Solves, B
<1>6. a \in B
    BY DEF B
<1>7. PICK g : FoldsBy(g, n, a, F) /\ \A s \in SUBSET (1..n) : g[s] \in B
    BY <1>4, <1>6, FoldExists
<1>8. Solves(g)
  <2>1. ASSUME NEW s \in SUBSET (1..n), s # {}
        PROVE  F[Max(s)][g[s \ {Max(s)}]] = Op(Array!Max(s), g[s \ {Array!Max(s)}])
    <3>1. Max(s) \in 1..n /\ s \ {Max(s)} \in SUBSET (1..n)
      BY <2>1, Greatest
    <3>2. g[s \ {Max(s)}] \in B
      BY <1>7, <3>1
    <3> QED
      BY <1>4, <1>5, <3>1, <3>2
  <2> QED
    BY <1>7, <2>1 DEF Solves, FoldsBy
<1>9. Solves(iter)
    BY <1>8
<1> HIDE DEF iter
<1>10. iter[1..0] = a
  <2>1. (1..0) = {} /\ {} \in SUBSET (1..n)
    OBVIOUS
  <2> QED
    BY <1>9, <2>1 DEF Solves
<1>11. \A k \in 1..n : iter[1..k] = Op(k, iter[1..k - 1])
  <2> SUFFICES ASSUME NEW k \in 1..n PROVE iter[1..k] = Op(k, iter[1..k - 1])
    OBVIOUS
  <2>0. k \in Nat \ {0} /\ k <= n
    OBVIOUS
  <2>1. (1..k) \in SUBSET (1..n) /\ 1..k # {}
    <3>1. \A i \in 1..k : i \in 1..n
      BY <2>0
    <3>2. k \in 1..k
      BY <2>0
    <3> QED
      BY <3>1, <3>2
  <2>2. Max(1..k) = k /\ (1..k) \ {k} = 1..k - 1
    BY <2>0, GreatestUpTo
  <2> QED
    BY <1>5, <1>9, <2>1, <2>2 DEF Solves
<1> DEFINE C == [k \in 0..n |-> iter[1..k]]
<1>12. /\ C[0] = a
       /\ \A k \in 1..n : C[k] = iter[1..k] /\ C[k - 1] = iter[1..k - 1]
       /\ C[n] = iter[1..n]
    BY <1>10
<1> HIDE DEF C
<1>13. CopySteps(C, a, to, from, n)
    BY <1>2, <1>3, <1>11, <1>12 DEF CopySteps
<1> QED
    BY <1>13

\* A window from..to-1 of a has moved by n places, its entries turned round: whatever it
\* overlaps, none is lost and none is doubled.
Turned(a, b, to, from, n) ==
    /\ b \in Cells
    /\ \A p \in Places : p \notin to..to + n - 1 => b[p] = a[p]
    /\ \A p \in from + n..to + n - 1 : \E q \in from..to - 1 : b[p] = a[q]
    /\ \A q \in from..to - 1 : \E p \in from + n..to + n - 1 : b[p] = a[q]
    /\ (\A p, q \in from..to - 1 : a[p] = a[q] => p = q) =>
          \A p, q \in from + n..to + n - 1 : b[p] = b[q] => p = q

LEMMA CopyProps ==
    ASSUME NEW a \in Cells, NEW to \in Nat, NEW from \in Nat, NEW n \in Nat,
           from < to, to + n <= NParticle
    PROVE  Turned(a, Array!Copied(a, to, from, n), to, from, n)
<1> DEFINE Apart == \A p, q \in from..to - 1 : a[p] = a[q] => p = q
           After(d, k) ==
             /\ d \in Cells
             /\ \A p \in Places : p \notin to..to + k - 1 => d[p] = a[p]
             /\ \A p \in from + k..to + k - 1 : \E q \in from..to - 1 : d[p] = a[q]
             /\ \A q \in from..to - 1 : \E p \in from + k..to + k - 1 : d[p] = a[q]
             /\ Apart => \A p, q \in from + k..to + k - 1 : d[p] = d[q] => p = q
           b == Array!Copied(a, to, from, n)
<1>0. from <= to
    OBVIOUS
<1>1. PICK C : CopySteps(C, a, to, from, n)
  <2> HIDE DEF After, Apart, b
  <2> QED
    BY <1>0, CopyChain
<1>2. After(C[0], 0)
    BY <1>1 DEF CopySteps
<1>3. ASSUME NEW k \in 1..n, After(C[k - 1], k - 1) PROVE After(C[k], k)
  <2> DEFINE m == C[k - 1]
             w == to + (k - 1)
             v == from + (k - 1)
  <2>1. /\ w \in Places /\ v \in Places /\ v < w /\ v \in Int /\ w \in Int
        /\ from + k = v + 1 /\ to + k - 1 = w /\ from + (k - 1) = v /\ to + (k - 1) - 1 = w - 1
    BY ArrayAssumption DEF Places
  <2>2. C[k] = [m EXCEPT ![w] = m[v]]
    BY <1>1 DEF CopySteps
  <2>3. /\ m \in Cells
        /\ \A p \in Places : p \notin to..w - 1 => m[p] = a[p]
        /\ \A p \in v..w - 1 : \E q \in from..to - 1 : m[p] = a[q]
        /\ \A q \in from..to - 1 : \E p \in v..w - 1 : m[p] = a[q]
        /\ Apart => \A p, q \in v..w - 1 : m[p] = m[q] => p = q
    BY <1>3, <2>1
  <2> HIDE DEF m, w, v, Apart
  <2>4. C[k] \in Cells /\ \A p \in Places : C[k][p] = IF p = w THEN m[v] ELSE m[p]
    <3>1. m[v] \in {-1} \cup Places /\ DOMAIN m = Places
      BY <2>1, <2>3 DEF Cells
    <3> QED
      BY <2>1, <2>2, <2>3, <3>1 DEF Cells
  <2>5. \A p \in Places : p \notin to..w => C[k][p] = a[p]
    <3> SUFFICES ASSUME NEW p \in Places, p \notin to..w PROVE C[k][p] = a[p]
      OBVIOUS
    <3>1. p # w /\ p \notin to..w - 1
      BY <2>1 DEF w, Places
    <3> QED
      BY <2>3, <2>4, <3>1
  <2>6. \A p \in v + 1..w : p \in Places /\ (p # w => p \in v..w - 1)
    BY <2>1, ArrayAssumption DEF Places
  <2>7. \A p \in v..w - 1 : p \in Places /\ p # w /\ (p # v => p \in v + 1..w)
    BY <2>1, ArrayAssumption DEF Places
  <2>8. v \in v..w - 1 /\ w \in v + 1..w
    BY <2>1
  <2>9. \A p \in v + 1..w : \E q \in from..to - 1 : C[k][p] = a[q]
    BY <2>3, <2>4, <2>6, <2>8
  <2>10. \A q \in from..to - 1 : \E p \in v + 1..w : C[k][p] = a[q]
    <3> SUFFICES ASSUME NEW q \in from..to - 1 PROVE \E p \in v + 1..w : C[k][p] = a[q]
      OBVIOUS
    <3>1. PICK p \in v..w - 1 : m[p] = a[q]
      BY <2>3
    <3>2. CASE p = v
      BY <2>4, <2>1, <2>8, <3>1, <3>2
    <3>3. CASE p # v
      BY <2>4, <2>7, <3>1, <3>3
    <3> QED
      BY <3>2, <3>3
  <2>11. Apart => \A p, q \in v + 1..w : C[k][p] = C[k][q] => p = q
    <3> SUFFICES ASSUME Apart, NEW p \in v + 1..w, NEW q \in v + 1..w, C[k][p] = C[k][q] PROVE p = q
      OBVIOUS
    <3>1. v \notin v + 1..w
      BY <2>1
    <3> QED
      BY <2>3, <2>4, <2>6, <2>8, <3>1
  <2> QED
    BY <2>1, <2>4, <2>5, <2>9, <2>10, <2>11
<1> HIDE DEF After
<1>4. \A k \in 0..n : After(C[k], k)
  <2> DEFINE S == {k \in 0..n : After(C[k], k)}
  <2>1. 0 \in S /\ \A k \in 1..n : k - 1 \in S => k \in S
    BY <1>2, <1>3
  <2>2. \A k \in 0..n : k \in S
    <3> HIDE DEF S
    <3> QED
      BY <2>1, Upwards
  <2> QED
    BY <2>2
<1>5. After(b, n)
  <2>1. n \in 0..n /\ C[n] = b
    BY <1>1 DEF CopySteps
  <2> QED
    BY <1>4, <2>1
<1> QED
    BY <1>5 DEF After, Turned

Slots == NParticle..NParticle + NGroup - 1
Things == Places \cup Slots
Members(x) == {member[x][i] : i \in 1..Len(member[x])}
Held(x) == IF x \in Slots THEN Members(x) ELSE {x}
PutIn(g) == UNION {Held(x) : x \in {y \in Things : used[y] = g}}

\* The end of the used part of the array, and where group g starts or, after the last
\* group, the free part.
Total == IF arrayPc = "checkNewGroup" THEN nParticle ELSE offset[nGroup]
Top(g) == IF g = nGroup THEN Total ELSE offset[g]
Filled(g) == {origin[p] : p \in Top(g)..Top(g + 1) - 1}

ArrayType ==
    /\ arrayPc \in {"checkNewGroup", "breakGroups"}
    /\ member \in [Slots -> Seq(Places)]
    /\ broken \subseteq Slots
    /\ origin \in Cells
    /\ offset \in [0..NParticle -> Nat \cup {-1}]
    /\ nParticle \in 0..NParticle /\ nGroup \in 0..NParticle
    /\ used \in [Things -> -2..NParticle]
    /\ noAdd \in Seq(Slots)

MembersApart ==
    /\ \A x \in Slots : IsInjective(member[x]) /\ Len(member[x]) > 1
    /\ \A x, y \in Slots : x # y => Members(x) \cap Members(y) = {}

UsedOK ==
    /\ \A x \in Things : used[x] < nGroup
    /\ \A x \in broken : used[x] = -2
    /\ \A x \in Slots : \A p \in Members(x) : used[p] = -2

TopsOK ==
    /\ Top(0) = 0
    /\ \A g \in 0..nGroup : Top(g) \in Nat /\ g <= Top(g)
    /\ \A g, h \in 0..nGroup : g < h => Top(g) < Top(h)
    /\ Total <= NParticle
    /\ arrayPc = "checkNewGroup" => \A g \in 0..nGroup - 1 : \E x \in Things : used[x] = g

FillOK ==
    /\ \A p \in 0..Total - 1 : origin[p] \in Places
    /\ \A p, q \in 0..Total - 1 : origin[p] = origin[q] => p = q
    /\ \A g \in 0..nGroup - 1 : PutIn(g) # {} => Filled(g) = PutIn(g)
    /\ \A x \in broken : \A p \in 0..Total - 1 : origin[p] \notin Members(x)

NoAddOK == IsInjective(noAdd) /\ ToSet(noAdd) = {x \in Slots : used[x] >= 0}

ArrayInv ==
    ArrayType /\ MembersApart /\ UsedOK /\ TopsOK /\ FillOK /\ NoAddOK

\* a is the array with n free places at h: what was in front is as it was, what was
\* behind has moved by n places, each segment onto itself.
Room(a, h, n) ==
    /\ a \in Cells
    /\ \A p \in 0..h - 1 : a[p] = origin[p]
    /\ \A p \in h + n..Total + n - 1 : \E q \in h..Total - 1 : a[p] = origin[q]
    /\ \A p, q \in h + n..Total + n - 1 : a[p] = a[q] => p = q
    /\ \A k \in 0..nGroup - 1 : Top(k) >= h =>
          /\ \A p \in Top(k) + n..Top(k + 1) + n - 1 : \E q \in Top(k)..Top(k + 1) - 1 : a[p] = origin[q]
          /\ \A q \in Top(k)..Top(k + 1) - 1 : \E p \in Top(k) + n..Top(k + 1) + n - 1 : a[p] = origin[q]

\* One copy moves the free places in front of one more segment.
LEMMA RoomMoves ==
    ASSUME ArrayInv, NEW k \in 1..nGroup, NEW n \in Nat, Total + n <= NParticle,
           NEW a, Room(a, Top(k), n), NEW b, b = Array!Copied(a, Top(k), Top(k - 1), n)
    PROVE  Room(b, Top(k - 1), n)
<1> DEFINE to == Top(k)
           from == Top(k - 1)
           T == Total
<1>1. /\ nGroup \in Nat /\ NParticle \in Nat /\ k - 1 \in 0..nGroup /\ k - 1 \in 0..nGroup - 1
      /\ k \in 0..nGroup /\ nGroup \in 0..nGroup /\ T = Top(nGroup)
  <2>1. nGroup \in Nat /\ NParticle \in Nat
    BY ArrayAssumption DEF ArrayInv, ArrayType
  <2> QED
    BY <2>1 DEF Top
<1>2. /\ \A g \in 0..nGroup : Top(g) \in Nat
      /\ \A g, h \in 0..nGroup : g < h => Top(g) < Top(h)
    BY DEF ArrayInv, TopsOK
<1>3. \A p, q \in 0..T - 1 : origin[p] = origin[q] => p = q
    BY DEF ArrayInv, FillOK
<1>4. to \in Nat /\ from \in Nat /\ T \in Nat /\ from < to /\ to <= T
  <2>1. k - 1 < k /\ (k = nGroup \/ k < nGroup)
    BY <1>1
  <2>2. Top(k - 1) < Top(k) /\ Top(k) \in Nat /\ Top(k - 1) \in Nat /\ Top(nGroup) \in Nat
    BY <1>1, <1>2, <2>1
  <2>3. Top(k) <= Top(nGroup)
    BY <1>1, <1>2, <2>1, <2>2
  <2> QED
    BY <1>1, <2>2, <2>3
<1>5. /\ a \in Cells
      /\ \A p \in 0..to - 1 : a[p] = origin[p]
      /\ \A p \in to + n..T + n - 1 : \E q \in to..T - 1 : a[p] = origin[q]
      /\ \A p, q \in to + n..T + n - 1 : a[p] = a[q] => p = q
    BY DEF Room
<1>6. \A h \in 0..nGroup - 1 : Top(h) >= to =>
          /\ \A p \in Top(h) + n..Top(h + 1) + n - 1 : \E q \in Top(h)..Top(h + 1) - 1 : a[p] = origin[q]
          /\ \A q \in Top(h)..Top(h + 1) - 1 : \E p \in Top(h) + n..Top(h + 1) + n - 1 : a[p] = origin[q]
    BY DEF Room
<1> HIDE DEF to, from, T
<1>t. T + n <= NParticle /\ b = Array!Copied(a, to, from, n)
    BY DEF T, to, from
<1>7. \A p \in from..to - 1 : a[p] = origin[p] /\ p \in 0..T - 1
    BY <1>4, <1>5
<1>8. \A p, q \in from..to - 1 : a[p] = a[q] => p = q
    BY <1>3, <1>7
<1>9. /\ b \in Cells
      /\ \A p \in Places : p \notin to..to + n - 1 => b[p] = a[p]
      /\ \A p \in from + n..to + n - 1 : \E q \in from..to - 1 : b[p] = a[q]
      /\ \A q \in from..to - 1 : \E p \in from + n..to + n - 1 : b[p] = a[q]
      /\ \A p, q \in from + n..to + n - 1 : b[p] = b[q] => p = q
  <2>1. to + n <= NParticle
    BY <1>1, <1>4, <1>t
  <2>2. a \in Cells /\ to \in Nat /\ from \in Nat /\ from < to
    BY <1>4, <1>5
  <2>3. Turned(a, b, to, from, n)
    BY <1>t, <2>1, <2>2, CopyProps
  <2> QED
    BY <1>8, <2>3 DEF Turned
<1>10. \A p \in 0..from - 1 : b[p] = origin[p]
  <2> SUFFICES ASSUME NEW p \in 0..from - 1 PROVE b[p] = origin[p]
    OBVIOUS
  <2>1. p \in Places /\ p \notin to..to + n - 1 /\ p \in 0..to - 1
    BY <1>1, <1>4, <1>t DEF Places
  <2> QED
    BY <1>5, <1>9, <2>1
\* behind the window, or in it
<1>11. ASSUME NEW p \in from + n..T + n - 1
       PROVE  \/ p \in to + n..T + n - 1 /\ b[p] = a[p]
              \/ p \in from + n..to + n - 1
  <2>1. CASE p < to + n
    BY <1>4, <2>1
  <2>2. CASE ~(p < to + n)
    <3>1. p \in Places /\ p \notin to..to + n - 1 /\ p \in to + n..T + n - 1
      BY <1>1, <1>4, <1>t, <2>2 DEF Places
    <3> QED
      BY <1>9, <3>1
  <2> QED
    BY <2>1, <2>2
<1>12. ASSUME NEW p \in from + n..to + n - 1 PROVE \E q \in from..to - 1 : b[p] = origin[q]
    BY <1>7, <1>9
<1>13. \A p \in from + n..T + n - 1 : \E q \in from..T - 1 : b[p] = origin[q]
  <2> SUFFICES ASSUME NEW p \in from + n..T + n - 1 PROVE \E q \in from..T - 1 : b[p] = origin[q]
    OBVIOUS
  <2>1. \A q : q \in to..T - 1 \/ q \in from..to - 1 => q \in from..T - 1
    BY <1>4
  <2> QED
    BY <1>5, <1>11, <1>12, <2>1
<1>14. \A p, q \in from + n..T + n - 1 : b[p] = b[q] => p = q
  <2>1. ASSUME NEW p \in to + n..T + n - 1, b[p] = a[p], NEW q \in from + n..to + n - 1
        PROVE  b[p] # b[q]
    <3>1. PICK i \in to..T - 1 : b[p] = origin[i]
      BY <1>5, <2>1
    <3>2. PICK j \in from..to - 1 : b[q] = origin[j]
      BY <1>12
    <3>3. i \in 0..T - 1 /\ j \in 0..T - 1 /\ i # j
      BY <1>4
    <3> QED
      BY <1>3, <3>1, <3>2, <3>3
  <2> SUFFICES ASSUME NEW p \in from + n..T + n - 1, NEW q \in from + n..T + n - 1, b[p] = b[q]
               PROVE  p = q
    OBVIOUS
  <2> QED
    BY <1>5, <1>9, <1>11, <2>1
<1>15. ASSUME NEW h \in 0..nGroup - 1, Top(h) >= from
       PROVE  /\ \A p \in Top(h) + n..Top(h + 1) + n - 1 : \E q \in Top(h)..Top(h + 1) - 1 : b[p] = origin[q]
              /\ \A q \in Top(h)..Top(h + 1) - 1 : \E p \in Top(h) + n..Top(h + 1) + n - 1 : b[p] = origin[q]
  <2>1. h \in 0..nGroup /\ h + 1 \in 0..nGroup /\ Top(h) \in Nat /\ Top(h + 1) \in Nat
    BY <1>1, <1>2
  <2>2. Top(h + 1) <= T
    <3>1. h + 1 = nGroup \/ h + 1 < nGroup
      BY <1>1
    <3> QED
      BY <1>1, <1>2, <1>4, <2>1, <3>1
  <2>3. CASE Top(h) >= to
    <3>1. ASSUME NEW p \in Top(h) + n..Top(h + 1) + n - 1 PROVE b[p] = a[p]
      <4>1. p \in Places /\ p \notin to..to + n - 1
        BY <1>1, <1>4, <1>t, <2>1, <2>2, <2>3 DEF Places
      <4> QED
        BY <1>9, <4>1
    <3> QED
      BY <1>6, <2>3, <3>1
  <2>4. CASE Top(h) < to
    <3>1. h = k - 1
      <4>1. ~(h < k - 1)
        BY <1>1, <1>2, <1>15, <2>1 DEF from
      <4>2. ~(k < h) /\ h # k
        BY <1>1, <1>2, <2>1, <2>4 DEF to
      <4> QED
        BY <1>1, <2>1, <4>1, <4>2
    <3>2. Top(h) = from /\ Top(h + 1) = to
      <4>1. h + 1 = k
        BY <1>1, <3>1
      <4> QED
        BY <3>1, <4>1 DEF to, from
    <3> QED
      BY <1>7, <1>9, <1>12, <3>2
  <2> QED
    BY <1>4, <2>1, <2>3, <2>4
<1>16. Room(b, from, n)
    BY <1>9, <1>10, <1>13, <1>14, <1>15 DEF Room, T
<1> QED
    BY <1>16 DEF from

\* The starts of the groups grow up to the end of the used part.
LEMMA TopProps ==
    ASSUME ArrayInv
    PROVE  /\ nGroup \in Nat /\ NParticle \in Nat /\ Total \in Nat /\ Total <= NParticle
           /\ nGroup <= Total
           /\ Total = Top(nGroup) /\ Top(0) = 0
           /\ \A g \in 0..nGroup : Top(g) \in Nat /\ Top(g) <= Total
           /\ \A g \in 0..nGroup - 1 : Top(g) < Top(g + 1) /\ Top(g) < Total
           /\ \A g, h \in 0..nGroup : g < h => Top(g) < Top(h)
<1>1. nGroup \in Nat /\ NParticle \in Nat
    BY ArrayAssumption DEF ArrayInv, ArrayType
<1>2. /\ \A g \in 0..nGroup : Top(g) \in Nat /\ g <= Top(g)
      /\ \A g, h \in 0..nGroup : g < h => Top(g) < Top(h)
      /\ Total <= NParticle /\ Top(0) = 0
    BY DEF ArrayInv, TopsOK
<1>3. nGroup \in 0..nGroup /\ Total = Top(nGroup)
    BY <1>1 DEF Top
<1>4. Total \in Nat /\ nGroup <= Total
    BY <1>2, <1>3
<1>5. ASSUME NEW g \in 0..nGroup PROVE Top(g) <= Total
  <2>1. CASE g = nGroup
    BY <1>3, <1>4, <2>1
  <2>2. CASE g # nGroup
    <3>1. g < nGroup
      BY <1>1, <2>2
    <3> QED
      BY <1>2, <1>3, <1>4, <3>1
  <2> QED
    BY <2>1, <2>2
<1>6. ASSUME NEW g \in 0..nGroup - 1 PROVE Top(g) < Top(g + 1) /\ Top(g) < Total
  <2>1. g \in 0..nGroup /\ g + 1 \in 0..nGroup /\ g < g + 1 /\ g < nGroup
    BY <1>1
  <2> QED
    BY <1>2, <1>3, <2>1
<1> QED
    BY <1>1, <1>2, <1>3, <1>4, <1>5, <1>6

\* The array after the copies of insertParticleIndexToGroup, from the last group down.
OpenedSteps(C, g, n) ==
    /\ C[0] = Array!Copied(origin, Top(nGroup), Top(nGroup - 1), n)
    /\ \A s \in 1..nGroup - 1 - g :
          C[s] = Array!Copied(C[s - 1], Top(nGroup - s), Top(nGroup - s - 1), n)
    /\ C[nGroup - 1 - g] = Array!Opened(g, n)

LEMMA OpenedChain ==
    ASSUME ArrayInv, arrayPc = "checkNewGroup", NEW g \in 0..nGroup - 1, NEW n \in Nat,
           Total + n <= NParticle
    PROVE  \E C : OpenedSteps(C, g, n)
<1> DEFINE last == nGroup - 1
           m == last - g
           B == Cells
           j == [s \in 1..m |-> last + 1 - s]
           grown == Array!Copied(origin, nParticle, offset[last], n)
           Op(x, a) == Array!Copied(a, offset[j[x]], offset[j[x] - 1], n)
           F == [s \in 1..m |-> [a \in B |-> Op(s, a)]]
           Solves(h) == h = [s \in SUBSET (1..m) |->
                               IF s = {} THEN grown ELSE Op(Array!Max(s), h[s \ {Array!Max(s)}])]
           iter == CHOOSE h : Solves(h)
<1>1. /\ nGroup \in Nat /\ last \in 0..nGroup - 1 /\ m \in Nat /\ last + 1 = nGroup
      /\ nGroup - 1 = last
      /\ \A k \in 1..m : j[k] = nGroup - k /\ j[k] \in 1..nGroup - 1 /\ nGroup - k \in 1..nGroup - 1
    BY DEF ArrayInv, ArrayType
<1>2. Array!Opened(g, n) = iter[1..m]
  <2>1. DOMAIN j = 1..m
    OBVIOUS
  <2> QED
    BY <2>1, Zenon DEF Array!Opened, Array!FoldLeft, Array!MapThenFoldSet
<1>3. \A k \in 1..nGroup - 1 : offset[k] = Top(k) /\ offset[k - 1] = Top(k - 1)
  <2> SUFFICES ASSUME NEW k \in 1..nGroup - 1 PROVE offset[k] = Top(k) /\ offset[k - 1] = Top(k - 1)
    OBVIOUS
  <2>1. k # nGroup /\ k - 1 # nGroup
    BY <1>1
  <2> QED
    BY <2>1 DEF Top
<1>4. nParticle = Top(nGroup) /\ offset[last] = Top(last)
  <2>1. last # nGroup
    BY <1>1
  <2> QED
    BY <2>1 DEF Top, Total
<1>5. ASSUME NEW k \in 1..nGroup, NEW a \in Cells
      PROVE  Array!Copied(a, Top(k), Top(k - 1), n) \in Cells
  <2>1. k - 1 \in 0..nGroup - 1 /\ k \in 0..nGroup /\ k - 1 \in 0..nGroup /\ k - 1 + 1 = k
    BY <1>1
  <2>2. Top(k) \in Nat /\ Top(k - 1) \in Nat /\ Top(k - 1) < Top(k) /\ Top(k) <= Total
        /\ Total \in Nat /\ NParticle \in Nat
    BY <2>1, TopProps
  <2>3. Top(k) + n <= NParticle
    BY <2>2
  <2>4. Turned(a, Array!Copied(a, Top(k), Top(k - 1), n), Top(k), Top(k - 1), n)
    BY <2>2, <2>3, CopyProps
  <2> QED
    BY <2>4 DEF Turned
<1>6. \A k \in 1..m : \A a : Op(k, a) = Array!Copied(a, Top(nGroup - k), Top(nGroup - k - 1), n)
    BY <1>1, <1>3
<1>7. F \in [1..m -> [B -> B]] /\ \A k \in 1..m, a \in B : F[k][a] = Op(k, a)
  <2>1. ASSUME NEW k \in 1..m, NEW a \in B PROVE Op(k, a) \in B
    <3>1. nGroup - k \in 1..nGroup
      BY <1>1
    <3> HIDE DEF Op
    <3> QED
      BY <1>5, <1>6, <3>1
  <2> HIDE DEF Op, B
  <2> QED
    BY <2>1
<1>8. \A s : Array!Max(s) = Max(s)
    BY DEF Array!Max, Max
<1>9. grown \in B
  <2>1. nGroup \in 1..nGroup /\ origin \in Cells
    BY <1>1 DEF ArrayInv, ArrayType
  <2> QED
    BY <1>4, <1>5, <2>1
<1>10. grown = Array!Copied(origin, Top(nGroup), Top(nGroup - 1), n)
    BY <1>4
<1>11. m \in Nat /\ nGroup - 1 - g = m
    BY <1>1
<1> HIDE DEF Op, j, F, Solves, B, grown, m, last
<1>12. PICK f : FoldsBy(f, m, grown, F) /\ \A s \in SUBSET (1..m) : f[s] \in B
    BY <1>7, <1>9, <1>11, FoldExists
<1>13. Solves(f)
  <2>1. ASSUME NEW s \in SUBSET (1..m), s # {}
        PROVE  F[Max(s)][f[s \ {Max(s)}]] = Op(Array!Max(s), f[s \ {Array!Max(s)}])
    <3>1. Max(s) \in 1..m /\ s \ {Max(s)} \in SUBSET (1..m)
      BY <1>11, <2>1, Greatest
    <3>2. f[s \ {Max(s)}] \in B
      BY <1>12, <3>1
    <3> QED
      BY <1>7, <1>8, <3>1, <3>2
  <2> QED
    BY <1>12, <2>1 DEF Solves, FoldsBy
<1>14. Solves(iter)
    BY <1>13
<1> HIDE DEF iter
<1>15. iter[1..0] = grown
  <2>1. (1..0) = {} /\ {} \in SUBSET (1..m)
    OBVIOUS
  <2> QED
    BY <1>14, <2>1 DEF Solves
<1>16. \A k \in 1..m : iter[1..k] = Op(k, iter[1..k - 1])
  <2> SUFFICES ASSUME NEW k \in 1..m PROVE iter[1..k] = Op(k, iter[1..k - 1])
    OBVIOUS
  <2>0. k \in Nat \ {0} /\ k <= m /\ m \in Nat
    BY <1>11
  <2>1. (1..k) \in SUBSET (1..m) /\ 1..k # {}
    <3>1. \A i \in 1..k : i \in 1..m
      BY <2>0
    <3>2. k \in 1..k
      BY <2>0
    <3> QED
      BY <3>1, <3>2
  <2>2. Max(1..k) = k /\ (1..k) \ {k} = 1..k - 1
    BY <2>0, GreatestUpTo
  <2> QED
    BY <1>8, <1>14, <2>1, <2>2 DEF Solves
<1> DEFINE C == [k \in 0..m |-> iter[1..k]]
<1>17. /\ C[0] = grown
       /\ \A k \in 1..m : C[k] = iter[1..k] /\ C[k - 1] = iter[1..k - 1]
       /\ C[m] = iter[1..m]
    BY <1>11, <1>15
<1> HIDE DEF C
<1>18. \A k \in 1..m : C[k] = Array!Copied(C[k - 1], Top(nGroup - k), Top(nGroup - k - 1), n)
    BY <1>6, <1>16, <1>17
<1>19. OpenedSteps(C, g, n)
    BY <1>2, <1>10, <1>11, <1>17, <1>18 DEF OpenedSteps
<1> QED
    BY <1>19

\* insertParticleIndexToGroup makes room for n entries at the start of group g.
LEMMA OpenedRoom ==
    ASSUME ArrayInv, arrayPc = "checkNewGroup", NEW g \in 0..nGroup - 1, NEW n \in Nat,
           Total + n <= NParticle
    PROVE  Room(Array!Opened(g, n), Top(g), n)
<1> DEFINE m == nGroup - 1 - g
<1>1. nGroup \in Nat \ {0} /\ m \in Nat /\ nGroup \in 1..nGroup /\ nGroup - 1 - 0 = nGroup - 1
    BY DEF ArrayInv, ArrayType
<1>2. PICK C : OpenedSteps(C, g, n)
    BY OpenedChain
<1>3. Room(origin, Top(nGroup), n)
  <2>1. /\ Total \in Nat /\ Top(nGroup) = Total
        /\ \A k \in 0..nGroup - 1 : Top(k) \in Nat /\ Top(k) < Total
    BY TopProps
  <2>2. origin \in Cells
    BY DEF ArrayInv, ArrayType
  <2> HIDE DEF m
  <2> QED
    BY <2>1, <2>2 DEF Room
<1> DEFINE S == {s \in 0..m : Room(C[s], Top(nGroup - 1 - s), n)}
<1>4. 0 \in S
  <2>1. C[0] = Array!Copied(origin, Top(nGroup), Top(nGroup - 1), n)
    BY <1>2 DEF OpenedSteps
  <2>2. Room(C[0], Top(nGroup - 1), n)
    BY <1>1, <1>3, <2>1, RoomMoves
  <2> QED
    BY <1>1, <2>2
<1>5. ASSUME NEW s \in 1..m, s - 1 \in S PROVE s \in S
  <2>1. nGroup - 1 - (s - 1) = nGroup - s /\ nGroup - s \in 1..nGroup
        /\ nGroup - s - 1 = nGroup - 1 - s /\ s \in 0..m
    BY <1>1
  <2>2. Room(C[s - 1], Top(nGroup - s), n)
    BY <1>5, <2>1
  <2>3. C[s] = Array!Copied(C[s - 1], Top(nGroup - s), Top(nGroup - s - 1), n)
    BY <1>2 DEF OpenedSteps
  <2>4. Room(C[s], Top(nGroup - s - 1), n)
    BY <2>1, <2>2, <2>3, RoomMoves
  <2> QED
    BY <2>1, <2>4
<1>6. \A s \in 0..m : s \in S
  <2> HIDE DEF S, m
  <2> QED
    BY <1>1, <1>4, <1>5, Upwards
<1>7. m \in S
  <2> HIDE DEF S
  <2> QED
    BY <1>1, <1>6
<1>8. nGroup - 1 - m = g
    BY <1>1
<1>9. C[m] = Array!Opened(g, n)
    BY <1>2 DEF OpenedSteps
<1> QED
    BY <1>7, <1>8, <1>9

\* NewGroupArray is written with the operators of the community modules.
LEMMA SameArray ==
    /\ Array!Particles = Places /\ Array!Groups = Slots /\ Array!Unset = -1
    /\ \A s : Array!ToSet(s) = ToSet(s) /\ (Array!IsInjective(s) <=> IsInjective(s))
    /\ \A S : Array!Cardinality(S) = Cardinality(S)
    /\ \A S : Array!SetToSeq(S) = SetToSeq(S)
<1>1. Array!Particles = Places /\ Array!Groups = Slots /\ Array!Unset = -1
    BY DEF Array!Particles, Array!Groups, Array!Unset, Places, Slots
<1>2. \A s : Array!ToSet(s) = ToSet(s) /\ (Array!IsInjective(s) <=> IsInjective(s))
    BY DEF Array!ToSet, ToSet, Array!IsInjective, IsInjective
<1>3. \A S : Array!Cardinality(S) = Cardinality(S)
    BY Zenon DEF Array!Cardinality, Cardinality, Array!IsFiniteSet, IsFiniteSet
<1>4. \A S : Array!SetToSeq(S) = SetToSeq(S)
  <2>1. \A S : Array!IsFiniteSet(S) = IsFiniteSet(S)
    BY Zenon DEF Array!IsFiniteSet, IsFiniteSet
  <2>2. \A f : Array!IsInjective(f) = IsInjective(f)
    BY Zenon DEF Array!IsInjective, IsInjective
  <2> QED
    BY <1>2, <1>3, <2>1, <2>2, Zenon DEF Array!SetToSeq, SetToSeq
<1> QED
    BY <1>1, <1>2, <1>3, <1>4

\* What insertParticleIndexToGroup writes for x, and how many entries that are.
LEMMA ContentProps ==
    ASSUME ArrayInv, NEW x \in Things
    PROVE  /\ Array!Content(x) \in Seq(Places) /\ IsInjective(Array!Content(x))
           /\ ToSet(Array!Content(x)) = Held(x)
           /\ Array!N(x) = Len(Array!Content(x)) /\ Array!N(x) \in Nat \ {0}
           /\ Held(x) \subseteq Places /\ Held(x) # {}
<1>1. CASE x \in Slots
  <2>1. Array!Content(x) = member[x] /\ Array!N(x) = Len(member[x]) /\ Held(x) = Members(x)
    BY <1>1, SameArray DEF Array!Content, Array!N, Held
  <2>2. member[x] \in Seq(Places) /\ IsInjective(member[x]) /\ Len(member[x]) > 1
    BY <1>1 DEF ArrayInv, ArrayType, MembersApart
  <2>3. Members(x) = ToSet(member[x]) /\ Members(x) \subseteq Places /\ Len(member[x]) \in Nat
    BY <2>2 DEF Members, ToSet
  <2>4. 1 \in 1..Len(member[x])
    BY <2>2, <2>3
  <2>5. Members(x) # {}
    BY <2>4 DEF Members
  <2> QED
    BY <2>1, <2>2, <2>3, <2>5
<1>2. CASE x \notin Slots
  <2>1. Array!Content(x) = <<x>> /\ Array!N(x) = 1 /\ Held(x) = {x} /\ x \in Places
    BY <1>2, SameArray DEF Array!Content, Array!N, Held, Things
  <2>2. IsInjective(<<x>>)
    BY DEF IsInjective
  <2>3. ToSet(<<x>>) = {x} /\ Len(<<x>>) = 1
    BY DEF ToSet
  <2> QED
    BY <2>1, <2>2, <2>3
<1> QED
    BY <1>1, <1>2

\* Particles and groups that are not masked hold different particles.
LEMMA HeldApart ==
    ASSUME ArrayInv, NEW x \in Things, NEW y \in Things, x # y,
           x \in Slots \/ used[x] # -2, y \in Slots \/ used[y] # -2
    PROVE  Held(x) \cap Held(y) = {}
<1>1. /\ \A u, v \in Slots : u # v => Members(u) \cap Members(v) = {}
      /\ \A u \in Slots : \A p \in Members(u) : used[p] = -2
    BY DEF ArrayInv, MembersApart, UsedOK
<1>2. CASE x \in Slots /\ y \in Slots
    BY <1>1, <1>2 DEF Held
<1>3. CASE x \in Slots /\ y \notin Slots
    BY <1>1, <1>3 DEF Held
<1>4. CASE x \notin Slots /\ y \in Slots
    BY <1>1, <1>4 DEF Held
<1>5. CASE x \notin Slots /\ y \notin Slots
    BY <1>5 DEF Held
<1> QED
    BY <1>2, <1>3, <1>4, <1>5

\* Each used entry is in the segment of one group.
LEMMA SegmentOf ==
    ASSUME ArrayInv, NEW p \in 0..Total - 1
    PROVE  \E g \in 0..nGroup - 1 : p \in Top(g)..Top(g + 1) - 1
<1> DEFINE H == {h \in 0..nGroup : p < Top(h)}
<1>1. /\ nGroup \in Nat /\ Total \in Nat /\ Total = Top(nGroup) /\ Top(0) = 0
      /\ \A g \in 0..nGroup : Top(g) \in Nat
    BY TopProps
<1>2. nGroup \in H /\ H \subseteq Nat
    BY <1>1
<1>3. PICK h \in H : \A i \in H : h <= i
  <2> HIDE DEF H
  <2> QED
    BY <1>2, LeastNat
<1>4. h \in 0..nGroup /\ p < Top(h) /\ h # 0
    BY <1>1, <1>3
<1>5. h - 1 \in 0..nGroup - 1 /\ h - 1 \in 0..nGroup /\ h - 1 + 1 = h /\ ~(h <= h - 1)
    BY <1>1, <1>4
<1>6. ~(p < Top(h - 1))
    BY <1>3, <1>5
<1>7. Top(h - 1) <= p /\ p < Top(h) /\ Top(h - 1) \in Nat /\ Top(h) \in Nat
    BY <1>1, <1>4, <1>5, <1>6
<1>8. p \in Top(h - 1)..Top(h - 1 + 1) - 1
    BY <1>5, <1>7
<1> QED
    BY <1>5, <1>8

\* What nobody has joined yet is not in the array.
LEMMA Fresh ==
    ASSUME ArrayInv, arrayPc = "checkNewGroup", NEW x \in Things,
           used[x] = -1 \/ x \in broken
    PROVE  \A p \in 0..Total - 1 : origin[p] \notin Held(x)
<1> SUFFICES ASSUME NEW p \in 0..Total - 1 PROVE origin[p] \notin Held(x)
    OBVIOUS
<1>1. PICK g \in 0..nGroup - 1 : p \in Top(g)..Top(g + 1) - 1
    BY SegmentOf
<1>2. PICK z \in Things : used[z] = g
    BY DEF ArrayInv, TopsOK
<1>3. PutIn(g) # {}
  <2>1. Held(z) # {}
    BY ContentProps
  <2> QED
    BY <1>2, <2>1 DEF PutIn
<1>4. origin[p] \in PutIn(g)
  <2>1. origin[p] \in Filled(g)
    BY <1>1 DEF Filled
  <2> QED
    BY <1>3, <2>1 DEF ArrayInv, FillOK
<1>5. PICK y \in Things : used[y] = g /\ origin[p] \in Held(y)
    BY <1>4 DEF PutIn
<1>6. g \in Nat
    OBVIOUS
<1>7. x # y /\ used[y] # -2 /\ (x \in Slots \/ used[x] # -2)
    BY <1>5, <1>6 DEF ArrayInv, UsedOK, ArrayType
<1>8. Held(x) \cap Held(y) = {}
    BY <1>7, HeldApart
<1> QED
    BY <1>5, <1>8

\* The first T entries of a are particles, each there once.
Whole(a, T) ==
    /\ a \in Cells
    /\ \A p \in 0..T - 1 : a[p] \in Places
    /\ \A p, q \in 0..T - 1 : a[p] = a[q] => p = q

\* The array is long enough for entries that are not in it.
LEMMA Fits ==
    ASSUME NEW T \in Nat, NEW a, Whole(a, T), NEW s \in Seq(Places), IsInjective(s),
           \A p \in 0..T - 1 : a[p] \notin ToSet(s)
    PROVE  T + Len(s) <= NParticle
<1> DEFINE t == [i \in 1..T |-> a[i - 1]]
<1>1. T \in Nat /\ NParticle \in Nat
    BY ArrayAssumption
<1>2. /\ \A p \in 0..T - 1 : a[p] \in Places
      /\ \A p, q \in 0..T - 1 : a[p] = a[q] => p = q
    BY DEF Whole
<1>3. \A i \in 1..T : i - 1 \in 0..T - 1
    BY <1>1
<1>4. t \in Seq(Places) /\ Len(t) = T
    BY <1>1, <1>2, <1>3
<1>5. IsInjective(t)
  <2> SUFFICES ASSUME NEW i \in 1..T, NEW k \in 1..T, a[i - 1] = a[k - 1]
               PROVE  i = k
    BY <1>4 DEF IsInjective
  <2>1. i - 1 = k - 1
    BY <1>2, <1>3
  <2> QED
    BY <2>1
<1>6. ToSet(t) \cap ToSet(s) = {}
  <2>1. ToSet(t) = {a[i - 1] : i \in 1..T}
    BY <1>1 DEF ToSet
  <2> QED
    BY <1>3, <2>1
<1> HIDE DEF t
<1>7. t \o s \in Seq(Places) /\ Len(t \o s) = T + Len(s) /\ IsInjective(t \o s)
    BY <1>4, <1>5, <1>6, Joined, ZenonT(30)
<1>8. IsFiniteSet(Places) /\ Cardinality(Places) = NParticle
  <2>1. 0 \in Int /\ NParticle - 1 \in Int
    BY <1>1
  <2>2. IsFiniteSet(0..NParticle - 1) /\
        Cardinality(0..NParticle - 1) = IF 0 > NParticle - 1 THEN 0 ELSE NParticle - 1 - 0 + 1
    BY <2>1, FS_Interval
  <2> QED
    BY <1>1, <2>2 DEF Places
<1>9. Len(t \o s) <= Cardinality(Places)
    BY <1>7, <1>8, SeqLen
<1> QED
    BY <1>7, <1>8, <1>9

\* b is a with s written to it from place to on.
Written(a, b, to, s) ==
    /\ b \in Cells
    /\ \A p \in Places : p \notin to..to + Len(s) - 1 => b[p] = a[p]
    /\ \A p \in to..to + Len(s) - 1 : b[p] \in ToSet(s)
    /\ \A v \in ToSet(s) : \E p \in to..to + Len(s) - 1 : b[p] = v
    /\ IsInjective(s) => \A p, q \in to..to + Len(s) - 1 : b[p] = b[q] => p = q

LEMMA StoredProps ==
    ASSUME NEW a \in Cells, NEW to \in Nat, NEW s \in Seq(Places), to + Len(s) <= NParticle
    PROVE  Written(a, Array!Stored(a, to, s), to, s)
<1> DEFINE b == Array!Stored(a, to, s)
           n == Len(s)
<1>1. n \in Nat /\ NParticle \in Nat /\ DOMAIN s = 1..n /\ to + n <= NParticle
    BY ArrayAssumption
<1>2. b = [p \in Places |-> IF p - to + 1 \in 1..n THEN s[p - to + 1] ELSE a[p]]
  <2>1. DOMAIN a = Places
    BY DEF Cells
  <2> QED
    BY <1>1, <2>1 DEF Array!Stored
<1>3. \A i \in 1..n : s[i] \in Places
    BY <1>1
<1>4. ToSet(s) = {s[i] : i \in 1..n}
    BY <1>1 DEF ToSet
<1> HIDE DEF b, n
<1>5. \A p \in to..to + n - 1 : p \in Places /\ p - to + 1 \in 1..n /\ b[p] = s[p - to + 1]
  <2>1. \A p \in to..to + n - 1 : p \in Places /\ p - to + 1 \in 1..n
    BY <1>1 DEF Places
  <2> QED
    BY <1>2, <2>1
<1>6. \A p \in Places : p \notin to..to + n - 1 => b[p] = a[p]
  <2>1. \A p \in Places : p \notin to..to + n - 1 => p - to + 1 \notin 1..n
    BY <1>1 DEF Places
  <2> QED
    BY <1>2, <2>1
<1>7. b \in Cells
  <2>1. \A p \in Places : b[p] \in {-1} \cup Places
    <3> SUFFICES ASSUME NEW p \in Places PROVE b[p] \in {-1} \cup Places
      OBVIOUS
    <3>1. a[p] \in {-1} \cup Places
      BY DEF Cells
    <3> QED
      BY <1>3, <1>5, <1>6, <3>1
  <2> QED
    BY <1>2, <2>1 DEF Cells
<1>8. \A p \in to..to + n - 1 : b[p] \in ToSet(s)
    BY <1>4, <1>5
<1>9. \A v \in ToSet(s) : \E p \in to..to + n - 1 : b[p] = v
  <2> SUFFICES ASSUME NEW i \in 1..n PROVE \E p \in to..to + n - 1 : b[p] = s[i]
    BY <1>4
  <2>1. to + i - 1 \in to..to + n - 1 /\ to + i - 1 - to + 1 = i
    BY <1>1
  <2> QED
    BY <1>5, <2>1
<1>10. ASSUME IsInjective(s) PROVE \A p, q \in to..to + n - 1 : b[p] = b[q] => p = q
  <2> SUFFICES ASSUME NEW p \in to..to + n - 1, NEW q \in to..to + n - 1, b[p] = b[q]
               PROVE  p = q
    OBVIOUS
  <2>1. s[p - to + 1] = s[q - to + 1] /\ p - to + 1 \in 1..n /\ q - to + 1 \in 1..n
    BY <1>5
  <2>2. p - to + 1 = q - to + 1
    BY <1>1, <1>10, <2>1 DEF IsInjective
  <2> QED
    BY <2>2
<1> QED
    BY <1>6, <1>7, <1>8, <1>9, <1>10 DEF Written, b, n

\* b is a with s behind its first T entries.
LongerBy(a, b, T, s) ==
    /\ T + Len(s) <= NParticle
    /\ Whole(b, T + Len(s))
    /\ \A p \in 0..T - 1 : b[p] = a[p]
    /\ \A p \in T..T + Len(s) - 1 : b[p] \in ToSet(s)
    /\ \A v \in ToSet(s) : \E p \in T..T + Len(s) - 1 : b[p] = v

LEMMA AppendedTo ==
    ASSUME NEW T \in Nat, NEW a, Whole(a, T), NEW s \in Seq(Places), IsInjective(s),
           \A p \in 0..T - 1 : a[p] \notin ToSet(s)
    PROVE  LongerBy(a, Array!Stored(a, T, s), T, s)
<1> DEFINE b == Array!Stored(a, T, s)
           n == Len(s)
<1>1. n \in Nat /\ NParticle \in Nat /\ ToSet(s) \subseteq Places
    BY ArrayAssumption DEF ToSet
<1>2. T + n <= NParticle
    BY Fits
<1>3. a \in Cells
    BY DEF Whole
<1>4. Written(a, b, T, s)
    BY <1>2, <1>3, StoredProps
<1> HIDE DEF b
<1>5. /\ b \in Cells
      /\ \A p \in Places : p \notin T..T + n - 1 => b[p] = a[p]
      /\ \A p \in T..T + n - 1 : b[p] \in ToSet(s)
      /\ \A p, q \in T..T + n - 1 : b[p] = b[q] => p = q
      /\ \A v \in ToSet(s) : \E p \in T..T + n - 1 : b[p] = v
    BY <1>4 DEF Written
<1> HIDE DEF n
<1>6. \A p \in 0..T - 1 : b[p] = a[p]
  <2>1. \A p \in 0..T - 1 : p \in Places /\ p \notin T..T + n - 1
    BY <1>1, <1>2 DEF Places
  <2> QED
    BY <1>5, <2>1
<1>7. \A p \in 0..T + n - 1 : p \in 0..T - 1 \/ p \in T..T + n - 1
    BY <1>1
<1>8. /\ \A p \in 0..T - 1 : a[p] \in Places
      /\ \A p, q \in 0..T - 1 : a[p] = a[q] => p = q
    BY DEF Whole
<1>9. \A p \in 0..T + n - 1 : b[p] \in Places
    BY <1>1, <1>5, <1>6, <1>7, <1>8
<1>10. \A p, q \in 0..T + n - 1 : b[p] = b[q] => p = q
  <2>1. ASSUME NEW p \in 0..T - 1, NEW q \in T..T + n - 1 PROVE b[p] # b[q]
    BY <1>5, <1>6
  <2> QED
    BY <1>5, <1>6, <1>7, <1>8, <2>1
<1>11. Whole(b, T + n)
    BY <1>1, <1>5, <1>9, <1>10 DEF Whole
<1> QED
    BY <1>2, <1>5, <1>6, <1>11 DEF LongerBy, b, n

\* b is the array after x has joined group g.
Inserted(b, x, g) ==
    LET n == Array!N(x)
    IN  /\ Total + n <= NParticle
        /\ Whole(b, Total + n)
        /\ \A k \in 0..g - 1 : {b[p] : p \in Top(k)..Top(k + 1) - 1} = Filled(k)
        /\ {b[p] : p \in Top(g)..Top(g + 1) + n - 1} = Filled(g) \cup Held(x)
        /\ \A k \in g + 1..nGroup - 1 : {b[p] : p \in Top(k) + n..Top(k + 1) + n - 1} = Filled(k)
        /\ \A p \in 0..Total + n - 1 : b[p] \in Held(x) \/ \E q \in 0..Total - 1 : b[p] = origin[q]

\* insertParticleIndexToGroup puts x into the segment of group g and leaves the others whole.
LEMMA InsertedInto ==
    ASSUME ArrayInv, arrayPc = "checkNewGroup", NEW x \in Things, used[x] = -1,
           NEW g \in 0..nGroup - 1
    PROVE  Inserted(Array!Stored(Array!Opened(g, Array!N(x)), offset[g], Array!Content(x)), x, g)
<1> DEFINE n == Array!N(x)
           s == Array!Content(x)
           h == Top(g)
           T == Total
           a == Array!Opened(g, n)
           b == Array!Stored(a, h, s)
<1>1. /\ s \in Seq(Places) /\ IsInjective(s) /\ ToSet(s) = Held(x) /\ n = Len(s)
      /\ n \in Nat \ {0} /\ Held(x) \subseteq Places
    BY ContentProps
<1>2. /\ nGroup \in Nat /\ NParticle \in Nat /\ T \in Nat /\ T <= NParticle
      /\ \A k \in 0..nGroup : Top(k) \in Nat /\ Top(k) <= T
      /\ \A k \in 0..nGroup - 1 : Top(k) < Top(k + 1)
      /\ \A k, l \in 0..nGroup : k < l => Top(k) < Top(l)
    BY TopProps
<1>3. h \in Nat /\ h < T /\ g \in 0..nGroup /\ g + 1 \in 0..nGroup /\ offset[g] = h
  <2>1. g \in 0..nGroup /\ g # nGroup /\ g + 1 \in 0..nGroup
    BY <1>2
  <2>2. h \in Nat /\ h < T
    BY TopProps
  <2> QED
    BY <2>1, <2>2 DEF Top
<1>4. \A p \in 0..T - 1 : origin[p] \notin Held(x)
    BY Fresh
<1>5. Whole(origin, T)
    BY DEF Whole, ArrayInv, ArrayType, FillOK
<1>6. T + n <= NParticle
    BY <1>1, <1>2, <1>4, <1>5, Fits
<1>7. Room(a, h, n)
    BY <1>1, <1>6, OpenedRoom
<1> HIDE DEF a, n, h, T, s
<1>8. /\ a \in Cells
      /\ \A p \in 0..h - 1 : a[p] = origin[p]
      /\ \A p \in h + n..T + n - 1 : \E q \in h..T - 1 : a[p] = origin[q]
      /\ \A p, q \in h + n..T + n - 1 : a[p] = a[q] => p = q
    BY <1>7 DEF Room, T
<1>9. \A k \in 0..nGroup - 1 : Top(k) >= h =>
          /\ \A p \in Top(k) + n..Top(k + 1) + n - 1 : \E q \in Top(k)..Top(k + 1) - 1 : a[p] = origin[q]
          /\ \A q \in Top(k)..Top(k + 1) - 1 : \E p \in Top(k) + n..Top(k + 1) + n - 1 : a[p] = origin[q]
    BY <1>7 DEF Room
<1>10. Written(a, b, h, s)
  <2>1. h + Len(s) <= NParticle
    BY <1>1, <1>2, <1>3, <1>6
  <2> QED
    BY <1>1, <1>3, <1>8, <2>1, StoredProps
<1> HIDE DEF b
<1>11. /\ b \in Cells
       /\ \A p \in Places : p \notin h..h + n - 1 => b[p] = a[p]
       /\ \A p \in h..h + n - 1 : b[p] \in Held(x)
       /\ \A v \in Held(x) : \E p \in h..h + n - 1 : b[p] = v
       /\ \A p, q \in h..h + n - 1 : b[p] = b[q] => p = q
    BY <1>1, <1>10 DEF Written
<1>12. \A p \in 0..h - 1 : b[p] = origin[p] /\ p \in 0..T - 1
  <2>1. \A p \in 0..h - 1 : p \in Places /\ p \notin h..h + n - 1 /\ p \in 0..T - 1
    BY <1>1, <1>2, <1>3 DEF Places
  <2> QED
    BY <1>8, <1>11, <2>1
<1>13. \A p \in h + n..T + n - 1 : b[p] = a[p]
  <2>1. \A p \in h + n..T + n - 1 : p \in Places /\ p \notin h..h + n - 1
    BY <1>1, <1>2, <1>3, <1>6 DEF Places
  <2> QED
    BY <1>11, <2>1
<1>14. \A p \in 0..T + n - 1 :
          p \in 0..h - 1 \/ p \in h..h + n - 1 \/ p \in h + n..T + n - 1
    BY <1>1, <1>2, <1>3
<1>15. \A p \in h + n..T + n - 1 : \E q \in h..T - 1 : b[p] = origin[q]
    BY <1>8, <1>13
<1>16. \A q \in h..T - 1 : q \in 0..T - 1 /\ q \notin 0..h - 1
    BY <1>3
<1>17. \A p \in 0..T + n - 1 : b[p] \in Held(x) \/ \E q \in 0..T - 1 : b[p] = origin[q]
    BY <1>11, <1>12, <1>14, <1>15, <1>16
<1>18. Whole(b, T + n)
  <2>1. /\ \A p \in 0..T - 1 : origin[p] \in Places
        /\ \A p, q \in 0..T - 1 : origin[p] = origin[q] => p = q
    BY <1>5 DEF Whole
  <2>2. \A p \in 0..T + n - 1 : b[p] \in Places
    BY <1>1, <1>17, <2>1
  <2>3. ASSUME NEW p \in 0..h - 1, NEW q \in h..h + n - 1 PROVE b[p] # b[q]
    BY <1>4, <1>11, <1>12
  <2>4. ASSUME NEW p \in h + n..T + n - 1, NEW q \in h..h + n - 1 PROVE b[p] # b[q]
    BY <1>4, <1>11, <1>15, <1>16
  <2>5. ASSUME NEW p \in 0..h - 1, NEW q \in h + n..T + n - 1 PROVE b[p] # b[q]
    <3>1. PICK i \in h..T - 1 : b[q] = origin[i]
      BY <1>15
    <3> QED
      BY <1>12, <1>16, <2>1, <3>1
  <2>6. \A p, q \in 0..h - 1 : b[p] = b[q] => p = q
    BY <1>12, <2>1
  <2>7. \A p, q \in h + n..T + n - 1 : b[p] = b[q] => p = q
    BY <1>8, <1>13
  <2>8. \A p, q \in 0..T + n - 1 : b[p] = b[q] => p = q
    <3> SUFFICES ASSUME NEW p \in 0..T + n - 1, NEW q \in 0..T + n - 1, b[p] = b[q] PROVE p = q
      OBVIOUS
    <3>1. CASE p \in 0..h - 1
      BY <1>14, <2>3, <2>5, <2>6, <3>1
    <3>2. CASE p \in h..h + n - 1
      BY <1>11, <1>14, <2>3, <2>4, <3>2
    <3>3. CASE p \in h + n..T + n - 1
      BY <1>14, <2>4, <2>5, <2>7, <3>3
    <3> QED
      BY <1>14, <3>1, <3>2, <3>3
  <2> QED
    BY <1>1, <1>2, <1>11, <2>2, <2>8 DEF Whole
<1>19. ASSUME NEW k \in 0..g - 1 PROVE {b[p] : p \in Top(k)..Top(k + 1) - 1} = Filled(k)
  <2>1. k \in 0..nGroup /\ k + 1 \in 0..nGroup /\ (k + 1 = g \/ k + 1 < g)
    BY <1>2, <1>3
  <2>2. Top(k) \in Nat /\ Top(k + 1) \in Nat /\ Top(k + 1) <= h
    BY <1>2, <1>3, <2>1 DEF h
  <2>3. \A p \in Top(k)..Top(k + 1) - 1 : p \in 0..h - 1
    BY <1>3, <2>2
  <2> QED
    BY <1>12, <2>3 DEF Filled
<1>20. ASSUME NEW k \in 0..nGroup - 1, Top(k) >= h
       PROVE  {b[p] : p \in Top(k) + n..Top(k + 1) + n - 1} = Filled(k)
  <2>1. k \in 0..nGroup /\ k + 1 \in 0..nGroup
    BY <1>2
  <2>2. Top(k) \in Nat /\ Top(k + 1) \in Nat /\ Top(k + 1) <= T
    BY <1>2, <2>1
  <2>3. \A p \in Top(k) + n..Top(k + 1) + n - 1 : p \in h + n..T + n - 1
    BY <1>1, <1>2, <1>3, <1>20, <2>2
  <2>4. \A p \in Top(k) + n..Top(k + 1) + n - 1 : \E q \in Top(k)..Top(k + 1) - 1 : b[p] = origin[q]
    BY <1>9, <1>13, <1>20, <2>3
  <2>5. \A q \in Top(k)..Top(k + 1) - 1 : \E p \in Top(k) + n..Top(k + 1) + n - 1 : b[p] = origin[q]
    BY <1>9, <1>13, <1>20, <2>3
  <2> QED
    BY <2>4, <2>5 DEF Filled
<1>21. \A k \in g + 1..nGroup - 1 : {b[p] : p \in Top(k) + n..Top(k + 1) + n - 1} = Filled(k)
  <2> SUFFICES ASSUME NEW k \in g + 1..nGroup - 1
               PROVE  {b[p] : p \in Top(k) + n..Top(k + 1) + n - 1} = Filled(k)
    OBVIOUS
  <2>1. k \in 0..nGroup - 1 /\ k \in 0..nGroup /\ g < k
    BY <1>2, <1>3
  <2>2. Top(k) >= h
    <3>1. Top(g) < Top(k) /\ Top(k) \in Nat
      BY <1>2, <1>3, <2>1
    <3> QED
      BY <1>3, <3>1 DEF h
  <2> QED
    BY <1>20, <2>1, <2>2
<1>22. {b[p] : p \in h..Top(g + 1) + n - 1} = Filled(g) \cup Held(x)
  <2>1. {b[p] : p \in h + n..Top(g + 1) + n - 1} = Filled(g)
    <3>1. Top(g) >= h /\ Top(g) = h
      BY <1>3 DEF h
    <3>2. {b[p] : p \in Top(g) + n..Top(g + 1) + n - 1} = Filled(g)
      BY <1>20, <3>1
    <3> QED
      BY <3>1, <3>2
  <2>2. {b[p] : p \in h..h + n - 1} = Held(x)
    BY <1>11
  <2>3. Top(g + 1) \in Nat /\ h < Top(g + 1)
    BY <1>2, <1>3 DEF h
  <2>4. \A p : p \in h..Top(g + 1) + n - 1 <=> p \in h..h + n - 1 \/ p \in h + n..Top(g + 1) + n - 1
    BY <1>1, <1>3, <2>3
  <2> QED
    BY <2>1, <2>2, <2>4
<1>23. \A k \in 0..g - 1 : {b[p] : p \in Top(k)..Top(k + 1) - 1} = Filled(k)
    BY <1>19
<1>24. Inserted(b, x, g)
    BY <1>6, <1>17, <1>18, <1>21, <1>22, <1>23 DEF Inserted, n, T, h
<1> QED
    BY <1>3, <1>24 DEF b, a, n, s, h

\* A joined group is entered in the break list once.
LEMMA EntryProps ==
    ASSUME NEW s \in Seq(Slots), IsInjective(s), NEW x, x \notin ToSet(s)
    PROVE  LET t == s \o Array!Entry(x)
           IN  /\ t \in Seq(Slots) /\ IsInjective(t)
               /\ ToSet(t) = ToSet(s) \cup ({x} \cap Slots)
<1>1. CASE x \in Slots
  <2>1. Array!Entry(x) = <<x>>
    BY <1>1, SameArray DEF Array!Entry
  <2>2. <<x>> \in Seq(Slots) /\ ToSet(<<x>>) = {x} /\ IsInjective(<<x>>)
    <3>1. <<x>> \in Seq(Slots)
      BY <1>1
    <3>2. IsInjective(<<x>>)
      BY DEF IsInjective
    <3>3. ToSet(<<x>>) = {x}
      BY DEF ToSet
    <3> QED
      BY <3>1, <3>2, <3>3
  <2>3. ToSet(s) \cap ToSet(<<x>>) = {}
    BY <2>2
  <2>4. /\ s \o <<x>> \in Seq(Slots) /\ IsInjective(s \o <<x>>)
        /\ ToSet(s \o <<x>>) = ToSet(s) \cup ToSet(<<x>>)
    BY <2>2, <2>3, Joined
  <2> QED
    BY <1>1, <2>1, <2>2, <2>4
<1>2. CASE x \notin Slots
  <2>1. Array!Entry(x) = << >>
    BY <1>2, SameArray DEF Array!Entry
  <2>2. s \o << >> = s
    OBVIOUS
  <2> QED
    BY <1>2, <2>1, <2>2
<1> QED
    BY <1>1, <1>2

\* Each group found by checkNewGroup has something in it.
LEMMA PutInSome ==
    ASSUME ArrayInv, arrayPc = "checkNewGroup", NEW g \in 0..nGroup - 1
    PROVE  PutIn(g) # {} /\ Filled(g) = PutIn(g)
<1>1. PICK z \in Things : used[z] = g
    BY DEF ArrayInv, TopsOK
<1>2. Held(z) # {}
    BY ContentProps
<1>3. PutIn(g) # {}
    BY <1>1, <1>2 DEF PutIn
<1> QED
    BY <1>3 DEF ArrayInv, FillOK

\* The particles and groups of J, nobody's so far, join group g.
LEMMA JoinStep ==
    ASSUME ArrayInv, NEW J, J \subseteq Things, \A x \in J : used[x] = -1,
           NEW g \in 0..nGroup, g < NParticle, nGroup' = (IF g = nGroup THEN nGroup + 1 ELSE nGroup),
           used' = [y \in Things |-> IF y \in J THEN g ELSE used[y]],
           UNCHANGED <<member, broken>>
    PROVE  /\ used' \in [Things -> -2..NParticle] /\ UsedOK' /\ MembersApart'
           /\ \A k \in 0..nGroup : k # g => PutIn(k)' = PutIn(k)
           /\ PutIn(g)' = PutIn(g) \cup UNION {Held(x) : x \in J}
           /\ {x \in Slots : used'[x] >= 0} = {x \in Slots : used[x] >= 0} \cup (J \cap Slots)
           /\ \A k \in 0..nGroup : (k = g /\ J # {}) \/ (\E x \in Things : used[x] = k) =>
                 \E x \in Things : used'[x] = k
<1>1. /\ used \in [Things -> -2..NParticle] /\ nGroup \in Nat /\ NParticle \in Nat /\ g \in Nat
    BY ArrayAssumption DEF ArrayInv, ArrayType
<1>2. \A y \in Things : used'[y] = IF y \in J THEN g ELSE used[y]
    OBVIOUS
<1>3. used' \in [Things -> -2..NParticle]
    BY <1>1, <1>2
<1>4. \A x : Members(x)' = Members(x) /\ Held(x)' = Held(x)
    BY DEF Members, Held
<1>5. Slots \subseteq Things /\ Places \subseteq Things
    BY DEF Things
<1>6. /\ \A x \in Things : used[x] < nGroup
      /\ \A x \in broken : used[x] = -2
      /\ \A x \in Slots : \A p \in Members(x) : used[p] = -2
      /\ broken \subseteq Slots
      /\ \A x \in Slots : Members(x) \subseteq Places
  <2>1. \A x \in Slots : Members(x) \subseteq Places
    BY DEF Members, ArrayInv, ArrayType
  <2> QED
    BY <2>1 DEF ArrayInv, UsedOK, ArrayType
<1>7. UsedOK'
  <2>1. \A x \in Things : used'[x] < nGroup'
    BY <1>1, <1>2, <1>6
  <2>2. \A x \in broken : used'[x] = -2
    BY <1>2, <1>5, <1>6
  <2>3. \A x \in Slots : \A p \in Members(x) : used'[p] = -2
    BY <1>2, <1>5, <1>6
  <2> QED
    BY <1>4, <2>1, <2>2, <2>3 DEF UsedOK
<1>8. MembersApart'
    BY <1>4 DEF ArrayInv, MembersApart
<1>9. ASSUME NEW k \in 0..nGroup, k # g PROVE PutIn(k)' = PutIn(k)
  <2>1. {y \in Things : used'[y] = k} = {y \in Things : used[y] = k}
    BY <1>1, <1>2, <1>9
  <2> QED
    BY <1>4, <2>1 DEF PutIn
<1>10. PutIn(g)' = PutIn(g) \cup UNION {Held(x) : x \in J}
  <2>1. {y \in Things : used'[y] = g} = {y \in Things : used[y] = g} \cup J
    BY <1>2
  <2> QED
    BY <1>4, <2>1 DEF PutIn
<1>11. {x \in Slots : used'[x] >= 0} = {x \in Slots : used[x] >= 0} \cup (J \cap Slots)
    BY <1>1, <1>2, <1>5
<1>12. ASSUME NEW k \in 0..nGroup, (k = g /\ J # {}) \/ (\E x \in Things : used[x] = k)
       PROVE  \E x \in Things : used'[x] = k
    BY <1>1, <1>2, <1>12
<1> QED
    BY <1>3, <1>7, <1>8, <1>9, <1>10, <1>11, <1>12

LEMMA InsertStep ==
    ASSUME ArrayInv, arrayPc = "checkNewGroup", NEW x \in Things, used[x] = -1,
           NEW g \in 0..nGroup - 1, Array!InsertIntoGroup(x, g),
           UNCHANGED <<arrayPc, member, broken>>
    PROVE  ArrayInv'
<1> DEFINE n == Array!N(x)
           T == Total
<1>1. n \in Nat \ {0} /\ Held(x) \subseteq Places
    BY ContentProps
<1>2. /\ nGroup \in Nat /\ NParticle \in Nat /\ T \in Nat /\ T <= NParticle /\ nGroup <= T
      /\ T = Top(nGroup) /\ Top(0) = 0
      /\ \A k \in 0..nGroup : Top(k) \in Nat /\ Top(k) <= T
      /\ \A k \in 0..nGroup - 1 : Top(k) < Top(k + 1)
      /\ \A k, l \in 0..nGroup : k < l => Top(k) < Top(l)
    BY TopProps
<1>3. Inserted(origin', x, g)
  <2>1. origin' = Array!Stored(Array!Opened(g, Array!N(x)), offset[g], Array!Content(x))
    BY DEF Array!InsertIntoGroup
  <2> QED
    BY <2>1, InsertedInto
<1>4. /\ offset' = [k \in DOMAIN offset |-> IF k \in g + 1..nGroup - 1 THEN offset[k] + n ELSE offset[k]]
      /\ nParticle' = nParticle + n /\ nGroup' = nGroup
      /\ noAdd' = noAdd \o Array!Entry(x)
      /\ used' = [used EXCEPT ![x] = g]
    BY DEF Array!InsertIntoGroup
<1>5. /\ member \in [Slots -> Seq(Places)] /\ broken \subseteq Slots
      /\ offset \in [0..NParticle -> Nat \cup {-1}]
      /\ used \in [Things -> -2..NParticle]
      /\ noAdd \in Seq(Slots) /\ T = nParticle
      /\ arrayPc' = "checkNewGroup" /\ UNCHANGED <<member, broken>>
    BY DEF ArrayInv, ArrayType, Total
<1> HIDE DEF n
<1>6. T + n <= NParticle /\ Total' = T + n
    BY <1>3, <1>4, <1>5 DEF Inserted, n, Total
<1>7. ASSUME NEW k \in 0..nGroup PROVE Top(k)' = IF k \in g + 1..nGroup THEN Top(k) + n ELSE Top(k)
  <2>1. CASE k = nGroup
    BY <1>2, <1>4, <1>6, <2>1 DEF Top
  <2>2. CASE k # nGroup
    <3>1. k \in 0..NParticle /\ (k \in g + 1..nGroup <=> k \in g + 1..nGroup - 1)
      BY <1>2, <2>2
    <3> QED
      BY <1>4, <1>5, <2>2, <3>1 DEF Top
  <2> QED
    BY <2>1, <2>2
<1>8. offset' \in [0..NParticle -> Nat \cup {-1}]
  <2>1. \A k \in g + 1..nGroup - 1 : offset[k] \in Nat /\ offset[k] + n \in Nat
    <3> SUFFICES ASSUME NEW k \in g + 1..nGroup - 1 PROVE offset[k] \in Nat
      BY <1>1
    <3>1. k \in 0..nGroup /\ k # nGroup
      BY <1>2
    <3> QED
      BY <1>2, <3>1 DEF Top
  <2> QED
    BY <1>4, <1>5, <2>1
<1> HIDE DEF T
<1>9. /\ used' \in [Things -> -2..NParticle] /\ UsedOK' /\ MembersApart'
      /\ \A k \in 0..nGroup : k # g => PutIn(k)' = PutIn(k)
      /\ PutIn(g)' = PutIn(g) \cup UNION {Held(y) : y \in {x}}
      /\ {y \in Slots : used'[y] >= 0} = {y \in Slots : used[y] >= 0} \cup ({x} \cap Slots)
      /\ \A k \in 0..nGroup : (k = g /\ {x} # {}) \/ (\E y \in Things : used[y] = k) =>
            \E y \in Things : used'[y] = k
  <2>1. g \in 0..nGroup /\ g < NParticle /\ nGroup' = IF g = nGroup THEN nGroup + 1 ELSE nGroup
    BY <1>2, <1>4
  <2>2. used' = [y \in Things |-> IF y \in {x} THEN g ELSE used[y]]
    BY <1>4, <1>5
  <2>3. {x} \subseteq Things /\ \A y \in {x} : used[y] = -1
    OBVIOUS
  <2> QED
    BY <1>5, <2>1, <2>2, <2>3, JoinStep
<1>10. noAdd' \in Seq(Slots) /\ NoAddOK'
  <2>1. IsInjective(noAdd) /\ ToSet(noAdd) = {y \in Slots : used[y] >= 0}
    BY DEF ArrayInv, NoAddOK
  <2>2. x \notin ToSet(noAdd)
    BY <2>1
  <2>3. /\ noAdd' \in Seq(Slots) /\ IsInjective(noAdd')
        /\ ToSet(noAdd') = ToSet(noAdd) \cup ({x} \cap Slots)
    BY <1>4, <1>5, <2>1, <2>2, EntryProps
  <2> QED
    BY <1>9, <2>1, <2>3 DEF NoAddOK
<1>11. /\ Whole(origin', T + n)
       /\ \A k \in 0..g - 1 : {origin'[p] : p \in Top(k)..Top(k + 1) - 1} = Filled(k)
       /\ {origin'[p] : p \in Top(g)..Top(g + 1) + n - 1} = Filled(g) \cup Held(x)
       /\ \A k \in g + 1..nGroup - 1 : {origin'[p] : p \in Top(k) + n..Top(k + 1) + n - 1} = Filled(k)
       /\ \A p \in 0..T + n - 1 : origin'[p] \in Held(x) \/ \E q \in 0..T - 1 : origin'[p] = origin[q]
    BY <1>3 DEF Inserted, n, T
<1>12. ArrayType'
  <2>1. origin' \in Cells
    BY <1>11 DEF Whole
  <2>2. nParticle' \in 0..NParticle /\ nGroup' \in 0..NParticle
    BY <1>1, <1>2, <1>4, <1>5, <1>6
  <2> QED
    BY <1>5, <1>8, <1>9, <1>10, <2>1, <2>2 DEF ArrayType
<1>13. TopsOK'
  <2>1. Top(0)' = 0
    BY <1>2, <1>7
  <2>2. ASSUME NEW k \in 0..nGroup PROVE Top(k)' \in Nat /\ k <= Top(k)'
    <3>1. k <= Top(k) /\ Top(k) \in Nat
      BY DEF ArrayInv, TopsOK
    <3> QED
      BY <1>1, <1>7, <3>1
  <2>3. ASSUME NEW k \in 0..nGroup, NEW l \in 0..nGroup, k < l PROVE Top(k)' < Top(l)'
    <3>1. Top(k) < Top(l) /\ Top(k) \in Nat /\ Top(l) \in Nat
      BY <1>2, <2>3
    <3>2. k \in g + 1..nGroup => l \in g + 1..nGroup
      BY <1>2, <2>3
    <3> QED
      BY <1>1, <1>7, <3>1, <3>2
  <2>4. Total' <= NParticle
    BY <1>6
  <2>5. ASSUME NEW k \in 0..nGroup - 1 PROVE \E y \in Things : used'[y] = k
    <3>1. \E y \in Things : used[y] = k
      BY DEF ArrayInv, TopsOK
    <3>2. k \in 0..nGroup
      BY <1>2
    <3> QED
      BY <1>9, <3>1, <3>2
  <2> QED
    BY <1>4, <2>1, <2>2, <2>3, <2>4, <2>5 DEF TopsOK
<1>14. FillOK'
  <2>1. /\ \A p \in 0..Total' - 1 : origin'[p] \in Places
        /\ \A p, q \in 0..Total' - 1 : origin'[p] = origin'[q] => p = q
    BY <1>6, <1>11 DEF Whole
  <2>2. ASSUME NEW k \in 0..nGroup - 1 PROVE Filled(k)' = PutIn(k)'
    <3>1. Filled(k) = PutIn(k)
      BY PutInSome
    <3>2. k \in 0..nGroup /\ k + 1 \in 0..nGroup
      BY <1>2
    <3>3. Top(k) \in Nat /\ Top(k + 1) \in Nat
      BY <1>2, <3>2
    <3>4. Filled(k)' = {origin'[p] : p \in Top(k)'..Top(k + 1)' - 1}
      BY DEF Filled
    <3>5. CASE k < g
      <4>1. k \in 0..g - 1 /\ k \notin g + 1..nGroup /\ k + 1 \notin g + 1..nGroup
        BY <1>2, <3>5
      <4>2. Top(k)' = Top(k) /\ Top(k + 1)' = Top(k + 1)
        BY <1>7, <3>2, <4>1
      <4> QED
        BY <1>9, <1>11, <3>1, <3>2, <3>4, <3>5, <4>1, <4>2
    <3>6. CASE k = g
      <4>1. k \notin g + 1..nGroup /\ k + 1 \in g + 1..nGroup
        BY <1>2, <3>6
      <4>2. Top(k)' = Top(k) /\ Top(k + 1)' = Top(k + 1) + n
        BY <1>7, <3>2, <4>1
      <4>3. Top(k + 1) + n - 1 = (Top(k + 1) + n) - 1
        BY <1>1, <3>3
      <4> QED
        BY <1>9, <1>11, <3>1, <3>4, <3>6, <4>2, <4>3
    <3>7. CASE k > g
      <4>1. k \in g + 1..nGroup /\ k + 1 \in g + 1..nGroup /\ k \in g + 1..nGroup - 1
        BY <1>2, <3>7
      <4>2. Top(k)' = Top(k) + n /\ Top(k + 1)' = Top(k + 1) + n
        BY <1>7, <3>2, <4>1
      <4>3. Top(k + 1) + n - 1 = (Top(k + 1) + n) - 1
        BY <1>1, <3>3
      <4> QED
        BY <1>9, <1>11, <3>1, <3>2, <3>4, <3>7, <4>1, <4>2, <4>3
    <3> QED
      BY <3>5, <3>6, <3>7
  <2>3. ASSUME NEW y \in broken, NEW p \in 0..Total' - 1 PROVE origin'[p] \notin Members(y)
    <3>1. y \in Slots /\ y \in Things /\ used[y] = -2 /\ y # x
      BY <1>5 DEF Things, ArrayInv, UsedOK
    <3>2. Members(y) \cap Held(x) = {}
      <4>1. Held(y) \cap Held(x) = {}
        BY <3>1, HeldApart
      <4> QED
        BY <3>1, <4>1 DEF Held
    <3>3. \A q \in 0..T - 1 : origin[q] \notin Members(y)
      BY DEF ArrayInv, FillOK, T
    <3>4. p \in 0..T + n - 1
      BY <1>1, <1>2, <1>6 DEF T
    <3> QED
      BY <1>11, <3>2, <3>3, <3>4
  <2>4. \A y : Members(y)' = Members(y)
    BY <1>5 DEF Members
  <2>5. /\ \A k \in 0..nGroup' - 1 : PutIn(k)' # {} => Filled(k)' = PutIn(k)'
        /\ \A y \in broken' : \A p \in 0..Total' - 1 : origin'[p] \notin Members(y)'
    BY <1>4, <1>5, <2>2, <2>3, <2>4
  <2> QED
    BY <2>1, <2>5 DEF FillOK
<1> QED
    BY <1>9, <1>10, <1>12, <1>13, <1>14 DEF ArrayInv

LEMMA NewGroupStep ==
    ASSUME ArrayInv, arrayPc = "checkNewGroup", NEW i \in Things, NEW j \in Things, i # j,
           used[i] = -1, used[j] = -1, Array!InsertNewGroup(i, j),
           UNCHANGED <<arrayPc, member, broken>>
    PROVE  ArrayInv'
<1> DEFINE s == Array!Content(i) \o Array!Content(j)
           n == Array!N(i) + Array!N(j)
           T == Total
           H == Held(i) \cup Held(j)
<1>0. PICK m : m = nGroup
    OBVIOUS
<1>1. /\ s \in Seq(Places) /\ IsInjective(s) /\ ToSet(s) = H /\ n = Len(s)
      /\ n \in Nat \ {0} /\ H \subseteq Places
  <2>1. /\ Array!Content(i) \in Seq(Places) /\ IsInjective(Array!Content(i))
        /\ ToSet(Array!Content(i)) = Held(i) /\ Array!N(i) = Len(Array!Content(i))
        /\ Array!N(i) \in Nat \ {0} /\ Held(i) \subseteq Places
    BY ContentProps
  <2>2. /\ Array!Content(j) \in Seq(Places) /\ IsInjective(Array!Content(j))
        /\ ToSet(Array!Content(j)) = Held(j) /\ Array!N(j) = Len(Array!Content(j))
        /\ Array!N(j) \in Nat \ {0} /\ Held(j) \subseteq Places
    BY ContentProps
  <2>3. Held(i) \cap Held(j) = {}
    BY HeldApart
  <2>4. s \in Seq(Places) /\ Len(s) = Len(Array!Content(i)) + Len(Array!Content(j))
    BY <2>1, <2>2, Joined
  <2>5. ToSet(s) = ToSet(Array!Content(i)) \cup ToSet(Array!Content(j)) /\ IsInjective(s)
    BY <2>1, <2>2, <2>3, Joined
  <2> HIDE DEF s
  <2> QED
    BY <2>1, <2>2, <2>4, <2>5
<1>2. /\ m \in Nat /\ NParticle \in Nat /\ T \in Nat /\ T <= NParticle /\ m <= T
      /\ T = Top(m) /\ Top(0) = 0
      /\ \A k \in 0..m : Top(k) \in Nat /\ Top(k) <= T
      /\ \A k, l \in 0..m : k < l => Top(k) < Top(l)
    BY <1>0, TopProps
<1>3. /\ member \in [Slots -> Seq(Places)] /\ broken \subseteq Slots
      /\ offset \in [0..NParticle -> Nat \cup {-1}]
      /\ used \in [Things -> -2..NParticle]
      /\ noAdd \in Seq(Slots) /\ T = nParticle
      /\ arrayPc' = "checkNewGroup" /\ UNCHANGED <<member, broken>>
    BY DEF ArrayInv, ArrayType, Total
<1>4. /\ offset' = [offset EXCEPT ![m] = nParticle]
      /\ origin' = Array!Stored(origin, nParticle, s)
      /\ nParticle' = nParticle + n
      /\ nGroup' = m + 1
      /\ noAdd' = noAdd \o Array!Entry(i) \o Array!Entry(j)
      /\ used' = [used EXCEPT ![i] = m, ![j] = m]
  <2>1. nParticle' = nParticle + Array!N(i) + Array!N(j) /\ nParticle \in Nat
        /\ Array!N(i) \in Nat /\ Array!N(j) \in Nat
    BY <1>3, <1>2, ContentProps DEF Array!InsertNewGroup
  <2>2. nParticle' = nParticle + n
    BY <2>1
  <2> QED
    BY <1>0, <2>2 DEF Array!InsertNewGroup
<1> HIDE DEF s, n, H
<1>5. \A p \in 0..T - 1 : origin[p] \notin H
  <2>1. \A p \in 0..Total - 1 : origin[p] \notin Held(i)
    BY Fresh
  <2>2. \A p \in 0..Total - 1 : origin[p] \notin Held(j)
    BY Fresh
  <2> QED
    BY <2>1, <2>2 DEF H
<1>6. Whole(origin, T)
    BY DEF Whole, ArrayInv, ArrayType, FillOK
<1> HIDE DEF T
<1>7. LongerBy(origin, origin', T, s)
  <2>1. \A p \in 0..T - 1 : origin[p] \notin ToSet(s)
    BY <1>1, <1>5
  <2>2. origin' = Array!Stored(origin, T, s)
    BY <1>3, <1>4
  <2> QED
    BY <1>1, <1>2, <1>6, <2>1, <2>2, AppendedTo
<1>8. /\ T + n <= NParticle
      /\ Whole(origin', T + n)
      /\ \A p \in 0..T - 1 : origin'[p] = origin[p]
      /\ \A p \in T..T + n - 1 : origin'[p] \in H
      /\ \A v \in H : \E p \in T..T + n - 1 : origin'[p] = v
    BY <1>1, <1>7 DEF LongerBy
<1>9. Total' = T + n /\ m + 1 <= T + n /\ m + 1 \in 0..NParticle /\ m \in 0..NParticle
    BY <1>1, <1>2, <1>3, <1>4, <1>8 DEF Total
<1>10. /\ \A k \in 0..m : Top(k)' = Top(k)
       /\ Top(m + 1)' = T + n
  <2>1. Top(m + 1)' = T + n
    BY <1>4, <1>9 DEF Top
  <2>2. ASSUME NEW k \in 0..m PROVE Top(k)' = Top(k)
    <3>1. k \in 0..NParticle /\ k # m + 1
      BY <1>2, <1>9
    <3>2. Top(k)' = offset'[k]
      BY <1>4, <3>1 DEF Top
    <3>3. offset'[k] = IF k = m THEN nParticle ELSE offset[k]
      BY <1>3, <1>4, <3>1
    <3> QED
      BY <1>0, <1>2, <1>3, <3>2, <3>3 DEF Top
  <2> QED
    BY <2>1, <2>2
<1>11. offset' \in [0..NParticle -> Nat \cup {-1}]
    BY <1>2, <1>3, <1>4
<1>12. /\ used' \in [Things -> -2..NParticle] /\ UsedOK' /\ MembersApart'
       /\ \A k \in 0..m : k # m => PutIn(k)' = PutIn(k)
       /\ PutIn(m)' = PutIn(m) \cup UNION {Held(y) : y \in {i, j}}
       /\ {y \in Slots : used'[y] >= 0} = {y \in Slots : used[y] >= 0} \cup ({i, j} \cap Slots)
       /\ \A k \in 0..m : (k = m /\ {i, j} # {}) \/ (\E y \in Things : used[y] = k) =>
             \E y \in Things : used'[y] = k
  <2>1. m \in 0..nGroup /\ m < NParticle
        /\ nGroup' = IF m = nGroup THEN nGroup + 1 ELSE nGroup
    BY <1>0, <1>2, <1>4, <1>9
  <2>2. used' = [y \in Things |-> IF y \in {i, j} THEN m ELSE used[y]]
    BY <1>3, <1>4
  <2>3. {i, j} \subseteq Things /\ \A y \in {i, j} : used[y] = -1
    OBVIOUS
  <2>4. /\ used' \in [Things -> -2..NParticle] /\ UsedOK' /\ MembersApart'
        /\ \A k \in 0..nGroup : k # m => PutIn(k)' = PutIn(k)
        /\ PutIn(m)' = PutIn(m) \cup UNION {Held(y) : y \in {i, j}}
        /\ {y \in Slots : used'[y] >= 0} = {y \in Slots : used[y] >= 0} \cup ({i, j} \cap Slots)
        /\ \A k \in 0..nGroup : (k = m /\ {i, j} # {}) \/ (\E y \in Things : used[y] = k) =>
              \E y \in Things : used'[y] = k
    BY <1>3, <2>1, <2>2, <2>3, JoinStep
  <2> QED
    BY <1>0, <2>4
<1>13. PutIn(m)' = H
  <2>1. PutIn(m) = {}
    <3>1. \A y \in Things : used[y] # m
      BY <1>0, <1>2, <1>3 DEF ArrayInv, UsedOK
    <3> QED
      BY <3>1 DEF PutIn
  <2> QED
    BY <1>12, <2>1 DEF H
<1>14. noAdd' \in Seq(Slots) /\ NoAddOK'
  <2> DEFINE t == noAdd \o Array!Entry(i)
  <2>1. IsInjective(noAdd) /\ ToSet(noAdd) = {y \in Slots : used[y] >= 0}
    BY DEF ArrayInv, NoAddOK
  <2>2. i \notin ToSet(noAdd) /\ j \notin ToSet(noAdd)
    BY <2>1
  <2>3. t \in Seq(Slots) /\ IsInjective(t) /\ ToSet(t) = ToSet(noAdd) \cup ({i} \cap Slots)
    BY <1>3, <2>1, <2>2, EntryProps
  <2> HIDE DEF t
  <2>4. j \notin ToSet(t)
    BY <2>2, <2>3
  <2>5. noAdd' = t \o Array!Entry(j)
    BY <1>4 DEF t
  <2>6. /\ noAdd' \in Seq(Slots) /\ IsInjective(noAdd')
        /\ ToSet(noAdd') = ToSet(t) \cup ({j} \cap Slots)
    BY <2>3, <2>4, <2>5, EntryProps
  <2>7. ToSet(noAdd') = {y \in Slots : used'[y] >= 0}
    BY <1>12, <2>1, <2>3, <2>6
  <2> QED
    BY <2>6, <2>7 DEF NoAddOK
<1>15. ArrayType'
  <2>1. origin' \in Cells
    BY <1>8 DEF Whole
  <2>2. nParticle' \in 0..NParticle /\ nGroup' \in 0..NParticle
    BY <1>1, <1>2, <1>3, <1>4, <1>8, <1>9
  <2> QED
    BY <1>3, <1>11, <1>12, <1>14, <2>1, <2>2 DEF ArrayType
<1>16. /\ \A k \in 0..m + 1 : k \in 0..m \/ k = m + 1
       /\ 0..nGroup' - 1 = 0..m /\ 0..nGroup' = 0..m + 1
    BY <1>2, <1>4
<1>17. TopsOK'
  <2>1. Top(0)' = 0
    BY <1>2, <1>10
  <2>2. ASSUME NEW k \in 0..m + 1 PROVE Top(k)' \in Nat /\ k <= Top(k)'
    <3>1. CASE k \in 0..m
      BY <1>0, <1>10, <3>1 DEF ArrayInv, TopsOK
    <3>2. CASE k = m + 1
      BY <1>1, <1>2, <1>9, <1>10, <3>2
    <3> QED
      BY <1>16, <3>1, <3>2
  <2>3. ASSUME NEW k \in 0..m + 1, NEW l \in 0..m + 1, k < l PROVE Top(k)' < Top(l)'
    <3>1. k \in 0..m
      BY <1>2, <2>3
    <3>2. CASE l \in 0..m
      BY <1>2, <1>10, <2>3, <3>1, <3>2
    <3>3. CASE l = m + 1
      <4>1. Top(k) <= T /\ Top(k) \in Nat
        BY <1>2, <3>1
      <4> QED
        BY <1>1, <1>2, <1>10, <3>1, <3>3, <4>1
    <3> QED
      BY <1>16, <3>2, <3>3
  <2>4. Total' <= NParticle
    BY <1>8, <1>9
  <2>5. ASSUME NEW k \in 0..m PROVE \E y \in Things : used'[y] = k
    <3>1. k \in 0..m /\ (k = m \/ k \in 0..m - 1)
      BY <1>2
    <3>2. k = m \/ \E y \in Things : used[y] = k
      BY <1>0, <3>1 DEF ArrayInv, TopsOK
    <3> QED
      BY <1>12, <3>1, <3>2
  <2> QED
    BY <1>16, <2>1, <2>2, <2>3, <2>4, <2>5 DEF TopsOK
<1>18. FillOK'
  <2>1. /\ \A p \in 0..Total' - 1 : origin'[p] \in Places
        /\ \A p, q \in 0..Total' - 1 : origin'[p] = origin'[q] => p = q
    BY <1>8, <1>9 DEF Whole
  <2>2. ASSUME NEW k \in 0..m PROVE Filled(k)' = PutIn(k)'
    <3>1. Filled(k)' = {origin'[p] : p \in Top(k)'..Top(k + 1)' - 1}
      BY DEF Filled
    <3>2. CASE k = m
      <4>1. Top(k)' = T /\ Top(k + 1)' = T + n
        BY <1>2, <1>10, <3>2
      <4>2. {origin'[p] : p \in T..T + n - 1} = H
        BY <1>8
      <4>3. (T + n) - 1 = T + n - 1
        BY <1>1, <1>2
      <4> QED
        BY <1>13, <3>1, <3>2, <4>1, <4>2, <4>3
    <3>3. CASE k # m
      <4>1. k \in 0..m - 1 /\ k \in 0..m /\ k + 1 \in 0..m
        BY <1>2, <3>3
      <4>2. Top(k)' = Top(k) /\ Top(k + 1)' = Top(k + 1)
        BY <1>10, <4>1
      <4>3. \A p \in Top(k)..Top(k + 1) - 1 : origin'[p] = origin[p]
        <5>1. Top(k) \in Nat /\ Top(k + 1) \in Nat /\ Top(k + 1) <= T
          BY <1>2, <4>1
        <5>2. \A p \in Top(k)..Top(k + 1) - 1 : p \in 0..T - 1
          BY <1>2, <5>1
        <5> QED
          BY <1>8, <5>2
      <4>4. Filled(k)' = Filled(k)
        BY <3>1, <4>2, <4>3 DEF Filled
      <4>5. Filled(k) = PutIn(k)
        BY <1>0, <4>1, PutInSome
      <4> QED
        BY <1>12, <3>3, <4>1, <4>4, <4>5
    <3> QED
      BY <3>2, <3>3
  <2>3. ASSUME NEW y \in broken, NEW p \in 0..Total' - 1 PROVE origin'[p] \notin Members(y)
    <3>1. y \in Slots /\ y \in Things /\ used[y] = -2 /\ y # i /\ y # j
      BY <1>3 DEF Things, ArrayInv, UsedOK
    <3>2. Members(y) \cap H = {}
      <4>1. Held(y) \cap Held(i) = {}
        BY <3>1, HeldApart
      <4>2. Held(y) \cap Held(j) = {}
        BY <3>1, HeldApart
      <4> QED
        BY <3>1, <4>1, <4>2 DEF Held, H
    <3>3. \A q \in 0..T - 1 : origin[q] \notin Members(y)
      BY DEF ArrayInv, FillOK, T
    <3>4. p \in 0..T - 1 \/ p \in T..T + n - 1
      BY <1>1, <1>2, <1>9
    <3> QED
      BY <1>8, <3>2, <3>3, <3>4
  <2>4. \A y : Members(y)' = Members(y)
    BY <1>3 DEF Members
  <2>5. /\ \A k \in 0..nGroup' - 1 : PutIn(k)' # {} => Filled(k)' = PutIn(k)'
        /\ \A y \in broken' : \A p \in 0..Total' - 1 : origin'[p] \notin Members(y)'
    BY <1>3, <1>16, <2>2, <2>3, <2>4
  <2> QED
    BY <2>1, <2>5 DEF FillOK
<1> QED
    BY <1>12, <1>14, <1>15, <1>17, <1>18 DEF ArrayInv

LEMMA CheckNewGroupStep ==
    ASSUME ArrayInv, Array!CheckNewGroup
    PROVE  ArrayInv'
<1>1. arrayPc = "checkNewGroup" /\ UNCHANGED <<arrayPc, member, broken>>
    BY DEF Array!CheckNewGroup
<1>2. PICK i \in Array!Particles \cup Array!Groups, j \in Array!Particles \cup Array!Groups :
          /\ i # j /\ used[i] # -2 /\ used[j] # -2
          /\ ~ (used[i] >= 0 /\ used[j] >= 0)
          /\ IF used[i] >= 0 THEN Array!InsertIntoGroup(j, used[i])
             ELSE IF used[j] >= 0 THEN Array!InsertIntoGroup(i, used[j])
             ELSE Array!InsertNewGroup(i, j)
    BY DEF Array!CheckNewGroup
<1>3. i \in Things /\ j \in Things
    BY <1>2, SameArray DEF Things
<1>4. \A x \in Things : /\ used[x] # -2 /\ ~(used[x] >= 0) => used[x] = -1
                        /\ used[x] >= 0 => used[x] \in 0..nGroup - 1
  <2>1. \A x \in Things : used[x] \in -2..NParticle /\ used[x] < nGroup
    BY DEF ArrayInv, ArrayType, UsedOK
  <2>2. nGroup \in Nat /\ NParticle \in Nat
    BY TopProps
  <2> QED
    BY <2>1, <2>2
<1>5. CASE used[i] >= 0
  <2>1. used[j] = -1 /\ Array!InsertIntoGroup(j, used[i]) /\ used[i] \in 0..nGroup - 1
    BY <1>2, <1>3, <1>4, <1>5
  <2> QED
    BY <1>1, <1>3, <2>1, InsertStep
<1>6. CASE ~(used[i] >= 0) /\ used[j] >= 0
  <2>1. used[i] = -1 /\ Array!InsertIntoGroup(i, used[j]) /\ used[j] \in 0..nGroup - 1
    BY <1>2, <1>3, <1>4, <1>6
  <2> QED
    BY <1>1, <1>3, <2>1, InsertStep
<1>7. CASE ~(used[i] >= 0) /\ ~(used[j] >= 0)
  <2>1. used[i] = -1 /\ used[j] = -1 /\ Array!InsertNewGroup(i, j)
    BY <1>2, <1>3, <1>4, <1>7
  <2> QED
    BY <1>1, <1>2, <1>3, <2>1, NewGroupStep
<1> QED
    BY <1>5, <1>6, <1>7

LEMMA CloseStep ==
    ASSUME ArrayInv, Array!CloseGroups
    PROVE  ArrayInv'
<1>1. /\ arrayPc = "checkNewGroup" /\ arrayPc' = "breakGroups"
      /\ offset' = [offset EXCEPT ![nGroup] = nParticle]
      /\ UNCHANGED <<member, broken, origin, nParticle, nGroup, used, noAdd>>
    BY DEF Array!CloseGroups
<1>2. /\ nGroup \in 0..NParticle /\ nParticle \in Nat /\ Total = nParticle
      /\ offset \in [0..NParticle -> Nat \cup {-1}] /\ nGroup \in Nat
    BY <1>1, ArrayAssumption DEF ArrayInv, ArrayType, Total
<1>3. offset' \in [0..NParticle -> Nat \cup {-1}] /\ offset'[nGroup] = nParticle
    BY <1>1, <1>2
<1>4. Total' = Total
    BY <1>1, <1>2, <1>3 DEF Total
<1>5. ASSUME NEW k \in 0..nGroup PROVE Top(k)' = Top(k)
  <2>1. CASE k = nGroup
    BY <1>1, <1>4, <2>1 DEF Top
  <2>2. CASE k # nGroup
    <3>1. k \in 0..NParticle
      BY <1>2, ArrayAssumption
    <3>2. offset'[k] = offset[k]
      BY <1>1, <1>2, <2>2, <3>1
    <3> QED
      BY <1>1, <2>2, <3>2 DEF Top
  <2> QED
    BY <2>1, <2>2
<1>6. \A x : Members(x)' = Members(x) /\ Held(x)' = Held(x)
    BY <1>1 DEF Members, Held
<1>7. \A g : PutIn(g)' = PutIn(g)
    BY <1>1, <1>6 DEF PutIn
<1>8. \A k \in 0..nGroup - 1 : Filled(k)' = Filled(k)
  <2> SUFFICES ASSUME NEW k \in 0..nGroup - 1 PROVE Filled(k)' = Filled(k)
    OBVIOUS
  <2>1. k \in 0..nGroup /\ k + 1 \in 0..nGroup
    BY <1>2
  <2> QED
    BY <1>1, <1>5, <2>1 DEF Filled
<1>9. ArrayType'
    BY <1>1, <1>3 DEF ArrayInv, ArrayType
<1>10. MembersApart' /\ UsedOK' /\ NoAddOK'
    BY <1>1, <1>6 DEF ArrayInv, MembersApart, UsedOK, NoAddOK
<1>11. TopsOK'
  <2>1. Top(0)' = Top(0)
    BY <1>2, <1>5
  <2>2. Top(0)' = 0 /\ (\A g \in 0..nGroup : Top(g)' \in Nat /\ g <= Top(g)') /\ Total' <= NParticle
    BY <1>4, <1>5, <2>1 DEF ArrayInv, TopsOK
  <2>3. \A g, h \in 0..nGroup : g < h => Top(g)' < Top(h)'
    BY <1>5 DEF ArrayInv, TopsOK
  <2> QED
    BY <1>1, <2>2, <2>3 DEF TopsOK
<1>12. FillOK'
    BY <1>1, <1>4, <1>6, <1>7, <1>8 DEF ArrayInv, FillOK
<1> QED
    BY <1>9, <1>10, <1>11, <1>12 DEF ArrayInv

\* The arrays r of breakGroups, without what they say of the groups joined before.
SoundArrays(r) ==
    /\ r.offset \in [0..NParticle -> Nat \cup {-1}]
    /\ r.nGroup \in Nat /\ r.nGroup <= NParticle
    /\ Whole(r.origin, r.offset[r.nGroup])
    /\ r.offset[0] = 0
    /\ \A g \in 0..r.nGroup : r.offset[g] \in Nat /\ g <= r.offset[g]
    /\ \A g, h \in 0..r.nGroup : g < h => r.offset[g] < r.offset[h]
    /\ r.offset[r.nGroup] <= NParticle

\* t is r with b behind the last group, or r.
GrownBy(r, t, b) ==
    /\ r.nGroup <= t.nGroup
    /\ \A g \in 0..r.nGroup : t.offset[g] = r.offset[g]
    /\ \A p \in 0..r.offset[r.nGroup] - 1 : t.origin[p] = r.origin[p]
    /\ \A p \in 0..t.offset[t.nGroup] - 1 :
          t.origin[p] \in b \/ \E q \in 0..r.offset[r.nGroup] - 1 : t.origin[p] = r.origin[q]

LEMMA AppendedProps ==
    ASSUME NEW r, SoundArrays(r), NEW b, b \subseteq Places,
           \A p \in 0..r.offset[r.nGroup] - 1 : r.origin[p] \notin b
    PROVE  SoundArrays(Array!Appended(r, b)) /\ GrownBy(r, Array!Appended(r, b), b)
<1>1. CASE b = {}
  <2>1. Array!Appended(r, b) = r
    BY <1>1 DEF Array!Appended
  <2>2. GrownBy(r, r, b)
    BY DEF SoundArrays, GrownBy
  <2> QED
    BY <2>1, <2>2
<1>2. CASE b # {}
  <2> DEFINE s == SetToSeq(b)
             n == Cardinality(b)
             m == r.nGroup
             T == r.offset[m]
             t == Array!Appended(r, b)
  <2>1. NParticle \in Nat
    BY ArrayAssumption
  <2>2. IsFiniteSet(b)
    <3>1. 0 \in Int /\ NParticle - 1 \in Int
      BY <2>1
    <3>2. IsFiniteSet(Places)
      BY <3>1, FS_Interval DEF Places
    <3> QED
      BY <3>2, FS_Subset
  <2>3. s \in Seq(b) /\ IsInjective(s) /\ ToSet(s) = b /\ Len(s) = n
    BY <2>2, SequenceOf
  <2>4. n \in Nat \ {0}
    <3>1. n \in Nat
      BY <2>2, FS_CardinalityType
    <3>2. n # 0
      BY <1>2, <2>2, FS_EmptySet
    <3> QED
      BY <3>1, <3>2
  <2>5. s \in Seq(Places)
    BY <2>3
  <2>6. /\ r.offset \in [0..NParticle -> Nat \cup {-1}]
        /\ m \in Nat /\ m <= NParticle
        /\ Whole(r.origin, T)
        /\ r.offset[0] = 0
        /\ \A g \in 0..m : r.offset[g] \in Nat /\ g <= r.offset[g]
        /\ \A g, h \in 0..m : g < h => r.offset[g] < r.offset[h]
        /\ T <= NParticle
    BY DEF SoundArrays
  <2>7. T \in Nat /\ m <= T
    BY <2>6
  <2>8. /\ t.origin = Array!Stored(r.origin, T, s)
        /\ t.offset = [r.offset EXCEPT ![m + 1] = T + n]
        /\ t.nGroup = m + 1
    <3>1. Array!SetToSeq(b) = s /\ Array!Cardinality(b) = n
      BY SameArray
    <3> QED
      BY <1>2, <3>1 DEF Array!Appended
  <2>9. \A p \in 0..T - 1 : r.origin[p] \notin b
    OBVIOUS
  <2> HIDE DEF s, n, m, T, t
  <2>10. LongerBy(r.origin, t.origin, T, s)
    BY <2>3, <2>5, <2>6, <2>7, <2>8, <2>9, AppendedTo
  <2>11. /\ T + n <= NParticle
         /\ Whole(t.origin, T + n)
         /\ \A p \in 0..T - 1 : t.origin[p] = r.origin[p]
         /\ \A p \in T..T + n - 1 : t.origin[p] \in b
    BY <2>3, <2>10 DEF LongerBy
  <2>12. m + 1 <= T + n /\ m + 1 \in 0..NParticle /\ T + n \in Nat
    BY <2>1, <2>4, <2>6, <2>7, <2>11
  <2>13. /\ t.offset \in [0..NParticle -> Nat \cup {-1}]
         /\ t.offset[m + 1] = T + n
         /\ \A g \in 0..m : t.offset[g] = r.offset[g]
    <3>1. \A g \in 0..m : g \in 0..NParticle /\ g # m + 1
      BY <2>1, <2>6
    <3> QED
      BY <2>6, <2>8, <2>12, <3>1
  <2>14. \A g \in 0..m + 1 : g \in 0..m \/ g = m + 1
    BY <2>6
  <2>15. \A g \in 0..m + 1 : t.offset[g] \in Nat /\ g <= t.offset[g]
    BY <2>6, <2>12, <2>13, <2>14
  <2>16. \A g, h \in 0..m + 1 : g < h => t.offset[g] < t.offset[h]
    <3> SUFFICES ASSUME NEW g \in 0..m + 1, NEW h \in 0..m + 1, g < h
                 PROVE  t.offset[g] < t.offset[h]
      OBVIOUS
    <3>1. g \in 0..m
      BY <2>6
    <3>2. CASE h \in 0..m
      BY <2>6, <2>13, <3>1, <3>2
    <3>3. CASE h = m + 1
      <4>1. r.offset[g] \in Nat /\ r.offset[g] <= T
        <5>1. g = m \/ g < m
          BY <2>6, <3>1
        <5>2. m \in 0..m
          BY <2>6
        <5> QED
          BY <2>6, <2>7, <3>1, <5>1, <5>2 DEF T
      <4> QED
        BY <2>4, <2>7, <2>13, <3>1, <3>3, <4>1
    <3> QED
      BY <2>14, <3>2, <3>3
  <2>17. t.offset[0] = 0
    BY <2>6, <2>13
  <2>18. SoundArrays(t)
    BY <2>6, <2>8, <2>11, <2>12, <2>13, <2>15, <2>16, <2>17 DEF SoundArrays
  <2>19. \A p \in 0..T + n - 1 : t.origin[p] \in b \/ \E q \in 0..T - 1 : t.origin[p] = r.origin[q]
    <3>1. \A p \in 0..T + n - 1 : p \in 0..T - 1 \/ p \in T..T + n - 1
      BY <2>4, <2>7
    <3> QED
      BY <2>11, <3>1
  <2>20. GrownBy(r, t, b)
    <3>1. m <= t.nGroup /\ t.offset[t.nGroup] = T + n /\ (T + n) - 1 = T + n - 1
      BY <2>4, <2>6, <2>7, <2>8, <2>13
    <3> QED
      BY <2>11, <2>13, <2>19, <3>1 DEF GrownBy, T, m
  <2> QED
    BY <2>18, <2>20 DEF t
<1> QED
    BY <1>1, <1>2

LEMMA BranchesStep ==
    ASSUME ArrayInv, Array!AppendBranches
    PROVE  ArrayInv'
<1> DEFINE old == [origin |-> origin, offset |-> offset, nGroup |-> nGroup]
<1>1. PICK x \in broken, left \in SUBSET Places, right \in SUBSET Places :
          /\ left \subseteq Members(x) /\ right \subseteq Members(x) /\ left \cap right = {}
          /\ broken' = broken \ {x}
          /\ origin' = Array!Appended(Array!Appended(old, left), right).origin
          /\ offset' = Array!Appended(Array!Appended(old, left), right).offset
          /\ nGroup' = Array!Appended(Array!Appended(old, left), right).nGroup
  <2>1. PICK x \in broken : \E left, right \in SUBSET Array!ToSet(member[x]) :
          /\ left \cap right = {}
          /\ broken' = broken \ {x}
          /\ origin' = Array!Appended(Array!Appended(old, left), right).origin
          /\ offset' = Array!Appended(Array!Appended(old, left), right).offset
          /\ nGroup' = Array!Appended(Array!Appended(old, left), right).nGroup
    BY DEF Array!AppendBranches
  <2>2. Array!ToSet(member[x]) = Members(x)
    <3>1. member[x] \in Seq(Places)
      BY DEF ArrayInv, ArrayType
    <3> QED
      BY <3>1, SameArray DEF ToSet, Members
  <2>3. Members(x) \subseteq Places
    BY DEF ArrayInv, ArrayType, Members
  <2> HIDE DEF old
  <2> QED
    BY <2>1, <2>2, <2>3
<1>2. arrayPc = "breakGroups" /\ UNCHANGED <<arrayPc, member, nParticle, used, noAdd>>
    BY DEF Array!AppendBranches
<1> DEFINE mid == Array!Appended(old, left)
           end == Array!Appended(mid, right)
           T == offset[nGroup]
<1>3. /\ nGroup \in Nat /\ NParticle \in Nat /\ T \in Nat /\ T = Total /\ nGroup <= NParticle
      /\ \A g \in 0..nGroup : Top(g) = offset[g]
  <2>1. nGroup \in Nat /\ NParticle \in Nat /\ Total \in Nat /\ nGroup <= Total /\ Total <= NParticle
    BY TopProps
  <2>2. T = Total
    BY <1>2 DEF Total
  <2> QED
    BY <2>1, <2>2 DEF Top
<1>4. SoundArrays(old)
  <2>1. Whole(origin, T)
    BY <1>3 DEF Whole, ArrayInv, ArrayType, FillOK
  <2>2. /\ Top(0) = 0
        /\ \A g \in 0..nGroup : Top(g) \in Nat /\ g <= Top(g)
        /\ \A g, h \in 0..nGroup : g < h => Top(g) < Top(h)
        /\ Total <= NParticle
    BY DEF ArrayInv, TopsOK
  <2>3. offset \in [0..NParticle -> Nat \cup {-1}]
    BY DEF ArrayInv, ArrayType
  <2>4. offset[0] = 0
    BY <1>3, <2>2
  <2> QED
    BY <1>3, <2>1, <2>2, <2>3, <2>4 DEF SoundArrays
<1>5. Members(x) \subseteq Places /\ x \in Slots
    BY DEF ArrayInv, ArrayType, Members
<1>6. \A y \in broken : \A p \in 0..T - 1 : origin[p] \notin Members(y)
    BY <1>3 DEF ArrayInv, FillOK
<1>7. old.origin = origin /\ old.offset = offset /\ old.nGroup = nGroup
    OBVIOUS
<1> HIDE DEF old, T
<1>8. SoundArrays(mid) /\ GrownBy(old, mid, left)
  <2>1. \A p \in 0..old.offset[old.nGroup] - 1 : old.origin[p] \notin left
    BY <1>1, <1>6, <1>7 DEF T
  <2>2. left \subseteq Places
    BY <1>1, <1>5
  <2> QED
    BY <1>4, <2>1, <2>2, AppendedProps
<1> HIDE DEF mid
<1> DEFINE M == mid.offset[mid.nGroup]
<1>9. /\ nGroup <= mid.nGroup
      /\ \A g \in 0..nGroup : mid.offset[g] = offset[g]
      /\ \A p \in 0..T - 1 : mid.origin[p] = origin[p]
      /\ \A p \in 0..M - 1 : mid.origin[p] \in left \/ \E q \in 0..T - 1 : mid.origin[p] = origin[q]
    BY <1>7, <1>8 DEF GrownBy, T
<1>10. SoundArrays(end) /\ GrownBy(mid, end, right)
  <2>1. \A p \in 0..M - 1 : mid.origin[p] \notin right
    BY <1>1, <1>6, <1>9
  <2>2. right \subseteq Places
    BY <1>1, <1>5
  <2> QED
    BY <1>8, <2>1, <2>2, AppendedProps
<1>11. end.origin = origin' /\ end.offset = offset' /\ end.nGroup = nGroup'
    BY <1>1 DEF mid
<1> HIDE DEF end
<1> DEFINE E == offset'[nGroup']
<1>12. /\ mid.nGroup <= nGroup'
       /\ \A g \in 0..mid.nGroup : offset'[g] = mid.offset[g]
       /\ \A p \in 0..M - 1 : origin'[p] = mid.origin[p]
       /\ \A p \in 0..E - 1 : origin'[p] \in right \/ \E q \in 0..M - 1 : origin'[p] = mid.origin[q]
    BY <1>10, <1>11 DEF GrownBy
<1>13. /\ offset' \in [0..NParticle -> Nat \cup {-1}]
       /\ nGroup' \in Nat /\ nGroup' <= NParticle
       /\ Whole(origin', E)
       /\ offset'[0] = 0
       /\ \A g \in 0..nGroup' : offset'[g] \in Nat /\ g <= offset'[g]
       /\ \A g, h \in 0..nGroup' : g < h => offset'[g] < offset'[h]
       /\ E <= NParticle
    BY <1>10, <1>11 DEF SoundArrays
<1>14. mid.nGroup \in Nat /\ M \in Nat /\ T <= M
  <2>1. mid.nGroup \in Nat
    BY <1>8 DEF SoundArrays
  <2>2. M \in Nat
    BY <1>8, <2>1 DEF SoundArrays
  <2>3. mid.offset[nGroup] = T /\ nGroup \in 0..mid.nGroup /\ mid.nGroup \in 0..mid.nGroup
    BY <1>3, <1>9, <2>1 DEF T
  <2>4. nGroup < mid.nGroup => mid.offset[nGroup] < M
    BY <1>8, <2>3 DEF SoundArrays
  <2>5. nGroup = mid.nGroup \/ nGroup < mid.nGroup
    BY <1>3, <1>9, <2>1
  <2> QED
    BY <1>3, <2>1, <2>2, <2>3, <2>4, <2>5
<1> HIDE DEF M, E
<1>15. /\ nGroup <= nGroup'
       /\ \A g \in 0..nGroup : offset'[g] = offset[g]
       /\ \A p \in 0..T - 1 : origin'[p] = origin[p]
       /\ \A p \in 0..E - 1 : \/ origin'[p] \in left \cup right
                              \/ \E q \in 0..T - 1 : origin'[p] = origin[q]
  <2>1. \A g \in 0..nGroup : g \in 0..mid.nGroup
    BY <1>3, <1>9, <1>14
  <2>2. \A p \in 0..T - 1 : p \in 0..M - 1
    BY <1>3, <1>14
  <2>3. nGroup <= nGroup'
    BY <1>3, <1>9, <1>12, <1>13, <1>14
  <2> QED
    BY <1>9, <1>12, <2>1, <2>2, <2>3
<1>16. Total' = E /\ \A g \in 0..nGroup' : Top(g)' = offset'[g]
    BY <1>2 DEF Total, Top, E
<1>17. /\ member \in [Slots -> Seq(Places)] /\ broken \subseteq Slots
       /\ used \in [Things -> -2..NParticle] /\ noAdd \in Seq(Slots) /\ nParticle \in 0..NParticle
    BY DEF ArrayInv, ArrayType
<1>18. \A y : Members(y)' = Members(y) /\ Held(y)' = Held(y)
    BY <1>2 DEF Members, Held
<1>19. \A g : PutIn(g)' = PutIn(g)
    BY <1>2, <1>18 DEF PutIn
<1>20. ArrayType'
  <2>1. origin' \in Cells /\ nGroup' \in 0..NParticle /\ broken' \subseteq Slots
    BY <1>1, <1>3, <1>13, <1>17 DEF Whole
  <2> QED
    BY <1>2, <1>13, <1>17, <2>1 DEF ArrayType
<1>21. MembersApart' /\ NoAddOK'
    BY <1>2, <1>18 DEF ArrayInv, MembersApart, NoAddOK
<1>22. UsedOK'
  <2>1. \A y \in Things : used[y] < nGroup'
    <3> SUFFICES ASSUME NEW y \in Things PROVE used[y] < nGroup'
      OBVIOUS
    <3>1. used[y] \in Int /\ used[y] < nGroup
      BY <1>3, <1>17 DEF ArrayInv, UsedOK
    <3> QED
      BY <1>3, <1>13, <1>15, <3>1
  <2>2. /\ \A y \in broken' : used[y] = -2
        /\ \A y \in Slots : \A p \in Members(y) : used[p] = -2
    BY <1>1 DEF ArrayInv, UsedOK
  <2> QED
    BY <1>2, <1>18, <2>1, <2>2 DEF UsedOK
<1>23. TopsOK'
  <2>1. Top(0)' = 0
    BY <1>13, <1>16
  <2>2. /\ \A g \in 0..nGroup' : Top(g)' \in Nat /\ g <= Top(g)'
        /\ \A g, h \in 0..nGroup' : g < h => Top(g)' < Top(h)'
        /\ Total' <= NParticle
    BY <1>13, <1>16
  <2>3. arrayPc' # "checkNewGroup"
    BY <1>2
  <2> QED
    BY <2>1, <2>2, <2>3 DEF TopsOK
<1>24. FillOK'
  <2>1. /\ \A p \in 0..Total' - 1 : origin'[p] \in Places
        /\ \A p, q \in 0..Total' - 1 : origin'[p] = origin'[q] => p = q
    BY <1>13, <1>16 DEF Whole
  <2>2. ASSUME NEW g \in 0..nGroup' - 1, PutIn(g)' # {} PROVE Filled(g)' = PutIn(g)'
    <3>1. PICK y \in Things : used[y] = g
      BY <1>19, <2>2 DEF PutIn
    <3>2. g \in 0..nGroup - 1 /\ g \in 0..nGroup /\ g + 1 \in 0..nGroup
      <4>1. g < nGroup
        BY <3>1 DEF ArrayInv, UsedOK
      <4> QED
        BY <1>3, <4>1
    <3>3. g \in 0..nGroup' /\ g + 1 \in 0..nGroup'
      BY <1>3, <1>13, <1>15, <3>2
    <3>4. Top(g)' = Top(g) /\ Top(g + 1)' = Top(g + 1)
      BY <1>3, <1>15, <1>16, <3>2, <3>3
    <3>5. \A p \in Top(g)..Top(g + 1) - 1 : origin'[p] = origin[p]
      <4>1. Top(g) \in Nat /\ Top(g + 1) \in Nat /\ Top(g + 1) <= T
        BY <1>3, <3>2, TopProps
      <4>2. \A p \in Top(g)..Top(g + 1) - 1 : p \in 0..T - 1
        BY <1>3, <4>1
      <4> QED
        BY <1>15, <4>2
    <3>6. Filled(g)' = Filled(g)
      BY <3>4, <3>5 DEF Filled
    <3>7. Filled(g) = PutIn(g)
      BY <1>19, <2>2, <3>2 DEF ArrayInv, FillOK
    <3> QED
      BY <1>19, <3>6, <3>7
  <2>3. ASSUME NEW y \in broken', NEW p \in 0..Total' - 1 PROVE origin'[p] \notin Members(y)'
    <3>1. y \in broken /\ y # x /\ y \in Slots
      BY <1>1, <1>17
    <3>2. Members(x) \cap Members(y) = {}
      BY <1>5, <3>1 DEF ArrayInv, MembersApart
    <3>3. p \in 0..E - 1
      BY <1>16
    <3> QED
      BY <1>1, <1>6, <1>15, <1>18, <3>1, <3>2, <3>3
  <2> QED
    BY <2>1, <2>2, <2>3 DEF FillOK
<1> QED
    BY <1>20, <1>21, <1>22, <1>23, <1>24 DEF ArrayInv

LEMMA ArrayInit ==
    ASSUME Array!Init
    PROVE  ArrayInv
<1>1. PICK g \in [Slots -> SUBSET Places] :
          /\ \A x \in Slots : Cardinality(g[x]) > 1
          /\ \A x, y \in Slots : x < y => \A p \in g[x], q \in g[y] : p < q
          /\ member = [x \in Slots |-> SetToSeq(g[x])]
    BY SameArray DEF Array!Init
<1>2. /\ arrayPc = "checkNewGroup" /\ broken \subseteq Slots
      /\ origin = [p \in Places |-> -1]
      /\ offset = [k \in 0..NParticle |-> IF k = 0 THEN 0 ELSE -1]
      /\ nParticle = 0 /\ nGroup = 0 /\ noAdd = << >>
      /\ used = [x \in Things |-> IF x \in broken \cup UNION {ToSet(member[y]) : y \in Slots}
                                  THEN -2 ELSE -1]
  <2>1. UNION {Array!ToSet(member[y]) : y \in Slots} = UNION {ToSet(member[y]) : y \in Slots}
    BY SameArray
  <2> QED
    BY <2>1, SameArray DEF Array!Init, Things
<1>3. NParticle \in Nat /\ NGroup \in Nat
    BY ArrayAssumption
<1>4. ASSUME NEW x \in Slots
      PROVE  /\ member[x] \in Seq(Places) /\ IsInjective(member[x]) /\ Len(member[x]) > 1
             /\ ToSet(member[x]) = g[x] /\ Members(x) = g[x]
  <2>1. g[x] \subseteq Places
    BY <1>1
  <2>2. IsFiniteSet(g[x])
    <3>1. 0 \in Int /\ NParticle - 1 \in Int
      BY <1>3
    <3>2. IsFiniteSet(Places)
      BY <3>1, FS_Interval DEF Places
    <3> QED
      BY <2>1, <3>2, FS_Subset
  <2>3. /\ SetToSeq(g[x]) \in Seq(g[x]) /\ IsInjective(SetToSeq(g[x]))
        /\ ToSet(SetToSeq(g[x])) = g[x] /\ Len(SetToSeq(g[x])) = Cardinality(g[x])
    BY <2>2, SequenceOf
  <2>4. member[x] = SetToSeq(g[x])
    BY <1>1
  <2>5. member[x] \in Seq(Places) /\ IsInjective(member[x]) /\ ToSet(member[x]) = g[x]
    BY <2>1, <2>3, <2>4
  <2>6. Len(member[x]) > 1
    BY <1>1, <2>3, <2>4
  <2>7. Members(x) = ToSet(member[x])
    BY <2>5 DEF Members, ToSet
  <2> QED
    BY <2>5, <2>6, <2>7
<1>5. \A x \in Things : /\ used[x] = -1 \/ used[x] = -2
                        /\ x \in broken => used[x] = -2
                        /\ \A y \in Slots : x \in g[y] => used[x] = -2
    BY <1>2, <1>4
<1>6. ArrayType
  <2>1. member \in [Slots -> Seq(Places)]
    BY <1>1, <1>4
  <2>2. noAdd \in Seq(Slots) /\ origin \in Cells
    BY <1>2 DEF Cells
  <2>3. offset \in [0..NParticle -> Nat \cup {-1}] /\ nParticle \in 0..NParticle /\ nGroup \in 0..NParticle
    BY <1>2, <1>3
  <2>4. used \in [Things -> -2..NParticle]
    <3>1. -1 \in -2..NParticle /\ -2 \in -2..NParticle
      BY <1>3
    <3>2. used = [x \in Things |-> used[x]]
      BY <1>2
    <3>3. \A x \in Things : used[x] \in -2..NParticle
      BY <1>5, <3>1
    <3> QED
      BY <3>2, <3>3
  <2> QED
    BY <1>2, <2>1, <2>2, <2>3, <2>4 DEF ArrayType
<1>7. MembersApart
  <2>1. ASSUME NEW x \in Slots, NEW y \in Slots, x < y PROVE Members(x) \cap Members(y) = {}
    <3> SUFFICES ASSUME NEW p \in Members(x), p \in Members(y) PROVE FALSE
      OBVIOUS
    <3>1. p < p /\ p \in Places
      BY <1>1, <1>4, <2>1
    <3> QED
      BY <1>3, <3>1 DEF Places
  <2>2. \A x, y \in Slots : x # y => x < y \/ y < x
    BY <1>3 DEF Slots
  <2>3. \A x, y \in Slots : x # y => Members(x) \cap Members(y) = {}
    BY <2>1, <2>2
  <2> QED
    BY <1>4, <2>3 DEF MembersApart
<1>8. UsedOK
  <2>1. \A x \in Things : used[x] < nGroup
    BY <1>2, <1>5
  <2>2. \A x \in broken : used[x] = -2
    BY <1>2, <1>5 DEF Things
  <2>3. \A x \in Slots : \A p \in Members(x) : used[p] = -2
    <3>1. \A x \in Slots : \A p \in Members(x) : p \in Things /\ p \in g[x]
      BY <1>1, <1>4 DEF Things
    <3> QED
      BY <1>5, <3>1
  <2> QED
    BY <2>1, <2>2, <2>3 DEF UsedOK
<1>9. Total = 0 /\ \A k \in 0..0 : k = 0 /\ Top(k) = 0
    BY <1>2 DEF Total, Top
<1>10. TopsOK
    BY <1>2, <1>3, <1>9 DEF TopsOK
<1>11. FillOK
  <2>1. \A p \in 0..Total - 1 : FALSE
    BY <1>9
  <2>2. \A k \in 0..nGroup - 1 : FALSE
    BY <1>2
  <2> QED
    BY <2>1, <2>2 DEF FillOK
<1>12. NoAddOK
  <2>1. IsInjective(<< >>)
    BY DEF IsInjective
  <2>2. ToSet(<< >>) = {}
    BY DEF ToSet
  <2>3. \A x \in Slots : ~(used[x] >= 0)
    BY <1>5 DEF Things
  <2> QED
    BY <1>2, <2>1, <2>2, <2>3 DEF NoAddOK
<1> QED
    BY <1>6, <1>7, <1>8, <1>10, <1>11, <1>12 DEF ArrayInv

LEMMA ArrayUnchanged ==
    ASSUME ArrayInv, UNCHANGED array
    PROVE  ArrayInv'
<1>1. UNCHANGED <<arrayPc, member, broken, origin, offset, nParticle, nGroup, used, noAdd>>
    BY DEF array
<1>2. Total' = Total
    BY <1>1 DEF Total
<1>3. \A g : Top(g)' = Top(g)
    BY <1>1, <1>2 DEF Top
<1>4. \A x : Members(x)' = Members(x) /\ Held(x)' = Held(x)
    BY <1>1 DEF Members, Held
<1>5. \A g : PutIn(g)' = PutIn(g)
    BY <1>1, <1>4 DEF PutIn
<1>6. \A g : Filled(g)' = Filled(g)
    BY <1>1, <1>3 DEF Filled
<1>7. ArrayType'
    BY <1>1 DEF ArrayInv, ArrayType
<1>8. MembersApart' /\ UsedOK' /\ NoAddOK'
    BY <1>1, <1>4 DEF ArrayInv, MembersApart, UsedOK, NoAddOK
<1>9. TopsOK'
    BY <1>1, <1>2, <1>3 DEF ArrayInv, TopsOK
<1>10. FillOK'
    BY <1>1, <1>2, <1>4, <1>5, <1>6 DEF ArrayInv, FillOK
<1> QED
    BY <1>7, <1>8, <1>9, <1>10 DEF ArrayInv

LEMMA ArrayStep ==
    ASSUME ArrayInv, Array!Next
    PROVE  ArrayInv'
<1>1. CASE Array!Return
  <2>1. UNCHANGED array
    BY <1>1 DEF Array!Return, Array!vars, Array!arrays, array
  <2> QED
    BY <2>1, ArrayUnchanged
<1> QED
    BY <1>1, CheckNewGroupStep, CloseStep, BranchesStep DEF Array!Next

\* What the invariant says in the words of NewGroupArray.
LEMMA Segments ==
    ASSUME ArrayInv, NEW g \in 0..nGroup - 1
    PROVE  /\ Array!End(g) = Top(g + 1) /\ Array!End(g) <= NParticle
           /\ Array!ToSet(Array!Segment(g)) = Filled(g)
           /\ Array!IsInjective(Array!Segment(g))
           /\ Array!Joined(g) = PutIn(g)
<1> DEFINE s == Array!Segment(g)
           h == Top(g)
           e == Top(g + 1)
<1>1. /\ nGroup \in Nat /\ NParticle \in Nat /\ Total \in Nat /\ Total <= NParticle
      /\ h \in Nat /\ e \in Nat /\ h < e /\ e <= Total
  <2>1. nGroup \in Nat
    BY TopProps
  <2>2. g \in 0..nGroup /\ g + 1 \in 0..nGroup
    BY <2>1
  <2> QED
    BY <2>2, TopProps
<1>2. offset[g] = h
    BY <1>1 DEF Top
<1>3. Array!End(g) = e
  <2>1. g = nGroup - 1 <=> g + 1 = nGroup
    BY <1>1
  <2>2. CASE g + 1 = nGroup
    BY <2>1, <2>2 DEF Array!End, Top, Total
  <2>3. CASE g + 1 # nGroup
    BY <2>1, <2>3 DEF Array!End, Top
  <2> QED
    BY <2>2, <2>3
<1>4. s = [p \in 1..(e - h) |-> origin[h + p - 1]]
    BY <1>2, <1>3 DEF Array!Segment
<1> HIDE DEF s, h, e
<1>5. DOMAIN s = 1..e - h /\ \A p \in 1..e - h : s[p] = origin[h + p - 1] /\ h + p - 1 \in h..e - 1
    BY <1>1, <1>4
<1>6. \A q \in h..e - 1 : q - h + 1 \in 1..e - h /\ h + (q - h + 1) - 1 = q
    BY <1>1
<1>7. {s[p] : p \in DOMAIN s} = {origin[q] : q \in h..e - 1}
  <2>1. \A p \in DOMAIN s : \E q \in h..e - 1 : s[p] = origin[q]
    BY <1>5
  <2>2. \A q \in h..e - 1 : \E p \in DOMAIN s : s[p] = origin[q]
    BY <1>5, <1>6
  <2> QED
    BY <2>1, <2>2
<1>8. Array!ToSet(s) = Filled(g)
    BY <1>7 DEF Array!ToSet, Filled, h, e
<1>9. Array!IsInjective(s)
  <2>1. \A p, q \in 0..Total - 1 : origin[p] = origin[q] => p = q
    BY DEF ArrayInv, FillOK
  <2>2. \A p \in 1..e - h : h + p - 1 \in 0..Total - 1
    BY <1>1
  <2>3. \A p, q \in 1..e - h : s[p] = s[q] => h + p - 1 = h + q - 1
    BY <1>5, <2>1, <2>2
  <2>4. \A p, q \in 1..e - h : h + p - 1 = h + q - 1 => p = q
    BY <1>1
  <2> QED
    BY <1>5, <2>3, <2>4 DEF Array!IsInjective
<1>10. Array!Joined(g) = PutIn(g)
  <2>1. \A x \in Things : Array!ToSet(Array!Content(x)) = Held(x)
    BY SameArray, ContentProps
  <2>2. DOMAIN used = Things
    BY DEF ArrayInv, ArrayType
  <2> QED
    BY <2>1, <2>2 DEF Array!Joined, PutIn
<1> QED
    BY <1>1, <1>3, <1>8, <1>9, <1>10 DEF s, e

LEMMA ArrayHolds ==
    ASSUME ArrayInv
    PROVE  Array!SegmentsHold /\ Array!NoSharing /\ Array!JoinedOnce
<1>1. /\ nGroup \in Nat /\ NParticle \in Nat /\ Total \in Nat /\ Total <= NParticle
      /\ \A g \in 0..nGroup : Top(g) \in Nat /\ Top(g) <= Total
      /\ \A g, h \in 0..nGroup : g < h => Top(g) < Top(h)
    BY TopProps
<1>2. Array!SegmentsHold
  <2> SUFFICES ASSUME NEW g \in 0..nGroup - 1, Array!Joined(g) # {}
               PROVE  Array!ToSet(Array!Segment(g)) = Array!Joined(g) /\ Array!IsInjective(Array!Segment(g))
    BY DEF Array!SegmentsHold
  <2>1. /\ Array!ToSet(Array!Segment(g)) = Filled(g) /\ Array!IsInjective(Array!Segment(g))
        /\ Array!Joined(g) = PutIn(g)
    BY Segments
  <2>2. Filled(g) = PutIn(g)
    BY <2>1 DEF ArrayInv, FillOK
  <2> QED
    BY <2>1, <2>2
<1>3. Array!NoSharing
  <2>1. nParticle <= NParticle
    BY <1>1 DEF ArrayInv, ArrayType
  <2>2. \A g \in 0..nGroup - 1 : \A p \in Top(g)..Top(g + 1) - 1 : p \in 0..Total - 1
    <3> SUFFICES ASSUME NEW g \in 0..nGroup - 1
                 PROVE  \A p \in Top(g)..Top(g + 1) - 1 : p \in 0..Total - 1
      OBVIOUS
    <3>1. g \in 0..nGroup /\ g + 1 \in 0..nGroup
      BY <1>1
    <3>2. Top(g) \in Nat /\ Top(g + 1) \in Nat /\ Top(g + 1) <= Total
      BY <1>1, <3>1
    <3> QED
      BY <1>1, <3>2
  <2>3. \A g \in 0..nGroup - 1 : Array!End(g) <= NParticle /\ Array!ToSet(Array!Segment(g)) \subseteq Places
    <3> SUFFICES ASSUME NEW g \in 0..nGroup - 1
                 PROVE  Array!End(g) <= NParticle /\ Array!ToSet(Array!Segment(g)) \subseteq Places
      OBVIOUS
    <3>1. Array!End(g) <= NParticle /\ Array!ToSet(Array!Segment(g)) = Filled(g)
      BY Segments
    <3>2. Filled(g) \subseteq Places
      BY <2>2 DEF Filled, ArrayInv, FillOK
    <3> QED
      BY <3>1, <3>2
  <2>4. ASSUME NEW g \in 0..nGroup - 1, NEW h \in 0..nGroup - 1, g < h
        PROVE  Filled(g) \cap Filled(h) = {}
    <3>1. g + 1 \in 0..nGroup /\ h \in 0..nGroup /\ (g + 1 = h \/ g + 1 < h)
      BY <1>1, <2>4
    <3>2. Top(g + 1) <= Top(h) /\ Top(g + 1) \in Nat /\ Top(h) \in Nat
      BY <1>1, <3>1
    <3>3. ASSUME NEW p \in Top(g)..Top(g + 1) - 1, NEW q \in Top(h)..Top(h + 1) - 1
          PROVE  origin[p] # origin[q]
      <4>1. p # q
        BY <3>2
      <4>2. p \in 0..Total - 1 /\ q \in 0..Total - 1
        BY <2>2
      <4> QED
        BY <4>1, <4>2 DEF ArrayInv, FillOK
    <3> QED
      BY <3>3 DEF Filled
  <2>5. \A g, h \in 0..nGroup - 1 : g # h =>
           Array!ToSet(Array!Segment(g)) \cap Array!ToSet(Array!Segment(h)) = {}
    <3> SUFFICES ASSUME NEW g \in 0..nGroup - 1, NEW h \in 0..nGroup - 1, g # h
                 PROVE  Array!ToSet(Array!Segment(g)) \cap Array!ToSet(Array!Segment(h)) = {}
      OBVIOUS
    <3>1. Array!ToSet(Array!Segment(g)) = Filled(g) /\ Array!ToSet(Array!Segment(h)) = Filled(h)
      BY Segments
    <3>2. g < h \/ h < g
      BY <1>1
    <3> QED
      BY <2>4, <3>1, <3>2
  <2> QED
    BY <2>1, <2>3, <2>5, SameArray DEF Array!NoSharing
<1>4. Array!JoinedOnce
  <2>1. /\ IsInjective(noAdd) /\ ToSet(noAdd) = {x \in Slots : used[x] >= 0}
        /\ noAdd \in Seq(Slots) /\ broken \subseteq Slots
        /\ \A x \in broken : used[x] = -2
    BY DEF ArrayInv, NoAddOK, ArrayType, UsedOK
  <2>2. IsFiniteSet(Slots) /\ Cardinality(Slots) = NGroup
    <3>1. NParticle \in Int /\ NParticle + NGroup - 1 \in Int /\ NGroup \in Nat
      BY ArrayAssumption
    <3>2. /\ IsFiniteSet(NParticle..NParticle + NGroup - 1)
          /\ Cardinality(NParticle..NParticle + NGroup - 1) =
               IF NParticle > NParticle + NGroup - 1 THEN 0 ELSE NParticle + NGroup - 1 - NParticle + 1
      BY <3>1, FS_Interval
    <3> QED
      BY <3>1, <3>2 DEF Slots
  <2>3. Cardinality(ToSet(noAdd)) = Len(noAdd) /\ ToSet(noAdd) \subseteq Slots
    BY <2>1, <2>2, SeqLen
  <2>4. ToSet(noAdd) \cap broken = {}
    BY <2>1
  <2>5. IsFiniteSet(ToSet(noAdd)) /\ IsFiniteSet(broken) /\ IsFiniteSet(ToSet(noAdd) \cup broken)
    BY <2>1, <2>2, <2>3, FS_Subset
  <2>6. Cardinality(ToSet(noAdd) \cup broken) <= NGroup
    <3>1. ToSet(noAdd) \cup broken \subseteq Slots
      BY <2>1, <2>3
    <3> QED
      BY <2>2, <3>1, FS_Subset
  <2>7. Cardinality(ToSet(noAdd) \cup broken) = Cardinality(ToSet(noAdd)) + Cardinality(broken)
    <3>1. Cardinality(ToSet(noAdd) \cup broken) =
            Cardinality(ToSet(noAdd)) + Cardinality(broken) - Cardinality(ToSet(noAdd) \cap broken)
      BY <2>5, FS_Union
    <3>2. Cardinality(ToSet(noAdd) \cap broken) = 0
      BY <2>4, FS_EmptySet
    <3>3. Cardinality(ToSet(noAdd)) \in Nat /\ Cardinality(broken) \in Nat
      BY <2>5, FS_CardinalityType
    <3> QED
      BY <3>1, <3>2, <3>3
  <2>8. Len(noAdd) + Cardinality(broken) <= NGroup
    BY <2>3, <2>6, <2>7
  <2>9. \A x : x \in Slots /\ used[x] >= 0 <=> x \in ToSet(noAdd)
    BY <2>1
  <2> QED
    BY <2>1, <2>8, SameArray DEF Array!JoinedOnce
<1> QED
    BY <1>2, <1>3, <1>4

\* However the insertions of checkNewGroup interleave and whatever branches breakGroups
\* appends, for every number of particles and groups: a segment holds what was put into its
\* group, no particle is in two new groups, nothing is written behind the NParticle entries
\* of the array, and a joined group is entered in the break list once.
THEOREM NewGroupsAreWhole == PartsSpec => []NewGroupsHold
<1> DEFINE Inv == part = "array" => ArrayInv
<1>1. PartsInit => Inv
  <2> SUFFICES ASSUME PartsInit, part = "array" PROVE ArrayInv
    OBVIOUS
  <2> QED
    BY ArrayInit DEF PartsInit
<1>2. Inv /\ [PartsNext]_parts => Inv'
  <2> SUFFICES ASSUME Inv, [PartsNext]_parts, part' = "array" PROVE ArrayInv'
    OBVIOUS
  <2>1. part = "array" /\ (UNCHANGED array \/ Array!Next)
    BY DEF PartsNext, parts, ScheduleTurn, BlockTurn, ListsTurn, ArrayTurn
  <2> QED
    BY <2>1, ArrayUnchanged, ArrayStep
<1>3. Inv => NewGroupsHold
  <2> SUFFICES ASSUME ArrayInv PROVE Array!SegmentsHold /\ Array!NoSharing /\ Array!JoinedOnce
    BY DEF NewGroupsHold
  <2> QED
    BY ArrayHolds
<1> HIDE DEF Inv
<1> QED
    BY <1>1, <1>2, <1>3, PTL DEF PartsSpec
=============================================================================
