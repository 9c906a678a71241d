------------------------ MODULE BlockScheduleProofs ------------------------
(***************************************************************************)
(* Proofs for BlockSchedule: types, the grid, and what follows from it.    *)
(* The inductive invariant is Inv: every item lies on the grid of its own  *)
(* step with the clock inside that step, and the clock has not passed      *)
(* TimeEnd.                                                                *)
(***************************************************************************)
EXTENDS BlockSchedule, TLAPS

Inv == TypeOK /\ OnGrid /\ now <= TimeEnd

-----------------------------------------------------------------------------
(* Arithmetic of the grids.                                                *)

\* Steps are positive, hence comparable, numbers.
LEMMA StepsArePositive == \A d \in Steps : d \in Nat \ {0}
BY StepsAssumption

\* Multiples of d are at least d apart.
LEMMA MultiplesApart ==
    ASSUME NEW p \in Nat, NEW q \in Nat, NEW d \in Nat, p * d < q * d
    PROVE  p * d + d <= q * d
<1>1. p < q
  <2>1. SUFFICES ASSUME q <= p PROVE FALSE
    BY <2>1
  <2>2. PICK c \in Nat : p = q + c
    <3>1. p - q \in Nat /\ p = q + (p - q)
      BY <2>1
    <3> QED BY <3>1
  <2>3. p * d = q * d + c * d
    BY <2>2
  <2>4. c * d \in Nat
    OBVIOUS
  <2> QED BY <2>3, <2>4
<1>2. PICK c \in Nat : q = p + 1 + c
  <2>1. q - (p + 1) \in Nat /\ q = p + 1 + (q - (p + 1))
    BY <1>1
  <2> QED BY <2>1
<1>3. q * d = p * d + d + c * d
  BY <1>2
<1>4. c * d \in Nat
  OBVIOUS
<1> QED BY <1>3, <1>4

\* Two times on the grid of d, the first earlier, are at least d apart.
LEMMA GridApart ==
    ASSUME NEW d \in Steps, NEW s \in Nat, NEW t \in Nat,
           Divides(d, s), Divides(d, t), s < t
    PROVE  s + d <= t
<1>1. PICK p \in 0..s : s = p * d
  BY DEF Divides
<1>2. PICK q \in 0..t : t = q * d
  BY DEF Divides
<1>3. d \in Nat
  BY StepsArePositive
<1> QED BY <1>1, <1>2, <1>3, MultiplesApart

\* A product of naturals bounds its factor if the other one is positive.
LEMMA FactorBound ==
    ASSUME NEW q \in Nat, NEW d \in Nat \ {0}
    PROVE  q * d \in Nat /\ q <= q * d
<1>1. PICK c \in Nat : d = c + 1
  <2>1. d - 1 \in Nat /\ d = (d - 1) + 1
    OBVIOUS
  <2> QED BY <2>1
<1>2. q * d = q * c + q
  BY <1>1
<1>3. q * c \in Nat
  OBVIOUS
<1> QED BY <1>2, <1>3

\* The end of a step lies on the grid the step starts on.
LEMMA NextOnGrid ==
    ASSUME NEW d \in Steps, NEW t \in Nat, Divides(d, t)
    PROVE  t + d \in Nat /\ Divides(d, t + d)
<1>1. d \in Nat \ {0}
  BY StepsAssumption
<1>2. PICK q \in 0..t : t = q * d
  BY DEF Divides
<1>3. t + d = (q + 1) * d
  BY <1>1, <1>2
<1>4. q + 1 \in 0..(t + d)
  BY <1>1, <1>3, FactorBound
<1> QED BY <1>1, <1>3, <1>4 DEF Divides

\* A smaller step has a finer grid.
LEMMA FinerGrid ==
    ASSUME NEW d \in Steps, NEW e \in Steps, d <= e, NEW t \in Nat, Divides(e, t)
    PROVE  Divides(d, t)
<1>1. d \in Nat \ {0} /\ e \in Nat
  BY StepsAssumption
<1>2. PICK p \in 1..e : e = p * d
  BY StepsAssumption
<1>3. PICK q \in 0..t : t = q * e
  BY DEF Divides
<1>4. t = (q * p) * d
  BY <1>1, <1>2, <1>3
<1>5. q * p \in Nat
  OBVIOUS
<1>6. q * p \in 0..t
  BY <1>1, <1>4, <1>5, FactorBound
<1> QED BY <1>4, <1>6 DEF Divides

\* A grid time strictly inside a step belongs to a smaller step.
LEMMA InsideIsFiner ==
    ASSUME NEW e \in Steps, NEW s \in Nat, Divides(e, s),
           NEW d \in Steps, NEW t \in Nat, Divides(d, t),
           s < t, t < s + e
    PROVE  d < e
<1>1. d \in Nat /\ e \in Nat
  BY StepsAssumption
<1>2. SUFFICES ASSUME e <= d PROVE FALSE
  BY <1>1
<1>3. Divides(e, t)
  BY <1>2, FinerGrid
<1> QED BY <1>1, <1>3, GridApart

-----------------------------------------------------------------------------
(* The invariant.                                                          *)

\* Init establishes the invariant: nothing is scheduled.
LEMMA InitInv == Init => Inv
BY TimeEndAssumption DEF Init, Inv, TypeOK, OnGrid, Due

\* A reschedule at a time that no kept item has passed keeps items on their
\* grids, with that time inside their steps.
LEMMA RescheduleKeeps ==
    ASSUME TypeOK, OnGrid, NEW t \in Nat, now <= t,
           NEW keep \in SUBSET DOMAIN sched, \A i \in keep : t < Due(i),
           NEW fresh \in SUBSET Item, Reschedule(keep, fresh, t), now' = t
    PROVE  TypeOK' /\ OnGrid'
<1>1. PICK dt \in [fresh -> StepsAt(t)] :
         sched' = [i \in keep \cup fresh |->
                     IF i \in fresh THEN [time |-> t, dt |-> dt[i]] ELSE sched[i]]
  BY DEF Reschedule
<1>2. DOMAIN sched' = keep \cup fresh
  BY <1>1
<1>3. ASSUME NEW i \in fresh
      PROVE  /\ sched'[i] = [time |-> t, dt |-> dt[i]]
             /\ dt[i] \in Steps
             /\ Divides(dt[i], t)
  BY <1>1 DEF StepsAt
<1>4. ASSUME NEW i \in keep \ fresh
      PROVE  /\ sched'[i] = sched[i]
             /\ sched[i] \in [time : Nat, dt : Steps]
  BY <1>1 DEF TypeOK
<1>5. TypeOK'
  <2>1. DOMAIN sched' \subseteq Item
    BY <1>2 DEF TypeOK
  <2>2. \A i \in DOMAIN sched' : sched'[i] \in [time : Nat, dt : Steps]
    BY <1>2, <1>3, <1>4
  <2>3. sched' = [i \in DOMAIN sched' |-> sched'[i]]
    BY <1>1
  <2>4. sched' \in [DOMAIN sched' -> [time : Nat, dt : Steps]]
    BY <2>2, <2>3
  <2> QED BY <2>1, <2>4 DEF TypeOK
<1>6. OnGrid'
  <2>1. ASSUME NEW i \in fresh
        PROVE  /\ Divides(sched'[i].dt, sched'[i].time)
               /\ sched'[i].time <= now'
               /\ now' < sched'[i].time + sched'[i].dt
    <3>1. dt[i] \in Nat \ {0} /\ Divides(dt[i], t)
      BY <1>3, StepsArePositive
    <3>2. sched'[i].time = t /\ sched'[i].dt = dt[i]
      <4>1. sched'[i] = [time |-> t, dt |-> dt[i]]
        BY <1>3
      <4> QED BY <4>1
    <3>3. t <= now' /\ now' < t + dt[i]
      BY <3>1
    <3> QED BY <3>1, <3>2, <3>3
  <2>2. ASSUME NEW i \in keep \ fresh
        PROVE  /\ Divides(sched'[i].dt, sched'[i].time)
               /\ sched'[i].time <= now'
               /\ now' < sched'[i].time + sched'[i].dt
    <3>1. Divides(sched[i].dt, sched[i].time) /\ sched[i].time <= now
      BY DEF OnGrid
    <3>2. now \in Nat
      BY DEF TypeOK
    <3>3. t < sched[i].time + sched[i].dt
      BY DEF Due
    <3> QED BY <1>4, <3>1, <3>2, <3>3
  <2> QED BY <1>2, <2>1, <2>2 DEF OnGrid, Due
<1> QED BY <1>5, <1>6

\* The earliest due time is after the clock and does not pass TimeEnd.
LEMMA DueBounds ==
    ASSUME Inv, NEW i \in DOMAIN sched
    PROVE  /\ Due(i) \in Nat
           /\ now < Due(i)
           /\ now < TimeEnd => Due(i) <= TimeEnd
<1> DEFINE d == sched[i].dt
           s == sched[i].time
<1>1. d \in Steps /\ s \in Nat /\ now \in Nat
  BY DEF Inv, TypeOK
<1>2. Divides(d, s) /\ s <= now /\ now < s + d
  BY DEF Inv, OnGrid, Due
<1>3. s + d \in Nat
  BY <1>1, <1>2, NextOnGrid
<1>4. ASSUME now < TimeEnd PROVE s + d <= TimeEnd
  <2>1. TimeEnd \in Nat /\ Divides(d, TimeEnd)
    BY <1>1, TimeEndAssumption
  <2>2. s < TimeEnd
    BY <1>1, <1>2, <1>4, <2>1
  <2> QED BY <1>1, <1>2, <2>1, <2>2, GridApart
<1> QED BY <1>2, <1>3, <1>4 DEF Due

\* Every step keeps the invariant.
LEMMA NextInv == Inv /\ [Next]_vars => Inv'
<1> SUFFICES ASSUME Inv, [Next]_vars PROVE Inv'
  OBVIOUS
<1>1. CASE Begin
  <2>1. PICK fresh \in SUBSET Item : Reschedule({}, fresh, 0)
    BY <1>1 DEF Begin
  <2>2. now = 0 /\ now' = 0
    BY <1>1 DEF Begin
  <2>3. TypeOK' /\ OnGrid'
    BY <2>1, <2>2, RescheduleKeeps DEF Inv
  <2> QED BY <2>2, <2>3 DEF Inv
<1>2. CASE Advance
  <2>1. PICK first \in DOMAIN sched :
           /\ now' = Due(first)
           /\ \E keep \in SUBSET {i \in DOMAIN sched : Due(i) > Due(first)} :
              \E fresh \in SUBSET (Item \ keep) : Reschedule(keep, fresh, Due(first))
    BY <1>2 DEF Advance
  <2>2. /\ Due(first) \in Nat
        /\ now < Due(first)
        /\ Due(first) <= TimeEnd
    BY <1>2, DueBounds DEF Advance
  <2>3. PICK keep \in SUBSET {i \in DOMAIN sched : Due(i) > Due(first)},
             fresh \in SUBSET Item : Reschedule(keep, fresh, Due(first))
    BY <2>1
  <2>4. \A i \in keep : Due(first) < Due(i)
    BY <2>2, DueBounds
  <2>5. now <= Due(first) /\ keep \in SUBSET DOMAIN sched
    BY <2>2 DEF Inv, TypeOK
  <2>6. TypeOK' /\ OnGrid'
    BY <2>1, <2>2, <2>3, <2>4, <2>5, RescheduleKeeps DEF Inv
  <2> QED BY <2>1, <2>2, <2>6 DEF Inv
<1>3. CASE Stop \/ UNCHANGED vars
  BY <1>3 DEF Stop, vars, Inv, TypeOK, OnGrid, Due
<1> QED BY <1>1, <1>2, <1>3 DEF Next

\* The invariant holds in every reachable state.
LEMMA SpecInv == Spec => []Inv
<1>1. Init => Inv
  BY InitInv
<1>2. Inv /\ [Next]_vars => Inv'
  BY NextInv
<1> QED BY <1>1, <1>2, PTL DEF Spec

-----------------------------------------------------------------------------
(* The results.                                                            *)

\* The schedule is well typed, whatever the items, steps and TimeEnd.
THEOREM TypeCorrect == Spec => []TypeOK
<1>1. Inv => TypeOK
  BY DEF Inv
<1> QED BY <1>1, SpecInv, PTL

\* Items stay on the grid of their step with the clock inside it
\* (calcNextDtLimit and the choice of the next time fit together).
THEOREM StaysOnGrid == Spec => []OnGrid
<1>1. Inv => OnGrid
  BY DEF Inv
<1> QED BY <1>1, SpecInv, PTL

\* A step from the clock's block divides the distance to what is due.
LEMMA InvNeverOvertakes == Inv => NeverOvertakes
<1> SUFFICES ASSUME Inv, NEW i \in DOMAIN sched, sched[i].time < now,
                    NEW d \in StepsAt(now)
             PROVE  now + d <= Due(i)
  BY DEF NeverOvertakes
<1> DEFINE e == sched[i].dt
           s == sched[i].time
<1>1. e \in Steps /\ s \in Nat /\ now \in Nat
  BY DEF Inv, TypeOK
<1>2. Divides(e, s) /\ now < s + e
  BY DEF Inv, OnGrid, Due
<1>3. d \in Steps /\ Divides(d, now)
  BY DEF StepsAt
<1>4. d < e
  BY <1>1, <1>2, <1>3, InsideIsFiner
<1>5. s + e \in Nat /\ Divides(e, s + e)
  BY <1>1, <1>2, NextOnGrid
<1>6. Divides(d, s + e)
  <2>1. d <= e
    <3>1. d \in Nat /\ e \in Nat
      BY <1>1, <1>3, StepsArePositive
    <3> QED BY <1>4, <3>1
  <2> QED BY <1>1, <1>3, <1>5, <2>1, FinerGrid
<1>7. now + d <= s + e
  BY <1>1, <1>2, <1>3, <1>5, <1>6, GridApart
<1> QED BY <1>7 DEF Due

\* What is integrated now is due no later than anything still under way:
\* sorting the active prefix of the lists sorts the lists.
THEOREM ActiveGoFirst == Spec => []NeverOvertakes
BY InvNeverOvertakes, SpecInv, PTL

\* What is due earlier has the smaller step: steps nest like dyadic intervals.
THEOREM EarlierIsFiner == Spec => []StepsNest
<1>1. Inv => StepsNest
  <2> SUFFICES ASSUME Inv, NEW i \in DOMAIN sched, NEW j \in DOMAIN sched,
                      Due(i) < Due(j), ~ (sched[i].dt <= sched[j].dt)
               PROVE  FALSE
    BY DEF StepsNest
  <2> DEFINE d == sched[j].dt
             s == sched[j].time
             e == sched[i].dt
             t == sched[i].time
  <2>1. d \in Steps /\ e \in Steps /\ s \in Nat /\ t \in Nat /\ now \in Nat
    BY DEF Inv, TypeOK
  <2>2. d <= e
    <3>1. d \in Nat /\ e \in Nat
      BY <2>1, StepsArePositive
    <3> QED BY <3>1
  <2>3. Divides(d, s) /\ s <= now /\ Divides(e, t) /\ now < t + e
    BY DEF Inv, OnGrid, Due
  <2>4. t + e \in Nat /\ Divides(d, t + e)
    BY <2>1, <2>2, <2>3, NextOnGrid, FinerGrid
  <2>5. s < t + e
    BY <2>1, <2>3, <2>4
  <2>6. s + d <= t + e
    BY <2>1, <2>3, <2>4, <2>5, GridApart
  <2>7. s + d \in Nat
    BY <2>1, <2>3, NextOnGrid
  <2> QED BY <2>4, <2>6, <2>7 DEF Due
<1> QED BY <1>1, SpecInv, PTL

\* At TimeEnd no step that divides it can be under way.
LEMMA InvEndsTogether == Inv => EndsTogether
<1> SUFFICES ASSUME Inv, now = TimeEnd, NEW i \in DOMAIN sched
             PROVE  sched[i].time = TimeEnd
  BY DEF Inv, EndsTogether
<1> DEFINE d == sched[i].dt
           s == sched[i].time
<1>1. d \in Steps /\ s \in Nat /\ TimeEnd \in Nat /\ Divides(d, TimeEnd)
  BY TimeEndAssumption DEF Inv, TypeOK
<1>2. Divides(d, s) /\ s <= TimeEnd /\ TimeEnd < s + d
  BY DEF Inv, OnGrid, Due
<1>3. s + d \in Nat
  BY <1>1, <1>2, NextOnGrid
<1>4. ~ (s < TimeEnd)
  BY <1>1, <1>2, <1>3, GridApart
<1> QED BY <1>1, <1>2, <1>4

\* The clock never jumps over TimeEnd, and at TimeEnd nothing is left behind.
THEOREM ArriveTogether == Spec => []EndsTogether
BY InvEndsTogether, SpecInv, PTL
=============================================================================
