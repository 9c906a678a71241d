----------------------------- MODULE BlockStep -----------------------------
(***************************************************************************)
(* The block time steps of the Hermite integrator (class BlockTimeStep4th, *)
(* SDAR/src/Hermite/block_time_step.h).  Times and steps are integers in   *)
(* units of dt_min_.  A step is dt_max_ halved some number of times, so of *)
(* any two steps the smaller divides the larger; nothing else about the    *)
(* powers of two is used.                                                  *)
(***************************************************************************)
EXTENDS Integers

CONSTANT Steps      \* the admissible steps, dt_min_ .. dt_max_

ASSUME StepsAssumption ==
    /\ Steps \subseteq Nat \ {0}
    /\ Steps # {}
    /\ \A d, e \in Steps : d <= e => \E q \in 1..e : e = q * d

\* getDtMax
DtMax == CHOOSE d \in Steps : \A e \in Steps : e <= d

\* The time t lies on the grid of the step d.
Divides(d, t) == \E q \in 0..t : t = q * d

\* A wrong choice: any step, whatever the time.
AnyStep(t) == Steps

\* The steps a particle may start with at time t without leaving the grid.
StepsAt(t) == {d \in Steps : Divides(d, t)}

\* calcNextDtLimit: dt_max_ at time 0, else the lowest set bit of
\* t / dt_min_, at most dt_max_: the largest step on whose grid t lies.
CalcNextDtLimit(t) == CHOOSE d \in StepsAt(t) : \A e \in StepsAt(t) : e <= d

\* Halving once more than dt_ref asks for, down to nothing.
HalvedAgain(limit) == {d \div 2 : d \in {e \in Steps : e <= limit}}

\* calcBlockDt2nd, calcBlockDt4th: halve the limit until the step is at most
\* the acceleration's dt_ref (any value here).  The abort below dt_min_ ends
\* the program and is left out.
CalcBlockDt(limit) == {d \in Steps : d <= limit}
=============================================================================
