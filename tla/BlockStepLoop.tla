--------------------------- MODULE BlockStepLoop ----------------------------
(***************************************************************************)
(* How block_time_step.h computes the next step of a particle: the bit     *)
(* loop of calcNextDtLimit on time / dt_min_, then the halving loop of     *)
(* calcBlockDt2nd and calcBlockDt4th down to the step dt_ref that the      *)
(* accelerations ask for.  The unit is dt_min_, a dt below it is 0.        *)
(***************************************************************************)
EXTENDS BlockStep

CONSTANTS TimeMax,   \* the latest time tried
          Word       \* 2^64 of unsigned long long int, shortened

VARIABLES pc, time, bitmap, c, limit, dtRef, dt

vars == <<pc, time, bitmap, c, limit, dtRef, dt>>

\* if (_time == 0.0) return dt_max_; the wrong form starts the loop at time 0.
AlwaysBits(t) == "bits"
FirstCall(t) == IF t = 0 THEN "limit" ELSE "bits"

\* std::min(c*dt_min_, dt_max_)
Capped(t, k) == IF t = 0 \/ k > DtMax THEN DtMax ELSE k

\* dt > dt_ref, and with dt_ref itself refused
NotShorter(d, ref) == d >= ref
Longer(d, ref) == d > ref

Init == /\ time \in 0..TimeMax
        /\ pc = FirstCall(time)
        /\ bitmap = time /\ c = 1
        /\ dtRef \in 0..2 * DtMax
        /\ limit = 0 /\ dt = 0

\* while ((bitmap & 1) == 0) { bitmap >>= 1; c <<= 1; }
ShiftBit ==
    /\ pc = "bits"
    /\ IF bitmap % 2 = 0
       THEN bitmap' = bitmap \div 2 /\ c' = (c * 2) % Word /\ pc' = pc
       ELSE pc' = "limit" /\ UNCHANGED <<bitmap, c>>
    /\ UNCHANGED <<time, limit, dtRef, dt>>

ReturnLimit ==
    /\ pc = "limit"
    /\ limit' = Capped(time, c)
    /\ dt' = limit'
    /\ pc' = "halve"
    /\ UNCHANGED <<time, bitmap, c, dtRef>>

\* while (dt > dt_ref) dt *= 0.5;
Halve ==
    /\ pc = "halve"
    /\ IF Longer(dt, dtRef) THEN dt' = dt \div 2 /\ pc' = pc
       ELSE dt' = dt /\ pc' = IF dt < 1 THEN "abort" ELSE "return"
    /\ UNCHANGED <<time, bitmap, c, limit, dtRef>>

Return == pc \in {"return", "abort"} /\ UNCHANGED vars

Next == ShiftBit \/ ReturnLimit \/ Halve \/ Return

-----------------------------------------------------------------------------
\* The lowest set bit, capped, is the largest step whose grid holds the time.
LimitIsLargest == pc = "halve" => limit = CalcNextDtLimit(time)

\* The step is the largest of the block's steps that dt_ref allows; the
\* program aborts exactly if there is none.
LargestAllowed ==
    LET allowed == {d \in StepsAt(time) : d <= dtRef}
    IN  /\ pc = "return" => dt \in allowed /\ \A d \in allowed : d <= dt
        /\ pc = "abort" => allowed = {}
=============================================================================
