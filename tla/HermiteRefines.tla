--------------------------- MODULE HermiteRefines ---------------------------
(***************************************************************************)
(* Hermite implements BlockSchedule.  The abstract state is recorded in    *)
(* two history variables each time sortDtAndSelectActParticle has chosen   *)
(* what to integrate next: the clock, and time and step of everything in   *)
(* the two lists.  Between two sorts the abstract schedule stutters, so a  *)
(* whole turn (groups integrated and interrupted, active particles         *)
(* corrected, groups dissolved and formed, initialised) is one Advance.    *)
(***************************************************************************)
EXTENDS Hermite

VARIABLES now, sched

HInit == /\ Init
         /\ now = 0
         /\ sched = << >>

HNext == /\ Next
         /\ IF pc = "sort"
            THEN /\ now' = time
                 /\ sched' = [x \in Listed |-> [time |-> Entry(x).time, dt |-> Entry(x).dt]]
            ELSE UNCHANGED <<now, sched>>

HSpec == HInit /\ [][HNext]_<<vars, now, sched>>

\* Particles, and the group slots there can be.
Abstract == INSTANCE BlockSchedule
                WITH Item <- Particle \cup 1..(Cardinality(Particle) \div 2)

\* Every turn of the loop is a step of the block schedule: what is due is
\* integrated, the rest keeps its place, is dropped, or restarts at the clock
\* (sortDtAndSelectActParticle, integrateSingleOneStepAct, adjustGroups and
\* initialIntegration together).
RefinesSchedule == Abstract!Spec
=============================================================================
