--------------------------- MODULE BlockSchedule ---------------------------
(***************************************************************************)
(* What the Hermite integrator promises about time.  The system is a       *)
(* changing set of items (single particles and groups of particles); every *)
(* item has the time it was last integrated to and a step.  The clock      *)
(* always moves to the earliest time any item is due, every item due then  *)
(* is integrated, and whatever else happens there (groups dissolved or     *)
(* formed, an interrupted group restarted, particles lost) leaves an item  *)
(* untouched, removes it, or restarts it at the clock with a step of the   *)
(* clock's block.  Hermite implements this specification (HermiteRefines). *)
(***************************************************************************)
EXTENDS BlockStep

CONSTANTS Item,     \* everything that can be scheduled
          TimeEnd   \* _time_end of HardIntegrator::integrateToTime

ASSUME TimeEndAssumption ==
    /\ TimeEnd \in Nat
    /\ \A d \in Steps : Divides(d, TimeEnd)

VARIABLES now,      \* time_, when the active items have been selected
          sched     \* the scheduled items, each with its time and step

vars == <<now, sched>>

Due(i) == sched[i].time + sched[i].dt

\* Schedules that keep the items of `keep` as they are and (re)start those
\* of `fresh` at time t.
Reschedule(keep, fresh, t) ==
    \E dt \in [fresh -> StepsAt(t)] :
        sched' = [i \in keep \cup fresh |->
                    IF i \in fresh THEN [time |-> t, dt |-> dt[i]] ELSE sched[i]]

Init == /\ now = 0
        /\ sched = [i \in {} |-> [time |-> 0, dt |-> 0]]

\* HardIntegrator::initial
Begin == /\ now = 0
         /\ DOMAIN sched = {}
         /\ \E fresh \in SUBSET Item : Reschedule({}, fresh, 0)
         /\ UNCHANGED now

\* One turn of the loop of HardIntegrator::integrateToTime.
Advance == /\ now < TimeEnd
           /\ \E first \in DOMAIN sched :
                 /\ \A i \in DOMAIN sched : Due(first) <= Due(i)
                 /\ now' = Due(first)
                 /\ \E keep \in SUBSET {i \in DOMAIN sched : Due(i) > Due(first)} :
                    \E fresh \in SUBSET (Item \ keep) :
                       Reschedule(keep, fresh, Due(first))

\* The loop is left at _time_end, or nothing is left to integrate.
Stop == /\ now = TimeEnd \/ DOMAIN sched = {}
        /\ UNCHANGED vars

Next == Begin \/ Advance \/ Stop

Spec == Init /\ [][Next]_vars

-----------------------------------------------------------------------------
TypeOK == /\ now \in Nat
          /\ DOMAIN sched \subseteq Item
          /\ sched \in [DOMAIN sched -> [time : Nat, dt : Steps]]

\* Every item lies on the grid of its own step, and the clock is inside the
\* item's current step.
OnGrid == \A i \in DOMAIN sched :
             /\ Divides(sched[i].dt, sched[i].time)
             /\ sched[i].time <= now
             /\ now < Due(i)

\* A step taken from the clock's block never passes an item that is under
\* way: what was inactive stays behind everything that was just integrated.
\* sortDtAndSelectActParticle relies on it, it sorts the active prefix only.
NeverOvertakes ==
    \A i \in DOMAIN sched :
        sched[i].time < now => \A d \in StepsAt(now) : now + d <= Due(i)

\* Among scheduled items the one that is due earlier has the smaller step
\* (the order HERMITE_DEBUG asserts of the sorted lists).
StepsNest == \A i, j \in DOMAIN sched :
                Due(i) < Due(j) => sched[i].dt <= sched[j].dt

\* The integration cannot jump over the end of the tree step, and there
\* every item has been integrated to that very time.
EndsTogether == /\ now <= TimeEnd
                /\ now = TimeEnd => \A i \in DOMAIN sched : sched[i].time = TimeEnd
=============================================================================
