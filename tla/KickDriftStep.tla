--------------------------- MODULE KickDriftStep ---------------------------
(***************************************************************************)
(* The class KickDriftStep in the mode PeTar sets (kick first): how a tree *)
(* step is split in kicks and drifts.  A call that the class answers with  *)
(* abort() has no value here: May... says when a call is allowed.  Times   *)
(* are in sixths of the tree step, so that every coefficient is a whole    *)
(* number.                                                                 *)
(***************************************************************************)
EXTENDS Integers, Sequences

CONSTANT StepMode    \* --with-step-mode: "kdk", "kdkdk" or "kdkdk4"

ASSUME StepModeAssumption == StepMode \in {"kdk", "kdkdk", "kdkdk4"}

DtTree == 6

\* coff_one_step_: kick and drift of one full step
CoffOneStep ==
    IF StepMode = "kdk" THEN <<[kick |-> 3, drift |-> 6], [kick |-> 3, drift |-> 0]>>
    ELSE <<[kick |-> 1, drift |-> 3], [kick |-> 4, drift |-> 3], [kick |-> 1, drift |-> 0]>>

\* coff_continue_: the last kick of a step and the first of the next are one
CoffContinue ==
    LET full == CoffOneStep IN
    [i \in 0..Len(full) - 2 |->
        IF i = 0 THEN [kick |-> full[1].kick + full[Len(full)].kick, drift |-> full[1].drift]
        ELSE full[i + 1]]

\* count: count_continue_; start: next_is_start_flag_; kick: next_is_kick_flag_
DtManager == [count : DOMAIN CoffContinue, start : BOOLEAN, kick : BOOLEAN]
NewDtManager == [count |-> 0, start |-> TRUE, kick |-> TRUE]

MayNext(m) == ~m.start /\ m.kick
\* Wrong: the index of the pair stays.
NextContinueSkipped(m) == m
NextContinue(m) == [m EXCEPT !.count = (@ + 1) % (Len(CoffOneStep) - 1)]

IsNextEndPossible(m) == m.count = 0 /\ ~m.start /\ m.kick

\* The first kick of a step.
DtStart == CoffOneStep[1].kick
MayStart(m) == m.start
StartContinue(m) == [m EXCEPT !.start = FALSE, !.kick = ~m.kick]

\* Wrong: the last kick is as long as one between two steps.
DtEndFull == CoffContinue[0].kick
\* The last kick of a step.
DtEnd == CoffOneStep[Len(CoffOneStep)].kick
MayEnd(m) == IsNextEndPossible(m)
EndContinue(m) == [m EXCEPT !.start = TRUE]

DtKick(m) == CoffContinue[m.count].kick
MayKick(m) == ~m.start /\ m.kick
KickContinue(m) == [m EXCEPT !.kick = FALSE]

DtDrift(m) == CoffContinue[m.count].drift
MayDrift(m) == ~m.start /\ ~m.kick
DriftContinue(m) == [m EXCEPT !.kick = TRUE]
=============================================================================
