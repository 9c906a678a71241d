----------------------------- MODULE HardSystem -----------------------------
(***************************************************************************)
(* What a SystemHard promises: its clusters drift together.  A drift       *)
(* begins when all clusters are at the time of the system, every cluster   *)
(* arrives once, and the time advances when all have.                      *)
(***************************************************************************)
EXTENDS Integers

CONSTANTS
    NCluster,  \* clusters, 1 .. NCluster
    Dts        \* lengths of a drift

Cluster == 1 .. NCluster

VARIABLES
    time_origin,
    goal,      \* end of the drift in progress, or time_origin
    reached    \* time of the particles of each cluster

vars == <<time_origin, goal, reached>>

Init ==
    /\ time_origin = 0 /\ goal = 0
    /\ reached = [c \in Cluster |-> 0]

Begin(dt) ==
    /\ goal = time_origin
    /\ goal' = goal + dt
    /\ UNCHANGED <<time_origin, reached>>

Arrive(c) ==
    /\ goal # time_origin /\ reached[c] = time_origin
    /\ reached' = [reached EXCEPT ![c] = goal]
    /\ UNCHANGED <<time_origin, goal>>

End ==
    /\ goal # time_origin
    /\ \A c \in Cluster : reached[c] = goal
    /\ time_origin' = goal
    /\ UNCHANGED <<goal, reached>>

Next ==
    \/ \E dt \in Dts : Begin(dt)
    \/ \E c \in Cluster : Arrive(c)
    \/ End

Spec == Init /\ [][Next]_vars
=============================================================================
