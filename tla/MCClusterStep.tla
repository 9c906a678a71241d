--------------------------- MODULE MCClusterStep ----------------------------
(***************************************************************************)
(* Five particles.  The relations are a line, a ring of four, a triple     *)
(* beside a pair, and two pairs; the particles live on two ranks or three, *)
(* so that a cluster has as many particles on one rank as on another, or   *)
(* spans all, and pair and triple have different hard ranks or are isolated*)
(***************************************************************************)
EXTENDS ClusterStep

Link(pairs) == [p \in Particle |-> {q \in Particle : {p, q} \in pairs}]

MCRelations ==
    { Link({{1, 2}, {2, 3}, {3, 4}, {4, 5}}),
      Link({{2, 1}, {1, 4}, {4, 3}, {3, 2}}),
      Link({{1, 3}, {2, 4}, {4, 5}}),
      Link({{2, 3}, {4, 5}}) }

MCHomes == { <<0, 0, 1, 1, 1>>, <<0, 0, 1, 2, 2>>, <<2, 0, 0, 1, 2>> }

\* Up the ids on one rank and down on the others
MCOrders == {[r \in Rank |-> [p \in Particle |-> IF r = 1 THEN p ELSE 5 - p]]}

\* Nothing to output; an output between; a changeover update between; the
\* initial output, or the one before a return to the caller
MCPlans ==
    { <<"kick", "drift", "return">>,
      <<"kick", "output", "kick", "drift", "return">>,
      <<"kick", "kick", "drift", "return">>,
      <<"kick", "output">> }
=============================================================================
