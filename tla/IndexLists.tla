----------------------------- MODULE IndexLists -----------------------------
(***************************************************************************)
(* What the routines that edit the sorted index lists of the Hermite       *)
(* integrator compute.  IndexListLoops shows that the loops of the code    *)
(* compute it; Hermite is written with these definitions.                  *)
(***************************************************************************)
EXTENDS Integers, Sequences, FiniteSets, SequencesExt

\* Wrong: the prefix count is not lowered.
NotLowered(list, n, table) == n

\* How many of the places are not behind i
Rank(places, i) == Cardinality({j \in places : j <= i})

\* The entries of list at some of its places, in order.
Picked(list, places) ==
    [r \in 1..Cardinality(places) |-> list[CHOOSE i \in places : Rank(places, i) = r]]

\* The entries of list that are in a set, in order.
Selected(list, S) == Picked(list, {i \in DOMAIN list : list[i] \in S})

\* removeDtIndexFromTable: the entries of list outside the table, in order,
\* and what is left of a prefix of n entries.
Removed(list, table) == Picked(list, {i \in DOMAIN list : list[i] \notin table})
Remaining(list, n, table) == Cardinality({i \in 1..n : list[i] \notin table})

\* integrateGroupsOneStep: the interrupted entries move to the front, the last
\* one first; the others keep their order.
MovedToFront(list, moved) ==
    Reverse(Selected(list, moved)) \o Removed(list, moved)
=============================================================================
