--------------------------- MODULE IndexListLoops ---------------------------
(***************************************************************************)
(* The in-place loops of hermite_integrator.h that edit index lists, one   *)
(* iteration per step, for every short list, set of marked entries and     *)
(* pair of prefixes.  Indices in loc are those of the code, from 0.        *)
(***************************************************************************)
EXTENDS IndexLists

CONSTANT MaxLength   \* length of the lists tried

VARIABLES pc,     \* the routine that runs, or "done"
          given,  \* the arguments: list, marked entries, n_act, n_init
          list,   \* the list as edited so far
          loc     \* the local variables and results

vars == <<pc, given, list, loc>>

At(l, i) == l[i + 1]
Put(l, i, x) == [l EXCEPT ![i + 1] = x]
\* Wrong: the shift stops one place early.
ShiftTooFew(l, lo, hi, by) ==
    FoldLeft(LAMBDA m, j : Put(m, j, At(m, j - by)), l, [s \in 1..(hi - lo - 1) |-> hi + 1 - s])

\* for (j = hi; j > lo; j--) l[j] = l[j - by];
ShiftRight(l, lo, hi, by) ==
    FoldLeft(LAMBDA m, j : Put(m, j, At(m, j - by)), l, [s \in 1..(hi - lo) |-> hi + 1 - s])

\* The entries of a list are distinct: here each is named by its first place.
Lists == {[i \in 1..n |-> i] : n \in 0..MaxLength}
Positions(l, marked) == Picked([i \in DOMAIN l |-> i - 1], {i \in DOMAIN l : l[i] \in marked})

Init ==
    /\ pc \in {"removeDtIndex", "moveInterrupted", "removeNBAddress"}
    /\ list \in Lists
    /\ \E marked \in SUBSET ToSet(list), nAct \in 0..Len(list) : \E nInit \in 0..nAct :
          given = [list |-> list, marked |-> marked, nAct |-> nAct, nInit |-> nInit]
    \* an interrupted group is not active (ASSERT), and there is one
    /\ pc = "moveInterrupted" =>
          /\ given.marked # {} /\ given.nInit = 0
          /\ given.marked \cap ToSet(SubSeq(list, 1, given.nAct)) = {}
    /\ pc = "removeNBAddress" => given.nAct = 0
    /\ loc = CASE pc = "removeDtIndex" ->
                    [i |-> 0, imove |-> 0, n |-> Len(list), nAct |-> given.nAct, nInit |-> given.nInit]
               [] pc = "moveInterrupted" ->
                    LET p == Positions(list, given.marked)
                    IN  [i |-> Len(p) - 2, shift |-> Last(p), off |-> 1,
                         front |-> <<At(list, Last(p))>>, nAct |-> given.nAct]
               [] pc = "removeNBAddress" -> [k |-> 0, last |-> Len(list) - 1]

\* if (i<_n_act) _n_act--
Lowered(n, i) == IF i < n THEN n - 1 ELSE n

\* removeDtIndexFromTable
RemoveDtIndex ==
    /\ pc = "removeDtIndex"
    /\ IF loc.i >= loc.n
       THEN /\ list' = SubSeq(list, 1, loc.n)
            /\ pc' = "done" /\ loc' = loc
       ELSE LET hit == At(list, loc.i) \in given.marked
            IN  /\ loc' = [i |-> IF hit THEN loc.i ELSE loc.i + 1,
                           imove |-> IF hit THEN loc.imove + 1 ELSE loc.imove,
                           n |-> IF hit THEN loc.n - 1 ELSE loc.n,
                           nAct |-> IF hit THEN Lowered(loc.nAct, loc.i) ELSE loc.nAct,
                           nInit |-> IF hit THEN Lowered(loc.nInit, loc.i) ELSE loc.nInit]
                /\ list' = IF loc'.i >= loc'.n THEN list
                           ELSE Put(list, loc'.i, At(list, loc'.i + loc'.imove))
                /\ pc' = pc
    /\ UNCHANGED given

\* integrateGroupsOneStep, "update index_dt_sorted_group_ due to the change of dt"
MoveInterrupted ==
    /\ pc = "moveInterrupted"
    /\ IF loc.i < 0
       THEN /\ list' = LET m == ShiftRight(list, loc.off - 1, loc.shift, loc.off)
                       IN  [i \in DOMAIN m |-> IF i <= loc.off THEN loc.front[i] ELSE m[i]]
            /\ loc' = [loc EXCEPT !.nAct = Min({@ + loc.off, Len(list)})]
            /\ pc' = "done"
       ELSE LET k == At(Positions(given.list, given.marked), loc.i)
            IN  /\ loc' = [loc EXCEPT !.i = @ - 1, !.shift = k + loc.off, !.off = @ + 1,
                                      !.front = Append(@, At(list, k))]
                /\ list' = ShiftRight(list, k + loc.off, loc.shift, loc.off)
                /\ pc' = pc
    /\ UNCHANGED given

\* The place looked at next: the same one if the last address was moved there.
NextPlace(k, moved) == IF moved THEN k ELSE k + 1

\* removeNBGroupAddressFromTable, removeNBSingleAddressFromTable
RemoveNBAddress ==
    /\ pc = "removeNBAddress"
    /\ IF loc.k > loc.last
       THEN /\ list' = SubSeq(list, 1, loc.last + 1)
            /\ pc' = "done" /\ loc' = loc
       ELSE LET masked == At(list, loc.k) \in given.marked
            IN  /\ list' = IF masked THEN Put(list, loc.k, At(list, loc.last)) ELSE list
                /\ loc' = [k |-> NextPlace(loc.k, masked),
                           last |-> IF masked THEN loc.last - 1 ELSE loc.last]
                /\ pc' = pc
    /\ UNCHANGED given

Return == pc = "done" /\ UNCHANGED vars

Next == RemoveDtIndex \/ MoveInterrupted \/ RemoveNBAddress \/ Return

-----------------------------------------------------------------------------
\* One loop keeps the unmarked entries in order while it lowers two prefix
\* counts on the fly (removeDtIndexFromTable).
RemovedInOrder ==
    pc = "done" /\ "imove" \in DOMAIN loc =>
        /\ list = Removed(given.list, given.marked)
        /\ loc.nAct = Remaining(given.list, given.nAct, given.marked)
        /\ loc.nInit = Remaining(given.list, given.nInit, given.marked)

\* The right-to-left shifts by growing offsets lose no entry, and put the
\* interrupted ones into an active prefix that still holds all active ones.
InterruptedInFront ==
    pc = "done" /\ "front" \in DOMAIN loc =>
        /\ list = MovedToFront(given.list, given.marked)
        /\ ToSet(SubSeq(list, 1, loc.nAct)) =
              given.marked \cup ToSet(SubSeq(given.list, 1, given.nAct))

\* Removal by the last entry keeps each unmarked neighbour exactly once.
NeighboursKept ==
    pc = "done" /\ "last" \in DOMAIN loc =>
        /\ IsInjective(list)
        /\ ToSet(list) = ToSet(given.list) \ given.marked
=============================================================================
