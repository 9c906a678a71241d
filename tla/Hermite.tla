------------------------------ MODULE Hermite ------------------------------
(***************************************************************************)
(* The Hermite integrator of SDAR (hermite_integrator.h) driven as in      *)
(* HardIntegrator::initial and integrateToTime (PeTar hard.hpp): one       *)
(* cluster of particles on individual block time steps, in which close     *)
(* particles are collected into groups that are integrated by AR and       *)
(* represented here by their centre of mass, and dissolved again.          *)
(*                                                                         *)
(* Control is kept: the two sorted lists with their active and init        *)
(* prefixes, the mask tables, the stack of free group slots, the order of  *)
(* the calls.  Data is abstracted: positions and forces become choices of  *)
(* steps, of close pairs, of groups that fly apart, of binary branches, of *)
(* stellar events.  A mass is zero or not.  Time is in units of dt_min_.   *)
(*                                                                         *)
(* A program step is a value of pc; loops over data that the properties    *)
(* tell apart (candidates for new groups, groups to break) are one action  *)
(* per iteration.  interrupt_detection_option is 0 (Events = {}) or 1.     *)
(***************************************************************************)
EXTENDS BlockStep, IndexLists

CONSTANTS Particle,  \* the particles of the cluster
          TimeEnd,   \* end of the tree step
          Events     \* what stellar evolution may do, see EventKinds

EventKinds == {"change",   \* a binary is modified (kick, mass loss)
               "merge",    \* one of a pair takes the other's mass
               "destroy",  \* both of a pair vanish
               "vanish"}   \* a single star loses all its mass

ASSUME HermiteAssumption ==
    /\ IsFiniteSet(Particle)
    /\ Cardinality(Particle) > 1
    /\ \A p \in Particle : p \notin Nat
    /\ TimeEnd \in Nat \ {0}
    /\ \A d \in Steps : Divides(d, TimeEnd)
    /\ Events \subseteq EventKinds

VARIABLES
    pc,           \* the call to be made next
    stage,        \* "first" and "second" initialIntegration, then "loop"
    time,         \* time_
    timeNextMin,  \* time_next_min_
    dtLimit,      \* dt_limit_
    massive,      \* the particles with mass > 0
    ptcl,         \* time, dt of particles[i] and time_next_[i]
    groups,       \* members, time, dt of groups[k] and time_next_
    singles,      \* index_dt_sorted_single_
    groupList,    \* index_dt_sorted_group_
    nActS, nActG, \* n_act_single_, n_act_group_
    nInitS, nInitG,  \* n_init_single_, n_init_group_
    singleMask,   \* table_single_mask_: the particles whose entry is true
    groupMask,    \* table_group_mask_: the slots whose entry is true
    freeSlots,    \* index_group_mask_, a stack of slots to reuse
    merger,       \* index_group_merger_
    adj           \* the local variables of adjustGroups

clock == <<time, timeNextMin, dtLimit>>
lists == <<singles, groupList, nActS, nActG, nInitS, nInitG>>
tables == <<singleMask, groupMask, freeSlots>>
vars == <<pc, stage, clock, massive, ptcl, groups, lists, tables, merger, adj>>

-----------------------------------------------------------------------------
(* Indices and sequences.                                                  *)

\* The code numbers particles from 0 and group slots from
\* index_offset_group_ on; here a slot is the position in groups.
Slots == DOMAIN groups
Entry(x) == IF x \in Particle THEN ptcl[x] ELSE groups[x]
Members(x) == IF x \in Particle THEN {x} ELSE groups[x].member
Listed == ToSet(singles) \cup ToSet(groupList)
ActiveS == ToSet(SubSeq(singles, 1, nActS))
ActiveG == ToSet(SubSeq(groupList, 1, nActG))
FreshS == ToSet(SubSeq(singles, 1, nInitS))
FreshG == ToSet(SubSeq(groupList, 1, nInitG))

\* updateTimeNextList for one entry that was brought to t and given step d
Restart(entry, t, d) == [entry EXCEPT !.time = t, !.dt = d, !.next = t + d]
NoTime == [time |-> 0, dt |-> 0, next |-> 0]
NewGroup(member) == [member |-> member, time |-> 0, dt |-> 0, next |-> 0]

\* NUMERIC_FLOAT_MAX, time_next_min_ when both lists are empty
FloatMax == TimeEnd + 2 * DtMax

\* Wrong: nothing is sorted.
Unsorted(list, n) == list
\* std::sort of the first n entries by time_next_ (an insertion sort, hence
\* stable, for the short lists of a cluster).
Before(list, i, j) == \/ Entry(list[i]).next < Entry(list[j]).next
                      \/ Entry(list[i]).next = Entry(list[j]).next /\ i <= j
SortedPlace(list, n, j) == Cardinality({i \in 1..n : Before(list, i, j)})
SortedPrefix(list, n) ==
    [r \in 1..Len(list) |->
        IF r <= n THEN list[CHOOSE j \in 1..n : SortedPlace(list, n, j) = r] ELSE list[r]]

-----------------------------------------------------------------------------
(* addGroups, initialIntegration and the first steps.                      *)

\* The slots given to n new groups: first the free ones, last in first out,
\* then new ones.
NewSlots(n) == [i \in 1..n |->
                   IF i <= Len(freeSlots) THEN freeSlots[Len(freeSlots) + 1 - i]
                   ELSE Len(groups) + i - Len(freeSlots)]

\* addGroups: the members leave the single list, the groups go in front of
\* the group list, active and waiting for initialIntegration.  Times that
\* are reset before they are read again (of members, of the new c.m.) are 0.
AddGroups(new) ==
    IF new = << >> THEN UNCHANGED <<ptcl, groups, lists, tables>>
    ELSE LET n == Len(new)
             slot == NewSlots(n)
             mask == singleMask \cup UNION ToSet(new)
         IN  /\ groups' = [k \in Slots \cup ToSet(slot) |->
                             IF \E i \in 1..n : slot[i] = k
                             THEN NewGroup(new[CHOOSE i \in 1..n : slot[i] = k])
                             ELSE groups[k]]
             /\ freeSlots' = SubSeq(freeSlots, 1, Len(freeSlots) - n)
             /\ groupMask' = groupMask \ ToSet(slot)
             /\ groupList' = slot \o groupList
             /\ nInitG' = nInitG + n
             /\ nActG' = nActG + n
             /\ singleMask' = mask
             /\ ptcl' = [p \in Particle |->
                           IF p \in mask \ singleMask THEN NoTime ELSE ptcl[p]]
             /\ singles' = Removed(singles, mask)
             /\ nActS' = Remaining(singles, nActS, mask)
             /\ nInitS' = Remaining(singles, nInitS, mask)

NoAdjust == [brk |-> <<>>, noAdd |-> <<>>, newGroup |-> <<>>, newSingle |-> <<>>,
             used |-> << >>, cursor |-> 1]

\* initialSystemSingle: every particle is an active single to be initialised.
Init == /\ pc = "addInitialGroups"
        /\ stage = "first"
        /\ time = 0 /\ timeNextMin = 0 /\ dtLimit = 0
        /\ massive = Particle
        /\ ptcl = [p \in Particle |-> NoTime]
        /\ groups = << >>
        /\ singles \in SetToSeqs(Particle)
        /\ groupList = << >>
        /\ nActS = Cardinality(Particle) /\ nInitS = Cardinality(Particle)
        /\ nActG = 0 /\ nInitG = 0
        /\ singleMask = {} /\ groupMask = {} /\ freeSlots = << >>
        /\ merger = << >>
        /\ adj = NoAdjust

\* The groups found before the integration (search_group_candidate) are
\* disjoint; a single group of all particles is integrated by AR alone.
InitialGroups ==
    {g \in UNION {[1..n -> SUBSET Particle] : n \in 0..(Cardinality(Particle) \div 2)} :
        /\ \A i \in DOMAIN g : Cardinality(g[i]) > 1
        /\ \A i, j \in DOMAIN g : i # j => g[i] \cap g[j] = {}
        /\ g # <<Particle>>}

AddInitialGroups ==
    /\ pc = "addInitialGroups"
    /\ \E new \in InitialGroups : AddGroups(new)
    /\ pc' = "initialIntegration"
    /\ UNCHANGED <<stage, clock, massive, merger, adj>>

\* initialIntegration: force and first step of what was added or released.
InitialIntegration ==
    /\ pc = "initialIntegration"
    /\ dtLimit' = IF nInitS = 0 /\ nInitG = 0 THEN dtLimit ELSE CalcNextDtLimit(time)
    /\ \E dt \in [FreshS \cup FreshG -> CalcBlockDt(dtLimit')] :
          /\ ptcl' = [p \in Particle |-> IF p \in FreshS 
                                         THEN Restart(ptcl[p], time, dt[p]) ELSE ptcl[p]]
          /\ groups' = [k \in Slots |-> IF k \in FreshG
                                        THEN Restart(groups[k], time, dt[k]) ELSE groups[k]]
    /\ nInitS' = 0 /\ nInitG' = 0
    /\ pc' = CASE stage = "first"  -> "checkBreak"
               [] stage = "second" -> "sort"
               [] stage = "loop"   -> "modifySingles"
    /\ UNCHANGED <<stage, time, timeNextMin, massive, singles, groupList, nActS, nActG,
                   tables, merger, adj>>

-----------------------------------------------------------------------------
(* One turn of the integration loop: groups, active particles.             *)


\* What AR may do to group k in one step: the event it reports and the
\* members left without mass.  The whole tree of the group is gone through,
\* several times in a step, so one report stands for any number of them.
\* Singles of the tree can vanish without the group being reported as merged,
\* but its innermost pair keeps its mass; after a merger the remnants can
\* vanish too; and a group is reported as destroyed when nothing is left, or,
\* with five members or more, when a single vanished in one branch of the
\* tree and a pair in the other, since both then return 3.
GroupEvents(k) ==
    LET m == groups[k].member \cap massive
    IN  {r \in [event : Events \cup {"none"}, lost : SUBSET m] :
            CASE r.event = "none"    -> r.lost = {}
              [] r.event = "change"  -> \/ r.lost = {}
                                        \/ /\ "vanish" \in Events
                                           /\ Cardinality(m \ r.lost) > 1
              [] r.event = "merge"   -> r.lost # {}
              [] r.event = "destroy" -> \/ r.lost = m
                                        \/ /\ Cardinality(m) > 4
                                           /\ Cardinality(r.lost) > 2
              [] OTHER -> FALSE}

\* integrateGroupsOneStep: every group is integrated to timeNextMin.  A group
\* that merged is queued for checkBreak; one that was changed inside its c.m.
\* step has the step cut at timeNextMin and moves, last one first, in front
\* of the list, into the active prefix.
IntegrateGroupsOneStep ==
    /\ pc = "integrateGroupsOneStep"
    /\ time < TimeEnd
    /\ \E r \in {f \in [ToSet(groupList) -> UNION {GroupEvents(k) : k \in ToSet(groupList)}] :
                    \A k \in ToSet(groupList) : f[k] \in GroupEvents(k)} :
          LET merged == {k \in ToSet(groupList) : r[k].event \in {"merge", "destroy"}}
              cut(k) == /\ r[k].event = "change"
                        /\ groups[k].time + groups[k].dt > timeNextMin
              moved == {k \in ToSet(groupList) : cut(k)}
          IN  /\ merger' = merger \o Selected(groupList, merged)
              /\ massive' = massive \ UNION {r[k].lost : k \in ToSet(groupList)}
              /\ groups' = [k \in Slots |->
                              IF k \in moved
                              THEN Restart(groups[k], groups[k].time, timeNextMin - groups[k].time)
                              ELSE groups[k]]
              /\ groupList' = MovedToFront(groupList, moved)
              /\ nActG' = Min({nActG + Cardinality(moved), Len(groupList)})
    /\ pc' = "integrateSingles"
    /\ UNCHANGED <<stage, clock, ptcl, singles, nActS, nInitS, nInitG, tables, adj>>

\* integrateSingleOneStepAct: the active singles and groups are corrected at
\* the end of their own step and given the next one.
IntegrateSingleOneStepAct ==
    /\ pc = "integrateSingles"
    /\ dtLimit' = CalcNextDtLimit(timeNextMin)
    /\ \E dt \in [ActiveS \cup ActiveG -> CalcBlockDt(dtLimit')] :
          LET step(x) == Restart(Entry(x), Entry(x).time + Entry(x).dt, dt[x])
          IN  /\ ptcl' = [p \in Particle |-> IF p \in ActiveS THEN step(p) ELSE ptcl[p]]
              /\ groups' = [k \in Slots |-> IF k \in ActiveG THEN step(k) ELSE groups[k]]
    /\ time' = timeNextMin
    /\ pc' = "checkBreak"
    /\ UNCHANGED <<stage, timeNextMin, massive, lists, tables, merger, adj>>

-----------------------------------------------------------------------------
(* adjustGroups.                                                           *)

\* reduceGroupCMStepByHalfAndSortDtIndex for the group at position i, on a
\* record of the variables it changes.
Unreduced ==
    [groups |-> groups, list |-> groupList, nextMin |-> timeNextMin, nAct |-> nActG]
ReducedByHalf(r, i) ==
    LET k == r.list[i]
        half == r.groups[k].dt \div 2
        g == [r.groups EXCEPT ![k] = Restart(@, @.time, half)]
        p == Min({q \in 1..i : \A s \in q..(i - 1) : g[k].next < g[r.list[s]].next})
    IN  [groups |-> g,
         list |-> [q \in DOMAIN r.list |-> IF q = p THEN k
                                           ELSE IF q \in p..i THEN r.list[q - 1]
                                           ELSE r.list[q]],
         nextMin |-> Min({r.nextMin, g[k].next}),
         nAct |-> IF i > r.nAct /\ p <= r.nAct + 1 /\ r.nAct < Len(r.list)
                  THEN r.nAct + 1 ELSE r.nAct]

\* The loop of checkBreak over the list, as far as it reduces steps: those of
\* the groups in marginal for which the next time is late enough.
LoopOfHalving(marginal) ==
    LET halve(r, i) == IF /\ r.list[i] \in marginal
                          /\ r.nextMin > time + r.groups[r.list[i]].dt
                       THEN ReducedByHalf(r, i) ELSE r
    IN  FoldLeft(halve, Unreduced, [i \in DOMAIN groupList |-> i])
\* The first step to be reduced finds the next time as it was.
Halved(marginal) ==
    IF \A k \in marginal : timeNextMin <= time + groups[k].dt THEN Unreduced
    ELSE LoopOfHalving(marginal)

\* checkBreak: groups that merged are broken; of the others those whose two
\* branches have parted, or will in the next step (escape); a pair still well
\* inside at half the step is to get one more, halved, step (marginal),
\* under a guard that compares the next time with the clock.
CheckBreak ==
    /\ pc = "checkBreak"
    /\ \E escape \in SUBSET (ToSet(groupList) \ ToSet(merger)) :
       \E marginal \in SUBSET (ToSet(groupList) \ (ToSet(merger) \cup escape)) :
          LET brk == merger \o Selected(groupList, escape)
              h == Halved(marginal)
              barred == singleMask \cup groupMask \cup ToSet(brk)
          IN  /\ groups' = h.groups
              /\ groupList' = h.list
              /\ timeNextMin' = h.nextMin
              /\ nActG' = h.nAct
              /\ adj' = [NoAdjust EXCEPT
                           !.brk = brk,
                           !.used = [x \in Particle \cup Slots |-> IF x \in barred THEN -2 ELSE -1]]
    /\ merger' = << >>
    /\ pc' = "checkNewGroup"
    /\ UNCHANGED <<stage, time, dtLimit, massive, ptcl, singles, nActS, nInitS, nInitG, tables>>

\* insertParticleIndexToGroup, with the new groups as sets of members; the
\* group numbers of used_mask start at 0.
Join(a, g, x) ==
    [a EXCEPT !.newGroup[g + 1] = @ \cup Members(x),
              !.used[x] = g,
              !.noAdd = IF x \in Slots THEN Append(@, x) ELSE @]
InsertParticleIndexToGroup(a, i, j) ==
    IF a.used[i] >= 0 THEN Join(a, a.used[i], j)
    ELSE IF a.used[j] >= 0 THEN Join(a, a.used[j], i)
    ELSE LET g == Len(a.newGroup)
         IN  Join(Join([a EXCEPT !.newGroup = Append(@, {})], g, i), g, j)

\* checkNewGroup, one active single or group: join it with its nearest
\* neighbour if they are close, approaching and weakly perturbed.
CheckNewGroup ==
    /\ pc = "checkNewGroup"
    /\ adj.cursor <= nActS + nActG
    /\ LET i == IF adj.cursor <= nActS THEN singles[adj.cursor]
                ELSE groupList[adj.cursor - nActS]
           joinable == {j \in Listed \ {i} :
                          /\ j \in Particle => j \in massive
                          /\ adj.used[j] # -2
                          /\ adj.used[i] < 0 \/ adj.used[j] < 0}
       IN  \E a \in {adj} \cup
                    IF i \in Particle \ massive \/ adj.used[i] = -2 THEN {}
                    ELSE {InsertParticleIndexToGroup(adj, i, j) : j \in joinable} :
              adj' = [a EXCEPT !.cursor = @ + 1]
    /\ UNCHANGED <<pc, stage, clock, massive, ptcl, groups, lists, tables, merger>>

\* What is behind the clock.  Wrong: among the particles only.
BehindParticles(X) == {x \in X \cap Particle : Entry(x).time < time}
Behind(X) == {x \in X : Entry(x).time < time}

\* The two integrateToTimeList calls: what is not masked and behind the clock
\* is brought to it, with some new step (it is replaced before it is read).
IntegrateToTimeList ==
    /\ pc = "checkNewGroup"
    /\ adj.cursor > nActS + nActG
    /\ ptcl' = [p \in Particle |->
                  IF p \in Behind((UNION ToSet(adj.newGroup)) \ singleMask)
                  THEN Restart(ptcl[p], time, dtLimit) ELSE ptcl[p]]
    /\ groups' = [k \in Slots |->
                    IF k \in Behind(ToSet(adj.brk) \ groupMask)
                    THEN Restart(groups[k], time, dtLimit) ELSE groups[k]]
    /\ adj' = [adj EXCEPT !.cursor = 1]
    /\ pc' = "breakGroups"
    /\ UNCHANGED <<stage, clock, massive, lists, tables, merger>>

\* The left branch of the binary tree: particles without mass are outermost.
LeftBranches(m) ==
    IF Cardinality(m) = 2 \/ m \subseteq massive THEN (SUBSET m) \ {{}, m}
    ELSE {m \ {z} : z \in m \ massive}

\* What becomes of one branch of a broken group: a lone particle with mass
\* is a single again, two or more form a new group.
\* The wrong forms do not count the particles with mass.
LoneSingle(b) == IF Cardinality(b) = 1 THEN b \cap massive ELSE {}
Single(b) == IF Cardinality(b) = 1 \/ Cardinality(b \cap massive) = 1 THEN b \cap massive ELSE {}
RegroupAny(b) == IF Cardinality(b) > 1 THEN <<b>> ELSE << >>
Regroup(b) == IF Cardinality(b \cap massive) > 1 THEN <<b>> ELSE << >>
Unmasked(b) == IF Cardinality(b) = 1 \/ Cardinality(b \cap massive) > 1 THEN b ELSE Single(b)

\* breakGroups, one group.
BreakGroup ==
    /\ pc = "breakGroups"
    /\ adj.cursor <= Len(adj.brk)
    /\ LET k == adj.brk[adj.cursor]
           m == groups[k].member
       IN  /\ \E left \in LeftBranches(m) :
                 LET right == m \ left
                 IN  /\ adj' = [adj EXCEPT
                                  !.cursor = @ + 1,
                                  !.newSingle = @ \o SetToSeq(Single(left)) \o SetToSeq(Single(right)),
                                  !.newGroup = @ \o Regroup(left) \o Regroup(right)]
                     /\ singleMask' = singleMask \ (Unmasked(left) \cup Unmasked(right))
           /\ groups' = [groups EXCEPT ![k] = NewGroup({})]
           /\ groupMask' = groupMask \cup {k}
           /\ freeSlots' = Append(freeSlots, k)
    /\ UNCHANGED <<pc, stage, clock, massive, ptcl, lists, merger>>

\* breakGroups, the rest: the released singles are active and go in front of
\* the list; groups that joined a new group are cleared.
ReleaseSingles ==
    /\ pc = "breakGroups"
    /\ adj.cursor > Len(adj.brk)
    /\ LET cleared == ToSet(adj.noAdd)
           mask == groupMask \cup cleared
       IN  /\ singles' = adj.newSingle \o singles
           /\ nInitS' = nInitS + Len(adj.newSingle)
           /\ nActS' = nActS + Len(adj.newSingle)
           /\ singleMask' = singleMask \ UNION {groups[k].member : k \in cleared}
           /\ groups' = [k \in Slots |-> IF k \in cleared THEN NewGroup({}) ELSE groups[k]]
           /\ groupMask' = mask
           /\ freeSlots' = freeSlots \o adj.noAdd
           /\ groupList' = Removed(groupList, mask)
           /\ nActG' = Remaining(groupList, nActG, mask)
           /\ nInitG' = Remaining(groupList, nInitG, mask)
    /\ pc' = "addGroups"
    /\ UNCHANGED <<stage, clock, massive, ptcl, merger, adj>>

AddNewGroups ==
    /\ pc = "addGroups"
    /\ AddGroups(adj.newGroup)
    /\ adj' = NoAdjust
    /\ stage' = IF stage = "first" THEN "second" ELSE stage
    /\ pc' = "initialIntegration"
    /\ UNCHANGED <<clock, massive, merger>>

-----------------------------------------------------------------------------
(* The end of a turn.                                                      *)

\* modifySingleParticles: an active single may lose all its mass; it stays in
\* the list.
ModifySingleParticles ==
    /\ pc = "modifySingles"
    /\ \E lost \in SUBSET IF "vanish" \in Events THEN ActiveS \cap massive ELSE {} :
          /\ massive' = massive \ lost
          /\ ptcl' = [p \in Particle |-> IF p \in lost THEN Restart(ptcl[p], ptcl[p].time, ptcl[p].dt)
                                         ELSE ptcl[p]]
    /\ pc' = "sort"
    /\ UNCHANGED <<stage, clock, groups, lists, tables, merger, adj>>

\* sortDtAndSelectActParticle: sort the active prefixes, take the earlier of
\* the two heads, and count the prefixes due then.
SortDtAndSelectActParticle ==
    /\ pc = "sort"
    /\ LET s == SortedPrefix(singles, nActS)
           g == SortedPrefix(groupList, nActG)
           heads == {Entry(l[1]).next : l \in {s, g} \ {<< >>}}
           min == Min(heads \cup {FloatMax})
           due(l) == LET later == {i \in DOMAIN l : min < Entry(l[i]).next}
                     IN  IF later = {} THEN Len(l) ELSE Min(later) - 1
       IN  /\ singles' = s
           /\ groupList' = g
           /\ timeNextMin' = min
           /\ nActS' = due(s)
           /\ nActG' = due(g)
           /\ pc' = IF heads = {} THEN "nothingActive" ELSE "integrateGroupsOneStep"
    /\ stage' = "loop"
    /\ UNCHANGED <<time, dtLimit, massive, ptcl, groups, nInitS, nInitG, tables, merger, adj>>

\* integrateToTime returns; or nothing is left in the lists, where the sort's
\* ASSERT stops a checked build and time_next_min_ is no time any more.
Stop == /\ \/ pc = "integrateGroupsOneStep" /\ time >= TimeEnd
           \/ pc = "nothingActive"
        /\ UNCHANGED vars

Next == \/ AddInitialGroups
        \/ InitialIntegration
        \/ IntegrateGroupsOneStep
        \/ IntegrateSingleOneStepAct
        \/ CheckBreak
        \/ CheckNewGroup
        \/ IntegrateToTimeList
        \/ BreakGroup
        \/ ReleaseSingles
        \/ AddNewGroups
        \/ ModifySingleParticles
        \/ SortDtAndSelectActParticle
        \/ Stop

Spec == Init /\ [][Next]_vars

\* The driver is one thread that never waits.
FairSpec == Spec /\ WF_vars(Next)

-----------------------------------------------------------------------------
(* Properties.                                                             *)

Calls == {"addInitialGroups", "initialIntegration", "integrateGroupsOneStep",
          "integrateSingles", "checkBreak", "checkNewGroup", "breakGroups", "addGroups",
          "modifySingles", "sort", "nothingActive"}

\* The types of the variables; the prefixes fit their lists.
TypeOK ==
    /\ pc \in Calls
    /\ stage \in {"first", "second", "loop"}
    /\ time \in Nat /\ timeNextMin \in Nat /\ dtLimit \in Steps \cup {0}
    /\ massive \subseteq Particle
    /\ ptcl \in [Particle -> [time : Nat, dt : Nat, next : Nat]]
    /\ groups \in Seq([member : SUBSET Particle, time : Nat, dt : Nat, next : Nat])
    /\ singles \in Seq(Particle)
    /\ groupList \in Seq(Slots) /\ freeSlots \in Seq(Slots) /\ merger \in Seq(Slots)
    /\ singleMask \subseteq Particle /\ groupMask \subseteq Slots
    /\ nInitS \in 0..nActS /\ nActS \in 0..Len(singles)
    /\ nInitG \in 0..nActG /\ nActG \in 0..Len(groupList)

\* Between the calls that move particles around.
TablesSettled == pc \notin {"breakGroups", "addGroups"}

Count(list, x) == Cardinality({i \in DOMAIN list : list[i] = x})

\* No particle with mass is lost or integrated twice: it is once in the list
\* of singles, unmasked, or masked and a member of one listed group
\* (HERMITE_DEBUG counts list and mask entries in initialIntegration).
ParticlesKept ==
    TablesSettled =>
        \A p \in Particle :
            LET alone == Count(singles, p)
                grouped == Cardinality({k \in ToSet(groupList) : p \in groups[k].member})
            IN  /\ alone + grouped <= 1
                /\ p \in massive => alone + grouped = 1
                /\ alone = 1 => p \notin singleMask
                /\ grouped = 1 => p \in singleMask

\* A slot of groups is in use, listed once and unmasked, or on the stack of
\* free slots once, masked and empty.
SlotsKept ==
    TablesSettled =>
        \A k \in Slots :
            /\ Count(groupList, k) + Count(freeSlots, k) = 1
            /\ (k \in groupMask) = (k \in ToSet(freeSlots))
            /\ (k \in groupMask) = (groups[k].member = {})

\* A listed group that is not about to be broken for a merger has two members
\* with mass, so its slot is worth an orbit and there are at most half as
\* many slots as particles (hard.hpp reserves room for all of them).
GroupsViable ==
    TablesSettled =>
        /\ \A k \in ToSet(groupList) \ ToSet(merger) :
              k \in ToSet(adj.brk) \/ Cardinality(groups[k].member \cap massive) > 1
        /\ 2 * Len(groups) <= Cardinality(Particle)

\* The groups found by checkNewGroup share no member with each other or with
\* a group that is being broken, and hold the members of everything that
\* used_mask assigns to them.
NewGroupsDisjoint ==
    pc = "checkNewGroup" =>
        /\ \A g, h \in DOMAIN adj.newGroup :
              g # h => adj.newGroup[g] \cap adj.newGroup[h] = {}
        /\ \A g \in DOMAIN adj.newGroup :
              adj.newGroup[g] = UNION {Members(x) : x \in {y \in DOMAIN adj.used : adj.used[y] = g - 1}}
        /\ \A k \in ToSet(adj.brk) : \A g \in DOMAIN adj.newGroup :
              groups[k].member \cap adj.newGroup[g] = {}

\* The stack arrays of adjustGroups hold what checkBreak, checkNewGroup and
\* breakGroups put there: a slot per group and a particle at most once.
BuffersFit ==
    pc \in {"checkNewGroup", "breakGroups", "addGroups"} =>
        /\ Len(adj.brk) + Len(adj.noAdd) <= Len(groups)
        /\ Len(adj.newSingle)
              + Cardinality(UNION {{g} \X adj.newGroup[g] : g \in DOMAIN adj.newGroup})
              <= Cardinality(Particle)

\* Existing and new groups: slots, members and buffers (addGroups, checkBreak,
\* checkNewGroup, breakGroups).
GroupsSound == SlotsKept /\ GroupsViable /\ NewGroupsDisjoint /\ BuffersFit

AtTop == pc = "integrateGroupsOneStep"

\* Sorting the active prefixes alone leaves both lists sorted by next time and
\* by step, and the prefixes are exactly what is due at the next time.
SortedLists ==
    AtTop => \A l \in {singles, groupList} :
        LET due == IF l = singles THEN nActS ELSE nActG
        IN  /\ \A i, j \in DOMAIN l : i < j =>
                  /\ Entry(l[i]).next <= Entry(l[j]).next
                  /\ Entry(l[i]).dt <= Entry(l[j]).dt
            /\ \A i \in DOMAIN l : IF i <= due THEN Entry(l[i]).next = timeNextMin
                                   ELSE Entry(l[i]).next > timeNextMin

\* A group is dissolved into its branches with its c.m. at the clock.
BrokenAtNow ==
    pc = "breakGroups" =>
        \A i \in adj.cursor..Len(adj.brk) : groups[adj.brk[i]].time = time

\* The same of every group that is dissolved, those that join a new group
\* included ("integrate modified single/groups to current time").
DissolvedAtNow ==
    pc = "breakGroups" =>
        \A k \in ToSet(adj.brk \o adj.noAdd) \ groupMask : groups[k].time = time

\* The integration reaches the end of the tree step, unless no mass is left to integrate.
ReachesEnd == <>(\/ AtTop /\ time = TimeEnd
                 \/ pc = "nothingActive" /\ massive = {})
=============================================================================
