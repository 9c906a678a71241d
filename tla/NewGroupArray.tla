--------------------------- MODULE NewGroupArray ----------------------------
(***************************************************************************)
(* The arrays in which adjustGroups collects the members of new groups.    *)
(* checkNewGroup joins pairs (insertParticleIndexToGroup): the groups are  *)
(* adjacent segments of one array, and a particle, or all members of an    *)
(* existing group, is inserted in a segment by moving the first entries of *)
(* every later segment to its end.  breakGroups then appends branches of   *)
(* the groups that are broken.  Hermite has sets in place of the segments. *)
(* Particles are 0..NParticle-1, group slots follow, as in the code.       *)
(***************************************************************************)
EXTENDS Integers, Sequences, FiniteSets, SequencesExt

CONSTANTS NParticle, NGroup    \* particles; slots of existing groups

Particles == 0..NParticle - 1
Groups == NParticle..NParticle + NGroup - 1
Unset == -1    \* an entry nobody has written

VARIABLES
    pc,        \* "checkNewGroup" or "breakGroups"
    member,    \* info.particle_index of the existing groups
    broken,    \* the groups of which breakGroups has branches to append
    origin,    \* _new_group_particle_index_origin
    offset,    \* _new_n_group_offset
    nParticle, \* new_n_particle
    nGroup,    \* _new_n_group
    used,      \* used_mask
    noAdd      \* the break list from _n_break on

arrays == <<origin, offset, nParticle, nGroup, used, noAdd>>
vars == <<pc, member, broken, arrays>>

N(x) == IF x \in Groups THEN Len(member[x]) ELSE 1
Content(x) == IF x \in Groups THEN member[x] ELSE <<x>>

\* Wrong: one entry only, as if no group were ever inserted.
CopiedFirst(a, to, from, n) == [a EXCEPT ![to] = a[from]]
\* for (j = 0; j < n; j++) a[to + j] = a[from + j]; the ranges may overlap
Copied(a, to, from, n) ==
    FoldLeft(LAMBDA b, j : [b EXCEPT ![to + j] = b[from + j]], a, [j \in 1..n |-> j - 1])
Stored(a, to, s) == [p \in DOMAIN a |-> IF p - to + 1 \in DOMAIN s THEN s[p - to + 1] ELSE a[p]]

Init ==
    /\ pc = "checkNewGroup"
    /\ \E g \in [Groups -> SUBSET Particles] :
          /\ \A x \in Groups : Cardinality(g[x]) > 1
          \* the numbering of the particles is immaterial: members come first
          /\ \A x, y \in Groups : x < y => \A p \in g[x], q \in g[y] : p < q
          /\ \E k \in 0..NParticle : UNION {g[x] : x \in Groups} = 0..k - 1
          /\ member = [x \in Groups |-> SetToSeq(g[x])]
    /\ broken \in SUBSET Groups
    /\ origin = [p \in Particles |-> Unset]
    /\ offset = [g \in 0..NParticle |-> IF g = 0 THEN 0 ELSE Unset]
    /\ nParticle = 0 /\ nGroup = 0
    /\ used = [x \in Particles \cup Groups |->
                 IF x \in broken \cup UNION {ToSet(member[y]) : y \in Groups} THEN -2 ELSE -1]
    /\ noAdd = << >>

\* A joined group is entered in the break list.
Entry(x) == IF x \in Groups THEN <<x>> ELSE << >>

\* The first n entries of each segment move behind its end, those of the last one
\* first: n places become free where segment g starts.
Opened(g, n) ==
    LET last == nGroup - 1
        grown == Copied(origin, nParticle, offset[last], n)
    IN  FoldLeft(LAMBDA a, k : Copied(a, offset[k], offset[k - 1], n),
                 grown, [s \in 1..(last - g) |-> last + 1 - s])

\* insertParticleIndexToGroup, x joins the group g found before.
InsertIntoGroup(x, g) ==
    LET n == N(x)
    IN  /\ origin' = Stored(Opened(g, n), offset[g], Content(x))
        /\ offset' = [k \in DOMAIN offset |-> IF k \in g + 1..nGroup - 1 THEN offset[k] + n ELSE offset[k]]
        /\ nParticle' = nParticle + n
        /\ nGroup' = nGroup
        /\ noAdd' = noAdd \o Entry(x)
        /\ used' = [used EXCEPT ![x] = g]

\* insertParticleIndexToGroup, i and j are a new group.
InsertNewGroup(i, j) ==
    /\ offset' = [offset EXCEPT ![nGroup] = nParticle]
    /\ origin' = Stored(origin, nParticle, Content(i) \o Content(j))
    /\ nParticle' = nParticle + N(i) + N(j)
    /\ nGroup' = nGroup + 1
    /\ noAdd' = noAdd \o Entry(i) \o Entry(j)
    /\ used' = [used EXCEPT ![i] = nGroup, ![j] = nGroup]

\* checkNewGroup, for some active i and its nearest neighbour j
CheckNewGroup ==
    /\ pc = "checkNewGroup"
    /\ \E i, j \in Particles \cup Groups :
          /\ i # j /\ used[i] # -2 /\ used[j] # -2
          /\ ~ (used[i] >= 0 /\ used[j] >= 0)
          /\ IF used[i] >= 0 THEN InsertIntoGroup(j, used[i])
             ELSE IF used[j] >= 0 THEN InsertIntoGroup(i, used[j])
             ELSE InsertNewGroup(i, j)
    /\ UNCHANGED <<pc, member, broken>>

\* The last line of checkNewGroup: the end of the last group.
CloseGroups ==
    /\ pc = "checkNewGroup"
    /\ offset' = [offset EXCEPT ![nGroup] = nParticle]
    /\ pc' = "breakGroups"
    /\ UNCHANGED <<member, broken, origin, nParticle, nGroup, used, noAdd>>

\* breakGroups: a branch becomes the next new group, unless it has fewer than two
\* stars with mass.
Appended(r, b) ==
    IF b = {} THEN r
    ELSE [origin |-> Stored(r.origin, r.offset[r.nGroup], SetToSeq(b)),
          offset |-> [r.offset EXCEPT ![r.nGroup + 1] = r.offset[r.nGroup] + Cardinality(b)],
          nGroup |-> r.nGroup + 1]

\* breakGroups: of a broken group up to two branches become new groups.
AppendBranches ==
    /\ pc = "breakGroups"
    /\ \E x \in broken :
       \E left, right \in SUBSET ToSet(member[x]) :
          LET now == [origin |-> origin, offset |-> offset, nGroup |-> nGroup]
              r == Appended(Appended(now, left), right)
          IN  /\ left \cap right = {}
              /\ Cardinality(left) # 1 /\ Cardinality(right) # 1
              /\ broken' = broken \ {x}
              /\ origin' = r.origin /\ offset' = r.offset /\ nGroup' = r.nGroup
    /\ UNCHANGED <<pc, member, nParticle, used, noAdd>>

\* breakGroups is done; addGroups reads the arrays.
Return == pc = "breakGroups" /\ broken = {} /\ UNCHANGED vars

Next == CheckNewGroup \/ CloseGroups \/ AppendBranches \/ Return

-----------------------------------------------------------------------------
\* The end of group g: the start of the next one or of the free part.
End(g) == IF pc = "checkNewGroup" /\ g = nGroup - 1 THEN nParticle ELSE offset[g + 1]
Segment(g) == [p \in 1..(End(g) - offset[g]) |-> origin[offset[g] + p - 1]]
\* What was put into group g by checkNewGroup
Joined(g) == UNION {ToSet(Content(x)) : x \in {y \in DOMAIN used : used[y] = g}}

\* Each segment found by checkNewGroup holds exactly the particles that were
\* put into its group, once, however the shifts overlapped.
SegmentsHold ==
    \A g \in 0..nGroup - 1 :
        Joined(g) # {} => /\ ToSet(Segment(g)) = Joined(g)
                          /\ IsInjective(Segment(g))

\* No particle is in two new groups, no entry is read before it is written,
\* and nothing is written past the array of particles.getSize() entries.
NoSharing ==
    /\ nParticle <= NParticle
    /\ \A g \in 0..nGroup - 1 : End(g) <= NParticle /\ ToSet(Segment(g)) \subseteq Particles
    /\ \A g, h \in 0..nGroup - 1 : g # h => ToSet(Segment(g)) \cap ToSet(Segment(h)) = {}

\* Each group that was joined to another one is dissolved once, by clearing.
JoinedOnce ==
    /\ IsInjective(noAdd)
    /\ ToSet(noAdd) = {x \in Groups : used[x] >= 0}
    /\ Len(noAdd) + Cardinality(broken) <= NGroup
=============================================================================
