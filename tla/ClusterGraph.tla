---------------------------- MODULE ClusterGraph ----------------------------
(***************************************************************************)
(* The neighbour relation that SearchCluster splits into clusters, and how *)
(* much of it one MPI rank holds.                                          *)
(*                                                                         *)
(* A particle lives on one rank.  A rank keeps an entry (PtclCluster) for  *)
(* each of its particles with a neighbour, and an outer copy of each       *)
(* neighbour that lives elsewhere.  Between a copy and another copy it     *)
(* knows no edge.                                                          *)
(***************************************************************************)
EXTENDS Integers, FiniteSets

CONSTANTS
    Particle,   \* ids of the particles
    Rank,       \* MPI ranks
    Relations,  \* the neighbour relations to consider
    Homes,      \* where the particles may live
    Orders      \* orders of the entries of each rank

\* ngb[p]: whom the tree search finds near p.  The search radius of a pair is
\* the larger of the two, so the relation is symmetric.
Symmetric(n) == \A p, q \in Particle : q \in n[p] => p \in n[q]

ASSUME ClusterGraphAssumption ==
    /\ Particle \subseteq Nat /\ IsFiniteSet(Particle)
    /\ Rank \subseteq Nat
    /\ \A n \in Relations :
          /\ n \in [Particle -> SUBSET Particle] /\ Symmetric(n)
          /\ \A p \in Particle : p \notin n[p]
    /\ Homes \subseteq [Particle -> Rank]
    /\ Orders \subseteq [Rank -> [Particle -> Nat]]

VARIABLES
    ngb,    \* neighbours of each particle
    owner,  \* rank_org: the rank it lives on
    order   \* position of its entry in the array of a rank

graph == <<ngb, owner, order>>

GraphOK ==
    /\ ngb \in Relations
    /\ owner \in Homes
    /\ order \in Orders

Own(r) == {p \in Particle : owner[p] = r}

Single(p) == ngb[p] = {}

\* ptcl_cluster_[0 .. n_pcluster_self_node_ - 1]
SelfNode(r) == {p \in Own(r) : ~Single(p)}
\* The rest of ptcl_cluster_: neighbours that live on other ranks
Outer(r) == (UNION {ngb[p] : p \in Own(r)}) \ Own(r)
PtclCluster(r) == SelfNode(r) \cup Outer(r)

\* Wrong: the outer copies share one list.
NgbOfAllOuter(r) ==
    [p \in Particle |-> IF owner[p] = r THEN ngb[p] ELSE {q \in Own(r) : ngb[q] \cap Outer(r) # {}}]
\* The lists of the entries: for an outer copy, the own particles that found it
LocalNgb(r) == [p \in Particle |-> IF owner[p] = r THEN ngb[p] ELSE ngb[p] \cap Own(r)]

-----------------------------------------------------------------------------
\* Reached from p along the edges of n: in every closed set that has p.
Closed(C, n) == \A p \in C : n[p] \subseteq C
ReachedBy(p, n) ==
    LET closed == {C \in SUBSET Particle : p \in C /\ Closed(C, n)}
    IN  {q \in Particle : \A C \in closed : q \in C}

\* The cluster of p, over all ranks
ClusterOf(p) == ReachedBy(p, ngb)
\* What searchClusterImpl collects on rank r, starting at p
LocalCluster(r, p) == ReachedBy(p, LocalNgb(r))

\* Wrong: only the entry the search starts at decides.
IsolatedHead(r, p) == p \notin Outer(r)
\* flag_isolated: the search met no outer copy.
Isolated(r, p) == LocalCluster(r, p) \cap Outer(r) = {}

\* adr_sys_multi_cluster_isolated_, as sets of particles
IsolatedClusters(r) == {LocalCluster(r, p) : p \in {q \in SelfNode(r) : Isolated(r, q)}}
\* mediator_sorted_id_cluster_
Mediator(r) == {p \in PtclCluster(r) : ~Isolated(r, p)}

IsLowest(v, S) == v \in S /\ \A u \in S : v <= u
=============================================================================
