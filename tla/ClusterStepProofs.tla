------------------------- MODULE ClusterStepProofs --------------------------
(***************************************************************************)
(* Theorems about ClusterSearch and about ClusterStep, which goes on where *)
(* a search has ended: for any particles and ranks, any neighbour relation *)
(* and any order of the entries, an id is one cluster; whatever the        *)
(* clusters, ranks and plan, the copies of a star agree.                   *)
(*                                                                         *)
(* A round in which no rank changed an id leaves every id no larger than   *)
(* its local neighbours' (the pass) and than the owner's (the messages):   *)
(* RoundInv carries this through the round, per rank, as long as the       *)
(* rank's flag is down.  Both relations are equalities by symmetry, and a  *)
(* cluster is the least closed set, so one id covers it; IdsStayInCluster  *)
(* makes that id the lowest.                                               *)
(***************************************************************************)
EXTENDS ClusterStep, FiniteSetTheorems, WellFoundedInduction, TLAPS

-----------------------------------------------------------------------------
(* The neighbour relation *)

\* A particle is in its own cluster, and clusters contain those of their members.
LEMMA ReachedByTransitive ==
    ASSUME NEW n, NEW p \in Particle, NEW q \in ReachedBy(p, n)
    PROVE  /\ p \in ReachedBy(p, n)
           /\ q \in Particle
           /\ ReachedBy(q, n) \subseteq ReachedBy(p, n)
  BY DEF ReachedBy

\* A neighbour is reached.
LEMMA ReachedByStep ==
    ASSUME NEW n, NEW p \in Particle, NEW q \in Particle, q \in n[p]
    PROVE  q \in ReachedBy(p, n)
  BY DEF ReachedBy, Closed

\* A closed set that has p has all that p reaches.
LEMMA ReachedByLeast ==
    ASSUME NEW n, NEW p \in Particle, NEW C \in SUBSET Particle, p \in C, Closed(C, n)
    PROVE  ReachedBy(p, n) \subseteq C
  BY DEF ReachedBy

\* What GraphOK says of one relation.
LEMMA GraphFacts ==
    ASSUME GraphOK
    PROVE  /\ ngb \in [Particle -> SUBSET Particle]
           /\ owner \in [Particle -> Rank]
           /\ \A p, q \in Particle : q \in ngb[p] => p \in ngb[q]
           /\ \A p \in Particle : p \notin ngb[p]
           /\ Particle \subseteq Nat
  BY ClusterGraphAssumption DEF GraphOK, Symmetric

\* The entries of a rank are particles, and its lists hold entries only.
LEMMA LocalNgbFacts ==
    ASSUME GraphOK, NEW r \in Rank, NEW p \in PtclCluster(r)
    PROVE  /\ p \in Particle
           /\ LocalNgb(r)[p] \subseteq PtclCluster(r)
           /\ LocalNgb(r)[p] \subseteq ngb[p]
           /\ \A q \in LocalNgb(r)[p] : p \in LocalNgb(r)[q]
  <1>1. p \in Particle
    BY GraphFacts DEF PtclCluster, SelfNode, Outer, Own
  <1>2. LocalNgb(r)[p] = IF owner[p] = r THEN ngb[p] ELSE ngb[p] \cap Own(r)
    BY <1>1 DEF LocalNgb
  <1>3. LocalNgb(r)[p] \subseteq ngb[p] /\ ngb[p] \subseteq Particle
    BY <1>1, <1>2, GraphFacts
  <1>4. ASSUME NEW q \in LocalNgb(r)[p]
        PROVE  q \in PtclCluster(r) /\ p \in LocalNgb(r)[q]
    <2>1. q \in Particle /\ q \in ngb[p] /\ p \in ngb[q]
      BY <1>1, <1>3, <1>4, GraphFacts
    <2>2. owner[p] = r \/ owner[q] = r
      BY <1>2, <1>4 DEF Own
    <2>3. q \in PtclCluster(r)
      BY <1>1, <2>1, <2>2 DEF PtclCluster, SelfNode, Outer, Own, Single
    <2>4. p \in LocalNgb(r)[q]
      BY <1>1, <2>1, <2>2 DEF LocalNgb, Own
    <2> QED
      BY <2>3, <2>4
  <1> QED
    BY <1>1, <1>3, <1>4

\* Every outer copy is in the mediator list, and with an entry its local neighbours.
LEMMA MediatorClosed ==
    ASSUME GraphOK, NEW r \in Rank
    PROVE  /\ Outer(r) \subseteq Mediator(r)
           /\ \A p \in Mediator(r) : LocalNgb(r)[p] \subseteq Mediator(r)
  <1>1. ASSUME NEW p \in Outer(r)
        PROVE  p \in Mediator(r)
    <2>1. p \in PtclCluster(r) /\ p \in Particle
      BY <1>1, LocalNgbFacts DEF PtclCluster
    <2>2. p \in ReachedBy(p, LocalNgb(r))
      BY <2>1 DEF ReachedBy
    <2> QED
      BY <1>1, <2>1, <2>2 DEF Mediator, Isolated, LocalCluster
  <1>2. ASSUME NEW p \in Mediator(r), NEW q \in LocalNgb(r)[p]
        PROVE  q \in Mediator(r)
    <2>1. p \in PtclCluster(r) /\ ~Isolated(r, p)
      BY <1>2 DEF Mediator
    <2>2. p \in Particle /\ q \in PtclCluster(r) /\ p \in LocalNgb(r)[q]
      BY <1>2, <2>1, LocalNgbFacts
    <2>3. q \in Particle
      BY <2>2, LocalNgbFacts
    <2>4. p \in ReachedBy(q, LocalNgb(r))
      BY <2>2, <2>3, ReachedByStep
    <2>5. ReachedBy(p, LocalNgb(r)) \subseteq ReachedBy(q, LocalNgb(r))
      BY <2>3, <2>4, ReachedByTransitive
    <2> QED
      BY <2>1, <2>2, <2>5 DEF Mediator, Isolated, LocalCluster
  <1> QED
    BY <1>1, <1>2
-----------------------------------------------------------------------------
(* The inductive invariant *)

\* Inside a round
InRound(r) == pc[r] \in {"receive", "pass", "reduce"}
\* Inside a round, with its messages received
Received(r) == pc[r] \in {"pass", "reduce"}

\* Who may be where: a rank past its receive has senders that packed for this
\* round, and a message under way is from this round.
PhaseInv ==
    /\ \A r \in Rank : pc[r] \notin {"local", "ask", "connect"} => sendTo[r] = AskedFrom(r)
    /\ \A r, s \in Rank : <<s, r>> \in posted => InRound(s) /\ ~Received(r)
    /\ \A r, s \in Rank : Received(r) /\ s \in RankRecv(r) => InRound(s)
    /\ \A r \in Rank : pc[r] = "reduce" => todo[r] = {}

\* The rank still has the ids it sent.
SentUnchanged(r) == \A p \in Packed(r) : buffer[r][p] = id[r][p]
\* Its copies are not above what the owners sent.
BelowSent(r) == \A p \in Outer(r) : id[r][p] <= buffer[owner[p]][p]
\* The entries of m are not above their neighbours.
BelowNgb(r, m) == \A p \in m : \A q \in LocalNgb(r)[p] : id[r][p] <= id[r][q]

\* What a round has shown about a rank whose flag is down
RoundInv ==
    \A r \in Rank :
       /\ pc[r] = "receive" \/ (Received(r) /\ ~changed[r]) => SentUnchanged(r)
       /\ Received(r) /\ ~changed[r] => BelowSent(r) /\ BelowNgb(r, Mediator(r) \ todo[r])

\* Its copies are not above the owners', nor its entries above their neighbours.
Agreed(r) ==
    /\ \A p \in Outer(r) : id[r][p] <= id[owner[p]][p]
    /\ BelowNgb(r, Mediator(r))

\* The ranks leave the rounds together, in agreement.
DoneInv == \A r \in Rank : pc[r] = "done" => \A s \in Rank : pc[s] = "done" /\ Agreed(s)

\* Ids only go down.
NotAboveOwnId == \A r \in Rank, p \in Particle : id[r][p] <= p /\ buffer[r][p] <= p

IInv == TypeOK /\ PhaseInv /\ RoundInv /\ DoneInv /\ IdsStayInCluster /\ NotAboveOwnId

\* The init state satisfies the invariant: every id is the particle's own.
LEMMA InitIInv == Init => IInv
  <1> SUFFICES ASSUME Init PROVE IInv
    OBVIOUS
  <1>1. GraphOK /\ \A p \in Particle : p \in ClusterOf(p) /\ p <= p
    BY GraphFacts DEF Init, ClusterOf, ReachedBy
  <1>2. \A r \in Rank : PtclCluster(r) \subseteq Particle
    BY <1>1, LocalNgbFacts
  <1>3. TypeOK
    BY <1>1, <1>2 DEF Init, TypeOK, Phase
  <1> QED
    BY <1>1, <1>3 DEF Init, IInv, PhaseInv, RoundInv, DoneInv, IdsStayInCluster,
       NotAboveOwnId, InRound, Received

\* Nothing that derives from the graph alone changes in a step.
LEMMA GraphUnchanged ==
    ASSUME UNCHANGED graph
    PROVE  /\ \A r \in Rank : Outer(r)' = Outer(r) /\ Mediator(r)' = Mediator(r)
                               /\ LocalNgb(r)' = LocalNgb(r) /\ RankRecv(r)' = RankRecv(r)
                               /\ AskedFrom(r)' = AskedFrom(r)
           /\ \A p \in Particle : ClusterOf(p)' = ClusterOf(p)
           /\ GraphOK => GraphOK'
  BY DEF graph, Outer, Mediator, LocalNgb, RankRecv, AskedFrom, ClusterOf, Own, PtclCluster,
     SelfNode, Single, Isolated, LocalCluster, GraphOK

\* The lowest id of an entry and its local neighbours is an id of its cluster.
LEMMA LowestInCluster ==
    ASSUME IInv, NEW r \in Rank, NEW p \in Particle, NEW v \in Particle,
           IsLowest(v, {id[r][q] : q \in LocalNgb(r)[p] \cup {p}})
    PROVE  /\ v \in ClusterOf(p)
           /\ v <= id[r][p] /\ v <= p
           /\ \A q \in LocalNgb(r)[p] : v <= id[r][q]
  <1>1. GraphOK /\ id[r][p] \in Particle /\ Particle \subseteq Nat
    BY GraphFacts DEF IInv, TypeOK
  <1>2. v <= id[r][p] /\ \A q \in LocalNgb(r)[p] : v <= id[r][q]
    BY DEF IsLowest
  <1>3. id[r][p] <= p
    BY DEF IInv, NotAboveOwnId
  <1>4. v <= p
    BY <1>1, <1>2, <1>3
  <1>5. PICK q \in LocalNgb(r)[p] \cup {p} : v = id[r][q]
    BY DEF IsLowest
  <1>6. CASE q = p
    BY <1>2, <1>4, <1>5, <1>6 DEF IInv, IdsStayInCluster
  <1>7. CASE q \in LocalNgb(r)[p]
    <2>1. q \in ngb[p] /\ q \in Particle
      BY <1>1, <1>7, GraphFacts DEF LocalNgb
    <2>2. q \in ReachedBy(p, ngb)
      BY <2>1, ReachedByStep
    <2>3. ReachedBy(q, ngb) \subseteq ReachedBy(p, ngb)
      BY <2>2, ReachedByTransitive
    <2>4. v \in ClusterOf(q)
      BY <1>5, <2>1 DEF IInv, IdsStayInCluster
    <2> QED
      BY <1>2, <1>4, <2>3, <2>4 DEF ClusterOf
  <1> QED
    BY <1>5, <1>6, <1>7

\* One entry takes the lowest id: types, clusters and order are kept, and when
\* the id was the lowest already the entry is settled and nothing has changed.
LEMMA SetIdStep ==
    ASSUME IInv, UNCHANGED <<graph, buffer>>,
           NEW r \in Rank, NEW p \in Particle, NEW v \in Particle, SetIdClusterImpl(r, p, v)
    PROVE  /\ id' \in [Rank -> [Particle -> Particle]]
           /\ todo' \in [Rank -> SUBSET Particle]
           /\ IdsStayInCluster'
           /\ NotAboveOwnId'
           /\ \A s \in Rank \ {r} : id'[s] = id[s] /\ todo'[s] = todo[s]
           /\ todo'[r] = todo[r] \ {p}
           /\ v = id[r][p] => id' = id /\ \A q \in LocalNgb(r)[p] : id[r][p] <= id[r][q]
  <1>1. /\ id \in [Rank -> [Particle -> Particle]] /\ todo \in [Rank -> SUBSET Particle]
        /\ IsLowest(v, {id[r][q] : q \in LocalNgb(r)[p] \cup {p}})
        /\ id' = [id EXCEPT ![r][p] = v] /\ todo' = [todo EXCEPT ![r] = @ \ {p}]
    BY DEF IInv, TypeOK, SetIdClusterImpl
  <1>2. v \in ClusterOf(p) /\ v <= id[r][p] /\ v <= p /\ \A q \in LocalNgb(r)[p] : v <= id[r][q]
    BY <1>1, LowestInCluster
  <1>3. id' \in [Rank -> [Particle -> Particle]] /\ todo' \in [Rank -> SUBSET Particle]
    BY <1>1
  <1>4. \A s \in Rank, q \in Particle :
           id'[s][q] = IF s = r /\ q = p THEN v ELSE id[s][q]
    BY <1>1
  <1>5. \A q \in Particle : ClusterOf(q)' = ClusterOf(q)
    BY GraphUnchanged
  <1>6. IdsStayInCluster'
    BY <1>2, <1>4, <1>5 DEF IInv, IdsStayInCluster
  <1>7. NotAboveOwnId'
    BY <1>2, <1>4 DEF IInv, NotAboveOwnId
  <1>8. v = id[r][p] => id' = id
    BY <1>1, <1>4
  <1> QED
    BY <1>1, <1>2, <1>3, <1>6, <1>7, <1>8

\* A step that touches no id, and no flag or list of a rank inside a round.
LEMMA QuietStep ==
    ASSUME IInv, UNCHANGED <<graph, id, buffer>>
    PROVE  IdsStayInCluster' /\ NotAboveOwnId'
  <1>1. \A q \in Particle : ClusterOf(q)' = ClusterOf(q)
    BY GraphUnchanged
  <1> QED
    BY <1>1 DEF IInv, IdsStayInCluster, NotAboveOwnId

\* Outside the rounds a step of a rank leaves what the rounds have shown.
LEMMA BeforeRounds ==
    ASSUME IInv, [Next]_vars, NEW r \in Rank,
           SetIdClusterLocal(r) \/ LocalDone(r) \/ AskOwners(r) \/ ConnectNodes(r)
    PROVE  IInv'
  <1>1. GraphOK' /\ UNCHANGED <<graph, buffer, posted>>
    BY GraphUnchanged DEF SetIdClusterLocal, LocalDone, AskOwners, ConnectNodes, IInv, TypeOK
  <1>2. pc[r] \notin {"done", "reduce", "pass", "receive"} /\ pc'[r] \notin {"done", "reduce", "pass", "receive"}
    BY DEF SetIdClusterLocal, LocalDone, AskOwners, ConnectNodes, IInv, TypeOK
  <1>3. \A s \in Rank \ {r} : pc'[s] = pc[s] /\ id'[s] = id[s] /\ todo'[s] = todo[s]
                              /\ changed'[s] = changed[s] /\ sendTo'[s] = sendTo[s]
    BY SetIdStep, <1>1 DEF SetIdClusterLocal, LocalDone, AskOwners, ConnectNodes, IInv, TypeOK
  <1>4. TypeOK' /\ IdsStayInCluster' /\ NotAboveOwnId'
    <2>1. CASE SetIdClusterLocal(r)
      BY <1>1, <2>1, SetIdStep DEF SetIdClusterLocal, IInv, TypeOK
    <2>2. CASE LocalDone(r)
      BY <1>1, <2>2, QuietStep DEF LocalDone, IInv, TypeOK, Phase
    <2>3. CASE AskOwners(r)
      BY <1>1, <2>3, QuietStep DEF AskOwners, IInv, TypeOK, Phase
    <2>4. CASE ConnectNodes(r)
      <3>1. AskedFrom(r) \in [Rank -> SUBSET Particle]
        BY DEF AskedFrom, Own
      <3> QED
        BY <1>1, <2>4, <3>1, QuietStep DEF ConnectNodes, IInv, TypeOK, Phase
    <2> QED
      BY <2>1, <2>2, <2>3, <2>4
  <1>5. PhaseInv'
    <2>1. pc'[r] \notin {"local", "ask", "connect"} => sendTo'[r] = AskedFrom(r)
      BY DEF SetIdClusterLocal, LocalDone, AskOwners, ConnectNodes, IInv, TypeOK
    <2> QED
      BY <1>1, <1>2, <1>3, <2>1, GraphUnchanged DEF IInv, PhaseInv, InRound, Received
  <1>6. RoundInv'
    <2>1. \A s \in Rank \ {r} : Packed(s)' = Packed(s)
      BY <1>3 DEF Packed
    <2> QED
      BY <1>1, <1>2, <1>3, <2>1, GraphUnchanged
         DEF IInv, RoundInv, Received, SentUnchanged, BelowSent, BelowNgb, graph
  <1>7. DoneInv'
    BY <1>2, <1>3 DEF IInv, DoneInv
  <1> QED
    BY <1>4, <1>5, <1>6, <1>7 DEF IInv

\* Packing: nobody who still needs the last message can be left.
LEMMA PackStep ==
    ASSUME IInv, NEW r \in Rank, PackIds(r)
    PROVE  IInv'
  <1>1. /\ pc[r] = "pack" /\ UNCHANGED <<graph, id, todo, changed, asked, sendTo>>
        /\ pc' = [pc EXCEPT ![r] = "receive"]
        /\ buffer' = [buffer EXCEPT ![r] = [p \in Particle |->
                         IF p \in Packed(r) THEN id[r][p] ELSE buffer[r][p]]]
        /\ posted' = posted \cup {<<r, s>> : s \in RankSend(r)}
    BY DEF PackIds
  <1>2. GraphOK' /\ IInv /\ TypeOK
    BY <1>1, GraphUnchanged DEF IInv, TypeOK
  <1>3. TypeOK'
    <2>1. \A s \in RankSend(r) : s \in Rank
      BY DEF RankSend
    <2>2. posted' \subseteq Rank \X Rank
      BY <1>1, <1>2, <2>1 DEF TypeOK
    <2>3. buffer' \in [Rank -> [Particle -> Particle]]
      BY <1>1, <1>2 DEF TypeOK
    <2> QED
      BY <1>1, <1>2, <2>2, <2>3 DEF TypeOK, Phase
  <1>4. \A s \in Rank, p \in Particle : buffer'[s][p] =
           IF s = r /\ p \in Packed(r) THEN id[r][p] ELSE buffer[s][p]
    BY <1>1, <1>2 DEF TypeOK
  <1>5. IdsStayInCluster' /\ NotAboveOwnId'
    <2>1. \A q \in Particle : ClusterOf(q)' = ClusterOf(q)
      BY <1>1, GraphUnchanged
    <2> QED
      BY <1>1, <1>4, <2>1 DEF IInv, IdsStayInCluster, NotAboveOwnId
  <1>6. \A s \in RankSend(r) : s \in Rank /\ r \in RankRecv(s)
    <2>1. sendTo[r] = AskedFrom(r)
      BY <1>1 DEF IInv, PhaseInv
    <2>2. \A s \in Rank : sendTo[r][s] = Outer(s) \cap Own(r)
      BY <2>1 DEF AskedFrom
    <2> QED
      BY <2>2 DEF RankSend, RankRecv
  <1>7. \A s \in Rank : Received(s) => s # r /\ r \notin RankRecv(s)
    BY <1>1 DEF IInv, PhaseInv, Received, InRound
  <1>8. \A s \in Rank \ {r} : pc'[s] = pc[s]
    BY <1>1, <1>2 DEF TypeOK
  <1>9. pc'[r] = "receive"
    BY <1>1, <1>2 DEF TypeOK
  <1>10. PhaseInv'
    <2>1. ASSUME NEW s \in Rank, NEW t \in Rank, <<s, t>> \in posted'
          PROVE  InRound(s)' /\ ~Received(t)'
      <3>1. CASE <<s, t>> \in posted
        BY <1>1, <1>8, <1>9, <3>1 DEF IInv, PhaseInv, InRound, Received
      <3>2. CASE s = r /\ t \in RankSend(r)
        BY <1>6, <1>7, <1>8, <1>9, <3>2 DEF InRound, Received
      <3> QED
        BY <1>1, <2>1, <3>1, <3>2
    <2>2. \A s \in Rank : sendTo'[s] = sendTo[s] /\ todo'[s] = todo[s]
      BY <1>1
    <2> QED
      BY <1>1, <1>8, <1>9, <2>1, <2>2, GraphUnchanged DEF IInv, PhaseInv, InRound, Received
  <1>11. RoundInv'
    <2>1. \A s \in Rank : Packed(s)' = Packed(s)
      BY <1>1 DEF Packed
    <2>2. \A s \in Rank : Packed(s) \subseteq Particle
      BY <1>2 DEF TypeOK, Packed
    <2>3. SentUnchanged(r)'
      BY <1>1, <1>4, <2>1, <2>2 DEF SentUnchanged
    <2>4. \A s \in Rank \ {r} : SentUnchanged(s)' <=> SentUnchanged(s)
      BY <1>1, <2>1 DEF SentUnchanged, IInv, TypeOK
    <2>5. ASSUME NEW s \in Rank, Received(s), BelowSent(s)
          PROVE  BelowSent(s)'
      <3>1. ASSUME NEW p \in Outer(s)
            PROVE  owner[p] # r /\ owner[p] \in Rank /\ p \in Particle
        <4>1. p \in Particle /\ owner[p] \in Rank /\ owner[p] # s
          BY <1>2, GraphFacts DEF Outer, Own, TypeOK
        <4>2. owner[p] \in RankRecv(s)
          BY <4>1 DEF RankRecv, Own
        <4> QED
          BY <1>7, <2>5, <4>1, <4>2
      <3>2. Outer(s)' = Outer(s) /\ owner' = owner
        BY <1>1, GraphUnchanged DEF graph
      <3> QED
        BY <1>1, <1>4, <2>5, <3>1, <3>2 DEF BelowSent
    <2>6. \A s \in Rank : BelowNgb(s, Mediator(s) \ todo[s]) => BelowNgb(s, Mediator(s) \ todo[s])'
      BY <1>1, GraphUnchanged DEF BelowNgb
    <2> QED
      BY <1>1, <1>7, <1>8, <1>9, <2>3, <2>4, <2>5, <2>6 DEF IInv, RoundInv, Received
  <1>12. DoneInv'
    BY <1>1, <1>8, <1>9 DEF IInv, DoneInv
  <1> QED
    BY <1>3, <1>5, <1>10, <1>11, <1>12 DEF IInv

\* Receiving: a rank that takes no lower id has copies that are not above the owners'.
LEMMA ReceiveStep ==
    ASSUME IInv, NEW r \in Rank, ReceiveIds(r)
    PROVE  IInv'
  <1>1. /\ pc[r] = "receive" /\ UNCHANGED <<graph, asked, sendTo, buffer>>
        /\ \A s \in RankRecv(r) : <<s, r>> \in posted
        /\ posted' = posted \ (Rank \X {r})
        /\ id' = [id EXCEPT ![r] = [p \in Particle |->
                     IF p \in Outer(r) /\ buffer[owner[p]][p] < id[r][p]
                     THEN buffer[owner[p]][p] ELSE id[r][p]]]
        /\ changed' = [changed EXCEPT ![r] = ReceivedLower(r)]
        /\ todo' = [todo EXCEPT ![r] = Mediator(r)]
        /\ pc' = [pc EXCEPT ![r] = "pass"]
    BY DEF ReceiveIds
  <1>2. GraphOK /\ GraphOK' /\ TypeOK
    BY <1>1, GraphUnchanged DEF IInv, TypeOK
  <1>3. Particle \subseteq Nat /\ \A p \in Outer(r) : p \in Particle /\ owner[p] \in Rank /\ owner[p] # r
    BY <1>2, GraphFacts DEF Outer, Own
  <1>4. \A s \in Rank, p \in Particle : id'[s][p] =
           IF s = r /\ p \in Outer(r) /\ buffer[owner[p]][p] < id[r][p]
           THEN buffer[owner[p]][p] ELSE id[s][p]
    BY <1>1, <1>2 DEF TypeOK
  <1>5. \A s \in Rank \ {r} : pc'[s] = pc[s] /\ todo'[s] = todo[s] /\ changed'[s] = changed[s]
                              /\ id'[s] = id[s]
    BY <1>1, <1>2 DEF TypeOK
  <1>6. pc'[r] = "pass" /\ todo'[r] = Mediator(r) /\ changed'[r] = ReceivedLower(r)
    BY <1>1, <1>2 DEF TypeOK
  <1>7. TypeOK'
    <2>1. id' \in [Rank -> [Particle -> Particle]]
      BY <1>1, <1>2, <1>3 DEF TypeOK
    <2>2. Mediator(r) \subseteq Particle /\ ReceivedLower(r) \in BOOLEAN
      BY <1>2, LocalNgbFacts DEF Mediator, ReceivedLower
    <2> QED
      BY <1>1, <1>2, <2>1, <2>2 DEF TypeOK, Phase
  <1>8. IdsStayInCluster' /\ NotAboveOwnId'
    <2>1. \A q \in Particle : ClusterOf(q)' = ClusterOf(q)
      BY <1>1, GraphUnchanged
    <2> QED
      BY <1>1, <1>3, <1>4, <2>1 DEF IInv, IdsStayInCluster, NotAboveOwnId
  <1>9. PhaseInv'
    <2>1. \A s \in RankRecv(r) : InRound(s)
      BY <1>1 DEF IInv, PhaseInv, RankRecv
    <2>2. \A s \in Rank : InRound(s) => InRound(s)'
      BY <1>5, <1>6 DEF InRound
    <2>3. \A s, t \in Rank : <<s, t>> \in posted' => t # r /\ <<s, t>> \in posted
      BY <1>1
    <2> QED
      BY <1>1, <1>5, <1>6, <2>1, <2>2, <2>3, GraphUnchanged DEF IInv, PhaseInv, InRound, Received
  <1>10. RoundInv'
    <2>1. \A s \in Rank : Packed(s)' = Packed(s) /\ Packed(s) \subseteq Particle
      BY <1>1, <1>2 DEF Packed, TypeOK
    <2>2. ASSUME ~changed'[r]
          PROVE  SentUnchanged(r)' /\ BelowSent(r)' /\ BelowNgb(r, Mediator(r) \ todo[r])'
      <3>1. \A p \in Outer(r) : ~(buffer[owner[p]][p] < id[r][p])
        BY <1>6, <2>2 DEF ReceivedLower
      <3>2. \A p \in Particle : id'[r][p] = id[r][p]
        BY <1>4, <3>1
      <3>3. SentUnchanged(r)'
        BY <1>1, <2>1, <3>2 DEF IInv, RoundInv, SentUnchanged
      <3>4. \A p \in Outer(r) : id[r][p] \in Nat /\ buffer[owner[p]][p] \in Nat
        <4>1. \A s \in Rank, p \in Particle : id[s][p] \in Particle /\ buffer[s][p] \in Particle
          BY <1>2 DEF TypeOK
        <4> QED
          BY <1>3, <4>1
      <3>5. BelowSent(r)'
        BY <1>1, <1>3, <3>1, <3>2, <3>4, GraphUnchanged DEF BelowSent, graph
      <3>6. Mediator(r)' \ todo'[r] = {}
        BY <1>1, <1>6, GraphUnchanged
      <3>7. BelowNgb(r, Mediator(r) \ todo[r])'
        BY <3>6 DEF BelowNgb
      <3> QED
        BY <3>3, <3>5, <3>7
    <2>3. \A s \in Rank \ {r} : (SentUnchanged(s) => SentUnchanged(s)')
                                /\ (BelowSent(s) => BelowSent(s)')
      BY <1>1, <1>5, <2>1, GraphUnchanged DEF SentUnchanged, BelowSent, graph
    <2>4. \A s \in Rank \ {r} : BelowNgb(s, Mediator(s) \ todo[s]) => BelowNgb(s, Mediator(s) \ todo[s])'
      BY <1>1, <1>5, GraphUnchanged DEF BelowNgb
    <2> QED
      BY <1>5, <1>6, <2>2, <2>3, <2>4 DEF IInv, RoundInv, Received
  <1>11. DoneInv'
    BY <1>1, <1>5, <1>6 DEF IInv, DoneInv
  <1> QED
    BY <1>7, <1>8, <1>9, <1>10, <1>11 DEF IInv

\* The pass: an entry that keeps its id is settled, one that takes another raises the flag.
LEMMA PassStep ==
    ASSUME IInv, NEW r \in Rank, PassEntry(r)
    PROVE  IInv'
  <1>1. PICK p \in Particle, v \in Particle :
           SetIdClusterImpl(r, p, v) /\ changed' = [changed EXCEPT ![r] = FlagIterate(r, v, p)]
    BY DEF PassEntry
  <1>2. pc[r] = "pass" /\ UNCHANGED <<graph, pc, asked, sendTo, buffer, posted>>
    BY DEF PassEntry
  <1>3. /\ id' \in [Rank -> [Particle -> Particle]]
        /\ todo' \in [Rank -> SUBSET Particle]
        /\ IdsStayInCluster' /\ NotAboveOwnId'
        /\ \A s \in Rank \ {r} : id'[s] = id[s] /\ todo'[s] = todo[s]
        /\ todo'[r] = todo[r] \ {p}
        /\ v = id[r][p] => id' = id /\ \A q \in LocalNgb(r)[p] : id[r][p] <= id[r][q]
    BY <1>1, <1>2, SetIdStep
  <1>4. GraphOK' /\ TypeOK
    BY <1>2, GraphUnchanged DEF IInv, TypeOK
  <1>5. TypeOK'
    <2>1. changed' \in [Rank -> BOOLEAN]
      BY <1>1, <1>4 DEF TypeOK, FlagIterate
    <2> QED
      BY <1>2, <1>3, <1>4, <2>1 DEF TypeOK
  <1>6. PhaseInv'
    BY <1>2, <1>3, GraphUnchanged DEF IInv, PhaseInv, InRound, Received
  <1>7. \A s \in Rank \ {r} : changed'[s] = changed[s]
    BY <1>1, <1>4 DEF TypeOK
  <1>8. ~changed'[r] => ~changed[r] /\ id' = id
    BY <1>1, <1>3, <1>4 DEF TypeOK, FlagIterate
  <1>9. RoundInv'
    <2>1. \A s \in Rank : Packed(s)' = Packed(s)
      BY <1>2 DEF Packed
    <2>2. ASSUME ~changed'[r]
          PROVE  SentUnchanged(r)' /\ BelowSent(r)' /\ BelowNgb(r, Mediator(r) \ todo[r])'
      <3>1. ~changed[r] /\ id' = id /\ v = id[r][p]
        BY <1>1, <1>4, <1>8, <2>2 DEF TypeOK, FlagIterate
      <3>2. SentUnchanged(r) /\ BelowSent(r) /\ BelowNgb(r, Mediator(r) \ todo[r])
        BY <1>2, <3>1 DEF IInv, RoundInv, Received
      <3>3. SentUnchanged(r)' /\ BelowSent(r)'
        BY <1>2, <2>1, <3>1, <3>2, GraphUnchanged DEF SentUnchanged, BelowSent, graph
      <3>4. Mediator(r)' = Mediator(r) /\ LocalNgb(r)' = LocalNgb(r)
        BY <1>2, GraphUnchanged
      <3>5. BelowNgb(r, Mediator(r) \ todo[r])'
        BY <1>3, <3>1, <3>2, <3>4 DEF BelowNgb
      <3> QED
        BY <3>3, <3>5
    <2>3. \A s \in Rank \ {r} : (SentUnchanged(s) => SentUnchanged(s)')
                                /\ (BelowSent(s) => BelowSent(s)')
      BY <1>2, <1>3, <2>1, GraphUnchanged DEF SentUnchanged, BelowSent, graph
    <2>4. \A s \in Rank \ {r} : BelowNgb(s, Mediator(s) \ todo[s]) => BelowNgb(s, Mediator(s) \ todo[s])'
      BY <1>2, <1>3, GraphUnchanged DEF BelowNgb
    <2> QED
      BY <1>2, <1>7, <1>8, <2>2, <2>3, <2>4 DEF IInv, RoundInv, Received
  <1>10. DoneInv'
    BY <1>2 DEF IInv, DoneInv
  <1> QED
    BY <1>3, <1>5, <1>6, <1>9, <1>10 DEF IInv

\* The pass is over.
LEMMA PassDoneStep ==
    ASSUME IInv, NEW r \in Rank, PassDone(r)
    PROVE  IInv'
  <1>1. /\ pc[r] = "pass" /\ todo[r] = {} /\ pc' = [pc EXCEPT ![r] = "reduce"]
        /\ UNCHANGED <<graph, id, todo, changed, asked, sendTo, buffer, posted>>
    BY DEF PassDone
  <1>2. TypeOK' /\ TypeOK
    BY <1>1, GraphUnchanged DEF IInv, TypeOK, Phase
  <1>3. \A s \in Rank : pc'[s] = IF s = r THEN "reduce" ELSE pc[s]
    BY <1>1, <1>2 DEF TypeOK
  <1>4. IdsStayInCluster' /\ NotAboveOwnId'
    BY <1>1, QuietStep
  <1>5. PhaseInv'
    BY <1>1, <1>3, GraphUnchanged DEF IInv, PhaseInv, InRound, Received
  <1>6. \A s \in Rank : Packed(s)' = Packed(s) /\ (Received(s)' <=> Received(s))
                        /\ (pc'[s] = "receive" <=> pc[s] = "receive")
    BY <1>1, <1>3 DEF Packed, Received
  <1>7. \A s \in Rank : /\ SentUnchanged(s) => SentUnchanged(s)'
                        /\ BelowSent(s) => BelowSent(s)'
    BY <1>1, <1>6, GraphUnchanged DEF SentUnchanged, BelowSent, graph
  <1>8. \A s \in Rank : BelowNgb(s, Mediator(s) \ todo[s]) => BelowNgb(s, Mediator(s) \ todo[s])'
    BY <1>1, GraphUnchanged DEF BelowNgb
  <1>9. RoundInv'
    BY <1>1, <1>6, <1>7, <1>8 DEF IInv, RoundInv
  <1>10. DoneInv'
    BY <1>1, <1>3 DEF IInv, DoneInv
  <1> QED
    BY <1>2, <1>4, <1>5, <1>9, <1>10 DEF IInv

\* The reduction: when all flags are down, what each rank sent is what it has.
LEMMA ReduceStep ==
    ASSUME IInv, SynchronizeConditionalBranchOR
    PROVE  IInv'
  <1>1. /\ \A r \in Rank : pc[r] = "reduce"
        /\ pc' = BranchOR
        /\ UNCHANGED <<graph, id, todo, changed, asked, sendTo, buffer, posted>>
    BY DEF SynchronizeConditionalBranchOR
  <1>2. \A r \in Rank : pc'[r] = IF \E s \in Rank : changed[s] THEN "pack" ELSE "done"
    BY <1>1 DEF BranchOR
  <1>3. TypeOK' /\ TypeOK
    <2>1. pc' \in [Rank -> Phase]
      BY <1>1 DEF BranchOR, Phase
    <2> QED
      BY <1>1, <2>1, GraphUnchanged DEF IInv, TypeOK
  <1>4. IdsStayInCluster' /\ NotAboveOwnId'
    BY <1>1, QuietStep
  <1>5. PhaseInv'
    <2>1. posted = {}
      <3>1. ASSUME NEW m \in posted PROVE FALSE
        <4>1. PICK s \in Rank, r \in Rank : m = <<s, r>>
          BY <1>3, <3>1 DEF TypeOK
        <4> QED
          BY <1>1, <3>1, <4>1 DEF IInv, PhaseInv, Received
      <3> QED
        BY <3>1
    <2> QED
      BY <1>1, <1>2, <2>1, GraphUnchanged DEF IInv, PhaseInv, InRound, Received
  <1>6. RoundInv'
    BY <1>2 DEF RoundInv, Received
  <1>7. DoneInv'
    <2>1. ASSUME NEW r \in Rank, \A s \in Rank : ~changed[s]
          PROVE  Agreed(r)'
      <3>1. BelowSent(r) /\ BelowNgb(r, Mediator(r))
        BY <1>1, <2>1 DEF IInv, PhaseInv, RoundInv, Received
      <3>2. ASSUME NEW p \in Outer(r)
            PROVE  id[r][p] <= id[owner[p]][p]
        <4>1. p \in Particle /\ owner[p] \in Rank
          BY <1>3, GraphFacts DEF Outer, Own, TypeOK
        <4>2. sendTo[owner[p]] = AskedFrom(owner[p])
          BY <1>1, <4>1 DEF IInv, PhaseInv
        <4>3. p \in Packed(owner[p])
          BY <4>1, <4>2 DEF Packed, AskedFrom, Own
        <4>4. SentUnchanged(owner[p])
          BY <1>1, <2>1, <4>1 DEF IInv, RoundInv, Received
        <4> QED
          BY <3>1, <4>3, <4>4 DEF BelowSent, SentUnchanged
      <3>3. Agreed(r)
        BY <3>1, <3>2 DEF Agreed
      <3> QED
        BY <1>1, <3>3, GraphUnchanged DEF Agreed, BelowNgb, graph
    <2> QED
      BY <1>2, <2>1 DEF DoneInv
  <1> QED
    BY <1>3, <1>4, <1>5, <1>6, <1>7 DEF IInv

\* Every step keeps the invariant.
LEMMA StepIInv == IInv /\ [Next]_vars => IInv'
  <1> SUFFICES ASSUME IInv, [Next]_vars PROVE IInv'
    OBVIOUS
  <1>1. CASE UNCHANGED vars
    <2>1. UNCHANGED <<graph, pc, id, todo, changed, asked, sendTo, buffer, posted>>
      BY <1>1 DEF vars
    <2>2. TypeOK' /\ IdsStayInCluster' /\ NotAboveOwnId'
      BY <2>1, GraphUnchanged, QuietStep DEF IInv, TypeOK
    <2>3. PhaseInv' /\ DoneInv'
      <3>1. PhaseInv'
        BY <2>1, GraphUnchanged DEF IInv, PhaseInv, InRound, Received
      <3>2. \A r \in Rank : Agreed(r) => Agreed(r)'
        BY <2>1, GraphUnchanged DEF Agreed, BelowNgb, graph
      <3>3. DoneInv'
        BY <2>1, <3>2 DEF IInv, DoneInv
      <3> QED
        BY <3>1, <3>3
    <2>4. RoundInv'
      BY <2>1, GraphUnchanged
         DEF IInv, RoundInv, Received, SentUnchanged, Packed, BelowSent, BelowNgb, graph
    <2> QED
      BY <2>2, <2>3, <2>4 DEF IInv
  <1>2. CASE SynchronizeConditionalBranchOR
    BY <1>2, ReduceStep
  <1>3. ASSUME NEW r \in Rank, RankStep(r) PROVE IInv'
    BY <1>3, BeforeRounds, PackStep, ReceiveStep, PassStep, PassDoneStep DEF RankStep
  <1> QED
    BY <1>1, <1>2, <1>3 DEF Next

-----------------------------------------------------------------------------
(* The theorems *)

\* In agreement, one id covers a cluster: the entries, and the owners' entries,
\* with the id of p form a closed set.
LEMMA AgreementIsGlobal ==
    ASSUME IInv, \A s \in Rank : Agreed(s),
           NEW r \in Rank, NEW p \in Mediator(r), NEW u \in ClusterOf(p)
    PROVE  id[r][p] <= u
  <1> DEFINE label(q) == id[owner[q]][q]
             C == {q \in Particle : q \in Mediator(owner[q]) /\ label(q) = id[r][p]}
  <1>1. GraphOK /\ TypeOK /\ Particle \subseteq Nat
    BY GraphFacts DEF IInv, TypeOK
  <1>2. \A s \in Rank : Mediator(s) \subseteq PtclCluster(s) /\ PtclCluster(s) \subseteq Particle
    BY <1>1, LocalNgbFacts DEF Mediator
  <1>3. \A s \in Rank, q \in Particle : id[s][q] \in Nat
    <2>1. \A s \in Rank, q \in Particle : id[s][q] \in Particle
      BY <1>1 DEF TypeOK
    <2> QED
      BY <1>1, <2>1
  \* Local neighbours have the same id.
  <1>4. ASSUME NEW s \in Rank, NEW q \in Mediator(s), NEW t \in LocalNgb(s)[q]
        PROVE  t \in Mediator(s) /\ id[s][t] = id[s][q]
    <2>1. t \in Mediator(s) /\ q \in LocalNgb(s)[t]
      BY <1>1, <1>2, <1>4, MediatorClosed, LocalNgbFacts
    <2>2. id[s][q] <= id[s][t] /\ id[s][t] <= id[s][q]
      BY <1>4, <2>1 DEF Agreed, BelowNgb
    <2> QED
      BY <1>2, <1>3, <1>4, <2>1, <2>2
  \* A copy has the id that the owner gives its particle.
  <1>5. ASSUME NEW s \in Rank, NEW q \in Outer(s)
        PROVE  id[s][q] = label(q) /\ q \in Mediator(owner[q])
    <2>1. PICK t \in Own(s) : q \in ngb[t] /\ q \notin Own(s)
      BY <1>5 DEF Outer
    <2>2. /\ t \in Particle /\ q \in Particle /\ owner[t] = s /\ owner[q] \in Rank /\ owner[q] # s
          /\ t \in ngb[q]
      BY <1>1, <2>1, GraphFacts DEF Own
    <2>3. t \in Outer(owner[q])
      BY <2>2 DEF Outer, Own
    <2>4. q \in LocalNgb(owner[q])[t] /\ t \in LocalNgb(s)[q]
      BY <2>1, <2>2 DEF LocalNgb, Own
    <2>5. q \in Mediator(s) /\ t \in Mediator(owner[q]) /\ q \in Mediator(owner[q])
      BY <1>1, <1>5, <2>2, <2>3, <2>4, MediatorClosed
    <2>6. id[s][t] = id[s][q] /\ id[owner[q]][q] = id[owner[q]][t]
      BY <1>4, <2>2, <2>4, <2>5
    <2>7. id[s][q] <= id[owner[q]][q] /\ id[owner[q]][t] <= id[s][t]
      BY <1>5, <2>2, <2>3 DEF Agreed
    <2> QED
      BY <1>3, <2>2, <2>5, <2>6, <2>7
  <1>6. p \in C
    <2>1. p \in Particle
      BY <1>2
    <2>2. CASE owner[p] = r
      BY <2>1, <2>2
    <2>3. CASE owner[p] # r
      <3>1. p \in Outer(r)
        BY <1>2, <2>3 DEF PtclCluster, SelfNode, Own
      <3> QED
        BY <1>5, <2>1, <3>1
    <2> QED
      BY <2>2, <2>3
  <1>7. Closed(C, ngb)
    <2>1. SUFFICES ASSUME NEW q \in C, NEW t \in ngb[q]
                   PROVE  t \in C
      BY DEF Closed
    <2>2. /\ q \in Particle /\ t \in Particle /\ owner[q] \in Rank /\ owner[t] \in Rank
          /\ q \in Mediator(owner[q]) /\ label(q) = id[r][p] /\ q \in ngb[t]
      BY <1>1, <2>1, GraphFacts
    <2>3. t \in LocalNgb(owner[q])[q]
      BY <2>1, <2>2 DEF LocalNgb
    <2>4. t \in Mediator(owner[q]) /\ id[owner[q]][t] = label(q)
      BY <1>4, <2>2, <2>3
    <2>5. CASE owner[t] = owner[q]
      BY <2>2, <2>4, <2>5
    <2>6. CASE owner[t] # owner[q]
      <3>1. t \in Outer(owner[q])
        BY <2>1, <2>2, <2>6 DEF Outer, Own
      <3> QED
        BY <1>5, <2>2, <2>4, <3>1
    <2> QED
      BY <2>5, <2>6
  <1>8. u \in C
    <2>1. p \in Particle /\ C \in SUBSET Particle
      BY <1>2
    <2> HIDE DEF C
    <2> QED
      BY <1>6, <1>7, <2>1, ReachedByLeast DEF ClusterOf
  <1>9. label(u) <= u /\ label(u) = id[r][p]
    BY <1>1, <1>8, GraphFacts DEF IInv, NotAboveOwnId
  <1> QED
    BY <1>9

\* The invariant implies that a rank leaves the rounds with the clusters.
LEMMA IInvIdsAreClusters == IInv => IdsAreClusters
  <1> SUFFICES ASSUME IInv, NEW r \in Rank, pc[r] = "done", NEW p \in Mediator(r)
               PROVE  IsLowest(id[r][p], ClusterOf(p))
    BY DEF IdsAreClusters
  <1>1. \A s \in Rank : Agreed(s)
    BY DEF IInv, DoneInv
  <1>2. \A u \in ClusterOf(p) : id[r][p] <= u
    BY <1>1, AgreementIsGlobal
  <1>3. p \in Particle
    BY LocalNgbFacts DEF IInv, TypeOK, Mediator
  <1>4. id[r][p] \in ClusterOf(p)
    BY <1>3 DEF IInv, IdsStayInCluster
  <1> QED
    BY <1>2, <1>4 DEF IsLowest

\* Every reachable state satisfies the invariant.
LEMMA SpecIInv == Spec => []IInv
  <1>1. Init => IInv
    BY InitIInv
  <1>2. IInv /\ [Next]_vars => IInv'
    BY StepIInv
  <1> QED
    BY <1>1, <1>2, PTL DEF Spec

\* The variables have their types.
THEOREM SpecTypeOK == Spec => []TypeOK
  <1>1. IInv => TypeOK
    BY DEF IInv
  <1> QED
    BY <1>1, SpecIInv, PTL

\* setIdClusterGlobalIteration computes the connected components: when a rank
\* leaves the rounds, every entry has the lowest id of its cluster.
THEOREM SpecIdsAreClusters == Spec => []IdsAreClusters
  <1> QED
    BY SpecIInv, IInvIdsAreClusters, PTL

\* Ids of different clusters never meet.
THEOREM SpecIdsStayInCluster == Spec => []IdsStayInCluster
  <1>1. IInv => IdsStayInCluster
    BY DEF IInv
  <1> QED
    BY <1>1, SpecIInv, PTL

\* The send buffer is packed only when its last messages have been received.
THEOREM SpecBufferNotReused == Spec => []BufferNotReused
  <1>1. IInv => BufferNotReused
    BY DEF IInv, PhaseInv, InRound, BufferNotReused
  <1> QED
    BY <1>1, SpecIInv, PTL

\* The local search is complete for clusters it calls isolated: a cluster in
\* which it met no outer copy is a cluster of the whole system.
THEOREM IsolatedIsWhole ==
    ASSUME GraphOK, NEW r \in Rank, NEW p \in SelfNode(r), Isolated(r, p)
    PROVE  LocalCluster(r, p) = ClusterOf(p)
  <1> DEFINE L == LocalCluster(r, p)
  <1>1. /\ ngb \in [Particle -> SUBSET Particle] /\ p \in Particle /\ L \subseteq Particle /\ p \in L
    BY GraphFacts DEF SelfNode, Own, LocalCluster, ReachedBy
  <1>2. PtclCluster(r) \subseteq Particle
    BY LocalNgbFacts
  <1>3. L \subseteq PtclCluster(r)
    <2>1. Closed(PtclCluster(r), LocalNgb(r))
      BY LocalNgbFacts DEF Closed
    <2>2. p \in PtclCluster(r)
      BY DEF PtclCluster
    <2> QED
      BY <1>1, <1>2, <2>1, <2>2, ReachedByLeast DEF LocalCluster
  <1>4. \A q \in L : q \in Own(r)
    BY <1>3 DEF Isolated, PtclCluster, SelfNode
  <1>5. \A q \in L : LocalNgb(r)[q] = ngb[q]
    BY <1>1, <1>4 DEF LocalNgb, Own
  <1>6. Closed(L, ngb)
    <2>1. SUFFICES ASSUME NEW q \in L, NEW t \in ngb[q] PROVE t \in L
      BY DEF Closed
    <2>2. q \in Particle /\ t \in Particle /\ t \in LocalNgb(r)[q]
      BY <1>1, <1>5, <2>1
    <2>3. t \in ReachedBy(q, LocalNgb(r))
      BY <2>2, ReachedByStep
    <2> QED
      BY <1>1, <2>3, ReachedByTransitive DEF LocalCluster
  <1>7. ClusterOf(p) \subseteq L
    BY <1>1, <1>6, ReachedByLeast DEF ClusterOf
  <1>8. L \subseteq ClusterOf(p)
    <2>1. Closed(ClusterOf(p), LocalNgb(r))
      <3>1. SUFFICES ASSUME NEW q \in ClusterOf(p), NEW t \in LocalNgb(r)[q] PROVE t \in ClusterOf(p)
        BY DEF Closed
      <3>2. q \in Particle /\ t \in ngb[q] /\ t \in Particle
        BY <1>1, <3>1 DEF ClusterOf, ReachedBy, LocalNgb
      <3>3. t \in ReachedBy(q, ngb)
        BY <3>2, ReachedByStep
      <3> QED
        BY <1>1, <3>1, <3>3, ReachedByTransitive DEF ClusterOf
    <2>2. p \in ClusterOf(p) /\ ClusterOf(p) \in SUBSET Particle
      BY <1>1 DEF ClusterOf, ReachedBy
    <2> QED
      BY <1>1, <2>1, <2>2, ReachedByLeast DEF LocalCluster
  <1> QED
    BY <1>7, <1>8

-----------------------------------------------------------------------------
(* Counting the tasks of a plan *)

Last == Len(plan)
PlanOK ==
    /\ Last \in Nat /\ Last >= 4
    /\ plan[1] = "exchange" /\ plan[2] = "groups" /\ plan[3] = "kick"
    /\ \A i \in 3..Last : plan[i] \in {"kick", "output", "drift", "return"}
    /\ plan[Last] \in {"output", "return"}
    /\ \A i \in 3..Last : /\ plan[i] = "return" => i = Last
                          /\ plan[i] = "drift" <=> i = Last - 1 /\ plan[Last] = "return"

\* The tasks of S that come before place i
Count(S, i) == Cardinality({j \in 1..i - 1 : plan[j] \in S})

LEMMA CountStep ==
    ASSUME NEW S, NEW i \in Nat \ {0}
    PROVE  /\ Count(S, i) \in Nat
           /\ Count(S, i + 1) = Count(S, i) + (IF plan[i] \in S THEN 1 ELSE 0)
<1> DEFINE T == {j \in 1..i - 1 : plan[j] \in S}
           U == {j \in 1..i : plan[j] \in S}
<1>1. IsFiniteSet(T)
  <2>1. IsFiniteSet(1..i - 1)
    BY FS_Interval
  <2> QED
    BY <2>1, FS_Subset
<1>2. Cardinality(T) \in Nat
    BY <1>1, FS_CardinalityType
<1>5. Count(S, i) = Cardinality(T) /\ Count(S, i + 1) = Cardinality(U)
  <2>1. i + 1 - 1 = i
    OBVIOUS
  <2> QED
    BY <2>1 DEF Count
<1> HIDE DEF U
<1>3. CASE plan[i] \in S
  <2>1. U = T \cup {i} /\ i \notin T
    BY <1>3 DEF U
  <2>2. Cardinality(U) = Cardinality(T) + 1
    BY <1>1, <2>1, FS_AddElement
  <2> QED
    BY <1>2, <1>3, <1>5, <2>2
<1>4. CASE plan[i] \notin S
  <2>1. U = T
    BY <1>4 DEF U
  <2> QED
    BY <1>2, <1>4, <1>5, <2>1
<1> QED
    BY <1>3, <1>4

LEMMA CountMonotonic ==
    ASSUME NEW S, NEW i \in Nat \ {0}, NEW j \in Nat \ {0}, i <= j
    PROVE  /\ Count(S, i) \in Nat /\ Count(S, j) \in Nat
           /\ Count(S, i) <= Count(S, j)
           /\ i < j /\ plan[i] \in S => Count(S, i) < Count(S, j)
<1>1. ASSUME NEW a \in Nat \ {0}, NEW b \in Nat \ {0}, a <= b
      PROVE  Count(S, a) \in Nat /\ Count(S, b) \in Nat /\ Count(S, a) <= Count(S, b)
  <2> DEFINE T == {k \in 1..a - 1 : plan[k] \in S}
             U == {k \in 1..b - 1 : plan[k] \in S}
  <2>1. T \subseteq U
    BY <1>1
  <2>2. IsFiniteSet(U)
    <3>1. IsFiniteSet(1..b - 1)
      BY FS_Interval
    <3> QED
      BY <3>1, FS_Subset
  <2>3. Cardinality(T) <= Cardinality(U)
    BY <2>1, <2>2, FS_Subset
  <2>4. Count(S, a) \in Nat /\ Count(S, b) \in Nat
    BY CountStep
  <2> QED
    BY <2>3, <2>4 DEF Count
<1>2. CASE i < j
  <2>1. Count(S, i + 1) <= Count(S, j)
    BY <1>1, <1>2
  <2>2. Count(S, i + 1) = Count(S, i) + (IF plan[i] \in S THEN 1 ELSE 0)
    BY CountStep
  <2>3. Count(S, i) \in Nat /\ Count(S, j) \in Nat /\ Count(S, i) <= Count(S, j)
    BY <1>1
  <2> QED
    BY <2>1, <2>2, <2>3
<1>3. CASE i = j
    BY <1>1, <1>3
<1> QED
    BY <1>2, <1>3

-----------------------------------------------------------------------------
(* Who gets which star *)

\* The exchange counts as the search does.
LEMMA SameCardinality == \A S : Exchange!Cardinality(S) = Cardinality(S)
BY DEF Exchange!Cardinality, Cardinality

\* A set of numbers has a least one.
LEMMA LeastNat ==
    ASSUME NEW S, S \subseteq Nat, S # {}
    PROVE  \E m \in S : \A x \in S : m <= x
<1>1. PICK m \in S : \A y \in S : ~(<<y, m>> \in OpToRel(<, Nat))
  <2> DEFINE R == OpToRel(<, Nat)
  <2>1. IsWellFoundedOn(R, Nat)
    BY NatLessThanWellFounded
  <2> HIDE DEF R
  <2>2. \E x \in S : \A y \in S : ~(<<y, x>> \in R)
    BY <2>1, WFMin
  <2> QED
    BY <2>2 DEF R
<1>2. \A y \in S : ~ (y < m)
  <2> SUFFICES ASSUME NEW y \in S, y < m PROVE FALSE
    OBVIOUS
  <2>1. <<y, m>> \in OpToRel(<, Nat)
    BY DEF OpToRel
  <2> QED
    BY <1>1, <2>1
<1> QED
    BY <1>2

\* The stars of clusters that span ranks: those the exchange is about.
Shared == {p \in Particle : p \in Mediator(owner[p])}
\* The rank that integrates a star
HardRank(p) == Exchange!RankOf(owner[p], id_cluster[p])
\* What rank s sends to (or keeps as) rank r, and all that r integrates
DealtTo(s, r) == {p \in Shared : owner[p] = s /\ HardRank(p) = r}
Given(r) == {p \in Shared : HardRank(p) = r}

\* What the search leaves to the exchange
DealOK ==
    /\ GraphOK
    /\ mediator = [r \in Rank |-> Mediator(r)]
    /\ \A p \in Shared : IsLowest(id_cluster[p], ClusterOf(p))

\* The exchange sees the graph of the search.
LEMMA SameGraph ==
    /\ \A r \in Rank : Exchange!Mediator(r) = Mediator(r) /\ Exchange!Own(r) = Own(r)
    /\ \A r \in Rank : Exchange!IsolatedClusters(r) = IsolatedClusters(r)
    /\ \A p \in Particle : Exchange!ClusterOf(p) = ClusterOf(p) /\ (Exchange!Single(p) <=> Single(p))
BY DEF Exchange!Mediator, Exchange!Own, Exchange!IsolatedClusters, Exchange!ClusterOf,
       Exchange!Single, Exchange!PtclCluster, Exchange!SelfNode, Exchange!Outer,
       Exchange!Isolated, Exchange!LocalCluster, Exchange!LocalNgb, Exchange!ReachedBy,
       Exchange!Closed,
       Mediator, Own, IsolatedClusters, ClusterOf, Single, PtclCluster, SelfNode, Outer,
       Isolated, LocalCluster, LocalNgb, ReachedBy, Closed

\* In a symmetric relation what is reached reaches back.
LEMMA ReachedBack ==
    ASSUME NEW n, NEW D \in SUBSET Particle,
           \A x \in D : n[x] \subseteq D /\ \A y \in n[x] : x \in n[y],
           NEW p \in D, NEW q \in ReachedBy(p, n)
    PROVE  q \in D /\ p \in ReachedBy(q, n) /\ ReachedBy(q, n) = ReachedBy(p, n)
<1> DEFINE C == {x \in D : p \in ReachedBy(x, n)}
<1>1. p \in C
    BY DEF ReachedBy
<1>2. Closed(C, n)
  <2> SUFFICES ASSUME NEW x \in C, NEW y \in n[x] PROVE y \in C
    BY DEF Closed
  <2>1. y \in D /\ x \in n[y]
    OBVIOUS
  <2>2. x \in ReachedBy(y, n)
    BY <2>1, ReachedByStep
  <2>3. ReachedBy(x, n) \subseteq ReachedBy(y, n)
    BY <2>1, <2>2, ReachedByTransitive
  <2> QED
    BY <2>1, <2>3
<1>3. C \in SUBSET Particle
    OBVIOUS
<1>4. ReachedBy(p, n) \subseteq C
    BY <1>1, <1>2, <1>3, ReachedByLeast
<1>5. q \in C
    BY <1>4
<1> QED
    BY <1>5, ReachedByTransitive

\* Clusters are classes.
LEMMA ClusterOfMember ==
    ASSUME GraphOK, NEW p \in Particle, NEW q \in ClusterOf(p)
    PROVE  q \in Particle /\ ClusterOf(q) = ClusterOf(p)
BY ReachedBack, GraphFacts DEF ClusterOf

LEMMA LocalClusterMember ==
    ASSUME GraphOK, NEW r \in Rank, NEW p \in PtclCluster(r), NEW q \in LocalCluster(r, p)
    PROVE  q \in PtclCluster(r) /\ LocalCluster(r, q) = LocalCluster(r, p)
<1>1. \A x \in PtclCluster(r) : /\ x \in Particle
                                /\ LocalNgb(r)[x] \subseteq PtclCluster(r)
                                /\ \A y \in LocalNgb(r)[x] : x \in LocalNgb(r)[y]
    BY LocalNgbFacts
<1>2. PtclCluster(r) \in SUBSET Particle
    BY <1>1
<1> QED
    BY <1>1, <1>2, ReachedBack DEF LocalCluster

\* A star in the mediator list of any rank is in that of its own rank.
LEMMA MediatorShared ==
    ASSUME GraphOK, NEW r \in Rank, NEW p \in Mediator(r)
    PROVE  p \in Shared
<1>1. p \in PtclCluster(r) /\ p \in Particle /\ ~Isolated(r, p)
    BY LocalNgbFacts DEF Mediator
<1>2. CASE p \in Own(r)
    BY <1>1, <1>2 DEF Shared, Own
<1>3. CASE p \in Outer(r)
  <2> DEFINE o == owner[p]
  <2>1. PICK q \in Own(r) : p \in ngb[q] /\ p \notin Own(r)
    BY <1>3 DEF Outer
  <2>2. q \in Particle /\ owner[q] = r /\ o # r /\ o \in Rank /\ q \in ngb[p]
    BY <1>1, <2>1, GraphFacts DEF Own
  <2>3. p \in PtclCluster(o)
    BY <1>1, <2>2 DEF PtclCluster, SelfNode, Own, Single
  <2>4. q \in Outer(o)
    BY <1>1, <2>2 DEF Outer, Own
  <2>5. q \in LocalNgb(o)[p]
    BY <1>1, <2>2 DEF LocalNgb
  <2>6. q \in LocalCluster(o, p)
    BY <1>1, <2>2, <2>5, ReachedByStep DEF LocalCluster
  <2>7. p \in Mediator(o)
    BY <2>3, <2>4, <2>6 DEF Mediator, Isolated
  <2> QED
    BY <1>1, <2>7 DEF Shared
<1> QED
    BY <1>1, <1>2, <1>3 DEF PtclCluster, SelfNode

\* A star that is not shared and has a neighbour is in an isolated cluster.
LEMMA NotShared ==
    ASSUME GraphOK, NEW p \in Particle, ~Single(p), p \notin Shared
    PROVE  /\ p \in SelfNode(owner[p]) /\ Isolated(owner[p], p)
           /\ LocalCluster(owner[p], p) = ClusterOf(p)
<1>1. p \in SelfNode(owner[p]) /\ owner[p] \in Rank
    BY GraphFacts DEF SelfNode, Own
<1>2. Isolated(owner[p], p)
    BY <1>1 DEF Shared, Mediator, PtclCluster
<1> QED
    BY <1>1, <1>2, IsolatedIsWhole

\* Whoever shares a cluster with a shared star is shared.
LEMMA SharedTogether ==
    ASSUME GraphOK, NEW p \in Shared, NEW q \in ClusterOf(p)
    PROVE  q \in Shared /\ ClusterOf(q) = ClusterOf(p)
<1>1. p \in Particle /\ q \in Particle /\ ClusterOf(q) = ClusterOf(p)
    BY ClusterOfMember DEF Shared
<1>2. p \in ClusterOf(q)
    BY <1>1, ReachedByTransitive DEF ClusterOf
<1> SUFFICES ASSUME q \notin Shared PROVE FALSE
    BY <1>1
<1>3. ~Single(q)
  <2> SUFFICES ASSUME Single(q) PROVE FALSE
    OBVIOUS
  <2>1. Closed({q}, ngb)
    BY DEF Closed, Single
  <2>2. ClusterOf(q) \subseteq {q}
    BY <1>1, <2>1, ReachedByLeast DEF ClusterOf
  <2>3. p = q
    BY <1>2, <2>2
  <2> QED
    BY <2>3
<1> DEFINE o == owner[q]
<1>4. q \in SelfNode(o) /\ Isolated(o, q) /\ LocalCluster(o, q) = ClusterOf(q) /\ o \in Rank
    BY <1>1, <1>3, NotShared, GraphFacts
<1>5. q \in PtclCluster(o)
    BY <1>4 DEF PtclCluster
<1>6. p \in LocalCluster(o, q)
    BY <1>2, <1>4
<1>7. p \in PtclCluster(o) /\ LocalCluster(o, p) = LocalCluster(o, q)
    BY <1>4, <1>5, <1>6, LocalClusterMember
<1>8. p \notin Outer(o) /\ Isolated(o, p)
    BY <1>4, <1>6, <1>7 DEF Isolated
<1>9. owner[p] = o
    BY <1>7, <1>8 DEF PtclCluster, SelfNode, Own
<1> QED
    BY <1>8, <1>9 DEF Shared, Mediator

\* Shared stars of one cluster have one id.
LEMMA SharedId ==
    ASSUME DealOK, NEW p \in Shared, NEW q \in ClusterOf(p)
    PROVE  id_cluster[q] = id_cluster[p] /\ id_cluster[p] \in Particle
<1>1. q \in Shared /\ ClusterOf(q) = ClusterOf(p) /\ p \in Particle
    BY SharedTogether DEF DealOK, Shared
<1>2. IsLowest(id_cluster[p], ClusterOf(p)) /\ IsLowest(id_cluster[q], ClusterOf(p))
    BY <1>1 DEF DealOK
<1>3. ClusterOf(p) \subseteq Particle /\ Particle \subseteq Nat
    BY ClusterGraphAssumption DEF ClusterOf, ReachedBy
<1>4. ASSUME NEW v \in ClusterOf(p), NEW w \in ClusterOf(p), v <= w, w <= v PROVE v = w
  <2>1. v \in Nat /\ w \in Nat
    BY <1>3
  <2> QED
    BY <1>4, <2>1
<1>5. id_cluster[p] \in ClusterOf(p) /\ id_cluster[q] \in ClusterOf(p)
    BY <1>1, <1>2 DEF IsLowest
<1>6. id_cluster[p] <= id_cluster[q] /\ id_cluster[q] <= id_cluster[p]
    BY <1>1, <1>2, <1>5 DEF IsLowest
<1> QED
    BY <1>3, <1>4, <1>5, <1>6

LEMMA OwnShared ==
    ASSUME DealOK, NEW r \in Rank
    PROVE  mediator[r] \cap Own(r) = {p \in Shared : owner[p] = r}
<1>1. mediator[r] = Mediator(r)
    BY DEF DealOK
<1> QED
    BY <1>1 DEF Shared, Own

LEMMA StoredIs ==
    ASSUME DealOK, NEW r \in Rank, NEW c
    PROVE  Exchange!Stored(r, c) = {p \in Shared : owner[p] = r /\ id_cluster[p] = c}
<1>1. Exchange!Stored(r, c) = {p \in mediator[r] \cap Own(r) : id_cluster[p] = c}
    BY SameGraph DEF Exchange!Stored
<1> QED
    BY <1>1, OwnShared

\* Some rank with the most of a cluster, and the lowest of those, exists.
LEMMA RankOfHolder ==
    ASSUME DealOK, NEW r, NEW c, Exchange!Holders(c) # {}
    PROVE  Exchange!RankOf(r, c) \in Exchange!Holders(c)
<1> DEFINE H == Exchange!Holders(c)
           N(s) == Exchange!NStored(s, c)
           most == Cardinality(Particle)
<1>1. H \subseteq Rank /\ Rank \subseteq Nat
    BY ClusterGraphAssumption DEF Exchange!Holders
<1>2. ASSUME NEW s \in H PROVE N(s) \in Nat /\ most \in Nat /\ N(s) <= most
  <2> DEFINE St == Exchange!Stored(s, c)
  <2>0. s \in Rank
    BY <1>1, <1>2
  <2>1. St \subseteq Particle
    BY <2>0, StoredIs DEF Shared
  <2>2. IsFiniteSet(Particle)
    BY ClusterGraphAssumption
  <2>3. N(s) = Cardinality(St)
    BY SameCardinality DEF Exchange!NStored
  <2> HIDE DEF N, St
  <2>4. IsFiniteSet(St) /\ Cardinality(St) <= most
    BY <2>1, <2>2, FS_Subset
  <2> QED
    BY <2>2, <2>3, <2>4, FS_CardinalityType
<1> HIDE DEF N, H
<1> DEFINE Less == {most - N(s) : s \in H}
<1>3. Less \subseteq Nat /\ Less # {}
    BY <1>2 DEF H
<1>4. PICK m \in Less : \A x \in Less : m <= x
    BY <1>3, LeastNat
<1> DEFINE W == {s \in H : most - N(s) = m}
<1>5. W \subseteq Nat /\ W # {}
    BY <1>1, <1>4
<1>6. PICK w \in W : \A x \in W : w <= x
    BY <1>5, LeastNat
<1>7. ASSUME NEW t \in H \ {w}
      PROVE  N(t) < N(w) \/ (N(t) = N(w) /\ w < t)
  <2>1. m <= most - N(t) /\ m = most - N(w)
    BY <1>4, <1>6
  <2>2. N(t) \in Nat /\ N(w) \in Nat /\ most \in Nat /\ t \in Nat /\ w \in Nat
    BY <1>1, <1>2, <1>6
  <2>3. CASE N(t) = N(w)
    <3>1. t \in W
      BY <2>1, <2>3
    <3>2. w <= t /\ w # t
      BY <1>6, <3>1
    <3> QED
      BY <2>2, <2>3, <3>2
  <2> QED
    BY <2>1, <2>2, <2>3
<1>8. w \in H
    BY <1>6
<1>9. \E s \in H : \A t \in H \ {s} : N(t) < N(s) \/ (N(t) = N(s) /\ s < t)
    BY <1>7, <1>8
<1>10. Exchange!RankOf(r, c) =
          CHOOSE s \in H : \A t \in H \ {s} : N(t) < N(s) \/ (N(t) = N(s) /\ s < t)
    BY DEF Exchange!RankOf, H, N
<1> QED
    BY <1>9, <1>10 DEF H

\* A shared star is integrated by one of the ranks, one that has its cluster.
LEMMA HardRankFacts ==
    ASSUME DealOK, NEW p \in Shared
    PROVE  /\ p \in Particle /\ owner[p] \in Rank /\ HardRank(p) \in Rank
           /\ id_cluster[p] \in Exchange!ClusterLoc(owner[p])
           /\ id_cluster[p] \in Exchange!ClusterLoc(HardRank(p))
<1>1. p \in Particle /\ owner[p] \in Rank
    BY GraphFacts DEF DealOK, Shared
<1>2. p \in mediator[owner[p]]
    BY <1>1 DEF DealOK, Shared
<1>3. id_cluster[p] \in Exchange!ClusterLoc(owner[p])
    BY <1>2 DEF Exchange!ClusterLoc
<1>4. owner[p] \in Exchange!Holders(id_cluster[p])
    BY <1>1, <1>3 DEF Exchange!Holders
<1>5. HardRank(p) \in Exchange!Holders(id_cluster[p])
    BY <1>4, RankOfHolder DEF HardRank
<1> QED
    BY <1>1, <1>3, <1>5 DEF Exchange!Holders

\* sendAndRecvCluster: what is sent is what room was made for.
LEMMA DealtIs ==
    ASSUME DealOK, NEW r \in Rank, NEW s \in Rank
    PROVE  Exchange!Dealt(s, r) = DealtTo(s, r) /\ Exchange!RoomFor(r, s) = DealtTo(s, r)
<1>1. \A c : Exchange!Stored(s, c) = {p \in Shared : owner[p] = s /\ id_cluster[p] = c}
    BY StoredIs
<1>2. \A p \in Shared : owner[p] = s =>
          Exchange!RankOf(s, id_cluster[p]) = HardRank(p) /\ Exchange!RankOf(r, id_cluster[p]) = HardRank(p)
    BY DEF HardRank, Exchange!RankOf
<1>3. \A p \in Shared : id_cluster[p] \in Exchange!ClusterLoc(owner[p])
                        /\ id_cluster[p] \in Exchange!ClusterLoc(HardRank(p))
    BY HardRankFacts
<1>4. Exchange!Dealt(s, r) = DealtTo(s, r)
    BY <1>1, <1>2, <1>3 DEF Exchange!Dealt, DealtTo
<1>5. Exchange!RoomFor(r, s) = DealtTo(s, r)
    BY <1>1, <1>2, <1>3 DEF Exchange!RoomFor, DealtTo
<1> QED
    BY <1>4, <1>5

-----------------------------------------------------------------------------
(* What holds between the steps of the exchange *)

NewStar == Exchange!NewStar
Kinds == {"single", "cm", "bare"}
Star == [kind : Kinds, mass : Int, backup : Int, kicks : Nat, drifts : Nat]

\* A star of a kind after k kicks: a member gets its mass back with the first.
Rec(kind, k) ==
    [kind |-> kind, mass |-> IF kind = "cm" /\ k = 0 THEN 0 ELSE 1,
     backup |-> IF kind = "single" THEN 0 ELSE 1, kicks |-> k, drifts |-> 0]
\* What a star weighs once it has its mass back
Kept(star) == IF star.kind = "single" THEN star.mass ELSE star.backup

Kicks(i) == Count({"kick"}, i)
\* The first task a rank has not posted
Reached(r) == IF half[r] = "post" THEN step[r] ELSE step[r] + 1
Drifted(r) == plan[Last] = "return" /\ Reached(r) >= Last
\* Its own copies are back, and all its stars
SentBack(r) == plan[Last] = "return" /\ Reached(r) = Last + 1
AllBack(r) == plan[Last] = "return" /\ step[r] = Last + 1

StepOK ==
    /\ step \in [Rank -> 1..Last + 1]
    /\ half \in [Rank -> {"post", "wait"}]
    /\ \A r \in Rank : half[r] = "wait" => step[r] <= Last

\* The tasks with a message on the channels of a tag, whether a channel is used,
\* and the stars it carries
TasksOf(tag) ==
    IF tag = "cluster" THEN {"exchange"}
    ELSE IF tag = "single" THEN {"kick"} ELSE {"groups", "output", "return"}
Carried(m) == IF m[3] = "back" THEN DealtTo(m[2], m[1]) ELSE DealtTo(m[1], m[2])
Used(m) == m[1] # m[2] /\ Carried(m) # {}

\* The message for task i on channel m, if K are the kinds of the stars
Content(K, m, i, d) ==
    \A p \in Carried(m) :
        /\ plan[i] = "exchange" => d[p] = NewStar
        /\ plan[i] = "groups" => d[p] = Rec(K[p], 0)
        /\ plan[i] = "kick" /\ K[p] # "cm" => d[p] = Rec(K[p], Kicks(i + 1))
        /\ plan[i] = "kick" /\ K[p] = "cm" => d[p].kind = "cm"
        /\ plan[i] = "output" => d[p] = Rec(K[p], Kicks(i))
        /\ plan[i] = "return" => d[p] = hard[m[1]][p]

\* On channel m are the messages of the tasks the sender has posted and the
\* receiver has not finished, in their order.
SentOn(m) == Count(TasksOf(m[3]), Reached(m[1]))
ReadOn(m) == Count(TasksOf(m[3]), step[m[2]])
NetAt(K, m) ==
    /\ net[m] \in Seq([Carried(m) -> Star])
    /\ ~Used(m) => net[m] = <<>>
    /\ Used(m) =>
          /\ Len(net[m]) = SentOn(m) - ReadOn(m)
          /\ \A i \in Nat \ {0}, d \in [Carried(m) -> Star] :
                /\ step[m[2]] <= i /\ i < Reached(m[1]) /\ plan[i] \in TasksOf(m[3])
                /\ d = net[m][Count(TasksOf(m[3]), i) - ReadOn(m) + 1]
                => Content(K, m, i, d)
NetOK(K) ==
    /\ net = [m \in Exchange!Channel |-> net[m]]
    /\ \A m \in Exchange!Channel : NetAt(K, m)

DealtOK ==
    /\ stars = [r \in Rank |-> [s \in Rank |-> IF Reached(r) > 1 THEN DealtTo(r, s) ELSE {}]]
    /\ room = [r \in Rank |-> [s \in Rank |-> IF Reached(r) > 1 THEN DealtTo(s, r) ELSE {}]]

\* The stars of a rank that others integrate
Away(r) == {p \in Shared : owner[p] = r /\ HardRank(p) # r}

HardOK(K, r) ==
    step[r] > 1 =>
       /\ hard[r] \in [Given(r) -> Star]
       /\ \A p \in Given(r) :
             /\ Reached(r) = 2 => hard[r][p] = NewStar
             /\ Reached(r) > 2 /\ ~Drifted(r) =>
                   hard[r][p] = Rec(K[p], IF K[p] = "cm" \/ owner[p] = r THEN Kicks(Reached(r))
                                          ELSE Kicks(step[r]))
             /\ Drifted(r) => /\ hard[r][p].kind = "single" /\ hard[r][p].drifts = 1
                              /\ hard[r][p].kicks = Kicks(Last)

\* The stars that a rank integrates itself, in system_soft
LocalOK(K, r) ==
    \A p \in DealtTo(r, r) :
        /\ Reached(r) <= 2 => sys[p] = NewStar
        /\ Reached(r) > 2 /\ ~SentBack(r) => sys[p].kind = K[p] /\ Kept(sys[p]) = 1
        /\ Reached(r) > 2 /\ plan[Reached(r) - 1] = "output" =>
              sys[p] = Rec(K[p], Kicks(Reached(r))) /\ dm[p] = 0
        /\ SentBack(r) => sys[p] = hard[r][p] /\ dm[p] = sys[p].mass - 1

\* The stars that others integrate, in system_soft and in ptcl_send_
AwayOK(K, r) ==
    /\ Reached(r) > 1 => send[r] \in [Away(r) -> Star]
    /\ \A p \in Away(r) :
        /\ step[r] <= 2 => sys[p] = NewStar
        /\ step[r] <= 2 /\ Reached(r) > 1 => send[r][p] = NewStar
        /\ step[r] > 2 /\ ~AllBack(r) /\ K[p] # "cm" =>
              sys[p] = Rec(K[p], Kicks(Reached(r))) /\ send[r][p] = sys[p]
        /\ step[r] > 2 /\ ~AllBack(r) /\ K[p] = "cm" =>
              sys[p].kind = "cm" /\ Kept(sys[p]) = 1 /\ send[r][p].kind = "cm"
        /\ step[r] > 2 /\ half[r] = "post" /\ plan[step[r] - 1] = "output" =>
              sys[p] = Rec(K[p], Kicks(step[r])) /\ dm[p] = 0
        /\ AllBack(r) => /\ dm[p] = sys[p].mass - 1
                         /\ \E h \in Rank : h = HardRank(p) /\ SentBack(h) /\ sys[p] = hard[h][p]

ListOK(r) ==
    /\ step[r] > 2 /\ ~SentBack(r) => mass_modify_list[r] = {}
    /\ SentBack(r) /\ ~AllBack(r) =>
          mass_modify_list[r] = {p \in DealtTo(r, r) : hard[r][p].mass # 1}
    /\ AllBack(r) => mass_modify_list[r] = {p \in Own(r) : sys[p].mass # 1}

TypesOK ==
    /\ sys \in [Particle -> Star] /\ dm \in [Particle -> Int]
    /\ hard = [r \in Rank |-> hard[r]] /\ send = [r \in Rank |-> send[r]]
    /\ mass_modify_list = [r \in Rank |-> mass_modify_list[r]]
    /\ \A p \in Particle \ Shared : sys[p] = NewStar

ExchangeOK(K) ==
    /\ K \in [Particle -> Kinds]
    /\ StepOK /\ TypesOK /\ DealtOK /\ NetOK(K)
    /\ \A r \in Rank : HardOK(K, r) /\ LocalOK(K, r) /\ AwayOK(K, r) /\ ListOK(r)

-----------------------------------------------------------------------------
(* What a step leaves alone *)

Static == UNCHANGED <<graph, plan, id_cluster, mediator>>

LEMMA StaticSame ==
    ASSUME Static
    PROVE  /\ DealOK' = DealOK /\ PlanOK' = PlanOK /\ Last' = Last
           /\ \A S, i : Count(S, i)' = Count(S, i)
           /\ \A i : Kicks(i)' = Kicks(i)
           /\ Shared' = Shared
           /\ \A r : Own(r)' = Own(r) /\ Given(r)' = Given(r) /\ Away(r)' = Away(r)
           /\ \A r, s : DealtTo(r, s)' = DealtTo(r, s)
           /\ \A p : HardRank(p)' = HardRank(p)
           /\ \A m : Carried(m)' = Carried(m) /\ Used(m)' = Used(m)
<1> USE DEF Static, graph
<1>1. /\ \A p : ClusterOf(p)' = ClusterOf(p)
      /\ \A r : Mediator(r)' = Mediator(r) /\ Own(r)' = Own(r)
      /\ GraphOK' = GraphOK
    BY DEF ClusterOf, Mediator, Own, GraphOK, ReachedBy, Closed, PtclCluster, Isolated, SelfNode,
           Outer, LocalCluster, LocalNgb, Single
<1>2. Last' = Last /\ PlanOK' = PlanOK /\ \A S, i : Count(S, i)' = Count(S, i)
    BY DEF PlanOK, Last, Count
<1>3. \A i : Kicks(i)' = Kicks(i)
    BY <1>2 DEF Kicks
<1>4. Shared' = Shared
    BY <1>1 DEF Shared
<1>5. DealOK' = DealOK
    BY <1>1, <1>4 DEF DealOK
<1>6. \A p : HardRank(p)' = HardRank(p)
    BY DEF HardRank, Exchange!RankOf, Exchange!Holders, Exchange!ClusterLoc, Exchange!NStored,
           Exchange!Stored, Exchange!Own
<1>7. /\ \A r : Given(r)' = Given(r) /\ Away(r)' = Away(r)
      /\ \A r, s : DealtTo(r, s)' = DealtTo(r, s)
    BY <1>4, <1>6 DEF Given, Away, DealtTo
<1>8. \A m : Carried(m)' = Carried(m) /\ Used(m)' = Used(m)
    BY <1>7 DEF Carried, Used
<1> QED
    BY <1>1, <1>2, <1>3, <1>4, <1>5, <1>6, <1>7, <1>8

\* A plan begins with a kick and ends with an output or a drift and a return.
LEMMA PlanFacts ==
    ASSUME PlanOK
    PROVE  /\ Last \in Nat /\ Last >= 4
           /\ \A i \in Nat \ {0} :
                 /\ Kicks(i) \in Nat
                 /\ Kicks(i + 1) = Kicks(i) + (IF plan[i] = "kick" THEN 1 ELSE 0)
           /\ Kicks(1) = 0 /\ Kicks(2) = 0 /\ Kicks(3) = 0
           /\ \A i \in Nat : i >= 4 => Kicks(i) > 0
           /\ \A tag \in Exchange!Tag : Count(TasksOf(tag), 1) = 0
           /\ Count(TasksOf("back"), 2) = 0
<1>1. Last \in Nat /\ Last >= 4 /\ plan[1] = "exchange" /\ plan[2] = "groups" /\ plan[3] = "kick"
    BY DEF PlanOK
<1>2. ASSUME NEW i \in Nat \ {0}
      PROVE  Kicks(i) \in Nat /\ Kicks(i + 1) = Kicks(i) + (IF plan[i] = "kick" THEN 1 ELSE 0)
    BY CountStep DEF Kicks
<1>3. \A S : Count(S, 1) = 0
  <2> TAKE S
  <2>1. {j \in 1..1 - 1 : plan[j] \in S} = {}
    OBVIOUS
  <2> QED
    BY <2>1, FS_EmptySet DEF Count
<1>4. \A S : Count(S, 1 + 1) = Count(S, 1) + (IF plan[1] \in S THEN 1 ELSE 0)
    BY CountStep
<1>5. Kicks(1) = 0 /\ Kicks(2) = 0 /\ Kicks(3) = 0 /\ Kicks(4) = 1
  <2>1. Kicks(1) = 0
    BY <1>3 DEF Kicks
  <2>2. Kicks(1 + 1) = 0 /\ Kicks(2 + 1) = Kicks(2) /\ Kicks(3 + 1) = Kicks(3) + 1
    BY <1>1, <1>2, <2>1
  <2> QED
    BY <1>2, <2>1, <2>2
<1>6. ASSUME NEW i \in Nat, i >= 4 PROVE Kicks(i) > 0
  <2>1. Count({"kick"}, 4) <= Count({"kick"}, i) /\ Count({"kick"}, i) \in Nat
    BY <1>6, CountMonotonic
  <2> QED
    BY <1>5, <2>1 DEF Kicks
<1>7. Count(TasksOf("back"), 2) = 0
    BY <1>1, <1>3, <1>4 DEF TasksOf
<1> QED
    BY <1>1, <1>2, <1>3, <1>5, <1>6, <1>7

\* Each task has its place.
LEMMA TaskAt ==
    ASSUME PlanOK, StepOK, NEW r \in Rank, NEW task, NEW h, Exchange!Doing(r, task, h)
    PROVE  /\ step[r] \in 1..Last /\ plan[step[r]] = task /\ half[r] = h
           /\ task = "exchange" <=> step[r] = 1
           /\ task = "groups" <=> step[r] = 2
           /\ task \in {"kick", "output", "drift", "return"} => step[r] >= 3
           /\ task \in {"kick", "drift"} => step[r] < Last
           /\ task = "kick" /\ plan[Last] = "return" => step[r] < Last - 1
           /\ task = "drift" => step[r] = Last - 1 /\ plan[Last] = "return" /\ step[r] > 3
           /\ task = "output" => step[r] > 3 /\ (plan[Last] = "return" => step[r] < Last - 1)
           /\ task = "return" => step[r] = Last /\ plan[Last] = "return"
<1>1. step[r] \in 1..Last /\ plan[step[r]] = task /\ half[r] = h
    BY DEF Exchange!Doing, StepOK, Last, PlanOK
<1>2. Last \in Nat /\ Last >= 4 /\ step[r] \in Nat
    BY <1>1 DEF PlanOK
<1>3. plan[1] = "exchange" /\ plan[2] = "groups" /\ plan[3] = "kick"
    BY DEF PlanOK
<1>4. CASE step[r] \in {1, 2}
    BY <1>1, <1>2, <1>3, <1>4
<1>5. CASE step[r] >= 3
  <2>1. /\ step[r] \in 3..Last /\ task \in {"kick", "output", "drift", "return"}
        /\ plan[Last] \in {"output", "return"}
        /\ task = "return" => step[r] = Last
        /\ task = "drift" <=> step[r] = Last - 1 /\ plan[Last] = "return"
    BY <1>1, <1>2, <1>5 DEF PlanOK
  <2> QED
    BY <1>1, <1>2, <1>3, <2>1
<1> QED
    BY <1>1, <1>2, <1>4, <1>5

-----------------------------------------------------------------------------
(* Messages *)

\* What a rank sent last stays with it.
Remains(s) == SentBack(s) => hard'[s] = hard[s]

LEMMA ReachedType ==
    ASSUME StepOK, PlanOK, NEW r \in Rank
    PROVE  /\ Last \in Nat /\ step[r] \in Nat \ {0} /\ Reached(r) \in Nat \ {0}
           /\ step[r] <= Reached(r) /\ Reached(r) <= step[r] + 1 /\ Reached(r) <= Last + 1
           /\ half[r] = "post" <=> Reached(r) = step[r]
<1>1. /\ step[r] \in 1..Last + 1 /\ half[r] \in {"post", "wait"} /\ Last \in Nat
      /\ half[r] = "wait" => step[r] <= Last
    BY DEF StepOK, PlanOK
<1> QED
    BY <1>1 DEF Reached

LEMMA ChannelIs ==
    ASSUME NEW m \in Exchange!Channel
    PROVE  /\ m[1] \in Rank /\ m[2] \in Rank /\ m[3] \in Exchange!Tag /\ m = <<m[1], m[2], m[3]>>
           /\ m[3] \in {"cluster", "single", "back"}
BY DEF Exchange!Channel, Exchange!Tag

LEMMA ContentFrame ==
    ASSUME StepOK, PlanOK, Static, NEW K, NEW m \in Exchange!Channel, NEW i \in Nat \ {0}, NEW d,
           Content(K, m, i, d), i < Reached(m[1]), Remains(m[1])
    PROVE  Content(K, m, i, d)'
<1>1. /\ Carried(m)' = Carried(m) /\ plan' = plan /\ \A j : Kicks(j)' = Kicks(j)
      /\ Exchange!NewStar' = Exchange!NewStar
    BY StaticSame DEF Static, Exchange!NewStar
<1>2. m[1] \in Rank
    BY ChannelIs
<1>3. i <= Last /\ i \in Nat /\ Last \in Nat
    BY <1>2, ReachedType
<1>4. plan[i] = "return" => i = Last /\ plan[Last] = "return"
  <2>1. CASE i >= 3
    BY <1>3, <2>1 DEF PlanOK
  <2>2. CASE i \in {1, 2}
    BY <2>2 DEF PlanOK
  <2> QED
    BY <1>3, <2>1, <2>2
<1>5. plan[i] = "return" => hard'[m[1]] = hard[m[1]]
  <2> SUFFICES ASSUME plan[i] = "return" PROVE hard'[m[1]] = hard[m[1]]
    OBVIOUS
  <2>1. Reached(m[1]) = Last + 1
    BY <1>2, <1>3, <1>4, ReachedType
  <2> QED
    BY <1>4, <2>1 DEF Remains, SentBack
<1> QED
    BY <1>1, <1>5 DEF Content, Rec

\* A receiver is never ahead of what was sent to it.
LEMMA NotAhead ==
    ASSUME StepOK, PlanOK, NEW K, NetOK(K), NEW m \in Exchange!Channel, Used(m)
    PROVE  /\ SentOn(m) \in Nat /\ ReadOn(m) \in Nat /\ ReadOn(m) <= SentOn(m)
           /\ Len(net[m]) \in Nat /\ Len(net[m]) = SentOn(m) - ReadOn(m)
<1>1. m[1] \in Rank /\ m[2] \in Rank
    BY ChannelIs
<1>2. SentOn(m) \in Nat /\ ReadOn(m) \in Nat
    BY <1>1, ReachedType, CountStep DEF SentOn, ReadOn
<1>3. net[m] \in Seq([Carried(m) -> Star]) /\ Len(net[m]) = SentOn(m) - ReadOn(m)
    BY DEF NetOK, NetAt
<1>4. Len(net[m]) \in Nat
    BY <1>3
<1> QED
    BY <1>2, <1>3, <1>4

\* The tasks of the tags are different ones.
LEMMA OtherTag ==
    ASSUME NEW t \in Exchange!Tag, NEW u \in Exchange!Tag, NEW x, x \in TasksOf(t), x \in TasksOf(u)
    PROVE  t = u
BY DEF Exchange!Tag, TasksOf

LEMMA PostNet ==
    ASSUME StepOK, PlanOK, Static, NEW K, NetOK(K), NEW r \in Rank, NEW tag \in Exchange!Tag,
           NEW k \in 1..Last, k = step[r], half[r] = "post", plan[k] \in TasksOf(tag),
           NEW to, NEW data, Exchange!Posted(r), Exchange!Post(r, tag, to, data),
           \A s \in Rank : Remains(s),
           \A s \in Rank \ {r} : s \in to <=> Carried(<<r, s, tag>>) # {},
           \A s \in Rank \ {r} : s \in to =>
              /\ data[s] \in [Carried(<<r, s, tag>>) -> Star]
              /\ \A d : d = data[s] => Content(K, <<r, s, tag>>, k, d)'
    PROVE  NetOK(K)'
<1>1. /\ plan' = plan /\ \A S, i : Count(S, i)' = Count(S, i)
      /\ \A m : Carried(m)' = Carried(m) /\ (Used(m)' <=> Used(m))
    BY StaticSame DEF Static
<1>2. /\ step' = step /\ half' = [half EXCEPT ![r] = "wait"] /\ half \in [Rank -> {"post", "wait"}]
    BY DEF Exchange!Posted, StepOK
<1>3. /\ Reached(r) = k /\ Reached(r)' = k + 1 /\ k \in Nat
      /\ \A s \in Rank \ {r} : Reached(s)' = Reached(s)
    BY <1>2 DEF Reached
<1>4. net' = [m \in Exchange!Channel |->
                 IF m[1] = r /\ m[2] \in to \ {r} /\ m[3] = tag
                 THEN Append(net[m], data[m[2]]) ELSE net[m]]
    BY DEF Exchange!Post
<1>5. net' = [m \in Exchange!Channel |-> net'[m]]
    BY <1>4
<1>6. ASSUME NEW m \in Exchange!Channel
      PROVE  NetAt(K, m)'
  <2> DEFINE T == TasksOf(m[3])
             Cnt(i) == Count(T, i)
  <2>1. /\ m[1] \in Rank /\ m[2] \in Rank /\ m[3] \in Exchange!Tag /\ m = <<m[1], m[2], m[3]>>
    BY ChannelIs
  <2>2. /\ net[m] \in Seq([Carried(m) -> Star])
        /\ ~Used(m) => net[m] = <<>>
        /\ Used(m) =>
             \A i \in Nat \ {0}, d \in [Carried(m) -> Star] :
                /\ step[m[2]] <= i /\ i < Reached(m[1]) /\ plan[i] \in T
                /\ d = net[m][Cnt(i) - ReadOn(m) + 1]
                => Content(K, m, i, d)
    BY DEF NetOK, NetAt
  <2>3. /\ SentOn(m) = Cnt(Reached(m[1])) /\ SentOn(m)' = Cnt(Reached(m[1])')
        /\ ReadOn(m) = Cnt(step[m[2]]) /\ ReadOn(m)' = ReadOn(m)
    BY <1>1, <1>2 DEF SentOn, ReadOn
  <2>4. /\ Last \in Nat /\ step[m[2]] \in Nat \ {0} /\ Reached(m[1]) \in Nat \ {0}
        /\ Reached(m[1]) <= Last + 1
    BY <2>1, ReachedType
  <2>5. \A i \in Nat \ {0} : Cnt(i) \in Nat /\ Cnt(i + 1) = Cnt(i) + (IF plan[i] \in T THEN 1 ELSE 0)
    BY CountStep
  <2>6. \A i, j \in Nat \ {0} : /\ i <= j => Cnt(i) <= Cnt(j)
                                /\ i < j /\ plan[i] \in T => Cnt(i) < Cnt(j)
    BY CountMonotonic
  <2>7. \A i \in Nat \ {0} : \A d : i < Reached(m[1]) /\ Content(K, m, i, d) => Content(K, m, i, d)'
    BY <2>1, ContentFrame
  <2>8. Used(m) => Len(net[m]) \in Nat /\ Len(net[m]) = SentOn(m) - ReadOn(m)
    BY NotAhead
  <2> SUFFICES
        /\ net'[m] \in Seq([Carried(m) -> Star])
        /\ ~Used(m) => net'[m] = <<>>
        /\ Used(m) =>
             /\ Len(net'[m]) = SentOn(m)' - ReadOn(m)
             /\ \A i \in Nat \ {0}, d \in [Carried(m) -> Star] :
                /\ step[m[2]] <= i /\ i < Reached(m[1])' /\ plan[i] \in T
                /\ d = net'[m][Cnt(i) - ReadOn(m) + 1]
                => Content(K, m, i, d)'
    BY <1>1, <1>2, <2>3 DEF NetAt, Star, Kinds
  <2> HIDE DEF Cnt, T
  <2>9. CASE m[1] = r /\ m[2] \in to \ {r} /\ m[3] = tag
    <3>1. net'[m] = Append(net[m], data[m[2]]) /\ data[m[2]] \in [Carried(m) -> Star] /\ Used(m)
      BY <1>4, <2>1, <2>9 DEF Used
    <3>2. net'[m] \in Seq([Carried(m) -> Star]) /\ Len(net'[m]) = Len(net[m]) + 1
      BY <2>2, <3>1
    <3>3. plan[k] \in T /\ Reached(m[1])' = k + 1 /\ Reached(m[1]) = k
      BY <1>3, <2>9 DEF T
    <3>4. SentOn(m)' = SentOn(m) + 1 /\ SentOn(m) \in Nat /\ ReadOn(m) \in Nat
      BY <1>3, <2>3, <2>4, <2>5, <3>3
    <3>5. ASSUME NEW i \in Nat \ {0}, NEW d, step[m[2]] <= i, i < Reached(m[1])', plan[i] \in T,
                 d \in [Carried(m) -> Star], d = net'[m][Cnt(i) - ReadOn(m) + 1]
          PROVE  Content(K, m, i, d)'
      <4>1. i <= k /\ Cnt(i) \in Nat
        BY <1>3, <2>5, <3>3, <3>5
      <4>2. Cnt(i) >= ReadOn(m)
        BY <2>3, <2>4, <2>6, <3>5
      <4>3. CASE i < k
        <5>1. Cnt(i) < SentOn(m)
          BY <1>3, <2>3, <2>4, <2>6, <3>3, <3>5, <4>3
        <5>2. Cnt(i) - ReadOn(m) + 1 \in 1..Len(net[m])
          BY <2>8, <3>1, <3>4, <4>1, <4>2, <5>1
        <5>3. net'[m][Cnt(i) - ReadOn(m) + 1] = net[m][Cnt(i) - ReadOn(m) + 1]
          BY <2>2, <3>1, <5>2
        <5>4. Content(K, m, i, d)
          BY <2>2, <3>1, <3>3, <3>5, <4>3, <5>3
        <5> QED
          BY <2>7, <3>3, <4>3, <5>4
      <4>4. CASE i = k
        <5>1. Cnt(i) - ReadOn(m) + 1 = Len(net[m]) + 1
          BY <2>3, <2>8, <3>1, <3>3, <3>4, <4>1, <4>4
        <5>2. d = data[m[2]]
          BY <2>2, <3>1, <3>5, <5>1
        <5> QED
          BY <2>1, <2>9, <4>4, <5>2
      <4> QED
        BY <1>3, <4>1, <4>3, <4>4
    <3>6. Len(net'[m]) = SentOn(m)' - ReadOn(m)
      BY <2>8, <3>1, <3>2, <3>4
    <3> QED
      BY <3>1, <3>2, <3>5, <3>6
  <2>10. CASE ~(m[1] = r /\ m[2] \in to \ {r} /\ m[3] = tag)
    <3>1. net'[m] = net[m]
      BY <1>4, <2>10
    <3>2. ASSUME Used(m)
          PROVE  SentOn(m)' = SentOn(m) /\ \A i \in Nat \ {0} :
                    i < Reached(m[1])' /\ plan[i] \in T => i < Reached(m[1])
      <4>1. CASE m[1] # r
        BY <1>3, <2>1, <2>3, <2>4, <4>1
      <4>2. CASE m[1] = r
        <5>1. m[2] # r /\ Carried(m) # {}
          BY <3>2, <4>2 DEF Used
        <5>2. m[3] # tag
          BY <2>1, <2>10, <4>2, <5>1
        <5>3. plan[k] \notin T
          BY <2>1, <5>2, OtherTag DEF T
        <5> QED
          BY <1>3, <2>3, <2>4, <2>5, <4>2, <5>3
      <4> QED
        BY <4>1, <4>2
    <3>3. ASSUME Used(m), NEW i \in Nat \ {0}, NEW d, step[m[2]] <= i, i < Reached(m[1])',
                 plan[i] \in T, d \in [Carried(m) -> Star], d = net'[m][Cnt(i) - ReadOn(m) + 1]
          PROVE  Content(K, m, i, d)'
      <4>1. i < Reached(m[1])
        BY <3>2, <3>3
      <4>2. Content(K, m, i, d)
        BY <2>2, <3>1, <3>3, <4>1
      <4> QED
        BY <2>7, <4>1, <4>2
    <3> QED
      BY <2>2, <2>8, <3>1, <3>2, <3>3
  <2> QED
    BY <2>9, <2>10
<1> QED
    BY <1>5, <1>6 DEF NetOK, Exchange!Channel, Exchange!Tag

LEMMA ReceiveNet ==
    ASSUME StepOK, PlanOK, Static, NEW K, NetOK(K), NEW r \in Rank, NEW tag \in Exchange!Tag,
           NEW k \in 1..Last, k = step[r], half[r] = "wait", plan[k] \in TasksOf(tag),
           NEW from, Exchange!Finished(r), Exchange!Arrived(r, tag, from),
           Exchange!Receive(r, tag, from),
           \A s \in Rank : Remains(s),
           \A s : s \in from <=> s \in Rank \ {r} /\ Carried(<<s, r, tag>>) # {}
    PROVE  /\ NetOK(K)'
           /\ \A s \in from :
                 LET m == <<s, r, tag>>
                     d == Exchange!Got(r, tag, s)
                 IN  d \in [Carried(m) -> Star] /\ Content(K, m, k, d) /\ k < Reached(s)
<1>1. /\ plan' = plan /\ \A S, i : Count(S, i)' = Count(S, i)
      /\ \A m : Carried(m)' = Carried(m) /\ (Used(m)' <=> Used(m))
    BY StaticSame DEF Static
<1>2. /\ step' = [step EXCEPT ![r] = @ + 1] /\ half' = [half EXCEPT ![r] = "post"]
      /\ half \in [Rank -> {"post", "wait"}] /\ step \in [Rank -> 1..Last + 1]
    BY DEF Exchange!Finished, StepOK
<1>3. /\ Reached(r) = k + 1 /\ step'[r] = k + 1 /\ k \in Nat \ {0}
      /\ \A s \in Rank : Reached(s)' = Reached(s)
      /\ \A s \in Rank \ {r} : step'[s] = step[s]
    BY <1>2 DEF Reached
<1>4. net' = [m \in Exchange!Channel |->
                 IF m[2] = r /\ m[1] \in from /\ m[3] = tag THEN Tail(net[m]) ELSE net[m]]
    BY DEF Exchange!Receive
<1>5. net' = [m \in Exchange!Channel |-> net'[m]]
    BY <1>4
<1>6. ASSUME NEW m \in Exchange!Channel
      PROVE  /\ NetAt(K, m)'
             /\ m[2] = r /\ m[1] \in from /\ m[3] = tag =>
                   /\ Head(net[m]) \in [Carried(m) -> Star] /\ Content(K, m, k, Head(net[m]))
                   /\ k < Reached(m[1])
  <2> DEFINE T == TasksOf(m[3])
             Cnt(i) == Count(T, i)
  <2>1. /\ m[1] \in Rank /\ m[2] \in Rank /\ m[3] \in Exchange!Tag /\ m = <<m[1], m[2], m[3]>>
    BY ChannelIs
  <2>2. /\ net[m] \in Seq([Carried(m) -> Star])
        /\ ~Used(m) => net[m] = <<>>
        /\ Used(m) =>
             \A i \in Nat \ {0}, d \in [Carried(m) -> Star] :
                /\ step[m[2]] <= i /\ i < Reached(m[1]) /\ plan[i] \in T
                /\ d = net[m][Cnt(i) - ReadOn(m) + 1]
                => Content(K, m, i, d)
    BY DEF NetOK, NetAt
  <2>3. /\ SentOn(m) = Cnt(Reached(m[1])) /\ SentOn(m)' = SentOn(m)
        /\ ReadOn(m) = Cnt(step[m[2]]) /\ ReadOn(m)' = Cnt(step'[m[2]])
    BY <1>1, <1>3, <2>1 DEF SentOn, ReadOn
  <2>4. /\ Last \in Nat /\ step[m[2]] \in Nat \ {0} /\ Reached(m[1]) \in Nat \ {0}
        /\ Reached(m[1]) <= Last + 1
    BY <2>1, ReachedType
  <2>5. \A i \in Nat \ {0} : Cnt(i) \in Nat /\ Cnt(i + 1) = Cnt(i) + (IF plan[i] \in T THEN 1 ELSE 0)
    BY CountStep
  <2>6. \A i, j \in Nat \ {0} : /\ i <= j => Cnt(i) <= Cnt(j)
                                /\ i < j /\ plan[i] \in T => Cnt(i) < Cnt(j)
    BY CountMonotonic
  <2>7. \A i \in Nat \ {0} : \A d : i < Reached(m[1]) /\ Content(K, m, i, d) => Content(K, m, i, d)'
    BY <2>1, ContentFrame
  <2>8. Used(m) => /\ Len(net[m]) \in Nat /\ Len(net[m]) = SentOn(m) - ReadOn(m)
                   /\ SentOn(m) \in Nat /\ ReadOn(m) \in Nat
    BY NotAhead
  <2> SUFFICES
        /\ net'[m] \in Seq([Carried(m) -> Star])
        /\ ~Used(m) => net'[m] = <<>>
        /\ Used(m) =>
             /\ Len(net'[m]) = SentOn(m) - ReadOn(m)'
             /\ \A i \in Nat \ {0}, d \in [Carried(m) -> Star] :
                /\ step'[m[2]] <= i /\ i < Reached(m[1]) /\ plan[i] \in T
                /\ d = net'[m][Cnt(i) - ReadOn(m)' + 1]
                => Content(K, m, i, d)'
        /\ m[2] = r /\ m[1] \in from /\ m[3] = tag =>
             \A d : d = Head(net[m]) =>
                   d \in [Carried(m) -> Star] /\ Content(K, m, k, d) /\ k < Reached(m[1])
    BY <1>1, <1>3, <2>1, <2>3 DEF NetAt, Star, Kinds
  <2> HIDE DEF Cnt, T
  <2>9. CASE m[2] = r /\ m[1] \in from /\ m[3] = tag
    <3>1. net'[m] = Tail(net[m]) /\ net[m] # <<>> /\ Used(m)
      BY <1>4, <2>1, <2>9 DEF Exchange!Arrived, Used
    <3>2. /\ Len(net[m]) >= 1 /\ net'[m] \in Seq([Carried(m) -> Star])
          /\ Len(net'[m]) = Len(net[m]) - 1 /\ Head(net[m]) = net[m][1]
          /\ Head(net[m]) \in [Carried(m) -> Star]
          /\ \A j \in 1..Len(net'[m]) : net'[m][j] = net[m][j + 1]
      BY <2>2, <2>8, <3>1
    <3>3. plan[k] \in T /\ step[m[2]] = k /\ step'[m[2]] = k + 1
      BY <1>3, <2>9 DEF T
    <3>4. ReadOn(m)' = ReadOn(m) + 1 /\ ReadOn(m) = Cnt(k)
      BY <1>3, <2>3, <2>5, <3>3
    <3>5. k < Reached(m[1])
      <4>1. SentOn(m) > ReadOn(m)
        BY <2>8, <3>1, <3>2
      <4>2. SUFFICES ASSUME Reached(m[1]) <= k PROVE FALSE
        BY <1>3, <2>4
      <4>3. SentOn(m) <= ReadOn(m)
        BY <1>3, <2>3, <2>4, <2>6, <3>3, <4>2
      <4> QED
        BY <2>8, <3>1, <4>1, <4>3
    <3>6. ASSUME NEW d, d = Head(net[m])
          PROVE  d \in [Carried(m) -> Star] /\ Content(K, m, k, d)
      <4>1. d = net[m][Cnt(k) - ReadOn(m) + 1]
        BY <2>8, <3>1, <3>2, <3>4, <3>6
      <4>2. d \in [Carried(m) -> Star]
        BY <3>2, <3>6
      <4>3. k \in Nat \ {0} /\ step[m[2]] <= k /\ plan[k] \in T
        BY <1>3, <3>3
      <4> QED
        BY <2>2, <3>1, <3>5, <4>1, <4>2, <4>3
    <3>7. ASSUME NEW i \in Nat \ {0}, NEW d, k + 1 <= i, i < Reached(m[1]), plan[i] \in T,
                 d \in [Carried(m) -> Star], d = net'[m][Cnt(i) - ReadOn(m)' + 1]
          PROVE  Content(K, m, i, d)'
      <4>1. Cnt(i) \in Nat /\ Cnt(i) > Cnt(k) /\ Cnt(i) < SentOn(m)
        BY <1>3, <2>3, <2>4, <2>5, <2>6, <3>3, <3>7
      <4>2. Cnt(i) - ReadOn(m)' + 1 \in 1..Len(net'[m])
        BY <2>8, <3>1, <3>2, <3>4, <4>1
      <4>3. d = net[m][Cnt(i) - ReadOn(m)' + 1 + 1]
        BY <3>2, <3>7, <4>2
      <4>4. Cnt(i) - ReadOn(m)' + 1 + 1 = Cnt(i) - ReadOn(m) + 1
        BY <2>8, <3>1, <3>4, <4>1
      <4>5. d = net[m][Cnt(i) - ReadOn(m) + 1]
        BY <4>3, <4>4
      <4>6. step[m[2]] <= i
        BY <1>3, <3>3, <3>7
      <4>7. Content(K, m, i, d)
        BY <2>2, <3>1, <3>7, <4>5, <4>6
      <4> QED
        BY <2>7, <3>7, <4>7
    <3>8. Len(net'[m]) = SentOn(m) - ReadOn(m)'
      BY <2>8, <3>1, <3>2, <3>4
    <3> QED
      BY <3>1, <3>2, <3>3, <3>5, <3>6, <3>7, <3>8
  <2>10. CASE ~(m[2] = r /\ m[1] \in from /\ m[3] = tag)
    <3>1. net'[m] = net[m]
      BY <1>4, <2>10
    <3>2. ASSUME Used(m)
          PROVE  /\ ReadOn(m)' = ReadOn(m)
                 /\ \A i \in Nat \ {0} : step'[m[2]] <= i => step[m[2]] <= i
      <4>1. CASE m[2] # r
        BY <1>3, <2>1, <2>3, <4>1
      <4>2. CASE m[2] = r
        <5>1. m[1] # r /\ Carried(m) # {}
          BY <3>2, <4>2 DEF Used
        <5>2. m[3] # tag
          BY <2>1, <2>10, <4>2, <5>1
        <5>3. plan[k] \notin T
          BY <2>1, <5>2, OtherTag DEF T
        <5>4. step[m[2]] = k /\ step'[m[2]] = k + 1
          BY <1>3, <4>2
        <5> QED
          BY <1>3, <2>3, <2>5, <5>3, <5>4
      <4> QED
        BY <4>1, <4>2
    <3>3. ASSUME Used(m), NEW i \in Nat \ {0}, NEW d, step'[m[2]] <= i, i < Reached(m[1]),
                 plan[i] \in T, d \in [Carried(m) -> Star], d = net'[m][Cnt(i) - ReadOn(m)' + 1]
          PROVE  Content(K, m, i, d)'
      <4>1. step[m[2]] <= i /\ d = net[m][Cnt(i) - ReadOn(m) + 1]
        BY <3>1, <3>2, <3>3
      <4>2. Content(K, m, i, d)
        BY <2>2, <3>3, <4>1
      <4> QED
        BY <2>7, <3>3, <4>2
    <3> QED
      BY <2>2, <2>8, <2>10, <3>1, <3>2, <3>3
  <2> QED
    BY <2>9, <2>10
<1>7. NetOK(K)'
    BY <1>5, <1>6 DEF NetOK, Exchange!Channel, Exchange!Tag
<1>8. ASSUME NEW s \in from
      PROVE  LET m == <<s, r, tag>>
                 d == Exchange!Got(r, tag, s)
             IN  d \in [Carried(m) -> Star] /\ Content(K, m, k, d) /\ k < Reached(s)
  <2> DEFINE m == <<s, r, tag>>
  <2>1. m \in Exchange!Channel /\ m[1] = s /\ m[2] = r /\ m[3] = tag
    BY <1>8 DEF Exchange!Channel
  <2> QED
    BY <1>6, <1>8, <2>1 DEF Exchange!Got
<1> QED
    BY <1>7, <1>8

\* A drift sends nothing.
LEMMA QuietNet ==
    ASSUME StepOK, PlanOK, Static, NEW K, NetOK(K), NEW r \in Rank,
           NEW k \in 1..Last, k = step[r], plan[k] = "drift", UNCHANGED net,
           \/ half[r] = "post" /\ Exchange!Posted(r)
           \/ half[r] = "wait" /\ Exchange!Finished(r),
           \A s \in Rank : Remains(s)
    PROVE  NetOK(K)'
<1>1. /\ plan' = plan /\ \A S, i : Count(S, i)' = Count(S, i)
      /\ \A m : Carried(m)' = Carried(m) /\ (Used(m)' <=> Used(m))
    BY StaticSame DEF Static
<1>2. half \in [Rank -> {"post", "wait"}] /\ step \in [Rank -> 1..Last + 1] /\ k \in Nat \ {0}
    BY DEF StepOK
<1>3. \A s \in Rank \ {r} : step'[s] = step[s] /\ Reached(s)' = Reached(s)
    BY <1>2 DEF Reached, Exchange!Posted, Exchange!Finished
<1>4. \/ step'[r] = k /\ Reached(r) = k /\ Reached(r)' = k + 1
      \/ step'[r] = k + 1 /\ Reached(r) = k + 1 /\ Reached(r)' = k + 1
    BY <1>2 DEF Reached, Exchange!Posted, Exchange!Finished
<1>5. ASSUME NEW m \in Exchange!Channel
      PROVE  NetAt(K, m)'
  <2> DEFINE T == TasksOf(m[3])
             Cnt(i) == Count(T, i)
  <2>1. m[1] \in Rank /\ m[2] \in Rank
    BY ChannelIs
  <2>2. /\ net[m] \in Seq([Carried(m) -> Star])
        /\ ~Used(m) => net[m] = <<>>
        /\ Used(m) =>
             /\ Len(net[m]) = SentOn(m) - ReadOn(m)
             /\ \A i \in Nat \ {0}, d \in [Carried(m) -> Star] :
                /\ step[m[2]] <= i /\ i < Reached(m[1]) /\ plan[i] \in T
                /\ d = net[m][Cnt(i) - ReadOn(m) + 1]
                => Content(K, m, i, d)
    BY DEF NetOK, NetAt
  <2>3. plan[k] \notin T
    BY DEF TasksOf
  <2>4. \A i \in Nat \ {0} : Cnt(i) \in Nat /\ Cnt(i + 1) = Cnt(i) + (IF plan[i] \in T THEN 1 ELSE 0)
    BY CountStep
  <2>5. \A i \in Nat \ {0} : \A d : i < Reached(m[1]) /\ Content(K, m, i, d) => Content(K, m, i, d)'
    BY <2>1, ContentFrame
  <2>6. /\ SentOn(m) = Cnt(Reached(m[1])) /\ SentOn(m)' = Cnt(Reached(m[1])')
        /\ ReadOn(m) = Cnt(step[m[2]]) /\ ReadOn(m)' = Cnt(step'[m[2]])
    BY <1>1 DEF SentOn, ReadOn
  <2> HIDE DEF T, Cnt
  <2>7. Cnt(k + 1) = Cnt(k)
    BY <1>2, <2>3, <2>4
  <2>8. SentOn(m)' = SentOn(m) /\ ReadOn(m)' = ReadOn(m)
    BY <1>3, <1>4, <2>1, <2>6, <2>7
  <2>9. \A i \in Nat \ {0} : step'[m[2]] <= i /\ i < Reached(m[1])' /\ plan[i] \in T =>
           step[m[2]] <= i /\ i < Reached(m[1])
    BY <1>2, <1>3, <1>4, <2>1, <2>3
  <2>10. /\ net'[m] \in Seq([Carried(m) -> Star])
         /\ ~Used(m) => net'[m] = <<>>
         /\ Used(m) =>
             /\ Len(net'[m]) = SentOn(m)' - ReadOn(m)'
             /\ \A i \in Nat \ {0}, d \in [Carried(m) -> Star] :
                /\ step'[m[2]] <= i /\ i < Reached(m[1])' /\ plan[i] \in T
                /\ d = net'[m][Cnt(i) - ReadOn(m)' + 1]
                => Content(K, m, i, d)'
    BY <2>2, <2>5, <2>8, <2>9
  <2> QED
    BY <1>1, <2>10 DEF NetAt, Star, Kinds, T, Cnt
<1> QED
    BY <1>5 DEF NetOK, Exchange!Channel, Exchange!Tag

-----------------------------------------------------------------------------
(* What a rank does leaves the others alone. *)

OnlyRank(r) ==
    /\ \A s \in Rank \ {r} :
          /\ step'[s] = step[s] /\ half'[s] = half[s] /\ hard'[s] = hard[s] /\ send'[s] = send[s]
          /\ mass_modify_list'[s] = mass_modify_list[s]
    /\ \A p \in Particle : owner[p] # r => sys'[p] = sys[p] /\ dm'[p] = dm[p]

\* The halves of a task
Moves(r) ==
    /\ step[r] <= Last
    /\ \/ half[r] = "post" /\ Exchange!Posted(r)
       \/ half[r] = "wait" /\ Exchange!Finished(r)

LEMMA MovesFacts ==
    ASSUME StepOK, PlanOK, Static, NEW r \in Rank, Moves(r)
    PROVE  /\ StepOK'
           /\ \A s \in Rank \ {r} : step'[s] = step[s] /\ half'[s] = half[s] /\ Reached(s)' = Reached(s)
           /\ half[r] = "post" => /\ step'[r] = step[r] /\ Reached(r) = step[r]
                                  /\ Reached(r)' = step[r] + 1 /\ half'[r] = "wait"
           /\ half[r] = "wait" => /\ step'[r] = step[r] + 1 /\ Reached(r) = step[r] + 1
                                  /\ Reached(r)' = step[r] + 1 /\ half'[r] = "post"
           /\ \A s \in Rank : SentBack(s) => SentBack(s)'
           /\ SentBack(r) => half[r] = "wait" /\ step[r] = Last
<1>1. /\ half \in [Rank -> {"post", "wait"}] /\ step \in [Rank -> 1..Last + 1]
      /\ \A s \in Rank : half[s] = "wait" => step[s] <= Last
    BY DEF StepOK
<1>2. Last' = Last /\ plan' = plan /\ Last \in Nat
    BY StaticSame DEF Static, PlanOK
<1>3. CASE half[r] = "post" /\ Exchange!Posted(r)
  <2>1. step' = step /\ half' = [half EXCEPT ![r] = "wait"]
    BY <1>3 DEF Exchange!Posted
  <2>2. StepOK'
    BY <1>1, <1>2, <2>1 DEF StepOK, Moves
  <2> QED
    BY <1>1, <1>2, <1>3, <2>1, <2>2 DEF Reached, SentBack, Moves
<1>4. CASE half[r] = "wait" /\ Exchange!Finished(r)
  <2>1. step' = [step EXCEPT ![r] = @ + 1] /\ half' = [half EXCEPT ![r] = "post"]
    BY <1>4 DEF Exchange!Finished
  <2>2. StepOK'
    BY <1>1, <1>2, <2>1 DEF StepOK, Moves
  <2> QED
    BY <1>1, <1>2, <1>4, <2>1, <2>2 DEF Reached, SentBack, Moves
<1> QED
    BY <1>3, <1>4 DEF Moves

LEMMA SharedFacts ==
    ASSUME DealOK
    PROVE  /\ \A p \in Shared : p \in Particle /\ owner[p] \in Rank /\ HardRank(p) \in Rank
           /\ Shared \subseteq Particle
           /\ \A r : Given(r) \subseteq Shared /\ Away(r) \subseteq Shared
           /\ \A r, s : DealtTo(r, s) \subseteq Shared
<1>1. \A p \in Shared : p \in Particle /\ owner[p] \in Rank /\ HardRank(p) \in Rank
    BY HardRankFacts
<1> QED
    BY <1>1 DEF Given, Away, DealtTo

LEMMA OthersOK ==
    ASSUME DealOK, StepOK, PlanOK, Static, NEW K, NEW r \in Rank, OnlyRank(r), Moves(r),
           \A s \in Rank : Remains(s), NEW s \in Rank, s # r,
           HardOK(K, s), LocalOK(K, s), AwayOK(K, s), ListOK(s)
    PROVE  HardOK(K, s)' /\ LocalOK(K, s)' /\ AwayOK(K, s)' /\ ListOK(s)'
<1>1. /\ plan' = plan /\ owner' = owner /\ Last' = Last /\ (\A i : Kicks(i)' = Kicks(i))
      /\ Given(s)' = Given(s) /\ Away(s)' = Away(s) /\ DealtTo(s, s)' = DealtTo(s, s)
      /\ Own(s)' = Own(s) /\ (\A p : HardRank(p)' = HardRank(p)) /\ Exchange!NewStar' = Exchange!NewStar
    BY StaticSame DEF Static, graph, Exchange!NewStar
<1>2. /\ step'[s] = step[s] /\ half'[s] = half[s] /\ hard'[s] = hard[s] /\ send'[s] = send[s]
      /\ mass_modify_list'[s] = mass_modify_list[s]
    BY DEF OnlyRank
<1>3. \A p \in DealtTo(s, s) \cup Away(s) \cup Own(s) :
         p \in Particle /\ owner[p] = s /\ sys'[p] = sys[p] /\ dm'[p] = dm[p]
    BY SharedFacts DEF OnlyRank, DealtTo, Away, Own
<1>4. Reached(s)' = Reached(s)
    BY <1>2 DEF Reached
<1>5. /\ Drifted(s)' = Drifted(s) /\ SentBack(s)' = SentBack(s) /\ AllBack(s)' = AllBack(s)
    BY <1>1, <1>2, <1>4 DEF Drifted, SentBack, AllBack
<1>6. HardOK(K, s)'
    BY <1>1, <1>2, <1>4, <1>5 DEF HardOK, Star, Kinds, Rec, Exchange!NewStar
<1>7. LocalOK(K, s)'
    BY <1>1, <1>2, <1>3, <1>4, <1>5 DEF LocalOK, Rec, Kept, Exchange!NewStar
<1>8. \A h \in Rank : SentBack(h) => SentBack(h)' /\ hard'[h] = hard[h]
    BY MovesFacts DEF Remains
<1>9. AwayOK(K, s)'
  <2>1. Reached(s)' > 1 => send'[s] \in [Away(s)' -> Star']
    BY <1>1, <1>2, <1>4 DEF AwayOK, Star, Kinds
  <2>2. ASSUME NEW p \in Away(s)
        PROVE  /\ sys'[p] = sys[p] /\ dm'[p] = dm[p]
               /\ AllBack(s) => \E h \in Rank :
                     h = HardRank(p) /\ SentBack(h)' /\ sys'[p] = hard'[h][p]
    BY <1>3, <1>8 DEF AwayOK
  <2> QED
    BY <1>1, <1>2, <1>4, <1>5, <2>1, <2>2 DEF AwayOK, Rec, Kept, Star, Kinds, Exchange!NewStar
<1>10. ListOK(s)'
  <2>1. \A p \in Own(s) : sys'[p] = sys[p]
    BY <1>3
  <2> QED
    BY <1>1, <1>2, <1>4, <1>5, <2>1 DEF ListOK
<1> QED
    BY <1>6, <1>7, <1>9, <1>10

\* The sets the exchange works with, once the stars are dealt
LEMMA SetsAre ==
    ASSUME DealOK, PlanOK, NEW K, ExchangeOK(K), NEW r \in Rank, Reached(r) > 1
    PROVE  /\ \A s \in Rank : stars[r][s] = DealtTo(r, s) /\ room[r][s] = DealtTo(s, r)
           /\ Exchange!RankSendPtcl(r) = {s \in Rank \ {r} : DealtTo(r, s) # {}}
           /\ Exchange!RankRecvPtcl(r) = {s \in Rank \ {r} : DealtTo(s, r) # {}}
           /\ DOMAIN send[r] = Away(r)
           /\ \A p \in Away(r) :
                 /\ Exchange!RankWith(r, p) = HardRank(p) /\ p \in DealtTo(r, HardRank(p))
                 /\ HardRank(p) \in Rank \ {r} /\ HardRank(p) \in Exchange!RankSendPtcl(r)
                 /\ p \in Particle /\ owner[p] = r
           /\ step[r] > 1 =>
                 /\ DOMAIN hard[r] = Given(r) /\ Exchange!Local(r) = DealtTo(r, r)
                 /\ Exchange!Remote(r) = {p \in Given(r) : owner[p] # r}
                 /\ \A s \in Rank \ {r} : {p \in Exchange!Remote(r) : owner[p] = s} = DealtTo(s, r)
           /\ \A p \in Given(r) : /\ p \in Particle /\ owner[p] \in Rank
                                  /\ p \in DealtTo(owner[p], r)
                                  /\ owner[p] # r => owner[p] \in Exchange!RankRecvPtcl(r)
<1>1. \A s \in Rank : stars[r][s] = DealtTo(r, s) /\ room[r][s] = DealtTo(s, r)
    BY DEF ExchangeOK, DealtOK
<1>2. /\ Exchange!RankSendPtcl(r) = {s \in Rank \ {r} : DealtTo(r, s) # {}}
      /\ Exchange!RankRecvPtcl(r) = {s \in Rank \ {r} : DealtTo(s, r) # {}}
    BY <1>1 DEF Exchange!RankSendPtcl, Exchange!RankRecvPtcl
<1>3. DOMAIN send[r] = Away(r)
    BY DEF ExchangeOK, AwayOK
<1>4. ASSUME NEW p \in Away(r)
      PROVE  /\ Exchange!RankWith(r, p) = HardRank(p) /\ p \in DealtTo(r, HardRank(p))
             /\ HardRank(p) \in Rank \ {r} /\ HardRank(p) \in Exchange!RankSendPtcl(r)
             /\ p \in Particle /\ owner[p] = r
  <2>1. /\ p \in Shared /\ p \in Particle /\ owner[p] = r /\ HardRank(p) \in Rank \ {r}
        /\ p \in DealtTo(r, HardRank(p))
    BY SharedFacts DEF Away, DealtTo
  <2>2. \A s \in Rank : p \in stars[r][s] <=> s = HardRank(p)
    BY <1>1, <2>1 DEF DealtTo
  <2>3. Exchange!RankWith(r, p) = HardRank(p)
    BY <2>1, <2>2 DEF Exchange!RankWith
  <2> QED
    BY <1>2, <2>1, <2>3
<1>5. ASSUME step[r] > 1
      PROVE  /\ DOMAIN hard[r] = Given(r) /\ Exchange!Local(r) = DealtTo(r, r)
             /\ Exchange!Remote(r) = {p \in Given(r) : owner[p] # r}
             /\ \A s \in Rank \ {r} : {p \in Exchange!Remote(r) : owner[p] = s} = DealtTo(s, r)
  <2>1. DOMAIN hard[r] = Given(r)
    BY <1>5 DEF ExchangeOK, HardOK
  <2>2. Exchange!Local(r) = DealtTo(r, r)
    BY <2>1, SameGraph, SharedFacts DEF Exchange!Local, Own, Given, DealtTo
  <2>3. Exchange!Remote(r) = {p \in Given(r) : owner[p] # r}
    BY <2>1 DEF Exchange!Remote
  <2> QED
    BY <2>1, <2>2, <2>3 DEF Given, DealtTo
<1>6. ASSUME NEW p \in Given(r)
      PROVE  /\ p \in Particle /\ owner[p] \in Rank /\ p \in DealtTo(owner[p], r)
             /\ owner[p] # r => owner[p] \in Exchange!RankRecvPtcl(r)
    BY <1>2, SharedFacts DEF Given, DealtTo
<1> QED
    BY <1>1, <1>2, <1>3, <1>4, <1>5, <1>6

-----------------------------------------------------------------------------
(* The steps of one rank *)

LEMMA RankKeeps ==
    ASSUME DealOK, PlanOK, NEW K, ExchangeOK(K), NEW r \in Rank, Static, Moves(r), OnlyRank(r),
           \A s \in Rank : Remains(s), TypesOK', DealtOK', NetOK(K)',
           HardOK(K, r)', LocalOK(K, r)', AwayOK(K, r)', ListOK(r)'
    PROVE  ExchangeOK(K)'
<1>1. StepOK /\ \A s \in Rank : HardOK(K, s) /\ LocalOK(K, s) /\ AwayOK(K, s) /\ ListOK(s)
    BY DEF ExchangeOK
<1>2. StepOK'
    BY <1>1, MovesFacts
<1>3. \A s \in Rank : HardOK(K, s)' /\ LocalOK(K, s)' /\ AwayOK(K, s)' /\ ListOK(s)'
  <2> TAKE s \in Rank
  <2>1. CASE s = r
    BY <2>1
  <2>2. CASE s # r
    BY <1>1, <2>2, OthersOK
  <2> QED
    BY <2>1, <2>2
<1>4. (K \in [Particle -> Kinds])'
    BY DEF ExchangeOK
<1> QED
    BY <1>2, <1>3, <1>4 DEF ExchangeOK

\* Who got what does not change once it is dealt.
LEMMA DealtKept ==
    ASSUME StepOK, PlanOK, Static, DealtOK, NEW r \in Rank, Moves(r), Reached(r) > 1,
           UNCHANGED <<stars, room>>
    PROVE  DealtOK'
<1>1. \A s \in Rank : (Reached(s) > 1)' = (Reached(s) > 1)
  <2> TAKE s \in Rank
  <2>1. CASE s # r
    BY <2>1, MovesFacts
  <2>2. CASE s = r
    BY <2>2, MovesFacts, ReachedType DEF Moves
  <2> QED
    BY <2>1, <2>2
<1>2. \A s, t : DealtTo(s, t)' = DealtTo(s, t)
    BY StaticSame
<1> QED
    BY <1>1, <1>2 DEF DealtOK

LEMMA TypesKept ==
    ASSUME TypesOK, Static, sys' \in [Particle -> Star], dm' \in [Particle -> Int],
           hard' = [s \in Rank |-> hard'[s]], send' = [s \in Rank |-> send'[s]],
           mass_modify_list' = [s \in Rank |-> mass_modify_list'[s]],
           \A p \in Particle \ Shared : sys'[p] = sys[p]
    PROVE  TypesOK'
<1>1. Shared' = Shared
    BY StaticSame
<1> QED
    BY <1>1 DEF TypesOK

LEMMA NewStarType == NewStar \in Star /\ \A kind \in Kinds, k \in Nat : Rec(kind, k) \in Star
BY DEF NewStar, Exchange!NewStar, Star, Kinds, Rec

\* Own and shared stars by where they are integrated
LEMMA OwnParts ==
    ASSUME DealOK, NEW r \in Rank
    PROVE  /\ {p \in Own(r) : p \in Shared} = DealtTo(r, r) \cup Away(r)
           /\ DealtTo(r, r) \cap Away(r) = {}
           /\ DealtTo(r, r) \subseteq Given(r)
           /\ UNION {DealtTo(r, s) : s \in Rank \ {r}} = Away(r)
BY SharedFacts DEF Own, DealtTo, Away, Given

LEMMA SendClusterStep ==
    ASSUME DealOK, PlanOK, NEW K, ExchangeOK(K), NEW r \in Rank, Exchange!SendCluster(r)
    PROVE  ExchangeOK(K)'
<1> DEFINE dealt == [s \in Rank |-> DealtTo(r, s)]
<1>1. StepOK /\ TypesOK /\ DealtOK /\ NetOK(K) /\ LocalOK(K, r) /\ AwayOK(K, r)
    BY DEF ExchangeOK
<1>2. /\ Exchange!Doing(r, "exchange", "post") /\ Exchange!Posted(r)
      /\ UNCHANGED <<graph, plan, id_cluster, mediator, sys, hard, dm, mass_modify_list>>
    BY DEF Exchange!SendCluster, Exchange!graph, graph
<1>3. Static
    BY <1>2 DEF Static
<1>4. step[r] = 1 /\ half[r] = "post" /\ plan[1] = "exchange" /\ Last \in Nat /\ Last >= 4
    BY <1>1, <1>2, TaskAt, PlanFacts
<1>5. Moves(r)
    BY <1>2, <1>4 DEF Moves
<1>6. StepOK' /\ Reached(r) = 1 /\ Reached(r)' = 2 /\ step'[r] = 1
    BY <1>1, <1>3, <1>4, <1>5, MovesFacts
<1>7. /\ \A s \in Rank : Exchange!Dealt(r, s) = DealtTo(r, s) /\ Exchange!RoomFor(r, s) = DealtTo(s, r)
      /\ [s \in Rank |-> Exchange!Dealt(r, s)] = dealt
    BY DealtIs
<1>8. /\ stars' = [stars EXCEPT ![r] = dealt]
      /\ room' = [room EXCEPT ![r] = [s \in Rank |-> DealtTo(s, r)]]
      /\ send' = [send EXCEPT ![r] = [p \in Away(r) |-> sys[p]]]
      /\ Exchange!Post(r, "cluster", {s \in Rank : dealt[s] # {}},
                       [s \in Rank |-> [p \in dealt[s] |-> sys[p]]])
  <2>1. UNION {dealt[s] : s \in Rank \ {r}} = Away(r)
    BY OwnParts
  <2>2. LET to == dealt
        IN  /\ stars' = [stars EXCEPT ![r] = to]
            /\ send' = [send EXCEPT ![r] = Exchange!Restricted(sys, UNION {to[s] : s \in Rank \ {r}})]
            /\ Exchange!Post(r, "cluster", {s \in Rank : to[s] # {}},
                       [s \in Rank |-> Exchange!Restricted(sys, to[s])])
    BY <1>7 DEF Exchange!SendCluster
  <2>3. room' = [room EXCEPT ![r] = [s \in Rank |-> DealtTo(s, r)]]
    BY <1>7 DEF Exchange!SendCluster
  <2> QED
    BY <2>1, <2>2, <2>3 DEF Exchange!Restricted
<1>9. OnlyRank(r) /\ \A s \in Rank : Remains(s)
    BY <1>1, <1>2, <1>3, <1>5, <1>8, MovesFacts DEF OnlyRank, Remains, TypesOK
<1>10. \A p \in Shared : owner[p] = r => sys[p] = NewStar /\ p \in Particle
  <2>1. ASSUME NEW p \in Shared, owner[p] = r PROVE sys[p] = NewStar /\ p \in Particle
    <3>1. p \in DealtTo(r, r) \/ p \in Away(r)
      BY <2>1 DEF DealtTo, Away
    <3> QED
      BY <1>1, <1>4, <1>6, <3>1, SharedFacts DEF LocalOK, AwayOK
  <2> QED
    BY <2>1
<1>11. TypesOK'
    BY <1>1, <1>2, <1>3, <1>8, TypesKept DEF TypesOK
<1>12. DealtOK'
  <2>1. /\ \A s \in Rank \ {r} : (Reached(s) > 1)' = (Reached(s) > 1)
        /\ \A s, t : DealtTo(s, t)' = DealtTo(s, t)
    BY <1>1, <1>3, <1>5, MovesFacts, StaticSame
  <2>2. ASSUME NEW q \in Rank
        PROVE  /\ stars'[q] = [s \in Rank |-> IF Reached(q)' > 1 THEN DealtTo(q, s) ELSE {}]
               /\ room'[q] = [s \in Rank |-> IF Reached(q)' > 1 THEN DealtTo(s, q) ELSE {}]
    <3>1. CASE q = r
      BY <1>1, <1>6, <1>8, <3>1 DEF DealtOK
    <3>2. CASE q # r
      BY <1>1, <1>8, <2>1, <3>2 DEF DealtOK
    <3> QED
      BY <3>1, <3>2
  <2>3. stars' = [q \in Rank |-> stars'[q]] /\ room' = [q \in Rank |-> room'[q]]
    BY <1>1, <1>8 DEF DealtOK
  <2> QED
    BY <2>1, <2>2, <2>3 DEF DealtOK
<1>13. NetOK(K)'
  <2>1. PICK data : data = [s \in Rank |-> [p \in dealt[s] |-> sys[p]]]
    OBVIOUS
  <2>2. PICK to : to = {s \in Rank : dealt[s] # {}}
    OBVIOUS
  <2>3. Exchange!Post(r, "cluster", to, data)
    BY <1>8, <2>1, <2>2
  <2>4. \A s \in Rank : Carried(<<r, s, "cluster">>) = DealtTo(r, s)
    BY DEF Carried
  <2>5. ASSUME NEW s \in Rank \ {r}, s \in to
        PROVE  /\ data[s] \in [Carried(<<r, s, "cluster">>) -> Star]
               /\ \A d : d = data[s] => Content(K, <<r, s, "cluster">>, 1, d)'
    <3>1. data[s] = [p \in DealtTo(r, s) |-> sys[p]]
      BY <2>1
    <3>2. \A p \in DealtTo(r, s) : data[s][p] = NewStar
      BY <1>10, <3>1 DEF DealtTo
    <3>3. Carried(<<r, s, "cluster">>)' = DealtTo(r, s) /\ plan'[1] = "exchange"
      BY <1>2, <1>3, <1>4, <2>4, StaticSame
    <3>4. \A d : d = data[s] => Content(K, <<r, s, "cluster">>, 1, d)'
      BY <3>2, <3>3 DEF Content
    <3> QED
      BY <2>4, <3>1, <3>2, <3>4, NewStarType
  <2>6. plan[1] \in TasksOf("cluster") /\ "cluster" \in Exchange!Tag /\ 1 \in 1..Last
    BY <1>4 DEF TasksOf, Exchange!Tag
  <2> QED
    BY <1>1, <1>2, <1>3, <1>4, <1>9, <2>2, <2>3, <2>4, <2>5, <2>6, PostNet
<1>14. HardOK(K, r)' /\ ListOK(r)'
  <2>1. ~SentBack(r)' /\ ~AllBack(r)'
    BY <1>3, <1>4, <1>6, StaticSame DEF SentBack, AllBack
  <2> QED
    BY <1>6, <2>1 DEF HardOK, ListOK
<1>15. LocalOK(K, r)'
  <2>1. ~SentBack(r)' /\ DealtTo(r, r)' = DealtTo(r, r)
    BY <1>3, <1>4, <1>6, StaticSame DEF SentBack
  <2> QED
    BY <1>2, <1>6, <1>10, <2>1 DEF LocalOK, DealtTo
<1>16. AwayOK(K, r)'
  <2>1. ~AllBack(r)' /\ Away(r)' = Away(r)
    BY <1>3, <1>4, <1>6, StaticSame DEF AllBack
  <2>2. send'[r] = [p \in Away(r) |-> sys[p]]
    BY <1>1, <1>8 DEF TypesOK
  <2>3. \A p \in Away(r) : sys'[p] = NewStar /\ send'[r][p] = NewStar
    BY <1>2, <1>10, <2>2 DEF Away
  <2>4. send'[r] \in [Away(r) -> Star]
    BY <2>2, <2>3, NewStarType
  <2> QED
    BY <1>6, <2>1, <2>3, <2>4 DEF AwayOK
<1> QED
    BY <1>3, <1>5, <1>9, <1>11, <1>12, <1>13, <1>14, <1>15, <1>16, RankKeeps

LEMMA RecFacts ==
    ASSUME NEW kind \in Kinds, NEW k \in Nat
    PROVE  /\ Rec(kind, k) \in Star /\ Rec(kind, k).kind = kind
           /\ Rec(kind, k).kicks = k /\ Rec(kind, k).drifts = 0 /\ Kept(Rec(kind, k)) = 1
           /\ k > 0 \/ kind # "cm" => Rec(kind, k).mass = 1
           /\ kind # "cm" => Exchange!Kicked(Rec(kind, k)) = Rec(kind, k + 1)
           /\ kind = "cm" => Exchange!Kicked(Exchange!Recovered(Rec(kind, k))) = Rec(kind, k + 1)
<1> DEFINE star == Rec(kind, k)
<1>1. /\ star \in Star /\ star.kind = kind /\ star.kicks = k /\ star.drifts = 0
      /\ Kept(star) = 1 /\ (k > 0 \/ kind # "cm" => star.mass = 1)
    BY DEF Kinds, Star, Rec, Kept
<1>2. kind # "cm" => Exchange!Kicked(star) = Rec(kind, k + 1)
    BY DEF Kinds, Rec, Exchange!Kicked
<1>3. ASSUME kind = "cm"
      PROVE  Exchange!Kicked(Exchange!Recovered(star)) = Rec(kind, k + 1)
  <2>1. Exchange!Recovered(star) =
            [kind |-> kind, mass |-> 1, backup |-> 1, kicks |-> k, drifts |-> 0]
    BY <1>3 DEF Rec, Exchange!Recovered
  <2>2. Rec(kind, k + 1) =
            [kind |-> kind, mass |-> 1, backup |-> 1, kicks |-> k + 1, drifts |-> 0]
    <3>1. k + 1 # 0
      OBVIOUS
    <3> QED
      BY <1>3, <3>1 DEF Rec
  <2>3. Exchange!Kicked([kind |-> kind, mass |-> 1, backup |-> 1, kicks |-> k, drifts |-> 0]) =
            [kind |-> kind, mass |-> 1, backup |-> 1, kicks |-> k + 1, drifts |-> 0]
    BY DEF Exchange!Kicked
  <2> QED
    BY <2>1, <2>2, <2>3
<1> QED
    BY <1>1, <1>2, <1>3

\* Where a rank is before and after a half of a task
LEMMA TaskMoves ==
    ASSUME PlanOK, StepOK, Static, NEW r \in Rank, NEW task, NEW h, Exchange!Doing(r, task, h),
           \/ h = "post" /\ Exchange!Posted(r)
           \/ h = "wait" /\ Exchange!Finished(r)
    PROVE  /\ Moves(r)
           /\ step[r] \in Nat /\ step[r] \in 1..Last /\ plan[step[r]] = task /\ half[r] = h
           /\ plan' = plan /\ Last' = Last /\ Last \in Nat /\ Last >= 4
           /\ h = "post" => /\ Reached(r) = step[r] /\ Reached(r)' = step[r] + 1
                            /\ step'[r] = step[r] /\ half'[r] = "wait"
           /\ h = "wait" => /\ Reached(r) = step[r] + 1 /\ Reached(r)' = step[r] + 1
                            /\ step'[r] = step[r] + 1 /\ half'[r] = "post"
<1>1. step[r] \in 1..Last /\ plan[step[r]] = task /\ half[r] = h
    BY TaskAt
<1>2. Last \in Nat /\ Last >= 4
    BY PlanFacts
<1>3. Moves(r)
    BY <1>1, <1>2 DEF Moves
<1>4. plan' = plan /\ Last' = Last
    BY StaticSame DEF Static
<1> QED
    BY <1>1, <1>2, <1>3, <1>4, MovesFacts

LEMMA RecvClusterStep ==
    ASSUME DealOK, PlanOK, NEW K, ExchangeOK(K), NEW r \in Rank, Exchange!RecvCluster(r)
    PROVE  ExchangeOK(K)'
<1> DEFINE from == Exchange!RankRecvPtcl(r)
           got(s) == Exchange!Got(r, "cluster", s)
<1>1. StepOK /\ TypesOK /\ DealtOK /\ NetOK(K) /\ LocalOK(K, r) /\ AwayOK(K, r)
    BY DEF ExchangeOK
<1>2. /\ Exchange!Doing(r, "exchange", "wait") /\ Exchange!Finished(r)
      /\ Exchange!Arrived(r, "cluster", from) /\ Exchange!Receive(r, "cluster", from)
      /\ UNCHANGED <<graph, plan, id_cluster, mediator, stars, room, sys, send, dm, mass_modify_list>>
    BY DEF Exchange!RecvCluster, Exchange!graph, graph, Exchange!deal
<1>3. Static
    BY <1>2 DEF Static
<1>4. /\ step[r] = 1 /\ half[r] = "wait" /\ plan[1] = "exchange" /\ Last \in Nat /\ Last >= 4
      /\ Moves(r) /\ Reached(r) = 2 /\ Reached(r)' = 2 /\ step'[r] = 2 /\ Last' = Last
    BY <1>1, <1>2, <1>3, TaskAt, TaskMoves
<1>5. /\ from = {s \in Rank \ {r} : DealtTo(s, r) # {}} /\ stars[r][r] = DealtTo(r, r)
      /\ \A p \in Given(r) : /\ p \in Particle /\ owner[p] \in Rank /\ p \in DealtTo(owner[p], r)
                             /\ owner[p] # r => owner[p] \in from
    BY <1>4, SetsAre
<1>6. hard' = [hard EXCEPT ![r] =
                  [p \in stars[r][r] \cup UNION {DOMAIN got(s) : s \in from} |->
                       IF owner[p] = r THEN sys[p] ELSE got(owner[p])[p]]]
    BY DEF Exchange!RecvCluster
<1>7. \A s \in Rank : Remains(s)
    BY <1>1, <1>4, <1>6 DEF Remains, SentBack, TypesOK
<1>8. OnlyRank(r)
    BY <1>1, <1>2, <1>3, <1>4, <1>6, MovesFacts DEF OnlyRank, TypesOK
<1>9. \A s : Carried(<<s, r, "cluster">>) = DealtTo(s, r)
    BY DEF Carried
<1>10. /\ NetOK(K)'
       /\ \A s \in from : /\ got(s) \in [DealtTo(s, r) -> Star]
                          /\ \A p \in DealtTo(s, r) : got(s)[p] = NewStar
  <2>1. PICK f : f = from
    OBVIOUS
  <2>2. plan[1] \in TasksOf("cluster") /\ "cluster" \in Exchange!Tag /\ 1 \in 1..Last
    BY <1>4 DEF TasksOf, Exchange!Tag
  <2>3. \A s : s \in f <=> s \in Rank \ {r} /\ Carried(<<s, r, "cluster">>) # {}
    BY <1>5, <1>9, <2>1
  <2>4. /\ NetOK(K)'
        /\ \A s \in f : /\ got(s) \in [Carried(<<s, r, "cluster">>) -> Star]
                        /\ Content(K, <<s, r, "cluster">>, 1, got(s))
    BY <1>1, <1>2, <1>3, <1>4, <1>7, <2>1, <2>2, <2>3, ReceiveNet
  <2>5. ASSUME NEW s \in f
        PROVE  got(s) \in [DealtTo(s, r) -> Star] /\ \A p \in DealtTo(s, r) : got(s)[p] = NewStar
    <3>1. Carried(<<s, r, "cluster">>) = DealtTo(s, r)
      BY <1>9
    <3> HIDE DEF got
    <3> QED
      BY <1>4, <2>4, <3>1 DEF Content
  <2> HIDE DEF got
  <2> QED
    BY <2>1, <2>4, <2>5
<1>11. hard'[r] \in [Given(r) -> Star] /\ \A p \in Given(r) : hard'[r][p] = NewStar
  <2>1. stars[r][r] \cup UNION {DOMAIN got(s) : s \in from} = Given(r)
    <3>1. \A s \in from : DOMAIN got(s) = DealtTo(s, r)
      BY <1>10
    <3>2. \A s \in Rank : DealtTo(s, r) \subseteq Given(r)
      BY DEF DealtTo, Given
    <3> QED
      BY <1>5, <3>1, <3>2
  <2>2. hard'[r] = [p \in Given(r) |-> IF owner[p] = r THEN sys[p] ELSE got(owner[p])[p]]
    BY <1>1, <1>6, <2>1 DEF TypesOK
  <2>3. ASSUME NEW p \in Given(r) PROVE hard'[r][p] = NewStar
    <3>1. CASE owner[p] = r
      BY <1>1, <1>4, <1>5, <2>2, <3>1 DEF LocalOK
    <3>2. CASE owner[p] # r
      BY <1>5, <1>10, <2>2, <3>2
    <3> QED
      BY <3>1, <3>2
  <2> QED
    BY <2>2, <2>3, NewStarType
<1>12. TypesOK'
    BY <1>1, <1>2, <1>3, <1>6, TypesKept DEF TypesOK
<1>13. DealtOK'
    BY <1>1, <1>2, <1>3, <1>4, DealtKept
<1>14. ~SentBack(r)' /\ ~AllBack(r)' /\ ~Drifted(r)' /\ ~AllBack(r)
    BY <1>4 DEF SentBack, AllBack, Drifted
<1>15. Given(r)' = Given(r) /\ Away(r)' = Away(r) /\ DealtTo(r, r)' = DealtTo(r, r)
    BY <1>3, StaticSame
<1>16. HardOK(K, r)' /\ ListOK(r)'
    BY <1>4, <1>11, <1>14, <1>15 DEF HardOK, ListOK
<1>17. LocalOK(K, r)' /\ AwayOK(K, r)'
    BY <1>1, <1>2, <1>4, <1>14, <1>15 DEF LocalOK, AwayOK
<1> QED
    BY <1>3, <1>4, <1>7, <1>8, <1>10, <1>12, <1>13, <1>16, <1>17, RankKeeps

LEMMA KickStep ==
    ASSUME DealOK, PlanOK, NEW K, ExchangeOK(K), NEW r \in Rank, Exchange!Kick(r)
    PROVE  ExchangeOK(K)'
<1> DEFINE to == Exchange!RankSendPtcl(r)
           new == Exchange!Refreshed(r, Exchange!KickSend(r))
<1>1. /\ StepOK /\ TypesOK /\ DealtOK /\ NetOK(K) /\ HardOK(K, r) /\ LocalOK(K, r) /\ AwayOK(K, r)
      /\ ListOK(r) /\ K \in [Particle -> Kinds]
    BY DEF ExchangeOK
<1>2. /\ Exchange!Doing(r, "kick", "post") /\ Exchange!Posted(r)
      /\ hard' = [hard EXCEPT ![r] = Exchange!KickCluster(r)]
      /\ sys' = Exchange!KickSend(r)
      /\ send' = [send EXCEPT ![r] = new]
      /\ Exchange!Post(r, "single", to, [s \in Rank |-> Exchange!Restricted(new, stars[r][s])])
      /\ UNCHANGED <<graph, plan, id_cluster, mediator, stars, room, dm, mass_modify_list>>
    BY DEF Exchange!Kick, Exchange!graph, graph, Exchange!deal
<1>3. Static
    BY <1>2 DEF Static
<1>4. PICK k \in 1..Last : k = step[r]
    BY <1>1, <1>2, TaskAt
<1>5. /\ k \in Nat /\ k >= 3 /\ k < Last /\ (plan[Last] = "return" => k < Last - 1)
      /\ plan[k] = "kick" /\ half[r] = "post"
    BY <1>1, <1>2, <1>4, TaskAt
<1>6. /\ Moves(r) /\ Reached(r) = k /\ Reached(r)' = k + 1 /\ step'[r] = k /\ half'[r] = "wait"
      /\ Last' = Last /\ plan' = plan /\ Last \in Nat
    BY <1>1, <1>2, <1>3, <1>4, TaskMoves
<1>7. /\ ~Drifted(r) /\ ~SentBack(r) /\ ~AllBack(r) /\ ~Drifted(r)' /\ ~SentBack(r)' /\ ~AllBack(r)'
    BY <1>4, <1>5, <1>6 DEF SentBack, AllBack, Drifted
<1>8. /\ Given(r)' = Given(r) /\ Away(r)' = Away(r) /\ DealtTo(r, r)' = DealtTo(r, r)
      /\ (\A i : Kicks(i)' = Kicks(i)) /\ owner' = owner
    BY <1>3, StaticSame DEF Static, graph
<1>9. Kicks(k) \in Nat /\ Kicks(k + 1) = Kicks(k) + 1
    BY <1>5, PlanFacts
<1>10. /\ to = {s \in Rank \ {r} : DealtTo(r, s) # {}}
       /\ \A s \in Rank : stars[r][s] = DealtTo(r, s)
       /\ DOMAIN send[r] = Away(r) /\ DOMAIN hard[r] = Given(r)
       /\ \A p \in Away(r) : p \in Particle /\ owner[p] = r
       /\ \A p \in Given(r) : p \in Particle
    BY <1>4, <1>5, <1>6, SetsAre
<1>11. \A p \in Away(r) : /\ K[p] \in Kinds
                          /\ K[p] # "cm" => sys[p] = Rec(K[p], Kicks(k)) /\ send[r][p] = sys[p]
                          /\ K[p] = "cm" => /\ sys[p].kind = "cm" /\ Kept(sys[p]) = 1
                                            /\ send[r][p].kind = "cm"
    BY <1>1, <1>4, <1>5, <1>6, <1>7, <1>10 DEF AwayOK
<1>12. ASSUME NEW p \in Away(r)
       PROVE  /\ K[p] # "cm" => sys'[p] = Rec(K[p], Kicks(k + 1)) /\ new[p] = sys'[p]
              /\ K[p] = "cm" => /\ sys'[p] = sys[p] /\ new[p] = send[r][p]
  <2>1. sys[p].kind = K[p] /\ send[r][p].kind = K[p] /\ p \in Particle
    BY <1>9, <1>10, <1>11, RecFacts
  <2>2. sys'[p] = IF sys[p].kind # "cm" THEN Exchange!Kicked(sys[p]) ELSE sys[p]
    BY <1>2, <1>10, <2>1 DEF Exchange!KickSend
  <2>3. new[p] = IF send[r][p].kind # "cm" THEN sys'[p] ELSE send[r][p]
    BY <1>2, <1>10 DEF Exchange!Refreshed
  <2> HIDE DEF new
  <2> QED
    BY <1>9, <1>11, <2>1, <2>2, <2>3, RecFacts
<1>13. \A p \in Particle \ Away(r) : sys'[p] = sys[p]
    BY <1>2, <1>10 DEF Exchange!KickSend
<1>14. sys' \in [Particle -> Star] /\ new \in [Away(r) -> Star]
  <2>1. sys' = [p \in Particle |-> sys'[p]] /\ new = [p \in Away(r) |-> new[p]]
    BY <1>2, <1>10 DEF Exchange!KickSend, Exchange!Refreshed
  <2>2. sys \in [Particle -> Star] /\ send[r] \in [Away(r) -> Star]
    BY <1>1, <1>5, <1>6 DEF TypesOK, AwayOK
  <2>3. ASSUME NEW p \in Away(r) PROVE sys'[p] \in Star /\ new[p] \in Star
    <3> HIDE DEF new
    <3> QED
      BY <1>9, <1>10, <1>11, <1>12, <2>2, RecFacts
  <2> HIDE DEF new
  <2>4. \A p \in Particle : sys'[p] \in Star
    BY <1>13, <2>2, <2>3
  <2> QED
    BY <2>1, <2>3, <2>4
<1>15. send'[r] = new
    BY <1>1, <1>2 DEF TypesOK
<1>16. ASSUME NEW p \in Given(r)
       PROVE  /\ hard'[r] = [q \in Given(r) |-> hard'[r][q]]
              /\ hard'[r][p] = Rec(K[p], IF K[p] = "cm" \/ owner[p] = r THEN Kicks(k + 1) ELSE Kicks(k))
              /\ hard'[r][p] \in Star
  <2>1. hard'[r] = Exchange!KickCluster(r)
    BY <1>1, <1>2 DEF TypesOK
  <2>2. hard[r][p] = Rec(K[p], Kicks(k)) /\ K[p] \in Kinds
    BY <1>1, <1>4, <1>5, <1>6, <1>7, <1>10 DEF HardOK
  <2>3. hard'[r][p] = LET star == hard[r][p]
                      IN  IF star.kind = "cm" THEN Exchange!Kicked(Exchange!Recovered(star))
                          ELSE IF owner[p] = r THEN Exchange!Kicked(star) ELSE star
    BY <1>10, <2>1 DEF Exchange!KickCluster
  <2>4. hard'[r] = [q \in Given(r) |-> hard'[r][q]]
    BY <1>10, <2>1 DEF Exchange!KickCluster
  <2>5. hard[r][p].kind = K[p]
    BY <1>9, <2>2, RecFacts
  <2>6. hard'[r][p] = Rec(K[p], IF K[p] = "cm" \/ owner[p] = r THEN Kicks(k + 1) ELSE Kicks(k))
    <3>1. CASE K[p] = "cm"
      BY <1>9, <2>2, <2>3, <2>5, <3>1, RecFacts
    <3>2. CASE K[p] # "cm" /\ owner[p] = r
      BY <1>9, <2>2, <2>3, <2>5, <3>2, RecFacts
    <3>3. CASE K[p] # "cm" /\ owner[p] # r
      BY <2>2, <2>3, <2>5, <3>3
    <3> QED
      BY <3>1, <3>2, <3>3
  <2>7. hard'[r][p] \in Star
    BY <1>9, <2>2, <2>6, RecFacts
  <2> QED
    BY <2>4, <2>6, <2>7
<1>17. \A s \in Rank : Remains(s)
    BY <1>1, <1>2, <1>7 DEF Remains, TypesOK
<1>18. OnlyRank(r)
  <2>1. \A p \in Particle : owner[p] # r => p \notin Away(r)
    BY <1>10
  <2> QED
    BY <1>1, <1>2, <1>3, <1>6, <1>13, <2>1, MovesFacts DEF OnlyRank, TypesOK
<1>19. TypesOK'
  <2>1. \A p \in Particle \ Shared : p \notin Away(r)
    BY DEF Away
  <2> QED
    BY <1>1, <1>2, <1>3, <1>13, <1>14, <2>1, TypesKept DEF TypesOK
<1>20. DealtOK'
    BY <1>1, <1>2, <1>3, <1>5, <1>6, DealtKept
<1>21. NetOK(K)'
  <2>1. PICK data : data = [s \in Rank |-> Exchange!Restricted(new, stars[r][s])]
    OBVIOUS
  <2>2. PICK t : t = to
    OBVIOUS
  <2>3. Exchange!Post(r, "single", t, data)
    BY <1>2, <2>1, <2>2
  <2>4. \A s \in Rank : Carried(<<r, s, "single">>) = DealtTo(r, s)
    BY DEF Carried
  <2>5. ASSUME NEW s \in Rank \ {r}
        PROVE  /\ data[s] \in [Carried(<<r, s, "single">>) -> Star]
               /\ \A d : d = data[s] => Content(K, <<r, s, "single">>, k, d)'
    <3>1. data[s] = [p \in DealtTo(r, s) |-> new[p]]
      BY <1>10, <2>1 DEF Exchange!Restricted
    <3>2. DealtTo(r, s) \subseteq Away(r)
      BY DEF DealtTo, Away
    <3> HIDE DEF new
    <3>3. \A p \in DealtTo(r, s) : /\ K[p] # "cm" => data[s][p] = Rec(K[p], Kicks(k + 1))
                                   /\ K[p] = "cm" => data[s][p].kind = "cm"
      BY <1>11, <1>12, <3>1, <3>2
    <3>4. Carried(<<r, s, "single">>)' = DealtTo(r, s)
      BY <1>3, <2>4, StaticSame
    <3>5. \A d : d = data[s] => Content(K, <<r, s, "single">>, k, d)'
      BY <1>5, <1>6, <1>8, <3>3, <3>4 DEF Content
    <3> QED
      BY <1>14, <2>4, <3>1, <3>2, <3>5
  <2>6. plan[k] \in TasksOf("single") /\ "single" \in Exchange!Tag
    BY <1>5 DEF TasksOf, Exchange!Tag
  <2>7. \A s \in Rank \ {r} : s \in t <=> Carried(<<r, s, "single">>) # {}
    BY <1>10, <2>2, <2>4
  <2> QED
    BY <1>1, <1>2, <1>3, <1>4, <1>5, <1>17, <2>3, <2>5, <2>6, <2>7, PostNet
<1>22. HardOK(K, r)'
  <2>1. hard'[r] = [q \in Given(r) |-> hard'[r][q]]
    BY <1>1, <1>2, <1>10 DEF TypesOK, Exchange!KickCluster
  <2>2. hard'[r] \in [Given(r) -> Star]
    BY <1>16, <2>1
  <2>3. Kicks(Reached(r))' = Kicks(k + 1) /\ Kicks(step[r])' = Kicks(k)
    BY <1>6, <1>8 DEF Kicks, Count
  <2>4. \A p \in Given(r) : hard'[r][p] =
            Rec(K[p], IF K[p] = "cm" \/ owner[p] = r THEN Kicks(k + 1) ELSE Kicks(k))
    BY <1>16
  <2> QED
    BY <1>5, <1>6, <1>7, <1>8, <2>2, <2>3, <2>4 DEF HardOK
<1>23. LocalOK(K, r)'
  <2>1. \A p \in DealtTo(r, r) : p \in Particle /\ sys'[p] = sys[p]
    BY <1>13, SharedFacts DEF DealtTo, Away
  <2>2. plan[k + 1 - 1] # "output"
    BY <1>5
  <2> QED
    BY <1>1, <1>5, <1>6, <1>7, <1>8, <2>1, <2>2 DEF LocalOK
<1>24. AwayOK(K, r)'
  <2> HIDE DEF new
  <2> QED
    BY <1>5, <1>6, <1>7, <1>8, <1>11, <1>12, <1>14, <1>15 DEF AwayOK
<1>25. ListOK(r)'
    BY <1>1, <1>2, <1>4, <1>5, <1>6, <1>7 DEF ListOK
<1> QED
    BY <1>3, <1>6, <1>17, <1>18, <1>19, <1>20, <1>21, <1>22, <1>23, <1>24, <1>25, RankKeeps

LEMMA RecvSingleStep ==
    ASSUME DealOK, PlanOK, NEW K, ExchangeOK(K), NEW r \in Rank, Exchange!RecvSingle(r)
    PROVE  ExchangeOK(K)'
<1> DEFINE from == Exchange!RankRecvPtcl(r)
           got(s) == Exchange!Got(r, "single", s)
<1>1. /\ StepOK /\ TypesOK /\ DealtOK /\ NetOK(K) /\ HardOK(K, r) /\ LocalOK(K, r) /\ AwayOK(K, r)
      /\ ListOK(r) /\ K \in [Particle -> Kinds]
    BY DEF ExchangeOK
<1>2. /\ Exchange!Doing(r, "kick", "wait") /\ Exchange!Finished(r)
      /\ Exchange!Arrived(r, "single", from) /\ Exchange!Receive(r, "single", from)
      /\ UNCHANGED <<graph, plan, id_cluster, mediator, stars, room, sys, send, dm, mass_modify_list>>
    BY DEF Exchange!RecvSingle, Exchange!graph, graph, Exchange!deal
<1>3. Static
    BY <1>2 DEF Static
<1>4. PICK k \in 1..Last : k = step[r]
    BY <1>1, <1>2, TaskAt
<1>5. /\ k \in Nat /\ k >= 3 /\ k < Last /\ (plan[Last] = "return" => k < Last - 1)
      /\ plan[k] = "kick" /\ half[r] = "wait"
    BY <1>1, <1>2, <1>4, TaskAt
<1>6. /\ Moves(r) /\ Reached(r) = k + 1 /\ Reached(r)' = k + 1 /\ step'[r] = k + 1
      /\ half'[r] = "post" /\ Last' = Last /\ plan' = plan /\ Last \in Nat
    BY <1>1, <1>2, <1>3, <1>4, TaskMoves
<1>7. /\ ~Drifted(r) /\ ~SentBack(r) /\ ~AllBack(r) /\ ~Drifted(r)' /\ ~SentBack(r)' /\ ~AllBack(r)'
    BY <1>4, <1>5, <1>6 DEF SentBack, AllBack, Drifted
<1>8. /\ Given(r)' = Given(r) /\ Away(r)' = Away(r) /\ DealtTo(r, r)' = DealtTo(r, r)
      /\ (\A i : Kicks(i)' = Kicks(i)) /\ owner' = owner
    BY <1>3, StaticSame DEF Static, graph
<1>9. Kicks(k) \in Nat /\ Kicks(k + 1) \in Nat
    BY <1>5, PlanFacts
<1>10. /\ from = {s \in Rank \ {r} : DealtTo(s, r) # {}}
       /\ DOMAIN hard[r] = Given(r) /\ Exchange!Remote(r) = {p \in Given(r) : owner[p] # r}
       /\ \A p \in Given(r) : /\ p \in Particle /\ owner[p] \in Rank /\ p \in DealtTo(owner[p], r)
                              /\ owner[p] # r => owner[p] \in from
    BY <1>4, <1>5, <1>6, SetsAre
<1>11. \A s \in Rank : Remains(s)
    BY <1>1, <1>2, <1>7 DEF Exchange!RecvSingle, Remains, TypesOK
<1>12. OnlyRank(r)
    BY <1>1, <1>2, <1>3, <1>6, MovesFacts DEF Exchange!RecvSingle, OnlyRank, TypesOK
<1>13. /\ NetOK(K)'
       /\ \A s \in from : \A p \in DealtTo(s, r) : K[p] # "cm" => got(s)[p] = Rec(K[p], Kicks(k + 1))
  <2>1. PICK f : f = from
    OBVIOUS
  <2>2. plan[k] \in TasksOf("single") /\ "single" \in Exchange!Tag
    BY <1>5 DEF TasksOf, Exchange!Tag
  <2>3. \A s : Carried(<<s, r, "single">>) = DealtTo(s, r)
    BY DEF Carried
  <2>4. \A s : s \in f <=> s \in Rank \ {r} /\ Carried(<<s, r, "single">>) # {}
    BY <1>10, <2>1, <2>3
  <2>5. NetOK(K)' /\ \A s \in f : Content(K, <<s, r, "single">>, k, got(s))
    BY <1>1, <1>2, <1>3, <1>4, <1>5, <1>11, <2>1, <2>2, <2>4, ReceiveNet
  <2> HIDE DEF got
  <2>6. ASSUME NEW s \in f, NEW p \in DealtTo(s, r), K[p] # "cm"
        PROVE  got(s)[p] = Rec(K[p], Kicks(k + 1))
    BY <1>5, <2>3, <2>5, <2>6 DEF Content
  <2> QED
    BY <2>1, <2>5, <2>6
<1>14. hard'[r] = [p \in Given(r) |->
                     IF p \in Exchange!Taken(r) THEN got(owner[p])[p] ELSE hard[r][p]]
    BY <1>1, <1>10 DEF Exchange!RecvSingle, TypesOK
<1>15. ASSUME NEW p \in Given(r)
       PROVE  hard'[r][p] = Rec(K[p], Kicks(k + 1)) /\ hard'[r][p] \in Star
  <2>1. /\ hard[r][p] = Rec(K[p], IF K[p] = "cm" \/ owner[p] = r THEN Kicks(k + 1) ELSE Kicks(k))
        /\ K[p] \in Kinds
    BY <1>1, <1>4, <1>5, <1>6, <1>7, <1>10 DEF HardOK
  <2>2. hard[r][p].kind = K[p]
    BY <1>9, <2>1, RecFacts
  <2>3. p \in Exchange!Taken(r) <=> owner[p] # r /\ K[p] # "cm"
    BY <1>10, <2>2 DEF Exchange!Taken
  <2>4. hard'[r][p] = Rec(K[p], Kicks(k + 1))
    <3> HIDE DEF got
    <3>1. CASE owner[p] # r /\ K[p] # "cm"
      BY <1>10, <1>13, <1>14, <2>3, <3>1
    <3>2. CASE ~(owner[p] # r /\ K[p] # "cm")
      BY <1>14, <2>1, <2>3, <3>2
    <3> QED
      BY <3>1, <3>2
  <2> QED
    BY <1>9, <2>1, <2>4, RecFacts
<1>16. hard'[r] \in [Given(r) -> Star]
  <2> HIDE DEF got
  <2> QED
    BY <1>14, <1>15
<1>17. TypesOK'
    BY <1>1, <1>2, <1>3, TypesKept DEF Exchange!RecvSingle, TypesOK
<1>18. DealtOK'
    BY <1>1, <1>2, <1>3, <1>5, <1>6, DealtKept
<1>19. HardOK(K, r)'
    BY <1>5, <1>6, <1>7, <1>8, <1>15, <1>16 DEF HardOK
<1>20. LocalOK(K, r)'
    BY <1>1, <1>2, <1>5, <1>6, <1>7, <1>8 DEF LocalOK
<1>21. AwayOK(K, r)'
  <2>1. plan[k + 1 - 1] # "output"
    BY <1>5
  <2> QED
    BY <1>1, <1>2, <1>4, <1>5, <1>6, <1>7, <1>8, <2>1 DEF AwayOK
<1>22. ListOK(r)'
    BY <1>1, <1>2, <1>4, <1>5, <1>6, <1>7 DEF ListOK
<1> QED
    BY <1>3, <1>6, <1>11, <1>12, <1>13, <1>17, <1>18, <1>19, <1>20, <1>21, <1>22, RankKeeps

\* A rank starts to send its copies home: after it has found groups, for an
\* output, or after a drift.
LEMMA PostBackNet ==
    ASSUME DealOK, PlanOK, Static, NEW K, ExchangeOK(K), NEW r \in Rank,
           NEW k \in 2..Last, k = step[r], half[r] = "post", plan[k] \in TasksOf("back"),
           NEW rec, Exchange!Posted(r), Exchange!PostBack(r, rec), \A s \in Rank : Remains(s),
           \A p \in Given(r) :
              /\ rec[p] \in Star
              /\ plan[k] = "groups" => rec[p] = Rec(K[p], 0)
              /\ plan[k] = "output" => rec[p] = Rec(K[p], Kicks(k))
              /\ plan[k] = "return" => rec[p] = hard'[r][p]
    PROVE  NetOK(K)'
<1> DEFINE copies(s) == {p \in Exchange!Remote(r) : owner[p] = s}
<1>1. StepOK /\ NetOK(K) /\ k \in Nat /\ k > 1 /\ Last \in Nat
    BY PlanFacts DEF ExchangeOK
<1>2. Reached(r) = k /\ plan' = plan
    BY DEF Reached, Static
<1>3. /\ Exchange!RankRecvPtcl(r) = {s \in Rank \ {r} : DealtTo(s, r) # {}}
      /\ \A s \in Rank \ {r} : copies(s) = DealtTo(s, r)
    BY <1>1, <1>2, SetsAre
<1>4. PICK to : to = Exchange!RankRecvPtcl(r)
    OBVIOUS
<1>5. PICK data : data = [s \in Rank |-> Exchange!Restricted(rec, copies(s))]
    OBVIOUS
<1>6. Exchange!Post(r, "back", to, data)
    BY <1>4, <1>5 DEF Exchange!PostBack
<1>7. \A s \in Rank : Carried(<<r, s, "back">>) = DealtTo(s, r)
    BY DEF Carried
<1>8. ASSUME NEW s \in Rank \ {r}
      PROVE  /\ data[s] \in [Carried(<<r, s, "back">>) -> Star]
             /\ \A d : d = data[s] => Content(K, <<r, s, "back">>, k, d)'
  <2>1. data[s] = [p \in DealtTo(s, r) |-> rec[p]]
    BY <1>3, <1>5 DEF Exchange!Restricted
  <2>2. DealtTo(s, r) \subseteq Given(r)
    BY DEF DealtTo, Given
  <2>3. Carried(<<r, s, "back">>)' = DealtTo(s, r) /\ Kicks(k)' = Kicks(k)
    BY <1>7, StaticSame
  <2>4. plan[k] \notin {"exchange", "kick"}
    BY DEF TasksOf
  <2>5. \A p \in DealtTo(s, r) : /\ plan[k] = "groups" => data[s][p] = Rec(K[p], 0)
                                 /\ plan[k] = "output" => data[s][p] = Rec(K[p], Kicks(k))
                                 /\ plan[k] = "return" => data[s][p] = hard'[r][p]
    BY <2>1, <2>2
  <2>6. \A d : d = data[s] => Content(K, <<r, s, "back">>, k, d)'
    BY <1>2, <2>3, <2>4, <2>5 DEF Content
  <2> QED
    BY <1>7, <2>1, <2>2, <2>6
<1>9. \A s \in Rank \ {r} : s \in to <=> Carried(<<r, s, "back">>) # {}
    BY <1>3, <1>4, <1>7
<1>10. "back" \in Exchange!Tag /\ k \in 1..Last
    BY <1>1 DEF Exchange!Tag
<1> QED
    BY <1>1, <1>6, <1>8, <1>9, <1>10, PostNet

\* What comes home
LEMMA GetBackNet ==
    ASSUME DealOK, PlanOK, Static, NEW K, ExchangeOK(K), NEW r \in Rank,
           NEW k \in 2..Last, k = step[r], half[r] = "wait", plan[k] \in TasksOf("back"),
           Exchange!Finished(r), Exchange!Arrived(r, "back", Exchange!RankSendPtcl(r)),
           Exchange!Receive(r, "back", Exchange!RankSendPtcl(r)), \A s \in Rank : Remains(s)
    PROVE  /\ NetOK(K)' /\ Exchange!Back(r) \in [Away(r) -> Star]
           /\ \A p \in Away(r) :
                 /\ plan[k] = "groups" => Exchange!Back(r)[p] = Rec(K[p], 0)
                 /\ plan[k] = "output" => Exchange!Back(r)[p] = Rec(K[p], Kicks(k))
                 /\ plan[k] = "return" => \E h \in Rank :
                       h = HardRank(p) /\ k < Reached(h) /\ Exchange!Back(r)[p] = hard[h][p]
<1> DEFINE got(s) == Exchange!Got(r, "back", s)
<1>1. StepOK /\ NetOK(K) /\ k \in Nat /\ k > 1 /\ Last \in Nat
    BY PlanFacts DEF ExchangeOK
<1>2. Reached(r) > 1
    BY <1>1, ReachedType
<1>3. /\ Exchange!RankSendPtcl(r) = {s \in Rank \ {r} : DealtTo(r, s) # {}}
      /\ DOMAIN send[r] = Away(r)
      /\ \A p \in Away(r) :
            /\ Exchange!RankWith(r, p) = HardRank(p) /\ p \in DealtTo(r, HardRank(p))
            /\ HardRank(p) \in Rank \ {r} /\ HardRank(p) \in Exchange!RankSendPtcl(r)
    BY <1>2, SetsAre
<1>4. PICK from : from = Exchange!RankSendPtcl(r)
    OBVIOUS
<1>5. \A s : Carried(<<s, r, "back">>) = DealtTo(r, s)
    BY DEF Carried
<1>6. \A s : s \in from <=> s \in Rank \ {r} /\ Carried(<<s, r, "back">>) # {}
    BY <1>3, <1>4, <1>5
<1>7. "back" \in Exchange!Tag /\ k \in 1..Last
    BY <1>1 DEF Exchange!Tag
<1>8. /\ NetOK(K)'
      /\ \A s \in from : /\ got(s) \in [Carried(<<s, r, "back">>) -> Star]
                         /\ Content(K, <<s, r, "back">>, k, got(s)) /\ k < Reached(s)
    BY <1>1, <1>4, <1>6, <1>7, ReceiveNet
<1>9. Exchange!Back(r) = [p \in Away(r) |-> got(Exchange!RankWith(r, p))[p]]
    BY <1>3 DEF Exchange!Back
<1> HIDE DEF got
<1>10. ASSUME NEW p \in Away(r)
       PROVE  /\ Exchange!Back(r)[p] \in Star
              /\ plan[k] = "groups" => Exchange!Back(r)[p] = Rec(K[p], 0)
              /\ plan[k] = "output" => Exchange!Back(r)[p] = Rec(K[p], Kicks(k))
              /\ plan[k] = "return" => \E h \in Rank :
                    h = HardRank(p) /\ k < Reached(h) /\ Exchange!Back(r)[p] = hard[h][p]
  <2>1. PICK h \in Rank \ {r} : h = HardRank(p) /\ h \in from /\ p \in DealtTo(r, h)
    BY <1>3, <1>4
  <2>2. Exchange!Back(r)[p] = got(h)[p]
    BY <1>3, <1>9, <2>1
  <2>3. p \in Carried(<<h, r, "back">>) /\ got(h) \in [Carried(<<h, r, "back">>) -> Star]
    BY <1>5, <1>8, <2>1
  <2>4. Content(K, <<h, r, "back">>, k, got(h)) /\ k < Reached(h)
    BY <1>8, <2>1
  <2>5. /\ plan[k] = "groups" => got(h)[p] = Rec(K[p], 0)
        /\ plan[k] = "output" => got(h)[p] = Rec(K[p], Kicks(k))
        /\ plan[k] = "return" => got(h)[p] = hard[h][p]
    BY <2>3, <2>4 DEF Content
  <2> QED
    BY <2>1, <2>2, <2>3, <2>4, <2>5
<1>11. Exchange!Back(r) \in [Away(r) -> Star]
    BY <1>9, <1>10
<1> QED
    BY <1>8, <1>10, <1>11

LEMMA MassBkIs == \A p \in Particle : Exchange!MassBk[p] = Kept(sys[p])
BY DEF Exchange!MassBk, Kept

\* writeAndSendBackPtcl for an output or after a drift: its own stars are home.
LEMMA WriteAndSendStep ==
    ASSUME DealOK, PlanOK, NEW K, ExchangeOK(K), NEW r \in Rank, NEW task \in {"output", "return"},
           Exchange!WriteAndSend(r, task)
    PROVE  ExchangeOK(K)'
<1>1. /\ StepOK /\ TypesOK /\ DealtOK /\ NetOK(K) /\ HardOK(K, r) /\ LocalOK(K, r) /\ AwayOK(K, r)
      /\ ListOK(r) /\ K \in [Particle -> Kinds]
    BY DEF ExchangeOK
<1>2. /\ Exchange!Doing(r, task, "post") /\ Exchange!Posted(r)
      /\ Exchange!Home(Exchange!Local(r), hard[r], Exchange!MassBk)
      /\ mass_modify_list' = [mass_modify_list EXCEPT ![r] =
                                 Exchange!Listed(r, Exchange!Local(r), hard[r], Exchange!MassBk)]
      /\ Exchange!PostBack(r, hard[r])
      /\ UNCHANGED <<graph, plan, id_cluster, mediator, stars, room, hard, send>>
    BY DEF Exchange!WriteAndSend, Exchange!graph, graph, Exchange!deal
<1>3. Static
    BY <1>2 DEF Static
<1>4. PICK k \in 1..Last : k = step[r]
    BY <1>1, <1>2, TaskAt
<1>5. /\ k \in Nat /\ k > 3 /\ plan[k] = task /\ half[r] = "post"
      /\ task = "output" => (plan[Last] = "return" => k < Last - 1)
      /\ task = "return" => k = Last /\ plan[Last] = "return"
    BY <1>1, <1>2, <1>4, TaskAt, PlanFacts
<1>6. /\ Moves(r) /\ Reached(r) = k /\ Reached(r)' = k + 1 /\ step'[r] = k /\ half'[r] = "wait"
      /\ Last' = Last /\ plan' = plan /\ Last \in Nat
    BY <1>1, <1>2, <1>3, <1>4, TaskMoves
<1>7. /\ ~SentBack(r) /\ ~AllBack(r) /\ ~AllBack(r)'
      /\ task = "output" => ~Drifted(r) /\ ~Drifted(r)' /\ ~SentBack(r)'
      /\ task = "return" => Drifted(r) /\ Drifted(r)' /\ SentBack(r)'
    BY <1>4, <1>5, <1>6 DEF SentBack, AllBack, Drifted
<1>8. /\ Given(r)' = Given(r) /\ Away(r)' = Away(r) /\ DealtTo(r, r)' = DealtTo(r, r)
      /\ (\A i : Kicks(i)' = Kicks(i)) /\ owner' = owner
    BY <1>3, StaticSame DEF Static, graph
<1>9. Kicks(k) \in Nat /\ Kicks(k) > 0 /\ Kicks(k + 1) = Kicks(k)
    BY <1>5, PlanFacts
<1>10. /\ Exchange!Local(r) = DealtTo(r, r) /\ DealtTo(r, r) \subseteq Given(r)
       /\ \A p \in Given(r) : p \in Particle
       /\ \A p \in DealtTo(r, r) : p \in Shared /\ owner[p] = r /\ p \notin Away(r)
    BY <1>4, <1>5, <1>6, SetsAre, OwnParts DEF DealtTo
<1>11. \A p \in Given(r) : /\ hard[r][p] \in Star /\ K[p] \in Kinds
                           /\ task = "output" => hard[r][p] = Rec(K[p], Kicks(k))
    BY <1>1, <1>4, <1>5, <1>6, <1>7, <1>10 DEF HardOK
<1>12. ASSUME NEW p \in DealtTo(r, r)
       PROVE  /\ sys'[p] = hard[r][p] /\ dm'[p] = hard[r][p].mass - 1 /\ Exchange!MassBk[p] = 1
              /\ sys'[p] \in Star /\ dm'[p] \in Int
  <2>1. p \in Particle /\ sys[p].kind = K[p] /\ Kept(sys[p]) = 1 /\ hard[r][p] \in Star
    BY <1>1, <1>5, <1>6, <1>7, <1>10, <1>11 DEF LocalOK
  <2>2. Exchange!MassBk[p] = 1
    BY <2>1, MassBkIs
  <2>3. sys'[p] = hard[r][p] /\ dm'[p] = hard[r][p].mass - Exchange!MassBk[p]
    BY <1>2, <1>10, <2>1 DEF Exchange!Home
  <2>4. hard[r][p].mass \in Int
    BY <2>1 DEF Star
  <2> QED
    BY <2>1, <2>2, <2>3, <2>4
<1>13. /\ sys' = [p \in Particle |-> sys'[p]] /\ dm' = [p \in Particle |-> dm'[p]]
       /\ \A p \in Particle : p \notin DealtTo(r, r) => sys'[p] = sys[p] /\ dm'[p] = dm[p]
    BY <1>2, <1>10 DEF Exchange!Home
<1>14. mass_modify_list'[r] = {p \in DealtTo(r, r) : hard[r][p].mass # 1}
  <2>1. mass_modify_list[r] = {}
    BY <1>1, <1>4, <1>5, <1>7 DEF ListOK
  <2>2. mass_modify_list'[r] =
           mass_modify_list[r] \cup {p \in DealtTo(r, r) : hard[r][p].mass # Exchange!MassBk[p]}
    BY <1>1, <1>2, <1>10 DEF Exchange!Listed, TypesOK
  <2>3. \A p \in DealtTo(r, r) : Exchange!MassBk[p] = 1
    BY <1>12
  <2> QED
    BY <2>1, <2>2, <2>3
<1>15. \A s \in Rank : Remains(s)
    BY <1>2 DEF Remains
<1>16. OnlyRank(r)
  <2>1. \A p \in Particle : owner[p] # r => sys'[p] = sys[p] /\ dm'[p] = dm[p]
    BY <1>10, <1>13
  <2> QED
    BY <1>1, <1>2, <1>3, <1>6, <2>1, MovesFacts DEF OnlyRank, TypesOK
<1>17. TypesOK'
  <2>1. sys' \in [Particle -> Star] /\ dm' \in [Particle -> Int]
    <3>1. \A p \in Particle : sys'[p] \in Star /\ dm'[p] \in Int
      BY <1>1, <1>12, <1>13 DEF TypesOK
    <3> QED
      BY <1>13, <3>1
  <2>2. \A p \in Particle \ Shared : sys'[p] = sys[p]
    BY <1>10, <1>13
  <2> QED
    BY <1>1, <1>2, <1>3, <2>1, <2>2, TypesKept DEF TypesOK
<1>18. DealtOK'
    BY <1>1, <1>2, <1>3, <1>5, <1>6, DealtKept
<1>19. NetOK(K)'
  <2>1. PICK rec : rec = hard[r]
    OBVIOUS
  <2>2. Exchange!PostBack(r, rec)
    BY <1>2, <2>1
  <2>3. plan[k] \in TasksOf("back") /\ k \in 2..Last /\ plan[k] # "groups"
    BY <1>4, <1>5 DEF TasksOf
  <2>4. \A p \in Given(r) : /\ rec[p] \in Star
                            /\ plan[k] = "output" => rec[p] = Rec(K[p], Kicks(k))
                            /\ plan[k] = "return" => rec[p] = hard'[r][p]
    BY <1>2, <1>5, <1>11, <2>1
  <2> QED
    BY <1>2, <1>3, <1>4, <1>5, <1>15, <2>2, <2>3, <2>4, PostBackNet
<1>20. HardOK(K, r)'
  <2>1. Kicks(Reached(r))' = Kicks(k) /\ Kicks(step[r])' = Kicks(k) /\ Kicks(Last)' = Kicks(Last)
    BY <1>3, <1>6, <1>8, <1>9 DEF Kicks, Count, Static
  <2>2. hard'[r] \in [Given(r) -> Star]
    BY <1>1, <1>2, <1>4, <1>5 DEF HardOK
  <2>3. task = "return" => \A p \in Given(r) : /\ hard[r][p].kind = "single" /\ hard[r][p].drifts = 1
                                               /\ hard[r][p].kicks = Kicks(Last)
    BY <1>1, <1>4, <1>5, <1>7 DEF HardOK
  <2>4. CASE task = "output"
    BY <1>2, <1>5, <1>6, <1>7, <1>8, <1>11, <2>1, <2>2, <2>4 DEF HardOK
  <2>5. CASE task = "return"
    BY <1>2, <1>5, <1>6, <1>7, <1>8, <2>1, <2>2, <2>3, <2>5 DEF HardOK
  <2> QED
    BY <2>4, <2>5
<1>21. LocalOK(K, r)'
  <2>1. Kicks(Reached(r))' = Kicks(k)
    BY <1>3, <1>6, <1>8, <1>9 DEF Kicks, Count, Static
  <2>2. ASSUME NEW p \in DealtTo(r, r), task = "output"
        PROVE  /\ sys'[p] = Rec(K[p], Kicks(k)) /\ dm'[p] = 0
               /\ sys'[p].kind = K[p] /\ Kept(sys'[p]) = 1
    <3>1. p \in Given(r) /\ hard[r][p] = Rec(K[p], Kicks(k)) /\ K[p] \in Kinds
      BY <1>10, <1>11, <2>2
    <3>2. sys'[p] = Rec(K[p], Kicks(k)) /\ dm'[p] = Rec(K[p], Kicks(k)).mass - 1
      BY <1>12, <3>1
    <3> QED
      BY <1>9, <3>1, <3>2, RecFacts
  <2>3. k + 1 - 1 = k
    BY <1>5
  <2>4. CASE task = "output"
    BY <1>5, <1>6, <1>7, <1>8, <2>1, <2>2, <2>3, <2>4 DEF LocalOK
  <2>5. CASE task = "return"
    BY <1>2, <1>5, <1>6, <1>7, <1>8, <1>12, <2>3, <2>5 DEF LocalOK
  <2> QED
    BY <2>4, <2>5
<1>22. AwayOK(K, r)'
  <2>1. \A p \in Away(r) : p \in Particle /\ p \notin DealtTo(r, r)
    BY SharedFacts DEF Away, DealtTo
  <2>2. Kicks(Reached(r))' = Kicks(Reached(r))
    BY <1>3, <1>6, <1>8, <1>9 DEF Kicks, Count, Static
  <2> QED
    BY <1>1, <1>2, <1>4, <1>5, <1>6, <1>7, <1>8, <1>13, <2>1, <2>2 DEF AwayOK
<1>23. ListOK(r)'
  <2>1. task = "output" => mass_modify_list'[r] = {}
    <3> SUFFICES ASSUME task = "output", NEW p \in DealtTo(r, r) PROVE hard[r][p].mass = 1
      BY <1>14
    <3>1. p \in Given(r) /\ hard[r][p] = Rec(K[p], Kicks(k)) /\ K[p] \in Kinds
      BY <1>10, <1>11
    <3> QED
      BY <1>9, <3>1, RecFacts
  <2>2. CASE task = "output"
    BY <1>6, <1>7, <2>1, <2>2 DEF ListOK
  <2>3. CASE task = "return"
    BY <1>2, <1>6, <1>7, <1>8, <1>14, <2>3 DEF ListOK
  <2> QED
    BY <2>2, <2>3
<1> QED
    BY <1>3, <1>6, <1>15, <1>16, <1>17, <1>18, <1>19, <1>20, <1>21, <1>22, <1>23, RankKeeps

\* The second half: the stars that were away are home.
LEMMA GetBackStep ==
    ASSUME DealOK, PlanOK, NEW K, ExchangeOK(K), NEW r \in Rank,
           NEW task \in {"groups", "output", "return"}, Exchange!GetBack(r, task),
           NEW list, mass_modify_list' = [mass_modify_list EXCEPT ![r] = list],
           task # "return" => list = {},
           task = "return" => list = Exchange!Listed(r, DOMAIN send[r], Exchange!Back(r), Exchange!MassBk)
    PROVE  ExchangeOK(K)'
<1> DEFINE back == Exchange!Back(r)
<1>1. /\ StepOK /\ TypesOK /\ DealtOK /\ NetOK(K) /\ HardOK(K, r) /\ LocalOK(K, r) /\ AwayOK(K, r)
      /\ ListOK(r) /\ K \in [Particle -> Kinds]
    BY DEF ExchangeOK
<1>2. /\ Exchange!Doing(r, task, "wait") /\ Exchange!Finished(r)
      /\ Exchange!Arrived(r, "back", Exchange!RankSendPtcl(r))
      /\ Exchange!Receive(r, "back", Exchange!RankSendPtcl(r))
      /\ send' = [send EXCEPT ![r] = back]
      /\ Exchange!Home(DOMAIN send[r], back, Exchange!MassBk)
      /\ UNCHANGED <<graph, plan, id_cluster, mediator, stars, room, hard>>
    BY DEF Exchange!GetBack, Exchange!graph, graph, Exchange!deal
<1>3. Static
    BY <1>2 DEF Static
<1>4. PICK k \in 1..Last : k = step[r]
    BY <1>1, <1>2, TaskAt
<1>5. /\ k \in Nat /\ k >= 2 /\ plan[k] = task /\ half[r] = "wait"
      /\ task = "groups" => k = 2
      /\ task # "groups" => k > 3
      /\ task = "output" => (plan[Last] = "return" => k < Last - 1)
      /\ task = "return" => k = Last /\ plan[Last] = "return"
    BY <1>1, <1>2, <1>4, TaskAt, PlanFacts
<1>6. /\ Moves(r) /\ Reached(r) = k + 1 /\ Reached(r)' = k + 1 /\ step'[r] = k + 1
      /\ half'[r] = "post" /\ Last' = Last /\ plan' = plan /\ Last \in Nat /\ Last >= 4
    BY <1>1, <1>2, <1>3, <1>4, TaskMoves
<1>7. /\ ~AllBack(r)
      /\ task # "return" => /\ ~Drifted(r) /\ ~SentBack(r) /\ ~Drifted(r)' /\ ~SentBack(r)'
                            /\ ~AllBack(r)'
      /\ task = "return" => /\ Drifted(r) /\ SentBack(r) /\ Drifted(r)' /\ SentBack(r)'
                            /\ AllBack(r)'
    BY <1>4, <1>5, <1>6 DEF SentBack, AllBack, Drifted
<1>8. /\ Given(r)' = Given(r) /\ Away(r)' = Away(r) /\ DealtTo(r, r)' = DealtTo(r, r)
      /\ (\A i : Kicks(i)' = Kicks(i)) /\ owner' = owner /\ Own(r)' = Own(r)
      /\ \A p : HardRank(p)' = HardRank(p)
    BY <1>3, StaticSame DEF Static, graph
<1>9. /\ Kicks(k) \in Nat /\ Kicks(k + 1) = Kicks(k)
      /\ (task # "groups" => Kicks(k) > 0) /\ (task = "groups" => Kicks(k) = 0)
    BY <1>5, PlanFacts
<1>10. /\ DOMAIN send[r] = Away(r)
       /\ \A p \in Away(r) : p \in Particle /\ owner[p] = r /\ p \in Shared /\ p \notin DealtTo(r, r)
    BY <1>5, <1>6, SetsAre DEF Away, DealtTo
<1>11. \A s \in Rank : Remains(s)
    BY <1>2 DEF Remains
<1>12. /\ NetOK(K)' /\ back \in [Away(r) -> Star]
       /\ \A p \in Away(r) :
             /\ task = "groups" => back[p] = Rec(K[p], 0)
             /\ task = "output" => back[p] = Rec(K[p], Kicks(k))
             /\ task = "return" => \E h \in Rank :
                   h = HardRank(p) /\ k < Reached(h) /\ back[p] = hard[h][p]
  <2>1. plan[k] \in TasksOf("back") /\ k \in 2..Last
    BY <1>5 DEF TasksOf
  <2> QED
    BY <1>2, <1>3, <1>4, <1>5, <1>11, <2>1, GetBackNet
<1> HIDE DEF back
<1>13. /\ sys' = [p \in Particle |-> sys'[p]] /\ dm' = [p \in Particle |-> dm'[p]]
       /\ \A p \in Particle \ Away(r) : sys'[p] = sys[p] /\ dm'[p] = dm[p]
       /\ \A p \in Away(r) : sys'[p] = back[p] /\ dm'[p] = back[p].mass - Exchange!MassBk[p]
    BY <1>2, <1>10 DEF Exchange!Home
<1>14. /\ send'[r] = back /\ mass_modify_list'[r] = list
    BY <1>1, <1>2 DEF TypesOK
<1>15. ASSUME NEW p \in Away(r)
       PROVE  /\ Exchange!MassBk[p] \in Int /\ back[p].mass \in Int
              /\ task # "groups" => Exchange!MassBk[p] = 1
  <2>1. sys[p] \in Star /\ K[p] \in Kinds /\ back[p] \in Star
    BY <1>1, <1>10, <1>12 DEF TypesOK
  <2>2. Kept(sys[p]) \in Int /\ back[p].mass \in Int
    BY <2>1 DEF Kept, Star
  <2>3. ASSUME task # "groups" PROVE Kept(sys[p]) = 1
    <3>1. K[p] # "cm" => sys[p] = Rec(K[p], Kicks(k + 1))
      BY <1>1, <1>4, <1>5, <1>6, <1>7, <2>3 DEF AwayOK
    <3>2. K[p] = "cm" => Kept(sys[p]) = 1
      BY <1>1, <1>4, <1>5, <1>6, <1>7, <2>3 DEF AwayOK
    <3> QED
      BY <1>9, <2>1, <3>1, <3>2, RecFacts
  <2> QED
    BY <1>10, <2>2, <2>3, MassBkIs
<1>16. OnlyRank(r)
  <2>1. \A p \in Particle : owner[p] # r => sys'[p] = sys[p] /\ dm'[p] = dm[p]
    BY <1>10, <1>13
  <2> QED
    BY <1>1, <1>2, <1>3, <1>6, <2>1, MovesFacts DEF OnlyRank, TypesOK
<1>17. TypesOK'
  <2>1. \A p \in Particle : sys'[p] \in Star /\ dm'[p] \in Int
    <3> TAKE p \in Particle
    <3>1. CASE p \in Away(r)
      BY <1>12, <1>13, <1>15, <3>1
    <3>2. CASE p \notin Away(r)
      BY <1>1, <1>13, <3>2 DEF TypesOK
    <3> QED
      BY <3>1, <3>2
  <2>2. sys' \in [Particle -> Star] /\ dm' \in [Particle -> Int]
    BY <1>13, <2>1
  <2>3. \A p \in Particle \ Shared : sys'[p] = sys[p]
    BY <1>10, <1>13
  <2> QED
    BY <1>1, <1>2, <1>3, <2>2, <2>3, TypesKept DEF TypesOK
<1>18. DealtOK'
    BY <1>1, <1>2, <1>3, <1>5, <1>6, DealtKept
<1>19. HardOK(K, r)'
  <2>1. Kicks(Reached(r))' = Kicks(k) /\ Kicks(step[r])' = Kicks(k) /\ Kicks(Last)' = Kicks(Last)
    BY <1>3, <1>6, <1>8, <1>9 DEF Kicks, Count, Static
  <2>2. hard'[r] = hard[r] /\ hard[r] \in [Given(r) -> Star]
    BY <1>1, <1>2, <1>4, <1>5 DEF HardOK
  <2>3. CASE task # "return"
    <3>1. \A p \in Given(r) : hard[r][p] = Rec(K[p], Kicks(k))
      BY <1>1, <1>4, <1>5, <1>6, <1>7, <1>9, <2>3 DEF HardOK
    <3> QED
      BY <1>5, <1>6, <1>7, <1>8, <2>1, <2>2, <2>3, <3>1 DEF HardOK
  <2>4. CASE task = "return"
    <3>1. \A p \in Given(r) : /\ hard[r][p].kind = "single" /\ hard[r][p].drifts = 1
                              /\ hard[r][p].kicks = Kicks(Last)
      BY <1>1, <1>4, <1>5, <1>7, <2>4 DEF HardOK
    <3> QED
      BY <1>5, <1>6, <1>7, <1>8, <2>1, <2>2, <2>4, <3>1 DEF HardOK
  <2> QED
    BY <2>3, <2>4
<1>20. LocalOK(K, r)'
  <2>1. \A p \in DealtTo(r, r) : p \in Particle /\ sys'[p] = sys[p] /\ dm'[p] = dm[p]
    BY <1>10, <1>13, SharedFacts
  <2>2. Kicks(Reached(r))' = Kicks(Reached(r))
    BY <1>3, <1>6, <1>8 DEF Kicks, Count, Static
  <2>3. (SentBack(r)' <=> SentBack(r))
    BY <1>7
  <2> QED
    BY <1>1, <1>2, <1>6, <1>8, <2>1, <2>2, <2>3 DEF LocalOK
<1>21. AwayOK(K, r)'
  <2>1. send'[r] \in [Away(r) -> Star]
    BY <1>12, <1>14
  <2>2. \A p \in Away(r) : sys'[p] = back[p] /\ send'[r][p] = back[p]
    BY <1>13, <1>14
  <2>3. /\ Kicks(Reached(r))' = Kicks(k) /\ Kicks(step[r])' = Kicks(k) /\ k + 1 - 1 = k
    BY <1>3, <1>5, <1>6, <1>8, <1>9 DEF Kicks, Count, Static
  <2>4. CASE task # "return"
    <3>1. ASSUME NEW p \in Away(r)
          PROVE  /\ back[p] = Rec(K[p], Kicks(k)) /\ back[p].kind = K[p] /\ Kept(back[p]) = 1
                 /\ task = "output" => dm'[p] = 0
      <4>1. back[p] = Rec(K[p], Kicks(k)) /\ K[p] \in Kinds
        BY <1>1, <1>9, <1>10, <1>12, <2>4
      <4>2. back[p].kind = K[p] /\ Kept(back[p]) = 1 /\ (task = "output" => back[p].mass = 1)
        BY <1>9, <4>1, RecFacts
      <4>3. task = "output" => dm'[p] = 0
        BY <1>13, <1>15, <4>2
      <4> QED
        BY <4>1, <4>2, <4>3
    <3>2. ~AllBack(r)'
      BY <1>7, <2>4
    <3> QED
      BY <1>5, <1>6, <1>8, <2>1, <2>2, <2>3, <3>1, <3>2 DEF AwayOK
  <2>5. CASE task = "return"
    <3>1. ASSUME NEW p \in Away(r)
          PROVE  /\ dm'[p] = sys'[p].mass - 1
                 /\ \E h \in Rank : h = HardRank(p) /\ SentBack(h)' /\ sys'[p] = hard'[h][p]
      <4>1. PICK h \in Rank : h = HardRank(p) /\ k < Reached(h) /\ back[p] = hard[h][p]
        BY <1>12, <2>5
      <4>2. SentBack(h)
        BY <1>1, <1>5, <2>5, <4>1, ReachedType DEF SentBack
      <4>3. SentBack(h)'
        BY <1>1, <1>3, <1>6, <4>2, MovesFacts
      <4>4. dm'[p] = sys'[p].mass - 1
        BY <1>13, <1>15, <2>5
      <4> QED
        BY <1>2, <2>2, <4>1, <4>3, <4>4
    <3>2. AllBack(r)' /\ plan'[k] # "output"
      BY <1>5, <1>6, <1>7, <2>5
    <3> QED
      BY <1>5, <1>6, <1>8, <2>1, <2>3, <3>1, <3>2 DEF AwayOK
  <2> QED
    BY <2>4, <2>5
<1>22. ListOK(r)'
  <2>1. CASE task # "return"
    BY <1>6, <1>7, <1>14, <2>1 DEF ListOK
  <2>2. CASE task = "return"
    <3>1. mass_modify_list[r] = {p \in DealtTo(r, r) : hard[r][p].mass # 1}
      BY <1>1, <1>7, <2>2 DEF ListOK
    <3>2. list = mass_modify_list[r] \cup {p \in Away(r) : back[p].mass # Exchange!MassBk[p]}
      BY <1>10, <2>2 DEF Exchange!Listed, back
    <3>3. list = {p \in DealtTo(r, r) : sys'[p].mass # 1} \cup {p \in Away(r) : sys'[p].mass # 1}
      <4>1. \A p \in DealtTo(r, r) : sys'[p] = hard[r][p]
        BY <1>1, <1>7, <1>10, <1>13, <2>2, SharedFacts DEF LocalOK
      <4>2. \A p \in Away(r) : Exchange!MassBk[p] = 1 /\ sys'[p] = back[p]
        BY <1>13, <1>15, <2>2
      <4> QED
        BY <3>1, <3>2, <4>1, <4>2
    <3>4. \A p \in Own(r) : p \notin Shared => sys'[p].mass = 1
      <4>1. \A p \in Own(r) : p \notin Shared => p \in Particle /\ sys'[p] = NewStar
        BY <1>1, <1>10, <1>13 DEF TypesOK, Own
      <4> QED
        BY <4>1 DEF NewStar, Exchange!NewStar
    <3>5. \A p : p \in Own(r) /\ p \in Shared <=> p \in DealtTo(r, r) \/ p \in Away(r)
      BY OwnParts
    <3>6. list = {p \in Own(r) : sys'[p].mass # 1}
      BY <3>3, <3>4, <3>5
    <3> QED
      BY <1>6, <1>7, <1>8, <1>14, <2>2, <3>6 DEF ListOK
  <2> QED
    BY <2>1, <2>2
<1> QED
    BY <1>3, <1>6, <1>11, <1>12, <1>16, <1>17, <1>18, <1>19, <1>20, <1>21, <1>22, RankKeeps

\* writeBackHardParticles, and the return after a drift
LEMMA WriteSteps ==
    ASSUME DealOK, PlanOK, NEW K, ExchangeOK(K), NEW r \in Rank,
           Exchange!Output(r) \/ Exchange!Return(r)
    PROVE  ExchangeOK(K)'
BY WriteAndSendStep DEF Exchange!Output, Exchange!Return

LEMMA KnownSteps ==
    ASSUME DealOK, PlanOK, NEW K, ExchangeOK(K), NEW r \in Rank,
           Exchange!GroupsKnown(r) \/ Exchange!OutputKnown(r) \/ Exchange!Returned(r)
    PROVE  ExchangeOK(K)'
<1>1. CASE Exchange!GroupsKnown(r)
    BY <1>1, GetBackStep DEF Exchange!GroupsKnown, Exchange!ListCleared
<1>2. CASE Exchange!OutputKnown(r)
    BY <1>2, GetBackStep DEF Exchange!OutputKnown, Exchange!ListCleared
<1>3. CASE Exchange!Returned(r)
    BY <1>3, GetBackStep DEF Exchange!Returned
<1> QED
    BY <1>1, <1>2, <1>3

\* Until a rank has found the groups of its clusters, nothing in the system says
\* what the stars in them will be.
LEMMA KindsFree ==
    ASSUME DealOK, PlanOK, NEW K, ExchangeOK(K), NEW r \in Rank, step[r] = 2, half[r] = "post",
           NEW L \in [Particle -> Kinds], \A p \in Particle \ Given(r) : L[p] = K[p]
    PROVE  ExchangeOK(L)
<1>1. /\ StepOK /\ TypesOK /\ DealtOK /\ NetOK(K) /\ K \in [Particle -> Kinds]
      /\ \A s \in Rank : HardOK(K, s) /\ LocalOK(K, s) /\ AwayOK(K, s) /\ ListOK(s)
    BY DEF ExchangeOK
<1>2. Reached(r) = 2 /\ Last \in Nat /\ Last >= 4 /\ plan[1] = "exchange" /\ plan[2] = "groups"
    BY DEF Reached, PlanOK
<1>3. ASSUME NEW s \in Rank \ {r}, NEW p \in DealtTo(s, r)
      PROVE  step[s] <= 2
  <2> DEFINE m == <<r, s, "back">>
  <2>1. m \in Exchange!Channel /\ Used(m) /\ m[1] = r /\ m[2] = s /\ m[3] = "back"
    BY <1>3 DEF Exchange!Channel, Exchange!Tag, Used, Carried
  <2>2. ReadOn(m) \in Nat /\ SentOn(m) \in Nat /\ ReadOn(m) <= SentOn(m)
    BY <1>1, <2>1, NotAhead
  <2> HIDE DEF m
  <2>3. SentOn(m) = 0 /\ ReadOn(m) = Count(TasksOf("back"), step[s])
    BY <1>2, <2>1, PlanFacts DEF SentOn, ReadOn
  <2> SUFFICES ASSUME ~(step[s] <= 2) PROVE FALSE
    OBVIOUS
  <2>4. step[s] \in Nat \ {0} /\ 2 < step[s]
    BY <1>1, ReachedType
  <2>5. plan[2] \in TasksOf("back")
    BY <1>2 DEF TasksOf
  <2>6. Count(TasksOf("back"), 2) < Count(TasksOf("back"), step[s])
    BY <2>4, <2>5, CountMonotonic
  <2> QED
    BY <2>2, <2>3, <2>6, PlanFacts
<1>4. \A s : s # r => \A p \in Given(s) : p \in Particle /\ L[p] = K[p]
    BY SharedFacts DEF Given
<1>5. ASSUME NEW s \in Rank
      PROVE  HardOK(L, s) /\ LocalOK(L, s) /\ AwayOK(L, s)
  <2>1. HardOK(L, s)
    <3>1. CASE s = r
      <4>1. ~Drifted(r)
        BY <1>2 DEF Drifted
      <4> QED
        BY <1>1, <1>2, <3>1, <4>1 DEF HardOK
    <3>2. CASE s # r
      BY <1>1, <1>4, <3>2 DEF HardOK
    <3> QED
      BY <3>1, <3>2
  <2>2. LocalOK(L, s)
    <3>1. CASE s = r
      BY <1>1, <1>2, <3>1 DEF LocalOK
    <3>2. CASE s # r
      <4>1. \A p \in DealtTo(s, s) : L[p] = K[p]
        BY <1>4, <3>2, OwnParts
      <4> QED
        BY <1>1, <4>1 DEF LocalOK
    <3> QED
      BY <3>1, <3>2
  <2>3. AwayOK(L, s)
    <3>1. ASSUME NEW p \in Away(s)
          PROVE  L[p] = K[p] \/ (step[s] <= 2 /\ step[s] \in Nat)
      <4>1. CASE HardRank(p) # r
        BY <1>4, <4>1, SharedFacts DEF Away, Given
      <4>2. CASE HardRank(p) = r
        BY <1>1, <1>3, <4>2, ReachedType DEF Away, DealtTo
      <4> QED
        BY <4>1, <4>2
    <3>2. step[s] <= 2 => ~AllBack(s)
      BY <1>2 DEF AllBack
    <3> QED
      BY <1>1, <3>1, <3>2 DEF AwayOK
  <2> QED
    BY <2>1, <2>2, <2>3
<1>6. ASSUME NEW m \in Exchange!Channel, Used(m), NEW i \in Nat \ {0}, NEW d,
             i < Reached(m[1]), plan[i] \in TasksOf(m[3]), Content(K, m, i, d)
      PROVE  Content(L, m, i, d)
  <2>1. /\ m[1] \in Rank /\ m[2] \in Rank /\ m[1] # m[2]
        /\ m[3] \in {"cluster", "single", "back"}
    BY <1>6, ChannelIs DEF Used
  <2>2. ASSUME NEW p \in Carried(m), L[p] # K[p] PROVE plan[i] = "exchange"
    <3>1. p \in Shared /\ p \in Particle /\ HardRank(p) = r
      BY <1>4, <2>2, SharedFacts DEF Carried, DealtTo, Given
    <3>2. CASE m[3] = "back"
      <4>1. m[1] = r
        BY <2>2, <3>1, <3>2 DEF Carried, DealtTo
      <4>2. i = 1
        BY <1>2, <1>6, <4>1
      <4> QED
        BY <1>2, <4>2
    <3>3. CASE m[3] # "back"
      <4>1. p \in DealtTo(m[1], r) /\ m[2] = r
        BY <2>2, <3>1, <3>3 DEF Carried, DealtTo
      <4>2. step[m[1]] <= 2 /\ step[m[1]] \in Nat
        BY <1>1, <1>3, <2>1, <4>1, ReachedType
      <4>3. i <= 2
        BY <1>1, <1>6, <2>1, <4>2, ReachedType
      <4>4. plan[i] # "groups"
        BY <1>6, <2>1, <3>3 DEF TasksOf
      <4> QED
        BY <1>2, <4>3, <4>4
    <3> QED
      BY <3>2, <3>3
  <2> QED
    BY <1>6, <2>2 DEF Content
<1>7. NetOK(L)
  <2> SUFFICES ASSUME NEW m \in Exchange!Channel PROVE NetAt(L, m)
    BY <1>1 DEF NetOK
  <2>1. NetAt(K, m)
    BY <1>1 DEF NetOK
  <2> QED
    BY <1>6, <2>1 DEF NetAt
<1> QED
    BY <1>1, <1>5, <1>7 DEF ExchangeOK

\* A new member weighs nothing, if the c.m. has its mass.
LEMMA MemberIs ==
    /\ NewStar = Rec("single", 0)
    /\ \A kind \in {"cm", "bare"} : Exchange!AsMember(NewStar, kind) = Rec(kind, 0)
<1>1. NewStar = [kind |-> "single", mass |-> 1, backup |-> 0, kicks |-> 0, drifts |-> 0]
    BY DEF NewStar, Exchange!NewStar
<1>2. NewStar = Rec("single", 0)
    BY <1>1 DEF Rec
<1> DEFINE new == [kind |-> "single", mass |-> 1, backup |-> 0, kicks |-> 0, drifts |-> 0]
<1>3. Exchange!AsMember(new, "cm") =
          [kind |-> "cm", mass |-> 0, backup |-> 1, kicks |-> 0, drifts |-> 0]
    BY DEF Exchange!AsMember
<1>4. Exchange!AsMember(new, "bare") =
          [kind |-> "bare", mass |-> 1, backup |-> 1, kicks |-> 0, drifts |-> 0]
    BY DEF Exchange!AsMember
<1>5. /\ Rec("cm", 0) = [kind |-> "cm", mass |-> 0, backup |-> 1, kicks |-> 0, drifts |-> 0]
      /\ Rec("bare", 0) = [kind |-> "bare", mass |-> 1, backup |-> 1, kicks |-> 0, drifts |-> 0]
    BY DEF Rec
<1> QED
    BY <1>1, <1>2, <1>3, <1>4, <1>5

LEMMA FindGroupsStep ==
    ASSUME DealOK, PlanOK, NEW K0, ExchangeOK(K0), NEW r \in Rank, Exchange!FindGroups(r)
    PROVE  \E K \in [Particle -> Kinds] : ExchangeOK(K)'
<1>1. /\ Exchange!Doing(r, "groups", "post") /\ Exchange!Posted(r)
      /\ UNCHANGED <<graph, plan, id_cluster, mediator, stars, room, send>>
      /\ \E M \in Exchange!GroupChoices(r) : \E bare \in Exchange!BareChoices(M) :
            LET rec == Exchange!Grouped(r, M, bare)
                bk == [p \in DOMAIN rec |-> IF p \in M THEN rec[p].backup ELSE rec[p].mass]
            IN  /\ hard' = [hard EXCEPT ![r] = rec]
                /\ Exchange!Home(Exchange!Local(r), rec, bk)
                /\ mass_modify_list' = [mass_modify_list EXCEPT ![r] =
                                           Exchange!Listed(r, Exchange!Local(r), rec, bk)]
                /\ Exchange!PostBack(r, rec)
    BY DEF Exchange!FindGroups, Exchange!graph, graph, Exchange!deal
<1>2. PICK M, bare, rec, bk :
            /\ M \in Exchange!GroupChoices(r)
            /\ rec = Exchange!Grouped(r, M, bare)
            /\ bk = [p \in DOMAIN rec |-> IF p \in M THEN rec[p].backup ELSE rec[p].mass]
            /\ hard' = [hard EXCEPT ![r] = rec]
            /\ Exchange!Home(Exchange!Local(r), rec, bk)
            /\ mass_modify_list' = [mass_modify_list EXCEPT ![r] =
                                       Exchange!Listed(r, Exchange!Local(r), rec, bk)]
            /\ Exchange!PostBack(r, rec)
    BY <1>1
<1>3. Static
    BY <1>1 DEF Static
<1>4. StepOK /\ K0 \in [Particle -> Kinds]
    BY DEF ExchangeOK
<1>5. step[r] = 2 /\ half[r] = "post" /\ plan[2] = "groups" /\ Last \in Nat /\ Last >= 4
    BY <1>1, <1>4, TaskAt, PlanFacts
<1>6. PICK kind : kind = [p \in Particle |-> Exchange!KindOf(p, bare)]
    OBVIOUS
<1>7. \A p \in Particle : kind[p] \in {"cm", "bare"} /\ kind[p] = Exchange!KindOf(p, bare)
    BY <1>6 DEF Exchange!KindOf
<1>8. PICK K : K = [p \in Particle |-> IF p \notin Given(r) THEN K0[p]
                                       ELSE IF p \in M THEN kind[p] ELSE "single"]
    OBVIOUS
<1>9. K \in [Particle -> Kinds] /\ \A p \in Particle \ Given(r) : K[p] = K0[p]
    BY <1>4, <1>7, <1>8 DEF Kinds
<1>10. ExchangeOK(K)
    BY <1>5, <1>9, KindsFree
<1>11. /\ TypesOK /\ DealtOK /\ HardOK(K, r) /\ LocalOK(K, r) /\ AwayOK(K, r) /\ ListOK(r)
    BY <1>10 DEF ExchangeOK
<1>12. /\ Moves(r) /\ Reached(r) = 2 /\ Reached(r)' = 3 /\ step'[r] = 2 /\ half'[r] = "wait"
       /\ Last' = Last /\ plan' = plan
    BY <1>1, <1>3, <1>4, <1>5, TaskMoves
<1>13. ~SentBack(r) /\ ~Drifted(r)' /\ ~SentBack(r)' /\ ~AllBack(r)'
    BY <1>5, <1>12 DEF SentBack, AllBack, Drifted
<1>14. /\ Given(r)' = Given(r) /\ Away(r)' = Away(r) /\ DealtTo(r, r)' = DealtTo(r, r)
       /\ (\A i : Kicks(i)' = Kicks(i)) /\ owner' = owner
    BY <1>3, StaticSame DEF Static, graph
<1>15. /\ DOMAIN hard[r] = Given(r) /\ Exchange!Local(r) = DealtTo(r, r)
       /\ DealtTo(r, r) \subseteq Given(r)
       /\ \A p \in Given(r) : p \in Particle /\ p \in Shared
       /\ \A p \in DealtTo(r, r) : p \in Shared /\ owner[p] = r /\ p \notin Away(r)
    BY <1>5, <1>10, <1>12, SetsAre, OwnParts DEF DealtTo, Given
<1>16. ASSUME NEW p \in Given(r)
       PROVE  /\ rec[p] = Rec(K[p], 0) /\ rec[p] \in Star /\ K[p] \in Kinds
              /\ bk[p] \in Int /\ rec[p].mass - bk[p] \in Int
  <2>1. hard[r][p] = NewStar /\ p \in Particle
    BY <1>5, <1>11, <1>12, <1>15 DEF HardOK
  <2>2. rec[p] = IF p \in M THEN Exchange!AsMember(NewStar, kind[p]) ELSE NewStar
    BY <1>2, <1>7, <1>15, <2>1 DEF Exchange!Grouped
  <2>3. K[p] = IF p \in M THEN kind[p] ELSE "single"
    BY <1>8, <2>1
  <2>4. rec[p] = Rec(K[p], 0)
    BY <1>7, <2>1, <2>2, <2>3, MemberIs
  <2>5. rec[p] \in Star /\ K[p] \in Kinds
    BY <1>9, <2>1, <2>4, RecFacts
  <2>6. bk[p] = IF p \in M THEN rec[p].backup ELSE rec[p].mass
    BY <1>2, <1>15 DEF Exchange!Grouped
  <2> QED
    BY <2>4, <2>5, <2>6 DEF Star
<1>17. rec \in [Given(r) -> Star]
  <2>1. rec = [p \in Given(r) |-> rec[p]]
    BY <1>2, <1>15 DEF Exchange!Grouped
  <2> QED
    BY <1>16, <2>1
<1>18. /\ sys' = [p \in Particle |-> sys'[p]] /\ dm' = [p \in Particle |-> dm'[p]]
       /\ \A p \in Particle : p \notin DealtTo(r, r) => sys'[p] = sys[p] /\ dm'[p] = dm[p]
       /\ \A p \in DealtTo(r, r) : sys'[p] = rec[p] /\ dm'[p] = rec[p].mass - bk[p]
    BY <1>2, <1>15 DEF Exchange!Home
<1>19. hard'[r] = rec
    BY <1>2, <1>11 DEF TypesOK
<1>20. \A s \in Rank : Remains(s)
    BY <1>2, <1>11, <1>13 DEF Remains, TypesOK
<1>21. OnlyRank(r)
  <2>1. \A p \in Particle : owner[p] # r => sys'[p] = sys[p] /\ dm'[p] = dm[p]
    BY <1>15, <1>18
  <2> QED
    BY <1>1, <1>2, <1>3, <1>4, <1>11, <1>12, <2>1, MovesFacts DEF OnlyRank, TypesOK
<1>22. TypesOK'
  <2>1. \A p \in Particle : sys'[p] \in Star /\ dm'[p] \in Int
    BY <1>11, <1>15, <1>16, <1>18 DEF TypesOK
  <2>2. sys' \in [Particle -> Star] /\ dm' \in [Particle -> Int]
    BY <1>18, <2>1
  <2>3. \A p \in Particle \ Shared : sys'[p] = sys[p]
    BY <1>15, <1>18
  <2> QED
    BY <1>1, <1>2, <1>3, <1>11, <2>2, <2>3, TypesKept DEF TypesOK
<1>23. DealtOK'
    BY <1>1, <1>3, <1>4, <1>11, <1>12, DealtKept
<1>24. NetOK(K)'
  <2>1. 2 \in 2..Last /\ plan[2] \in TasksOf("back")
    BY <1>5 DEF TasksOf
  <2> QED
    BY <1>1, <1>2, <1>3, <1>5, <1>10, <1>16, <1>20, <2>1, PostBackNet
<1>25. Kicks(3) = 0 /\ Kicks(Reached(r))' = 0 /\ Kicks(step[r])' = 0
    BY <1>3, <1>12, <1>14, PlanFacts DEF Kicks, Count, Static
<1>26. HardOK(K, r)' /\ ListOK(r)'
    BY <1>12, <1>13, <1>14, <1>16, <1>17, <1>19, <1>25 DEF HardOK, ListOK
<1>27. LocalOK(K, r)'
  <2>1. ASSUME NEW p \in DealtTo(r, r)
        PROVE  sys'[p].kind = K[p] /\ Kept(sys'[p]) = 1
    BY <1>15, <1>16, <1>18, RecFacts
  <2>2. plan[3 - 1] # "output"
    BY <1>5
  <2> QED
    BY <1>12, <1>13, <1>14, <2>1, <2>2 DEF LocalOK
<1>28. AwayOK(K, r)'
  <2>1. \A p \in Away(r) : p \in Particle /\ p \notin DealtTo(r, r)
    BY SharedFacts DEF Away, DealtTo
  <2> QED
    BY <1>1, <1>5, <1>11, <1>12, <1>13, <1>14, <1>18, <2>1 DEF AwayOK
<1> QED
    BY <1>3, <1>9, <1>10, <1>12, <1>20, <1>21, <1>22, <1>23, <1>24, <1>26, <1>27, <1>28, RankKeeps

LEMMA IntegratedIs ==
    ASSUME NEW kind \in Kinds, NEW k \in Nat, NEW mass \in Int
    PROVE  LET star == Exchange!Integrated(Rec(kind, k), mass) IN
           star \in Star /\ star.kind = "single" /\ star.kicks = k /\ star.drifts = 1
<1> DEFINE m == IF kind = "cm" /\ k = 0 THEN 0 ELSE 1
           b == IF kind = "single" THEN 0 ELSE 1
<1>1. Rec(kind, k) = [kind |-> kind, mass |-> m, backup |-> b, kicks |-> k, drifts |-> 0]
    BY DEF Rec
<1>2. m \in Int /\ b \in Int
    OBVIOUS
<1> HIDE DEF m, b
<1>3. Exchange!Integrated([kind |-> kind, mass |-> m, backup |-> b, kicks |-> k, drifts |-> 0], mass)
          = [kind |-> "single", mass |-> mass, backup |-> b, kicks |-> k, drifts |-> 1]
    BY DEF Exchange!Integrated
<1> QED
    BY <1>1, <1>2, <1>3 DEF Star, Kinds

\* driveForMultiClusterOMP
LEMMA DriftStep ==
    ASSUME DealOK, PlanOK, NEW K, ExchangeOK(K), NEW r \in Rank, Exchange!Drift(r)
    PROVE  ExchangeOK(K)'
<1>1. /\ StepOK /\ TypesOK /\ DealtOK /\ NetOK(K) /\ HardOK(K, r) /\ LocalOK(K, r) /\ AwayOK(K, r)
      /\ ListOK(r) /\ K \in [Particle -> Kinds]
    BY DEF ExchangeOK
<1>2. /\ Exchange!Doing(r, "drift", "post") /\ Exchange!Posted(r)
      /\ UNCHANGED <<graph, plan, id_cluster, mediator, stars, room, sys, send, net, dm,
                     mass_modify_list>>
    BY DEF Exchange!Drift, Exchange!graph, graph, Exchange!deal
<1>3. PICK mass, new :
          /\ mass \in [DOMAIN hard[r] -> 0 .. 2]
          /\ new = [p \in DOMAIN hard[r] |-> Exchange!Integrated(hard[r][p], mass[p])]
          /\ hard' = [hard EXCEPT ![r] = new]
    BY DEF Exchange!Drift
<1>4. Static
    BY <1>2 DEF Static
<1>5. PICK k \in 1..Last : k = step[r]
    BY <1>1, <1>2, TaskAt
<1>6. /\ k \in Nat /\ k > 3 /\ k = Last - 1 /\ plan[Last] = "return" /\ plan[k] = "drift"
      /\ half[r] = "post"
    BY <1>1, <1>2, <1>5, TaskAt
<1>7. /\ Moves(r) /\ Reached(r) = k /\ Reached(r)' = k + 1 /\ step'[r] = k /\ half'[r] = "wait"
      /\ Last' = Last /\ plan' = plan /\ Last \in Nat
    BY <1>1, <1>2, <1>4, <1>5, TaskMoves
<1>8. ~Drifted(r) /\ ~SentBack(r) /\ ~AllBack(r) /\ Drifted(r)' /\ ~SentBack(r)' /\ ~AllBack(r)'
    BY <1>5, <1>6, <1>7 DEF SentBack, AllBack, Drifted
<1>9. /\ Given(r)' = Given(r) /\ Away(r)' = Away(r) /\ DealtTo(r, r)' = DealtTo(r, r)
      /\ (\A i : Kicks(i)' = Kicks(i))
    BY <1>4, StaticSame
<1>10. Kicks(k) \in Nat /\ Kicks(k + 1) = Kicks(k) /\ Kicks(Last) = Kicks(k)
    BY <1>6, <1>7, PlanFacts
<1>11. DOMAIN hard[r] = Given(r) /\ \A p \in Given(r) : p \in Particle
  <2>1. Reached(r) > 1 /\ step[r] > 1
    BY <1>5, <1>6, <1>7
  <2> HIDE DEF Given
  <2> QED
    BY <2>1, SetsAre
<1>12. hard'[r] = [p \in Given(r) |-> Exchange!Integrated(hard[r][p], mass[p])]
  <2>1. hard'[r] = new
    BY <1>1, <1>3 DEF TypesOK
  <2> QED
    BY <1>3, <1>11, <2>1
<1>13. ASSUME NEW p \in Given(r)
       PROVE  /\ hard'[r][p] \in Star /\ hard'[r][p].kind = "single" /\ hard'[r][p].drifts = 1
              /\ hard'[r][p].kicks = Kicks(Last)
  <2>1. hard[r][p] = Rec(K[p], Kicks(k)) /\ K[p] \in Kinds
    BY <1>1, <1>5, <1>6, <1>7, <1>8, <1>11 DEF HardOK
  <2>2. mass[p] \in Int
    BY <1>3, <1>11
  <2>3. hard'[r][p] = Exchange!Integrated(Rec(K[p], Kicks(k)), mass[p])
    BY <1>12, <2>1
  <2> QED
    BY <1>10, <2>1, <2>2, <2>3, IntegratedIs
<1>14. \A s \in Rank : Remains(s)
    BY <1>1, <1>3, <1>8 DEF Remains, TypesOK
<1>15. OnlyRank(r)
    BY <1>1, <1>2, <1>3, <1>4, <1>7, MovesFacts DEF OnlyRank, TypesOK
<1>16. TypesOK'
    BY <1>1, <1>2, <1>3, <1>4, TypesKept DEF TypesOK
<1>17. DealtOK'
    BY <1>1, <1>2, <1>4, <1>6, <1>7, DealtKept
<1>18. NetOK(K)'
    BY <1>1, <1>2, <1>4, <1>5, <1>6, <1>14, QuietNet
<1>19. HardOK(K, r)'
  <2>1. hard'[r] \in [Given(r) -> Star]
    BY <1>12, <1>13
  <2>2. Kicks(Last)' = Kicks(Last)
    BY <1>4, <1>7, <1>9 DEF Kicks, Count, Static
  <2> QED
    BY <1>6, <1>7, <1>8, <1>9, <1>13, <2>1, <2>2 DEF HardOK
<1>20. LocalOK(K, r)'
  <2>1. plan[k + 1 - 1] # "output"
    BY <1>6
  <2> QED
    BY <1>1, <1>2, <1>6, <1>7, <1>8, <1>9, <2>1 DEF LocalOK
<1>21. AwayOK(K, r)'
  <2>1. Kicks(Reached(r))' = Kicks(k)
    BY <1>4, <1>7, <1>9, <1>10 DEF Kicks, Count, Static
  <2> QED
    BY <1>1, <1>2, <1>5, <1>6, <1>7, <1>8, <1>9, <2>1 DEF AwayOK
<1>22. ListOK(r)'
    BY <1>1, <1>2, <1>5, <1>6, <1>7, <1>8 DEF ListOK
<1> QED
    BY <1>4, <1>7, <1>14, <1>15, <1>16, <1>17, <1>18, <1>19, <1>20, <1>21, <1>22, RankKeeps

LEMMA AllDriftedStep ==
    ASSUME DealOK, PlanOK, NEW K, ExchangeOK(K), NEW r \in Rank, Exchange!AllDrifted(r)
    PROVE  ExchangeOK(K)'
<1>1. /\ StepOK /\ TypesOK /\ DealtOK /\ NetOK(K) /\ HardOK(K, r) /\ LocalOK(K, r) /\ AwayOK(K, r)
      /\ ListOK(r) /\ K \in [Particle -> Kinds]
    BY DEF ExchangeOK
<1>2. /\ Exchange!Doing(r, "drift", "wait") /\ Exchange!Finished(r)
      /\ UNCHANGED <<graph, plan, id_cluster, mediator, stars, room, sys, hard, send, net, dm,
                     mass_modify_list>>
    BY DEF Exchange!AllDrifted, Exchange!graph, graph, Exchange!deal
<1>3. Static
    BY <1>2 DEF Static
<1>4. PICK k \in 1..Last : k = step[r]
    BY <1>1, <1>2, TaskAt
<1>5. /\ k \in Nat /\ k > 3 /\ k = Last - 1 /\ plan[Last] = "return" /\ plan[k] = "drift"
      /\ half[r] = "wait"
    BY <1>1, <1>2, <1>4, TaskAt
<1>6. /\ Moves(r) /\ Reached(r) = k + 1 /\ Reached(r)' = k + 1 /\ step'[r] = k + 1
      /\ half'[r] = "post" /\ Last' = Last /\ plan' = plan /\ Last \in Nat
    BY <1>1, <1>2, <1>3, <1>4, TaskMoves
<1>7. Drifted(r) /\ ~SentBack(r) /\ ~AllBack(r) /\ Drifted(r)' /\ ~SentBack(r)' /\ ~AllBack(r)'
    BY <1>4, <1>5, <1>6 DEF SentBack, AllBack, Drifted
<1>8. /\ Given(r)' = Given(r) /\ Away(r)' = Away(r) /\ DealtTo(r, r)' = DealtTo(r, r)
      /\ (\A i : Kicks(i)' = Kicks(i))
    BY <1>3, StaticSame
<1>9. Kicks(Last)' = Kicks(Last) /\ Kicks(Reached(r))' = Kicks(Reached(r)) /\ k + 1 - 1 = k
    BY <1>3, <1>5, <1>6, <1>8 DEF Kicks, Count, Static
<1>10. \A s \in Rank : Remains(s)
    BY <1>2 DEF Remains
<1>11. OnlyRank(r)
    BY <1>1, <1>2, <1>3, <1>6, MovesFacts DEF OnlyRank, TypesOK
<1>12. TypesOK'
    BY <1>1, <1>2, <1>3, TypesKept DEF TypesOK
<1>13. DealtOK'
    BY <1>1, <1>2, <1>3, <1>5, <1>6, DealtKept
<1>14. NetOK(K)'
    BY <1>1, <1>2, <1>3, <1>4, <1>5, <1>10, QuietNet
<1>15. HardOK(K, r)'
    BY <1>1, <1>2, <1>4, <1>5, <1>6, <1>7, <1>8, <1>9 DEF HardOK
<1>16. LocalOK(K, r)'
    BY <1>1, <1>2, <1>5, <1>6, <1>7, <1>8, <1>9 DEF LocalOK
<1>17. AwayOK(K, r)'
    BY <1>1, <1>2, <1>4, <1>5, <1>6, <1>7, <1>8, <1>9 DEF AwayOK
<1>18. ListOK(r)'
    BY <1>1, <1>2, <1>4, <1>5, <1>6, <1>7 DEF ListOK
<1> QED
    BY <1>3, <1>6, <1>10, <1>11, <1>12, <1>13, <1>14, <1>15, <1>16, <1>17, <1>18, RankKeeps

-----------------------------------------------------------------------------
(* The step as a whole: the search, the deal, the exchange *)

AllSingle == [p \in Particle |-> "single"]
Started ==
    /\ DealOK /\ PlanOK
    /\ stars = Exchange!NoStars /\ room = Exchange!NoStars
    /\ step = [r \in Rank |-> 1] /\ half = [r \in Rank |-> "post"]
    /\ sys = [p \in Particle |-> NewStar]
    /\ hard = [r \in Rank |-> <<>>] /\ send = [r \in Rank |-> <<>>]
    /\ net = [m \in Exchange!Channel |-> <<>>]
    /\ dm = [p \in Particle |-> 0]
    /\ mass_modify_list = [r \in Rank |-> {}]

\* The exchange starts in a state of the invariant.
LEMMA StartedOK == Started => ExchangeOK(AllSingle)
<1> SUFFICES ASSUME Started PROVE ExchangeOK(AllSingle)
    OBVIOUS
<1>1. DealOK /\ PlanOK /\ Last \in Nat /\ Last >= 4
    BY PlanFacts DEF Started
<1>2. \A r \in Rank : step[r] = 1 /\ half[r] = "post" /\ Reached(r) = 1
    BY DEF Started, Reached
<1>3. AllSingle \in [Particle -> Kinds]
    BY DEF AllSingle, Kinds
<1>4. StepOK
    BY <1>1 DEF Started, StepOK
<1>5. TypesOK
    BY NewStarType DEF Started, TypesOK
<1>6. DealtOK
  <2>1. Exchange!NoStars = [r \in Rank |-> [s \in Rank |-> {}]]
    BY DEF Exchange!NoStars
  <2> QED
    BY <1>2, <2>1 DEF Started, DealtOK
<1>7. NetOK(AllSingle)
  <2>1. net = [m \in Exchange!Channel |-> net[m]] /\ \A m \in Exchange!Channel : net[m] = <<>>
    BY DEF Started
  <2> SUFFICES ASSUME NEW m \in Exchange!Channel PROVE NetAt(AllSingle, m)
    BY <2>1 DEF NetOK
  <2>2. m[1] \in Rank /\ m[2] \in Rank
    BY ChannelIs
  <2>3. Reached(m[1]) = 1 /\ step[m[2]] = 1
    BY <1>2, <2>2
  <2>4. Count(TasksOf(m[3]), 1) \in Nat
    BY CountMonotonic
  <2>5. SentOn(m) - ReadOn(m) = 0
    BY <2>3, <2>4 DEF SentOn, ReadOn
  <2>8. \A S : <<>> \in Seq(S) /\ Len(<<>>) = 0
    OBVIOUS
  <2>6. net[m] = <<>> /\ net[m] \in Seq([Carried(m) -> Star]) /\ Len(net[m]) = 0
    BY <2>1, <2>8
  <2>7. \A i \in Nat \ {0} : ~(step[m[2]] <= i /\ i < Reached(m[1]))
    BY <2>3
  <2> QED
    BY <2>5, <2>6, <2>7 DEF NetAt
<1>8. ASSUME NEW r \in Rank
      PROVE  HardOK(AllSingle, r) /\ LocalOK(AllSingle, r) /\ AwayOK(AllSingle, r) /\ ListOK(r)
  <2>1. step[r] = 1 /\ Reached(r) = 1 /\ ~SentBack(r) /\ ~AllBack(r)
    BY <1>1, <1>2 DEF SentBack, AllBack
  <2>2. \A p \in Shared : sys[p] = NewStar
    BY DEF Started, Shared
  <2>3. LocalOK(AllSingle, r)
    BY <2>1, <2>2 DEF LocalOK, DealtTo
  <2>4. AwayOK(AllSingle, r)
    BY <2>1, <2>2 DEF AwayOK, Away
  <2> QED
    BY <2>1, <2>3, <2>4 DEF HardOK, ListOK
<1> QED
    BY <1>3, <1>4, <1>5, <1>6, <1>7, <1>8 DEF ExchangeOK

\* The tasks of a tree step are in the order PlanOK says.
LEMMA PlansAreOK ==
    ASSUME NEW p \in Plans, plan = <<"exchange", "groups">> \o p
    PROVE  PlanOK
<1> DEFINE n == Len(p)
           Tasks == {"kick", "output", "drift", "return"}
<1>1. /\ p \in Seq(Tasks) /\ n \in Nat /\ n > 1 /\ p[1] = "kick" /\ p[n] \in {"output", "return"}
      /\ \A i \in 1..n : /\ p[i] = "return" => i = n
                         /\ p[i] = "drift" <=> i = n - 1 /\ p[n] = "return"
    BY PlansAssumption
<1>2. \A i \in 1..n : p[i] \in Tasks
    BY <1>1
<1>6. ASSUME NEW i \in 1..n
      PROVE  /\ p[i] = "return" => i = n
             /\ p[i] = "drift" <=> i = n - 1 /\ p[n] = "return"
    BY <1>1
<1>3. /\ Len(plan) = n + 2 /\ plan[1] = "exchange" /\ plan[2] = "groups"
      /\ \A i \in 3..n + 2 : plan[i] = p[i - 2]
    BY <1>1
<1> HIDE DEF n, Tasks
<1>4. Last = n + 2 /\ Last \in Nat /\ Last >= 4 /\ plan[3] = "kick" /\ plan[Last] = p[n]
    BY <1>1, <1>3 DEF Last
<1>5. ASSUME NEW i \in 3..Last
      PROVE  /\ plan[i] \in Tasks
             /\ plan[i] = "return" => i = Last
             /\ plan[i] = "drift" <=> i = Last - 1 /\ plan[Last] = "return"
  <2> DEFINE j == i - 2
  <2>1. j \in 1..n /\ plan[i] = p[j] /\ i = j + 2
    BY <1>1, <1>3, <1>4
  <2> HIDE DEF j
  <2>2. /\ p[j] = "return" => j = n
        /\ p[j] = "drift" <=> j = n - 1 /\ p[n] = "return"
    BY <1>6, <2>1
  <2>3. /\ j = n <=> i = Last
        /\ j = n - 1 <=> i = Last - 1
    BY <1>1, <1>4, <2>1
  <2> QED
    BY <1>2, <1>4, <2>1, <2>2, <2>3
<1> QED
    BY <1>1, <1>3, <1>4, <1>5 DEF PlanOK, Tasks

StepInv ==
    \/ ~Begun /\ IInv
    \/ Begun /\ DealOK /\ PlanOK /\ \E K \in [Particle -> Kinds] : ExchangeOK(K)

\* What the search has found is what the exchange needs.
LEMMA DealStep ==
    ASSUME IInv, Deal
    PROVE  StepInv'
<1>1. /\ UNCHANGED graph /\ Exchange!Start(IdsFound) /\ \A r \in Rank : pc[r] = "done"
    BY DEF Deal
<1>2. PICK p \in Plans : plan' = <<"exchange", "groups">> \o p
    BY <1>1 DEF Exchange!Start
<1>3. PlanOK' /\ Begun'
  <2>1. (p \in Plans /\ plan = <<"exchange", "groups">> \o p => PlanOK)'
    BY PlansAreOK, PTL
  <2>2. PlanOK'
    BY <1>2, <2>1
  <2> QED
    BY <2>2 DEF Begun, PlanOK, Last
<1>4. DealOK'
  <2>1. GraphOK /\ GraphOK' /\ Shared' = Shared /\ (\A q : ClusterOf(q)' = ClusterOf(q))
        /\ \A r \in Rank : Mediator(r)' = Mediator(r)
    BY <1>1 DEF IInv, TypeOK, graph, GraphOK, ClusterOf, Mediator, ReachedBy, Closed, PtclCluster,
           Isolated, SelfNode, Own, Outer, LocalCluster, LocalNgb, Single, Shared
  <2>2. mediator' = [r \in Rank |-> Mediator(r)] /\ id_cluster' = [q \in Particle |-> id[owner[q]][q]]
    BY <1>1, SameGraph DEF Exchange!Start, IdsFound
  <2>3. ASSUME NEW q \in Shared
        PROVE  IsLowest(id_cluster'[q], ClusterOf(q))
    <3>1. q \in Particle /\ owner[q] \in Rank /\ q \in Mediator(owner[q])
      BY <2>1, GraphFacts DEF Shared
    <3>2. IsLowest(id[owner[q]][q], ClusterOf(q))
      BY <1>1, <3>1, IInvIdsAreClusters DEF IdsAreClusters
    <3> QED
      BY <2>2, <3>1, <3>2
  <2>4. \A q \in Shared' : IsLowest(id_cluster[q], ClusterOf(q))'
    BY <2>1, <2>3 DEF IsLowest
  <2> QED
    BY <2>1, <2>2, <2>4 DEF DealOK
<1>5. Started'
    BY <1>1, <1>3, <1>4 DEF Exchange!Start, Started, NewStar, Exchange!NoStars
<1>6. ExchangeOK(AllSingle)'
    BY <1>5, StartedOK, PTL
<1>7. AllSingle \in [Particle -> Kinds]
    BY DEF AllSingle, Kinds
<1> QED
    BY <1>3, <1>4, <1>6, <1>7 DEF StepInv

LEMMA WorkStep ==
    ASSUME DealOK, PlanOK, NEW K \in [Particle -> Kinds], ExchangeOK(K), NEW r \in Rank,
           Exchange!RankStep(r)
    PROVE  Static /\ \E L \in [Particle -> Kinds] : ExchangeOK(L)'
<1>1. CASE Exchange!SendCluster(r)
    BY <1>1, SendClusterStep DEF Exchange!SendCluster, Static, Exchange!graph, graph
<1>2. CASE Exchange!RecvCluster(r)
    BY <1>2, RecvClusterStep DEF Exchange!RecvCluster, Static, Exchange!graph, graph, Exchange!deal
<1>3. CASE Exchange!FindGroups(r)
    BY <1>3, FindGroupsStep DEF Exchange!FindGroups, Static, Exchange!graph, graph, Exchange!deal
<1>4. CASE Exchange!GroupsKnown(r) \/ Exchange!OutputKnown(r) \/ Exchange!Returned(r)
    BY <1>4, KnownSteps DEF Exchange!GroupsKnown, Exchange!OutputKnown, Exchange!Returned,
           Exchange!GetBack, Static, Exchange!graph, graph, Exchange!deal
<1>5. CASE Exchange!Kick(r)
    BY <1>5, KickStep DEF Exchange!Kick, Static, Exchange!graph, graph, Exchange!deal
<1>6. CASE Exchange!RecvSingle(r)
    BY <1>6, RecvSingleStep DEF Exchange!RecvSingle, Static, Exchange!graph, graph, Exchange!deal
<1>7. CASE Exchange!Output(r) \/ Exchange!Return(r)
    BY <1>7, WriteSteps DEF Exchange!Output, Exchange!Return, Exchange!WriteAndSend, Static,
           Exchange!graph, graph, Exchange!deal
<1>8. CASE Exchange!Drift(r)
    BY <1>8, DriftStep DEF Exchange!Drift, Static, Exchange!graph, graph, Exchange!deal
<1>9. CASE Exchange!AllDrifted(r)
    BY <1>9, AllDriftedStep DEF Exchange!AllDrifted, Static, Exchange!graph, graph, Exchange!deal
<1> QED
    BY <1>1, <1>2, <1>3, <1>4, <1>5, <1>6, <1>7, <1>8, <1>9 DEF Exchange!RankStep

LEMMA StutterOK ==
    ASSUME DealOK, PlanOK, NEW K, ExchangeOK(K), Static, UNCHANGED exchange
    PROVE  ExchangeOK(K)'
<1> USE DEF exchange
<1>1. /\ Last' = Last /\ (\A r : Reached(r)' = Reached(r)) /\ Shared' = Shared /\ owner' = owner
      /\ (\A S, i : Count(S, i)' = Count(S, i)) /\ (\A i : Kicks(i)' = Kicks(i))
      /\ (\A r : Own(r)' = Own(r) /\ Given(r)' = Given(r) /\ Away(r)' = Away(r))
      /\ (\A r, s : DealtTo(r, s)' = DealtTo(r, s)) /\ (\A p : HardRank(p)' = HardRank(p))
      /\ \A m : Carried(m)' = Carried(m) /\ Used(m)' = Used(m)
    BY StaticSame DEF Reached, Static, graph
<1>2. \A r : Drifted(r)' = Drifted(r) /\ SentBack(r)' = SentBack(r) /\ AllBack(r)' = AllBack(r)
    BY <1>1 DEF Drifted, SentBack, AllBack
<1>3. StepOK' /\ TypesOK' /\ DealtOK'
    BY <1>1 DEF ExchangeOK, StepOK, TypesOK, DealtOK
<1>4. NetOK(K)'
  <2>1. \A m : SentOn(m)' = SentOn(m) /\ ReadOn(m)' = ReadOn(m)
    BY <1>1 DEF SentOn, ReadOn, Count, Reached
  <2>2. ASSUME NEW m, NEW i, NEW d
        PROVE  Content(K, m, i, d)' = Content(K, m, i, d)
    <3>1. Carried(m)' = Carried(m) /\ Kicks(i)' = Kicks(i) /\ Kicks(i + 1)' = Kicks(i + 1)
      BY <1>1
    <3>2. plan' = plan /\ hard' = hard
      OBVIOUS
    <3> QED
      BY <3>1, <3>2 DEF Content
  <2>3. \A m : NetAt(K, m)' = NetAt(K, m)
    BY <1>1, <2>1, <2>2 DEF NetAt
  <2> QED
    BY <2>3 DEF ExchangeOK, NetOK
<1>5. \A r \in Rank : HardOK(K, r)' /\ LocalOK(K, r)' /\ AwayOK(K, r)' /\ ListOK(r)'
    BY <1>1, <1>2 DEF ExchangeOK, HardOK, LocalOK, AwayOK, ListOK
<1> QED
    BY <1>3, <1>4, <1>5 DEF ExchangeOK

\* The invariant holds throughout the search and the exchange.
LEMMA StepInvariant == StepSpec => []StepInv
<1>1. StepInit => StepInv
    BY InitIInv DEF StepInit, StepInv, Begun
<1>2. StepInv /\ [StepNext]_StepVars => StepInv'
  <2> SUFFICES ASSUME StepInv, [StepNext]_StepVars PROVE StepInv'
    OBVIOUS
  <2>1. CASE Search
    <3>1. ~Begun /\ ~Begun' /\ Next /\ IInv
      BY <2>1 DEF Search, exchange, StepInv, Begun
    <3> QED
      BY <3>1, StepIInv DEF StepInv
  <2>2. CASE Deal
    BY <2>2, DealStep DEF Deal, StepInv
  <2>3. ASSUME NEW r \in Rank, Work(r)
        PROVE  StepInv'
    <3>1. Begun /\ Exchange!RankStep(r) /\ DealOK /\ PlanOK
      BY <2>3 DEF Work, StepInv
    <3>2. PICK K \in [Particle -> Kinds] : ExchangeOK(K)
      BY <3>1 DEF StepInv
    <3>3. Static /\ \E L \in [Particle -> Kinds] : ExchangeOK(L)'
      BY <3>1, <3>2, WorkStep
    <3>4. DealOK' /\ PlanOK' /\ Begun'
      BY <3>1, <3>3, StaticSame DEF Static, Begun
    <3> QED
      BY <3>3, <3>4 DEF StepInv
  <2>4. CASE UNCHANGED StepVars
    <3>1. UNCHANGED <<search, graph>> /\ UNCHANGED exchange /\ Static
      BY <2>4 DEF StepVars, search, exchange, Static
    <3>2. CASE ~Begun
      BY <3>1, <3>2, StepIInv DEF StepInv, search, vars, Begun, exchange, graph
    <3>3. CASE Begun
      <4>1. Begun' /\ DealOK' /\ PlanOK'
        BY <3>1, <3>3, StaticSame DEF StepInv, Begun, exchange
      <4>2. PICK K \in [Particle -> Kinds] : ExchangeOK(K)
        BY <3>3 DEF StepInv
      <4>3. ExchangeOK(K)'
        BY <3>1, <3>3, <4>2, StutterOK DEF StepInv
      <4> QED
        BY <4>1, <4>3 DEF StepInv
    <3> QED
      BY <3>2, <3>3
  <2> QED
    BY <2>1, <2>2, <2>3, <2>4 DEF StepNext
<1> QED
    BY <1>1, <1>2, PTL DEF StepSpec

-----------------------------------------------------------------------------
(* What the invariant says of the stars *)

\* The model counts the tasks that are through as Count does.
LEMMA PastIs ==
    ASSUME PlanOK, NEW i \in 1..Last + 1
    PROVE  /\ Exchange!Past("kick", i) = Kicks(i)
           /\ Exchange!Past("drift", i) = IF plan[Last] = "return" /\ i >= Last THEN 1 ELSE 0
<1>1. \A task : {j \in 1..i - 1 : plan[j] \in {task}} = {j \in 1..i - 1 : plan[j] = task}
    OBVIOUS
<1>2. Exchange!Past("kick", i) = Kicks(i)
    BY <1>1, SameCardinality DEF Exchange!Past, Kicks, Count
<1> DEFINE Drifts == {j \in 1..i - 1 : plan[j] = "drift"}
<1>3. Exchange!Past("drift", i) = Cardinality(Drifts)
    BY SameCardinality DEF Exchange!Past
<1>4. \A j \in 1..Last : plan[j] = "drift" <=> j = Last - 1 /\ plan[Last] = "return"
  <2> SUFFICES ASSUME NEW j \in 1..Last
               PROVE  plan[j] = "drift" <=> j = Last - 1 /\ plan[Last] = "return"
    OBVIOUS
  <2>1. Last \in Nat /\ Last >= 4 /\ plan[1] = "exchange" /\ plan[2] = "groups"
    BY DEF PlanOK
  <2>2. CASE j \in {1, 2}
    BY <2>1, <2>2
  <2>3. CASE j \in 3..Last
    BY <2>3 DEF PlanOK
  <2> QED
    BY <2>1, <2>2, <2>3
<1>5. Last \in Nat /\ Last >= 4
    BY DEF PlanOK
<1>6. CASE plan[Last] = "return" /\ i >= Last
  <2>1. Drifts = {Last - 1}
    BY <1>4, <1>5, <1>6
  <2> QED
    BY <1>2, <1>3, <1>6, <2>1, FS_Singleton
<1>7. CASE ~(plan[Last] = "return" /\ i >= Last)
  <2>1. Drifts = {}
    BY <1>4, <1>5, <1>7
  <2> QED
    BY <1>2, <1>3, <1>7, <2>1, FS_EmptySet
<1> QED
    BY <1>6, <1>7

LEMMA OKKickedAlike ==
    ASSUME DealOK, PlanOK, NEW K, ExchangeOK(K)
    PROVE  Exchange!KickedAlike
<1> SUFFICES ASSUME NEW r \in Rank, Exchange!Doing(r, "drift", "post"), NEW p \in DOMAIN hard[r]
             PROVE  hard[r][p].kicks = Exchange!Past("kick", step[r]) /\ hard[r][p].mass = 1
    BY DEF Exchange!KickedAlike
<1>1. StepOK /\ HardOK(K, r) /\ K \in [Particle -> Kinds]
    BY DEF ExchangeOK
<1>2. /\ step[r] \in 1..Last /\ step[r] = Last - 1 /\ step[r] > 3 /\ half[r] = "post"
      /\ Last \in Nat /\ Reached(r) = step[r]
    BY <1>1, TaskAt, PlanFacts DEF Reached
<1>3. DOMAIN hard[r] = Given(r)
    BY <1>2, SetsAre
<1>4. p \in Given(r) /\ p \in Particle
    BY <1>2, <1>3, SetsAre
<1>5. Reached(r) > 2 /\ ~Drifted(r)
    BY <1>2 DEF Drifted
<1>6. hard[r][p] = Rec(K[p], Kicks(step[r]))
    BY <1>1, <1>2, <1>4, <1>5 DEF HardOK
<1>7. Kicks(step[r]) \in Nat /\ Kicks(step[r]) > 0 /\ Exchange!Past("kick", step[r]) = Kicks(step[r])
    BY <1>2, PastIs, PlanFacts
<1> QED
    BY <1>6, <1>7 DEF Rec

\* What a rank has at home after an output, and after the return of a drift
LEMMA AtHome ==
    ASSUME DealOK, PlanOK, NEW K, ExchangeOK(K), NEW r \in Rank, half[r] = "post",
           step[r] > 1, plan[step[r] - 1] \in {"output", "return"}, NEW p \in Exchange!Connected(r)
    PROVE  /\ p \in DealtTo(r, r) \cup Away(r) /\ p \in Particle
           /\ plan[step[r] - 1] = "output" =>
                 /\ sys[p] = Rec(K[p], Kicks(step[r])) /\ dm[p] = 0 /\ sys[p].mass = 1
                 /\ step[r] > 4 /\ ~(plan[Last] = "return" /\ step[r] >= Last)
           /\ plan[step[r] - 1] = "return" =>
                 /\ sys[p].kicks = Kicks(Last) /\ sys[p].drifts = 1 /\ dm[p] = sys[p].mass - 1
                 /\ step[r] = Last + 1 /\ plan[Last] = "return"
<1>1. /\ StepOK /\ K \in [Particle -> Kinds]
      /\ \A s \in Rank : HardOK(K, s) /\ LocalOK(K, s) /\ AwayOK(K, s)
    BY DEF ExchangeOK
<1>2. PICK k \in 1..Last : step[r] = k + 1 /\ Last \in Nat /\ Last >= 4
    BY <1>1, PlanFacts DEF StepOK
<1>3. k \in Nat /\ Reached(r) = k + 1 /\ plan[k] \in {"output", "return"} /\ step[r] - 1 = k
    BY <1>2 DEF Reached
<1>4. k \in 3..Last /\ plan[1] = "exchange" /\ plan[2] = "groups" /\ plan[3] = "kick"
    BY <1>2, <1>3 DEF PlanOK
<1>5. /\ k > 3
      /\ plan[k] = "return" => k = Last
      /\ plan[k] = "output" => ~(plan[Last] = "return" /\ k >= Last - 1)
    BY <1>2, <1>3, <1>4 DEF PlanOK
<1>6. DOMAIN send[r] = Away(r) /\ Exchange!Local(r) = DealtTo(r, r)
    BY <1>2, <1>3, <1>5, SetsAre
<1>7. p \in DealtTo(r, r) \cup Away(r) /\ p \in Particle /\ p \in Shared
    BY <1>6, SharedFacts DEF Exchange!Connected
<1>8. CASE plan[k] = "output"
  <2>1. Kicks(k + 1) \in Nat /\ Kicks(k + 1) > 0
    BY <1>3, <1>5, PlanFacts
  <2>2. sys[p] = Rec(K[p], Kicks(k + 1)) /\ dm[p] = 0
    <3>1. CASE p \in DealtTo(r, r)
      BY <1>1, <1>3, <1>5, <1>8, <3>1 DEF LocalOK
    <3>2. CASE p \in Away(r)
      <4>1. step[r] > 2 /\ plan[step[r] - 1] = "output" /\ Kicks(step[r]) = Kicks(k + 1)
        BY <1>2, <1>3, <1>5, <1>8
      <4> QED
        BY <1>1, <3>2, <4>1 DEF AwayOK
    <3> QED
      BY <1>7, <3>1, <3>2
  <2>3. sys[p].mass = 1
    BY <2>1, <2>2 DEF Rec
  <2> QED
    BY <1>2, <1>3, <1>5, <1>7, <1>8, <2>2, <2>3
<1>9. CASE plan[k] = "return"
  <2>1. k = Last /\ SentBack(r) /\ AllBack(r) /\ Drifted(r) /\ step[r] > 1
    BY <1>2, <1>3, <1>5, <1>9 DEF SentBack, AllBack, Drifted
  <2>2. sys[p].kicks = Kicks(Last) /\ sys[p].drifts = 1 /\ dm[p] = sys[p].mass - 1
    <3>1. CASE p \in DealtTo(r, r)
      <4>1. p \in Given(r)
        BY <3>1 DEF DealtTo, Given
      <4> QED
        BY <1>1, <2>1, <3>1, <4>1 DEF LocalOK, HardOK
    <3>2. CASE p \in Away(r)
      <4>1. PICK h \in Rank : h = HardRank(p) /\ SentBack(h) /\ sys[p] = hard[h][p]
        BY <1>1, <2>1, <3>2 DEF AwayOK
      <4>2. p \in Given(h)
        BY <1>7, <4>1 DEF Given
      <4>3. step[h] > 1 /\ Drifted(h)
        BY <1>1, <1>2, <4>1, ReachedType DEF SentBack, Drifted
      <4>4. dm[p] = sys[p].mass - 1
        BY <1>1, <2>1, <3>2 DEF AwayOK
      <4> QED
        BY <1>1, <4>1, <4>2, <4>3, <4>4 DEF HardOK
    <3> QED
      BY <1>7, <3>1, <3>2
  <2> QED
    BY <1>2, <1>3, <1>7, <1>9, <2>1, <2>2
<1> QED
    BY <1>3, <1>8, <1>9

LEMMA OKHomeAlike ==
    ASSUME DealOK, PlanOK, NEW K, ExchangeOK(K)
    PROVE  Exchange!HomeAlike
<1> SUFFICES ASSUME NEW r \in Rank, step[r] > 1, plan[step[r] - 1] \in {"output", "return"},
                    half[r] = "post", NEW p \in Exchange!Connected(r)
             PROVE  /\ sys[p].kicks = Exchange!Past("kick", step[r])
                    /\ sys[p].drifts = Exchange!Past("drift", step[r])
                    /\ sys[p].mass # 1 => sys[p].drifts = 1
    BY DEF Exchange!HomeAlike
<1>1. step[r] \in 1..Last + 1 /\ Last \in Nat /\ Last >= 4
    BY PlanFacts DEF ExchangeOK, StepOK
<1>2. /\ Exchange!Past("kick", step[r]) = Kicks(step[r])
      /\ Exchange!Past("drift", step[r]) = IF plan[Last] = "return" /\ step[r] >= Last THEN 1 ELSE 0
    BY <1>1, PastIs
<1>3. CASE plan[step[r] - 1] = "output"
  <2>1. /\ sys[p] = Rec(K[p], Kicks(step[r])) /\ sys[p].mass = 1
        /\ ~(plan[Last] = "return" /\ step[r] >= Last)
    BY <1>3, AtHome
  <2> QED
    BY <1>2, <2>1 DEF Rec
<1>4. CASE plan[step[r] - 1] = "return"
  <2>1. /\ sys[p].kicks = Kicks(Last) /\ sys[p].drifts = 1
        /\ step[r] = Last + 1 /\ plan[Last] = "return"
    BY <1>4, AtHome
  <2>2. Kicks(Last + 1) = Kicks(Last)
    BY <1>1, <2>1, PlanFacts
  <2> QED
    BY <1>1, <1>2, <2>1, <2>2
<1> QED
    BY <1>3, <1>4

LEMMA OKMassChangesListed ==
    ASSUME DealOK, PlanOK, NEW K, ExchangeOK(K)
    PROVE  Exchange!MassChangesListed
<1> SUFFICES ASSUME NEW r \in Rank, step[r] > Len(plan)
             PROVE  /\ mass_modify_list[r] = {p \in Own(r) : sys[p].mass # 1}
                    /\ \A p \in Exchange!Connected(r) : dm[p] = sys[p].mass - 1
    BY SameGraph DEF Exchange!MassChangesListed
<1>1. StepOK /\ TypesOK /\ ListOK(r)
    BY DEF ExchangeOK
<1>2. /\ step[r] = Last + 1 /\ half[r] = "post" /\ Reached(r) = Last + 1 /\ step[r] - 1 = Last
      /\ Last \in Nat /\ Last >= 4 /\ plan[Last] \in {"output", "return"}
  <2>1. step[r] > Last
    BY DEF Last
  <2>2. step[r] = Last + 1 /\ half[r] = "post" /\ Last \in Nat /\ Last >= 4
    BY <1>1, <2>1, PlanFacts DEF StepOK
  <2>3. plan[Last] \in {"output", "return"}
    BY DEF PlanOK
  <2> QED
    BY <2>2, <2>3 DEF Reached
<1>3. \A p \in Exchange!Connected(r) :
          /\ plan[Last] = "output" => dm[p] = 0 /\ sys[p].mass = 1
          /\ plan[Last] = "return" => dm[p] = sys[p].mass - 1
    BY <1>2, AtHome
<1>4. CASE plan[Last] = "return"
  <2>1. AllBack(r)
    BY <1>2, <1>4 DEF AllBack
  <2> QED
    BY <1>1, <1>3, <1>4, <2>1 DEF ListOK
<1>5. CASE plan[Last] = "output"
  <2>1. ~SentBack(r) /\ mass_modify_list[r] = {}
    BY <1>1, <1>2, <1>5 DEF ListOK, SentBack
  <2>2. ASSUME NEW p \in Own(r) PROVE sys[p].mass = 1
    <3>1. CASE p \in Shared
      <4>1. p \in DealtTo(r, r) \cup Away(r)
        BY <3>1, OwnParts
      <4>2. DOMAIN send[r] = Away(r) /\ Exchange!Local(r) = DealtTo(r, r)
        BY <1>2, SetsAre
      <4> QED
        BY <1>3, <1>5, <4>1, <4>2 DEF Exchange!Connected
    <3>2. CASE p \notin Shared
      BY <1>1, <3>2 DEF TypesOK, NewStar, Exchange!NewStar, Own
    <3> QED
      BY <3>1, <3>2
  <2> QED
    BY <1>3, <1>5, <2>1, <2>2
<1> QED
    BY <1>2, <1>4, <1>5

LEMMA OKMessagesExpected ==
    ASSUME DealOK, PlanOK, NEW K, ExchangeOK(K)
    PROVE  Exchange!MessagesExpected
<1>1. StepOK /\ \A m \in Exchange!Channel : NetAt(K, m)
    BY DEF ExchangeOK, NetOK
<1>2. ASSUME NEW m \in Exchange!Channel, step[m[2]] > 1 \/ half[m[2]] = "wait",
             NEW i \in DOMAIN net[m]
      PROVE  DOMAIN net[m][i] = IF m[3] = "back" THEN stars[m[2]][m[1]] ELSE room[m[2]][m[1]]
  <2>1. m[1] \in Rank /\ m[2] \in Rank
    BY ChannelIs
  <2>2. Reached(m[2]) > 1
    BY <1>1, <1>2, <2>1, ReachedType DEF Reached
  <2>3. stars[m[2]][m[1]] = DealtTo(m[2], m[1]) /\ room[m[2]][m[1]] = DealtTo(m[1], m[2])
    BY <2>1, <2>2, SetsAre
  <2>4. net[m] \in Seq([Carried(m) -> Star])
    BY <1>1 DEF NetAt
  <2>5. net[m][i] \in [Carried(m) -> Star]
    BY <1>2, <2>4
  <2> QED
    BY <2>3, <2>5 DEF Carried
<1>3. ASSUME \A r \in Rank : step[r] > Len(plan), NEW m \in Exchange!Channel
      PROVE  net[m] = <<>>
  <2>1. m[1] \in Rank /\ m[2] \in Rank
    BY ChannelIs
  <2>6. step[m[1]] > Last /\ step[m[2]] > Last
    BY <1>3, <2>1 DEF Last
  <2>7. ASSUME NEW r \in Rank, step[r] > Last
        PROVE  Reached(r) = Last + 1 /\ step[r] = Last + 1
    <3>1. /\ Last \in Nat /\ step[r] \in Nat /\ Reached(r) \in Nat
          /\ step[r] <= Reached(r) /\ Reached(r) <= Last + 1
      BY <1>1, ReachedType
    <3> QED
      BY <2>7, <3>1
  <2>2. Reached(m[1]) = Last + 1 /\ step[m[2]] = Last + 1
    BY <2>1, <2>6, <2>7
  <2>3. Count(TasksOf(m[3]), Last + 1) \in Nat
    BY PlanFacts, CountMonotonic
  <2>4. SentOn(m) - ReadOn(m) = 0
    BY <2>2, <2>3 DEF SentOn, ReadOn
  <2>5. net[m] \in Seq([Carried(m) -> Star]) /\ (net[m] = <<>> \/ Len(net[m]) = 0)
    BY <1>1, <2>4 DEF NetAt
  <2> QED
    BY <2>5
<1> QED
    BY <1>2, <1>3, SameCardinality DEF Exchange!MessagesExpected

LEMMA OKWholeClusterOnce ==
    ASSUME DealOK, PlanOK, NEW K, ExchangeOK(K)
    PROVE  Exchange!WholeClusterOnce
<1> DEFINE Isol == UNION {{s} \X IsolatedClusters(s) : s \in Rank}
           Lists(p) == {l \in Isol : p \in l[2]}
                       \cup {<<r, DOMAIN hard[r]>> : r \in {s \in Rank : p \in DOMAIN hard[s]}}
<1> SUFFICES ASSUME \A r \in Rank : Exchange!Doing(r, "groups", "post"),
                    NEW p \in Particle, ~Single(p)
             PROVE  /\ Cardinality(Lists(p)) = 1
                    /\ \A l \in Lists(p) : ClusterOf(p) \subseteq l[2]
  <2>1. Isol = UNION {{s} \X Exchange!IsolatedClusters(s) : s \in Rank}
    BY SameGraph
  <2> QED
    BY <2>1, SameGraph, SameCardinality DEF Exchange!WholeClusterOnce
<1>1. GraphOK /\ StepOK
    BY DEF DealOK, ExchangeOK
<1>2. \A r \in Rank : DOMAIN hard[r] = Given(r)
  <2> SUFFICES ASSUME NEW r \in Rank PROVE DOMAIN hard[r] = Given(r)
    OBVIOUS
  <2>1. step[r] = 2 /\ half[r] = "post" /\ Reached(r) = 2
    BY <1>1, TaskAt DEF Reached
  <2> QED
    BY <2>1, SetsAre
<1>3. ASSUME NEW s \in Rank, NEW L \in IsolatedClusters(s), p \in L
      PROVE  s = owner[p] /\ L = LocalCluster(s, p) /\ p \notin Shared
  <2>1. PICK q \in SelfNode(s) : Isolated(s, q) /\ L = LocalCluster(s, q)
    BY <1>3 DEF IsolatedClusters
  <2>2. q \in PtclCluster(s)
    BY <2>1 DEF PtclCluster
  <2>3. p \in PtclCluster(s) /\ LocalCluster(s, p) = L
    BY <1>1, <1>3, <2>1, <2>2, LocalClusterMember
  <2>4. p \notin Outer(s) /\ Isolated(s, p)
    BY <1>3, <2>1, <2>3 DEF Isolated
  <2>5. owner[p] = s
    BY <2>3, <2>4 DEF PtclCluster, SelfNode, Own
  <2> QED
    BY <2>3, <2>4, <2>5 DEF Shared, Mediator
<1>4. ASSUME NEW l \in Isol
      PROVE  l[1] \in Rank /\ l[2] \in IsolatedClusters(l[1]) /\ l = <<l[1], l[2]>>
    OBVIOUS
<1>5. CASE p \in Shared
  <2> DEFINE h == HardRank(p)
             one == <<h, Given(h)>>
  <2>1. h \in Rank /\ p \in Given(h)
    BY <1>5, SharedFacts DEF Given
  <2>2. \A l \in Isol : p \notin l[2]
    BY <1>3, <1>4, <1>5
  <2>3. \A r \in Rank : p \in Given(r) <=> r = h
    BY <2>1 DEF Given
  <2> HIDE DEF Isol, h
  <2>4. Lists(p) = {one}
    BY <1>2, <2>1, <2>2, <2>3
  <2>5. ClusterOf(p) \subseteq Given(h)
    <3> SUFFICES ASSUME NEW q \in ClusterOf(p) PROVE q \in Given(h)
      OBVIOUS
    <3>1. q \in Shared /\ id_cluster[q] = id_cluster[p]
      BY <1>1, <1>5, SharedTogether, SharedId
    <3>2. HardRank(q) = HardRank(p)
      BY <3>1 DEF HardRank, Exchange!RankOf
    <3> QED
      BY <3>1, <3>2 DEF Given, h
  <2>6. one[2] = Given(h)
    OBVIOUS
  <2> HIDE DEF Lists, one
  <2>7. Cardinality(Lists(p)) = 1
    BY <2>4, FS_Singleton
  <2> QED
    BY <2>4, <2>5, <2>6, <2>7
<1>6. CASE p \notin Shared
  <2> DEFINE o == owner[p]
             one == <<o, ClusterOf(p)>>
  <2>1. /\ p \in SelfNode(o) /\ Isolated(o, p) /\ LocalCluster(o, p) = ClusterOf(p)
        /\ o \in Rank
    BY <1>1, <1>6, NotShared, GraphFacts
  <2>2. ClusterOf(p) \in IsolatedClusters(o) /\ p \in ClusterOf(p)
    BY <2>1 DEF IsolatedClusters, ClusterOf, ReachedBy
  <2>3. one \in Isol /\ p \in one[2]
    BY <2>1, <2>2
  <2>4. \A l \in Isol : p \in l[2] => l = one
    BY <1>3, <1>4, <2>1
  <2>5. \A r \in Rank : p \notin DOMAIN hard[r]
    BY <1>2, <1>6, SharedFacts
  <2> HIDE DEF Isol, one
  <2>6. Lists(p) = {one}
    BY <2>3, <2>4, <2>5
  <2>7. one[2] = ClusterOf(p)
    BY DEF one
  <2> QED
    BY <2>6, <2>7, FS_Singleton
<1> QED
    BY <1>5, <1>6

\* Each star with a neighbour is in exactly one list of hard particles, with all
\* of its cluster (sendAndRecvCluster, setPtclForConnectedCluster).
THEOREM WholeClustersOnce == StepSpec => []WholeClusterOnce
<1>1. StepInv => WholeClusterOnce
    BY OKWholeClusterOnce DEF StepInv, WholeClusterOnce
<1> QED
    BY <1>1, StepInvariant, PTL

\* Every message of the exchange has the size its receiver has made room for,
\* and is received before the step ends (n_ptcl_recv_, SendSinglePtcl,
\* writeAndSendBackPtcl).
THEOREM MessagesAsExpected == StepSpec => []MessagesExpected
<1>1. StepInv => MessagesExpected
    BY OKMessagesExpected DEF StepInv, MessagesExpected
<1> QED
    BY <1>1, StepInvariant, PTL

\* Wherever a star lives and whether or not it is a member, its copy has had all
\* the kicks of the step, and its mass back, before the drift
\* (kickClusterAndRecoverGroupMemberMass, kickSend, SendSinglePtcl).
THEOREM CopiesKickedAlike == StepSpec => []KickedAlike
<1>1. StepInv => KickedAlike
    BY OKKickedAlike DEF StepInv, KickedAlike
<1> QED
    BY <1>1, StepInvariant, PTL

\* What a rank gets back after an output or a drift has been through every kick
\* and drift of the step (writeAndSendBackPtcl).
THEOREM StarsHomeAlike == StepSpec => []HomeAlike
<1>1. StepInv => HomeAlike
    BY OKHomeAlike DEF StepInv, HomeAlike
<1> QED
    BY <1>1, StepInvariant, PTL

\* The stars whose mass a drift has changed are in mass_modify_list of the rank
\* they live on, and no others are, and dm is the change.
THEOREM MassChangesAreListed == StepSpec => []MassChangesListed
<1>1. StepInv => MassChangesListed
    BY OKMassChangesListed DEF StepInv, MassChangesListed
<1> QED
    BY <1>1, StepInvariant, PTL
=============================================================================
