--------------------------- MODULE ClusterSearch ---------------------------
(***************************************************************************)
(* SearchCluster, from the local search to setIdClusterGlobalIteration:    *)
(* the ranks agree on one id for each cluster that spans several of them.  *)
(*                                                                         *)
(* Every entry starts with the particle's own id.  In each round a rank    *)
(* sends the ids of its particles to the ranks that hold copies, lowers    *)
(* its copies to what it receives, and passes once over its entries, each  *)
(* taking the lowest id among its neighbours; the rounds end when no rank  *)
(* changed an id.  A message is read from the sender's buffer when the     *)
(* receiver waits for it: a sender may go on as soon as it has posted it,  *)
(* as MPI may keep a copy, until it packs the buffer again.                *)
(***************************************************************************)
EXTENDS ClusterGraph

VARIABLES
    pc,       \* per rank
    id,       \* id_cluster_ of the entries of each rank
    todo,     \* entries the running pass has not visited
    changed,  \* flag_itr_loc
    asked,    \* ranks that told the owners which copies they hold
    sendTo,   \* adr_pcluster_send_: what a rank sends to each other rank
    buffer,   \* id_cluster_send_
    posted    \* messages <<from, to>> not yet received

vars == <<graph, pc, id, todo, changed, asked, sendTo, buffer, posted>>

Phase == {"local", "ask", "connect", "pack", "receive", "pass", "reduce", "done"}

TypeOK ==
    /\ GraphOK
    /\ pc \in [Rank -> Phase]
    /\ id \in [Rank -> [Particle -> Particle]]
    /\ todo \in [Rank -> SUBSET Particle]
    /\ changed \in [Rank -> BOOLEAN]
    /\ asked \subseteq Rank
    /\ sendTo \in [Rank -> [Rank -> SUBSET Particle]]
    /\ buffer \in [Rank -> [Particle -> Particle]]
    /\ posted \subseteq Rank \X Rank

\* searchNeighborOMP and searchClusterLocal have run.
Init ==
    /\ GraphOK
    /\ pc = [r \in Rank |-> "local"]
    /\ id = [r \in Rank |-> [p \in Particle |-> p]]
    /\ todo = [r \in Rank |-> PtclCluster(r)]
    /\ changed = [r \in Rank |-> FALSE]
    /\ asked = {}
    /\ sendTo = [r \in Rank |-> [s \in Rank |-> {}]]
    /\ buffer = [r \in Rank |-> [p \in Particle |-> p]]
    /\ posted = {}

-----------------------------------------------------------------------------
\* Wrong: the flag tells only about the last entry of the pass.
FlagOfLast(r, v, p) == v # id[r][p]
\* flag_itr_loc |= true
FlagIterate(r, v, p) == changed[r] \/ v # id[r][p]

\* The entry the pass comes to next
IsNext(r, p) == p \in todo[r] /\ \A q \in todo[r] : order[r][p] <= order[r][q]

\* setIdClusterImpl, with v the lowest id of the entry and its neighbours
SetIdClusterImpl(r, p, v) ==
    /\ IsNext(r, p)
    /\ IsLowest(v, {id[r][q] : q \in LocalNgb(r)[p] \cup {p}})
    /\ id' = [id EXCEPT ![r][p] = v]
    /\ todo' = [todo EXCEPT ![r] = @ \ {p}]

\* setIdClusterLocal: one pass over all entries, in the order of the array
SetIdClusterLocal(r) ==
    /\ pc[r] = "local"
    /\ \E p, v \in Particle : SetIdClusterImpl(r, p, v)
    /\ UNCHANGED <<graph, pc, changed, asked, sendTo, buffer, posted>>

LocalDone(r) ==
    /\ pc[r] = "local" /\ todo[r] = {}
    /\ pc' = [pc EXCEPT ![r] = "ask"]
    /\ UNCHANGED <<graph, id, todo, changed, asked, sendTo, buffer, posted>>

\* connectNodes, before the exchange of id_send
AskOwners(r) ==
    /\ pc[r] = "ask"
    /\ asked' = asked \cup {r}
    /\ pc' = [pc EXCEPT ![r] = "connect"]
    /\ UNCHANGED <<graph, id, todo, changed, sendTo, buffer, posted>>

\* id_recv from each rank
AskedFrom(r) == [s \in Rank |-> Outer(s) \cap Own(r)]

\* connectNodes, when the ids of all other ranks have arrived
ConnectNodes(r) ==
    /\ pc[r] = "connect"
    /\ asked = Rank
    /\ sendTo' = [sendTo EXCEPT ![r] = AskedFrom(r)]
    /\ pc' = [pc EXCEPT ![r] = "pack"]
    /\ UNCHANGED <<graph, id, todo, changed, asked, buffer, posted>>

-----------------------------------------------------------------------------
\* Wrong: ids are taken from the buffer without waiting.
WaitForNobody(r) == {}
\* rank_recv_cluster_
RankRecv(r) == {s \in Rank \ {r} : Outer(r) \cap Own(s) # {}}
\* rank_send_cluster_
RankSend(r) == {s \in Rank \ {r} : sendTo[r][s] # {}}

\* adr_pcluster_send_, whatever the rank it is sent to
Packed(r) == UNION {sendTo[r][s] : s \in Rank}

\* Start of a round: pack the ids and post the messages.
PackIds(r) ==
    /\ pc[r] = "pack"
    /\ buffer' = [buffer EXCEPT ![r] = [p \in Particle |->
                      IF p \in Packed(r) THEN id[r][p] ELSE buffer[r][p]]]
    /\ posted' = posted \cup {<<r, s>> : s \in RankSend(r)}
    /\ pc' = [pc EXCEPT ![r] = "receive"]
    /\ UNCHANGED <<graph, id, todo, changed, asked, sendTo>>

\* Some received id is below the copy's.
ReceivedLower(r) == \E p \in Outer(r) : buffer[owner[p]][p] < id[r][p]

\* Waitall, then every copy takes a lower id of its owner.
ReceiveIds(r) ==
    /\ pc[r] = "receive"
    /\ \A s \in RankRecv(r) : <<s, r>> \in posted
    /\ posted' = posted \ (Rank \X {r})
    /\ id' = [id EXCEPT ![r] = [p \in Particle |->
                  IF p \in Outer(r) /\ buffer[owner[p]][p] < id[r][p]
                  THEN buffer[owner[p]][p] ELSE id[r][p]]]
    /\ changed' = [changed EXCEPT ![r] = ReceivedLower(r)]
    /\ todo' = [todo EXCEPT ![r] = Mediator(r)]
    /\ pc' = [pc EXCEPT ![r] = "pass"]
    /\ UNCHANGED <<graph, asked, sendTo, buffer>>

\* One entry of the pass over mediator_sorted_id_cluster_
PassEntry(r) ==
    /\ pc[r] = "pass"
    /\ \E p, v \in Particle :
          /\ SetIdClusterImpl(r, p, v)
          /\ changed' = [changed EXCEPT ![r] = FlagIterate(r, v, p)]
    /\ UNCHANGED <<graph, pc, asked, sendTo, buffer, posted>>

PassDone(r) ==
    /\ pc[r] = "pass" /\ todo[r] = {}
    /\ pc' = [pc EXCEPT ![r] = "reduce"]
    /\ UNCHANGED <<graph, id, todo, changed, asked, sendTo, buffer, posted>>

\* Wrong: each rank goes by its own flag.
BranchLocal == [r \in Rank |-> IF changed[r] THEN "pack" ELSE "done"]
\* Another round if any rank changed an id
BranchOR == [r \in Rank |-> IF \E s \in Rank : changed[s] THEN "pack" ELSE "done"]

\* synchronizeConditionalBranchOR: all ranks meet.
SynchronizeConditionalBranchOR ==
    /\ \A r \in Rank : pc[r] = "reduce"
    /\ pc' = BranchOR
    /\ UNCHANGED <<graph, id, todo, changed, asked, sendTo, buffer, posted>>

RankStep(r) ==
    \/ SetIdClusterLocal(r)
    \/ LocalDone(r)
    \/ AskOwners(r)
    \/ ConnectNodes(r)
    \/ PackIds(r)
    \/ ReceiveIds(r)
    \/ PassEntry(r)
    \/ PassDone(r)

Next ==
    \/ \E r \in Rank : RankStep(r)
    \/ SynchronizeConditionalBranchOR

\* Every rank goes on with its own code, and a reduction all have entered returns.
Fairness ==
    /\ \A r \in Rank : WF_vars(RankStep(r))
    /\ WF_vars(SynchronizeConditionalBranchOR)

Spec == Init /\ [][Next]_vars
FairSpec == Spec /\ Fairness

-----------------------------------------------------------------------------
(* Properties *)

\* A rank that leaves the rounds gives two of its entries the same id exactly
\* when they belong to one cluster of the whole system, and ranks that share a
\* cluster know it by the same id: the lowest of its particles.
IdsAreClusters ==
    \A r \in Rank : pc[r] = "done" =>
       \A p \in Mediator(r) : IsLowest(id[r][p], ClusterOf(p))

\* The ids of different clusters never meet, at any point of the rounds: an
\* entry's id, and an id on its way, is that of a particle of its cluster.
IdsStayInCluster ==
    \A p \in Particle :
       LET C == ClusterOf(p) IN \A r \in Rank : id[r][p] \in C /\ buffer[r][p] \in C

\* A rank packs its ids again only when the last ones have all been received:
\* the buffer that posted messages are read from is never overwritten.
BufferNotReused ==
    \A r \in Rank : pc[r] = "pack" => \A s \in Rank : <<r, s>> \notin posted

\* The ids come to rest and every rank leaves the rounds.
RoundsEnd == <>(\A r \in Rank : pc[r] = "done")
=============================================================================
