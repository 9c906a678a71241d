---------------------------- MODULE ClusterStep ----------------------------
(***************************************************************************)
(* The clusters that span ranks during one tree step: first the ranks      *)
(* agree on their ids (ClusterSearch), then they deal them out and work on *)
(* them (ClusterExchange).  Each particle takes along the id its owner     *)
(* found; the exchange relies on the copies having the same.               *)
(***************************************************************************)
EXTENDS ClusterSearch, Sequences

CONSTANTS Plans, Evolving

\* What integrateToTime does after createGroup: kicks and outputs, a kick first;
\* then it returns after an output, or drifts and the next pass writes back.
ASSUME PlansAssumption ==
    \A p \in Plans :
        LET n == Len(p) IN
        /\ p \in Seq({"kick", "output", "drift", "return"})
        /\ n > 1 /\ p[1] = "kick" /\ p[n] \in {"output", "return"}
        /\ \A i \in 1..n : /\ p[i] = "return" => i = n
                           /\ p[i] = "drift" <=> i = n - 1 /\ p[n] = "return"

VARIABLES plan, id_cluster, mediator, stars, room, step, half, sys, hard, send, net, dm,
          mass_modify_list

Exchange == INSTANCE ClusterExchange

exchange == <<plan, id_cluster, mediator, stars, room, step, half, sys, hard, send, net, dm,
              mass_modify_list>>
search == <<pc, id, todo, changed, asked, sendTo, buffer, posted>>

StepInit ==
    /\ Init
    /\ plan = <<>> /\ id_cluster = <<>> /\ mediator = <<>> /\ stars = <<>> /\ room = <<>>
    /\ step = <<>> /\ half = <<>> /\ sys = <<>> /\ hard = <<>> /\ send = <<>> /\ net = <<>>
    /\ dm = <<>> /\ mass_modify_list = <<>>

Begun == plan # <<>>

\* The id of each particle, as its owner has it
IdsFound == [p \in Particle |-> id[owner[p]][p]]

\* searchConnectClusterMPI is through; sendAndRecvCluster is called.
Deal ==
    /\ ~Begun
    /\ \A r \in Rank : pc[r] = "done"
    /\ pc' = [r \in Rank |-> "dealt"]
    /\ UNCHANGED <<graph, id, todo, changed, asked, sendTo, buffer, posted>>
    /\ Exchange!Start(IdsFound)

Search == ~Begun /\ Next /\ UNCHANGED exchange
Work(r) == Begun /\ Exchange!RankStep(r) /\ UNCHANGED search

StepNext == Search \/ Deal \/ \E r \in Rank : Work(r)

StepVars == <<graph, search, exchange>>

\* Every rank goes on with its own code.
StepSpec ==
    /\ StepInit /\ [][StepNext]_StepVars
    /\ Fairness
    /\ WF_StepVars(Deal)
    /\ \A r \in Rank : WF_StepVars(Work(r))

-----------------------------------------------------------------------------
(* Properties of the exchange, with the ids that the search has found *)

\* Each star with a neighbour is in one list of hard particles, with all of its
\* cluster (sendAndRecvCluster, setPtclForConnectedCluster).
WholeClusterOnce == Begun => Exchange!WholeClusterOnce

\* No message is larger or smaller than the receiver expects, or left over
\* (n_ptcl_recv_, SendSinglePtcl, writeAndSendBackPtcl).
MessagesExpected == Begun => Exchange!MessagesExpected

\* Before a drift all copies have had the same kicks, and members their mass back
\* (kickClusterAndRecoverGroupMemberMass, kickSend, SendSinglePtcl).
KickedAlike == Begun => Exchange!KickedAlike

\* What comes home has been through the whole step (writeAndSendBackPtcl).
HomeAlike == Begun => Exchange!HomeAlike

\* Each rank lists those of its stars whose mass the drift changed
\* (mass_modify_list, dm).
MassChangesListed == Begun => Exchange!MassChangesListed

\* Every rank gets through the search and the tree step.
StepEnds == <>(Begun /\ \A r \in Rank : step[r] > Len(plan))
=============================================================================
