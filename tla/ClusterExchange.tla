--------------------------- MODULE ClusterExchange ---------------------------
(***************************************************************************)
(* The particles of a connected cluster during one tree step.              *)
(*                                                                         *)
(* sendAndRecvCluster gives every cluster that spans ranks to one of them, *)
(* which holds a copy of each of its particles (ptcl_hard_) until the next *)
(* search.  Groups are found there and reported back; each kick is done    *)
(* where the force is known (at home for a single star, with the group for *)
(* a member that has a c.m. particle) and refreshes the other side;        *)
(* outputs and drifts send the copies home.                                *)
(*                                                                         *)
(* It starts from the ids that ClusterSearch ends with (ClusterStep).      *)
(***************************************************************************)
EXTENDS ClusterGraph, Sequences

CONSTANTS
    Plans,     \* what follows createGroup: sequences of kicks, outputs, a drift, a return
    Evolving   \* stars whose mass may change in a drift

\* A channel <<s, r, tag>>: what s sends to r of the clusters, of the single stars
\* of a kick, of the copies to send back
Tag == {"cluster", "single", "back"}
Channel == Rank \X Rank \X Tag

Task == {"exchange", "groups", "kick", "output", "drift", "return"}

VARIABLES
    plan,   \* the tasks of this tree step
    id_cluster,  \* of each particle
    mediator,    \* mediator_sorted_id_cluster_ of each rank
    stars,  \* mediators by rank_send_: what each rank sends to (or keeps as) each rank
    room,   \* n_ptcl_recv_, as the particles it counts
    step,   \* per rank: number of its task
    half,   \* per rank: "post" (work and send) or "wait" (receive)
    sys,    \* system_soft: the record of every particle at home
    hard,   \* ptcl_hard_ of system_hard_connected on each rank
    send,   \* ptcl_send_ of each rank
    net,    \* messages of each channel, in the order they were sent
    dm,     \* change of mass in sys
    mass_modify_list

deal == <<id_cluster, mediator, stars, room>>

\* A star as far as the exchange can spoil it: its type (a member either has a
\* c.m. particle, "cm", or is in a wide pair that is its whole cluster, "bare"), its
\* mass and backup, and the kicks and drifts it has been through
NewStar == [kind |-> "single", mass |-> 1, backup |-> 0, kicks |-> 0, drifts |-> 0]

NoStars == [r \in Rank |-> [s \in Rank |-> {}]]

\* The search has ended with these ids.
Start(ids) ==
    /\ plan' \in {<<"exchange", "groups">> \o p : p \in Plans}
    /\ id_cluster' = ids
    /\ mediator' = [r \in Rank |-> Mediator(r)]
    /\ stars' = NoStars /\ room' = NoStars
    /\ step' = [r \in Rank |-> 1] /\ half' = [r \in Rank |-> "post"]
    /\ sys' = [p \in Particle |-> NewStar]
    /\ hard' = [r \in Rank |-> <<>>] /\ send' = [r \in Rank |-> <<>>]
    /\ net' = [m \in Channel |-> <<>>]
    /\ dm' = [p \in Particle |-> 0]
    /\ mass_modify_list' = [r \in Rank |-> {}]

Doing(r, task, h) == step[r] <= Len(plan) /\ plan[step[r]] = task /\ half[r] = h
Posted(r) == half' = [half EXCEPT ![r] = "wait"] /\ UNCHANGED step
Finished(r) == half' = [half EXCEPT ![r] = "post"] /\ step' = [step EXCEPT ![r] = @ + 1]

-----------------------------------------------------------------------------
(* Who works on which cluster *)

\* cluster_loc of a rank, and the entries of a cluster that live there
ClusterLoc(r) == {id_cluster[p] : p \in mediator[r]}
Stored(r, c) == {p \in mediator[r] \cap Own(r) : id_cluster[p] = c}
NStored(r, c) == Cardinality(Stored(r, c))

Holders(c) == {r \in Rank : c \in ClusterLoc(r)}
\* Wrong: a rank that has as many particles as any other keeps the cluster.
TiesKept(r, c) ==
    CHOOSE s \in Holders(c) : \A t \in Holders(c) \ {s} :
        \/ NStored(t, c) < NStored(s, c)
        \/ NStored(t, c) = NStored(s, c) /\ (s = r \/ (s < t /\ t # r))
\* rank_ of a cluster, as rank r finds it: most of its particles, then lowest rank
RankOf(r, c) ==
    CHOOSE s \in Holders(c) : \A t \in Holders(c) \ {s} :
        \/ NStored(t, c) < NStored(s, c)
        \/ NStored(t, c) = NStored(s, c) /\ s < t

\* adr_sys_ptcl_send_ for rank s; for r itself, what it keeps
Dealt(r, s) == UNION {Stored(r, c) : c \in {d \in ClusterLoc(r) : RankOf(r, d) = s}}

\* Wrong: counts all the entries of the other rank, outer copies too.
RoomForEntries(r, s) ==
    {p \in mediator[s] : id_cluster[p] \in ClusterLoc(r) /\ RankOf(r, id_cluster[p]) = r}
\* What n_ptcl_recv_ counts: the n_ptcl_stored_ of another rank for clusters of r
RoomFor(r, s) ==
    UNION {Stored(s, c) : c \in {d \in ClusterLoc(r) \cap ClusterLoc(s) : RankOf(r, d) = r}}

\* rank_send_ptcl_ and rank_recv_ptcl_
RankSendPtcl(r) == {s \in Rank \ {r} : stars[r][s] # {}}
RankRecvPtcl(r) == {s \in Rank \ {r} : room[r][s] # {}}

-----------------------------------------------------------------------------
(* Messages: those of one channel are not reordered. *)

\* data[s] goes to rank s.
Post(r, tag, to, data) ==
    net' = [m \in Channel |->
               IF m[1] = r /\ m[2] \in to \ {r} /\ m[3] = tag
               THEN Append(net[m], data[m[2]]) ELSE net[m]]

Arrived(r, tag, from) == \A s \in from : net[<<s, r, tag>>] # <<>>
Receive(r, tag, from) ==
    net' = [m \in Channel |->
               IF m[2] = r /\ m[1] \in from /\ m[3] = tag THEN Tail(net[m]) ELSE net[m]]
\* What rank r receives from rank s
Got(r, tag, s) == Head(net[<<s, r, tag>>])

Restricted(f, S) == [p \in S |-> f[p]]

\* Copies of stars that live elsewhere (adr_org < 0), and of its own
Remote(r) == {p \in DOMAIN hard[r] : owner[p] # r}
Local(r) == DOMAIN hard[r] \cap Own(r)

\* sendAndRecvCluster, up to the sends
SendCluster(r) ==
    /\ Doing(r, "exchange", "post")
    /\ LET to == [s \in Rank |-> Dealt(r, s)]
       IN  /\ stars' = [stars EXCEPT ![r] = to]
           /\ send' = [send EXCEPT ![r] = Restricted(sys, UNION {to[s] : s \in Rank \ {r}})]
           /\ Post(r, "cluster", {s \in Rank : to[s] # {}},
                   [s \in Rank |-> Restricted(sys, to[s])])
    /\ room' = [room EXCEPT ![r] = [s \in Rank |-> RoomFor(r, s)]]
    /\ Posted(r)
    /\ UNCHANGED <<graph, plan, id_cluster, mediator, sys, hard, dm, mass_modify_list>>

\* The rest of sendAndRecvCluster, and setPtclForConnectedCluster
RecvCluster(r) ==
    LET from == RankRecvPtcl(r)
    IN  /\ Doing(r, "exchange", "wait")
        /\ Arrived(r, "cluster", from)
        /\ Receive(r, "cluster", from)
        /\ hard' = [hard EXCEPT ![r] =
                       [p \in stars[r][r] \cup UNION {DOMAIN Got(r, "cluster", s) : s \in from} |->
                           IF owner[p] = r THEN sys[p] ELSE Got(r, "cluster", owner[p])[p]]]
        /\ Finished(r)
        /\ UNCHANGED <<graph, plan, deal, sys, send, dm, mass_modify_list>>

-----------------------------------------------------------------------------
(* Sending copies home *)

\* Wrong: the mass in sys, though that of a member is in the backup
MassBkAlways == [p \in Particle |-> sys[p].mass]
\* mass_bk
MassBk ==
    [p \in Particle |-> IF sys[p].kind = "single" THEN sys[p].mass ELSE sys[p].backup]

\* DataCopy of the records of P into sys, with dm
Home(P, rec, bk) ==
    /\ sys' = [p \in Particle |-> IF p \in P THEN rec[p] ELSE sys[p]]
    /\ dm' = [p \in Particle |-> IF p \in P THEN rec[p].mass - bk[p] ELSE dm[p]]
\* mass_modify_list with those of P whose mass changed
Listed(r, P, rec, bk) == mass_modify_list[r] \cup {p \in P : rec[p].mass # bk[p]}

\* writeAndSendBackPtcl, the sends
PostBack(r, rec) ==
    Post(r, "back", RankRecvPtcl(r),
         [s \in Rank |-> Restricted(rec, {p \in Remote(r) : owner[p] = s})])

RankWith(r, p) == CHOOSE s \in Rank : p \in stars[r][s]
\* Wrong: the messages are received elsewhere and ptcl_send_ stays as it was.
BackElsewhere(r) == send[r]
\* What a rank gets back, into ptcl_send_
Back(r) == [p \in DOMAIN send[r] |-> Got(r, "back", RankWith(r, p))[p]]

\* The first half of writeAndSendBackPtcl for an output or after a drift
WriteAndSend(r, task) ==
    /\ Doing(r, task, "post")
    /\ Home(Local(r), hard[r], MassBk)
    /\ mass_modify_list' = [mass_modify_list EXCEPT ![r] = Listed(r, Local(r), hard[r], MassBk)]
    /\ PostBack(r, hard[r])
    /\ Posted(r)
    /\ UNCHANGED <<graph, plan, deal, hard, send>>

\* The second half: the ranks that sent the particles get them back.
GetBack(r, task) ==
    /\ Doing(r, task, "wait")
    /\ Arrived(r, "back", RankSendPtcl(r))
    /\ Receive(r, "back", RankSendPtcl(r))
    /\ send' = [send EXCEPT ![r] = Back(r)]
    /\ Home(DOMAIN send[r], Back(r), MassBk)
    /\ Finished(r)
    /\ UNCHANGED <<graph, plan, deal, hard>>

-----------------------------------------------------------------------------
(* Groups *)

\* As members, stars give their mass to the c.m.; those of a bare pair keep it.
AsMember(star, kind) ==
    [kind |-> kind, mass |-> IF kind = "cm" THEN 0 ELSE star.mass, backup |-> star.mass,
     kicks |-> star.kicks, drifts |-> star.drifts]

Mates(p) == {q \in Particle : id_cluster[q] = id_cluster[p]}
\* The stars of a rank's clusters that may be found to be members of groups
GroupChoices(r) ==
    {M \in SUBSET DOMAIN hard[r] : \A p \in M : Cardinality(M \cap Mates(p)) > 1}
\* Of these, the pairs that are a cluster by themselves may go without a c.m.
\* particle: those whose slowed-down period is longer than the steps of an orbit.
BareChoices(M) ==
    {B \in SUBSET {p \in M : Cardinality(Mates(p)) = 2} : \A p \in B : Mates(p) \subseteq B}
KindOf(p, bare) == IF p \in bare THEN "bare" ELSE "cm"
Grouped(r, M, bare) ==
    [p \in DOMAIN hard[r] |->
        IF p \in M THEN AsMember(hard[r][p], KindOf(p, bare)) ELSE hard[r][p]]

\* findGroupsAndCreateArtificialParticlesOMP, which puts types and masses of the
\* rank's own stars into sys itself, so that mass_bk is the backup of a member,
\* and the first half of writeAndSendBackPtcl
FindGroups(r) ==
    /\ Doing(r, "groups", "post")
    /\ \E M \in GroupChoices(r) : \E bare \in BareChoices(M) :
          LET rec == Grouped(r, M, bare)
              bk == [p \in DOMAIN rec |-> IF p \in M THEN rec[p].backup ELSE rec[p].mass]
          IN  /\ hard' = [hard EXCEPT ![r] = rec]
              /\ Home(Local(r), rec, bk)
              /\ mass_modify_list' = [mass_modify_list EXCEPT ![r] = Listed(r, Local(r), rec, bk)]
              /\ PostBack(r, rec)
    /\ Posted(r)
    /\ UNCHANGED <<graph, plan, deal, send>>

\* mass_modify_list.resizeNoInitialize(0), when groups are known and after an output
ListCleared(r) == {}

GroupsKnown(r) ==
    /\ GetBack(r, "groups")
    /\ mass_modify_list' = [mass_modify_list EXCEPT ![r] = ListCleared(r)]

-----------------------------------------------------------------------------
(* Kick, output, drift *)

Kicked(star) == [star EXCEPT !.kicks = @ + 1]
Recovered(star) == [star EXCEPT !.mass = star.backup]

\* kickClusterAndRecoverGroupMemberMass: a member with the force on its c.m.,
\* which is here; any other star if it lives here
KickCluster(r) ==
    [p \in DOMAIN hard[r] |->
        LET star == hard[r][p]
        IN  IF star.kind = "cm" THEN Kicked(Recovered(star))
            ELSE IF owner[p] = r THEN Kicked(star) ELSE star]

\* kickSend
KickSend(r) ==
    [p \in Particle |-> IF p \in DOMAIN send[r] /\ sys[p].kind # "cm" THEN Kicked(sys[p]) ELSE sys[p]]
\* SendSinglePtcl: "write local single particle"
Refreshed(r, new) ==
    [p \in DOMAIN send[r] |-> IF send[r][p].kind # "cm" THEN new[p] ELSE send[r][p]]

Kick(r) ==
    /\ Doing(r, "kick", "post")
    /\ hard' = [hard EXCEPT ![r] = KickCluster(r)]
    /\ sys' = KickSend(r)
    /\ send' = [send EXCEPT ![r] = Refreshed(r, KickSend(r))]
    /\ Post(r, "single", RankSendPtcl(r),
            [s \in Rank |-> Restricted(Refreshed(r, KickSend(r)), stars[r][s])])
    /\ Posted(r)
    /\ UNCHANGED <<graph, plan, deal, dm, mass_modify_list>>

\* Wrong: every remote copy is refreshed, as SendPtcl does.
TakenAll(r) == Remote(r)
\* The remote copies that SendSinglePtcl refreshes
Taken(r) == {p \in Remote(r) : hard[r][p].kind # "cm"}

RecvSingle(r) ==
    /\ Doing(r, "kick", "wait")
    /\ Arrived(r, "single", RankRecvPtcl(r))
    /\ Receive(r, "single", RankRecvPtcl(r))
    /\ hard' = [hard EXCEPT ![r] = [p \in DOMAIN hard[r] |->
                   IF p \in Taken(r) THEN Got(r, "single", owner[p])[p] ELSE hard[r][p]]]
    /\ Finished(r)
    /\ UNCHANGED <<graph, plan, deal, sys, send, dm, mass_modify_list>>

\* writeBackHardParticles
Output(r) == WriteAndSend(r, "output")
OutputKnown(r) ==
    /\ GetBack(r, "output")
    /\ mass_modify_list' = [mass_modify_list EXCEPT ![r] = ListCleared(r)]

Integrated(star, mass) ==
    [kind |-> "single", mass |-> mass, backup |-> star.backup,
     kicks |-> star.kicks, drifts |-> star.drifts + 1]

\* driveForMultiClusterOMP: stars may lose, gain or change all their mass, and
\* group_data holds data of the c.m. from here on.
Drift(r) ==
    /\ Doing(r, "drift", "post")
    /\ \E mass \in [DOMAIN hard[r] -> 0 .. 2] :
          /\ \A p \in DOMAIN hard[r] \ Evolving : mass[p] = hard[r][p].mass
          /\ hard' = [hard EXCEPT ![r] = [p \in DOMAIN hard[r] |->
                         Integrated(hard[r][p], mass[p])]]
    /\ Posted(r)
    /\ UNCHANGED <<graph, plan, deal, sys, send, net, dm, mass_modify_list>>

\* PS::Comm::getSum(n_interrupt_connected): all ranks have drifted.
AllDrifted(r) ==
    /\ Doing(r, "drift", "wait")
    /\ \A s \in Rank : step[s] > step[r] \/ (step[s] = step[r] /\ half[s] = "wait")
    /\ Finished(r)
    /\ UNCHANGED <<graph, plan, deal, sys, hard, send, net, dm, mass_modify_list>>

Return(r) == WriteAndSend(r, "return")
Returned(r) ==
    /\ GetBack(r, "return")
    /\ mass_modify_list' = [mass_modify_list EXCEPT ![r] = Listed(r, DOMAIN send[r], Back(r), MassBk)]

RankStep(r) ==
    \/ SendCluster(r)
    \/ RecvCluster(r)
    \/ FindGroups(r)
    \/ GroupsKnown(r)
    \/ Kick(r)
    \/ RecvSingle(r)
    \/ Output(r)
    \/ OutputKnown(r)
    \/ Drift(r)
    \/ AllDrifted(r)
    \/ Return(r)
    \/ Returned(r)

-----------------------------------------------------------------------------
(* Properties *)

\* The stars of a rank in clusters that span ranks
Connected(r) == Local(r) \cup DOMAIN send[r]

\* How often a task comes before place i of the plan
Past(task, i) == Cardinality({j \in 1 .. i - 1 : plan[j] = task})

\* Once every rank has its clusters, each star with a neighbour is in exactly
\* one list of hard particles in the system, isolated or connected, and all
\* stars of its cluster are in the same.
WholeClusterOnce ==
    (\A r \in Rank : Doing(r, "groups", "post")) =>
       LET Lists(p) == {l \in UNION {{s} \X IsolatedClusters(s) : s \in Rank} : p \in l[2]}
                       \cup {<<r, DOMAIN hard[r]>> : r \in {s \in Rank : p \in DOMAIN hard[s]}}
       IN  \A p \in Particle : ~Single(p) =>
              /\ Cardinality(Lists(p)) = 1
              /\ \A l \in Lists(p) : ClusterOf(p) \subseteq l[2]

\* A message has as many particles as the receiver has made room for, and none
\* is left when all ranks are through.
MessagesExpected ==
    /\ \A m \in Channel :
          LET s == m[1]
              r == m[2]
          IN  (step[r] > 1 \/ half[r] = "wait") =>
                 \A i \in DOMAIN net[m] :
                    Cardinality(DOMAIN net[m][i]) =
                       Cardinality(IF m[3] = "back" THEN stars[r][s] ELSE room[r][s])
    /\ (\A r \in Rank : step[r] > Len(plan)) => \A m \in Channel : net[m] = <<>>

\* Before a drift every copy has been through every kick of the step exactly
\* once, wherever the star lives and whether or not it is a member, and has its
\* mass back.
KickedAlike ==
    \A r \in Rank : Doing(r, "drift", "post") =>
       \A p \in DOMAIN hard[r] :
          /\ hard[r][p].kicks = Past("kick", step[r])
          /\ hard[r][p].mass = 1

\* After an output or a return every rank has its own stars, wherever they were
\* integrated, with all the kicks and drifts of the step and a recovered mass.
HomeAlike ==
    \A r \in Rank : step[r] > 1 /\ plan[step[r] - 1] \in {"output", "return"} /\ half[r] = "post" =>
       \A p \in Connected(r) :
          /\ sys[p].kicks = Past("kick", step[r])
          /\ sys[p].drifts = Past("drift", step[r])
          /\ sys[p].mass # 1 => sys[p].drifts = 1

\* A rank that has its stars back lists those whose mass the drift changed, and
\* no others, and dm is the change: what the energy is corrected by.
MassChangesListed ==
    \A r \in Rank : step[r] > Len(plan) =>
       /\ mass_modify_list[r] = {p \in Own(r) : sys[p].mass # 1}
       /\ \A p \in Connected(r) : dm[p] = sys[p].mass - 1
=============================================================================
