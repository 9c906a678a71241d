------------------------------ MODULE TreeStep ------------------------------
(***************************************************************************)
(* PeTar::integrateToTime: the loop over tree steps that kicks all         *)
(* particles with the tree force and drifts them with the hard             *)
(* integrators, with output, changeover updates, interrupted drifts, and   *)
(* a restart from a snapshot.                                              *)
(*                                                                         *)
(* A system is a SystemHard: every rank has one for its isolated and one   *)
(* for its connected clusters (none without MPI).  The one-cluster systems *)
(* are never interrupted, advance together, and count as one.  Ranks meet  *)
(* in every reduction, so one behaviour stands for all of them.            *)
(***************************************************************************)
EXTENDS KickDriftStep, FiniteSets

CONSTANTS
    OneCluster, Isolated, Connected,  \* the systems
    DtSnap,      \* output interval
    Breaks,      \* the times callers ask for
    Interrupts,  \* interrupt_detection_option = 2
    Evolving,    \* systems with stars that may change mass
    Reopt,       \* HARD_REOPT: a run may stop after an output
    Restarts     \* a run may be killed and restarted from a snapshot

ASSUME TreeStepAssumption ==
    /\ OneCluster \notin Isolated \cup Connected
    /\ Isolated \cap Connected = {} /\ IsFiniteSet(Isolated \cup Connected)
    /\ DtSnap \in Nat \ {0} /\ DtSnap % DtTree = 0
    /\ Breaks \subseteq Nat
    /\ Interrupts \in BOOLEAN /\ Reopt \in BOOLEAN /\ Restarts \in BOOLEAN
    /\ Evolving \subseteq {OneCluster} \cup Isolated \cup Connected

Hard == Isolated \cup Connected
System == {OneCluster} \cup Hard

VARIABLES
    pc,               \* what integrateToTime does next; "out": it is not running
    time_break, returned,  \* argument and last result (-1: none yet)
    time, time_kick,       \* stat.time; time of the velocities
    dt_manager,
    time_origin, time_write_back, interrupt_dt,  \* of each system
    interrupted,      \* systems with a non-empty interrupt_list_
    n_interrupt,      \* n_interrupt_glb
    flags,            \* output_flag, changeover_flag, interrupt_flag
    changeover,       \* systems with changeover radii to update
    corrected,        \* acorr was computed for this kick (GradientKick)
    changed,          \* systems with masses not yet in system_soft
    dm,               \* systems with dm # 0 in system_soft
    mass_modify_list, \* systems with entries in the list
    owed,             \* history: mass changes whose energy is not corrected
    nfile, snapshots  \* file_header.nfile; the files and their times

clock == <<time, time_kick, dt_manager>>
hard == <<time_origin, interrupt_dt, interrupted, n_interrupt>>
mass == <<changed, dm, mass_modify_list, owed>>
call == <<time_break, returned>>
files == <<nfile, snapshots>>
vars == <<pc, call, clock, hard, time_write_back, flags, changeover, corrected, mass, files>>

NoFlags == [output |-> FALSE, changeover |-> FALSE, interrupt |-> FALSE]

\* file_header.nfile--; avoid repeating files
AvoidRepeatedFile(n) == n - 1

\* output(): the file that is written and the files there are then
Written(n, t) == [k \in DOMAIN snapshots \cup {n + 1} |-> IF k = n + 1 THEN t ELSE snapshots[k]]

AllAt(t) == [s \in System |-> t]

\* A first run reads a file with number 0 and writes it again.  Nothing is in
\* progress and every time is that of the file.
Init ==
    /\ pc = "out" /\ time_break = 0 /\ returned = -1
    /\ time = 0 /\ time_kick = 0 /\ dt_manager = NewDtManager
    /\ time_origin = AllAt(0) /\ time_write_back = AllAt(0) /\ interrupt_dt = AllAt(0)
    /\ interrupted = {} /\ n_interrupt = 0
    /\ flags = NoFlags /\ changeover = {} /\ corrected = FALSE
    /\ changed = {} /\ dm = {} /\ mass_modify_list = {} /\ owed = {}
    /\ nfile = AvoidRepeatedFile(0) + 1
    /\ snapshots = [k \in {nfile} |-> 0]

\* The call: finish an interrupted drift first.
IntegrateToTime ==
    /\ pc = "out"
    /\ time_break' \in Breaks
    /\ returned' = -1
    /\ pc' = IF n_interrupt > 0 THEN "finish" ELSE "check"
    /\ UNCHANGED <<clock, hard, time_write_back, flags, changeover, corrected, mass, files>>

-----------------------------------------------------------------------------
\* What writing the systems of w back to system_soft does to the mass
\* bookkeeping, when the hard systems of c hold changed masses: dm is set
\* anew for every particle, and those with a change are put on the list.
WriteBackMass(w, c) ==
    /\ changed' = c \ w
    /\ dm' = (dm \ w) \cup (c \cap w)
    /\ owed' = owed \cup (c \cap w)
UpdateTimeWriteBack(w, origin) ==
    time_write_back' = [s \in System |-> IF s \in w THEN origin[s] ELSE time_write_back[s]]

\* finishInterruptDrift: an isolated system that was interrupted and is not
\* any more, and all connected systems when none of them is interrupted
\* (whether or not one was).
Finished(i) ==
    ((Isolated \cap interrupted) \ i) \cup (IF Connected \cap i = {} THEN Connected ELSE {})

\* Wrong: the time of the system stays.
OriginsForgotten(i) == time_origin
OriginsAfterFinish(i) ==
    [s \in System |-> IF s \in interrupted \ i THEN time_origin[s] + interrupt_dt[s]
                      ELSE time_origin[s]]

\* Wrong: nothing is listed.
ListedNowhere(i, c) == mass_modify_list
\* The connected systems write to a list of their own, which is lost.
ListedAfterFinish(i, c) == mass_modify_list \cup (c \cap Finished(i) \cap Isolated)

\* Wrong: interrupts are finished again and again.
FinishAgain(i) == "finish"
AfterFinish(i) == IF i # {} THEN "out" ELSE "check"

FinishInterruptDrift ==
    /\ pc = "finish"
    /\ \E i \in SUBSET interrupted, m \in SUBSET (Evolving \cap interrupted) :
          /\ time_origin' = OriginsAfterFinish(i)
          /\ interrupted' = i
          /\ n_interrupt' = Cardinality(i)
          /\ UpdateTimeWriteBack(Finished(i), time_origin')
          /\ WriteBackMass(Finished(i), changed \cup m)
          /\ mass_modify_list' = ListedAfterFinish(i, changed \cup m)
          /\ pc' = AfterFinish(i)
          /\ returned' = IF i # {} THEN n_interrupt' ELSE returned
    /\ UNCHANGED <<time_break, clock, interrupt_dt, flags, changeover, corrected, files>>

CheckTimeBreak ==
    /\ pc = "check"
    /\ IF time >= time_break THEN pc' = "out" /\ returned' = 0
                             ELSE pc' = "loop" /\ UNCHANGED returned
    /\ UNCHANGED <<time_break, clock, hard, time_write_back, flags, changeover, corrected,
                   mass, files>>

\* The energy of every listed change is corrected, with the dm found now.
CorrectSoftPotMassChange ==
    /\ pc = "loop"
    /\ pc' = "force"
    /\ owed' = owed \ (mass_modify_list \cap dm)
    /\ dm' = dm \ mass_modify_list
    /\ mass_modify_list' = {}
    /\ UNCHANGED <<call, clock, hard, time_write_back, flags, changeover, corrected,
                   changed, files>>

\* if (dt_manager.getCountContinue() == 1) GradientKick(), with the count of
\* the previous pair
GradientCorrected == StepMode = "kdkdk4" /\ dt_manager.count = 1

\* removeParticles to treeForceCorrectChangeover.  New systems are set up
\* from system_soft; any of them may have changeover radii to update.
CreateGroup ==
    /\ pc = "force"
    /\ n_interrupt = 0    \* assert in removeParticles and exchangeParticle
    /\ pc' = "kick"
    /\ changeover' \in SUBSET Hard
    /\ corrected' = GradientCorrected
    /\ changed' = {}
    /\ dm' = dm \ Connected
    /\ mass_modify_list' = IF Connected = {} THEN mass_modify_list ELSE {}
    /\ UpdateTimeWriteBack(Connected, time_origin)
    /\ UNCHANGED <<call, clock, hard, flags, owed, files>>

-----------------------------------------------------------------------------
Kick(dt) == time_kick' = time_kick + dt
\* correctForceChangeOverUpdate: forces follow the new radii
CorrectForceChangeOverUpdate == changeover' = {}

\* The first kick of a step when the loop is entered.
KickStart ==
    /\ pc = "kick" /\ MayStart(dt_manager)
    /\ pc' = "drift"
    /\ CorrectForceChangeOverUpdate
    /\ dt_manager' = StartContinue(dt_manager)
    /\ Kick(DtStart)
    /\ flags' = NoFlags
    /\ UNCHANGED <<call, time, hard, time_write_back, corrected, mass, files>>

\* Wrong: the connected systems are not asked.
ChangeoverOfIsolated == changeover \cap Isolated # {}
ChangeoverNeeded == changeover # {}

\* Wrong: the pass that ends the call has no output.
FlagsWithoutLast(m, t) ==
    IF IsNextEndPossible(m)
    THEN [output |-> t % DtSnap = 0 /\ t < time_break, changeover |-> ChangeoverNeeded,
          interrupt |-> t >= time_break]
    ELSE NoFlags
\* The flags of a pass through the loop at time t, with the manager m.
FlagsAt(m, t) ==
    IF IsNextEndPossible(m)
    THEN [output |-> t % DtSnap = 0, changeover |-> ChangeoverNeeded,
          interrupt |-> t >= time_break]
    ELSE NoFlags
EndsStep(f) == f.output \/ f.changeover \/ f.interrupt

\* A kick that closes one step and opens the next, or one inside a step.
KickThrough ==
    /\ pc = "kick" /\ ~MayStart(dt_manager) /\ MayNext(dt_manager)
    /\ LET m == NextContinue(dt_manager) IN
          /\ time' = time_origin[OneCluster]
          /\ flags' = FlagsAt(m, time')
          /\ ~EndsStep(flags')
          /\ MayKick(m)
          /\ dt_manager' = KickContinue(m)
          /\ Kick(DtKick(m))
    /\ pc' = "drift"
    /\ UNCHANGED <<call, hard, time_write_back, changeover, corrected, mass, files>>

\* writeBackHardParticles, after which the list is cleared
WriteBackHardParticles(f) ==
    IF f.output \/ f.interrupt
    THEN /\ UpdateTimeWriteBack(Hard, time_origin)
         /\ WriteBackMass(Hard, changed)
         /\ mass_modify_list' = {}
    ELSE UNCHANGED <<time_write_back, mass>>

\* The last kick of a step.
KickEnd ==
    /\ pc = "kick" /\ ~MayStart(dt_manager) /\ MayNext(dt_manager)
    /\ LET m == NextContinue(dt_manager) IN
          /\ time' = time_origin[OneCluster]
          /\ flags' = FlagsAt(m, time')
          /\ EndsStep(flags')
          /\ MayEnd(m)
          /\ dt_manager' = EndContinue(m)
          /\ Kick(DtEnd)
    /\ WriteBackHardParticles(flags')
    /\ pc' = IF flags'.output THEN "output" ELSE IF flags'.interrupt THEN "leave" ELSE "secondKick"
    /\ UNCHANGED <<call, hard, changeover, corrected, files>>

\* updateStatus, output; a reoptimisation request ends the call.
Output ==
    /\ pc = "output"
    /\ nfile' = nfile + 1
    /\ snapshots' = Written(nfile, time)
    /\ \/ pc' = (IF flags.interrupt THEN "leave" ELSE "secondKick") /\ UNCHANGED returned
       \/ Reopt /\ pc' = "out" /\ returned' = 0
    /\ UNCHANGED <<time_break, clock, hard, time_write_back, flags, changeover, corrected, mass>>

\* The end of the call at time_break.
Leave ==
    /\ pc = "leave"
    /\ CorrectForceChangeOverUpdate
    /\ pc' = "out" /\ returned' = 0
    /\ UNCHANGED <<time_break, clock, hard, time_write_back, flags, corrected, mass, files>>

\* The first kick of the next step after an output or a changeover update.
SecondKick ==
    /\ pc = "secondKick" /\ MayStart(dt_manager)
    /\ dt_manager' = StartContinue(dt_manager)
    /\ CorrectForceChangeOverUpdate
    /\ Kick(DtStart)
    /\ pc' = "drift"
    /\ UNCHANGED <<call, time, hard, time_write_back, flags, corrected, mass, files>>

\* The systems drift writes back, when those of i are interrupted.
Drifted(i) ==
    {OneCluster} \cup (Isolated \ i) \cup (IF Connected \cap i = {} THEN Connected ELSE {})

\* Every system is driven over dt; one that is interrupted keeps its time and
\* remembers the drift.
DriveSystems(i, dt) ==
    /\ time_origin' = [s \in System |-> IF s \in i THEN time_origin[s] ELSE time_origin[s] + dt]
    /\ interrupt_dt' = [s \in System |-> IF s \in i THEN dt ELSE interrupt_dt[s]]
    /\ interrupted' = i
    /\ n_interrupt' = Cardinality(i)

Drift ==
    /\ pc = "drift" /\ MayDrift(dt_manager)
    /\ \E i \in (IF Interrupts THEN SUBSET Hard ELSE {{}}), m \in SUBSET Evolving :
          /\ DriveSystems(i, DtDrift(dt_manager))
          /\ UpdateTimeWriteBack(Drifted(i), time_origin')
          /\ WriteBackMass(Drifted(i), changed \cup m)
          /\ mass_modify_list' = mass_modify_list \cup ((changed \cup m) \cap Drifted(i))
          /\ IF i # {} THEN pc' = "out" /\ returned' = n_interrupt'
                       ELSE pc' = "loop" /\ UNCHANGED returned
    /\ dt_manager' = DriftContinue(dt_manager)
    /\ time' = time_origin'[OneCluster]
    /\ UNCHANGED <<time_break, time_kick, flags, changeover, corrected, files>>

\* The process ends at any place and a new one reads one of the files.
Restart ==
    /\ Restarts
    /\ \E n \in DOMAIN snapshots : LET t == snapshots[n] IN
          /\ time' = t /\ time_kick' = t /\ dt_manager' = NewDtManager
          /\ time_origin' = AllAt(t) /\ time_write_back' = AllAt(t)
          /\ nfile' = AvoidRepeatedFile(n) + 1
          /\ snapshots' = Written(AvoidRepeatedFile(n), t)
    /\ pc' = "out" /\ time_break' = 0 /\ returned' = -1
    /\ interrupt_dt' = AllAt(0) /\ interrupted' = {} /\ n_interrupt' = 0
    /\ flags' = NoFlags /\ changeover' = {} /\ corrected' = FALSE
    /\ changed' = {} /\ dm' = {} /\ mass_modify_list' = {} /\ owed' = {}

\* What the process does by itself.
Step ==
    \/ IntegrateToTime \/ FinishInterruptDrift \/ CheckTimeBreak
    \/ CorrectSoftPotMassChange \/ CreateGroup
    \/ KickStart \/ KickThrough \/ KickEnd
    \/ Output \/ Leave \/ SecondKick \/ Drift

Next == Step \/ Restart

Spec == Init /\ [][Next]_vars
\* One process that waits for nothing: it takes its next step.  Nobody has to
\* kill it.
FairSpec == Spec /\ WF_vars(Step)

-----------------------------------------------------------------------------
TypeOK ==
    /\ pc \in {"out", "finish", "check", "loop", "force", "kick", "output", "leave",
               "secondKick", "drift"}
    /\ time_break \in Breaks \cup {0} /\ returned \in Nat \cup {-1}
    /\ time \in Nat /\ time_kick \in Nat /\ dt_manager \in DtManager
    /\ time_origin \in [System -> Nat] /\ time_write_back \in [System -> Nat]
    /\ interrupt_dt \in [System -> Nat]
    /\ interrupted \subseteq Hard /\ n_interrupt \in Nat
    /\ flags \in [output : BOOLEAN, changeover : BOOLEAN, interrupt : BOOLEAN]
    /\ changeover \subseteq Hard /\ corrected \in BOOLEAN
    /\ changed \subseteq System /\ dm \subseteq System
    /\ mass_modify_list \subseteq System /\ owed \subseteq System
    /\ nfile \in Nat /\ DOMAIN snapshots \subseteq Nat /\ nfile \in DOMAIN snapshots
    /\ \A n \in DOMAIN snapshots : snapshots[n] \in Nat

\* Kicks and drifts since the first kick of the step the manager is in.
Lead(m) ==
    IF m.start THEN 0
    ELSE LET full == CoffOneStep
             kicks == IF m.count = 0 THEN full[1].kick ELSE full[1].kick + full[2].kick
             drifts == IF m.count = 0 THEN 0 ELSE full[1].drift
         IN kicks - drifts - (IF m.kick THEN full[m.count + 1].drift ELSE 0)

\* The velocities are ahead of the positions, or behind them, by what the place
\* in the step says, for every order of outputs, changeover updates, interrupts,
\* returns and restarts: no kick is forgotten, doubled or of the wrong length
\* (kick at 1772 and the calls of dt_manager).
KickFollowsDrift == time_kick - time = Lead(dt_manager)

\* stat.time is the time of the one-cluster systems; every other system is at the
\* same time or, while it is interrupted, behind by exactly the drift it still
\* has to finish (driveForMultiClusterOMP, finishIntegrateInterruptClustersOMP).
OriginsFollow ==
    \A s \in System : time_origin[s] = time - (IF s \in interrupted THEN interrupt_dt[s] ELSE 0)

\* When a new pass begins to use system_soft (remove, search, force), every system
\* has been written back after its last drift, also after a drift that was
\* interrupted and finished in pieces.
WrittenBack == pc \in {"loop", "force", "kick"} => \A s \in System : time_write_back[s] = time

\* An output sees one time: positions written back by every system, velocities
\* kicked to the same time, no interrupted system.
OutputSynchronised ==
    pc = "output" => /\ time_kick = time /\ interrupted = {}
                     /\ \A s \in System : time_write_back[s] = time

\* Snapshot n is that of time n * DtSnap, also after any number of restarts from
\* any file, and a step does not begin before the snapshots up to its time exist.
SnapshotsNumbered ==
    /\ \A n \in DOMAIN snapshots : snapshots[n] = n * DtSnap
    /\ pc = "drift" => nfile = time \div DtSnap

\* A step begins with no changeover radius left to update: whichever system found
\* one, the step before was closed for it.
ChangeoversApplied == pc = "drift" /\ dt_manager.count = 0 => changeover = {}

\* Every change of mass that was written back has had its tree energy corrected
\* when the particles are kicked next (correctSoftPotMassChange).
MassChangesCorrected == pc = "kick" => owed = {}

\* A call that returns 0 leaves positions and velocities at one time
\* (checkTimeConsistence).
ReturnsSynchronised == pc = "out" /\ returned = 0 => time_kick = time

\* The gradient correction belongs to the kick in the middle of the step.
GradientAtMiddle ==
    pc = "kick" => (corrected <=> /\ StepMode = "kdkdk4"
                                  /\ ~MayStart(dt_manager) /\ NextContinue(dt_manager).count = 1)

\* Every call returns: the while(true) comes to an end, a synchronised time or an
\* interrupt.
CallReturns == pc # "out" ~> pc = "out"
=============================================================================
