--------------------------- MODULE TreeStepProofs ---------------------------
(***************************************************************************)
(* Proofs about TreeStep, for any number of systems, every output interval *)
(* and every sequence of calls, interrupts and restarts.                   *)
(***************************************************************************)
EXTENDS TreeStep, FiniteSetTheorems, TLAPS

\* The inductive invariant.  What is read back in a restart is a time.
SnapshotTimes == \A n \in DOMAIN snapshots : snapshots[n] \in Nat
Times ==
    /\ time \in Nat /\ time_kick \in Int
    /\ time_origin \in [System -> Int] /\ time_write_back \in [System -> Int]
    /\ interrupt_dt \in [System -> Int]
    /\ dt_manager \in DtManager
    /\ SnapshotTimes
\* The loop runs only without interrupts, and a step is closed at its end.
Phases ==
    /\ interrupted \subseteq Hard /\ n_interrupt = Cardinality(interrupted)
    /\ pc \notin {"out", "finish"} => interrupted = {}
    /\ dt_manager.start => dt_manager.count = 0 /\ dt_manager.kick
    /\ pc \in {"output", "leave", "secondKick"} => dt_manager.start
\* The systems that wait for a write-back: an interrupted isolated one, and all
\* connected ones while any of them is interrupted.
Waiting(i) == (Isolated \cap i) \cup (IF Connected \cap i = {} THEN {} ELSE Connected)
OthersWritten == \A s \in System \ Waiting(interrupted) : time_write_back[s] = time
Inv == Times /\ Phases /\ KickFollowsDrift /\ OriginsFollow /\ OthersWritten

-----------------------------------------------------------------------------
\* The two tables of a step mode: one pair of kick and drift, or two.
LEMMA OnePair ==
    StepMode = "kdk" =>
        /\ Len(CoffOneStep) = 2 /\ DOMAIN CoffContinue = {0}
        /\ CoffOneStep[1] = [kick |-> 3, drift |-> 6]
        /\ CoffOneStep[2] = [kick |-> 3, drift |-> 0]
        /\ CoffContinue[0] = [kick |-> 6, drift |-> 6]
<1> SUFFICES ASSUME StepMode = "kdk"
             PROVE  /\ Len(CoffOneStep) = 2 /\ DOMAIN CoffContinue = {0}
                    /\ CoffOneStep[1] = [kick |-> 3, drift |-> 6]
                    /\ CoffOneStep[2] = [kick |-> 3, drift |-> 0]
                    /\ CoffContinue[0] = [kick |-> 6, drift |-> 6]
    OBVIOUS
<1>1. /\ Len(CoffOneStep) = 2
      /\ CoffOneStep[1] = [kick |-> 3, drift |-> 6]
      /\ CoffOneStep[2] = [kick |-> 3, drift |-> 0]
    BY DEF CoffOneStep
<1>2. 0..Len(CoffOneStep) - 2 = {0}
    BY <1>1
<1>3. DOMAIN CoffContinue = {0}
    BY <1>2 DEF CoffContinue
<1>4. CoffContinue[0] = [kick |-> CoffOneStep[1].kick + CoffOneStep[2].kick,
                         drift |-> CoffOneStep[1].drift]
    BY <1>1, <1>2 DEF CoffContinue
<1> QED
    BY <1>1, <1>3, <1>4

LEMMA TwoPairs ==
    StepMode # "kdk" =>
        /\ Len(CoffOneStep) = 3 /\ DOMAIN CoffContinue = {0, 1}
        /\ CoffOneStep[1] = [kick |-> 1, drift |-> 3]
        /\ CoffOneStep[2] = [kick |-> 4, drift |-> 3]
        /\ CoffOneStep[3] = [kick |-> 1, drift |-> 0]
        /\ CoffContinue[0] = [kick |-> 2, drift |-> 3]
        /\ CoffContinue[1] = [kick |-> 4, drift |-> 3]
<1> SUFFICES ASSUME StepMode # "kdk"
             PROVE  /\ Len(CoffOneStep) = 3 /\ DOMAIN CoffContinue = {0, 1}
                    /\ CoffOneStep[1] = [kick |-> 1, drift |-> 3]
                    /\ CoffOneStep[2] = [kick |-> 4, drift |-> 3]
                    /\ CoffOneStep[3] = [kick |-> 1, drift |-> 0]
                    /\ CoffContinue[0] = [kick |-> 2, drift |-> 3]
                    /\ CoffContinue[1] = [kick |-> 4, drift |-> 3]
    OBVIOUS
<1>1. /\ Len(CoffOneStep) = 3
      /\ CoffOneStep[1] = [kick |-> 1, drift |-> 3]
      /\ CoffOneStep[2] = [kick |-> 4, drift |-> 3]
      /\ CoffOneStep[3] = [kick |-> 1, drift |-> 0]
    BY DEF CoffOneStep
<1>2. 0..Len(CoffOneStep) - 2 = {0, 1}
    BY <1>1
<1>3. DOMAIN CoffContinue = {0, 1}
    BY <1>2 DEF CoffContinue
<1>4. CoffContinue[0] = [kick |-> CoffOneStep[1].kick + CoffOneStep[3].kick,
                         drift |-> CoffOneStep[1].drift]
    BY <1>1, <1>2 DEF CoffContinue
<1>5. CoffContinue[1] = CoffOneStep[1 + 1]
    BY <1>1, <1>2 DEF CoffContinue
<1> QED
    BY <1>1, <1>3, <1>4, <1>5

\* Lead as a table.
LEMMA LeadTable ==
    ASSUME NEW m \in DtManager
    PROVE  /\ m.start => Lead(m) = 0
           /\ ~m.start /\ StepMode = "kdk" => Lead(m) = (IF m.kick THEN 0 - 3 ELSE 3)
           /\ ~m.start /\ StepMode # "kdk" /\ m.count = 0 => Lead(m) = (IF m.kick THEN 0 - 2 ELSE 1)
           /\ ~m.start /\ StepMode # "kdk" /\ m.count = 1 => Lead(m) = (IF m.kick THEN 0 - 1 ELSE 2)
<1>1. m.start => Lead(m) = 0
    BY DEF Lead
<1>2. ~m.start /\ StepMode = "kdk" => Lead(m) = (IF m.kick THEN 0 - 3 ELSE 3)
  <2>1. StepMode = "kdk" => m.count = 0
    BY OnePair DEF DtManager
  <2> QED
    BY <2>1, OnePair DEF Lead
<1>3. ~m.start /\ StepMode # "kdk" /\ m.count = 0 => Lead(m) = (IF m.kick THEN 0 - 2 ELSE 1)
    BY TwoPairs DEF Lead
<1>4. ~m.start /\ StepMode # "kdk" /\ m.count = 1 => Lead(m) = (IF m.kick THEN 0 - 1 ELSE 2)
    BY TwoPairs DEF Lead
<1> QED
    BY <1>1, <1>2, <1>3, <1>4

\* The count is 0, or 1 in a mode of two pairs.
LEMMA Counts ==
    ASSUME NEW m \in DtManager
    PROVE  m.count = 0 \/ (StepMode # "kdk" /\ m.count = 1)
BY OnePair, TwoPairs DEF DtManager

\* The next pair is the other one, or the same where there is one only.
LEMMA NextPair ==
    ASSUME NEW m \in DtManager
    PROVE  /\ NextContinue(m) \in DtManager
           /\ NextContinue(m).start = m.start /\ NextContinue(m).kick = m.kick
           /\ StepMode = "kdk" => NextContinue(m).count = 0
           /\ StepMode # "kdk" => NextContinue(m).count = 1 - m.count
<1>1. CASE StepMode = "kdk"
  <2>1. m.count = 0
    BY <1>1, OnePair DEF DtManager
  <2>2. (m.count + 1) % (Len(CoffOneStep) - 1) = 0
    <3>1. m.count + 1 = 1 /\ Len(CoffOneStep) - 1 = 1
      BY <1>1, <2>1, OnePair
    <3>2. 1 % 1 = 0
      OBVIOUS
    <3> QED
      BY <3>1, <3>2
  <2> QED
    BY <1>1, <2>2, OnePair DEF DtManager, NextContinue
<1>2. CASE StepMode # "kdk"
  <2>1. m.count \in {0, 1}
    BY <1>2, TwoPairs DEF DtManager
  <2>2. (m.count + 1) % (Len(CoffOneStep) - 1) = 1 - m.count
    <3>1. Len(CoffOneStep) - 1 = 2
      BY <1>2, TwoPairs
    <3>2. (m.count + 1) % 2 = 1 - m.count
      <4>1. 1 % 2 = 1 /\ 2 % 2 = 0
        OBVIOUS
      <4> QED
        BY <2>1, <4>1
    <3> QED
      BY <3>1, <3>2
  <2> QED
    BY <1>2, <2>1, <2>2, TwoPairs DEF DtManager, NextContinue
<1> QED
    BY <1>1, <1>2

-----------------------------------------------------------------------------
\* What the class promises its caller: each call of the protocol changes the
\* lead of the velocities by the kick or drift it returns.
LEMMA StartLeads ==
    ASSUME NEW m \in DtManager, MayStart(m), m.count = 0, m.kick
    PROVE  /\ StartContinue(m) \in DtManager
           /\ DtStart \in Nat /\ Lead(StartContinue(m)) = Lead(m) + DtStart
<1> DEFINE n == StartContinue(m)
<1>1. n \in DtManager /\ ~n.start /\ ~n.kick /\ n.count = 0
    BY DEF DtManager, StartContinue
<1>2. Lead(m) = 0
    BY LeadTable DEF MayStart
<1>3. CASE StepMode = "kdk"
  <2>1. DtStart = 3
    BY <1>3, OnePair DEF DtStart
  <2>2. Lead(n) = 3
    BY <1>1, <1>3, LeadTable
  <2> QED
    BY <1>1, <1>2, <2>1, <2>2
<1>4. CASE StepMode # "kdk"
  <2>1. DtStart = 1
    BY <1>4, TwoPairs DEF DtStart
  <2>2. Lead(n) = 1
    BY <1>1, <1>4, LeadTable
  <2> QED
    BY <1>1, <1>2, <2>1, <2>2
<1> QED
    BY <1>3, <1>4

LEMMA ThroughLeads ==
    ASSUME NEW m \in DtManager, MayNext(m)
    PROVE  LET n == KickContinue(NextContinue(m))
               dt == DtKick(NextContinue(m))
           IN n \in DtManager /\ dt \in Nat /\ Lead(n) = Lead(m) + dt
<1> DEFINE k == NextContinue(m)
           n == KickContinue(k)
<1>1. k \in DtManager /\ ~k.start /\ k.kick
    BY NextPair DEF MayNext
<1>2. n \in DtManager /\ ~n.start /\ ~n.kick /\ n.count = k.count
    BY <1>1 DEF DtManager, KickContinue
<1>3. ~m.start /\ m.kick
    BY DEF MayNext
<1>4. CASE StepMode = "kdk"
  <2>1. k.count = 0
    BY <1>4, NextPair
  <2>2. DtKick(k) = 6
    BY <1>4, <2>1, OnePair DEF DtKick
  <2>3. Lead(m) = 0 - 3 /\ Lead(n) = 3
    BY <1>2, <1>3, <1>4, LeadTable
  <2> QED
    BY <1>2, <2>2, <2>3
<1>5. CASE StepMode # "kdk" /\ m.count = 0
  <2>1. k.count = 1
    BY <1>5, NextPair
  <2>2. DtKick(k) = 4
    BY <1>5, <2>1, TwoPairs DEF DtKick
  <2>3. Lead(m) = 0 - 2 /\ Lead(n) = 2
    BY <1>2, <1>3, <1>5, <2>1, LeadTable
  <2> QED
    BY <1>2, <2>2, <2>3
<1>6. CASE StepMode # "kdk" /\ m.count = 1
  <2>1. k.count = 0
    BY <1>6, NextPair
  <2>2. DtKick(k) = 2
    BY <1>6, <2>1, TwoPairs DEF DtKick
  <2>3. Lead(m) = 0 - 1 /\ Lead(n) = 1
    BY <1>2, <1>3, <1>6, <2>1, LeadTable
  <2> QED
    BY <1>2, <2>2, <2>3
<1> QED
    BY <1>4, <1>5, <1>6, Counts

LEMMA EndLeads ==
    ASSUME NEW m \in DtManager, MayNext(m), MayEnd(NextContinue(m))
    PROVE  LET n == EndContinue(NextContinue(m)) IN
           /\ n \in DtManager /\ n.start /\ n.kick /\ n.count = 0
           /\ DtEnd \in Nat /\ Lead(n) = Lead(m) + DtEnd
<1> DEFINE k == NextContinue(m)
           n == EndContinue(k)
<1>1. k \in DtManager /\ ~k.start /\ k.kick /\ k.count = 0
    BY NextPair DEF MayNext, MayEnd, IsNextEndPossible
<1>2. n \in DtManager /\ n.start /\ n.kick /\ n.count = 0
    BY <1>1 DEF DtManager, EndContinue
<1>3. ~m.start /\ m.kick
    BY DEF MayNext
<1>4. Lead(n) = 0
    BY <1>2, LeadTable
<1>5. CASE StepMode = "kdk"
  <2>1. DtEnd = 3
    <3>1. CoffOneStep[Len(CoffOneStep)] = CoffOneStep[2]
      BY <1>5, OnePair
    <3> QED
      BY <1>5, <3>1, OnePair DEF DtEnd
  <2>2. Lead(m) = 0 - 3
    BY <1>3, <1>5, LeadTable
  <2> QED
    BY <1>2, <1>4, <2>1, <2>2
<1>6. CASE StepMode # "kdk"
  <2>1. DtEnd = 1
    <3>1. CoffOneStep[Len(CoffOneStep)] = CoffOneStep[3]
      BY <1>6, TwoPairs
    <3> QED
      BY <1>6, <3>1, TwoPairs DEF DtEnd
  <2>2. m.count = 1
    BY <1>1, <1>6, Counts, NextPair
  <2>3. Lead(m) = 0 - 1
    BY <1>3, <1>6, <2>2, LeadTable
  <2> QED
    BY <1>2, <1>4, <2>1, <2>3
<1> QED
    BY <1>5, <1>6

LEMMA DriftLags ==
    ASSUME NEW m \in DtManager, MayDrift(m)
    PROVE  LET n == DriftContinue(m) IN
           n \in DtManager /\ DtDrift(m) \in Nat /\ Lead(n) = Lead(m) - DtDrift(m)
<1> DEFINE n == DriftContinue(m)
<1>1. n \in DtManager /\ ~n.start /\ n.kick /\ n.count = m.count
    BY DEF DtManager, DriftContinue, MayDrift
<1>2. ~m.start /\ ~m.kick
    BY DEF MayDrift
<1>3. CASE StepMode = "kdk"
  <2>1. m.count = 0
    BY <1>3, Counts
  <2>2. DtDrift(m) = 6
    BY <1>3, <2>1, OnePair DEF DtDrift
  <2>3. Lead(m) = 3 /\ Lead(n) = 0 - 3
    BY <1>1, <1>2, <1>3, LeadTable
  <2> QED
    BY <1>1, <2>2, <2>3
<1>4. CASE StepMode # "kdk"
  <2>1. m.count \in {0, 1}
    BY Counts
  <2>2. DtDrift(m) = 3
    BY <1>4, <2>1, TwoPairs DEF DtDrift
  <2>3. Lead(n) = Lead(m) - 3
    BY <1>1, <1>2, <1>4, <2>1, LeadTable
  <2>4. Lead(m) \in Int
    BY <1>2, <1>4, <2>1, LeadTable
  <2> QED
    BY <1>1, <2>2, <2>3
<1> QED
    BY <1>3, <1>4

-----------------------------------------------------------------------------
\* The clock is that of the one-cluster systems, which are never interrupted; the
\* others are at the same time when nothing is.
LEMMA OneOrigin ==
    ASSUME Inv
    PROVE  /\ time_origin[OneCluster] = time
           /\ interrupted = {} => \A s \in System : time_origin[s] = time
<1>1. OneCluster \in System /\ OneCluster \notin interrupted
    BY TreeStepAssumption DEF Inv, Phases, System, Hard
<1>2. time \in Int
    BY DEF Inv, Times
<1> QED
    BY <1>1, <1>2 DEF Inv, OriginsFollow

\* No interrupt is left exactly when the count is zero.
LEMMA CountedInterrupts ==
    ASSUME NEW i, i \subseteq Hard
    PROVE  Cardinality(i) \in Nat /\ (Cardinality(i) = 0 <=> i = {})
<1>1. IsFiniteSet(i)
    BY TreeStepAssumption, FS_Subset DEF Hard
<1> QED
    BY <1>1, FS_EmptySet, FS_CardinalityType

\* A kick at the beginning of a step.
LEMMA StartInv ==
    ASSUME Inv, interrupted = {}, MayStart(dt_manager), dt_manager' = StartContinue(dt_manager),
           Kick(DtStart), UNCHANGED <<time, hard, time_write_back, files>>, pc' = "drift"
    PROVE  Inv'
<1> USE DEF Inv
<1>1. dt_manager' \in DtManager /\ DtStart \in Nat /\ Lead(dt_manager') = Lead(dt_manager) + DtStart
    BY StartLeads DEF Times, Phases, MayStart
<1>2. Times'
    BY <1>1 DEF Times, SnapshotTimes, Kick, hard, files
<1>3. Phases'
    BY DEF Phases, hard, StartContinue, Times, DtManager
<1>4. KickFollowsDrift'
  <2>1. Lead(dt_manager)' = Lead(dt_manager')
    BY DEF Lead
  <2>2. Lead(dt_manager) = 0
    BY LeadTable DEF Times, MayStart
  <2> QED
    BY <1>1, <2>1, <2>2 DEF KickFollowsDrift, Kick, Times
<1>5. OriginsFollow' /\ OthersWritten'
    BY DEF OriginsFollow, OthersWritten, hard
<1> QED
    BY <1>2, <1>3, <1>4, <1>5

LEMMA InitInv == Init => Inv
<1> SUFFICES ASSUME Init PROVE Inv
    OBVIOUS
<1> USE DEF Init
<1>1. NewDtManager \in DtManager /\ Lead(NewDtManager) = 0
  <2>1. 0 \in DOMAIN CoffContinue
    BY OnePair, TwoPairs
  <2> QED
    BY <2>1 DEF DtManager, NewDtManager, Lead
<1>2. Times
    BY <1>1 DEF Times, SnapshotTimes, AllAt
<1>3. Phases
    BY CountedInterrupts DEF Phases, NewDtManager
<1>4. KickFollowsDrift
    BY <1>1 DEF KickFollowsDrift
<1>5. OriginsFollow /\ OthersWritten
    BY DEF OriginsFollow, OthersWritten, AllAt
<1> QED
    BY <1>2, <1>3, <1>4, <1>5 DEF Inv

\* Nothing the invariant speaks of changes but the place in the loop.
LEMMA SamePlaceInv ==
    ASSUME Inv, UNCHANGED <<clock, hard, snapshots>>,
           OthersWritten', Times', pc' \in {"out", "finish"} \/ interrupted = {},
           pc' \in {"output", "leave", "secondKick"} => dt_manager.start
    PROVE  Inv'
<1> USE DEF Inv
<1>1. Phases'
    BY DEF Phases, clock, hard
<1>2. KickFollowsDrift'
    BY DEF KickFollowsDrift, clock, Lead
<1>3. OriginsFollow'
    BY DEF OriginsFollow, clock, hard
<1> QED
    BY <1>1, <1>2, <1>3

\* A write-back at the time of the clock keeps what was written.
LEMMA WriteBack ==
    ASSUME Inv, interrupted = {}, NEW w, UpdateTimeWriteBack(w, time_origin),
           UNCHANGED <<time, time_origin, interrupted>>
    PROVE  OthersWritten' /\ time_write_back' \in [System -> Int]
<1>1. \A s \in System : time_origin[s] = time
    BY OneOrigin
<1>2. OthersWritten'
    BY <1>1 DEF Inv, OthersWritten, UpdateTimeWriteBack
<1>3. time_write_back' \in [System -> Int]
    BY DEF Inv, Times, UpdateTimeWriteBack
<1> QED
    BY <1>2, <1>3

-----------------------------------------------------------------------------
LEMMA FinishInv == Inv /\ FinishInterruptDrift => Inv'
<1> SUFFICES ASSUME Inv,
                    pc = "finish", UNCHANGED <<time_break, clock, interrupt_dt, files>>,
                    NEW i \in SUBSET interrupted,
                    time_origin' = OriginsAfterFinish(i), interrupted' = i,
                    n_interrupt' = Cardinality(i),
                    UpdateTimeWriteBack(Finished(i), time_origin'), pc' = AfterFinish(i)
             PROVE  Inv'
    BY DEF FinishInterruptDrift
<1> USE DEF Inv
<1>1. time_origin' \in [System -> Int]
    BY DEF Times, OriginsAfterFinish
<1>2. OriginsFollow'
    BY DEF OriginsFollow, OriginsAfterFinish, Times, clock
<1>3. Times'
    BY <1>1 DEF Times, SnapshotTimes, UpdateTimeWriteBack, clock, files
<1>4. Phases'
    BY CountedInterrupts DEF Phases, AfterFinish, clock
<1>5. KickFollowsDrift'
    BY DEF KickFollowsDrift, clock, Lead
<1>6. OthersWritten'
  <2> SUFFICES ASSUME NEW s \in System, s \notin Waiting(i)
               PROVE  time_write_back'[s] = time
    BY DEF OthersWritten, clock
  <2>1. CASE s \in Finished(i)
    <3>1. s \notin i
      BY <2>1 DEF Finished, Waiting
    <3>2. time_origin'[s] = time
      BY <1>2, <3>1 DEF OriginsFollow, Times, clock
    <3> QED
      BY <2>1, <3>2 DEF UpdateTimeWriteBack
  <2>2. CASE s \notin Finished(i)
    <3>1. s \notin Waiting(interrupted)
      BY <2>2 DEF Finished, Waiting
    <3> QED
      BY <2>2, <3>1 DEF UpdateTimeWriteBack, OthersWritten
  <2> QED
    BY <2>1, <2>2
<1> QED
    BY <1>2, <1>3, <1>4, <1>5, <1>6

LEMMA DriftInv == Inv /\ Drift => Inv'
<1> DEFINE dt == DtDrift(dt_manager)
<1> SUFFICES ASSUME Inv, pc = "drift", MayDrift(dt_manager), NEW i \in SUBSET Hard,
                    time_origin' = [s \in System |-> IF s \in i THEN time_origin[s]
                                                     ELSE time_origin[s] + dt],
                    interrupt_dt' = [s \in System |-> IF s \in i THEN dt
                                                      ELSE interrupt_dt[s]],
                    interrupted' = i, n_interrupt' = Cardinality(i),
                    UpdateTimeWriteBack(Drifted(i), time_origin'),
                    pc' = "loop" \/ pc' = "out", i # {} => pc' = "out",
                    dt_manager' = DriftContinue(dt_manager),
                    time' = time_origin'[OneCluster],
                    UNCHANGED <<time_kick, files>>
             PROVE  Inv'
    BY DEF Drift, DriveSystems
<1> HIDE DEF dt
<1> USE DEF Inv
<1>1. dt_manager' \in DtManager /\ dt \in Nat /\ Lead(dt_manager') = Lead(dt_manager) - dt
    BY DriftLags DEF Times, dt
<1>2. \A s \in System : time_origin[s] = time
    BY OneOrigin DEF Phases
<1>3. OneCluster \in System /\ OneCluster \notin i
    BY TreeStepAssumption DEF System, Hard
<1>4. time' = time + dt
    BY <1>2, <1>3
<1>5. Times'
  <2>1. time_origin' \in [System -> Int] /\ interrupt_dt' \in [System -> Int]
    BY <1>1 DEF Times
  <2>2. time_write_back' \in [System -> Int]
    BY <2>1 DEF Times, UpdateTimeWriteBack
  <2> QED
    BY <1>1, <1>4, <2>1, <2>2 DEF Times, SnapshotTimes, files
<1>6. Phases'
    BY DEF Phases, MayDrift, DriftContinue, Times, DtManager
<1>7. KickFollowsDrift'
  <2>1. Lead(dt_manager)' = Lead(dt_manager')
    BY DEF Lead
  <2>2. Lead(dt_manager) \in Int
    BY LeadTable, Counts DEF Times, MayDrift
  <2> QED
    BY <1>1, <1>4, <2>1, <2>2 DEF KickFollowsDrift, Times
<1>8. OriginsFollow'
    BY <1>1, <1>2, <1>4 DEF OriginsFollow, Times
<1>9. OthersWritten'
  <2> SUFFICES ASSUME NEW s \in System, s \notin Waiting(i)
               PROVE  time_write_back'[s] = time'
    BY DEF OthersWritten
  <2>1. s \in Drifted(i)
    BY DEF Waiting, Drifted, System, Hard
  <2>2. s \notin i
    BY <1>3 DEF Waiting, System, Hard
  <2>3. time_origin'[s] = time'
    BY <1>2, <1>4, <2>2
  <2> QED
    BY <2>1, <2>3 DEF UpdateTimeWriteBack
<1> QED
    BY <1>5, <1>6, <1>7, <1>8, <1>9

LEMMA KickThroughInv == Inv /\ KickThrough => Inv'
<1> DEFINE m == NextContinue(dt_manager)
<1> SUFFICES ASSUME Inv, pc = "kick", MayNext(dt_manager),
                    time' = time_origin[OneCluster], dt_manager' = KickContinue(m),
                    Kick(DtKick(m)), pc' = "drift",
                    UNCHANGED <<hard, time_write_back, files>>
             PROVE  Inv'
    BY DEF KickThrough
<1> HIDE DEF m
<1> USE DEF Inv
<1>1. /\ dt_manager' \in DtManager /\ DtKick(m) \in Nat
      /\ Lead(dt_manager') = Lead(dt_manager) + DtKick(m)
    BY ThroughLeads DEF Times, m
<1>2. time' = time
    BY OneOrigin
<1>3. Times'
    BY <1>1, <1>2 DEF Times, SnapshotTimes, Kick, hard, files
<1>4. Phases'
  <2>1. ~dt_manager'.start
    BY NextPair DEF m, MayNext, KickContinue, Times, DtManager
  <2> QED
    BY <2>1 DEF Phases, hard
<1>5. KickFollowsDrift'
  <2>1. Lead(dt_manager)' = Lead(dt_manager')
    BY DEF Lead
  <2>2. Lead(dt_manager) \in Int
    BY LeadTable, Counts DEF Times, MayNext
  <2> QED
    BY <1>1, <1>2, <2>1, <2>2 DEF KickFollowsDrift, Kick, Times
<1>6. OriginsFollow' /\ OthersWritten'
    BY <1>2 DEF OriginsFollow, OthersWritten, hard
<1> QED
    BY <1>3, <1>4, <1>5, <1>6

LEMMA KickEndInv == Inv /\ KickEnd => Inv'
<1> DEFINE m == NextContinue(dt_manager)
<1> SUFFICES ASSUME Inv, pc = "kick", MayNext(dt_manager),
                    time' = time_origin[OneCluster], MayEnd(m),
                    dt_manager' = EndContinue(m), Kick(DtEnd),
                    WriteBackHardParticles(flags'), pc' \notin {"out", "finish"},
                    UNCHANGED <<hard, files>>
             PROVE  Inv'
    BY DEF KickEnd
<1> HIDE DEF m
<1> USE DEF Inv
<1>1. /\ dt_manager' \in DtManager /\ DtEnd \in Nat
      /\ dt_manager'.start /\ dt_manager'.count = 0 /\ dt_manager'.kick
      /\ Lead(dt_manager') = Lead(dt_manager) + DtEnd
    BY EndLeads DEF Times, m
<1>2. time' = time
    BY OneOrigin
<1>3. interrupted = {}
    BY DEF Phases
<1>4. OthersWritten' /\ time_write_back' \in [System -> Int]
  <2>1. CASE UpdateTimeWriteBack(Hard, time_origin)
    BY <1>2, <1>3, <2>1, WriteBack DEF hard
  <2>2. CASE UNCHANGED time_write_back
    BY <1>2, <2>2 DEF OthersWritten, hard, Times
  <2> QED
    BY <2>1, <2>2 DEF WriteBackHardParticles
<1>5. Times'
    BY <1>1, <1>2, <1>4 DEF Times, SnapshotTimes, Kick, hard, files
<1>6. Phases'
    BY <1>1, <1>3 DEF Phases, hard
<1>7. KickFollowsDrift'
  <2>1. Lead(dt_manager)' = Lead(dt_manager')
    BY DEF Lead
  <2>2. Lead(dt_manager) \in Int
    BY LeadTable, Counts DEF Times, MayNext
  <2> QED
    BY <1>1, <1>2, <2>1, <2>2 DEF KickFollowsDrift, Kick, Times
<1>8. OriginsFollow'
    BY <1>2 DEF OriginsFollow, hard
<1> QED
    BY <1>4, <1>5, <1>6, <1>7, <1>8

\* The steps that read the tables of the manager are the lemmas above; the others
\* move on in the loop, and write back, output or restart.
LEMMA NextInv == Inv /\ [Next]_vars => Inv'
<1> SUFFICES ASSUME Inv, [Next]_vars PROVE Inv'
    OBVIOUS
<1> USE DEF Inv
<1>0. /\ \A s \in System : interrupted = {} => time_origin[s] = time
      /\ n_interrupt \in Nat /\ (n_interrupt = 0 <=> interrupted = {})
    BY OneOrigin, CountedInterrupts DEF Phases
<1>1. CASE IntegrateToTime
  <2>1. pc' \in {"out", "finish"} \/ interrupted = {}
    BY <1>0, <1>1 DEF IntegrateToTime
  <2>2. Times' /\ OthersWritten'
    BY <1>1 DEF IntegrateToTime, Times, SnapshotTimes, OthersWritten, clock, hard, files
  <2> QED
    BY <1>1, <2>1, <2>2, SamePlaceInv DEF IntegrateToTime, files
<1>2. CASE FinishInterruptDrift
    BY <1>2, FinishInv
<1>3. CASE CheckTimeBreak
  <2>1. Times' /\ OthersWritten'
    BY <1>3 DEF CheckTimeBreak, Times, SnapshotTimes, OthersWritten, clock, hard, files
  <2> QED
    BY <1>3, <2>1, SamePlaceInv DEF CheckTimeBreak, Phases, files
<1>4. CASE CorrectSoftPotMassChange
  <2>1. Times' /\ OthersWritten'
    BY <1>4 DEF CorrectSoftPotMassChange, Times, SnapshotTimes, OthersWritten, clock, hard, files
  <2> QED
    BY <1>4, <2>1, SamePlaceInv DEF CorrectSoftPotMassChange, Phases, files
<1>5. CASE CreateGroup
  <2>1. interrupted = {}
    BY <1>5 DEF CreateGroup, Phases
  <2>2. OthersWritten' /\ time_write_back' \in [System -> Int]
    BY <1>5, <2>1, WriteBack DEF CreateGroup, clock, hard
  <2>3. Times'
    BY <1>5, <2>2 DEF CreateGroup, Times, SnapshotTimes, clock, hard, files
  <2> QED
    BY <1>5, <2>1, <2>2, <2>3, SamePlaceInv DEF CreateGroup, files
<1>6. CASE KickStart
    BY <1>6, StartInv DEF KickStart, Phases
<1>7. CASE KickThrough
    BY <1>7, KickThroughInv
<1>8. CASE KickEnd
    BY <1>8, KickEndInv
<1>9. CASE Output
  <2>1. SnapshotTimes'
    BY <1>9 DEF Output, Written, Times, SnapshotTimes
  <2>2. Times'
    BY <1>9, <2>1 DEF Output, Times, clock, hard
  <2>3. Phases' /\ OthersWritten'
    BY <1>9 DEF Output, Phases, OthersWritten, clock, hard
  <2>4. KickFollowsDrift' /\ OriginsFollow'
    BY <1>9 DEF Output, KickFollowsDrift, OriginsFollow, Lead, clock, hard
  <2> QED
    BY <2>2, <2>3, <2>4
<1>10. CASE Leave
  <2>1. Times' /\ OthersWritten'
    BY <1>10 DEF Leave, Times, SnapshotTimes, OthersWritten, clock, hard, files
  <2> QED
    BY <1>10, <2>1, SamePlaceInv DEF Leave, Phases, files
<1>11. CASE SecondKick
    BY <1>11, StartInv DEF SecondKick, Phases
<1>12. CASE Drift
    BY <1>12, DriftInv
<1>13. CASE Restart
  <2> SUFFICES ASSUME NEW n \in DOMAIN snapshots, NEW t, t = snapshots[n],
                      time' = t, time_kick' = t, dt_manager' = NewDtManager,
                      time_origin' = AllAt(t), time_write_back' = AllAt(t),
                      snapshots' = Written(AvoidRepeatedFile(n), t), pc' = "out",
                      interrupt_dt' = AllAt(0), interrupted' = {}, n_interrupt' = 0
               PROVE  Inv'
    BY <1>13 DEF Restart
  <2>1. t \in Nat
    BY DEF Times, SnapshotTimes
  <2>2. dt_manager' \in DtManager /\ Lead(dt_manager)' = 0
    <3>1. 0 \in DOMAIN CoffContinue
      BY OnePair, TwoPairs
    <3> QED
      BY <3>1 DEF DtManager, NewDtManager, Lead
  <2>3. Times'
    BY <2>1, <2>2 DEF Times, SnapshotTimes, Written, AllAt
  <2>4. Phases'
    BY CountedInterrupts DEF Phases, NewDtManager
  <2>5. KickFollowsDrift'
    BY <2>1, <2>2 DEF KickFollowsDrift
  <2>6. OriginsFollow' /\ OthersWritten'
    BY <2>1 DEF OriginsFollow, OthersWritten, AllAt
  <2> QED
    BY <2>3, <2>4, <2>5, <2>6
<1>14. CASE UNCHANGED vars
    BY <1>14 DEF vars, clock, hard, files, Times, SnapshotTimes, Phases, KickFollowsDrift,
                 Lead, OriginsFollow, OthersWritten
<1> QED
    BY <1>1, <1>2, <1>3, <1>4, <1>5, <1>6, <1>7, <1>8, <1>9, <1>10, <1>11, <1>12, <1>13,
       <1>14 DEF Next, Step

\* The invariant holds of every behaviour of the loop.
THEOREM SpecInv == Spec => []Inv
BY InitInv, NextInv, PTL DEF Spec

\* Kicks and drifts pair: at every moment, however a run was interrupted, restarted
\* or cut into calls, the velocities are as far ahead of the positions as the place
\* in the step says (the calls of dt_manager in integrateToTime).
THEOREM KicksPaired == Spec => []KickFollowsDrift
<1>1. Inv => KickFollowsDrift
    BY DEF Inv
<1> QED
    BY <1>1, SpecInv, PTL

\* Every hard system keeps the time of the loop, less the drift it has to finish.
THEOREM OriginsAgree == Spec => []OriginsFollow
<1>1. Inv => OriginsFollow
    BY DEF Inv
<1> QED
    BY <1>1, SpecInv, PTL

\* No pass of the loop uses a particle whose drift has not been written back.
THEOREM PassesAfterWriteBack == Spec => []WrittenBack
<1>1. Inv => WrittenBack
    BY DEF Inv, Phases, OthersWritten, Waiting, WrittenBack
<1> QED
    BY <1>1, SpecInv, PTL

\* Every output shows positions and velocities of one time.
THEOREM OutputsSynchronised == Spec => []OutputSynchronised
<1>1. Inv => OutputSynchronised
  <2> SUFFICES ASSUME Inv, pc = "output"
               PROVE  /\ time_kick = time /\ interrupted = {}
                      /\ \A s \in System : time_write_back[s] = time
    BY DEF OutputSynchronised
  <2>1. interrupted = {} /\ dt_manager.start
    BY DEF Inv, Phases
  <2>2. \A s \in System : time_write_back[s] = time
    BY <2>1 DEF Inv, OthersWritten, Waiting
  <2>3. time_kick = time
    BY <2>1, LeadTable DEF Inv, KickFollowsDrift, Times
  <2> QED
    BY <2>1, <2>2, <2>3
<1> QED
    BY <1>1, SpecInv, PTL

-----------------------------------------------------------------------------
(* Snapshots.  A second invariant relates the clock to the file number: the *)
(* clock is a whole number of steps and what the manager has drifted since, *)
(* and the file of every output time up to it is there, but for the one     *)
(* that the end of a step is about to write.                                *)

\* The drifts of the step that the manager is in.
Offset(m) ==
    IF m.start THEN 0
    ELSE (IF m.count = 0 THEN 0 ELSE CoffOneStep[1].drift)
         + (IF m.kick THEN CoffOneStep[m.count + 1].drift ELSE 0)

OnTreeGrid == \E k \in Nat : time = DtTree * k + Offset(dt_manager)
\* The kick that comes next may end the step, or an output is to be written.
OutputAwaited == pc = "output" \/ Offset(dt_manager) = DtTree
FileTimes == \A n \in DOMAIN snapshots : n \in Nat /\ snapshots[n] = n * DtSnap
Files ==
    /\ nfile \in Nat /\ FileTimes
    /\ OutputAwaited  => nfile * DtSnap < time /\ time <= nfile * DtSnap + DtSnap
    /\ ~OutputAwaited => nfile * DtSnap <= time /\ time < nfile * DtSnap + DtSnap
    /\ pc = "output" => time % DtSnap = 0
    /\ pc = "drift" => ~dt_manager.kick
FileInv == OnTreeGrid /\ Files

\* Offset as a table.
LEMMA OffsetTable ==
    ASSUME NEW m \in DtManager
    PROVE  /\ m.start => Offset(m) = 0
           /\ ~m.start /\ StepMode = "kdk" => Offset(m) = (IF m.kick THEN 6 ELSE 0)
           /\ ~m.start /\ StepMode # "kdk" /\ m.count = 0 => Offset(m) = (IF m.kick THEN 3 ELSE 0)
           /\ ~m.start /\ StepMode # "kdk" /\ m.count = 1 => Offset(m) = (IF m.kick THEN 6 ELSE 3)
           /\ Offset(m) \in {0, 3, 6}
<1>1. m.start => Offset(m) = 0
    BY DEF Offset
<1>2. ~m.start /\ StepMode = "kdk" => Offset(m) = (IF m.kick THEN 6 ELSE 0)
  <2>1. StepMode = "kdk" => m.count = 0
    BY OnePair DEF DtManager
  <2> QED
    BY <2>1, OnePair DEF Offset
<1>3. ~m.start /\ StepMode # "kdk" /\ m.count = 0 => Offset(m) = (IF m.kick THEN 3 ELSE 0)
    BY TwoPairs DEF Offset
<1>4. ~m.start /\ StepMode # "kdk" /\ m.count = 1 => Offset(m) = (IF m.kick THEN 6 ELSE 3)
    BY TwoPairs DEF Offset
<1> QED
    BY <1>1, <1>2, <1>3, <1>4, Counts

\* The calls of the protocol and the offset: kicks leave it, but for a full step
\* that is counted; drifts add to it, up to a full step.
LEMMA StartOffset ==
    ASSUME NEW m \in DtManager, MayStart(m), m.count = 0, m.kick
    PROVE  Offset(m) = 0 /\ Offset(StartContinue(m)) = 0 /\ ~StartContinue(m).kick
<1> DEFINE n == StartContinue(m)
<1>1. n \in DtManager /\ ~n.start /\ ~n.kick /\ n.count = 0
    BY DEF DtManager, StartContinue
<1> QED
    BY <1>1, OffsetTable DEF MayStart

LEMMA NextOffset ==
    ASSUME NEW m \in DtManager, MayNext(m)
    PROVE  LET n == NextContinue(m) IN
           /\ IsNextEndPossible(n) <=> Offset(m) = 6
           /\ Offset(m) \in {3, 6}
           /\ KickContinue(n) \in DtManager /\ ~KickContinue(n).kick
           /\ Offset(KickContinue(n)) = IF Offset(m) = 6 THEN 0 ELSE Offset(m)
<1> DEFINE n == NextContinue(m)
           k == KickContinue(n)
<1>1. n \in DtManager /\ ~n.start /\ n.kick
    BY NextPair DEF MayNext
<1>2. k \in DtManager /\ ~k.start /\ ~k.kick /\ k.count = n.count
    BY <1>1 DEF DtManager, KickContinue
<1>3. ~m.start /\ m.kick
    BY DEF MayNext
<1>4. IsNextEndPossible(n) <=> n.count = 0
    BY <1>1 DEF IsNextEndPossible
<1>5. CASE StepMode = "kdk"
  <2>1. n.count = 0
    BY <1>5, NextPair
  <2>2. Offset(m) = 6 /\ Offset(k) = 0
    BY <1>2, <1>3, <1>5, OffsetTable
  <2> QED
    BY <1>2, <1>4, <2>1, <2>2
<1>6. CASE StepMode # "kdk" /\ m.count = 0
  <2>1. n.count = 1
    BY <1>6, NextPair
  <2>2. Offset(m) = 3 /\ Offset(k) = 3
    BY <1>2, <1>3, <1>6, <2>1, OffsetTable
  <2> QED
    BY <1>2, <1>4, <2>1, <2>2
<1>7. CASE StepMode # "kdk" /\ m.count = 1
  <2>1. n.count = 0
    BY <1>7, NextPair
  <2>2. Offset(m) = 6 /\ Offset(k) = 0
    BY <1>2, <1>3, <1>7, <2>1, OffsetTable
  <2> QED
    BY <1>2, <1>4, <2>1, <2>2
<1> QED
    BY <1>5, <1>6, <1>7, Counts

LEMMA DriftOffset ==
    ASSUME NEW m \in DtManager, MayDrift(m)
    PROVE  /\ Offset(m) \in {0, 3} /\ DtDrift(m) \in {3, 6}
           /\ Offset(DriftContinue(m)) \in {3, 6}
           /\ Offset(DriftContinue(m)) = Offset(m) + DtDrift(m)
<1> DEFINE n == DriftContinue(m)
<1>1. n \in DtManager /\ ~n.start /\ n.kick /\ n.count = m.count
    BY DEF DtManager, DriftContinue, MayDrift
<1>2. ~m.start /\ ~m.kick
    BY DEF MayDrift
<1>3. CASE StepMode = "kdk"
  <2>1. m.count = 0
    BY <1>3, Counts
  <2>2. DtDrift(m) = 6
    BY <1>3, <2>1, OnePair DEF DtDrift
  <2>3. Offset(m) = 0 /\ Offset(n) = 6
    BY <1>1, <1>2, <1>3, OffsetTable
  <2> QED
    BY <2>2, <2>3
<1>4. CASE StepMode # "kdk"
  <2>1. m.count \in {0, 1}
    BY Counts
  <2>2. DtDrift(m) = 3
    BY <1>4, <2>1, TwoPairs DEF DtDrift
  <2>3. Offset(n) = Offset(m) + 3 /\ Offset(m) \in {0, 3}
    BY <1>1, <1>2, <1>4, <2>1, OffsetTable
  <2> QED
    BY <2>2, <2>3
<1> QED
    BY <1>3, <1>4

-----------------------------------------------------------------------------
(* Output times *)

\* A multiple that is less than one period away from zero is zero.
LEMMA WithinPeriod ==
    ASSUME NEW a \in Int, NEW d \in Nat \ {0}, -d < a * d, a * d < d
    PROVE  a = 0
<1>1. a >= 1 => a * d >= d
    OBVIOUS
<1>2. a <= -1 => a * d <= -d
    OBVIOUS
<1> QED
    BY <1>1, <1>2

LEMMA MultipleRemainder ==
    ASSUME NEW a \in Int, NEW d \in Nat \ {0}
    PROVE  (a * d) % d = 0
<1> DEFINE x == a * d
           q == x \div d
           r == x % d
<1>1. x \in Int /\ q \in Int /\ r \in Nat /\ r < d /\ x = q * d + r
    OBVIOUS
<1>2. (a - q) * d = a * d - q * d
    OBVIOUS
<1>3. (a - q) * d = r
    BY <1>1, <1>2
<1>4. a - q \in Int /\ -d < r
    BY <1>1
<1>5. a - q = 0
    BY <1>1, <1>3, <1>4, WithinPeriod
<1> QED
    BY <1>1, <1>5

\* The file number as a quotient.
LEMMA QuotientOf ==
    ASSUME NEW n \in Nat, NEW d \in Nat \ {0}, NEW t \in Nat, n * d <= t, t < n * d + d
    PROVE  t \div d = n
<1> DEFINE q == t \div d
           r == t % d
<1>1. q \in Int /\ r \in Nat /\ r < d /\ t = q * d + r
    OBVIOUS
<1>2. (q - n) * d = q * d - n * d
    OBVIOUS
<1>3. -d < (q - n) * d /\ (q - n) * d < d
  <2>1. n * d \in Int /\ q * d \in Int
    BY <1>1
  <2> QED
    BY <1>1, <1>2, <2>1
<1>4. q - n = 0
    BY <1>1, <1>3, WithinPeriod
<1> QED
    BY <1>1, <1>4

\* An output time in the interval up to the next output is that one.
LEMMA NextOutput ==
    ASSUME NEW n \in Nat, NEW d \in Nat \ {0}, NEW t \in Nat,
           n * d < t, t <= n * d + d
    PROVE  t % d = 0 <=> t = (n + 1) * d
<1>1. (n + 1) * d = n * d + d /\ n * d \in Nat
    OBVIOUS
<1>2. t = (n + 1) * d => t % d = 0
    BY MultipleRemainder
<1>3. ASSUME t # (n + 1) * d PROVE t % d # 0
  <2>1. t \div d = n
    BY <1>1, <1>3, QuotientOf
  <2> DEFINE q == t \div d
             r == t % d
  <2>2. q \in Int /\ r \in Nat /\ t = q * d + r
    OBVIOUS
  <2>3. q = n
    BY <2>1
  <2>4. r # 0
    BY <1>1, <2>2, <2>3
  <2> QED
    BY <2>4
<1> QED
    BY <1>2, <1>3

\* Output times are on the grid of tree steps.
LEMMA OutputOnTreeGrid ==
    ASSUME NEW n \in Nat
    PROVE  \E k \in Nat : n * DtSnap = DtTree * k
<1>1. DtSnap \in Nat /\ DtSnap % 6 = 0
    BY TreeStepAssumption DEF DtTree
<1>2. DtSnap \div 6 \in Nat /\ DtSnap = 6 * (DtSnap \div 6)
    BY <1>1
<1>3. PICK j \in Nat : DtSnap = 6 * j
    BY <1>2
<1>4. n * (6 * j) = 6 * (n * j) /\ n * j \in Nat
    OBVIOUS
<1> QED
    BY <1>3, <1>4 DEF DtTree

-----------------------------------------------------------------------------
\* Nothing the files depend on changes, outside of an output.
LEMMA SameFiles ==
    ASSUME FileInv, UNCHANGED <<time, dt_manager, files>>,
           pc # "output", pc' \notin {"output", "drift"}
    PROVE  FileInv'
<1>1. Offset(dt_manager)' = Offset(dt_manager)
    BY DEF Offset
<1>2. OutputAwaited' <=> OutputAwaited
    BY <1>1 DEF OutputAwaited
<1>3. OnTreeGrid'
    BY <1>1 DEF FileInv, OnTreeGrid
<1>4. Files'
    BY <1>2 DEF FileInv, Files, FileTimes, files
<1> QED
    BY <1>3, <1>4 DEF FileInv

\* A step begins where the last one ended.
LEMMA StartFiles ==
    ASSUME Inv, FileInv, MayStart(dt_manager), dt_manager' = StartContinue(dt_manager),
           UNCHANGED <<time, files>>, pc # "output", pc' = "drift"
    PROVE  FileInv'
<1>1. dt_manager \in DtManager /\ dt_manager.count = 0 /\ dt_manager.kick
    BY DEF Inv, Times, Phases, MayStart
<1>2. Offset(dt_manager) = 0 /\ Offset(dt_manager') = 0 /\ ~dt_manager'.kick
    BY <1>1, StartOffset
<1>3. Offset(dt_manager)' = 0
    BY <1>2 DEF Offset
<1>4. ~OutputAwaited /\ ~OutputAwaited'
    BY <1>2, <1>3 DEF OutputAwaited, DtTree
<1>5. OnTreeGrid'
    BY <1>2, <1>3 DEF FileInv, OnTreeGrid
<1>6. Files'
    BY <1>2, <1>4 DEF FileInv, Files, FileTimes, files
<1> QED
    BY <1>5, <1>6 DEF FileInv

\* A kick through the end of a step finds that no output is due.
LEMMA KickThroughFiles == Inv /\ FileInv /\ KickThrough => FileInv'
<1> SUFFICES ASSUME Inv, FileInv, KickThrough PROVE FileInv'
    OBVIOUS
<1> DEFINE m == NextContinue(dt_manager)
<1>1. /\ pc = "kick" /\ pc' = "drift" /\ MayNext(dt_manager)
      /\ time' = time_origin[OneCluster] /\ flags' = FlagsAt(m, time') /\ ~EndsStep(flags')
      /\ dt_manager' = KickContinue(m) /\ nfile' = nfile /\ snapshots' = snapshots
    BY DEF KickThrough, files
<1>2. dt_manager \in DtManager /\ time \in Nat /\ time' = time
    BY <1>1, OneOrigin DEF Inv, Times
<1>3. /\ IsNextEndPossible(m) <=> Offset(dt_manager) = 6
      /\ Offset(dt_manager) \in {3, 6} /\ ~dt_manager'.kick
      /\ Offset(dt_manager') = IF Offset(dt_manager) = 6 THEN 0 ELSE Offset(dt_manager)
    BY <1>1, <1>2, NextOffset
<1>4. Offset(dt_manager)' = Offset(dt_manager')
    BY DEF Offset
<1>5. FileTimes' /\ nfile' \in Nat /\ nfile \in Nat
    BY <1>1 DEF FileInv, Files, FileTimes
<1>6. ~OutputAwaited' /\ (OutputAwaited <=> Offset(dt_manager) = 6)
    BY <1>1, <1>3, <1>4 DEF OutputAwaited, DtTree
<1>7. CASE Offset(dt_manager) = 6
  <2>1. flags'.output = (time % DtSnap = 0)
    BY <1>1, <1>2, <1>3, <1>7 DEF FlagsAt
  <2>2. time % DtSnap # 0
    BY <1>1, <2>1 DEF EndsStep
  <2>3. nfile * DtSnap < time /\ time <= nfile * DtSnap + DtSnap
    BY <1>6, <1>7 DEF FileInv, Files
  <2>4. time # (nfile + 1) * DtSnap
    BY <1>2, <1>5, <2>2, <2>3, NextOutput, TreeStepAssumption
  <2>5. (nfile + 1) * DtSnap = nfile * DtSnap + DtSnap /\ nfile * DtSnap \in Nat
    BY <1>5, TreeStepAssumption
  <2>6. nfile * DtSnap <= time /\ time < nfile * DtSnap + DtSnap
    BY <1>2, <2>3, <2>4, <2>5, TreeStepAssumption
  <2>7. Files'
    BY <1>1, <1>2, <1>3, <1>5, <1>6, <2>6 DEF Files
  <2>8. OnTreeGrid'
    <3>1. PICK k \in Nat : time = DtTree * k + 6
      BY <1>7 DEF FileInv, OnTreeGrid
    <3>2. k + 1 \in Nat /\ time' = DtTree * (k + 1) + Offset(dt_manager)'
      BY <1>2, <1>3, <1>4, <1>7, <3>1 DEF DtTree
    <3> QED
      BY <3>2 DEF OnTreeGrid
  <2> QED
    BY <2>7, <2>8 DEF FileInv
<1>8. CASE Offset(dt_manager) = 3
  <2>1. Files'
    BY <1>1, <1>2, <1>3, <1>5, <1>6, <1>8 DEF FileInv, Files
  <2>2. OnTreeGrid'
    BY <1>2, <1>3, <1>4, <1>8 DEF FileInv, OnTreeGrid
  <2> QED
    BY <2>1, <2>2 DEF FileInv
<1> QED
    BY <1>3, <1>7, <1>8

\* The end of a step writes a file exactly when one is due.
LEMMA KickEndFiles == Inv /\ FileInv /\ KickEnd => FileInv'
<1> SUFFICES ASSUME Inv, FileInv, KickEnd PROVE FileInv'
    OBVIOUS
<1> DEFINE m == NextContinue(dt_manager)
<1>1. /\ pc = "kick" /\ MayNext(dt_manager) /\ MayEnd(m)
      /\ time' = time_origin[OneCluster] /\ flags' = FlagsAt(m, time')
      /\ dt_manager' = EndContinue(m) /\ nfile' = nfile /\ snapshots' = snapshots
      /\ pc' # "drift" /\ (pc' = "output" <=> flags'.output)
    BY DEF KickEnd, files
<1>2. dt_manager \in DtManager /\ time \in Nat /\ time' = time
    BY <1>1, OneOrigin DEF Inv, Times
<1>3. Offset(dt_manager) = 6
    BY <1>1, <1>2, NextOffset DEF MayEnd
<1>4. Offset(dt_manager') = 0
    BY <1>1, <1>2, EndLeads, OffsetTable
<1>5. Offset(dt_manager)' = 0
    BY <1>4 DEF Offset
<1>6. FileTimes' /\ nfile' \in Nat /\ nfile \in Nat
    BY <1>1 DEF FileInv, Files, FileTimes
<1>7. nfile * DtSnap < time /\ time <= nfile * DtSnap + DtSnap
    BY <1>3 DEF FileInv, Files, OutputAwaited, DtTree
<1>8. pc' = "output" <=> time % DtSnap = 0
    BY <1>1, <1>2 DEF FlagsAt, MayEnd
<1>9. OutputAwaited' <=> pc' = "output"
    BY <1>5 DEF OutputAwaited, DtTree
<1>10. ~OutputAwaited' => nfile * DtSnap <= time /\ time < nfile * DtSnap + DtSnap
  <2> SUFFICES ASSUME ~OutputAwaited'
               PROVE  nfile * DtSnap <= time /\ time < nfile * DtSnap + DtSnap
    OBVIOUS
  <2>1. time # (nfile + 1) * DtSnap
    BY <1>2, <1>6, <1>7, <1>8, <1>9, NextOutput, TreeStepAssumption
  <2>2. (nfile + 1) * DtSnap = nfile * DtSnap + DtSnap /\ nfile * DtSnap \in Nat
    BY <1>6, TreeStepAssumption
  <2> QED
    BY <1>2, <1>7, <2>1, <2>2, TreeStepAssumption
<1>11. Files'
    BY <1>1, <1>2, <1>6, <1>7, <1>8, <1>9, <1>10 DEF Files
<1>12. OnTreeGrid'
  <2>1. PICK k \in Nat : time = DtTree * k + 6
    BY <1>3 DEF FileInv, OnTreeGrid
  <2>2. k + 1 \in Nat /\ time' = DtTree * (k + 1) + Offset(dt_manager)'
    BY <1>2, <1>5, <2>1 DEF DtTree
  <2> QED
    BY <2>2 DEF OnTreeGrid
<1> QED
    BY <1>11, <1>12 DEF FileInv

\* The file written is that of the next output time.
LEMMA OutputFiles == Inv /\ FileInv /\ Output => FileInv'
<1> SUFFICES ASSUME Inv, FileInv, Output PROVE FileInv'
    OBVIOUS
<1>1. /\ pc = "output" /\ nfile' = nfile + 1 /\ snapshots' = Written(nfile, time)
      /\ pc' \notin {"output", "drift"} /\ time' = time /\ dt_manager' = dt_manager
    BY DEF Output, clock
<1>2. dt_manager \in DtManager /\ dt_manager.start /\ time \in Nat /\ nfile \in Nat
    BY <1>1 DEF Inv, Times, Phases, FileInv, Files
<1>3. Offset(dt_manager)' = Offset(dt_manager) /\ Offset(dt_manager) = 0
    BY <1>1, <1>2, OffsetTable DEF Offset
<1>4. nfile * DtSnap < time /\ time <= nfile * DtSnap + DtSnap /\ time % DtSnap = 0
    BY <1>1 DEF FileInv, Files, OutputAwaited
<1>5. time = (nfile + 1) * DtSnap
    BY <1>2, <1>4, NextOutput, TreeStepAssumption
<1>6. FileTimes'
    BY <1>1, <1>2, <1>5 DEF FileInv, Files, FileTimes, Written
<1>7. ~OutputAwaited'
    BY <1>1, <1>3 DEF OutputAwaited, DtTree
<1>8. nfile' * DtSnap <= time' /\ time' < nfile' * DtSnap + DtSnap
  <2>1. nfile' * DtSnap = time'
    BY <1>1, <1>5
  <2> QED
    BY <1>1, <1>2, <2>1, TreeStepAssumption
<1>9. Files'
    BY <1>1, <1>2, <1>6, <1>7, <1>8 DEF Files
<1>10. OnTreeGrid'
    BY <1>1, <1>3 DEF FileInv, OnTreeGrid
<1> QED
    BY <1>9, <1>10 DEF FileInv

\* A drift does not run past an output time: it ends on the grid of tree steps at
\* the latest.
LEMMA DriftFiles == Inv /\ FileInv /\ Drift => FileInv'
<1> SUFFICES ASSUME Inv, FileInv, Drift PROVE FileInv'
    OBVIOUS
<1> DEFINE dt == DtDrift(dt_manager)
           next == nfile * DtSnap + DtSnap
<1>1. /\ pc = "drift" /\ MayDrift(dt_manager) /\ pc' \notin {"output", "drift"}
      /\ dt_manager' = DriftContinue(dt_manager) /\ nfile' = nfile /\ snapshots' = snapshots
    BY DEF Drift, files
<1>2. dt_manager \in DtManager /\ time \in Nat /\ nfile \in Nat
    BY DEF Inv, Times, FileInv, Files
<1>3. time' = time + dt
  <2>1. PICK i \in SUBSET Hard : DriveSystems(i, dt) /\ time' = time_origin'[OneCluster]
    <3>1. {{}} \subseteq SUBSET Hard
      OBVIOUS
    <3> QED
      BY <3>1 DEF Drift
  <2>2. OneCluster \in System /\ OneCluster \notin i
    BY TreeStepAssumption DEF System, Hard
  <2>3. time_origin[OneCluster] = time
    BY OneOrigin
  <2> QED
    BY <2>1, <2>2, <2>3 DEF DriveSystems
<1>4. /\ Offset(dt_manager) \in {0, 3} /\ dt \in {3, 6}
      /\ Offset(dt_manager') \in {3, 6} /\ Offset(dt_manager') = Offset(dt_manager) + dt
    BY <1>1, <1>2, DriftOffset
<1>5. Offset(dt_manager)' = Offset(dt_manager')
    BY DEF Offset
<1>6. ~OutputAwaited /\ (OutputAwaited' <=> Offset(dt_manager') = 6)
    BY <1>1, <1>4, <1>5 DEF OutputAwaited, DtTree
<1>7. nfile * DtSnap <= time /\ time < next
    BY <1>6 DEF FileInv, Files
<1>8. PICK k \in Nat : time = DtTree * k + Offset(dt_manager)
    BY DEF FileInv, OnTreeGrid
<1>9. PICK j \in Nat : next = DtTree * j
  <2>1. nfile + 1 \in Nat /\ (nfile + 1) * DtSnap = next
    BY <1>2, TreeStepAssumption
  <2> QED
    BY <2>1, OutputOnTreeGrid
<1>10. k < j
    BY <1>4, <1>7, <1>8, <1>9 DEF DtTree
<1>11. DtTree * k + 6 <= next
    BY <1>9, <1>10 DEF DtTree
<1>12. time' = DtTree * k + Offset(dt_manager')
    BY <1>3, <1>4, <1>8 DEF DtTree
<1>13. OnTreeGrid'
    BY <1>5, <1>12 DEF OnTreeGrid
<1>14. nfile * DtSnap \in Nat /\ next \in Nat
    BY <1>2, TreeStepAssumption
<1>15. nfile * DtSnap < time' /\ time' <= next
    BY <1>2, <1>3, <1>4, <1>7, <1>11, <1>12, <1>14 DEF DtTree
<1>16. Offset(dt_manager') # 6 => time' < next
    BY <1>4, <1>11, <1>12, <1>14 DEF DtTree
<1>17. FileTimes'
    BY <1>1 DEF FileInv, Files, FileTimes
<1>18. nfile * DtSnap <= time'
    BY <1>2, <1>3, <1>4, <1>14, <1>15
<1>19. Files'
    BY <1>1, <1>2, <1>6, <1>15, <1>16, <1>17, <1>18 DEF Files
<1> QED
    BY <1>13, <1>19 DEF FileInv

LEMMA InitFileInv == Init => FileInv
<1> SUFFICES ASSUME Init PROVE FileInv
    OBVIOUS
<1>1. nfile = 0 /\ time = 0 /\ dt_manager = NewDtManager /\ pc = "out"
    BY DEF Init, AvoidRepeatedFile
<1>2. Offset(dt_manager) = 0
    BY <1>1 DEF NewDtManager, Offset
<1>3. OnTreeGrid
    BY <1>1, <1>2 DEF OnTreeGrid, DtTree
<1>4. FileTimes
    BY <1>1, TreeStepAssumption DEF Init, FileTimes
<1>5. Files
    BY <1>1, <1>2, <1>4, TreeStepAssumption DEF Files, OutputAwaited, DtTree
<1> QED
    BY <1>3, <1>5 DEF FileInv

LEMMA NextFileInv == Inv /\ FileInv /\ [Next]_vars => FileInv'
<1> SUFFICES ASSUME Inv, FileInv, [Next]_vars PROVE FileInv'
    OBVIOUS
<1>1. CASE IntegrateToTime
    BY <1>1, SameFiles DEF IntegrateToTime, clock
<1>2. CASE FinishInterruptDrift
    BY <1>2, SameFiles DEF FinishInterruptDrift, AfterFinish, clock
<1>3. CASE CheckTimeBreak
    BY <1>3, SameFiles DEF CheckTimeBreak, clock
<1>4. CASE CorrectSoftPotMassChange
    BY <1>4, SameFiles DEF CorrectSoftPotMassChange, clock
<1>5. CASE CreateGroup
    BY <1>5, SameFiles DEF CreateGroup, clock
<1>6. CASE KickStart
    BY <1>6, StartFiles DEF KickStart
<1>7. CASE KickThrough
    BY <1>7, KickThroughFiles
<1>8. CASE KickEnd
    BY <1>8, KickEndFiles
<1>9. CASE Output
    BY <1>9, OutputFiles
<1>10. CASE Leave
    BY <1>10, SameFiles DEF Leave, clock
<1>11. CASE SecondKick
    BY <1>11, StartFiles DEF SecondKick
<1>12. CASE Drift
    BY <1>12, DriftFiles
<1>13. CASE Restart
  <2>1. PICK n \in DOMAIN snapshots :
          /\ time' = snapshots[n] /\ dt_manager' = NewDtManager /\ pc' = "out"
          /\ nfile' = AvoidRepeatedFile(n) + 1
          /\ snapshots' = Written(AvoidRepeatedFile(n), snapshots[n])
    BY <1>13 DEF Restart
  <2>2. n \in Nat /\ time' = n * DtSnap /\ nfile' = n
    BY <2>1 DEF FileInv, Files, FileTimes, AvoidRepeatedFile
  <2>3. Offset(dt_manager)' = 0
    BY <2>1 DEF NewDtManager, Offset
  <2>4. FileTimes'
    BY <2>1, <2>2 DEF FileInv, Files, FileTimes, Written, AvoidRepeatedFile
  <2>5. OnTreeGrid'
    BY <2>2, <2>3, OutputOnTreeGrid DEF OnTreeGrid, DtTree
  <2>6. Files'
    BY <2>1, <2>2, <2>3, <2>4, TreeStepAssumption DEF Files, OutputAwaited, DtTree
  <2> QED
    BY <2>5, <2>6 DEF FileInv
<1>14. CASE UNCHANGED vars
    BY <1>14 DEF vars, clock, files, FileInv, OnTreeGrid, Offset, Files, FileTimes, OutputAwaited
<1> QED
    BY <1>1, <1>2, <1>3, <1>4, <1>5, <1>6, <1>7, <1>8, <1>9, <1>10, <1>11, <1>12, <1>13,
       <1>14 DEF Next, Step

\* Every snapshot is that of its number, whichever files a run was restarted from,
\* and no step drifts away from an output time whose file is missing (output,
\* file_header.nfile and the output flag of integrateToTime).
THEOREM SnapshotsInOrder == Spec => []SnapshotsNumbered
<1>1. Inv /\ FileInv => SnapshotsNumbered
  <2> SUFFICES ASSUME Inv, FileInv PROVE SnapshotsNumbered
    OBVIOUS
  <2>1. \A n \in DOMAIN snapshots : snapshots[n] = n * DtSnap
    BY DEF FileInv, Files, FileTimes
  <2>2. ASSUME pc = "drift" PROVE nfile = time \div DtSnap
    <3>1. dt_manager \in DtManager /\ ~dt_manager.kick /\ time \in Nat /\ nfile \in Nat
      BY <2>2 DEF Inv, Times, FileInv, Files
    <3>2. Offset(dt_manager) # 6
      BY <3>1, OffsetTable, Counts
    <3>3. nfile * DtSnap <= time /\ time < nfile * DtSnap + DtSnap
      BY <2>2, <3>2 DEF FileInv, Files, OutputAwaited, DtTree
    <3> QED
      BY <3>1, <3>3, QuotientOf, TreeStepAssumption
  <2> QED
    BY <2>1, <2>2 DEF SnapshotsNumbered
<1> QED
    BY <1>1, InitInv, NextInv, InitFileInv, NextFileInv, PTL DEF Spec

-----------------------------------------------------------------------------
(* Changeover radii *)

LEMMA NextChangeovers == Inv /\ ChangeoversApplied /\ [Next]_vars => ChangeoversApplied'
<1> SUFFICES ASSUME Inv, ChangeoversApplied, [Next]_vars, pc' = "drift", dt_manager'.count = 0
             PROVE  changeover' = {}
    BY DEF ChangeoversApplied
<1>1. CASE KickStart \/ SecondKick
    BY <1>1 DEF KickStart, SecondKick, CorrectForceChangeOverUpdate
<1>2. CASE KickThrough
  <2> DEFINE m == NextContinue(dt_manager)
  <2>1. /\ MayNext(dt_manager) /\ flags' = FlagsAt(m, time') /\ ~EndsStep(flags')
        /\ dt_manager' = KickContinue(m) /\ changeover' = changeover
    BY <1>2 DEF KickThrough
  <2>2. m \in DtManager /\ ~m.start /\ m.kick
    BY <2>1, NextPair DEF Inv, Times, MayNext
  <2>3. m.count = 0
    BY <2>1, <2>2 DEF KickContinue, DtManager
  <2>4. flags'.changeover = ChangeoverNeeded
    BY <2>1, <2>2, <2>3 DEF FlagsAt, IsNextEndPossible
  <2> QED
    BY <2>1, <2>4 DEF EndsStep, ChangeoverNeeded
<1>3. CASE UNCHANGED vars
    BY <1>3 DEF vars, clock, ChangeoversApplied
<1>4. CASE IntegrateToTime \/ FinishInterruptDrift \/ CheckTimeBreak
    BY <1>4 DEF IntegrateToTime, FinishInterruptDrift, CheckTimeBreak, AfterFinish
<1>5. CASE CorrectSoftPotMassChange \/ CreateGroup \/ KickEnd
    BY <1>5 DEF CorrectSoftPotMassChange, CreateGroup, KickEnd
<1>6. CASE Output \/ Leave \/ Drift \/ Restart
    BY <1>6 DEF Output, Leave, Drift, Restart
<1> QED
    BY <1>1, <1>2, <1>3, <1>4, <1>5, <1>6 DEF Next, Step

\* No step begins with changeover radii that were found and not applied: a pass that
\* finds one ends the step (changeover_flag in integrateToTime).
THEOREM StepsUseNewChangeovers == Spec => []ChangeoversApplied
<1>1. Init => ChangeoversApplied
    BY DEF Init, ChangeoversApplied
<1> QED
    BY <1>1, NextChangeovers, InitInv, NextInv, PTL DEF Spec

-----------------------------------------------------------------------------
(* Changes of mass.  What is owed outside the connected systems is on the   *)
(* list with a difference that can be corrected, unless it was corrected;   *)
(* an interrupted system has not written its changes back.  Changes still   *)
(* in the hard systems are gone when the groups have been created.          *)
MassInv ==
    /\ changed \cup owed \subseteq Evolving
    /\ pc \notin {"out", "finish", "check", "loop"} => owed \subseteq Connected
    /\ owed \ Connected \subseteq (mass_modify_list \cap dm) \ interrupted
    /\ pc \in {"kick", "drift", "output", "leave", "secondKick"} => changed = {}

LEMMA SameMass ==
    ASSUME MassInv, UNCHANGED <<mass, interrupted>>,
           \/ pc' \in {"out", "finish", "check"}
           \/ pc = "check" /\ pc' = "loop"
           \/ /\ pc \in {"kick", "drift", "output", "leave", "secondKick"}
              /\ pc' \in {"kick", "drift", "output", "leave", "secondKick"}
    PROVE  MassInv'
BY DEF MassInv, mass

LEMMA FinishMass == MassInv /\ FinishInterruptDrift => MassInv'
<1> SUFFICES ASSUME MassInv, FinishInterruptDrift PROVE MassInv'
    OBVIOUS
<1>1. PICK i \in SUBSET interrupted, m \in SUBSET (Evolving \cap interrupted) :
        /\ interrupted' = i /\ WriteBackMass(Finished(i), changed \cup m)
        /\ mass_modify_list' = ListedAfterFinish(i, changed \cup m)
        /\ pc' \in {"out", "check"}
    BY DEF FinishInterruptDrift, AfterFinish
<1> DEFINE w == Finished(i)
           c == changed \cup m
<1>2. w \ Connected \subseteq (Isolated \cap interrupted) \ i
    BY DEF Finished
<1>3. /\ changed' = c \ w /\ owed' = owed \cup (c \cap w) /\ dm' = (dm \ w) \cup (c \cap w)
      /\ mass_modify_list' = mass_modify_list \cup (c \cap w \cap Isolated)
    BY <1>1 DEF WriteBackMass, ListedAfterFinish
<1>4. changed' \cup owed' \subseteq Evolving
    BY <1>3 DEF MassInv
<1>5. owed' \ Connected \subseteq (mass_modify_list' \cap dm') \ interrupted'
  <2> SUFFICES ASSUME NEW s \in owed' \ Connected
               PROVE  s \in mass_modify_list' /\ s \in dm' /\ s \notin interrupted'
    OBVIOUS
  <2>1. CASE s \in owed
    <3>1. s \in mass_modify_list /\ s \in dm /\ s \notin interrupted
      BY <2>1 DEF MassInv
    <3> QED
      BY <1>1, <1>2, <1>3, <3>1
  <2>2. CASE s \in c \cap w
    BY <1>1, <1>2, <1>3, <2>2
  <2> QED
    BY <1>3, <2>1, <2>2
<1> QED
    BY <1>1, <1>4, <1>5 DEF MassInv

LEMMA DriftMass == MassInv /\ Drift => MassInv'
<1> SUFFICES ASSUME MassInv, Drift PROVE MassInv'
    OBVIOUS
<1>1. PICK i \in SUBSET Hard, m \in SUBSET Evolving :
        /\ interrupted' = i /\ WriteBackMass(Drifted(i), changed \cup m)
        /\ mass_modify_list' = mass_modify_list \cup ((changed \cup m) \cap Drifted(i))
        /\ pc' \in {"out", "loop"}
  <2>1. {{}} \subseteq SUBSET Hard
    OBVIOUS
  <2> QED
    BY <2>1 DEF Drift, DriveSystems
<1>2. changed = {} /\ owed \subseteq Connected
    BY DEF Drift, MassInv
<1> DEFINE w == Drifted(i)
<1>3. /\ changed' = m \ w /\ owed' = owed \cup (m \cap w) /\ dm' = (dm \ w) \cup (m \cap w)
      /\ mass_modify_list' = mass_modify_list \cup (m \cap w)
    BY <1>1, <1>2 DEF WriteBackMass
<1>4. (w \ Connected) \cap i = {}
    BY TreeStepAssumption DEF Drifted, Hard
<1>5. changed' \cup owed' \subseteq Evolving
    BY <1>3 DEF MassInv
<1>6. owed' \ Connected \subseteq (mass_modify_list' \cap dm') \ interrupted'
    BY <1>1, <1>2, <1>3, <1>4
<1> QED
    BY <1>1, <1>5, <1>6 DEF MassInv

LEMMA KickEndMass == MassInv /\ KickEnd => MassInv'
<1> SUFFICES ASSUME MassInv, KickEnd PROVE MassInv'
    OBVIOUS
<1>1. /\ pc = "kick" /\ pc' \in {"output", "leave", "secondKick"} /\ interrupted' = interrupted
      /\ WriteBackHardParticles(flags')
    BY DEF KickEnd, hard
<1>2. changed = {} /\ owed \subseteq Connected
    BY <1>1 DEF MassInv
<1>3. changed' = {} /\ owed' = owed
    BY <1>1, <1>2 DEF WriteBackHardParticles, WriteBackMass, mass
<1> QED
    BY <1>1, <1>2, <1>3 DEF MassInv

LEMMA NextMassInv == MassInv /\ [Next]_vars => MassInv'
<1> SUFFICES ASSUME MassInv, [Next]_vars PROVE MassInv'
    OBVIOUS
<1>1. CASE IntegrateToTime
    BY <1>1, SameMass DEF IntegrateToTime, hard
<1>2. CASE FinishInterruptDrift
    BY <1>2, FinishMass
<1>3. CASE CheckTimeBreak
    BY <1>3, SameMass DEF CheckTimeBreak, hard
<1>4. CASE CorrectSoftPotMassChange
    BY <1>4 DEF CorrectSoftPotMassChange, MassInv, hard
<1>5. CASE CreateGroup
    BY <1>5 DEF CreateGroup, MassInv, hard
<1>6. CASE KickStart
    BY <1>6, SameMass DEF KickStart, hard
<1>7. CASE KickThrough
    BY <1>7, SameMass DEF KickThrough, hard
<1>8. CASE KickEnd
    BY <1>8, KickEndMass
<1>9. CASE Output
    BY <1>9, SameMass DEF Output, hard
<1>10. CASE Leave
    BY <1>10, SameMass DEF Leave, hard
<1>11. CASE SecondKick
    BY <1>11, SameMass DEF SecondKick, hard
<1>12. CASE Drift
    BY <1>12, DriftMass
<1>13. CASE Restart
    BY <1>13 DEF Restart, MassInv
<1>14. CASE UNCHANGED vars
    BY <1>14 DEF vars, mass, hard, MassInv
<1> QED
    BY <1>1, <1>2, <1>3, <1>4, <1>5, <1>6, <1>7, <1>8, <1>9, <1>10, <1>11, <1>12, <1>13,
       <1>14 DEF Next, Step

\* The changes of mass that a kick finds uncorrected are those of the connected
\* systems: each of the others was corrected in the pass before the kick, through
\* any interrupts (correctSoftPotMassChange, the lists of SystemHard).
THEOREM OnlyConnectedOwed == Spec => [](pc = "kick" => owed \subseteq Evolving \cap Connected)
<1>1. Init => MassInv
    BY DEF Init, MassInv
<1>2. MassInv => (pc = "kick" => owed \subseteq Evolving \cap Connected)
    BY DEF MassInv
<1> QED
    BY <1>1, <1>2, NextMassInv, PTL DEF Spec

\* Without stars that evolve in the connected systems, of which a build without MPI
\* has none, every change of mass is corrected before the next kick.
THEOREM MassChangesAreCorrected ==
    ASSUME Evolving \cap Connected = {}
    PROVE  Spec => []MassChangesCorrected
<1>1. (pc = "kick" => owed \subseteq Evolving \cap Connected) => MassChangesCorrected
    BY DEF MassChangesCorrected
<1> QED
    BY <1>1, OnlyConnectedOwed, PTL

-----------------------------------------------------------------------------
(* Types *)

\* What the kicks and drifts add are natural numbers.
LEMMA NatSteps ==
    ASSUME Inv
    PROVE  /\ MayStart(dt_manager) => DtStart \in Nat
           /\ MayNext(dt_manager) => DtKick(NextContinue(dt_manager)) \in Nat
           /\ MayNext(dt_manager) /\ MayEnd(NextContinue(dt_manager)) => DtEnd \in Nat
           /\ MayDrift(dt_manager) => DtDrift(dt_manager) \in Nat
BY StartLeads, ThroughLeads, EndLeads, DriftLags DEF Inv, Times, Phases, MayStart

\* The times that grow, beyond what the invariant says of them.
NatTimes ==
    /\ time_kick \in Nat
    /\ time_origin \in [System -> Nat] /\ time_write_back \in [System -> Nat]
    /\ interrupt_dt \in [System -> Nat]
    /\ returned \in Nat \cup {-1} /\ time_break \in Breaks \cup {0}

LEMMA NatWriteBack ==
    ASSUME NEW w, NatTimes, time_origin' \in [System -> Nat], UpdateTimeWriteBack(w, time_origin')
    PROVE  time_write_back' \in [System -> Nat]
BY DEF NatTimes, UpdateTimeWriteBack

LEMMA NextNatTimes == Inv /\ NatTimes /\ [Next]_vars => NatTimes'
<1> SUFFICES ASSUME Inv, NatTimes, [Next]_vars PROVE NatTimes'
    OBVIOUS
<1> USE DEF NatTimes
<1>1. CASE IntegrateToTime \/ CheckTimeBreak \/ CorrectSoftPotMassChange
    BY <1>1 DEF IntegrateToTime, CheckTimeBreak, CorrectSoftPotMassChange, call, clock, hard
<1>2. CASE FinishInterruptDrift
  <2>1. PICK i \in SUBSET interrupted :
          /\ time_origin' = OriginsAfterFinish(i) /\ n_interrupt' = Cardinality(i)
          /\ UpdateTimeWriteBack(Finished(i), time_origin')
          /\ returned' = IF i # {} THEN n_interrupt' ELSE returned
    BY <1>2 DEF FinishInterruptDrift
  <2>2. time_origin' \in [System -> Nat]
    BY <2>1 DEF OriginsAfterFinish
  <2>3. n_interrupt' \in Nat
    BY <2>1, CountedInterrupts DEF Inv, Phases
  <2> QED
    BY <1>2, <2>1, <2>2, <2>3, NatWriteBack DEF FinishInterruptDrift, clock
<1>3. CASE CreateGroup
    BY <1>3, NatWriteBack DEF CreateGroup, UpdateTimeWriteBack, call, clock, hard
<1>4. CASE KickStart \/ SecondKick
    BY <1>4, NatSteps DEF KickStart, SecondKick, Kick, call, hard
<1>5. CASE KickThrough
    BY <1>5, NatSteps DEF KickThrough, Kick, call, hard
<1>6. CASE KickEnd
    BY <1>6, NatSteps DEF KickEnd, Kick, WriteBackHardParticles, UpdateTimeWriteBack, call, hard
<1>7. CASE Output \/ Leave
    BY <1>7 DEF Output, Leave, call, clock, hard
<1>8. CASE Drift
  <2>1. PICK i \in SUBSET Hard :
          /\ DriveSystems(i, DtDrift(dt_manager))
          /\ UpdateTimeWriteBack(Drifted(i), time_origin')
          /\ returned' = IF i # {} THEN n_interrupt' ELSE returned
    <3>1. {{}} \subseteq SUBSET Hard
      OBVIOUS
    <3> QED
      BY <1>8, <3>1 DEF Drift
  <2>2. DtDrift(dt_manager) \in Nat
    BY <1>8, NatSteps DEF Drift
  <2>3. time_origin' \in [System -> Nat] /\ interrupt_dt' \in [System -> Nat]
    BY <2>1, <2>2 DEF DriveSystems
  <2>4. n_interrupt' \in Nat
    BY <2>1, CountedInterrupts DEF DriveSystems
  <2> QED
    BY <1>8, <2>1, <2>3, <2>4, NatWriteBack DEF Drift
<1>9. CASE Restart
    BY <1>9 DEF Restart, AllAt, Inv, Times, SnapshotTimes
<1>10. CASE UNCHANGED vars
    BY <1>10 DEF vars, call, clock, hard
<1> QED
    BY <1>1, <1>2, <1>3, <1>4, <1>5, <1>6, <1>7, <1>8, <1>9, <1>10 DEF Next, Step

\* The sets of systems, the flags and the files.
Sets ==
    /\ pc \in {"out", "finish", "check", "loop", "force", "kick", "output", "leave",
               "secondKick", "drift"}
    /\ flags \in [output : BOOLEAN, changeover : BOOLEAN, interrupt : BOOLEAN]
    /\ changeover \subseteq Hard /\ corrected \in BOOLEAN
    /\ changed \subseteq System /\ dm \subseteq System
    /\ mass_modify_list \subseteq System /\ owed \subseteq System
    /\ nfile \in DOMAIN snapshots

LEMMA WriteBackSets ==
    ASSUME NEW w \in SUBSET System, NEW c \in SUBSET System, Sets, WriteBackMass(w, c)
    PROVE  changed' \subseteq System /\ dm' \subseteq System /\ owed' \subseteq System
BY DEF Sets, WriteBackMass

LEMMA NextSets == Inv /\ FileInv /\ Sets /\ [Next]_vars => Sets'
<1> SUFFICES ASSUME Inv, FileInv, Sets, [Next]_vars PROVE Sets'
    OBVIOUS
<1> USE DEF Sets
<1>1. CASE IntegrateToTime \/ CheckTimeBreak \/ CorrectSoftPotMassChange
    BY <1>1 DEF IntegrateToTime, CheckTimeBreak, CorrectSoftPotMassChange, mass, files
<1>2. CASE FinishInterruptDrift
  <2>1. PICK i \in SUBSET interrupted, m \in SUBSET (Evolving \cap interrupted) :
          /\ WriteBackMass(Finished(i), changed \cup m)
          /\ mass_modify_list' = ListedAfterFinish(i, changed \cup m)
          /\ pc' \in {"out", "check"}
    BY <1>2 DEF FinishInterruptDrift, AfterFinish
  <2>2. Finished(i) \in SUBSET System /\ changed \cup m \in SUBSET System
    BY TreeStepAssumption DEF Finished, System, Hard
  <2>3. mass_modify_list' \subseteq System
    BY <2>1, <2>2 DEF ListedAfterFinish
  <2> QED
    BY <1>2, <2>1, <2>2, <2>3, WriteBackSets DEF FinishInterruptDrift, files
<1>3. CASE CreateGroup
    BY <1>3 DEF CreateGroup, GradientCorrected, files
<1>4. CASE KickStart \/ SecondKick
  <2>1. /\ pc' = "drift" /\ changeover' = {} /\ UNCHANGED <<corrected, mass, files>>
        /\ flags' \in {flags, NoFlags}
    <3>1. CASE KickStart
      BY <3>1 DEF KickStart, CorrectForceChangeOverUpdate
    <3>2. CASE SecondKick
      BY <3>2 DEF SecondKick, CorrectForceChangeOverUpdate
    <3> QED
      BY <1>4, <3>1, <3>2
  <2>2. NoFlags \in [output : BOOLEAN, changeover : BOOLEAN, interrupt : BOOLEAN]
    BY DEF NoFlags
  <2> QED
    BY <2>1, <2>2 DEF mass, files
<1>5. CASE KickThrough
    BY <1>5 DEF KickThrough, FlagsAt, ChangeoverNeeded, NoFlags, mass, files
<1>6. CASE KickEnd
    BY <1>6 DEF KickEnd, WriteBackHardParticles, WriteBackMass, FlagsAt, ChangeoverNeeded,
                NoFlags, mass, files
<1>7. CASE Output
    BY <1>7 DEF Output, Written, mass
<1>8. CASE Leave
    BY <1>8 DEF Leave, CorrectForceChangeOverUpdate, mass, files
<1>9. CASE Drift
  <2>1. PICK i \in SUBSET Hard, m \in SUBSET Evolving :
          /\ WriteBackMass(Drifted(i), changed \cup m)
          /\ mass_modify_list' = mass_modify_list \cup ((changed \cup m) \cap Drifted(i))
          /\ pc' \in {"out", "loop"}
    <3>1. {{}} \subseteq SUBSET Hard
      OBVIOUS
    <3> QED
      BY <1>9, <3>1 DEF Drift
  <2>2. Drifted(i) \in SUBSET System /\ changed \cup m \in SUBSET System
    BY TreeStepAssumption DEF Drifted, System, Hard
  <2> QED
    BY <1>9, <2>1, <2>2, WriteBackSets DEF Drift, files
<1>10. CASE Restart
  <2>1. \A n \in DOMAIN snapshots : AvoidRepeatedFile(n) + 1 = n
    BY DEF FileInv, Files, FileTimes, AvoidRepeatedFile
  <2> QED
    BY <1>10, <2>1 DEF Restart, Written, NoFlags
<1>11. CASE UNCHANGED vars
    BY <1>11 DEF vars, mass, files
<1> QED
    BY <1>1, <1>2, <1>3, <1>4, <1>5, <1>6, <1>7, <1>8, <1>9, <1>10, <1>11 DEF Next, Step

\* The types, through all interrupts and restarts.
THEOREM TypeCorrect == Spec => []TypeOK
<1>1. Init => NatTimes /\ Sets
  <2> SUFFICES ASSUME Init PROVE NatTimes /\ Sets
    OBVIOUS
  <2>1. NatTimes
    BY DEF Init, NatTimes, AllAt
  <2>2. flags \in [output : BOOLEAN, changeover : BOOLEAN, interrupt : BOOLEAN]
    BY DEF Init, NoFlags
  <2>3. Sets
    BY <2>2 DEF Init, Sets
  <2> QED
    BY <2>1, <2>3
<1>2. Inv /\ FileInv /\ NatTimes /\ Sets => TypeOK
  <2> SUFFICES ASSUME Inv, FileInv, NatTimes, Sets PROVE TypeOK
    OBVIOUS
  <2>1. n_interrupt \in Nat /\ interrupted \subseteq Hard
    BY CountedInterrupts DEF Inv, Phases
  <2>2. /\ nfile \in Nat /\ DOMAIN snapshots \subseteq Nat
        /\ \A n \in DOMAIN snapshots : snapshots[n] \in Nat
    BY DEF FileInv, Files, FileTimes, Inv, Times, SnapshotTimes
  <2>3. time \in Nat /\ dt_manager \in DtManager
    BY DEF Inv, Times
  <2> QED
    BY <2>1, <2>2, <2>3 DEF TypeOK, NatTimes, Sets
<1> QED
    BY <1>1, <1>2, InitInv, NextInv, InitFileInv, NextFileInv, NextNatTimes, NextSets, PTL DEF Spec
=============================================================================
