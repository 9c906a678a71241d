---------------------------- MODULE ARStepProofs ----------------------------
(***************************************************************************)
(* Proofs about ARStep, for any end, step sizes, error levels, limits and  *)
(* number of stellar events: what events do to the particles survives      *)
(* every retry, backups only advance, and the caller learns of the worst   *)
(* event.                                                                  *)
(***************************************************************************)
EXTENDS ARStep, SequenceTheorems, TLAPS

\* The loop goes on.
Live == pc \in {"top", "step"}

\* The next step is made without an event or a backup in between.
Unchanged == pc = "step" \/ (pc = "top" /\ ~backup_flag)

\* The modifications the particles show; a retry has those of the backup.
StarInv ==
    /\ star.changes = events
    /\ Unchanged => backup.star = star

\* A retry starts from the backup; a new backup is ahead of it, before the end.
TimeInv ==
    /\ backup.time < TimeEnd
    /\ pc = "step" => time = backup.time
    /\ pc = "top" /\ backup_flag =>
          time < TimeEnd /\ (time > backup.time \/ backup = [time |-> time, star |-> star])

\* The status is the worst so far; with option 2 the first event is also the last.
WorstInv ==
    /\ status = worst
    /\ Live => status <= merge /\ (option = 2 => status = none)

IInv == TypeOK /\ StarInv /\ TimeInv /\ WorstInv

-----------------------------------------------------------------------------
(* Arithmetic of the steps *)

\* A quotient of a positive ds, rounded up to 1, is a ds.
LEMMA QuotientIsDs ==
    ASSUME NEW d \in Ds, NEW f \in Nat \ {0}
    PROVE  (IF d \div f < 1 THEN 1 ELSE d \div f) \in Ds
<1>1. d \div f \in Int /\ d \div f <= d
  BY DEF Ds
<1> QED
  BY <1>1, ARStepAssumption DEF Ds

\* A step far too small is made larger by the part of the way that is left.
LEMMA StretchedIsDs ==
    ASSUME NEW d \in Ds, NEW way \in Int, NEW dt \in Nat \ {0}, 10 * dt < 3 * way
    PROVE  Lower((d * way) \div dt, DsMax) \in Ds
<1>1. way \in Nat /\ dt <= way
  OBVIOUS
<1>2. d * way >= way
  BY <1>1 DEF Ds
<1>3. d * way \in Int /\ d * way >= dt
  BY <1>1, <1>2 DEF Ds
<1>4. (d * way) \div dt \in Int /\ (d * way) \div dt >= 1
  BY <1>3
<1> QED
  BY <1>4, ARStepAssumption DEF Lower, Ds

\* A step yields a time of at least -1, never 0, and no more than the largest step can.
LEMMA GainIsBounded ==
    ASSUME NEW d \in Ds, NEW dt \in Gains(d)
    PROVE  dt \in -1 .. LongGain * DsMax /\ dt # 0
<1>1. d \in Nat /\ d >= 1 /\ d <= DsMax /\ DsMax \in Nat /\ LongGain \in Nat /\ LongGain >= 1
  BY ARStepAssumption DEF Ds
<1>2. LongGain * d \in Nat /\ LongGain * d >= d /\ LongGain * DsMax \in Nat
  BY <1>1
<1>3. LongGain * d <= LongGain * DsMax
  BY <1>1
<1> QED
  BY <1>1, <1>2, <1>3 DEF Gains

-----------------------------------------------------------------------------
(* Types *)

Level == [ds : Ds, wait : Nat]
IsManager(m) == m \in Seq(Level) /\ Len(m) <= NReduceLevel + 1

\* The manager keeps its entries when it is filled with one ds.
LEMMA ResetKeepsType ==
    ASSUME IsManager(ds_backup), NEW d \in Ds, ResetManager(d)
    PROVE  IsManager(ds_backup')
<1>1. DOMAIN ds_backup = 1 .. Len(ds_backup) /\ Len(ds_backup) \in Nat
  BY DEF IsManager
<1>2. \A l \in DOMAIN ds_backup :
         (IF l <= NReduceLevel THEN [ds |-> d, wait |-> 0] ELSE ds_backup[l]) \in Level
  <2>1. [ds |-> d, wait |-> 0] \in Level
    BY DEF Level
  <2>2. \A l \in DOMAIN ds_backup : ds_backup[l] \in Level
    BY DEF IsManager
  <2> QED
    BY <2>1, <2>2
<1>3. ds_backup' \in [1 .. Len(ds_backup) -> Level]
  BY <1>1, <1>2 DEF ResetManager
<1>4. ds_backup' \in Seq(Level) /\ Len(ds_backup') = Len(ds_backup)
  BY <1>1, <1>3
<1> QED
  BY <1>4 DEF IsManager

\* A reduction opens a level, or makes the last one wait longer.
LEMMA RecordKeepsType ==
    ASSUME IsManager(ds_backup), NEW d \in Ds, NEW f \in Factors, Record(d, f)
    PROVE  IsManager(ds_backup')
<1>1. f \in Nat /\ NReduceLevel \in Nat
  BY ARStepAssumption
<1>2. [ds |-> d, wait |-> 2 * f] \in Level
  BY <1>1 DEF Level
<1>3. CASE OpensNext
  <2>1. ds_backup' = Append(ds_backup, [ds |-> d, wait |-> 2 * f])
    BY <1>3 DEF Record
  <2>2. Len(ds_backup) # NReduceLevel + 1
    BY <1>1, <1>3 DEF OpensNext, n_reduce_level, IsManager
  <2> QED
    BY <1>1, <1>2, <2>1, <2>2 DEF IsManager
<1>4. CASE ~OpensNext
  <2>1. Len(ds_backup) \in DOMAIN ds_backup /\ Len(ds_backup) \in Nat
    BY <1>1, <1>4 DEF OpensNext, n_reduce_level, IsManager
  <2>2. ds_backup[Len(ds_backup)] \in Level
    BY <2>1 DEF IsManager
  <2>3. [ds_backup[Len(ds_backup)] EXCEPT !.wait = @ + 2 * f] \in Level
    BY <1>1, <2>2 DEF Level
  <2>4. ds_backup' = [ds_backup EXCEPT ![Len(ds_backup)] =
                         [ds_backup[Len(ds_backup)] EXCEPT !.wait = @ + 2 * f]]
    BY <1>4, <2>1 DEF Record, IsManager
  <2> QED
    BY <2>1, <2>3, <2>4 DEF IsManager
<1> QED
  BY <1>3, <1>4

\* Waiting and recovering keep the manager's type, and the ds recovered is one.
LEMMA RecoverKeepsType ==
    ASSUME TypeOK, NEW err, NEW next \in Ds, WaitOrRecover(err, next)
    PROVE  IsManager(ds_backup')
<1>1. IsManager(ds_backup)
  BY DEF TypeOK, IsManager, Level
<1>2. CASE Waiting /\ ds_backup' = [ds_backup EXCEPT ![Len(ds_backup)].wait = @ - 1]
  <2>1. Len(ds_backup) \in DOMAIN ds_backup /\ Len(ds_backup) \in Nat
    BY <1>1, <1>2 DEF Waiting, n_reduce_level, IsManager
  <2>2. ds_backup[Len(ds_backup)] \in Level
    BY <1>1, <2>1 DEF IsManager
  <2>3. ds_backup[Len(ds_backup)].wait # 0
    BY <1>2 DEF Waiting, Top, Last
  <2>4. [ds_backup[Len(ds_backup)] EXCEPT !.wait = @ - 1] \in Level
    BY <2>2, <2>3 DEF Level
  <2>5. ds_backup' = [ds_backup EXCEPT ![Len(ds_backup)] =
                         [ds_backup[Len(ds_backup)] EXCEPT !.wait = @ - 1]]
    BY <1>2, <2>1
  <2> QED
    BY <1>1, <2>1, <2>4, <2>5 DEF IsManager
<1>3. CASE Recovers /\ ds_backup' = Front(ds_backup)
  <2>1. ds_backup # <<>> /\ Len(ds_backup) \in Nat /\ Len(ds_backup) >= 1
    BY <1>1, <1>3 DEF Recovers, n_reduce_level, IsManager
  <2>2. ds_backup \in Seq(Level) /\ Len(ds_backup) <= NReduceLevel + 1 /\ NReduceLevel \in Nat
    BY <1>1, ARStepAssumption DEF IsManager
  <2>3. \A i \in 1 .. Len(ds_backup) - 1 : ds_backup[i] \in Level
    BY <2>1, <2>2
  <2>4. /\ SubSeq(ds_backup, 1, Len(ds_backup) - 1) \in Seq(Level)
        /\ Len(SubSeq(ds_backup, 1, Len(ds_backup) - 1)) <= Len(ds_backup)
    BY <2>1, <2>2, <2>3, SubSeqProperties
  <2> QED
    BY <1>3, <2>1, <2>2, <2>4 DEF IsManager, Front
<1>4. CASE UNCHANGED ds_backup
  BY <1>1, <1>4 DEF IsManager
<1> QED
  BY <1>2, <1>3, <1>4 DEF WaitOrRecover

-----------------------------------------------------------------------------
(* The actions at the top of the loop *)

LEMMA InitInv == Init => IInv
<1> SUFFICES ASSUME Init PROVE IInv
  OBVIOUS
<1> USE ARStepAssumption DEF Init
<1>1. TimeEnd \in Nat /\ TimeEnd >= 1 /\ LongGain * DsMax \in Nat
  OBVIOUS
<1>2. TypeOK
  BY <1>1 DEF TypeOK, Ds, NParticle, none, merge, destroy, None
<1>3. StarInv /\ TimeInv /\ WorstInv
  BY <1>1 DEF StarInv, TimeInv, WorstInv, Live, Unchanged, NParticle, none, merge
<1> QED
  BY <1>2, <1>3 DEF IInv

\* A new ds keeps the types of all the steps.
LEMMA NewDsType ==
    ASSUME TypeOK, NEW d \in Ds,
           NewDs(d) \/ (d = ds_init /\ UNCHANGED <<info_ds, ds_init, ds, ds_backup>>)
    PROVE  /\ info_ds' \in Ds /\ ds_init' \in Ds /\ ds' \in [0 .. 1 -> Ds]
           /\ IsManager(ds_backup')
<1>1. IsManager(ds_backup)
  BY DEF TypeOK, IsManager, Level
<1>2. \A i \in 0 .. 1 : Lower(ds[i], d) \in Ds
  BY DEF TypeOK, Lower
<1>3. CASE NewDs(d) /\ d # ds_init
  BY <1>1, <1>2, <1>3, ResetKeepsType DEF NewDs
<1>4. CASE ~(NewDs(d) /\ d # ds_init)
  BY <1>1, <1>4 DEF NewDs, TypeOK, IsManager
<1> QED
  BY <1>3, <1>4

\* An event leaves a number of particles and is counted.
LEMMA EventType ==
    ASSUME TypeOK, StarInv, WorstInv, Live, NEW s \in change .. destroy, Event(s)
    PROVE  /\ star' \in [mass : 0 .. NParticle, changes : 0 .. MaxEvents]
           /\ star'.changes = events' /\ events' \in 0 .. MaxEvents
           /\ worst' = IF s > worst THEN s ELSE worst
<1>1. /\ star.mass \in 0 .. NParticle /\ events < MaxEvents
      /\ events' = events + 1 /\ star.changes = events /\ events \in 0 .. MaxEvents
      /\ worst' = IF s > worst THEN s ELSE worst
  BY DEF Event, TypeOK, StarInv
<1>2. PICK m \in MassLeft(s) : star' = [mass |-> m, changes |-> star.changes + 1]
  BY DEF Event
<1>3. m \in 0 .. NParticle
  BY <1>1, <1>2 DEF MassLeft, NParticle
<1>4. star.changes + 1 \in 0 .. MaxEvents
  BY <1>1, ARStepAssumption
<1> QED
  BY <1>1, <1>2, <1>3, <1>4

LEMMA ReturnInterruptedStep == IInv /\ ReturnInterrupted => IInv'
<1> SUFFICES ASSUME IInv, ReturnInterrupted PROVE IInv'
  OBVIOUS
<1> USE DEF IInv
<1>1. PICK s \in change .. destroy : Event(s) /\ status' = s
  BY DEF ReturnInterrupted
<1>2. /\ pc = "top" /\ option = 2 /\ pc' = "returned"
      /\ UNCHANGED <<option, backup_flag, time_end_flag, time, backup, ds_backup, ds, ds_switch, ds_init,
                     info_ds, fix_step_option, step_count, step_count_tsyn, n_step_end, previous>>
  BY DEF ReturnInterrupted, Asks, steps, counts
<1>3. /\ star' \in [mass : 0 .. NParticle, changes : 0 .. MaxEvents]
      /\ star'.changes = events' /\ events' \in 0 .. MaxEvents
      /\ worst' = IF s > worst THEN s ELSE worst
  BY <1>1, <1>2, EventType DEF Live
<1>4. worst' = s /\ s \in none .. destroy
  BY <1>2, <1>3 DEF WorstInv, Live, none, change, destroy
<1>5. TypeOK'
  BY <1>1, <1>2, <1>3, <1>4 DEF TypeOK
<1> QED
  BY <1>1, <1>2, <1>3, <1>4, <1>5 DEF StarInv, TimeInv, WorstInv, Live, Unchanged

LEMMA ReturnLastStep == IInv /\ ReturnLast => IInv'
<1> SUFFICES ASSUME IInv, ReturnLast PROVE IInv'
  OBVIOUS
<1> USE DEF IInv
<1>1. PICK s \in {merge, destroy} : Event(s) /\ status' = s
  BY DEF ReturnLast
<1>2. /\ pc = "top" /\ pc' = "returned" /\ time' = TimeEnd
      /\ UNCHANGED <<option, backup_flag, time_end_flag, backup, ds_backup, ds, ds_switch, ds_init,
                     info_ds, fix_step_option, step_count, step_count_tsyn, n_step_end, previous>>
  BY DEF ReturnLast, Asks, steps, counts
<1>3. /\ star' \in [mass : 0 .. NParticle, changes : 0 .. MaxEvents]
      /\ star'.changes = events' /\ events' \in 0 .. MaxEvents
      /\ worst' = IF s > worst THEN s ELSE worst
  BY <1>1, <1>2, EventType DEF Live, change, merge, destroy
<1>4. worst' = s /\ s \in none .. destroy
  BY <1>2, <1>3 DEF WorstInv, TypeOK, Live, none, merge, destroy
<1>5. time' \in -1 .. TimeEnd + LongGain * DsMax
  <2>1. TimeEnd \in Nat /\ LongGain * DsMax \in Nat
    BY ARStepAssumption
  <2> QED
    BY <1>2, <2>1
<1>6. TypeOK'
  BY <1>1, <1>2, <1>3, <1>4, <1>5 DEF TypeOK
<1> QED
  BY <1>1, <1>2, <1>3, <1>4, <1>6 DEF StarInv, TimeInv, WorstInv, Live, Unchanged

LEMMA ModifyStep == IInv /\ Modify => IInv'
<1> SUFFICES ASSUME IInv, Modify PROVE IInv'
  OBVIOUS
<1> USE DEF IInv
<1>1. PICK s \in {change, merge} :
         /\ Event(s) /\ status' = ReturnStatus(status, s)
         /\ fix_step_option' = IF s = merge /\ star'.mass = 2 THEN "later" ELSE fix_step_option
  BY DEF Modify
<1>2. PICK d \in Ds : NewDs(d)
  BY DEF Modify
<1>3. /\ pc = "top" /\ backup_flag /\ option = 1 /\ pc' = "step" /\ backup' = [time |-> time, star |-> star']
      /\ UNCHANGED <<option, backup_flag, time_end_flag, time, ds_switch,
                     step_count, step_count_tsyn, n_step_end, previous>>
  BY DEF Modify, Asks, counts, BackedUp
<1>4. /\ star' \in [mass : 0 .. NParticle, changes : 0 .. MaxEvents]
      /\ star'.changes = events' /\ events' \in 0 .. MaxEvents
      /\ worst' = IF s > worst THEN s ELSE worst
  BY <1>1, <1>3, EventType DEF Live, change, merge, destroy
<1>5. worst' = status' /\ status' \in none .. destroy /\ status' <= merge
  BY <1>1, <1>3, <1>4 DEF WorstInv, TypeOK, Live, ReturnStatus, none, change, merge, destroy
<1>6. /\ info_ds' \in Ds /\ ds_init' \in Ds /\ ds' \in [0 .. 1 -> Ds]
      /\ ds_backup' \in Seq([ds : Ds, wait : Nat]) /\ Len(ds_backup') <= NReduceLevel + 1
  BY <1>2, NewDsType DEF IsManager, Level
<1>7. time < TimeEnd /\ time \in 0 .. TimeEnd
  BY <1>3, ARStepAssumption DEF TimeInv, TypeOK
<1>8. /\ backup'.time \in 0 .. TimeEnd
      /\ backup'.star \in [mass : 0 .. NParticle, changes : 0 .. MaxEvents]
      /\ fix_step_option' \in {"none", "later", "always"}
  BY <1>1, <1>3, <1>4, <1>7 DEF TypeOK
<1>9. TypeOK'
  BY <1>3, <1>4, <1>5, <1>6, <1>8 DEF TypeOK
<1> QED
  BY <1>1, <1>3, <1>4, <1>5, <1>7, <1>9 DEF StarInv, TimeInv, WorstInv, Live, Unchanged

LEMMA BackupStep == IInv /\ Backup => IInv'
<1> SUFFICES ASSUME IInv, Backup PROVE IInv'
  OBVIOUS
<1> USE DEF IInv
<1>1. PICK d \in Ds : IF d = ds_init THEN UNCHANGED <<info_ds, ds_init, ds, ds_backup>> ELSE NewDs(d)
  BY DEF Backup
<1>2. /\ pc = "top" /\ backup_flag /\ pc' = "step" /\ backup' = [time |-> time, star |-> star]
      /\ UNCHANGED <<option, backup_flag, time_end_flag, time, star, ds_switch, fix_step_option,
                     step_count, step_count_tsyn, n_step_end, previous, status, events, worst>>
  BY DEF Backup, counts, BackedUp
<1>3. /\ info_ds' \in Ds /\ ds_init' \in Ds /\ ds' \in [0 .. 1 -> Ds]
      /\ ds_backup' \in Seq([ds : Ds, wait : Nat]) /\ Len(ds_backup') <= NReduceLevel + 1
  BY <1>1, NewDsType DEF IsManager, Level
<1>4. time < TimeEnd /\ time \in 0 .. TimeEnd
  BY <1>2, ARStepAssumption DEF TimeInv, TypeOK
<1>5. TypeOK'
  BY <1>2, <1>3, <1>4 DEF TypeOK
<1> QED
  BY <1>2, <1>4, <1>5 DEF StarInv, TimeInv, WorstInv, Live, Unchanged

LEMMA RestoreStep == IInv /\ Restore => IInv'
<1> SUFFICES ASSUME IInv, Restore PROVE IInv'
  OBVIOUS
<1> USE DEF IInv
<1>1. /\ pc = "top" /\ ~backup_flag /\ pc' = "step" /\ time' = backup.time /\ star' = backup.star
      /\ UNCHANGED <<option, backup_flag, time_end_flag, backup, ds_backup, ds, ds_switch, ds_init,
                     info_ds, fix_step_option, step_count, step_count_tsyn, n_step_end, previous,
                     status, events, worst>>
  BY DEF Restore, steps, counts
<1>2. star' = star
  BY <1>1 DEF StarInv, Unchanged
<1>3. time' \in -1 .. TimeEnd + LongGain * DsMax
  <2>1. TimeEnd \in Nat /\ LongGain * DsMax \in Nat
    BY ARStepAssumption
  <2> QED
    BY <1>1, <2>1 DEF TypeOK
<1>4. TypeOK'
  BY <1>1, <1>2, <1>3 DEF TypeOK
<1> QED
  BY <1>1, <1>2, <1>4 DEF StarInv, TimeInv, WorstInv, Live, Unchanged

-----------------------------------------------------------------------------
(* A step *)

\* The time after a step from the backup, and the steps counted, are in their ranges.
LEMMA StepCounts ==
    ASSUME IInv, pc = "step", ~TooManySteps, NEW dt \in Gains(ds[ds_switch])
    PROVE  /\ ds[ds_switch] \in Ds /\ dt \in Int /\ dt # 0 /\ time \in Int /\ time + dt \in Int
           /\ time + dt \in -1 .. TimeEnd + LongGain * DsMax
           /\ time = backup.time /\ time < TimeEnd
           /\ Upto(step_count + 1, NInitial) \in 0 .. NInitial
           /\ step_count_tsyn + 1 \in 0 .. StepCountMax + 1
           /\ Upto(n_step_end + 1, 2) \in 0 .. 2
<1> USE DEF IInv
<1>1. ds[ds_switch] \in Ds
  BY DEF TypeOK
<1>2. dt \in -1 .. LongGain * DsMax /\ dt # 0
  BY <1>1, GainIsBounded
<1>3. TimeEnd \in Nat /\ LongGain * DsMax \in Nat /\ NInitial \in Nat /\ StepCountMax \in Nat
  BY ARStepAssumption
<1>4. time = backup.time /\ time \in 0 .. TimeEnd /\ time < TimeEnd
  BY <1>3 DEF TimeInv, TypeOK
<1>5. time + dt \in -1 .. TimeEnd + LongGain * DsMax
  BY <1>2, <1>3, <1>4
<1>6. Upto(step_count + 1, NInitial) \in 0 .. NInitial
  BY <1>3 DEF TypeOK, Upto, Lower
<1>7. step_count_tsyn + 1 \in 0 .. StepCountMax + 1
  BY <1>3 DEF TypeOK, TooManySteps
<1>8. Upto(n_step_end + 1, 2) \in 0 .. 2
  BY DEF TypeOK, Upto, Lower
<1> QED
  BY <1>1, <1>2, <1>3, <1>4, <1>5, <1>6, <1>7, <1>8

\* A step that is taken again leaves particles, backup and status alone.
LEMMA RetryStep ==
    ASSUME IInv, pc = "step", ~TooManySteps, NEW dt \in Gains(ds[ds_switch]), NEW err \in 0 .. ErrMax,
           Retry(dt, err), ds' \in [0 .. 1 -> Ds], IsManager(ds_backup')
    PROVE  IInv'
<1> USE DEF IInv
<1>1. /\ time' = time + dt /\ step_count' = Upto(step_count + 1, NInitial) /\ previous' = err
      /\ pc' = "top" /\ ~backup_flag' /\ backup_flag' \in BOOLEAN
      /\ UNCHANGED <<option, time_end_flag, star, backup, ds_switch, ds_init, info_ds, fix_step_option,
                     step_count_tsyn, n_step_end, status, events, worst>>
  BY DEF Retry, Count
<1>2. TypeOK'
  BY <1>1, StepCounts DEF TypeOK, IsManager, Level
<1> QED
  BY <1>1, <1>2 DEF StarInv, TimeInv, WorstInv, Live, Unchanged

\* Both ds become a reduced one.
LEMMA ReducedType ==
    ASSUME TypeOK, NEW f \in Factors
    PROVE  Reduced(f) \in Ds /\ (BothDs(Reduced(f)) => ds' \in [0 .. 1 -> Ds])
<1>1. ds[ds_switch] \in Ds /\ f \in Nat \ {0}
  BY ARStepAssumption DEF TypeOK
<1>2. Reduced(f) \in Ds
  BY <1>1, QuotientIsDs DEF Reduced
<1> QED
  BY <1>2 DEF BothDs

LEMMA ReduceForErrorStep ==
    ASSUME IInv, pc = "step", ~TooManySteps, NEW dt \in Gains(ds[ds_switch]), NEW err \in 0 .. ErrMax,
           ReduceForError(dt, err)
    PROVE  IInv'
<1>1. PICK f \in Factors :
         BothDs(Reduced(f)) /\ (IF IsInitial THEN ResetManager(info_ds) ELSE Record(ds[ds_switch], f))
  BY DEF ReduceForError
<1>2. ds' \in [0 .. 1 -> Ds]
  BY <1>1, ReducedType DEF IInv
<1>3. IsManager(ds_backup) /\ info_ds \in Ds /\ ds[ds_switch] \in Ds
  BY DEF IInv, TypeOK, IsManager, Level
<1>4. IsManager(ds_backup')
  BY <1>1, <1>3, ResetKeepsType, RecordKeepsType
<1> QED
  BY <1>2, <1>4, RetryStep DEF ReduceForError

LEMMA ReduceNegativeStep ==
    ASSUME IInv, pc = "step", ~TooManySteps, NEW dt \in Gains(ds[ds_switch]), NEW err \in 0 .. ErrMax,
           ReduceNegative(dt, err)
    PROVE  IInv'
<1>1. PICK f \in Factors :
         BothDs(Reduced(f)) /\ (IF IsInitial THEN ResetManager(info_ds) ELSE Record(Reduced(f), f))
  BY DEF ReduceNegative
<1>2. ds' \in [0 .. 1 -> Ds] /\ Reduced(f) \in Ds
  BY <1>1, ReducedType DEF IInv
<1>3. IsManager(ds_backup) /\ info_ds \in Ds
  BY DEF IInv, TypeOK, IsManager, Level
<1>4. IsManager(ds_backup')
  BY <1>1, <1>2, <1>3, ResetKeepsType, RecordKeepsType
<1> QED
  BY <1>2, <1>4, RetryStep DEF ReduceNegative

\* The ds of the next step, in each of the three ways it is chosen
LEMMA NextDsType ==
    ASSUME IInv, pc = "step", ~TooManySteps, NEW dt \in Gains(ds[ds_switch]), NEW err \in 0 .. ErrMax,
           NextDsFree(dt, err) \/ NextDsOther \/ NextDsSync(dt)
    PROVE  /\ ds' \in [0 .. 1 -> Ds] /\ info_ds' \in Ds /\ IsManager(ds_backup')
           /\ step_count_tsyn' \in 0 .. StepCountMax + 1 /\ n_step_end' \in 0 .. 2
<1> USE DEF IInv
<1>0. /\ ds \in [0 .. 1 -> Ds] /\ info_ds \in Ds /\ IsManager(ds_backup) /\ 1 - ds_switch \in 0 .. 1
      /\ step_count_tsyn \in 0 .. StepCountMax + 1 /\ n_step_end \in 0 .. 2
  BY DEF TypeOK, IsManager, Level
<1>1. CASE NextDsFree(dt, err)
  <2>1. PICK next \in Ds :
           /\ WaitOrRecover(err, next)
           /\ \/ BothDs(next) /\ UNCHANGED info_ds
              \/ /\ Enlarges(dt, err) /\ Len(ds_backup') = Len(ds_backup)
                 /\ \E d \in next .. DsMax : BothDs(d) /\ info_ds' = d
    BY <1>1 DEF NextDsFree
  <2>2. \A d \in next .. DsMax : d \in Ds
    BY <2>1, ARStepAssumption DEF Ds
  <2>3. ds' \in [0 .. 1 -> Ds] /\ info_ds' \in Ds
    BY <1>0, <2>1, <2>2 DEF BothDs
  <2>4. IsManager(ds_backup')
    BY <2>1, RecoverKeepsType
  <2> QED
    BY <1>0, <1>1, <2>3, <2>4 DEF NextDsFree
<1>2. CASE NextDsOther
  <2>1. ds' \in [0 .. 1 -> Ds]
    BY <1>0, <1>2 DEF NextDsOther, BothDs
  <2> QED
    BY <1>0, <1>2, <2>1 DEF NextDsOther
<1>3. CASE NextDsSync(dt)
  <2>1. /\ step_count_tsyn' \in 0 .. StepCountMax + 1 /\ UNCHANGED <<info_ds, ds_backup>>
    BY <1>3, StepCounts DEF NextDsSync
  <2>2. ds' \in [0 .. 1 -> Ds] /\ n_step_end' \in 0 .. 2
    <3> DEFINE dt_end == TimeEnd - (time + dt)
               slow == n_step_end > 1 /\ 10 * dt < 3 * dt_end
    <3>0. dt \in Int /\ ~(dt < 0 /\ dt >= 0)
      BY StepCounts
    <3>1. CASE dt < 0 /\ ~(dt >= 0)
      <4>1. (\E f \in Factors : BothDs(Reduced(f))) /\ UNCHANGED n_step_end
        BY <1>3, <3>1 DEF NextDsSync
      <4> QED
        BY <1>0, <4>1, ReducedType
    <3>2. CASE dt >= 0 /\ ~(dt < 0) /\ slow
      <4>1. BothDs(Lower((ds[0] * dt_end) \div dt, DsMax)) /\ UNCHANGED n_step_end
        BY <1>3, <3>2 DEF NextDsSync
      <4>2. dt \in Nat \ {0} /\ dt_end \in Int /\ ds[0] \in Ds
        BY <1>0, <3>2, StepCounts, ARStepAssumption
      <4>3. Lower((ds[0] * dt_end) \div dt, DsMax) \in Ds
        BY <3>2, <4>2, StretchedIsDs
      <4> QED
        BY <1>0, <4>1, <4>3 DEF BothDs
    <3>3. CASE dt >= 0 /\ ~(dt < 0) /\ ~slow
      <4>1. UNCHANGED ds /\ n_step_end' = Upto(n_step_end + 1, 2)
        BY <1>3, <3>3 DEF NextDsSync
      <4> QED
        BY <1>0, <4>1, StepCounts
    <3> QED
      BY <3>0, <3>1, <3>2, <3>3
  <2> QED
    BY <1>0, <2>1, <2>2
<1> QED
  BY <1>1, <1>2, <1>3

LEMMA ProceedStep ==
    ASSUME IInv, pc = "step", ~TooManySteps, NEW dt \in Gains(ds[ds_switch]), NEW err \in 0 .. ErrMax,
           Proceed(dt, err)
    PROVE  IInv'
<1> USE DEF IInv
<1>1. /\ ds' \in [0 .. 1 -> Ds] /\ info_ds' \in Ds /\ IsManager(ds_backup')
      /\ step_count_tsyn' \in 0 .. StepCountMax + 1 /\ n_step_end' \in 0 .. 2
  BY NextDsType DEF Proceed
<1>2. /\ time' = time + dt /\ time + dt < TimeEnd /\ step_count' = Upto(step_count + 1, NInitial)
      /\ previous' = None /\ pc' = "top" /\ backup_flag' = (dt > 0) /\ ds_switch' = 1 - ds_switch
      /\ UNCHANGED <<option, time_end_flag, star, backup, ds_init, fix_step_option, status, events, worst>>
  BY DEF Proceed, Forward, Count
<1>3. ds_switch' \in 0 .. 1 /\ backup_flag' \in BOOLEAN
  BY <1>2 DEF TypeOK
<1>4. TypeOK'
  BY <1>1, <1>2, <1>3, StepCounts DEF TypeOK, IsManager, Level
<1>5. ASSUME backup_flag' PROVE time' > backup'.time
  <2>1. dt > 0 /\ dt \in Int /\ time \in Int /\ time = backup.time
    BY <1>2, <1>5, StepCounts
  <2> QED
    BY <1>2, <2>1
<1> QED
  BY <1>2, <1>4, <1>5 DEF StarInv, TimeInv, WorstInv, Live, Unchanged

LEMMA OvershootStep ==
    ASSUME IInv, pc = "step", ~TooManySteps, NEW dt \in Gains(ds[ds_switch]), NEW err \in 0 .. ErrMax,
           Overshoot(dt, err)
    PROVE  IInv'
<1> USE DEF IInv
<1>1. /\ time' = time + dt /\ step_count' = Upto(step_count + 1, NInitial) /\ n_step_end' = 0
      /\ previous' = None /\ pc' = "top" /\ ~backup_flag' /\ backup_flag' \in BOOLEAN
      /\ time_end_flag' = TRUE /\ step_count_tsyn' = step_count_tsyn + 1
      /\ UNCHANGED <<option, star, backup, ds_switch, ds_init, info_ds, fix_step_option, ds_backup,
                     status, events, worst>>
  BY DEF Overshoot, TsynAfterOvershoot, Count
<1>2. PICK a \in 1 .. ds[ds_switch], b \in 1 .. ds[ds_switch] :
         ds' = [i \in 0 .. 1 |-> IF i = ds_switch THEN a ELSE b]
  BY DEF Overshoot
<1>3. a \in Ds /\ b \in Ds
  BY StepCounts, ARStepAssumption DEF Ds
<1>4. ds' \in [0 .. 1 -> Ds]
  BY <1>2, <1>3
<1>5. TypeOK'
  BY <1>1, <1>4, StepCounts DEF TypeOK
<1> QED
  BY <1>1, <1>5 DEF StarInv, TimeInv, WorstInv, Live, Unchanged

LEMMA FinishStep ==
    ASSUME IInv, pc = "step", ~TooManySteps, NEW dt \in Gains(ds[ds_switch]), NEW err \in 0 .. ErrMax,
           Finish(dt, err)
    PROVE  IInv'
<1> USE DEF IInv
<1>1. /\ time' = time + dt /\ step_count' = Upto(step_count + 1, NInitial)
      /\ previous' = None /\ pc' = "returned"
      /\ UNCHANGED <<option, backup_flag, time_end_flag, star, backup, ds, ds_switch, ds_init, info_ds,
                     fix_step_option, ds_backup, step_count_tsyn, n_step_end, status, events, worst>>
  BY DEF Finish, Count, steps
<1>2. TypeOK'
  BY <1>1, StepCounts DEF TypeOK
<1> QED
  BY <1>1, <1>2 DEF StarInv, TimeInv, WorstInv, Live, Unchanged

LEMMA AbortStep == IInv /\ Abort => IInv'
<1> SUFFICES ASSUME IInv, Abort PROVE IInv'
  OBVIOUS
<1> USE DEF IInv
<1>1. /\ pc' = "aborted"
      /\ UNCHANGED <<option, backup_flag, time_end_flag, time, star, backup, ds_backup, ds, ds_switch,
                     ds_init, info_ds, fix_step_option, step_count, step_count_tsyn, n_step_end, previous,
                     status, events, worst>>
  BY DEF Abort, state, steps, counts
<1>2. TypeOK'
  BY <1>1 DEF TypeOK
<1> QED
  BY <1>1, <1>2 DEF StarInv, TimeInv, WorstInv, Live, Unchanged

-----------------------------------------------------------------------------
(* Invariance *)

LEMMA StepInv == IInv /\ [Next]_vars => IInv'
<1> SUFFICES ASSUME IInv, [Next]_vars PROVE IInv'
  OBVIOUS
<1>1. CASE Step
  <2>1. pc = "step" /\ ~TooManySteps
    BY <1>1 DEF Step
  <2>2. PICK dt \in Gains(ds[ds_switch]), err \in 0 .. ErrMax :
           \/ ReduceForError(dt, err) \/ ReduceNegative(dt, err)
           \/ Proceed(dt, err) \/ Overshoot(dt, err) \/ Finish(dt, err)
    BY <1>1 DEF Step
  <2> QED
    BY <2>1, <2>2, ReduceForErrorStep, ReduceNegativeStep, ProceedStep, OvershootStep, FinishStep
<1>2. CASE UNCHANGED vars
  BY <1>2 DEF vars, control, state, steps, counts, IInv, TypeOK, StarInv, TimeInv, WorstInv, Live,
     Unchanged
<1> QED
  BY <1>1, <1>2, ReturnInterruptedStep, ReturnLastStep, ModifyStep, BackupStep, RestoreStep,
     AbortStep
     DEF Next

LEMMA Invariance == Spec => []IInv
<1>1. Init => IInv
  BY InitInv
<1>2. IInv /\ [Next]_vars => IInv'
  BY StepInv
<1> QED
  BY <1>1, <1>2, PTL DEF Spec

\* All variables keep their types: steps stay positive and bounded, the DsBackupManager within its
\* levels, the counter that ends the loop within its limit.
THEOREM TypeCorrect == Spec => []TypeOK
BY Invariance, PTL DEF IInv

\* What stellar evolution does to the particles is in them exactly once, however often a step is
\* taken back and made again (backupIntData after modifyAndInterruptIter, restoreIntData).
THEOREM EventsSurvive == Spec => []ModificationsKept
<1>1. IInv => ModificationsKept
  BY DEF IInv, StarInv, ModificationsKept, Unchanged
<1> QED
  BY <1>1, Invariance, PTL

\* The returned status is the worst that happened on the way (bin_interrupt_return).
THEOREM WorstIsReported == Spec => []ReportsWorst
<1>1. IInv => ReportsWorst
  BY DEF IInv, WorstInv, ReportsWorst
<1> QED
  BY <1>1, Invariance, PTL

\* The backup is replaced only by a later one, or by the same time after an event, and always by
\* one before the end: retries make no progress undone.
THEOREM BackupsOnlyAdvance == Spec => BackupsAdvance
<1>1. IInv /\ [Next]_vars =>
         [backup' # backup => /\ backup'.time > backup.time \/ events' # events
                              /\ backup'.time < TimeEnd]_vars
  <2> SUFFICES ASSUME IInv, Next, backup' # backup
               PROVE  (backup'.time > backup.time \/ events' # events) /\ backup'.time < TimeEnd
    OBVIOUS
  <2>1. Modify \/ Backup
    BY DEF Next, ReturnInterrupted, ReturnLast, Restore, Step, ReduceForError, ReduceNegative,
       Retry, Proceed,
           Overshoot, Finish, Abort, state
  <2>2. CASE Modify
    <3>1. events' = events + 1 /\ backup'.time = time /\ time < TimeEnd
      BY <2>2 DEF Modify, Event, BackedUp, Asks, IInv, TimeInv
    <3> QED
      BY <3>1 DEF IInv, TypeOK
  <2>3. CASE Backup
    BY <2>3 DEF Backup, BackedUp, IInv, TimeInv
  <2> QED
    BY <2>1, <2>2, <2>3
<1> QED
  BY <1>1, Invariance, PTL DEF Spec, BackupsAdvance
=============================================================================
