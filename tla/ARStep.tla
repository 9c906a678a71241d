------------------------------- MODULE ARStep -------------------------------
(***************************************************************************)
(* integrateToTime of the AR integrator, as built for PeTar (time          *)
(* transformed, slow-down): one group of particles goes to a given time.   *)
(*                                                                         *)
(* Before a step the state is backed up, after asking for stellar events,  *)
(* or restored.  A step that fails (large error, negative time) is made    *)
(* again with a smaller ds; reductions past the first steps are kept in a  *)
(* DsBackupManager and undone later.  A step beyond the end is made again  *)
(* with ds taken from the time table.  The next two steps use ds[ds_switch]*)
(* and ds[1 - ds_switch].                                                  *)
(*                                                                         *)
(* What a step yields is open: a time (negative only for a large ds), and  *)
(* an error, counted in powers of two above the limit.                     *)
(***************************************************************************)
EXTENDS Integers, Sequences, SequencesExt

CONSTANTS
    TimeEnd,         \* _time_end; the integration starts at 0
    DsMax,           \* steps are 1 .. DsMax
    LongGain,        \* longest time of a unit of ds
    ErrMax,          \* errors are 0 (below the limit) .. ErrMax
    Factors,         \* by which ds is divided; a regular step factor is a power of two
    NInitial,        \* 5: steps in which a reduction is not temporary
    NReduceLevel,    \* n_reduce_level_max
    SmallStep,       \* max(100, 0.02 step_count_max): a step is small below this part of TimeEnd
    StepCountMax,    \* manager->step_count_max
    MaxEvents,       \* bound on stellar events
    Options          \* interrupt_detection_option

ASSUME ARStepAssumption ==
    /\ TimeEnd \in Nat \ {0} /\ DsMax \in Nat \ {0} /\ ErrMax \in Nat /\ LongGain \in Nat \ {0}
    /\ Factors \subseteq Nat \ {0, 1} /\ Factors # {}
    /\ NInitial \in Nat /\ NReduceLevel \in Nat /\ StepCountMax \in Nat /\ SmallStep \in Nat /\ MaxEvents \in Nat
    /\ Options \subseteq {0, 1, 2}

\* InterruptStatus, from none to the worst
none == 0
change == 1
merge == 2
destroy == 3

VARIABLES
    pc,        \* "top" of the loop, "step", "returned", "aborted"
    option,    \* interrupt_detection_option
    time,      \* time_
    star,      \* the particles: number with a mass, modifications they show
    backup,    \* time and particles backed up
    backup_flag, time_end_flag,
    ds, ds_switch, ds_init, info_ds, fix_step_option,
    ds_backup,  \* DsBackupManager: levels 0 .. n_reduce_level, each a ds and the steps to wait
    step_count, step_count_tsyn, n_step_end,
    previous,  \* error when ds was last reduced, if it was in the last step; or None
    status,    \* of bin_interrupt_return; at the end, what is returned
    events, worst  \* history: stellar events so far, the worst of them

control == <<pc, option, backup_flag, time_end_flag>>
state == <<time, star, backup>>
steps == <<ds, ds_switch, ds_init, info_ds, fix_step_option>>
counts == <<step_count, step_count_tsyn, n_step_end>>
vars == <<control, state, ds_backup, steps, counts, previous, status, events, worst>>

None == -1
Ds == 1 .. DsMax
NParticle == 3

TypeOK ==
    /\ pc \in {"top", "step", "returned", "aborted"} /\ option \in Options
    /\ time \in -1 .. TimeEnd + LongGain * DsMax
    /\ star \in [mass : 0 .. NParticle, changes : 0 .. MaxEvents]
    /\ backup.time \in 0 .. TimeEnd /\ backup.star \in [mass : 0 .. NParticle, changes : 0 .. MaxEvents]
    /\ backup_flag \in BOOLEAN /\ time_end_flag \in BOOLEAN
    /\ ds \in [0 .. 1 -> Ds] /\ ds_switch \in 0 .. 1 /\ ds_init \in Ds /\ info_ds \in Ds
    /\ fix_step_option \in {"none", "later", "always"}
    /\ ds_backup \in Seq([ds : Ds, wait : Nat]) /\ Len(ds_backup) <= NReduceLevel + 1
    /\ step_count \in 0 .. NInitial /\ step_count_tsyn \in 0 .. StepCountMax + 1
    /\ n_step_end \in 0 .. 2 /\ previous \in 0 .. ErrMax \cup {None}
    /\ status \in none .. destroy /\ worst \in none .. destroy /\ events \in 0 .. MaxEvents

Init ==
    /\ pc = "top" /\ option \in Options
    /\ time = 0 /\ star = [mass |-> NParticle, changes |-> 0]
    /\ backup = [time |-> 0, star |-> star]
    /\ backup_flag = TRUE /\ time_end_flag = FALSE
    /\ info_ds \in Ds /\ ds = [i \in 0 .. 1 |-> info_ds] /\ ds_switch = 0 /\ ds_init = info_ds
    /\ fix_step_option \in {"none", "later", "always"}
    /\ ds_backup = <<>>
    /\ step_count = 0 /\ step_count_tsyn = 0 /\ n_step_end = 0
    /\ previous = None /\ status = none /\ events = 0 /\ worst = none

Lower(a, b) == IF a < b THEN a ELSE b
Upto(n, bound) == Lower(n, bound)

-----------------------------------------------------------------------------
(* DsBackupManager: what is above n_reduce_level is written before it is read. *)

n_reduce_level == Len(ds_backup) - 1
Top == Last(ds_backup)

\* initial(d): all levels but the last possible one, whose place it skips; they stay open.
ResetManager(d) ==
    ds_backup' = [l \in DOMAIN ds_backup |->
                      IF l <= NReduceLevel THEN [ds |-> d, wait |-> 0] ELSE ds_backup[l]]

\* Wrong: at the last level too, a new one is opened.
OpensLevel == TRUE
\* n_reduce_level != n_reduce_level_max
OpensNext == n_reduce_level # NReduceLevel

\* backup(d, 1 / factor)
Record(d, factor) ==
    ds_backup' = IF OpensNext
                 THEN Append(ds_backup, [ds |-> d, wait |-> 2 * factor])
                 ELSE [ds_backup EXCEPT ![Len(ds_backup)].wait = @ + 2 * factor]

Waiting == n_reduce_level >= 0 /\ Top.wait # 0
Recovers == n_reduce_level >= 0 /\ Top.wait = 0

-----------------------------------------------------------------------------
(* Top of the loop: events, backup, restore *)

\* Wrong: the state from before the events is kept for retries.
BackedUpBefore == [time |-> time, star |-> star]
\* backupIntData, after the events
BackedUp == [time |-> time, star |-> star']

\* A new ds of the binary tree changes the steps, downwards, or not at all.
NewDs(d) ==
    IF d # ds_init
    THEN /\ info_ds' = d /\ ds_init' = d
         /\ ds' = [i \in 0 .. 1 |-> Lower(ds[i], d)]
         /\ ResetManager(d)
    ELSE /\ info_ds' = d
         /\ UNCHANGED <<ds_init, ds, ds_backup>>

\* How many particles may have a mass after event s.  A change can take the mass
\* of singles of the tree, not of its innermost pair; a merger takes one or more,
\* all of them when the remnant vanishes too.
MassLeft(s) ==
    {m \in 0 .. star.mass : CASE s = change  -> m > 1 \/ m = star.mass
                              [] s = merge   -> m < star.mass \/ m = 0
                              [] s = destroy -> m = 0}

\* What modifyAndInterruptIter may do to the particles
Event(s) ==
    /\ events < MaxEvents /\ events' = events + 1
    /\ worst' = IF s > worst THEN s ELSE worst
    /\ \E m \in MassLeft(s) : star' = [mass |-> m, changes |-> star.changes + 1]

Asks == pc = "top" /\ backup_flag /\ option > 0 /\ ~time_end_flag

\* Option 2 returns to the caller at once.
ReturnInterrupted ==
    /\ Asks /\ option = 2
    /\ \E s \in change .. destroy : Event(s) /\ status' = s
    /\ pc' = "returned"
    /\ UNCHANGED <<option, backup_flag, time_end_flag, time, backup, ds_backup, steps, counts, previous>>

\* Destroyed, or with one particle left by a merger, there is nothing to integrate.
ReturnLast ==
    /\ Asks /\ option = 1
    /\ \E s \in {merge, destroy} : Event(s) /\ status' = s /\ (s = merge => star'.mass = 1)
    /\ time' = TimeEnd
    /\ pc' = "returned"
    /\ UNCHANGED <<option, backup_flag, time_end_flag, backup, ds_backup, steps, counts, previous>>

\* Wrong: the last event is what is returned.
LastStatus(old, s) == s
\* The first one, or a merger if there has been one
ReturnStatus(old, s) == IF old = none \/ s = merge THEN s ELSE old

\* The others are gone on with, a merger that leaves no mass at all among them:
\* only a count of one is tested for.
Modify ==
    /\ Asks /\ option = 1
    /\ \E s \in {change, merge} :
          /\ Event(s) /\ status' = ReturnStatus(status, s)
          /\ s = merge => star'.mass # 1
          /\ fix_step_option' = IF s = merge /\ star'.mass = 2 THEN "later" ELSE fix_step_option
    /\ \E d \in Ds : NewDs(d)
    /\ backup' = BackedUp
    /\ pc' = "step"
    /\ UNCHANGED <<option, backup_flag, time_end_flag, time, ds_switch, counts, previous>>

\* No event; the orbit may have changed the step.
Backup ==
    /\ pc = "top" /\ backup_flag
    /\ \E d \in Ds :
          /\ time_end_flag => d = ds_init
          /\ IF d = ds_init THEN UNCHANGED <<info_ds, ds_init, ds, ds_backup>> ELSE NewDs(d)
    /\ UNCHANGED star /\ backup' = BackedUp
    /\ pc' = "step"
    /\ UNCHANGED <<option, backup_flag, time_end_flag, time, ds_switch, fix_step_option, counts,
                   previous, status, events, worst>>

Restore ==
    /\ pc = "top" /\ ~backup_flag
    /\ time' = backup.time /\ star' = backup.star
    /\ pc' = "step"
    /\ UNCHANGED <<option, backup_flag, time_end_flag, backup, ds_backup, steps, counts, previous,
                   status, events, worst>>

-----------------------------------------------------------------------------
(* One step, and what becomes of it *)

\* dt: a unit of ds is short or long in time, and all but the smallest may go back.
Gains(d) == {d, LongGain * d} \cup (IF d > 1 THEN {-1} ELSE {})

\* step_count is counted up to NInitial only: it is compared with NInitial.
Count == step_count' = Upto(step_count + 1, NInitial)
\* step_count < 5, after this step has been counted
IsInitial == step_count + 1 < NInitial

Reduced(f) == IF ds[ds_switch] \div f < 1 THEN 1 ELSE ds[ds_switch] \div f
BothDs(d) == ds' = [i \in 0 .. 1 |-> d]

TooManySteps == step_count_tsyn > StepCountMax

\* check_flag: in a row of reductions, only if the error is twice that of the last
Checked(err) == previous = None \/ err > previous

LargeError(err) == err > 0 /\ fix_step_option # "always" /\ Checked(err)
ReducesForError(err) == LargeError(err) /\ (IsInitial \/ fix_step_option = "none")

Retry(dt, err) ==
    /\ time' = time + dt /\ Count
    /\ backup_flag' = FALSE /\ pc' = "top"
    /\ previous' = err
    /\ UNCHANGED <<option, time_end_flag, star, backup, ds_switch, ds_init, info_ds, fix_step_option,
                   step_count_tsyn, n_step_end, status, events, worst>>

\* "modify step if energy error is large"
ReduceForError(dt, err) ==
    /\ ReducesForError(err)
    /\ \E f \in Factors :
          /\ BothDs(Reduced(f))
          /\ IF IsInitial THEN ResetManager(info_ds) ELSE Record(ds[ds_switch], f)
    /\ Retry(dt, err)

\* "if negative step, reduce step size"
ReduceNegative(dt, err) ==
    /\ ~ReducesForError(err)
    /\ ~time_end_flag /\ dt < 0
    /\ \E f \in Factors :
          /\ BothDs(Reduced(f))
          /\ IF IsInitial THEN ResetManager(info_ds) ELSE Record(Reduced(f), f)
    /\ Retry(dt, err)

Stands(dt, err) == ~ReducesForError(err) /\ (time_end_flag \/ dt >= 0)

\* Wrong: a step back in time is taken for one to go on from.
AlwaysForward(dt) == TRUE
\* dt > 0
Forward(dt) == dt > 0

\* countAndRecover on the next ds: waits, recovers after a good step, or leaves it
WaitOrRecover(err, next) ==
    \/ /\ Waiting
       /\ ds_backup' = [ds_backup EXCEPT ![Len(ds_backup)].wait = @ - 1]
       /\ next = ds[1 - ds_switch]
    \/ /\ Recovers /\ err = 0
       /\ ds_backup' = Front(ds_backup) /\ next = Top.ds
    \/ /\ ~Waiting  \* nothing to recover, or the error is too large for it
       /\ next = ds[1 - ds_switch]
       /\ UNCHANGED ds_backup

\* A good step far too small for the way to go makes the next larger.
Enlarges(dt, err) == err = 0 /\ dt > 0 /\ SmallStep * dt < TimeEnd

\* ds of the next step while the end has not been passed
NextDsFree(dt, err) ==
    /\ ~time_end_flag /\ fix_step_option = "none"
    /\ \E next \in Ds :
          /\ WaitOrRecover(err, next)
          /\ \/ BothDs(next) /\ UNCHANGED info_ds
             \/ /\ Enlarges(dt, err) /\ Len(ds_backup') = Len(ds_backup)
                /\ \E d \in next .. DsMax : BothDs(d) /\ info_ds' = d
    /\ UNCHANGED <<step_count_tsyn, n_step_end>>

\* The second of two steps to the end, or of steps that are all fixed
NextDsOther ==
    /\ time_end_flag \/ fix_step_option # "none"
    /\ ~(time_end_flag /\ ds[0] = ds[1])
    /\ BothDs(ds[1 - ds_switch])
    /\ UNCHANGED <<info_ds, ds_backup, step_count_tsyn, n_step_end>>

\* "when step size too small to reach time end, increase step size"
NextDsSync(dt) ==
    /\ time_end_flag /\ ds[0] = ds[1]
    /\ step_count_tsyn' = step_count_tsyn + 1
    /\ LET dt_end == TimeEnd - (time + dt)
           slow == n_step_end > 1 /\ 10 * dt < 3 * dt_end
       IN  CASE dt < 0 -> (\E f \in Factors : BothDs(Reduced(f))) /\ UNCHANGED n_step_end
             [] dt >= 0 /\ slow -> BothDs(Lower((ds[0] * dt_end) \div dt, DsMax)) /\ UNCHANGED n_step_end
             [] dt >= 0 /\ ~slow -> UNCHANGED ds /\ n_step_end' = Upto(n_step_end + 1, 2)
    /\ UNCHANGED <<info_ds, ds_backup>>

\* The end is not reached: on with the next step.
Proceed(dt, err) ==
    /\ Stands(dt, err) /\ time + dt < TimeEnd
    /\ NextDsFree(dt, err) \/ NextDsOther \/ NextDsSync(dt)
    /\ ds_switch' = 1 - ds_switch
    /\ backup_flag' = Forward(dt)
    /\ time' = time + dt /\ Count /\ previous' = None /\ pc' = "top"
    /\ UNCHANGED <<option, time_end_flag, star, backup, ds_init, fix_step_option, status, events, worst>>

\* Wrong: only the steps of a round in which both ds are equal are counted.
TsynOfEqual == step_count_tsyn
\* step_count_tsyn++
TsynAfterOvershoot == step_count_tsyn + 1

\* The end is passed: again, with the two ds of the time table, none larger.
Overshoot(dt, err) ==
    /\ Stands(dt, err) /\ time + dt > TimeEnd
    /\ \E a, b \in 1 .. ds[ds_switch] : ds' = [i \in 0 .. 1 |-> IF i = ds_switch THEN a ELSE b]
    /\ time_end_flag' = TRUE /\ backup_flag' = FALSE
    /\ step_count_tsyn' = TsynAfterOvershoot /\ n_step_end' = 0
    /\ time' = time + dt /\ Count /\ previous' = None /\ pc' = "top"
    /\ UNCHANGED <<option, star, backup, ds_switch, ds_init, info_ds, fix_step_option, ds_backup,
                   status, events, worst>>

Finish(dt, err) ==
    /\ Stands(dt, err) /\ time + dt = TimeEnd
    /\ time' = time + dt /\ Count /\ previous' = None /\ pc' = "returned"
    /\ UNCHANGED <<option, backup_flag, time_end_flag, star, backup, steps, ds_backup,
                   step_count_tsyn, n_step_end, status, events, worst>>

Abort ==
    /\ pc = "step" /\ TooManySteps
    /\ pc' = "aborted"
    /\ UNCHANGED <<option, backup_flag, time_end_flag, state, ds_backup, steps, counts, previous,
                   status, events, worst>>

\* integrateOneStep and the checks after it
Step ==
    /\ pc = "step" /\ ~TooManySteps
    /\ \E dt \in Gains(ds[ds_switch]), err \in 0 .. ErrMax :
          \/ ReduceForError(dt, err) \/ ReduceNegative(dt, err)
          \/ Proceed(dt, err) \/ Overshoot(dt, err) \/ Finish(dt, err)

Next ==
    \/ ReturnInterrupted \/ ReturnLast \/ Modify \/ Backup \/ Restore
    \/ Step \/ Abort

Spec == Init /\ [][Next]_vars

\* One thread in one loop; the errors of steps are as adverse as they can be.
FairSpec == Spec /\ WF_vars(Next)

-----------------------------------------------------------------------------
(* Properties *)

\* What stellar evolution has done to the particles is in them once, however often steps
\* are taken back (backup after modifyAndInterruptIter, restoreIntData).
ModificationsKept ==
    /\ star.changes = events
    /\ pc = "step" => backup.star = star

\* A caller that goes on over several events is told of the worst of them.
ReportsWorst == pc = "returned" => status = worst

\* Backups, from which steps are taken again, advance in time and never past the end.
BackupsAdvance ==
    [][backup' # backup => /\ backup'.time > backup.time \/ events' # events
                           /\ backup'.time < TimeEnd]_vars

\* The integration ends at the asked time, with an event for the caller, or gives up.
Returns == <>(\/ pc = "returned" /\ (time = TimeEnd \/ status # none)
              \/ pc = "aborted")
=============================================================================
