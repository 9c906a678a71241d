---------------------------- MODULE HardDispatch ----------------------------
(***************************************************************************)
(* SystemHard::driveForMultiClusterOMP and                                 *)
(* finishIntegrateInterruptClustersOMP: OpenMP threads take the clusters   *)
(* of a rank in turn and integrate each with an integrator of their own.   *)
(* A thread whose cluster is interrupted leaves the integrator as it is    *)
(* and goes on with a fresh one from the pool hard_int_; the interrupted   *)
(* ones are listed after the loop and continued by later calls.            *)
(***************************************************************************)
EXTENDS Integers, Sequences, FiniteSets

CONSTANTS
    NCluster,   \* clusters of the rank
    NThread,    \* num_thread
    NHardInt,   \* n_interrupt_limit
    Dts,        \* lengths of a drift
    MaxInterrupts, MaxTime  \* bounds of a run

ASSUME HardDispatchAssumption ==
    /\ NCluster \in Nat /\ NThread \in Nat \ {0} /\ NHardInt \in Nat \ {0}
    /\ Dts \subseteq Nat \ {0}
    /\ MaxInterrupts \in Nat /\ MaxTime \in Nat

Cluster == 1 .. NCluster
Thread == 0 .. NThread - 1
n_hard_int_max == NHardInt + NThread
\* Integrators are numbered from 0.
None == -1

VARIABLES
    pc,      \* "idle" between calls; "drive", "finish": in a parallel loop;
             \* "compact": after it; "stopped": an assertion has failed
    dt, interrupt_dt, time_origin,
    next,    \* the next iteration of the loop
    at,      \* what each thread does
    work,    \* the cluster it works on
    hard_int_thread,      \* the integrator of each thread
    hard_int_front_ptr,   \* the next fresh integrator
    integrator,  \* the one initialized for each cluster, or None
    interrupted, \* clusters whose integrator has a status other than none
    interrupt_list,
    reached,     \* time of the particles of each cluster
    energy, sum, \* SystemHard::energy, and what a thread has read of it
    finished,    \* history: how many integrators were added to it
    interrupts   \* history: interruptions so far

clock == <<dt, interrupt_dt, time_origin>>
threads == <<next, at, work, hard_int_thread>>
pool == <<hard_int_front_ptr, integrator, interrupted, interrupt_list>>
sums == <<energy, sum, finished>>
vars == <<pc, clock, threads, pool, reached, sums, interrupts>>

TypeOK ==
    /\ pc \in {"idle", "drive", "finish", "compact", "stopped"}
    /\ dt \in Nat /\ interrupt_dt \in Nat /\ time_origin \in Nat
    /\ next \in Nat \ {0}
    /\ at \in [Thread -> {"free", "integrate", "take", "check", "read", "add"}]
    /\ work \in [Thread -> Cluster \cup {0}]
    /\ hard_int_thread \in [Thread -> Nat]
    /\ hard_int_front_ptr \in Nat
    /\ integrator \in [Cluster -> Nat \cup {None}]
    /\ interrupted \subseteq Cluster
    /\ interrupt_list \in Seq(Nat)
    /\ reached \in [Cluster -> Nat]
    /\ energy \in Nat /\ sum \in [Thread -> Nat] /\ finished \in Nat /\ interrupts \in Nat

Init ==
    /\ pc = "idle"
    /\ dt = 0 /\ interrupt_dt = 0 /\ time_origin = 0
    /\ next = 1
    /\ at = [t \in Thread |-> "free"] /\ work = [t \in Thread |-> 0]
    /\ hard_int_thread = [t \in Thread |-> t]
    /\ hard_int_front_ptr = NThread
    /\ integrator = [c \in Cluster |-> None]
    /\ interrupted = {} /\ interrupt_list = <<>>
    /\ reached = [c \in Cluster |-> 0]
    /\ energy = 0 /\ sum = [t \in Thread |-> 0] /\ finished = 0 /\ interrupts = 0

Initialized == {integrator[c] : c \in Cluster} \ {None}
AllFree == \A t \in Thread : at[t] = "free"
Goes(t, from, to) == pc # "stopped" /\ at[t] = from /\ at' = [at EXCEPT ![t] = to]

-----------------------------------------------------------------------------
(* The threads *)

\* A new drift: the first integrators belong to the threads.
Drive ==
    /\ pc = "idle" /\ interrupt_list = <<>>
    /\ \E d \in Dts : time_origin + d <= MaxTime /\ dt' = d
    /\ pc' = "drive" /\ next' = 1
    /\ hard_int_thread' = [t \in Thread |-> t]
    /\ hard_int_front_ptr' = NThread
    /\ UNCHANGED <<interrupt_dt, time_origin, at, work, integrator, interrupted, interrupt_list,
                   reached, sums, interrupts>>

\* A thread takes the next cluster (schedule(dynamic)) and initializes its integrator.
TakeCluster(t) ==
    /\ pc = "drive" /\ next <= NCluster
    /\ Goes(t, "free", "integrate")
    /\ work' = [work EXCEPT ![t] = next]
    /\ integrator' = [integrator EXCEPT ![next] = hard_int_thread[t]]
    /\ next' = next + 1
    /\ UNCHANGED <<pc, clock, hard_int_thread, hard_int_front_ptr, interrupted, interrupt_list,
                   reached, sums, interrupts>>

\* A thread takes the next interrupted cluster.
TakeInterrupted(t) ==
    /\ pc = "finish" /\ next <= Len(interrupt_list)
    /\ Goes(t, "free", "integrate")
    /\ hard_int_thread' = [hard_int_thread EXCEPT ![t] = interrupt_list[next]]
    /\ \E c \in Cluster :
          /\ integrator[c] = interrupt_list[next]
          /\ work' = [work EXCEPT ![t] = c]
    /\ next' = next + 1
    /\ UNCHANGED <<pc, clock, pool, reached, sums, interrupts>>

\* integrateToTime returns with an interruption.
Interrupt(t) ==
    /\ interrupts < MaxInterrupts
    /\ Goes(t, "integrate", IF pc = "drive" THEN "take" ELSE "free")
    /\ interrupted' = interrupted \cup {work[t]}
    /\ interrupts' = interrupts + 1
    /\ UNCHANGED <<pc, clock, next, work, hard_int_thread, hard_int_front_ptr, integrator,
                   interrupt_list, reached, sums>>

\* Wrong: the integrator is found before the pointer has moved.
Unmoved(k) == k
\* hard_int_front_ptr++
Moved(k) == k + 1

\* omp atomic capture
TakeIntegrator(t) ==
    /\ Goes(t, "take", "check")
    /\ hard_int_thread' = [hard_int_thread EXCEPT ![t] = hard_int_front_ptr]
    /\ hard_int_front_ptr' = Moved(hard_int_front_ptr)
    /\ UNCHANGED <<pc, clock, next, work, integrator, interrupted, interrupt_list, reached, sums,
                   interrupts>>

\* assert(hard_int_thread[ith] != &hard_int_[n_hard_int_max_])
CheckPool(t) ==
    /\ Goes(t, "check", "free")
    /\ pc' = IF hard_int_thread[t] = n_hard_int_max THEN "stopped" ELSE pc
    /\ UNCHANGED <<clock, next, work, hard_int_thread, pool, reached, sums, interrupts>>

\* The time integrateToTime goes to
TimeEnd == time_origin + (IF pc = "drive" THEN dt ELSE interrupt_dt)

\* integrateToTime reaches the end, and the particles are written back.
Integrate(t) ==
    /\ Goes(t, "integrate", "read")
    /\ interrupted' = interrupted \ {work[t]}
    /\ reached' = [reached EXCEPT ![work[t]] = TimeEnd]
    /\ UNCHANGED <<pc, clock, next, work, hard_int_thread, hard_int_front_ptr, integrator,
                   interrupt_list, sums, interrupts>>

\* energy += ..., without a lock, in two steps; then clear
ReadEnergy(t) ==
    /\ Goes(t, "read", "add")
    /\ sum' = [sum EXCEPT ![t] = energy]
    /\ UNCHANGED <<pc, clock, next, work, hard_int_thread, pool, reached, energy, finished, interrupts>>

AddEnergy(t) ==
    /\ Goes(t, "add", "free")
    /\ energy' = sum[t] + 1
    /\ finished' = finished + 1
    /\ integrator' = [integrator EXCEPT ![work[t]] = None]
    /\ UNCHANGED <<pc, clock, next, work, hard_int_thread, hard_int_front_ptr, interrupted,
                   interrupt_list, reached, sum, interrupts>>

ThreadStep(t) ==
    \/ TakeCluster(t)
    \/ TakeInterrupted(t)
    \/ Interrupt(t)
    \/ TakeIntegrator(t)
    \/ CheckPool(t)
    \/ Integrate(t)
    \/ ReadEnergy(t)
    \/ AddEnergy(t)

-----------------------------------------------------------------------------
(* After the loops *)

\* Wrong: only the integrators the threads started with are looked at.
SearchedFirst == 0 .. NThread - 1
\* hard_int_ up to hard_int_front_ptr
Searched == 0 .. hard_int_front_ptr - 1

IsAscending(s) == \A i, j \in DOMAIN s : i < j => s[i] < s[j]

\* Wrong: the time advances with every call.
OriginAnyway(list, d) == time_origin + d
\* "advance time_origin if all clusters finished"
OriginAfter(list, d) == IF list = <<>> THEN time_origin + d ELSE time_origin

\* "regist interrupted hard integrator"
RegisterInterrupted ==
    /\ pc = "drive" /\ next > NCluster /\ AllFree
    /\ LET S == Initialized \cap Searched
       IN  \E s \in [1 .. Cardinality(S) -> S] :
              IsAscending(s) /\ {s[i] : i \in DOMAIN s} = S /\ interrupt_list' = s
    /\ time_origin' = OriginAfter(interrupt_list', dt)
    /\ interrupt_dt' = IF interrupt_list' = <<>> THEN interrupt_dt ELSE dt
    /\ pc' = "idle"
    /\ UNCHANGED <<dt, threads, hard_int_front_ptr, integrator, interrupted, reached, sums, interrupts>>

\* finishIntegrateInterruptClustersOMP is called.
Finish ==
    /\ pc = "idle" /\ interrupt_list # <<>>
    /\ pc' = "finish" /\ next' = 1
    /\ UNCHANGED <<clock, at, work, hard_int_thread, pool, reached, sums, interrupts>>

BeginCompact ==
    /\ pc = "finish" /\ next > Len(interrupt_list) /\ AllFree
    /\ pc' = "compact" /\ next' = 1
    /\ UNCHANGED <<clock, at, work, hard_int_thread, pool, reached, sums, interrupts>>

HasStatus(k) == \E c \in interrupted : integrator[c] = k

\* The last entry takes the place of entry next.
Swapped(s, i) == SubSeq([s EXCEPT ![i] = s[Len(s)]], 1, Len(s) - 1)

\* Wrong: goes on after a swap, past the entry that was swapped in.
AlwaysNext(k) == k + 1
\* i_front++ only for an entry that stays
AfterEntry(k) == IF HasStatus(interrupt_list[k]) THEN k + 1 ELSE k

\* One iteration of "record new interrupt list"; next is i_front.
Compact ==
    /\ pc = "compact" /\ next <= Len(interrupt_list)
    /\ interrupt_list' = IF HasStatus(interrupt_list[next]) THEN interrupt_list
                         ELSE Swapped(interrupt_list, next)
    /\ next' = AfterEntry(next)
    /\ UNCHANGED <<pc, clock, at, work, hard_int_thread, hard_int_front_ptr, integrator, interrupted,
                   reached, sums, interrupts>>

EndFinish ==
    /\ pc = "compact" /\ next > Len(interrupt_list)
    /\ time_origin' = OriginAfter(interrupt_list, interrupt_dt)
    /\ pc' = "idle"
    /\ UNCHANGED <<dt, interrupt_dt, threads, pool, reached, sums, interrupts>>

Next ==
    \/ Drive
    \/ \E t \in Thread : ThreadStep(t)
    \/ RegisterInterrupted
    \/ Finish
    \/ BeginCompact
    \/ Compact
    \/ EndFinish

\* Threads and the code after a loop go on; the caller need not call again.
Fairness ==
    /\ \A t \in Thread : WF_vars(ThreadStep(t))
    /\ WF_vars(RegisterInterrupted \/ BeginCompact \/ Compact \/ EndFinish)

Spec == Init /\ [][Next]_vars
FairSpec == Spec /\ Fairness

-----------------------------------------------------------------------------
(* Properties *)

\* Two clusters never share an integrator, and no thread is about to initialize
\* one that holds a cluster, its own or an interrupted one.
OwnIntegrators ==
    /\ \A c, d \in Cluster : c # d /\ integrator[c] # None => integrator[c] # integrator[d]
    /\ pc = "drive" => \A t \in Thread : at[t] = "free" => hard_int_thread[t] \notin Initialized

\* Between calls the list has every cluster that has not arrived, each once,
\* and no integrator is initialized outside it.
ListExact ==
    pc = "idle" =>
       /\ \A i, j \in DOMAIN interrupt_list : interrupt_list[i] = interrupt_list[j] => i = j
       /\ {interrupt_list[i] : i \in DOMAIN interrupt_list} = Initialized
       /\ interrupted = {c \in Cluster : integrator[c] # None}
       /\ interrupt_list # <<>> =>
             interrupted = {c \in Cluster : reached[c] # time_origin + interrupt_dt}

\* The end of the drift in progress
goal == IF pc = "drive" \/ (pc = "stopped" /\ interrupt_list = <<>>) THEN time_origin + dt
        ELSE IF pc \in {"finish", "compact"} \/ interrupt_list # <<>> THEN time_origin + interrupt_dt
        ELSE time_origin

System == INSTANCE HardSystem

\* The clusters of the system drift together: each arrives once per drift, by
\* whatever thread and after however many interruptions, and the time advances
\* when all have.
DriftsTogether == System!Spec

\* A call returns, or the assertion about the pool stops the program.
CallsReturn == pc # "idle" ~> pc \in {"idle", "stopped"}

\* hard.hpp:121 "cumulative energy change": every finished integrator is in it.
EnergyCumulative == pc = "idle" => energy = finished
=============================================================================
