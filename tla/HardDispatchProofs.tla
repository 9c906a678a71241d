------------------------- MODULE HardDispatchProofs -------------------------
(***************************************************************************)
(* Proofs about HardDispatch, for any number of clusters, threads and      *)
(* spare integrators: threads never share an integrator, the list of       *)
(* interrupted clusters is exact, and the clusters drift together as       *)
(* HardSystem promises.                                                    *)
(***************************************************************************)
EXTENDS HardDispatch, FiniteSetTheorems, TLAPS

Holding(t) == at[t] \in {"integrate", "read", "add"}
InLoop == pc \in {"drive", "finish"}

\* Threads work only inside the loops, on a cluster, and each on its own.
WorkInv ==
    /\ pc \in {"idle", "compact"} => AllFree
    /\ pc = "finish" => \A t \in Thread : at[t] \notin {"take", "check"}
    /\ \A t \in Thread : at[t] # "free" => work[t] \in Cluster
    /\ InLoop => \A t \in Thread : Holding(t) => integrator[work[t]] = hard_int_thread[t]
    /\ InLoop => \A t, u \in Thread :
          t # u /\ Holding(t) /\ Holding(u) => hard_int_thread[t] # hard_int_thread[u]

\* No two clusters have the same integrator; while new ones are handed out, those in use are
\* below the pointer, one for each thread, and a thread without a cluster has a fresh one.
PoolInv ==
    /\ \A c, d \in Cluster : c # d /\ integrator[c] # None => integrator[c] # integrator[d]
    /\ pc = "drive" =>
          /\ \A t, u \in Thread : t # u => hard_int_thread[t] # hard_int_thread[u]
          /\ \A t \in Thread : hard_int_thread[t] < hard_int_front_ptr
          /\ \A c \in Cluster : integrator[c] < hard_int_front_ptr
          /\ \A t \in Thread : Holding(t) => work[t] < next
          /\ \A t \in Thread, c \in Cluster :
                at[t] \in {"free", "check"} => integrator[c] # hard_int_thread[t]

\* A cluster keeps its integrator exactly as long as it is interrupted or a thread holds it.
StatusInv ==
    pc # "stopped" =>
       /\ \A c \in interrupted : integrator[c] # None
       /\ \A c \in Cluster : integrator[c] # None =>
             c \in interrupted \/ \E t \in Thread : Holding(t) /\ work[t] = c
       /\ \A t \in Thread : at[t] \in {"read", "add"} => work[t] \notin interrupted

\* The list has every initialized integrator once; the threads have taken those below next,
\* and the compaction has looked at those below next.
ListInv ==
    /\ pc = "drive" => interrupt_list = <<>>
    /\ \A i, j \in DOMAIN interrupt_list : interrupt_list[i] = interrupt_list[j] => i = j
    /\ pc \in {"idle", "finish", "compact"} =>
          \A c \in Cluster : integrator[c] # None =>
             \E i \in DOMAIN interrupt_list : interrupt_list[i] = integrator[c]
    /\ pc \in {"idle", "compact"} => \A i \in DOMAIN interrupt_list :
          pc = "idle" \/ i < next => \E c \in Cluster : integrator[c] = interrupt_list[i]
    /\ pc = "finish" => \A t \in Thread : Holding(t) =>
          \E i \in DOMAIN interrupt_list : i < next /\ interrupt_list[i] = hard_int_thread[t]

\* Clusters that have not arrived
Behind(c) ==
    \/ c \in interrupted
    \/ \E t \in Thread : at[t] = "integrate" /\ work[t] = c
    \/ pc = "drive" /\ c >= next

\* The others are at the end of the drift.
TimeInv ==
    /\ pc = "drive" => dt \in Dts
    /\ pc \in {"finish", "compact"} \/ interrupt_list # <<>> => interrupt_dt \in Dts
    /\ pc # "stopped" => \A c \in Cluster : reached[c] = IF Behind(c) THEN time_origin ELSE goal

IInv == TypeOK /\ WorkInv /\ PoolInv /\ StatusInv /\ ListInv /\ TimeInv

-----------------------------------------------------------------------------
(* Sequences: what the compaction of the list does *)

LEMMA SwappedIsList ==
    ASSUME NEW s \in Seq(Nat), NEW i \in 1 .. Len(s)
    PROVE  /\ Swapped(s, i) \in Seq(Nat)
           /\ DOMAIN Swapped(s, i) = 1 .. Len(s) - 1
           /\ \A j \in 1 .. Len(s) - 1 : Swapped(s, i)[j] = IF j = i THEN s[Len(s)] ELSE s[j]
<1>1. /\ Len(s) \in Nat /\ DOMAIN s = 1 .. Len(s)
      /\ s[Len(s)] \in Nat
  OBVIOUS
<1>2. DEFINE e == [s EXCEPT ![i] = s[Len(s)]]
<1>3. /\ e \in Seq(Nat) /\ Len(e) = Len(s)
      /\ \A j \in 1 .. Len(s) : e[j] = IF j = i THEN s[Len(s)] ELSE s[j]
  BY <1>1
<1> HIDE DEF e
<1>4. /\ SubSeq(e, 1, Len(s) - 1) \in Seq(Nat)
      /\ Len(SubSeq(e, 1, Len(s) - 1)) = Len(s) - 1
      /\ \A j \in 1 .. Len(s) - 1 : SubSeq(e, 1, Len(s) - 1)[j] = e[j]
  BY <1>1, <1>3
<1> QED
  BY <1>1, <1>3, <1>4 DEF Swapped, e

\* Every entry but the one taken out is still in the list.
LEMMA SwappedKeeps ==
    ASSUME NEW s \in Seq(Nat), NEW i \in 1 .. Len(s), NEW j \in 1 .. Len(s), j # i
    PROVE  \E k \in DOMAIN Swapped(s, i) : Swapped(s, i)[k] = s[j]
<1>1. Len(s) \in Nat
  OBVIOUS
<1>2. CASE j < Len(s)
  <2>1. j \in 1 .. Len(s) - 1
    BY <1>1, <1>2
  <2> QED
    BY <2>1, SwappedIsList
<1>3. CASE j = Len(s)
  <2>1. i \in 1 .. Len(s) - 1
    BY <1>1, <1>3
  <2> QED
    BY <1>1, <1>3, <2>1, SwappedIsList
<1> QED
  BY <1>1, <1>2, <1>3

\* What is registered: a list of all initialized integrators that are searched, each once.
LEMMA RegisterIsList ==
    ASSUME TypeOK, RegisterInterrupted
    PROVE  /\ interrupt_list' \in Seq(Nat)
           /\ {interrupt_list'[i] : i \in DOMAIN interrupt_list'} = Initialized \cap Searched
           /\ \A i, j \in DOMAIN interrupt_list' : interrupt_list'[i] = interrupt_list'[j] => i = j
<1>1. DEFINE S == Initialized \cap Searched
<1>2. S \subseteq Nat /\ IsFiniteSet(S)
  <2>1. IsFiniteSet(Searched)
    BY FS_Interval DEF Searched, TypeOK
  <2> QED
    BY <2>1, FS_Subset DEF Searched, TypeOK
<1>3. Cardinality(S) \in Nat
  BY <1>2, FS_CardinalityType
<1>4. PICK s \in [1 .. Cardinality(S) -> S] :
         IsAscending(s) /\ {s[i] : i \in DOMAIN s} = S /\ interrupt_list' = s
  BY DEF RegisterInterrupted
<1> HIDE DEF S
<1>5. s \in Seq(Nat) /\ DOMAIN s = 1 .. Cardinality(S) /\ \A i \in DOMAIN s : s[i] \in Nat
  <2>1. s \in [1 .. Cardinality(S) -> Nat]
    BY <1>2, <1>4
  <2>2. s \in Seq(Nat)
    BY <1>3, <2>1
  <2> QED
    BY <2>1, <2>2
<1>6. \A i, j \in DOMAIN s : s[i] = s[j] => i = j
  <2> SUFFICES ASSUME NEW i \in DOMAIN s, NEW j \in DOMAIN s, s[i] = s[j], i # j PROVE FALSE
    OBVIOUS
  <2>1. i < j \/ j < i
    BY <1>3, <1>5
  <2>2. s[i] < s[j] \/ s[j] < s[i]
    BY <1>4, <2>1 DEF IsAscending
  <2> QED
    BY <1>5, <2>2
<1> QED
  BY <1>4, <1>5, <1>6 DEF S

-----------------------------------------------------------------------------
(* Types *)

LEMMA InitType == Init => TypeOK
BY HardDispatchAssumption DEF Init, TypeOK, Thread, Cluster, None

LEMMA TypeStep ==
    ASSUME TypeOK, WorkInv, [Next]_vars
    PROVE  TypeOK'
<1> USE HardDispatchAssumption
<1>1. CASE Drive
  BY <1>1 DEF Drive, TypeOK, sums, Thread
<1>2. ASSUME NEW t \in Thread, TakeCluster(t) PROVE TypeOK'
  <2>1. next \in Cluster
    BY <1>2 DEF TakeCluster, TypeOK, Cluster
  <2>2. work' \in [Thread -> Cluster \cup {0}] /\ integrator' \in [Cluster -> Nat \cup {None}]
    BY <1>2, <2>1 DEF TakeCluster, TypeOK
  <2>3. at' \in [Thread -> {"free", "integrate", "take", "check", "read", "add"}]
    BY <1>2 DEF TakeCluster, Goes, TypeOK
  <2> QED
    BY <1>2, <2>2, <2>3 DEF TakeCluster, TypeOK, sums, clock
<1>3. ASSUME NEW t \in Thread, TakeInterrupted(t) PROVE TypeOK'
  <2>1. interrupt_list[next] \in Nat
    BY <1>3 DEF TakeInterrupted, TypeOK
  <2>2. PICK c \in Cluster : work' = [work EXCEPT ![t] = c]
    BY <1>3 DEF TakeInterrupted
  <2>3. work' \in [Thread -> Cluster \cup {0}] /\ hard_int_thread' \in [Thread -> Nat]
    BY <1>3, <2>1, <2>2 DEF TakeInterrupted, TypeOK
  <2>4. at' \in [Thread -> {"free", "integrate", "take", "check", "read", "add"}]
    BY <1>3 DEF TakeInterrupted, Goes, TypeOK
  <2> QED
    BY <1>3, <2>3, <2>4 DEF TakeInterrupted, TypeOK, sums, clock, pool
<1>4. ASSUME NEW t \in Thread, Interrupt(t) PROVE TypeOK'
  BY <1>4 DEF Interrupt, Goes, TypeOK, WorkInv, sums, clock
<1>5. ASSUME NEW t \in Thread, TakeIntegrator(t) PROVE TypeOK'
  BY <1>5 DEF TakeIntegrator, Goes, Moved, TypeOK, sums, clock
<1>6. ASSUME NEW t \in Thread, CheckPool(t) PROVE TypeOK'
  BY <1>6 DEF CheckPool, Goes, TypeOK, sums, clock, pool
<1>7. ASSUME NEW t \in Thread, Integrate(t) PROVE TypeOK'
  <2>1. TimeEnd \in Nat
    BY DEF TimeEnd, TypeOK
  <2>2. reached' \in [Cluster -> Nat] /\ interrupted' \subseteq Cluster
    BY <1>7, <2>1 DEF Integrate, TypeOK
  <2> QED
    BY <1>7, <2>2 DEF Integrate, Goes, TypeOK, sums, clock
<1>8. ASSUME NEW t \in Thread, ReadEnergy(t) PROVE TypeOK'
  BY <1>8 DEF ReadEnergy, Goes, TypeOK, clock, pool
<1>9. ASSUME NEW t \in Thread, AddEnergy(t) PROVE TypeOK'
  <2>1. integrator' \in [Cluster -> Nat \cup {None}]
    BY <1>9 DEF AddEnergy, TypeOK
  <2>2. energy' \in Nat /\ finished' \in Nat
    BY <1>9 DEF AddEnergy, TypeOK
  <2> QED
    BY <1>9, <2>1, <2>2 DEF AddEnergy, Goes, TypeOK, clock
<1>10. CASE RegisterInterrupted
  <2>1. PICK s \in Seq(Nat) : interrupt_list' = s
    BY <1>10, RegisterIsList DEF TypeOK
  <2> QED
    BY <1>10, <2>1 DEF RegisterInterrupted, OriginAfter, TypeOK, threads, sums
<1>11. CASE Finish
  BY <1>11 DEF Finish, TypeOK, sums, clock, pool
<1>12. CASE BeginCompact
  BY <1>12 DEF BeginCompact, TypeOK, sums, clock, pool
<1>13. CASE Compact
  <2>1. next \in 1 .. Len(interrupt_list)
    BY <1>13 DEF Compact, TypeOK
  <2>2. interrupt_list' \in Seq(Nat)
    BY <1>13, <2>1, SwappedIsList DEF Compact, TypeOK
  <2>3. next' \in Nat \ {0}
    BY <1>13 DEF Compact, AfterEntry, TypeOK
  <2> QED
    BY <1>13, <2>2, <2>3 DEF Compact, TypeOK, sums, clock
<1>14. CASE EndFinish
  BY <1>14 DEF EndFinish, OriginAfter, TypeOK, threads, sums, pool
<1>15. CASE UNCHANGED vars
  BY <1>15 DEF TypeOK, vars, clock, threads, pool, sums
<1> QED
  BY <1>1, <1>2, <1>3, <1>4, <1>5, <1>6, <1>7, <1>8, <1>9, <1>10, <1>11, <1>12, <1>13, <1>14, <1>15
     DEF Next, ThreadStep

-----------------------------------------------------------------------------
(* The threads and the pool *)

\* Threads hold clusters and integrators of their own.
LEMMA WorkStep ==
    ASSUME IInv, [Next]_vars
    PROVE  WorkInv'
<1> USE DEF IInv
<1>1. CASE Drive
  BY <1>1 DEF Drive, WorkInv, Holding, AllFree
<1>2. ASSUME NEW t \in Thread, TakeCluster(t) PROVE WorkInv'
  <2>1. pc = "drive" /\ pc' = "drive" /\ next \in Cluster /\ at[t] = "free"
    BY <1>2 DEF TakeCluster, Goes, TypeOK, Cluster
  <2>2. /\ at' = [at EXCEPT ![t] = "integrate"] /\ work' = [work EXCEPT ![t] = next]
        /\ integrator' = [integrator EXCEPT ![next] = hard_int_thread[t]]
        /\ hard_int_thread' = hard_int_thread
    BY <1>2 DEF TakeCluster, Goes
  <2>3. ASSUME NEW u \in Thread, u # t, Holding(u)'
        PROVE  Holding(u) /\ work'[u] = work[u] /\ work[u] \in Cluster /\ work[u] # next
    <3>1. Holding(u) /\ work'[u] = work[u]
      BY <2>2, <2>3 DEF Holding, TypeOK
    <3> QED
      BY <2>1, <3>1 DEF Holding, WorkInv, PoolInv, TypeOK
  <2>4. \A u \in Thread : Holding(u)' => integrator'[work'[u]] = hard_int_thread'[u]
    BY <2>1, <2>2, <2>3 DEF WorkInv, InLoop, TypeOK
  <2>5. \A u \in Thread : at'[u] # "free" => work'[u] \in Cluster
    BY <2>1, <2>2 DEF WorkInv, TypeOK
  <2>6. \A u, v \in Thread : u # v => hard_int_thread'[u] # hard_int_thread'[v]
    BY <2>1, <2>2 DEF PoolInv
  <2> QED
    BY <2>1, <2>4, <2>5, <2>6 DEF WorkInv, InLoop
<1>3. ASSUME NEW t \in Thread, TakeInterrupted(t) PROVE WorkInv'
  BY <1>3 DEF TakeInterrupted, Goes, pool, TypeOK, WorkInv, ListInv, Holding, InLoop
<1>4. ASSUME NEW t \in Thread, Interrupt(t) PROVE WorkInv'
  BY <1>4 DEF Interrupt, Goes, clock, WorkInv, Holding, InLoop, AllFree
<1>5. ASSUME NEW t \in Thread, TakeIntegrator(t) PROVE WorkInv'
  BY <1>5 DEF TakeIntegrator, Goes, WorkInv, Holding, InLoop, AllFree
<1>6. ASSUME NEW t \in Thread, CheckPool(t) PROVE WorkInv'
  BY <1>6 DEF CheckPool, Goes, pool, sums, WorkInv, Holding, InLoop, AllFree
<1>7. ASSUME NEW t \in Thread, Integrate(t) PROVE WorkInv'
  BY <1>7 DEF Integrate, Goes, WorkInv, Holding, InLoop, AllFree
<1>8. ASSUME NEW t \in Thread, ReadEnergy(t) PROVE WorkInv'
  BY <1>8 DEF ReadEnergy, Goes, pool, WorkInv, Holding, InLoop, AllFree
<1>9. ASSUME NEW t \in Thread, AddEnergy(t) PROVE WorkInv'
  BY <1>9 DEF AddEnergy, Goes, TypeOK, WorkInv, Holding, InLoop, AllFree
<1>10. CASE RegisterInterrupted
  BY <1>10 DEF RegisterInterrupted, threads, WorkInv, InLoop, AllFree
<1>11. CASE Finish
  BY <1>11 DEF Finish, WorkInv, Holding, AllFree
<1>12. CASE BeginCompact
  BY <1>12 DEF BeginCompact, WorkInv, InLoop, AllFree
<1>13. CASE Compact
  BY <1>13 DEF Compact, WorkInv, InLoop, AllFree
<1>14. CASE EndFinish
  BY <1>14 DEF EndFinish, threads, WorkInv, InLoop, AllFree
<1>15. CASE UNCHANGED vars
  BY <1>15 DEF vars, threads, pool, WorkInv, Holding, InLoop, AllFree
<1> QED
  BY <1>1, <1>2, <1>3, <1>4, <1>5, <1>6, <1>7, <1>8, <1>9, <1>10, <1>11, <1>12, <1>13, <1>14, <1>15
     DEF Next, ThreadStep

\* A thread that looks for a cluster has an integrator nobody uses.
LEMMA PoolStep ==
    ASSUME IInv, [Next]_vars
    PROVE  PoolInv'
<1> USE DEF IInv
<1>1. CASE Drive
  <2>1. \A c \in Cluster : integrator[c] = None
    BY <1>1 DEF Drive, ListInv
  <2>2. \A u \in Thread : hard_int_thread'[u] = u /\ at'[u] = "free" /\ u \in Nat /\ u < NThread
    BY <1>1, HardDispatchAssumption DEF Drive, WorkInv, AllFree, Thread
  <2>3. integrator' = integrator /\ hard_int_front_ptr' = NThread /\ NThread \in Nat
    BY <1>1, HardDispatchAssumption DEF Drive
  <2> QED
    BY <2>1, <2>2, <2>3 DEF PoolInv, Holding, None
<1>2. ASSUME NEW t \in Thread, TakeCluster(t) PROVE PoolInv'
  <2>1. pc = "drive" /\ next \in Cluster /\ next \in Nat /\ at[t] = "free" /\ hard_int_thread[t] \in Nat
    BY <1>2 DEF TakeCluster, Goes, TypeOK, Cluster
  <2>2. /\ at' = [at EXCEPT ![t] = "integrate"] /\ work' = [work EXCEPT ![t] = next]
        /\ integrator' = [integrator EXCEPT ![next] = hard_int_thread[t]]
        /\ hard_int_thread' = hard_int_thread /\ hard_int_front_ptr' = hard_int_front_ptr
        /\ next' = next + 1
    BY <1>2 DEF TakeCluster, Goes
  <2>3. \A c \in Cluster : integrator'[c] = IF c = next THEN hard_int_thread[t] ELSE integrator[c]
    BY <2>1, <2>2 DEF TypeOK
  <2>4. \A c \in Cluster : integrator[c] # hard_int_thread[t]
    BY <2>1 DEF PoolInv
  <2>5. \A c, d \in Cluster : c # d /\ integrator'[c] # None => integrator'[c] # integrator'[d]
    BY <2>3, <2>4 DEF PoolInv
  <2>6. \A c \in Cluster : integrator'[c] < hard_int_front_ptr'
    BY <2>1, <2>2, <2>3 DEF PoolInv
  <2>7. \A u \in Thread : Holding(u)' => work'[u] < next'
    <3> SUFFICES ASSUME NEW u \in Thread, Holding(u)' PROVE work'[u] < next'
      OBVIOUS
    <3>1. CASE u = t
      BY <2>1, <2>2, <3>1 DEF TypeOK
    <3>2. CASE u # t
      <4>1. Holding(u) /\ work'[u] = work[u]
        BY <2>2, <3>2 DEF Holding, TypeOK
      <4>2. work[u] \in Nat /\ work[u] < next
        BY <2>1, <4>1 DEF PoolInv, WorkInv, Holding, Cluster
      <4> QED
        BY <2>1, <2>2, <4>1, <4>2
    <3> QED
      BY <3>1, <3>2
  <2>8. ASSUME NEW u \in Thread, NEW c \in Cluster, at'[u] \in {"free", "check"}
        PROVE  integrator'[c] # hard_int_thread'[u]
    <3>1. u # t /\ at[u] = at'[u]
      BY <2>2, <2>8 DEF TypeOK
    <3>2. hard_int_thread[u] # hard_int_thread[t] /\ integrator[c] # hard_int_thread[u]
      BY <2>1, <2>8, <3>1 DEF PoolInv
    <3> QED
      BY <2>2, <2>3, <3>2
  <2> QED
    BY <2>1, <2>2, <2>5, <2>6, <2>7, <2>8 DEF PoolInv
<1>3. ASSUME NEW t \in Thread, TakeInterrupted(t) PROVE PoolInv'
  BY <1>3 DEF TakeInterrupted, pool, PoolInv
<1>4. ASSUME NEW t \in Thread, Interrupt(t) PROVE PoolInv'
  BY <1>4 DEF Interrupt, Goes, PoolInv, Holding
<1>5. ASSUME NEW t \in Thread, TakeIntegrator(t) PROVE PoolInv'
  <2>1. /\ at' = [at EXCEPT ![t] = "check"] /\ at[t] = "take"
        /\ hard_int_thread' = [hard_int_thread EXCEPT ![t] = hard_int_front_ptr]
        /\ hard_int_front_ptr' = hard_int_front_ptr + 1 /\ hard_int_front_ptr \in Nat
        /\ UNCHANGED <<pc, next, work, integrator>>
    BY <1>5 DEF TakeIntegrator, Goes, Moved, clock, TypeOK
  <2>2. SUFFICES ASSUME pc = "drive" PROVE PoolInv'
    BY <2>1 DEF PoolInv
  <2>3. \A u \in Thread : hard_int_thread'[u] = IF u = t THEN hard_int_front_ptr ELSE hard_int_thread[u]
    BY <2>1 DEF TypeOK
  <2>4. \A u \in Thread : hard_int_thread[u] \in Nat /\ hard_int_thread[u] < hard_int_front_ptr
    BY <2>2 DEF PoolInv, TypeOK
  <2>5. \A c \in Cluster : integrator[c] \in Int /\ integrator[c] < hard_int_front_ptr
    BY <2>2 DEF PoolInv, TypeOK, None
  <2>6. \A u, v \in Thread : u # v => hard_int_thread'[u] # hard_int_thread'[v]
    BY <2>1, <2>2, <2>3, <2>4 DEF PoolInv
  <2>7. \A u \in Thread : Holding(u)' => Holding(u) /\ u # t
    BY <2>1 DEF Holding, TypeOK
  <2>8. \A u \in Thread, c \in Cluster :
           at'[u] \in {"free", "check"} => integrator[c] # hard_int_thread'[u]
    BY <2>1, <2>2, <2>3, <2>5 DEF PoolInv, TypeOK
  <2>9. /\ \A u \in Thread : hard_int_thread'[u] < hard_int_front_ptr'
        /\ \A c \in Cluster : integrator[c] < hard_int_front_ptr'
    BY <2>1, <2>3, <2>4, <2>5
  <2> QED
    BY <2>1, <2>2, <2>6, <2>7, <2>8, <2>9 DEF PoolInv
<1>6. ASSUME NEW t \in Thread, CheckPool(t) PROVE PoolInv'
  BY <1>6 DEF CheckPool, Goes, pool, PoolInv, Holding
<1>7. ASSUME NEW t \in Thread, Integrate(t) PROVE PoolInv'
  BY <1>7 DEF Integrate, Goes, PoolInv, Holding
<1>8. ASSUME NEW t \in Thread, ReadEnergy(t) PROVE PoolInv'
  BY <1>8 DEF ReadEnergy, Goes, pool, PoolInv, Holding
<1>9. ASSUME NEW t \in Thread, AddEnergy(t) PROVE PoolInv'
  BY <1>9 DEF AddEnergy, Goes, TypeOK, WorkInv, PoolInv, Holding, InLoop, None
<1>10. CASE RegisterInterrupted
  BY <1>10 DEF RegisterInterrupted, PoolInv
<1>11. CASE Finish
  BY <1>11 DEF Finish, pool, PoolInv
<1>12. CASE BeginCompact
  BY <1>12 DEF BeginCompact, pool, PoolInv
<1>13. CASE Compact
  BY <1>13 DEF Compact, PoolInv
<1>14. CASE EndFinish
  BY <1>14 DEF EndFinish, pool, PoolInv
<1>15. CASE UNCHANGED vars
  BY <1>15 DEF vars, threads, pool, PoolInv, Holding
<1> QED
  BY <1>1, <1>2, <1>3, <1>4, <1>5, <1>6, <1>7, <1>8, <1>9, <1>10, <1>11, <1>12, <1>13, <1>14, <1>15
     DEF Next, ThreadStep

-----------------------------------------------------------------------------
(* Interrupted clusters, and their list *)

\* A cluster whose integrator is kept is interrupted or being worked on.
LEMMA StatusStep ==
    ASSUME IInv, [Next]_vars
    PROVE  StatusInv'
<1> USE DEF IInv
<1>1. CASE Drive
  BY <1>1 DEF Drive, StatusInv, Holding
<1>2. ASSUME NEW t \in Thread, TakeCluster(t) PROVE StatusInv'
  <2>1. /\ pc = "drive" /\ next \in Cluster /\ at[t] = "free" /\ hard_int_thread[t] # None
        /\ interrupted' = interrupted
    BY <1>2 DEF TakeCluster, Goes, TypeOK, Cluster, None
  <2>2. /\ at' = [at EXCEPT ![t] = "integrate"] /\ work' = [work EXCEPT ![t] = next]
        /\ integrator' = [integrator EXCEPT ![next] = hard_int_thread[t]]
    BY <1>2 DEF TakeCluster, Goes
  <2>3. \A c \in Cluster : integrator'[c] = IF c = next THEN hard_int_thread[t] ELSE integrator[c]
    BY <2>1, <2>2 DEF TypeOK
  <2>4. Holding(t)' /\ work'[t] = next
    BY <2>2 DEF Holding, TypeOK
  <2>5. \A u \in Thread : Holding(u) => Holding(u)' /\ work'[u] = work[u]
    BY <2>1, <2>2 DEF Holding, TypeOK
  <2>6. \A u \in Thread : at'[u] \in {"read", "add"} => at[u] = at'[u] /\ work'[u] = work[u]
    BY <2>1, <2>2 DEF TypeOK
  <2>7. \A c \in interrupted' : integrator'[c] # None
    BY <2>1, <2>3 DEF StatusInv, TypeOK
  <2>8. \A c \in Cluster : integrator'[c] # None =>
           c \in interrupted' \/ \E u \in Thread : Holding(u)' /\ work'[u] = c
    BY <2>1, <2>3, <2>4, <2>5 DEF StatusInv
  <2> QED
    BY <2>1, <2>6, <2>7, <2>8 DEF StatusInv
<1>3. ASSUME NEW t \in Thread, TakeInterrupted(t) PROVE StatusInv'
  <2>1. PICK c \in Cluster : work' = [work EXCEPT ![t] = c]
    BY <1>3 DEF TakeInterrupted
  <2>2. /\ pc = "finish" /\ at[t] = "free" /\ at' = [at EXCEPT ![t] = "integrate"]
        /\ UNCHANGED <<integrator, interrupted>>
    BY <1>3 DEF TakeInterrupted, Goes, pool
  <2>3. \A u \in Thread : Holding(u) => Holding(u)' /\ work'[u] = work[u]
    BY <2>1, <2>2 DEF Holding, TypeOK
  <2>4. \A u \in Thread : at'[u] \in {"read", "add"} => at[u] = at'[u] /\ work'[u] = work[u]
    BY <2>1, <2>2 DEF TypeOK
  <2>5. \A d \in Cluster : integrator'[d] # None =>
           d \in interrupted' \/ \E u \in Thread : Holding(u)' /\ work'[u] = d
    BY <2>2, <2>3 DEF StatusInv
  <2> QED
    BY <2>2, <2>4, <2>5 DEF StatusInv
<1>4. ASSUME NEW t \in Thread, Interrupt(t) PROVE StatusInv'
  <2>1. /\ pc # "stopped" /\ at[t] = "integrate" /\ work[t] \in Cluster
        /\ interrupted' = interrupted \cup {work[t]}
        /\ UNCHANGED <<integrator, work>>
    BY <1>4 DEF Interrupt, Goes, WorkInv
  <2>2. \A u \in Thread : u # t => at'[u] = at[u]
    BY <1>4 DEF Interrupt, Goes, TypeOK
  <2>3. at'[t] \in {"take", "free"}
    BY <1>4 DEF Interrupt, Goes, TypeOK
  <2>4. integrator[work[t]] # None /\ InLoop
    <3>1. InLoop
      BY <2>1 DEF InLoop, WorkInv, AllFree, TypeOK
    <3> QED
      BY <2>1, <3>1 DEF WorkInv, Holding, TypeOK, None
  <2>5. \A c \in Cluster : integrator'[c] # None =>
           c \in interrupted' \/ \E u \in Thread : Holding(u)' /\ work'[u] = c
    BY <2>1, <2>2 DEF StatusInv, Holding
  <2>6. ASSUME NEW u \in Thread, at'[u] \in {"read", "add"} PROVE work'[u] \notin interrupted'
    <3>1. u # t /\ at[u] \in {"read", "add"}
      BY <2>2, <2>3, <2>6
    <3>2. work[u] # work[t]
      BY <2>1, <2>4, <3>1 DEF WorkInv, Holding
    <3> QED
      BY <2>1, <3>1, <3>2 DEF StatusInv
  <2> QED
    BY <2>1, <2>4, <2>5, <2>6 DEF StatusInv
<1>5. ASSUME NEW t \in Thread, TakeIntegrator(t) PROVE StatusInv'
  BY <1>5 DEF TakeIntegrator, Goes, StatusInv, Holding
<1>6. ASSUME NEW t \in Thread, CheckPool(t) PROVE StatusInv'
  BY <1>6 DEF CheckPool, Goes, pool, StatusInv, Holding
<1>7. ASSUME NEW t \in Thread, Integrate(t) PROVE StatusInv'
  BY <1>7 DEF Integrate, Goes, StatusInv, Holding
<1>8. ASSUME NEW t \in Thread, ReadEnergy(t) PROVE StatusInv'
  BY <1>8 DEF ReadEnergy, Goes, pool, StatusInv, Holding
<1>9. ASSUME NEW t \in Thread, AddEnergy(t) PROVE StatusInv'
  BY <1>9 DEF AddEnergy, Goes, TypeOK, StatusInv, Holding
<1>10. CASE RegisterInterrupted
  BY <1>10 DEF RegisterInterrupted, threads, StatusInv, Holding
<1>11. CASE Finish
  BY <1>11 DEF Finish, pool, StatusInv, Holding
<1>12. CASE BeginCompact
  BY <1>12 DEF BeginCompact, pool, StatusInv, Holding
<1>13. CASE Compact
  BY <1>13 DEF Compact, StatusInv, Holding
<1>14. CASE EndFinish
  BY <1>14 DEF EndFinish, threads, pool, StatusInv, Holding
<1>15. CASE UNCHANGED vars
  BY <1>15 DEF vars, threads, pool, StatusInv, Holding
<1> QED
  BY <1>1, <1>2, <1>3, <1>4, <1>5, <1>6, <1>7, <1>8, <1>9, <1>10, <1>11, <1>12, <1>13, <1>14, <1>15
     DEF Next, ThreadStep

\* The list neither loses an integrator nor repeats one.
LEMMA ListStep ==
    ASSUME IInv, [Next]_vars
    PROVE  ListInv'
<1> USE DEF IInv
<1>1. CASE Drive
  BY <1>1 DEF Drive, ListInv
<1>2. ASSUME NEW t \in Thread, TakeCluster(t) PROVE ListInv'
  BY <1>2 DEF TakeCluster, ListInv
<1>3. ASSUME NEW t \in Thread, TakeInterrupted(t) PROVE ListInv'
  BY <1>3 DEF TakeInterrupted, Goes, pool, TypeOK, ListInv, Holding
<1>4. ASSUME NEW t \in Thread, Interrupt(t) PROVE ListInv'
  BY <1>4 DEF Interrupt, Goes, ListInv, Holding
<1>5. ASSUME NEW t \in Thread, TakeIntegrator(t) PROVE ListInv'
  BY <1>5 DEF TakeIntegrator, Goes, ListInv, Holding
<1>6. ASSUME NEW t \in Thread, CheckPool(t) PROVE ListInv'
  BY <1>6 DEF CheckPool, Goes, pool, ListInv, Holding
<1>7. ASSUME NEW t \in Thread, Integrate(t) PROVE ListInv'
  BY <1>7 DEF Integrate, Goes, ListInv, Holding
<1>8. ASSUME NEW t \in Thread, ReadEnergy(t) PROVE ListInv'
  BY <1>8 DEF ReadEnergy, Goes, pool, ListInv, Holding
<1>9. ASSUME NEW t \in Thread, AddEnergy(t) PROVE ListInv'
  BY <1>9 DEF AddEnergy, Goes, WorkInv, ListInv, Holding, AllFree
<1>10. CASE RegisterInterrupted
  <2>1. pc = "drive" /\ pc' = "idle" /\ integrator' = integrator
    BY <1>10 DEF RegisterInterrupted
  <2>2. Initialized \subseteq Searched
    BY <2>1 DEF Initialized, Searched, PoolInv, TypeOK, None
  <2>3. /\ {interrupt_list'[i] : i \in DOMAIN interrupt_list'} = Initialized
        /\ \A i, j \in DOMAIN interrupt_list' : interrupt_list'[i] = interrupt_list'[j] => i = j
    BY <1>10, <2>2, RegisterIsList
  <2>4. \A c \in Cluster : integrator[c] # None => integrator[c] \in Initialized
    BY DEF Initialized
  <2>5. \A k \in Initialized : \E c \in Cluster : integrator[c] = k
    BY DEF Initialized
  <2> QED
    BY <2>1, <2>3, <2>4, <2>5 DEF ListInv
<1>11. CASE Finish
  BY <1>11 DEF Finish, pool, WorkInv, ListInv, Holding, AllFree
<1>12. CASE BeginCompact
  BY <1>12 DEF BeginCompact, pool, ListInv
<1>13. CASE Compact
  <2>1. /\ pc = "compact" /\ pc' = "compact" /\ next \in 1 .. Len(interrupt_list) /\ next \in Nat
        /\ Len(interrupt_list) \in Nat /\ DOMAIN interrupt_list = 1 .. Len(interrupt_list)
        /\ integrator' = integrator /\ interrupted' = interrupted
    BY <1>13 DEF Compact, TypeOK
  <2>2. CASE HasStatus(interrupt_list[next])
    <3>1. interrupt_list' = interrupt_list /\ next' = next + 1
      BY <1>13, <2>2 DEF Compact, AfterEntry
    <3>2. \E c \in Cluster : integrator[c] = interrupt_list[next]
      BY <2>2 DEF HasStatus, TypeOK
    <3>3. \A i \in DOMAIN interrupt_list : i < next' => i < next \/ i = next
      BY <2>1, <3>1
    <3> QED
      BY <2>1, <3>1, <3>2, <3>3 DEF ListInv
  <2>3. CASE ~HasStatus(interrupt_list[next])
    <3>1. interrupt_list' = Swapped(interrupt_list, next) /\ next' = next
      BY <1>13, <2>3 DEF Compact, AfterEntry
    <3>2. /\ DOMAIN interrupt_list' = 1 .. Len(interrupt_list) - 1
          /\ \A j \in 1 .. Len(interrupt_list) - 1 : interrupt_list'[j] =
                IF j = next THEN interrupt_list[Len(interrupt_list)] ELSE interrupt_list[j]
      BY <2>1, <3>1, SwappedIsList DEF TypeOK
    <3>3. \A i, j \in DOMAIN interrupt_list' : interrupt_list'[i] = interrupt_list'[j] => i = j
      BY <2>1, <3>2 DEF ListInv
    <3>4. ASSUME NEW c \in Cluster, integrator[c] # None
          PROVE  \E i \in DOMAIN interrupt_list' : interrupt_list'[i] = integrator[c]
      <4>1. c \in interrupted
        BY <2>1, <3>4 DEF StatusInv, WorkInv, AllFree, Holding
      <4>2. PICK j \in DOMAIN interrupt_list : interrupt_list[j] = integrator[c]
        BY <2>1, <3>4 DEF ListInv
      <4>3. j # next
        BY <2>3, <4>1, <4>2 DEF HasStatus
      <4> QED
        BY <2>1, <3>1, <4>2, <4>3, SwappedKeeps DEF TypeOK
    <3>5. \A i \in DOMAIN interrupt_list' : i < next => \E c \in Cluster : integrator[c] = interrupt_list'[i]
      BY <2>1, <3>2 DEF ListInv
    <3> QED
      BY <2>1, <3>1, <3>3, <3>4, <3>5 DEF ListInv
  <2> QED
    BY <2>2, <2>3
<1>14. CASE EndFinish
  <2>1. /\ pc = "compact" /\ pc' = "idle" /\ next > Len(interrupt_list)
        /\ UNCHANGED <<interrupt_list, integrator>>
    BY <1>14 DEF EndFinish, pool
  <2>2. \A i \in DOMAIN interrupt_list : i < next
    BY <2>1 DEF TypeOK
  <2> QED
    BY <2>1, <2>2 DEF ListInv
<1>15. CASE UNCHANGED vars
  BY <1>15 DEF vars, threads, pool, ListInv, Holding
<1> QED
  BY <1>1, <1>2, <1>3, <1>4, <1>5, <1>6, <1>7, <1>8, <1>9, <1>10, <1>11, <1>12, <1>13, <1>14, <1>15
     DEF Next, ThreadStep

-----------------------------------------------------------------------------
(* Times *)

\* The cluster a thread takes from the list is one that is interrupted.
LEMMA TakesInterrupted ==
    ASSUME IInv, NEW t \in Thread, TakeInterrupted(t),
           NEW c \in Cluster, integrator[c] = interrupt_list[next]
    PROVE  c \in interrupted
<1> USE DEF IInv
<1>1. pc = "finish" /\ next \in DOMAIN interrupt_list /\ integrator[c] # None
  BY DEF TakeInterrupted, TypeOK, None
<1>2. \A u \in Thread : Holding(u) => work[u] # c
  <2> SUFFICES ASSUME NEW u \in Thread, Holding(u), work[u] = c PROVE FALSE
    OBVIOUS
  <2>1. hard_int_thread[u] = interrupt_list[next]
    BY <1>1 DEF WorkInv, InLoop
  <2>2. PICK i \in DOMAIN interrupt_list : i < next /\ interrupt_list[i] = interrupt_list[next]
    BY <1>1, <2>1 DEF ListInv
  <2> QED
    BY <1>1, <2>2 DEF ListInv, TypeOK
<1> QED
  BY <1>1, <1>2 DEF StatusInv

\* A cluster that is integrated arrives, from the beginning of the drift, and no other does.
LEMMA Arrives ==
    ASSUME IInv, NEW t \in Thread, Integrate(t)
    PROVE  /\ work[t] \in Cluster /\ Behind(work[t]) /\ pc \in {"drive", "finish"}
           /\ reached' = [reached EXCEPT ![work[t]] = goal]
           /\ \A c \in Cluster : Behind(c)' <=> Behind(c) /\ c # work[t]
           /\ UNCHANGED <<pc, interrupt_list, dt, interrupt_dt, time_origin>>
<1> USE DEF IInv
<1>1. /\ pc # "stopped" /\ at[t] = "integrate" /\ at' = [at EXCEPT ![t] = "read"]
      /\ interrupted' = interrupted \ {work[t]}
      /\ reached' = [reached EXCEPT ![work[t]] = TimeEnd]
      /\ UNCHANGED <<pc, dt, interrupt_dt, time_origin, interrupt_list, next, work, integrator>>
  BY DEF Integrate, Goes, clock
<1>2. pc \in {"drive", "finish"} /\ work[t] \in Cluster /\ Holding(t)
  BY <1>1 DEF WorkInv, AllFree, TypeOK, Holding
<1>3. goal = TimeEnd
  BY <1>2 DEF goal, TimeEnd
<1>4. Behind(work[t])
  BY <1>1 DEF Behind
<1>5. \A u \in Thread : u # t /\ at[u] = "integrate" => work[u] # work[t]
  BY <1>2 DEF WorkInv, Holding, InLoop
<1>6. \A u \in Thread : at'[u] = IF u = t THEN "read" ELSE at[u]
  BY <1>1 DEF TypeOK
<1>7. pc = "drive" => work[t] \in Nat /\ next \in Nat /\ work[t] < next
  BY <1>2 DEF PoolInv, Cluster, TypeOK
<1>8. pc = "drive" => ~(work[t] >= next)
  BY <1>7
<1>9. \A c \in Cluster : Behind(c)' <=> Behind(c) /\ c # work[t]
  BY <1>1, <1>5, <1>6, <1>8 DEF Behind
<1> QED
  BY <1>1, <1>2, <1>3, <1>4, <1>9

\* Every cluster is at the beginning of the drift or at its end.
LEMMA TimeStep ==
    ASSUME IInv, [Next]_vars
    PROVE  TimeInv'
<1> USE DEF IInv
<1>1. CASE Drive
  <2>1. /\ pc = "idle" /\ interrupt_list = <<>> /\ AllFree
        /\ \A c \in Cluster : integrator[c] = None
    BY <1>1 DEF Drive, WorkInv, ListInv
  <2>2. \A c \in Cluster : ~Behind(c)
    BY <2>1 DEF Behind, AllFree, StatusInv, TypeOK
  <2>3. \A c \in Cluster : reached[c] = time_origin
    BY <2>1, <2>2 DEF TimeInv, goal
  <2>4. \A c \in Cluster : Behind(c)'
    BY <1>1 DEF Drive, Behind, Cluster
  <2>5. /\ pc' = "drive" /\ dt' \in Dts
        /\ UNCHANGED <<reached, time_origin, interrupt_list>>
    BY <1>1 DEF Drive
  <2> QED
    BY <2>1, <2>3, <2>4, <2>5 DEF TimeInv
<1>2. ASSUME NEW t \in Thread, TakeCluster(t) PROVE TimeInv'
  <2>1. /\ pc = "drive" /\ next \in Cluster /\ next \in Nat /\ at[t] = "free" /\ next' = next + 1
        /\ at' = [at EXCEPT ![t] = "integrate"] /\ work' = [work EXCEPT ![t] = next]
        /\ UNCHANGED <<pc, interrupted, interrupt_list, dt, interrupt_dt, time_origin, reached>>
    BY <1>2 DEF TakeCluster, Goes, clock, TypeOK, Cluster
  <2>2. /\ at'[t] = "integrate" /\ work'[t] = next
        /\ \A u \in Thread : u # t => at'[u] = at[u] /\ work'[u] = work[u]
    BY <2>1 DEF TypeOK
  <2>3. \A c \in Cluster : c \in Nat /\ (c >= next <=> c = next \/ c >= next')
    BY <2>1 DEF Cluster
  <2>4. \A c \in Cluster : Behind(c)' <=> Behind(c)
    BY <2>1, <2>2, <2>3 DEF Behind
  <2> QED
    BY <2>1, <2>4 DEF TimeInv, goal
<1>3. ASSUME NEW t \in Thread, TakeInterrupted(t) PROVE TimeInv'
  <2>1. PICK c \in Cluster : integrator[c] = interrupt_list[next] /\ work' = [work EXCEPT ![t] = c]
    BY <1>3 DEF TakeInterrupted
  <2>2. /\ pc = "finish" /\ next \in DOMAIN interrupt_list /\ at[t] = "free"
        /\ at' = [at EXCEPT ![t] = "integrate"]
        /\ UNCHANGED <<pc, interrupted, interrupt_list, dt, interrupt_dt, time_origin, reached>>
    BY <1>3 DEF TakeInterrupted, Goes, pool, clock, TypeOK
  <2>3. c \in interrupted
    BY <1>3, <2>1, <2>2, TakesInterrupted
  <2>4. /\ at'[t] = "integrate" /\ work'[t] = c
        /\ \A u \in Thread : u # t => at'[u] = at[u] /\ work'[u] = work[u]
    BY <2>1, <2>2 DEF TypeOK
  <2>5. \A d \in Cluster : Behind(d)' <=> Behind(d)
    BY <2>2, <2>3, <2>4 DEF Behind
  <2> QED
    BY <2>2, <2>5 DEF TimeInv, goal
<1>4. ASSUME NEW t \in Thread, Interrupt(t) PROVE TimeInv'
  BY <1>4 DEF Interrupt, Goes, clock, TimeInv, Behind, goal
<1>5. ASSUME NEW t \in Thread, TakeIntegrator(t) PROVE TimeInv'
  BY <1>5 DEF TakeIntegrator, Goes, clock, TimeInv, Behind, goal
<1>6. ASSUME NEW t \in Thread, CheckPool(t) PROVE TimeInv'
  BY <1>6 DEF CheckPool, Goes, clock, pool, TimeInv, Behind, goal
<1>7. ASSUME NEW t \in Thread, Integrate(t) PROVE TimeInv'
  <2>1. /\ reached' = [reached EXCEPT ![work[t]] = goal]
        /\ \A c \in Cluster : Behind(c)' <=> Behind(c) /\ c # work[t]
        /\ UNCHANGED <<pc, interrupt_list, dt, interrupt_dt, time_origin>>
    BY <1>7, Arrives
  <2> QED
    BY <2>1 DEF TimeInv, goal, TypeOK
<1>8. ASSUME NEW t \in Thread, ReadEnergy(t) PROVE TimeInv'
  BY <1>8 DEF ReadEnergy, Goes, clock, pool, TimeInv, Behind, goal
<1>9. ASSUME NEW t \in Thread, AddEnergy(t) PROVE TimeInv'
  BY <1>9 DEF AddEnergy, Goes, clock, TimeInv, Behind, goal
<1>10. CASE RegisterInterrupted
  <2>1. /\ pc = "drive" /\ pc' = "idle" /\ interrupt_list = <<>> /\ dt \in Dts
        /\ UNCHANGED <<at, work, interrupted, reached>>
        /\ time_origin' = OriginAfter(interrupt_list', dt)
        /\ interrupt_dt' = IF interrupt_list' = <<>> THEN interrupt_dt ELSE dt
    BY <1>10 DEF RegisterInterrupted, threads, ListInv, TimeInv
  <2>2. \A c \in Cluster : (Behind(c) <=> c \in interrupted) /\ (Behind(c)' <=> c \in interrupted)
    <3>1. AllFree /\ next \in Nat /\ NCluster \in Nat /\ next > NCluster
      BY <1>10, HardDispatchAssumption DEF RegisterInterrupted, TypeOK
    <3>2. \A c \in Cluster : ~(c >= next)
      BY <3>1 DEF Cluster
    <3> QED
      BY <2>1, <3>1, <3>2 DEF Behind, AllFree
  <2>3. goal = time_origin + dt /\ goal' = goal
    BY <2>1 DEF goal, OriginAfter
  <2>4. CASE interrupt_list' = <<>>
    <3>1. ListInv'
      BY <1>10, ListStep DEF Next
    <3>2. interrupted = {}
      <4>1. integrator' = integrator
        BY <1>10 DEF RegisterInterrupted
      <4> QED
        BY <2>1, <2>4, <3>1, <4>1 DEF StatusInv, ListInv, TypeOK
    <3> QED
      BY <2>1, <2>2, <2>3, <2>4, <3>2 DEF TimeInv
  <2>5. CASE interrupt_list' # <<>>
    BY <2>1, <2>2, <2>3, <2>5 DEF TimeInv, OriginAfter
  <2> QED
    BY <2>4, <2>5
<1>11. CASE Finish
  BY <1>11 DEF Finish, clock, pool, TimeInv, Behind, goal
<1>12. CASE BeginCompact
  BY <1>12 DEF BeginCompact, clock, pool, TimeInv, Behind, goal
<1>13. CASE Compact
  BY <1>13 DEF Compact, clock, TimeInv, Behind, goal
<1>14. CASE EndFinish
  <2>1. /\ pc = "compact" /\ pc' = "idle" /\ interrupt_dt \in Dts
        /\ UNCHANGED <<at, work, interrupted, reached, interrupt_list, integrator, interrupt_dt>>
        /\ time_origin' = OriginAfter(interrupt_list, interrupt_dt)
    BY <1>14 DEF EndFinish, threads, pool, TimeInv
  <2>2. \A c \in Cluster : (Behind(c) <=> c \in interrupted) /\ (Behind(c)' <=> c \in interrupted)
    BY <2>1 DEF Behind, AllFree, WorkInv
  <2>3. goal = time_origin + interrupt_dt /\ goal' = goal
    BY <2>1 DEF goal, OriginAfter
  <2>4. CASE interrupt_list = <<>>
    <3>1. interrupted = {}
      BY <2>1, <2>4 DEF StatusInv, ListInv, TypeOK
    <3> QED
      BY <2>1, <2>2, <2>3, <2>4, <3>1 DEF TimeInv
  <2>5. CASE interrupt_list # <<>>
    BY <2>1, <2>2, <2>3, <2>5 DEF TimeInv, OriginAfter
  <2> QED
    BY <2>4, <2>5
<1>15. CASE UNCHANGED vars
  BY <1>15 DEF vars, clock, threads, pool, TimeInv, Behind, goal
<1> QED
  BY <1>1, <1>2, <1>3, <1>4, <1>5, <1>6, <1>7, <1>8, <1>9, <1>10, <1>11, <1>12, <1>13, <1>14, <1>15
     DEF Next, ThreadStep

-----------------------------------------------------------------------------
(* Invariance *)

LEMMA InitInv == Init => IInv
<1> SUFFICES ASSUME Init PROVE IInv
  OBVIOUS
<1>1. TypeOK
  BY InitType
<1>2. WorkInv /\ StatusInv /\ ListInv
  BY <1>1 DEF Init, WorkInv, StatusInv, ListInv, Holding, InLoop, AllFree
<1>3. PoolInv
  BY DEF Init, PoolInv
<1>4. TimeInv
  BY DEF Init, TimeInv, Behind, goal
<1> QED
  BY <1>1, <1>2, <1>3, <1>4 DEF IInv

LEMMA StepInv == IInv /\ [Next]_vars => IInv'
<1> SUFFICES ASSUME IInv, [Next]_vars PROVE IInv'
  OBVIOUS
<1>1. TypeOK'
  BY TypeStep DEF IInv
<1>2. WorkInv' /\ PoolInv' /\ StatusInv' /\ ListInv' /\ TimeInv'
  BY WorkStep, PoolStep, StatusStep, ListStep, TimeStep
<1> QED
  BY <1>1, <1>2 DEF IInv

LEMMA Invariance == Spec => []IInv
<1>1. Init => IInv
  BY InitInv
<1>2. IInv /\ [Next]_vars => IInv'
  BY StepInv
<1> QED
  BY <1>1, <1>2, PTL DEF Spec

\* Every variable keeps its type: threads, pool, list and times of SystemHard.
THEOREM TypeCorrect == Spec => []TypeOK
BY Invariance, PTL DEF IInv

\* However the threads interleave, no two clusters share an integrator of hard_int_, and none is
\* given to a thread while a cluster still needs it (driveForMultiClusterOMP).
THEOREM IntegratorsAreOwn == Spec => []OwnIntegrators
<1>1. IInv => OwnIntegrators
  <2> SUFFICES ASSUME IInv, pc = "drive", NEW t \in Thread, at[t] = "free"
               PROVE  hard_int_thread[t] \notin Initialized
    BY DEF OwnIntegrators, IInv, PoolInv
  <2> QED
    BY DEF Initialized, IInv, PoolInv
<1> QED
  BY <1>1, Invariance, PTL

\* interrupt_list_ has what the next call must continue, all of it and nothing else
\* (the registration after the drive, the compaction in finishIntegrateInterruptClustersOMP).
THEOREM ListIsExact == Spec => []ListExact
<1>1. IInv => ListExact
  <2> SUFFICES ASSUME IInv, pc = "idle" PROVE ListExact
    BY DEF ListExact
  <2>1. \A i, j \in DOMAIN interrupt_list : interrupt_list[i] = interrupt_list[j] => i = j
    BY DEF IInv, ListInv
  <2>2. {interrupt_list[i] : i \in DOMAIN interrupt_list} = Initialized
    <3>1. \A i \in DOMAIN interrupt_list : interrupt_list[i] \in Initialized
      <4> SUFFICES ASSUME NEW i \in DOMAIN interrupt_list PROVE interrupt_list[i] \in Initialized
        OBVIOUS
      <4>1. PICK c \in Cluster : integrator[c] = interrupt_list[i]
        BY DEF IInv, ListInv
      <4>2. interrupt_list[i] # None
        BY DEF IInv, TypeOK, None
      <4> QED
        BY <4>1, <4>2 DEF Initialized
    <3>2. \A k \in Initialized : \E i \in DOMAIN interrupt_list : interrupt_list[i] = k
      BY DEF Initialized, IInv, ListInv
    <3> QED
      BY <3>1, <3>2
  <2>3. interrupted = {c \in Cluster : integrator[c] # None}
    BY DEF IInv, StatusInv, WorkInv, AllFree, Holding, TypeOK
  <2>4. ASSUME interrupt_list # <<>>
        PROVE  interrupted = {c \in Cluster : reached[c] # time_origin + interrupt_dt}
    <3>1. \A c \in Cluster : Behind(c) <=> c \in interrupted
      BY DEF Behind, IInv, WorkInv, AllFree
    <3>2. interrupt_dt # 0 /\ interrupt_dt \in Nat /\ time_origin \in Nat
      BY <2>4, HardDispatchAssumption DEF IInv, TimeInv, TypeOK
    <3>3. \A c \in Cluster : reached[c] = IF c \in interrupted THEN time_origin ELSE time_origin + interrupt_dt
      BY <2>4, <3>1 DEF IInv, TimeInv, goal
    <3>4. time_origin # time_origin + interrupt_dt /\ interrupted \subseteq Cluster
      BY <3>2 DEF IInv, TypeOK
    <3> QED
      BY <3>3, <3>4
  <2> QED
    BY <2>1, <2>2, <2>3, <2>4 DEF ListExact
<1> QED
  BY <1>1, Invariance, PTL

-----------------------------------------------------------------------------
(* HardDispatch implements HardSystem *)

SystemStep == System!Next \/ UNCHANGED System!vars

\* All clusters have arrived when the time advances, from the loop or from the list.
LEMMA EndsWithAll ==
    ASSUME IInv, Next, UNCHANGED reached, goal' = goal, time_origin' = goal,
           goal # time_origin, \A c \in Cluster : ~Behind(c)
    PROVE  System!End
<1>1. \A c \in Cluster : reached[c] = goal
  <2>1. pc # "stopped"
    BY DEF Next, ThreadStep, Drive, TakeCluster, TakeInterrupted, Interrupt, TakeIntegrator,
       CheckPool,
           Integrate, ReadEnergy, AddEnergy, Goes, RegisterInterrupted, Finish, BeginCompact,
           Compact, EndFinish
  <2> QED
    BY <2>1 DEF IInv, TimeInv
<1> QED
  BY <1>1 DEF System!End, System!Cluster, Cluster

\* Each step of the threads and of the calls is a step of the system, or none.
LEMMA StepImplements == IInv /\ [Next]_vars => SystemStep
<1> SUFFICES ASSUME IInv, [Next]_vars PROVE SystemStep
  OBVIOUS
<1> USE DEF IInv
<1>1. CASE Drive
  <2>1. /\ pc = "idle" /\ interrupt_list = <<>> /\ pc' = "drive" /\ dt' \in Dts
        /\ UNCHANGED <<time_origin, reached>>
    BY <1>1 DEF Drive
  <2>2. goal = time_origin /\ goal' = time_origin + dt'
    BY <2>1 DEF goal
  <2>3. System!Begin(dt')
    BY <2>1, <2>2 DEF System!Begin
  <2> QED
    BY <2>1, <2>3 DEF SystemStep, System!Next
<1>2. ASSUME NEW t \in Thread, TakeCluster(t) PROVE SystemStep
  BY <1>2 DEF TakeCluster, Goes, clock, goal, SystemStep, System!vars, TypeOK
<1>3. ASSUME NEW t \in Thread, TakeInterrupted(t) PROVE SystemStep
  BY <1>3 DEF TakeInterrupted, Goes, clock, pool, goal, SystemStep, System!vars
<1>4. ASSUME NEW t \in Thread, Interrupt(t) PROVE SystemStep
  BY <1>4 DEF Interrupt, Goes, clock, goal, SystemStep, System!vars
<1>5. ASSUME NEW t \in Thread, TakeIntegrator(t) PROVE SystemStep
  BY <1>5 DEF TakeIntegrator, Goes, clock, goal, SystemStep, System!vars
<1>6. ASSUME NEW t \in Thread, CheckPool(t) PROVE SystemStep
  <2>1. pc = "drive" /\ interrupt_list = <<>>
    BY <1>6 DEF CheckPool, Goes, WorkInv, AllFree, ListInv, TypeOK
  <2>2. pc' \in {"drive", "stopped"} /\ UNCHANGED <<interrupt_list, dt, interrupt_dt, time_origin, reached>>
    BY <1>6, <2>1 DEF CheckPool, Goes, clock, pool
  <2> QED
    BY <2>1, <2>2 DEF goal, SystemStep, System!vars
<1>7. ASSUME NEW t \in Thread, Integrate(t) PROVE SystemStep
  <2>1. /\ work[t] \in Cluster /\ Behind(work[t]) /\ pc \in {"drive", "finish"}
        /\ reached' = [reached EXCEPT ![work[t]] = goal]
        /\ UNCHANGED <<pc, interrupt_list, dt, interrupt_dt, time_origin>>
    BY <1>7, Arrives
  <2>2. reached[work[t]] = time_origin
    BY <2>1 DEF TimeInv
  <2>3. goal # time_origin
    BY <2>1, HardDispatchAssumption DEF goal, TimeInv, TypeOK
  <2>4. UNCHANGED goal
    BY <2>1 DEF goal
  <2>5. System!Arrive(work[t])
    BY <2>1, <2>2, <2>3, <2>4 DEF System!Arrive
  <2> QED
    BY <2>1, <2>5 DEF SystemStep, System!Next, System!Cluster, Cluster
<1>8. ASSUME NEW t \in Thread, ReadEnergy(t) PROVE SystemStep
  BY <1>8 DEF ReadEnergy, Goes, clock, pool, goal, SystemStep, System!vars
<1>9. ASSUME NEW t \in Thread, AddEnergy(t) PROVE SystemStep
  BY <1>9 DEF AddEnergy, Goes, clock, goal, SystemStep, System!vars
<1>10. CASE RegisterInterrupted
  <2>1. /\ pc = "drive" /\ pc' = "idle" /\ interrupt_list = <<>> /\ dt \in Dts /\ AllFree
        /\ next > NCluster
        /\ UNCHANGED <<at, work, interrupted, reached, integrator>>
        /\ time_origin' = OriginAfter(interrupt_list', dt)
        /\ interrupt_dt' = IF interrupt_list' = <<>> THEN interrupt_dt ELSE dt
    BY <1>10 DEF RegisterInterrupted, threads, ListInv, TimeInv
  <2>2. goal = time_origin + dt /\ goal' = goal
    BY <2>1 DEF goal, OriginAfter
  <2>3. CASE interrupt_list' = <<>>
    <3>1. ListInv'
      BY <1>10, ListStep DEF Next
    <3>2. \A c \in Cluster : c \notin interrupted
      BY <2>1, <2>3, <3>1 DEF StatusInv, ListInv, TypeOK
    <3>3. \A c \in Cluster : ~(c >= next)
      BY <2>1, HardDispatchAssumption DEF Cluster, TypeOK
    <3>4. \A c \in Cluster : ~Behind(c)
      BY <2>1, <3>2, <3>3 DEF Behind, AllFree
    <3>5. goal # time_origin
      BY <2>1, <2>2, HardDispatchAssumption DEF TypeOK
    <3> QED
      BY <1>10, <2>1, <2>2, <2>3, <3>4, <3>5, EndsWithAll DEF OriginAfter, Next, SystemStep,
         System!Next
  <2>4. CASE interrupt_list' # <<>>
    BY <2>1, <2>2, <2>4 DEF OriginAfter, SystemStep, System!vars
  <2> QED
    BY <2>3, <2>4
<1>11. CASE Finish
  BY <1>11 DEF Finish, clock, pool, goal, SystemStep, System!vars
<1>12. CASE BeginCompact
  BY <1>12 DEF BeginCompact, clock, pool, goal, SystemStep, System!vars
<1>13. CASE Compact
  BY <1>13 DEF Compact, clock, goal, SystemStep, System!vars
<1>14. CASE EndFinish
  <2>1. /\ pc = "compact" /\ pc' = "idle" /\ interrupt_dt \in Dts
        /\ UNCHANGED <<reached, interrupt_list, integrator, interrupt_dt>>
        /\ time_origin' = OriginAfter(interrupt_list, interrupt_dt)
    BY <1>14 DEF EndFinish, pool, TimeInv
  <2>2. goal = time_origin + interrupt_dt /\ goal' = goal
    BY <2>1 DEF goal, OriginAfter
  <2>3. CASE interrupt_list = <<>>
    <3>1. \A c \in Cluster : c \notin interrupted
      BY <2>1, <2>3 DEF StatusInv, ListInv
    <3>2. \A c \in Cluster : ~Behind(c)
      BY <2>1, <3>1 DEF Behind, WorkInv, AllFree
    <3>3. goal # time_origin
      BY <2>1, <2>2, HardDispatchAssumption DEF TypeOK
    <3> QED
      BY <1>14, <2>1, <2>2, <2>3, <3>2, <3>3, EndsWithAll DEF OriginAfter, Next, SystemStep,
         System!Next
  <2>4. CASE interrupt_list # <<>>
    BY <2>1, <2>2, <2>4 DEF OriginAfter, SystemStep, System!vars
  <2> QED
    BY <2>3, <2>4
<1>15. CASE UNCHANGED vars
  BY <1>15 DEF vars, clock, pool, goal, SystemStep, System!vars
<1> QED
  BY <1>1, <1>2, <1>3, <1>4, <1>5, <1>6, <1>7, <1>8, <1>9, <1>10, <1>11, <1>12, <1>13, <1>14, <1>15
     DEF Next, ThreadStep

\* The clusters of a SystemHard drift together, whatever the threads, the interruptions and the
\* order in which interrupted integrators are continued.
THEOREM DriftTogether == Spec => DriftsTogether
<1>1. Init => System!Init
  BY DEF Init, System!Init, goal, System!Cluster, Cluster
<1>2. IInv /\ [Next]_vars => [System!Next]_System!vars
  BY StepImplements DEF SystemStep
<1> QED
  BY <1>1, <1>2, Invariance, PTL DEF Spec, System!Spec, DriftsTogether
=============================================================================
