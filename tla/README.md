# PeTar and SDAR in TLA+

PeTar integrates a star cluster with three methods at once: a Barnes-Hut tree
with a fixed *tree step* for distant stars (FDPS), a fourth-order Hermite
scheme with individual *block time steps* for stars that are close to each
other, and algorithmic regularisation (AR) with slow-down for binaries and
small groups.  Hermite and AR are the library SDAR.

The core is what happens to one cluster of neighbouring stars during one tree
step: particles on individual time steps are collected into *groups* when they
come close, a group is integrated by AR and represented by its centre of mass
(c.m.), it can be interrupted or lose members through stellar evolution, and it
is dissolved when it comes apart.  Around it are the threads of a rank, which
take clusters in turn; the ranks, which agree on the clusters they share and
exchange their particles; and the loop over tree steps, which kicks all stars
with the tree force, lets the hard integrators drift them, and writes snapshots.
Each of these is a specification here, checked by TLC; the theorems of section 5
hold for every size of the system.

## 1. Inventory

| Part | Code | State | Operations | Interacts through |
|---|---|---|---|---|
| Block time steps | `SDAR/src/Hermite/block_time_step.h` | `dt_max_`, `dt_min_` | limit at a time, step for an acceleration | called by Hermite |
| Hermite integrator | `SDAR/src/Hermite/hermite_integrator.h` | clock, particles and groups with their times and steps, two sorted lists with active and init prefixes, mask tables, stack of free slots | initialise, step groups, step active particles, adjust groups, sort | calls AR, neighbours, stellar evolution |
| Hard integrator driver | `PeTar/src/hard.hpp` `HardIntegrator` | Hermite or AR integrator of one cluster | initial, integrateToTime, write back | called by SystemHard, one thread per cluster |
| SystemHard | `PeTar/src/hard.hpp` | clusters, pool of integrators, interrupt list, energies | drive one / many clusters in parallel, finish interrupts | OpenMP; called by the tree-step loop |
| Tree-step loop | `PeTar/src/petar.hpp`, `kickdriftstep.hpp` | time, flags for kicks, output, interrupts | kick, drift, search, output, remove | everything |
| Cluster search | `PeTar/src/cluster_list.hpp` | cluster ids, exchange lists | neighbour iteration, send, receive | MPI |
| AR integrator | `SDAR/src/AR/symplectic_integrator.h` | one group: time, step, backup, stack of reductions | integrateToTime with retries | called by Hermite; calls the interaction |
| AR interaction | `PeTar/src/ar_interaction.hpp` | stellar states, merger records | modify one, modify and interrupt, freeze binary | BSE, files |
| Merger output | `PeTar/src/bhmerger_output.hpp` | files | locked append | processes and threads |
| Containers | `SDAR/src/Common/list.h`, `particle_group.h` | mode, sizes, modification flags | link, copy, resize | everything |

(`PeTar` stands for `PeTar_new_version`.)  What is hard:

* **Order and boundaries in Hermite.** Only the active prefix of each list is
  sorted, and correctness rests on an arithmetic property of block steps.
  Five routines move a particle between list, mask and group; slots are reused;
  in-place loops shift overlapping ranges; neighbours are stale when read.
* **Failure and interruption.** A group reports a change in the middle of its
  c.m. step, merges, or vanishes; an interrupted drift returns to the caller and
  is resumed.
* **Concurrency.** Clusters are integrated by OpenMP threads that share energy
  counters and the pool of integrators; ranks exchange cluster ids and particles;
  threads and processes append to one file.

Correctness, per part: steps are the largest allowed and stay on the grid (block
steps); no star is lost, duplicated or at the wrong time (Hermite); both time
origins agree and every interrupted cluster is finished once (SystemHard); kicks
and drifts pair, and each output sees all particles at one time (tree-step
loop); the ids agree at the fixed point, and a cluster is whole on one rank (cluster
search); threads never share an integrator (SystemHard); a retry starts from the
backup and keeps what stellar evolution did (AR); records are whole (output).  `PROJECT.json` lists every hazard
with its line and the properties that address it.

## 2. Plan

Done, in this order: the block schedule with its proofs, the list routines, the
Hermite integrator with its proofs and its refinement of the schedule; the loop over tree steps with
its proofs; the search of clusters over ranks with its proofs, composed with the
exchange of their particles; SystemHard's threads with proofs, down to a refinement of
`HardSystem`; the step control of AR with proofs.

Left, the most important first:

1. Option 2 of the Hermite group loop, which returns in the middle of
   `integrateGroupsOneStep` and is resumed, and the stellar evolution behind
   `GroupEvents`; with it the composition of `Hermite` and `ARStep`.
2. The tree-step loop: removal of particles with its energy sum, the path for a single
   particle, and an ideal leapfrog (a call moves from one synchronised time to another)
   that `TreeStep` implements.
3. `MergerOutput`: file, lock, threads and processes.
4. `ParticleGroup`: modes and modification flags.

Theorems left: every safety property of the passing runs is proved.  Worth proving next
are facts about the parts together: `TreeStep` over `HardDispatch`, and `Hermite` with the
groups that `NewGroupArray` builds.

## 3. Modules

| Module | Models | State and actions |
|---|---|---|
| `BlockStep` | `calcNextDtLimit`, `calcBlockDt2nd/4th` | operators: the largest step whose grid holds a time; the steps an acceleration may ask for |
| `BlockStepLoop` | the loops of these functions | `ShiftBit` is the bit loop, `Halve` the halving loop; any wanted step |
| `BlockSchedule` | what the integrator promises about time | `now`, `sched`; `Begin`, `Advance`, `Stop` |
| `IndexLists` | what the list routines compute | operators used by `Hermite` |
| `IndexListLoops` | the in-place loops of these routines | one iteration per step |
| `NewGroupArray` | `insertParticleIndexToGroup` and the array part of `breakGroups` on the real arrays | `origin`, `offset`, `used_mask`, break list |
| `Hermite` | `hermite_integrator.h` as driven by `HardIntegrator` | one variable per member of the class, `pc` is the call to be made next |
| `HermiteRefines` | | history variables; `Hermite` implements `BlockSchedule` |
| `KickDriftStep` | `kickdriftstep.hpp`, kick first | operators on the two flags and the counter of the class; tables of the three step modes |
| `TreeStep` | `integrateToTime`, `drift`, `finishInterruptDrift`, `initialStep`, and the clock of `SystemHard` | members of `PeTar` and `SystemHard`, the flags of a pass; `pc` is the place in the loop |
| `ClusterGraph` | what `searchNeighborOMP` gives a rank | the relation, the homes of the particles, entries and outer copies of a rank |
| `ClusterSearch` | `searchClusterLocal`, `connectNodes`, `setIdClusterGlobalIteration` | ids, messages and a `pc` per rank |
| `ClusterExchange` | `sendAndRecvCluster`, the kicks, outputs and drifts of connected clusters | the copies at home, on the hard rank and in the send buffer; messages; a task per rank |
| `ClusterStep` | | search, then exchange with the ids it found |
| `HardSystem` | what `SystemHard` promises about drifts | `Begin`, `Arrive`, `End` |
| `HardDispatch` | `driveForMultiClusterOMP`, `finishIntegrateInterruptClustersOMP` | threads, pool of integrators, interrupt list, energy sum |
| `ARStep` | `integrateToTime` of AR with `DsBackupManager` | step sizes, backup, counters, flags; `top` of the loop and `step` |
| `BlockScheduleProofs`, `MCLoopsProofs`, `TreeStepProofs`, `ClusterStepProofs`, `HardDispatchProofs`, `ARStepProofs`, `HermiteProofs` | | section 5 |
| `IndexListProofs` | | what `IndexLists` says of sequences without repetition, for the proofs about `Hermite` and the loops |
| `MCLoops`, `MCHermite`, `MCHermiteRefines`, `MCClusterStep` | | instances for TLC (the others need none) |

Names that a comment calls *wrong* are not used by the specifications.  They are
plausible mistakes in the definition they stand beside; putting one in its place makes
the property named in `PROJECT.json` fail, which shows that the property depends on
that code.

### Hermite

Times and steps are integers in units of `dt_min_`.  A step is `dt_max_` halved
a number of times; `Steps` is any set of positive numbers in which the smaller of
two divides the larger (`StepsAssumption`).

`Hermite` keeps the control: the order of calls of `HardIntegrator::initial` and
`integrateToTime`, both lists with their prefixes, masks, slots, the merger
queue, the local arrays of `adjustGroups`.  Actions correspond to calls, and to
one iteration of the loop where the iterations depend on each other
(`CheckNewGroup`, `BreakGroup`).

| Code | Action |
|---|---|
| `initialSystemSingle`, first `addGroups` | `Init`, `AddInitialGroups` |
| `initialIntegration` | `InitialIntegration` |
| `integrateGroupsOneStep` | `IntegrateGroupsOneStep` |
| `integrateSingleOneStepAct` | `IntegrateSingleOneStepAct` |
| `checkBreak`, `reduceGroupCMStepByHalfAndSortDtIndex` | `CheckBreak`, `ReducedByHalf` |
| `checkNewGroup`, `insertParticleIndexToGroup` | `CheckNewGroup`, `InsertParticleIndexToGroup` |
| the two `integrateToTimeList` calls | `IntegrateToTimeList` |
| `breakGroups` | `BreakGroup` per group, then `ReleaseSingles` |
| second `addGroups` | `AddNewGroups` |
| `modifySingleParticles` | `ModifySingleParticles` |
| `sortDtAndSelectActParticle` | `SortDtAndSelectActParticle` |

The data is abstracted.  Any step the block allows may be asked for; any listed
item may be the close neighbour of an active one; any group may come apart, along
any division in two branches (with zero-mass members outermost, as
`generateBinaryTree` puts them).  AR may report any event of `Events`, and one
report covers what a whole tree of members went through in several rounds: any
singles may vanish under a change, any number of members in mergers, all of them
in a destruction (`GroupEvents`).  A mass is zero or positive.  The order of `breakGroups` writing the two branches matters
only for the array, which is `NewGroupArray`'s subject; `Hermite` has sets.

### Tree step

In `TreeStep` time is counted in sixths of the tree step, so that the coefficients
1/6, 1/2 and 4/6 are whole; `time_kick` is the time the velocities have been kicked to.

| Code (`petar.hpp`) | Action |
|---|---|
| a call of `integrateToTime`, `finishInterruptDrift`, the test at 4377 | `IntegrateToTime`, `FinishInterruptDrift`, `CheckTimeBreak` |
| `correctSoftPotMassChange` | `CorrectSoftPotMassChange` |
| `removeParticles` to the tree force and `GradientKick` | `CreateGroup` |
| 4446 to 4504, `kick` | `KickStart` (first kick), `KickThrough` (no flag set) or `KickEnd` (a flag set) with `writeBackHardParticles` |
| `output`, a request to reoptimise | `Output` |
| return at the time limit | `Leave` |
| second kick | `SecondKick` |
| `drift`, return with interrupts | `Drift` |
| a new process reads a snapshot, `initialStep` | `Restart` |

A *system* is a `SystemHard`.  Every MPI rank has one for its isolated and one for its
connected clusters; the reductions in every pass make the ranks take the same branch,
so one behaviour stands for all of them, and several ranks are several members of
`Isolated` and `Connected`.  `Connected = {}` is the build without MPI.  Single stars
(`OneCluster`) are never interrupted.  Which systems are interrupted, and which find
changeover radii to update or stars with a new mass, is any choice.  A mass change is
followed from the hard particles (`changed`) to `dm` in `system_soft`, the list of
addresses, and the energy; `owed` is a history variable of changes that were written
back and not corrected.

### Clusters that span ranks

In `ClusterSearch` the ranks run one by one: a rank lowers the ids of its entries,
asks the owners of its copies (`AskOwners`, `ConnectNodes`), and then in rounds packs
and sends ids, receives, passes once over its entries in the order of its array
(`PassEntry`), and takes part in the reduction that ends the rounds.  `MPI_Isend` may
or may not have copied the buffer when the sender goes on: a message is read when its
receiver waits for it, and the sender may have gone on to its pass by then.  That the
next round cannot pack over a message under way is `BufferNotReused`.

`ClusterExchange` follows each particle through its three places: at home
(`system_soft`), on the rank its cluster is given to (`ptcl_hard_`), and in the send
buffer.  A star is its type, mass, backup of the mass, and the kicks and drifts it has
been through, which is as much as the exchanges can spoil.  Which stars are members of
groups is open, and so is which pairs go without a c.m. particle, among those that are
a whole cluster (`BareChoices`: `hard.hpp:2704` compares periods).  Each task of a rank
(`exchange`, `groups`, `kick`, `output`, `drift`, `return`) posts its messages and then
waits for those of the others.  MPI keeps messages of one kind between two ranks in
order, and the calls tell the kinds apart: `net` has a queue for each sender, receiver
and kind (`Channel`).

| Code | Action |
|---|---|
| `searchClusterLocal`, `setIdClusterImpl` | `SetIdClusterLocal`, `LocalDone`, `PassEntry` |
| `connectNodes` | `AskOwners`, `ConnectNodes` |
| `setIdClusterGlobalIteration` | `PackIds`, `ReceiveIds`, `PassEntry`, `SynchronizeConditionalBranchOR` |
| `sendAndRecvCluster` | `SendCluster`, `RecvCluster` |
| group search on the hard rank, and what the homes learn of it | `FindGroups`, `GroupsKnown` |
| `kickClusterAndRecoverGroupMemberMass`, `kickSend`, `SendSinglePtcl` | `Kick`, `RecvSingle` |
| `writeAndSendBackPtcl` in outputs, drifts and before a return | `Output`, `Drift`, `Return` and their waits |

### Threads of SystemHard

A thread of `HardDispatch` takes the next cluster (`TakeCluster`) or the next entry of
the interrupt list (`TakeInterrupted`), integrates it, and either leaves it interrupted
and takes a fresh integrator (`Interrupt`, `TakeIntegrator`, `CheckPool`) or adds its
energy (`ReadEnergy`, `AddEnergy`: an unsynchronised `+=` is a read and a write).  After
the loop `RegisterInterrupted` makes the list, `Compact` removes its finished entries
one by one.  The increment of `hard_int_front_ptr` is atomic, as its pragma says; the
limit is tested after it.  Whether an integration is interrupted is open.

### Step control of AR

`ARStep` is one call of `integrateToTime`.  What a step yields is open: any
gain of time the step size allows, negative ones included, and any error counted in
powers of two above the limit.  So is what an event leaves (`MassLeft`): a change may
take the mass of a single, a merger that of any number of particles.
`Backup`, `Restore` and `Modify` are the top of the loop; the cases after a step (`ReduceForError`, `ReduceNegative`, `Proceed`, `Overshoot`, `Finish`,
`Abort`) are the branches of the code, in its order.  `ds_backup` is `DsBackupManager`.

## 4. Runs

| Run | Instance | Shows |
|---|---|---|
| `MCLoops` | schedule: 4 items, steps 1 2 4 8, end 16; loops: times to 32, lists to 7; array: 8 particles, 2 old groups | the promises of the schedule; the loops compute the operators the other modules use, and end; new groups hold their members without sharing or overrun |
| `HermiteSafety` | 4 particles, steps 1 2 4, end 4, all events | particles, groups and lists stay sound, groups are dissolved at the current time, every turn is a step of `BlockSchedule` |
| `HermiteLive` | 3 particles, steps 1 2 4, end 4, all events | the end is reached unless no mass is left |
| `TreeStep` | kdkdk, 2 isolated and 2 connected systems, one isolated with evolving stars, output every 2 steps, calls to 5, 12, 20, reoptimisation, restarts | kicks pair, clocks agree, outputs synchronised and numbered, changeovers and mass changes applied; every call returns |
| `MCClusterStep` | 5 particles on 3 ranks: a line, a ring, a triple beside a pair, two pairs; 3 distributions, 4 plans | one id per cluster; each cluster whole on one rank; messages as long as expected; all copies kicked and drifted alike; ranks finish |
| `HardDispatch` | 3 clusters, 2 threads, 2 spare integrators, 4 interruptions, time 3 | integrators are not shared, the list is exact, the clusters drift together; calls return |
| `ARStep` | end 7, steps 1 2, steps of up to 4 per unit, both options, 2 events | retries keep the modifications and advance, the worst event is returned; the call returns |
| `TreeStepMassLost`, `TreeStepReturn`, `TreeStepGradient`, `HermiteDissolved`, `HardEnergy` | small | findings below |

**Bounds.** *Loops.* `Word` shortens the 64 bits of the loop's counter to 2^8, which is
larger than any time tried.  Array runs are larger than anything the Hermite runs
produce: a shift overlaps when a segment of two is shifted by three, and 8 particles
allow that with two old groups.  `MCLoops` puts parts side by side that share nothing;
a behaviour runs one of them.

*Hermite.* Two groups at once, a slot reused out of order, and a group of three
that loses a member need four particles.  (Five particles, steps 1 2 and end 2 were
tried too, with the same result: a group of five
members is the smallest one reported as destroyed with mass left.)  Three step levels are what it takes for an
inactive item two levels above an active one; the end is a multiple of the largest
step because PeTar chooses `dt_max_` as the tree step divided by a power of two.
`FloatMax` (`NUMERIC_FLOAT_MAX`) is any time after the last possible one.  Particles
are symmetric in the safety run: the abstract steps of a permuted behaviour are the
permuted abstract steps, and its properties have no liveness part.  The liveness runs
use no symmetry.

*Tree step.* The latest time that is asked for (`Breaks`) is up to four tree steps.
The state repeats with the output interval apart from the clock and
the snapshots, so two intervals and calls that end inside a step (5, 20) or on an
output (12) show every combination of flags.  Two systems of a kind are needed for
one to be interrupted while its like is not.  `DtSnap` is a multiple of the tree step
because `initialParameters` makes it so (`petar.hpp:3803`).  `SnapshotsNumbered` is
about `write_style` 1 (a file per output) and a first run at time 0.
`MassChangesCorrected` is checked for stars of an isolated system, where it holds;
`TreeStepMassLost` shows that it does not for connected ones.

*Clusters.* Five particles in a line over three ranks take several rounds for the
lowest id to arrive, with a rank between two others; the ring makes two ranks hold
equally many particles of a cluster, where the tie decides who gets it; triple and
pair give a rank a cluster to keep, one to give away and one it has no part in.  The
entries of one rank are in rising order of ids and those of the others in falling
order, since the pass depends on it.  `Evolving = {2}` is a star that changes its mass
away from home in some distributions and at home in others.

*Threads.* Three clusters for two threads: one cluster starts after another is
interrupted, while the other thread is anywhere.  `NHardInt = 2` is small enough for
the pool to be exhausted.  `MaxInterrupts` and `MaxTime` bound the guards of
`Interrupt` and `Drive` only.

*AR.* `NInitial`, `NReduceLevel` and `StepCountMax` stand for 5, 10 and the parameter
of the user; they are reached.  Repeated reductions for the error need `ErrMax` of 2;
that instance was run once with one event (5.4 million states), with the same result.

**Stopping.** The Hermite, loop and tree-step modules stutter where the code returns or
are called again, so deadlock is checked: a deadlock is a call that cannot be made.
`MCClusterStep`, `HardDispatch`, `HardEnergy` and `ARStep` end (ranks at the end of
their step, a caller that asks for no more, a failed assertion, the return), so their
configurations do not check it; their liveness properties say that they do not stop
anywhere else.

**Fairness.** `FairSpec` of `Hermite` and `ARStep` and the loop modules have weak
fairness of the whole next-state relation (`TreeStep`: of all of it but `Restart`).  One
thread runs an integrator and never waits for another, so it takes its next step if
there is one (`TreeStep`: the process waits only for ranks that are in the same place
of the loop, and is called again as long as its caller wants); no fairness of
particular choices is assumed (a group may be interrupted in every step).  In
`ClusterStep` each rank is fair by itself, and so is the reduction once all ranks have
entered it; what a rank waits for is a guard of its receive.  In `HardDispatch` every
thread is fair, and the code after a loop; the caller need not call, and an
integration may always be interrupted (up to the bound).  Liveness of `Hermite` holds
because a cut step never moves the clock back and a new step is at least `dt_min_`;
of `ARStep` because `step_count_max` ends what a step that gains nothing would not.

### Findings

* `HermiteDissolved` (`hermite_integrator.h:2140`): the comment at 2138 says that
  modified groups are integrated to the current time, but the groups in the
  `n_break_no_add` part of the break list are not passed to `integrateToTimeList`.
  An inactive group that joins a new group is dissolved with its c.m. behind.
* `TreeStepMassLost` (`petar.hpp:1975`): `finishInterruptDrift` declares a local
  `mass_modify_list` for the connected clusters that hides the member.  Their changes
  of mass are written back and never corrected in the energy (comment at 2689).
* `TreeStepReturn` (4377): if the drift that reaches the time limit is interrupted, the
  call that finishes it returns 0 at once.  The closing kick, the last output and the
  update of changeovers are missing; `checkTimeConsistence` would fail.
* `TreeStepGradient` (4437): the comment says that the gradient correction is for the
  middle kick; the counter is read before it has moved, and the correction goes to the
  kick between two steps.
* `HardEnergy` (`hard.hpp:2486`): the energy is the "cumulative energy change" (121),
  but the threads of an `omp parallel for` add to it without a reduction or an atomic;
  of two additions one may be lost.

More observations from the reading have no run:

* `hermite_integrator.h:1662`, 1703: the guard `getNextTime()>time_+cm.dt` of the
  protection against an early quit (comments at 1659, 995) is evaluated after `time_`
  has become the next time, so it is false in every turn of the loop (`NeverHalved`).
* 2713: when the last particles lose their mass (two destroy each other, or a remnant
  vanishes) nothing is left in the lists, and the assertion after the sort fails.
  `Hermite` stops there (`nothingActive`), and `ReachesEnd` allows for it.
* `ar_interaction.hpp:969`: a return of 3 is taken for a destroyed branch ("if both branch
  has destroyed"), but a branch returns it also for a single that vanished beside a pair
  that did not.  With five members a group is then reported as destroyed, with mass left.
* `symplectic_integrator.h:2268`: after a merger only a count of one particle with mass
  is looked for; if the remnant has vanished too, the loop goes on with none.
* 2475: a debug check indexes a table that has an entry per listed group with slot
  numbers, which may be larger (the comment at 1586 warns of exactly that).
* `symplectic_integrator.h:2583`: "if error does not reduce much, do not modify step
  anymore", but the condition (a ratio of the limit to the error) allows another
  reduction only when the error has more than doubled.  The temporary reduction after a negative step (2670) backs up `ds` after it
  was divided, so the recovery returns the reduced step.
* `hard.hpp:2472`: the assertion on the pool tests one value of the shared pointer;
  when two threads have passed it together it is not seen.
* `hard.hpp:2184` (single clusters) and `petar.hpp:2769` (`removeParticles`) add to
  energies of all threads in the same way as `HardEnergy`.
* `petar.hpp:1681`: with `KDKDK_4TH` a kick adds `_dt*_dt*acorr/48` to sent particles,
  but `_dt*9/192*_dt*_dt*acorr` (1601, 1633) to single stars and members at home.

## 5. Proofs

All theorems are about every value of the constants that the named assumptions allow.

### The block schedule

`BlockScheduleProofs` proves, for every set of items, every admissible set of steps
and every end, that `BlockSchedule` implies `TypeOK`, `OnGrid`, `NeverOvertakes`,
`StepsNest` and `EndsTogether`.  Assumptions: `StepsAssumption` and
`TimeEndAssumption` (every step divides the end).

The inductive invariant is `Inv == TypeOK /\ OnGrid /\ now <= TimeEnd` (`NextInv`,
`SpecInv`).  `OnGrid` is needed because the promises are about due times, and a due
time says something about other items only when it is a multiple of steps.  The clock
bound follows from it: every step divides `TimeEnd`, so a step begun before the end
is over by then (`DueBounds`).  When the clock moves to the earliest due time, an
item that is kept is due strictly later, and a restarted item begins at the clock
with a step whose grid holds it (`RescheduleKeeps`).  The promises are consequences
of `Inv` in each state, by arithmetic: of two steps the smaller divides the larger
(`FinerGrid`), so a due time is a multiple of every smaller step (`NextOnGrid`), and
two grid times that differ are a whole step apart (`GridApart`).  For
`NeverOvertakes` the step compared may also be larger than that of the item;
`InsideIsFiner` excludes it, since a grid time strictly inside a step belongs to a
smaller step.  `EndsTogether` needs that the end is on every grid.

The step lemmas about divisibility are stated once and cited by name.

### The loops of the Hermite integrator

`MCLoopsProofs` proves the properties of the loops that are checked by themselves.

*Block steps.* The loops of `block_time_step.h` compute what the other
modules take for granted (`LargestStepFound`).  For any number of halvings of `dt_max_`
(`HalvingAssumption`) and every time below the word (`LoopAssumption`), the bit loop
ends with the largest step whose grid holds the time, and the halving loop with the
largest of those that is not above the wanted one, or aborts when there is none.  The
invariant `BlockInv` says of the bit loop that what it has shifted out is a step or a
multiple of `dt_max_` and the rest of the time a multiple of it (`Shifted`), and of the
halving loop that every longer step on the grid has been refused (`Halved`).

*Lists.* The loops that remove and move entries in place compute what `IndexLists` says
and `Hermite` uses, for lists of any length, any marked entries and prefixes
(`ListsAreEdited`, `ArrayAssumption`).  `ListsInv` says how far each loop has come, in
terms of the *rank* of a place, the number of places up to it that stay: what has been
looked at stands at its rank, what has not is where it was, and the prefixes are counted
by rank as soon as the loop has passed them (`Removing`); of the interrupted groups the
last ones are out, what stays behind them has moved by as many places, and nothing in front
of them has moved (`Moving`); of an address list the last entries are gone, marked or
moved forward (`Replacing`).

*New groups.* `NewGroupsAreWhole` is about the arrays of new groups, for any number of
particles and slots and any sequence of insertions and branches.  `ArrayInv`, which TLC
checked first, adds to the properties that the used part of the array is one segment per
group from 0 on (`TopsOK`), that it is injective as a whole and holds nothing of a group
that waits to be broken (`FillOK`), and that the mask keeps members of groups out of the
search (`UsedOK`).  Injectivity gives the bound: what is in the array and what is
about to be written are different particles, so together they are at most `NParticle`
(`Fits`); nothing in the code tests it.  An insertion goes through `Room`: the copies of
one segment turn it round and lose nothing, also where source and target overlap
(`CopyProps`), so after the copy for group `k` the free places are in front of it and
every later segment is a permutation of itself (`RoomMoves`, `OpenedRoom`).

Both models write an inner loop as a fold.  `FoldExists` shows that the function by
which the community modules define a fold exists, so a fold is the last of a chain of
lists, one for each iteration (`ShiftChain`, `CopyChain`, `OpenedChain`), along which
what an iteration keeps is carried (`Upwards`).

### The Hermite integrator

`HermiteProofs` proves for any finite set of at least two particles, any steps, end and
stellar events (`StepsAssumption`, `HermiteAssumption`) type correctness,
`ParticlesKept`, `GroupsSound`, `SortedLists` and `BrokenAtNow`.  (That particles are
not numbers keeps them apart from the slots.)

The properties speak of the moments between calls; what a call leaves to the next one is
in the inductive invariant `Inv`, which TLC checked on the instance of section 4 first.
Its parts are
* `ListsOK`: a list names nothing twice, a slot is listed or on the stack of free slots
  (both only while groups are being dissolved), and what waits for `initialIntegration`
  exists only between `addGroups` and that call;
* `MembersOK`: groups in use (`Busy`) share no member, their members are masked, and two
  of them have mass unless the group is to be broken; hence there are at most half as
  many slots as particles (`TwoEach`), since a slot is added only when all others are in use;
* `AdjOK`: where the particles with mass are in the middle of `adjustGroups`.  In the
  search (`Found`) the new groups are the members of what `used_mask` assigns to them,
  and only what is listed and not masked has joined.  While groups are dissolved
  (`DissolvingOK`) a particle with mass is listed, in a group in use, released, or in a
  new group; after the release (`AddingOK`) no group in use shares a member with a new one;
* `TimeInv`: entries behind the active prefix are under way and sorted (`Waiting`),
  between the two prefixes they have a step from the clock (`Started`), and what is
  about to leave the lists (`Leaving`) is exempt, because its times are never read again.

The step that carries `SortedLists` is arithmetic: an entry that has just been given a
step of the clock's block is due no later than one that is under way, and its step is
no longer (`SortedOrder`, by `GridApart` and `InsideIsFiner` of `BlockScheduleProofs`).
It fails as soon as an inactive entry is behind or off its grid; so the invariant has to follow
times through every list routine.  These are described by lemmas on sequences:
what stays keeps its order and moves past the prefixes by as much as has gone before it
(`RemovedProps`, `RemainingProps`), interrupted groups move into the prefix
(`MovedProps`), the sort permutes the prefix (`SortedProps`), free slots are taken from
the top and are distinct (`SlotsOfNew`).  `NextInv` has one lemma per action.  The
lemma for `checkBreak` shows more: no step is ever halved there (`NeverHalved`),
because the next time is the clock by then.

`ImplementsSchedule` proves that `Hermite`, with the record that `HermiteRefines` makes
of each sort, implements `BlockSchedule`.  The mapping is the identity on `now` and
`sched`; a sort maps to `Begin` or `Advance`, every other call to a stutter.  The
invariant `Recording` says what connects a sort with the one before: the next time is still the earliest
that anything recorded is due (`FirstDue`), and whatever is `UnderWay`, behind the
active prefix and not about to leave, has the time and step that were recorded.  So
each call must leave these entries alone (`Untouched`, a lemma per action); this is where
a call that brings an inactive particle to the clock without taking it out of the list,
or a prefix that is counted wrong, would show.  At the sort the
entries under way are those the schedule keeps, all others were `Started` at the clock with
a step of its block (`SortChoice`).  `ScheduledInTime` applies the theorems about
`BlockSchedule` to the record: what `Hermite` has scheduled is on its grids, is
never overtaken, and is at the end of the tree step when the clock is.

### The tree-step loop

`TreeStepProofs` proves, for every step mode, every finite number of systems, every
output interval and every sequence of calls, interrupts and restarts, that `TreeStep`
implies `KickFollowsDrift`, `OriginsFollow`, `WrittenBack`, `OutputSynchronised`,
`SnapshotsNumbered`, `ChangeoversApplied` and `TypeOK`.
Assumptions: `StepModeAssumption` and `TreeStepAssumption`.

`KickFollowsDrift` says how far the velocities are ahead of the positions in each
place of a step (`Lead`).  The lemmas `StartLeads`, `ThroughLeads`, `EndLeads` and
`DriftLags` prove for each call of `KickDriftStep` that the lead changes by what the
call returns, from the tables of the step mode (`OnePair`, `TwoPairs`).  The inductive
invariant `Inv` adds what each action needs of the others: a step that is closed has
its counter at 0 and kicks next (`Phases`; else the first kick would not be followed
by the first drift of the table), the loop runs with no interrupted system (else the
drift of an interrupted one would be counted twice), every system is at the time of
the loop less the drift it has to finish (`OriginsFollow`), and all systems but those
that wait for an interrupted one have been written back (`OthersWritten`).
`NextInv` has one step per action; the first four theorems follow from `Inv` in each
state.  `Inv` and the invariants below were also checked by TLC on the instances of
section 4.

* *Snapshots.* `FileInv` adds that the clock is on the grid of the tree step wherever
  an output can be due (`OnTreeGrid`) and how many files have been written by then
  (`Files`).  An interrupted call ends off the grid of outputs, so the next call neither
  skips a file nor writes one twice; a restart takes the number from the file it reads.
* *Mass changes.* `MassInv` follows a change from the drift that finds it to the
  correction.  `MassChangesAreCorrected` needs that no evolving star is in a connected
  cluster (`Evolving \cap Connected = {}`, which builds without MPI satisfy):
  without it `TreeStepMassLost` is a counterexample.  `OnlyConnectedOwed` has no such
  hypothesis and says that the connected clusters are the only ones to lose a change.
* *Types.* `TypeCorrect` keeps every time a natural number, which needs the lead of the
  kicks over the drifts.

### The cluster search

`ClusterStepProofs` proves for any particles and ranks, any symmetric relation, any
distribution and any order of the entries (`ClusterGraphAssumption`) that when the
rounds end every entry of a cluster has the cluster's lowest id on every rank
(`SpecIdsAreClusters`), that ids never leave their cluster, and that a buffer is not
packed while a message of it is under way.  `IsolatedIsWhole` says that a cluster a
rank takes for isolated is a cluster of the whole relation.

In `IInv`, `PhaseInv` says how far ranks can be apart: a message under way is of the
round its sender is in.  `RoundInv` carries the conclusion through a round: as long as
the flag of a rank is down it still has the ids it sent, its copies are not above what
the owners sent, and the entries it has visited are not above their neighbours.  When
the reduction finds all flags down this is `Agreed` for all ranks at once (`DoneInv`):
an id is at most that of each neighbour, by symmetry equal, so it is constant on the
least closed set of a particle, its cluster.  `IdsStayInCluster` and `NotAboveOwnId`
make it the lowest.

### The exchange of clusters

`ClusterStepProofs` goes on with the composition of search and exchange.  It proves, for any finite
set of particles and any plan of a step (`PlansAssumption`), that every cluster is
whole on one rank and on no other (`WholeClustersOnce`), that a rank receives as much as
it has worked out that it will and messages of the kind it waits for
(`MessagesAsExpected`), that all copies of a star are kicked and drifted alike and its
home ends with what its hard rank made of it (`CopiesKickedAlike`, `StarsHomeAlike`), and that no
change of mass is missing from the list of its home (`MassChangesAreListed`).

The argument has two halves.  Before the particles are dealt the invariant is that of the search.
When the rounds have ended, the ids are the clusters (`IInvIdsAreClusters`), so all
ranks count the same particles for a cluster and choose the same hard rank for it,
with the same tie break (`HardRank`): sender and receiver of every star agree
although neither asks the other (`DealOK`).  From then on the invariant is
`ExchangeOK(K)`, where `K` gives the kind of each star (single, member of a group with
a c.m. particle, member of a pair that goes without one), chosen once when the groups
are found (until then it is free, `KindsFree`).  `NetAt` says which messages a channel holds: those its
sender has posted in the tasks it has done and the receiver has not taken, so a
rank may be ahead of another by a task but not by two of a kind.  `HardOK`, `LocalOK`,
`AwayOK` and `ListOK` say for each place of a star how many of the kicks and drifts
of the plan it has been through, as a function of how far its rank has come
and of the kind of the star: a member with a c.m. particle is kicked on its hard rank,
where the force on the c.m. is, the others at home, from where the kick is sent on.
`StepInvariant` has one step per task.

### The threads of SystemHard

`HardDispatchProofs` proves for any number of clusters, threads and spare integrators
(`HardDispatchAssumption`) type correctness, `OwnIntegrators`, `ListExact`, and that
`HardDispatch` implements `HardSystem` (`DriftTogether`): the code sees threads, a pool
and a list, its caller a set of clusters that drift together.

`IInv` has a part per piece of state.  `WorkInv`: a thread holds the integrator of its
cluster, and no two hold the same.  `PoolInv`: integrators in use are below the
pointer, and the fresh one of a thread is nobody's.  `StatusInv`: a cluster keeps its
integrator as long as it is interrupted or in work.  `ListInv`: the list has every
initialised integrator once, and how far a loop over it has come.  `TimeInv`: the
clusters that are not `Behind` have arrived.  The refinement (`StepImplements`) maps an
integration that ends to `Arrive`, the end of a call with an empty list to `End`, and
every other step to a stutter.

### The step control of AR

`ARStepProofs` proves for any end, steps, errors and limits (`ARStepAssumption`) type
correctness, `ModificationsKept`, `ReportsWorst` and `BackupsAdvance`.  `IInv` is
`TypeOK` with `StarInv` (the particles show every event once, and so does the backup
unless a new one is about to be made), `TimeInv` (a step starts from the backup's time,
and a new backup is ahead of it) and `WorstInv`.  Type correctness needs the arithmetic of the
steps (`QuotientIsDs`, `StretchedIsDs`, `GainIsBounded`).

### Only model-checked

Liveness: `LoopsEnd`, `ReachesEnd`, `CallReturns`, `CallsReturn`, `RoundsEnd`, `StepEnds`
and `Returns`.  They rest on fairness, and neither fairness nor `ENABLED` is within the
prover's reach; TLC checks them on the instances of section 4.  Every invariant and every
step property of a passing run is stated by a theorem.

What a fold computes over data of any size cannot be proved by the library's induction
theorems either.  The proofs that need one (`ListsAreEdited`, `NewGroupsAreWhole`) use the
fold only through the chain of partial results that defines it, whose existence
`FoldExists` gives; the loop's own steps then do the induction.

## 6. Not modelled

*Data.* Forces, predictors, energies, the neighbour search and its velocity criterion,
orbits, slow-down and changeover radii: the properties do not tell their values apart.

*Hermite and AR.* The abort when the wanted step is below `dt_min_` ends the program
and is left out of `Hermite` (`BlockStepLoop` has it).  The resumption of option 2
inside the Hermite group loop, the isolated-group branch of the driver, tidal tensors:
see the plan.

*Tree step.* The run with a single particle, removal of particles, dark matter and the
external potential, the extra write-back of builds with `CLUSTER_VELOCITY`, and the
drift-first mode of `KickDriftStep`, which nothing selects.

*Parts.* The merger output is a lock around one append, taken after the file was opened
with `O_TRUNC`; what it does depends on the file system.  The containers
check single calls.  Artificial particles, particle types, status and profiles
are data layout and sums.

*Size.* Most of the repository's lines are not PeTar's logic: FDPS is vendored
with its samples, the force kernels are arithmetic for several machines, and `mcluster`,
BSE, galpy, the python tools and the AMUSE interface are other programs or bindings.
They hold no state that the parts above share, so the map covers a small share of all
lines and most of the control of the three drivers.
