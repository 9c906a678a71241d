------------------------------ MODULE MCLoops -------------------------------
(***************************************************************************)
(* The parts of the Hermite integrator that are checked by themselves: the *)
(* abstract block schedule, the loops that compute a block step, the loops *)
(* that edit index lists and the array of new groups.  They share no       *)
(* state: a behaviour is one of one part, the others stay as they are.     *)
(***************************************************************************)
EXTENDS BlockSchedule, Sequences

CONSTANTS TimeMax, Word, MaxLength, NParticle, NGroup

ASSUME LoopAssumption == TimeMax \in Nat /\ Word \in Nat /\ TimeMax < Word
\* dt_min_ is dt_max_ halved some number of times (setDtRange).
ASSUME HalvingAssumption ==
    /\ 1 \in Steps
    /\ \A d \in Steps \ {1} : d % 2 = 0 /\ d \div 2 \in Steps
    /\ \E m \in Steps : \A d \in Steps : d <= m
ASSUME ArrayAssumption == MaxLength \in Nat /\ NParticle \in Nat \ {0} /\ NGroup \in 0..NParticle

VARIABLES part, blockPc, time, bitmap, c, limit, dtRef, dt,
          listPc, given, list, loc,
          arrayPc, member, broken, origin, offset, nParticle, nGroup, used, noAdd

Block == INSTANCE BlockStepLoop WITH pc <- blockPc
Lists == INSTANCE IndexListLoops WITH pc <- listPc
Array == INSTANCE NewGroupArray WITH pc <- arrayPc

block == <<blockPc, time, bitmap, c, limit, dtRef, dt>>
lists == <<listPc, given, list, loc>>
array == <<arrayPc, member, broken, origin, offset, nParticle, nGroup, used, noAdd>>
parts == <<part, vars, block, lists, array>>

NoBlock == /\ blockPc = "idle" /\ time = 0 /\ bitmap = 0 /\ c = 1 /\ limit = 0 /\ dtRef = 0 /\ dt = 0
NoLists == /\ listPc = "idle" /\ given = << >> /\ list = << >> /\ loc = << >>
NoArray ==
    /\ arrayPc = "idle" /\ member = << >> /\ broken = {} /\ origin = << >> /\ offset = << >>
    /\ nParticle = 0 /\ nGroup = 0 /\ used = << >> /\ noAdd = << >>

PartsInit ==
    /\ Init
    /\ \/ part = "schedule" /\ NoBlock /\ NoLists /\ NoArray
       \/ part = "block" /\ Block!Init /\ NoLists /\ NoArray
       \/ part = "lists" /\ NoBlock /\ Lists!Init /\ NoArray
       \/ part = "array" /\ NoBlock /\ NoLists /\ Array!Init

ScheduleTurn == part = "schedule" /\ Next /\ UNCHANGED <<block, lists, array>>
BlockTurn == part = "block" /\ Block!Next /\ UNCHANGED <<vars, lists, array>>
ListsTurn == part = "lists" /\ Lists!Next /\ UNCHANGED <<vars, block, array>>
ArrayTurn == part = "array" /\ Array!Next /\ UNCHANGED <<vars, block, lists>>

PartsNext ==
    /\ ScheduleTurn \/ BlockTurn \/ ListsTurn \/ ArrayTurn
    /\ UNCHANGED part

\* A loop that has begun goes on.
PartsSpec ==
    /\ PartsInit /\ [][PartsNext]_parts
    /\ WF_parts(BlockTurn /\ UNCHANGED part)
    /\ WF_parts(ListsTurn /\ UNCHANGED part)

-----------------------------------------------------------------------------
\* The limit is the largest step on whose grid the time lies, the step the largest
\* below it that dt_ref allows, or none (calcNextDtLimit, calcBlockDt2nd).
LargestStep == Block!LimitIsLargest /\ Block!LargestAllowed

\* The in-place loops that remove and move entries of index lists compute what
\* IndexLists says, prefixes included (removeDtIndexFromTable,
\* integrateGroupsOneStep, removeNB*AddressFromTable).
ListsEdited ==
    part = "lists" => Lists!RemovedInOrder /\ Lists!InterruptedInFront /\ Lists!NeighboursKept

\* However insertions interleave, a segment holds what was put into its group, new
\* groups share no particle, nothing is written past the array, and a joined group
\* is dissolved once (insertParticleIndexToGroup, checkNewGroup, breakGroups).
NewGroupsHold == part = "array" => Array!SegmentsHold /\ Array!NoSharing /\ Array!JoinedOnce

\* The bit loop, the halving loop and the loops over lists end.
LoopsEnd ==
    <>(part = "block" => blockPc \in {"return", "abort"}) /\ <>(part = "lists" => listPc = "done")
=============================================================================
