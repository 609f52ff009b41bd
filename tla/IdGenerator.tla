---------------------------- MODULE IdGenerator -----------------------------
(***************************************************************************)
(* The generator of entity ids (CID_Generator).  The ids are divided into  *)
(* blocks; each keeps its free ids in an array, filled from the bottom,    *)
(* and the time one was freed last.  An id is taken from the top of the    *)
(* block whose last free is the longest ago, or it is asked for by value   *)
(* (an entity that is loaded keeps its id).                                *)
(***************************************************************************)
EXTENDS Integers

CONSTANTS
  tMinValue, tMaxValue,   \* 0 and 65534 in the code
  tBlockSize,             \* 256 in the code
  tInvalidValueID,        \* 65535 in the code
  MaxTime                 \* bound of the clock

ASSUME RangeAssumption ==
  /\ tMinValue \in Nat /\ tMaxValue \in Nat /\ tMinValue <= tMaxValue
  /\ tBlockSize \in Nat \ {0}
  /\ tInvalidValueID \in Nat /\ tInvalidValueID \notin tMinValue..tMaxValue
  /\ MaxTime \in Nat

VARIABLES
  m_tCount,           \* of each block: how many ids are free,
  m_tpIDs,            \* which (their places in the block), and
  m_tTimeID,          \* when one was freed last
  m_available_count,  \* number of blocks with free ids
  now,                \* Device.TimerAsync()
  held,               \* the ids that the program holds
  freed,              \* the ids that have been freed at least once
  result              \* what tfGetID returned last

blocks == <<m_tCount, m_tpIDs, m_tTimeID, m_available_count>>
generator == <<blocks, now, held, freed, result>>

Values == tMinValue..tMaxValue
m_tBlockCount == (tMaxValue - tMinValue) \div tBlockSize + 1
Blocks == 0..m_tBlockCount - 1
Places == 0..tBlockSize - 1

tfGetBlockByValue(v) == (v - tMinValue) \div tBlockSize
Place(v) == (v - tMinValue) % tBlockSize
Value(b, place) == place + b * tBlockSize + tMinValue

GeneratorTyped ==
  /\ m_tCount \in [Blocks -> 0..tBlockSize] /\ m_tpIDs \in [Blocks -> [Places -> Places]]
  /\ m_tTimeID \in [Blocks -> Nat] /\ m_available_count \in Int
  /\ now \in Nat /\ held \subseteq Values /\ freed \subseteq Values
  /\ result \in Values \cup {tInvalidValueID}

(* The ids of a block that are in its array.                               *)
FreeIn(b) == {Value(b, m_tpIDs[b][k]) : k \in 0..m_tCount[b] - 1}
FreeIds == UNION {FreeIn(b) : b \in Blocks}

(* The constructor frees every id and reverses the arrays.                 *)
InBlock(b) == IF b < m_tBlockCount - 1 THEN tBlockSize
              ELSE tMaxValue - tMinValue + 1 - b * tBlockSize

GeneratorInit ==
  /\ m_tCount = [b \in Blocks |-> InBlock(b)]
  /\ m_tpIDs = [b \in Blocks |-> [k \in Places |->
                  IF k < InBlock(b) THEN InBlock(b) - 1 - k ELSE 0]]
  /\ m_tTimeID = [b \in Blocks |-> 0] /\ m_available_count = m_tBlockCount
  /\ now = 1 /\ held = {} /\ freed = {} /\ result = tInvalidValueID
-----------------------------------------------------------------------------
(* SID_Block::operator<.                                                   *)
Before(a, b) ==
  /\ m_tCount[a] # 0
  /\ m_tTimeID[a] < m_tTimeID[b] \/ m_tCount[b] = 0

(* std::min_element: the first block that none is before.                  *)
MinElement(b) ==
  /\ \A a \in Blocks : ~Before(a, b)
  /\ \A a \in Blocks : a < b => \E c \in Blocks : Before(c, a)

TakenFrom(b, v) ==
  /\ m_tCount' = [m_tCount EXCEPT ![b] = @ - 1]
  /\ m_available_count' = IF m_tCount[b] = 1 THEN m_available_count - 1 ELSE m_available_count
  /\ result' = v /\ held' = held \cup {v}
  /\ UNCHANGED <<m_tTimeID, now, freed>>

(* tfGetID: the top of the block; R_ASSERT2(m_available_count).            *)
Get ==
  /\ m_available_count # 0
  /\ \E b \in Blocks :
       /\ MinElement(b) /\ m_tCount[b] # 0
       /\ TakenFrom(b, Value(b, m_tpIDs[b][m_tCount[b] - 1]))
  /\ UNCHANGED m_tpIDs

(* tfGetID of an id that is free ("has already been used!" otherwise): the *)
(* top takes its place.  Mutant: it does not.                              *)
GetThis_hole(v) ==
  /\ LET b == tfGetBlockByValue(v) IN
     \E k \in 0..m_tCount[b] - 1 : m_tpIDs[b][k] = Place(v) /\ TakenFrom(b, v)
  /\ UNCHANGED m_tpIDs

GetThis(v) ==
  LET b == tfGetBlockByValue(v) IN
  \E k \in 0..m_tCount[b] - 1 :
    /\ m_tpIDs[b][k] = Place(v)
    /\ m_tpIDs' = [m_tpIDs EXCEPT ![b][k] = m_tpIDs[b][m_tCount[b] - 1]]
    /\ TakenFrom(b, v)

(* vfFreeID.  Mutant: the block's time stays.                              *)
vfFreeID_timeless(v) ==
  LET b == tfGetBlockByValue(v) IN
  /\ v \in held
  /\ m_available_count' = IF m_tCount[b] = 0 THEN m_available_count + 1 ELSE m_available_count
  /\ m_tpIDs' = [m_tpIDs EXCEPT ![b][m_tCount[b]] = Place(v)]
  /\ m_tCount' = [m_tCount EXCEPT ![b] = @ + 1]
  /\ held' = held \ {v} /\ freed' = freed \cup {v}
  /\ UNCHANGED <<m_tTimeID, now, result>>

vfFreeID(v) ==
  LET b == tfGetBlockByValue(v) IN
  /\ v \in held
  /\ m_available_count' = IF m_tCount[b] = 0 THEN m_available_count + 1 ELSE m_available_count
  /\ m_tpIDs' = [m_tpIDs EXCEPT ![b][m_tCount[b]] = Place(v)]
  /\ m_tCount' = [m_tCount EXCEPT ![b] = @ + 1]
  /\ m_tTimeID' = [m_tTimeID EXCEPT ![b] = now]
  /\ held' = held \ {v} /\ freed' = freed \cup {v}
  /\ UNCHANGED <<now, result>>

Tick == now < MaxTime /\ now' = now + 1 /\ UNCHANGED <<blocks, held, freed, result>>

GeneratorNext == Get \/ (\E v \in Values : GetThis(v) \/ vfFreeID(v)) \/ Tick

GeneratorSpec == GeneratorInit /\ [][GeneratorNext]_generator
-----------------------------------------------------------------------------
(* The arrays hold exactly the ids that the program does not hold, each    *)
(* once: no id names two entities and none is lost.                        *)
EachOnce ==
  \A b \in Blocks : \A j, k \in 0..m_tCount[b] - 1 : m_tpIDs[b][j] = m_tpIDs[b][k] => j = k
PoolExact == FreeIds = Values \ held /\ EachOnce

(* Ids run out ("Not enough IDs") only when every one is held, and a block *)
(* that is chosen has one.                                                 *)
AvailableIff ==
  /\ m_available_count = 0 <=> FreeIds = {}
  /\ \A b \in Blocks : FreeIds # {} /\ MinElement(b) => m_tCount[b] # 0

(* What the generator promises: the ids that are not free are in use.      *)
G == INSTANCE IdGeneratorSpec WITH Ids <- Values, used <- Values \ FreeIds, given <- result
GivesUnusedIds == G!Spec

(* An id that has been freed (and may still be known to a client or a      *)
(* corpse) is not given again by itself while some block has only ids that *)
(* were never freed.                                                       *)
Untouched(b) == m_tCount[b] # 0 /\ \A v \in freed : tfGetBlockByValue(v) # b
FreshFirst ==
  [][(\E b \in Blocks : Untouched(b)) /\ Get => result' \notin freed]_generator
=============================================================================
