------------------------------ MODULE Sheduler ------------------------------
(***************************************************************************)
(* The engine's scheduler (CSheduler): once a frame it updates every       *)
(* real-time object and the other objects that are due, the longest due    *)
(* first.  An update may register, unregister, delete and create objects,  *)
(* the one being updated included: what cannot be done at once waits in    *)
(* Registration.  This is the release build, where the destructor of an    *)
(* object unregisters it once more.                                        *)
(***************************************************************************)
EXTENDS Integers, Sequences, FiniteSets, SequencesExt

CONSTANTS
  Objects,           \* addresses of scheduled objects
  NoObject,          \* NULL
  Period,            \* longest update interval, in ticks
  Batch,             \* updates between two looks at the clock (3 in the code)
  MaxLate,           \* ticks an entry is modelled to be late
  MaxItems,          \* entries of Items the model allows
  MaxRegistration    \* entries of Registration the model allows

ASSUME ObjectsAssumption == NoObject \notin Objects
ASSUME BoundsAssumption ==
  {Period, Batch, MaxLate, MaxItems, MaxRegistration} \subseteq Nat \ {0}

VARIABLES
  ItemsRT,           \* real-time objects
  Items,             \* the heap: entries [Object, at], at relative to now
  ItemsProcessed,    \* entries updated in this step
  Registration,      \* operations that wait for the end of the frame
  m_current_step_obj,
  b_RT,              \* ISheduled::shedule.b_RT, the objects it is set for
  phase,             \* where Update is; outside it m_processing_now is false
  it,                \* the loops' counters
  updating,          \* the object whose shedule_Update is running
  alive,             \* objects constructed and not destroyed
  needed,            \* objects whose shedule_Needed holds
  executed,          \* dbg_startframe: objects updated in this frame
  erased             \* real-time entries erased in this frame

lists == <<ItemsRT, Items, ItemsProcessed>>
owners == <<b_RT, alive, needed>>
frame == <<phase, it, executed>>
vars == <<lists, Registration, m_current_step_obj, owners, frame, updating, erased>>

m_processing_now == phase # "idle"

(* Code other than the scheduler's runs outside Update and in the updates. *)
Calls == phase = "idle" \/ updating # NoObject

Entries == [Object : Objects \cup {NoObject}, at : (-MaxLate)..Period]
ItemReg == [OP : BOOLEAN, RT : BOOLEAN, Object : Objects]

TypeOK ==
  /\ ItemsRT \in Seq(Objects) /\ Items \in Seq(Entries) /\ ItemsProcessed \in Seq(Entries)
  /\ Registration \in Seq(ItemReg)
  /\ m_current_step_obj \in Objects \cup {NoObject}
  /\ b_RT \subseteq Objects /\ needed \subseteq alive /\ alive \subseteq Objects
  /\ phase \in {"idle", "rt", "step", "done"} /\ it \in Nat
  /\ updating \in Objects \cup {NoObject} /\ executed \subseteq Objects /\ erased \in Nat

Init ==
  /\ ItemsRT = <<>> /\ Items = <<>> /\ ItemsProcessed = <<>> /\ Registration = <<>>
  /\ m_current_step_obj = NoObject
  /\ b_RT = {} /\ alive = {} /\ needed = {}
  /\ phase = "idle" /\ it = 0 /\ updating = NoObject /\ executed = {} /\ erased = 0
-----------------------------------------------------------------------------
(* Registered, the debug build's own check: the last operation that waits  *)
(* for o decides, else o is registered when it is in one of the lists or   *)
(* is being updated.                                                       *)
InItems(list, o) == \E k \in DOMAIN list : list[k].Object = o
Listed(o) == o \in ToSet(ItemsRT) \/ InItems(Items, o) \/ InItems(ItemsProcessed, o)
Waiting(o) == {k \in DOMAIN Registration : Registration[k].Object = o}
Registered(o) ==
  IF Waiting(o) # {} THEN Registration[Max(Waiting(o))].OP
  ELSE Listed(o) \/ m_current_step_obj = o

(* internal_Unregister on the lists s: a real-time entry is erased, another *)
(* one loses its object, an object being updated is not pushed back.       *)
Unregistered(s, o, rt) ==
  LET k == SelectInSeq(s.items, LAMBDA T : T.Object = o) IN
  IF rt /\ o \in ToSet(s.rt)
  THEN [s EXCEPT !.rt = RemoveFirst(@, o), !.found = TRUE]
  ELSE IF ~rt /\ k # 0
  THEN [s EXCEPT !.items[k].Object = NoObject, !.found = TRUE]
  ELSE IF s.current = o
  THEN [s EXCEPT !.current = NoObject, !.found = TRUE]
  ELSE [s EXCEPT !.found = FALSE]

Lists(items) == [rt |-> ItemsRT, items |-> items, current |-> m_current_step_obj,
                 found |-> FALSE, todo |-> Registration]

(* internal_Register.                                                      *)
Entered(s, o, rt) ==
  IF rt THEN [s EXCEPT !.rt = Append(@, o)]
        ELSE [s EXCEPT !.items = Append(@, [Object |-> o, at |-> 0])]

(* One turn of internal_Registration's loop: a registration is dropped with *)
(* the unregistration that follows it.                                     *)
Pair(R, todo) == SelectInSeq(todo, LAMBDA X : ~X.OP /\ X.Object = R.Object)
OneRegistration(s) ==
  LET R == Head(s.todo)
      rest == Tail(s.todo)
      pair == Pair(R, rest) IN
  IF ~R.OP THEN Unregistered([s EXCEPT !.todo = rest], R.Object, R.RT)
  ELSE IF pair # 0 THEN [s EXCEPT !.todo = RemoveAt(rest, pair)]
  ELSE Entered([s EXCEPT !.todo = rest], R.Object, R.RT)

(* internal_Registration, with the entries it finds in the heap: turn after *)
(* turn until nothing waits.                                               *)
AllLists == [rt : Seq(Objects), items : Seq(Entries), current : Objects \cup {NoObject},
             found : BOOLEAN, todo : Seq(ItemReg)]
internal_Registration(items) ==
  LET done[s \in AllLists] == IF s.todo = <<>> THEN s ELSE done[OneRegistration(s)] IN
  /\ \E s \in {done[Lists(items)]} :
       ItemsRT' = s.rt /\ Items' = s.items /\ m_current_step_obj' = s.current
  /\ Registration' = <<>>
-----------------------------------------------------------------------------
(* The calls.                                                              *)

(* Mutant: a real-time object is in the list at once.                      *)
Register_at_once(o, rt) ==
  /\ Calls /\ o \in needed /\ ~Registered(o)
  /\ IF rt THEN ItemsRT' = Append(ItemsRT, o) /\ UNCHANGED Registration
     ELSE /\ Len(Registration) < MaxRegistration
          /\ Registration' = Append(Registration, [OP |-> TRUE, RT |-> rt, Object |-> o])
          /\ UNCHANGED ItemsRT
  /\ b_RT' = IF rt THEN b_RT \cup {o} ELSE b_RT \ {o}
  /\ UNCHANGED <<Items, ItemsProcessed, m_current_step_obj, alive, needed, frame, updating, erased>>

(* A caller registers an object that is not registered (VERIFY).           *)
Register(o, rt) ==
  /\ Calls /\ o \in needed /\ ~Registered(o) /\ Len(Registration) < MaxRegistration
  /\ Len(Items) < MaxItems
  /\ Registration' = Append(Registration, [OP |-> TRUE, RT |-> rt, Object |-> o])
  /\ b_RT' = IF rt THEN b_RT \cup {o} ELSE b_RT \ {o}
  /\ UNCHANGED <<lists, m_current_step_obj, alive, needed, frame, updating, erased>>

(* Mutant: Unregister always waits for the end of the frame.               *)
Unregistering_later(o) ==
  /\ Len(Registration) < MaxRegistration
  /\ Registration' = Append(Registration, [OP |-> FALSE, RT |-> o \in b_RT, Object |-> o])
  /\ UNCHANGED <<ItemsRT, Items, m_current_step_obj, erased>>

(* What Unregister does: at once if it can while Update runs.              *)
Unregistering(o) ==
  LET s == Unregistered(Lists(Items), o, o \in b_RT) IN
  IF m_processing_now /\ s.found
  THEN /\ ItemsRT' = s.rt /\ Items' = s.items /\ m_current_step_obj' = s.current
       /\ erased' = erased + Len(ItemsRT) - Len(s.rt)
       /\ UNCHANGED Registration
  ELSE /\ Len(Registration) < MaxRegistration
       /\ Registration' = Append(Registration, [OP |-> FALSE, RT |-> o \in b_RT, Object |-> o])
       /\ UNCHANGED <<ItemsRT, Items, m_current_step_obj, erased>>

(* A caller unregisters an object that is registered, or that the          *)
(* scheduler has dropped because it was not needed.                        *)
Unregister(o) ==
  /\ Calls /\ o \in alive /\ (Registered(o) \/ o \notin needed)
  /\ Unregistering(o)
  /\ UNCHANGED <<ItemsProcessed, owners, frame, updating>>

(* The destructor, of an object that is not registered.                    *)
Delete(o) ==
  /\ Calls /\ o \in alive /\ ~Registered(o)
  /\ Unregistering(o)
  /\ alive' = alive \ {o} /\ needed' = needed \ {o}
  /\ UNCHANGED <<ItemsProcessed, b_RT, frame, updating>>

(* A new object, perhaps where one that was deleted was.  The constructor  *)
(* leaves b_RT as it finds it.                                             *)
Create(o) ==
  /\ Calls /\ o \notin alive
  /\ alive' = alive \cup {o} /\ needed' = needed \cup {o}
  /\ b_RT' \in {b_RT \ {o}, b_RT \cup {o}}
  /\ UNCHANGED <<lists, Registration, m_current_step_obj, frame, updating, erased>>

(* setDestroy: the object asks for no more updates.                        *)
NotNeeded(o) ==
  /\ Calls /\ o \in needed
  /\ needed' = needed \ {o}
  /\ UNCHANGED <<lists, Registration, m_current_step_obj, b_RT, alive, frame, updating, erased>>
-----------------------------------------------------------------------------
(* Update.                                                                 *)

(* Frames come a tick apart, or within one millisecond of each other.      *)
Later(list, ticks) == [k \in DOMAIN list |->
                        [list[k] EXCEPT !.at = Max({@ - ticks, -MaxLate})]]

Update(ticks) ==
  /\ phase = "idle"
  /\ internal_Registration(Later(Items, ticks))
  /\ phase' = "rt" /\ it' = 1 /\ executed' = {} /\ erased' = 0
  /\ UNCHANGED <<ItemsProcessed, owners, updating>>

(* Mutant: an object that is not needed is erased, and the next one missed. *)
UpdateRT_erasing ==
  /\ phase = "rt" /\ updating = NoObject /\ it <= Len(ItemsRT)
  /\ IF ItemsRT[it] \in needed
     THEN /\ updating' = ItemsRT[it] /\ executed' = executed \cup {ItemsRT[it]}
          /\ UNCHANGED <<it, ItemsRT>>
     ELSE it' = it + 1 /\ ItemsRT' = RemoveAt(ItemsRT, it) /\ UNCHANGED <<updating, executed>>
  /\ UNCHANGED <<Items, ItemsProcessed, Registration, m_current_step_obj, owners, phase, erased>>

(* The loop over ItemsRT.                                                  *)
UpdateRT ==
  /\ phase = "rt" /\ updating = NoObject /\ it <= Len(ItemsRT)
  /\ IF ItemsRT[it] \in needed
     THEN /\ updating' = ItemsRT[it] /\ executed' = executed \cup {ItemsRT[it]}
          /\ UNCHANGED it
     ELSE it' = it + 1 /\ UNCHANGED <<updating, executed>>
  /\ UNCHANGED <<lists, Registration, m_current_step_obj, owners, phase, erased>>

ReturnRT ==
  /\ phase = "rt" /\ updating # NoObject
  /\ updating' = NoObject /\ it' = it + 1
  /\ UNCHANGED <<lists, Registration, m_current_step_obj, owners, phase, executed, erased>>

EndRT ==
  /\ phase = "rt" /\ updating = NoObject /\ it > Len(ItemsRT)
  /\ phase' = "step" /\ it' = 0
  /\ UNCHANGED <<lists, Registration, m_current_step_obj, owners, updating, executed, erased>>

(* Mutant: the heap's order is the other way round.                        *)
Due_latest(k) ==
  Items[k].at < 0 /\ \A j \in DOMAIN Items : Items[j].at < 0 => Items[k].at >= Items[j].at

(* ProcessStep: the top of the heap, while it is due.                      *)
Due(k) == Items[k].at < 0 /\ \A j \in DOMAIN Items : Items[k].at <= Items[j].at

ProcessStep ==
  /\ phase = "step" /\ updating = NoObject
  /\ \E k \in DOMAIN Items :
       /\ Due(k)
       /\ Items' = RemoveAt(Items, k)
       /\ IF Items[k].Object \in needed
          THEN /\ updating' = Items[k].Object /\ m_current_step_obj' = Items[k].Object
               /\ executed' = executed \cup {Items[k].Object}
               /\ UNCHANGED it
          ELSE it' = (it + 1) % Batch /\ UNCHANGED <<updating, m_current_step_obj, executed>>
  /\ UNCHANGED <<ItemsRT, ItemsProcessed, Registration, owners, phase, erased>>

(* The time until the next update, clamped.                                *)
Interval == 0..Period

(* The object whose update returns has unregistered itself meanwhile.      *)
SelfUnregistered_never == FALSE
SelfUnregistered == m_current_step_obj = NoObject

(* The update returns: unless the object has unregistered itself it gets a *)
(* new time, and after each Batch turns the step may be out of time.       *)
ReturnStep ==
  /\ phase = "step" /\ updating # NoObject
  /\ updating' = NoObject /\ m_current_step_obj' = NoObject /\ it' = (it + 1) % Batch
  /\ IF SelfUnregistered
     THEN UNCHANGED <<ItemsProcessed, phase>>
     ELSE /\ \E p \in Interval :
               ItemsProcessed' = Append(ItemsProcessed, [Object |-> updating, at |-> p])
          /\ phase' \in IF it = Batch - 1 THEN {"step", "done"} ELSE {"step"}
  /\ UNCHANGED <<ItemsRT, Items, Registration, owners, executed, erased>>

EndUpdate ==
  /\ \/ phase = "done"
     \/ phase = "step" /\ updating = NoObject /\ ~\E k \in DOMAIN Items : Due(k)
  /\ internal_Registration(Items \o ItemsProcessed)
  /\ ItemsProcessed' = <<>> /\ phase' = "idle" /\ it' = 0
  /\ UNCHANGED <<owners, updating, executed, erased>>

Working == UpdateRT \/ ReturnRT \/ EndRT \/ ProcessStep \/ ReturnStep \/ EndUpdate

Next ==
  \/ \E o \in Objects : \/ \E rt \in BOOLEAN : Register(o, rt)
                        \/ Unregister(o) \/ Delete(o) \/ Create(o) \/ NotNeeded(o)
  \/ \E ticks \in 0..1 : Update(ticks)
  \/ Working

Spec == Init /\ [][Next]_vars

(* Frames follow one another, time passes between them, and every update   *)
(* returns.                                                                *)
FairSpec == Spec /\ SF_vars(Update(1)) /\ WF_vars(Working)
-----------------------------------------------------------------------------
(* The scheduler does what it promises.                                    *)
Promise == INSTANCE ShedulerSpec WITH
  registered <- {o \in Objects : Registered(o)}, calls <- Calls
KeepsPromise == Promise!Spec

(* No object has two entries, whatever registers and unregisters it while  *)
(* Update runs.                                                            *)
ListedOnce ==
  \A o \in Objects :
    Cardinality({<<"rt", k>> : k \in {k \in DOMAIN ItemsRT : ItemsRT[k] = o}}
                \cup {<<"items", k>> : k \in {k \in DOMAIN Items : Items[k].Object = o}}
                \cup {<<"done", k>> : k \in {k \in DOMAIN ItemsProcessed :
                                               ItemsProcessed[k].Object = o}}) <= 1

(* The loops never look at an object that has been deleted.                *)
LoopsSeeTheLiving ==
  m_processing_now => \A o \in Objects : o \in ToSet(ItemsRT) \/ InItems(Items, o) => o \in alive

(* Registration, deletion and the loops leave lists that the next step of  *)
(* Update can go through: each object once, and nothing but living ones.   *)
ListsSound == TypeOK /\ ListedOnce /\ LoopsSeeTheLiving

(* VERIFY(dbg_startframe != dwFrame): one update a frame.                  *)
OncePerFrame ==
  [][updating = NoObject /\ updating' # NoObject => updating' \notin executed]_vars

(* Real-time objects are updated in every frame, except that an update     *)
(* during which a real-time object is unregistered may cost another one its *)
(* turn.                                                                   *)
RealtimeUpdated ==
  [][EndRT => Cardinality({o \in ToSet(ItemsRT) \cap needed : o \notin executed}) <= erased]_vars

(* An object that waits for its update gets it, or stops wanting it.       *)
NobodyStarves ==
  \A o \in Objects : Registered(o) ~> updating = o \/ ~Registered(o) \/ o \notin needed
=============================================================================
