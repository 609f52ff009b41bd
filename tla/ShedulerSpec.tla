---------------------------- MODULE ShedulerSpec ----------------------------
(***************************************************************************)
(* What the scheduler promises its callers: an object is updated only      *)
(* while it is registered, and only its own unregistration, or its saying  *)
(* that it no longer needs updates, ends a registration.                   *)
(***************************************************************************)
CONSTANTS Objects, NoObject

VARIABLES
  registered,        \* objects registered and not yet unregistered
  updating,          \* the object being updated
  needed,            \* objects whose shedule_Needed holds
  calls              \* callers may register and unregister objects

vars == <<registered, updating, needed, calls>>

Init == registered = {} /\ updating = NoObject /\ needed = {} /\ calls = TRUE

Register(o) ==
  /\ calls /\ o \notin registered
  /\ registered' = registered \cup {o}
  /\ UNCHANGED <<updating, needed, calls>>

Unregister(o) ==
  /\ calls
  /\ registered' = registered \ {o}
  /\ UNCHANGED <<updating, needed, calls>>

(* The owner changes what shedule_Needed says.                             *)
Need(N) ==
  /\ calls /\ needed' = N
  /\ UNCHANGED <<registered, updating, calls>>

(* An object that does not need updates may be forgotten.                  *)
Forget(o) ==
  /\ ~calls /\ o \notin needed
  /\ registered' = registered \ {o}
  /\ UNCHANGED <<updating, needed, calls>>

Execute(o) ==
  /\ ~calls /\ o \in registered \cap needed
  /\ updating' = o /\ calls' = TRUE
  /\ UNCHANGED <<registered, needed>>

(* An update returns, or the scheduler begins or ends its work.            *)
Proceed ==
  /\ updating' = NoObject /\ (updating # NoObject => ~calls')
  /\ UNCHANGED <<registered, needed>>

Next ==
  \/ \E o \in Objects : Register(o) \/ Unregister(o) \/ Forget(o) \/ Execute(o)
  \/ \E N \in SUBSET Objects : Need(N)
  \/ Proceed

Spec == Init /\ [][Next]_vars
=============================================================================
