--------------------------- MODULE GameEventQueue ---------------------------
(***************************************************************************)
(* The queue of delayed game events (GameEventQueue) and the server's use  *)
(* of it: messages and the network thread add events, once a frame the     *)
(* main thread handles them in order (ProcessDelayedEvent), and events are *)
(* erased when a round ends, when a client leaves and when one is turned   *)
(* away.  GameEvent objects are recycled through a pool.  Every operation  *)
(* of the queue holds its critical section and is one step here; what the  *)
(* main thread does with an event it has retrieved is not protected.       *)
(***************************************************************************)
EXTENDS Integers, Sequences, FiniteSets, SequencesExt, Functions, Subsequences

CONSTANTS
  Cells,         \* addresses of GameEvent objects
  NoCell,        \* NULL
  Pooled,        \* the objects the constructor makes (16 in the code)
  MaxUnused,     \* length of unused above which it is trimmed (32 in the code)
  Clients,       \* clients; also the entities they play
  NoClient,      \* ClientID 0
  TurnedAway,    \* clients whose player state CheckNewPlayer refuses
  Leaving,       \* clients the network thread may destroy
  MaxEvents      \* events that are added

ASSUME PoolAssumption ==
  NoCell \notin Cells /\ Pooled \subseteq Cells /\ IsFiniteSet(Pooled) /\ MaxUnused \in Nat
ASSUME ClientsAssumption ==
  NoClient \notin Clients /\ TurnedAway \cup Leaving \subseteq Clients /\ MaxEvents \in Nat

VARIABLES
  ready,             \* events to be handled
  unused,            \* free GameEvent objects, used last first
  event,             \* what each object holds
  m_blocked_clients, \* clients whose events are ignored until they have started
  ge,                \* the event that ProcessDelayedEvent has retrieved
  main,              \* what the main thread is doing
  leaving,           \* the client the network thread is destroying
  added,             \* number of events added so far
  last,              \* number of the event retrieved last
  failed             \* an R_ASSERT has failed

queue == <<ready, unused, event, added>>
vars == <<queue, m_blocked_clients, ge, main, leaving, last, failed>>

(* player_started and player_state (GAME_EVENT_CREATE_PLAYER_STATE) stand  *)
(* for the events that are never ignored, player_killed for the others,    *)
(* player_disconnected is the network thread's.                            *)
Types == {"player_started", "player_state", "player_killed", "player_disconnected"}
GameEvent == [type : Types, sender : Clients \cup {NoClient}, victim : Clients \cup {NoClient},
              number : 0..MaxEvents]

TypeOK ==
  /\ ready \in Seq(Cells) /\ unused \in Seq(Cells) /\ event \in [Cells -> GameEvent]
  /\ m_blocked_clients \subseteq Clients /\ ge \in Cells \cup {NoCell}
  /\ main \in {"idle", "handling", "handled", "ending"} /\ leaving \in Clients \cup {NoClient}
  /\ added \in 0..MaxEvents /\ last \in 0..MaxEvents /\ failed \in BOOLEAN

Init ==
  /\ ready = <<>> /\ m_blocked_clients = {} /\ ge = NoCell /\ main = "idle"
  /\ unused \in SetToSeqs(Pooled)
  /\ event = [x \in Cells |-> [type |-> "player_started", sender |-> NoClient,
                               victim |-> NoClient, number |-> 0]]
  /\ leaving = NoClient /\ added = 0 /\ last = 0 /\ failed = FALSE
-----------------------------------------------------------------------------
(* The queue.                                                              *)

(* The object a new event is put in: the last unused one, or a new one.    *)
Taken(x) == IF unused = <<>> THEN x \in Cells \ ToSet(ready) ELSE x = Last(unused)

(* Mutant: a new event goes first.                                         *)
Create_first(type, sender, victim) ==
  \E x \in Cells :
    /\ Taken(x) /\ added < MaxEvents
    /\ ready' = <<x>> \o ready
    /\ unused' = IF unused = <<>> THEN unused ELSE Front(unused)
    /\ event' = [event EXCEPT ![x] = [type |-> type, sender |-> sender, victim |-> victim,
                                      number |-> added + 1]]
    /\ added' = added + 1

Create(type, sender, victim) ==
  \E x \in Cells :
    /\ Taken(x) /\ added < MaxEvents
    /\ ready' = Append(ready, x)
    /\ unused' = IF unused = <<>> THEN unused ELSE Front(unused)
    /\ event' = [event EXCEPT ![x] = [type |-> type, sender |-> sender, victim |-> victim,
                                      number |-> added + 1]]
    /\ added' = added + 1

(* unused with the events in s put back.  When no object has been made for *)
(* a minute (idle), what would make unused too long is deleted.            *)
Returned(s, idle) ==
  LET room == IF Len(unused) > MaxUnused THEN 0 ELSE MaxUnused + 1 - Len(unused) IN
  unused \o IF idle /\ room < Len(s) THEN SubSeq(s, 1, room) ELSE s

(* EraseEvents: of the events that wait, those the predicate chooses.      *)
EraseEvents(chosen) ==
  \E idle \in BOOLEAN :
    /\ unused' = Returned(Filtered(ready, chosen), idle)
    /\ ready' = Filtered(ready, Cells \ chosen)

(* PredicateForAll; a mutant that lets the events of some types stay.      *)
ForAll_but_killed(e) == e.type # "player_killed"
ForAll(e) == TRUE
-----------------------------------------------------------------------------
(* The main thread.                                                        *)

(* AddDelayedEvent, for a message.  The events of some types are never     *)
(* ignored.  Handling an event may itself send that somebody is killed.    *)
AddDelayedEvent(type, sender, victim) ==
  /\ type \notin {"player_started", "player_state"} => sender \notin m_blocked_clients
  /\ Create(type, sender, victim)

Message ==
  /\ ~failed
  /\ \E c \in Clients :
       \/ /\ main = "idle"
          /\ \E type \in {"player_started", "player_state"} : AddDelayedEvent(type, c, NoClient)
       \/ /\ main \in {"idle", "handling"}
          /\ \E v \in Clients : AddDelayedEvent("player_killed", c, v)
  /\ UNCHANGED <<m_blocked_clients, ge, main, leaving, last, failed>>

(* Retreive.  With nothing to handle, an unused object may be deleted.     *)
Retreive ==
  /\ ~failed /\ main = "idle"
  /\ IF ready # <<>>
     THEN /\ ge' = Head(ready) /\ last' = event[Head(ready)].number /\ main' = "handling"
          /\ UNCHANGED unused
     ELSE /\ Len(unused) > MaxUnused /\ unused' = Front(unused)
          /\ UNCHANGED <<ge, last, main>>
  /\ UNCHANGED <<ready, event, added, m_blocked_clients, leaving, failed>>

(* OnEvent, with what the object holds now.  A client who has started is   *)
(* listened to again, if the map he names is the server's; the events of a *)
(* client who is turned away are erased (CheckNewPlayer).  The model stops *)
(* at an object that has been deleted.                                     *)
OnEvent ==
  /\ ~failed /\ main = "handling" /\ main' = "handled"
  /\ ge \in ToSet(ready \o unused)
  /\ LET e == event[ge] IN
     /\ \/ UNCHANGED m_blocked_clients
        \/ /\ e.type = "player_started"
           /\ m_blocked_clients' = m_blocked_clients \ {e.sender}
     /\ IF e.type = "player_state" /\ e.sender \in TurnedAway
        THEN EraseEvents({x \in Cells : event[x].sender = e.sender})
        ELSE UNCHANGED <<ready, unused>>
  /\ UNCHANGED <<event, added, ge, leaving, last, failed>>

(* What Release leaves in ready.  Mutants: the event handled goes last, and *)
(* the last event goes.                                                    *)
Released_requeued == Append(Tail(ready), Head(ready))
Released_last == Front(ready)
Released == Tail(ready)

(* Release: the first event goes back to the pool; R_ASSERT(!ready.empty()). *)
Release ==
  /\ ~failed /\ main = "handled" /\ main' = "idle" /\ ge' = NoCell
  /\ IF ready = <<>>
     THEN failed' = TRUE /\ UNCHANGED <<ready, unused>>
     ELSE /\ \E idle \in BOOLEAN : unused' = Returned(<<Head(ready)>>, idle)
          /\ ready' = Released /\ UNCHANGED failed
  /\ UNCHANGED <<event, added, m_blocked_clients, leaving, last>>

(* OnRoundEnd erases every event, then blocks every client.                *)
OnRoundEnd ==
  /\ ~failed /\ main = "idle" /\ main' = "ending"
  /\ EraseEvents({x \in Cells : ForAll(event[x])})
  /\ UNCHANGED <<event, added, m_blocked_clients, ge, leaving, last, failed>>

(* Whom a round's end blocks: not the server's client.                     *)
Ignored == Clients

SetIgnoreEvents ==
  /\ ~failed /\ main = "ending" /\ main' = "idle"
  /\ m_blocked_clients' = Ignored
  /\ UNCHANGED <<queue, ge, leaving, last, failed>>

OnRoundStart ==
  /\ ~failed /\ main = "idle"
  /\ EraseEvents({x \in Cells : ForAll(event[x])})
  /\ UNCHANGED <<event, added, m_blocked_clients, ge, main, leaving, last, failed>>
-----------------------------------------------------------------------------
(* The network thread: a client leaves (OnCL_Disconnected) and is destroyed *)
(* (client_Destroy), with the events in which his entity is the victim.    *)
OnCL_Disconnected ==
  /\ ~failed /\ leaving = NoClient
  /\ \E c \in Leaving :
       leaving' = c /\ AddDelayedEvent("player_disconnected", NoClient, NoClient)
  /\ UNCHANGED <<m_blocked_clients, ge, main, last, failed>>

client_Destroy ==
  /\ ~failed /\ leaving # NoClient /\ leaving' = NoClient
  /\ EraseEvents({x \in Cells : event[x].type = "player_killed" /\ event[x].victim = leaving})
  /\ UNCHANGED <<event, added, m_blocked_clients, ge, main, last, failed>>
-----------------------------------------------------------------------------
Main == Retreive \/ OnEvent \/ Release \/ SetIgnoreEvents
Network == OnCL_Disconnected \/ client_Destroy
Next == Message \/ Main \/ OnRoundEnd \/ OnRoundStart \/ Network

Spec == Init /\ [][Next]_vars

(* The main thread runs ProcessDelayedEvent in every frame.                *)
FairSpec == Spec /\ WF_vars(Main)
-----------------------------------------------------------------------------
(* The queue and the pool hold objects, none of them twice, be it in one or *)
(* in both.                                                                *)
PoolSound == TypeOK /\ IsInjective(ready \o unused)

(* Events are retrieved in the order they came in, and none of them twice, *)
(* whoever erases events meanwhile.                                        *)
InOrder == [][main = "idle" /\ main' = "handling" => last' > last]_vars

(* From the end of a round until he has started again nothing that a client *)
(* did is in the queue, except what is never ignored.                      *)
BlockedKeptOut ==
  \A k \in DOMAIN ready :
    event[ready[k]].type = "player_killed" => event[ready[k]].sender \notin m_blocked_clients

Numbers == {event[ready[k]].number : k \in DOMAIN ready}

(* What erases an event that waits: a round ends or starts, its sender is  *)
(* turned away, or it tells of the entity of a client who is destroyed.    *)
Cleaned(e) ==
  \/ OnRoundEnd \/ OnRoundStart
  \/ OnEvent /\ e.sender = event[ge].sender /\ e.sender \in TurnedAway
  \/ client_Destroy /\ e.victim = leaving

(* No other event leaves the queue without having been handled, unless the *)
(* one being handled has itself been erased: then Release takes the next.  *)
NothingLost ==
  [][\A x \in ToSet(ready) :
       \/ event[x].number \in Numbers' \cup {last} \/ Cleaned(event[x])
       \/ last \notin Numbers]_vars

(* Every event leaves the queue, unless the program has stopped: at the    *)
(* assertion or at an object that was deleted while it was being handled.  *)
Stopped == failed \/ (main = "handling" /\ ge \notin ToSet(ready \o unused))
EveryEventLeaves == \A n \in 1..MaxEvents : n \in Numbers ~> n \notin Numbers \/ Stopped

(* R_ASSERT(!ready.empty()) in Release.                                    *)
ReleaseFindsEvent == ~failed
=============================================================================
