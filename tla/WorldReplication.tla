-------------------------- MODULE WorldReplication --------------------------
(***************************************************************************)
(* How the tree of entities the server keeps (who exists, who carries      *)
(* what) reaches the object lists of the clients: M_SPAWN and M_EVENT      *)
(* messages, packs of events, the snapshot a joining client gets, and what *)
(* a client makes of each event.  The server has a client in its own       *)
(* process, server; it too learns of changes through its queue, a frame    *)
(* late, and the server's handlers look at its objects.                    *)
(***************************************************************************)
EXTENDS Integers, Sequences, SequencesExt, FiniteSets

CONSTANTS
  Actors, Bags, Items,   \* ids, by the class of what they name
  Remote,                \* clients that connect over the network
  server,                \* the client in the server's process
  none,                  \* 0xffff, a NULL parent
  MaxMessages            \* bound: the server goes on while queues are this short

ObjectIds == Actors \cup Bags \cup Items
Clients   == Remote \cup {server}

ASSUME NamesDiffer ==
  /\ Actors \cap Bags = {} /\ Actors \cap Items = {} /\ Bags \cap Items = {}
  /\ none \notin ObjectIds /\ server \notin Remote
ASSUME IdsAreFinite == IsFiniteSet(ObjectIds)  \* u16
ASSUME BoundIsNat == MaxMessages \in Nat

VARIABLES
  entities,     \* the entities that exist on the server
  ID_Parent,    \* who carries each of them
  net_Accepted, \* clients that have been sent the world
  messages,     \* of each client: sent and not yet handled, a message a sequence of events
  client,       \* of each client: its object list
  dropManual    \* bags the server's client is to drop in this frame

tree == <<entities, ID_Parent>>
vars == <<entities, ID_Parent, net_Accepted, messages, client, dropManual>>

Event == [type : {"spawn", "take", "reject", "destroy", "die"},
          dest : ObjectIds \cup {none}, id : ObjectIds]

SpawnEvent(x, p)  == [type |-> "spawn", dest |-> p, id |-> x]
TakeEvent(p, x)   == [type |-> "take", dest |-> p, id |-> x]
RejectEvent(p, x) == [type |-> "reject", dest |-> p, id |-> x]
DestroyEvent(x)   == [type |-> "destroy", dest |-> x, id |-> x]
DieEvent(a)       == [type |-> "die", dest |-> a, id |-> a]

(* An object list: the objects, their parents, the actors it takes to be   *)
(* dead, the queue of objects to destroy, the bags whose bearer has just   *)
(* died, and which expectations of the code the last frame did not meet.   *)
ObjectList == [objs : SUBSET ObjectIds, parent : [ObjectIds -> ObjectIds \cup {none}],
               dead : SUBSET Actors, destroy_queue : SUBSET ObjectIds,
               dropping : SUBSET Bags,
               unmet : SUBSET {"object", "parentless", "not own", "carried", "dangling"}]

EmptyList == [objs |-> {}, parent |-> [x \in ObjectIds |-> none], dead |-> {},
              destroy_queue |-> {}, dropping |-> {}, unmet |-> {}]

-----------------------------------------------------------------------------
(* The client.                                                             *)

Unmet(s, what)     == [s EXCEPT !.unmet = @ \cup {what}]
H_SetParent(s, x, p) == [s EXCEPT !.parent[x] = p]

(* GE_OWNERSHIP_TAKE.  A dead actor takes nothing, nor does an actor take  *)
(* what is about to be destroyed; a bag takes what it is told to.          *)
OnTake(s, p, x) ==
  IF x \notin s.objs THEN Unmet(s, "object")
  ELSE IF p \in Actors /\ (p \in s.dead \/ x \in s.destroy_queue) THEN s
  ELSE H_SetParent(IF s.parent[x] = none THEN s ELSE Unmet(s, "carried"), x, p)

(* GE_OWNERSHIP_REJECT.  An actor looks whether it carries the object,     *)
(* which may not be so when it refused it dead.                            *)
OnReject(s, p, x) ==
  IF x \notin s.objs THEN Unmet(s, "object")
  ELSE IF p \in Bags THEN H_SetParent(s, x, none)
  ELSE IF s.parent[x] = none THEN IF p \in s.dead THEN s ELSE Unmet(s, "parentless")
  ELSE IF s.parent[x] # p THEN Unmet(s, "not own")
  ELSE IF x \in s.destroy_queue THEN s
  ELSE H_SetParent(s, x, none)

CarriedBy(parent, x) == {y \in ObjectIds : parent[y] = x}
Within(parent, x) == CarriedBy(parent, x) \cup UNION {CarriedBy(parent, y) : y \in CarriedBy(parent, x)}

(* GE_DESTROY: the object and what it carries are to go.                   *)
OnDestroy(s, x) ==
  IF s.parent[x] # none THEN Unmet(s, "carried")
  ELSE [s EXCEPT !.destroy_queue = @ \cup {x} \cup Within(s.parent, x)]

(* GE_DIE: CActor::Die marks the bag in the inventory for dropping.        *)
OnDie(s, a) ==
  [s EXCEPT !.dead = @ \cup {a},
            !.dropping = @ \cup (Bags \cap CarriedBy(s.parent, a))]

cl_Process_Event(s, e) ==
  IF e.dest \notin s.objs THEN s
  ELSE CASE e.type = "take"    -> OnTake(s, e.dest, e.id)
         [] e.type = "reject"  -> OnReject(s, e.dest, e.id)
         [] e.type = "destroy" -> OnDestroy(s, e.id)
         [] e.type = "die"     -> OnDie(s, e.id)

(* g_sv_Spawn creates the object, which its parent, if it has one, takes.  *)
g_sv_Spawn(s, e) ==
  cl_Process_Event([s EXCEPT !.objs = @ \cup {e.id}, !.parent[e.id] = none],
                   TakeEvent(e.dest, e.id))

ProcessGameEvent(s, e) == IF e.type = "spawn" THEN g_sv_Spawn(s, e) ELSE cl_Process_Event(s, e)

ProcessGameEvents(s, ms) ==
  LET q == FlattenSeq(ms)
      after[n \in 0..Len(q)] == IF n = 0 THEN s ELSE ProcessGameEvent(after[n - 1], q[n])
  IN after[Len(q)]

(* CObjectList::Update destroys the queue.                                 *)
ObjectsUpdate(s) ==
  LET left == s.objs \ s.destroy_queue
      t == [s EXCEPT !.objs = left, !.dead = @ \cap left, !.destroy_queue = {},
                     !.parent = [x \in ObjectIds |-> IF x \in left THEN s.parent[x] ELSE none]]
  IN IF \E x \in left : s.parent[x] \in s.destroy_queue THEN Unmet(t, "dangling") ELSE t

-----------------------------------------------------------------------------
(* The server.                                                             *)

Idle == dropManual = {} /\ \A c \in Clients : Len(messages[c]) <= MaxMessages

SendBroadcast(ms) ==
  messages' = [c \in Clients |-> IF c \in net_Accepted THEN messages[c] \o ms ELSE messages[c]]

Children(x) == CarriedBy(ID_Parent, x)
Independent(x) == x \in entities /\ ID_Parent[x] = none

(* An id is given again once nobody names it any more.                     *)
Free(x) ==
  /\ x \notin entities
  /\ \A c \in Clients : /\ x \notin client[c].objs
                        /\ \A i \in DOMAIN messages[c] : \A e \in ToSet(messages[c][i]) :
                             x \notin {e.dest, e.id}

(* RespawnPlayer spawns the actor and hands out his bag and what else he   *)
(* starts with.                                                            *)
RespawnPlayer(a, b, things) ==
  /\ Idle /\ Free(a) /\ Free(b) /\ \A x \in things : Free(x)
  /\ entities' = entities \cup {a, b} \cup things
  /\ ID_Parent' = [x \in ObjectIds |-> IF x = b \/ x \in things THEN a ELSE ID_Parent[x]]
  /\ SendBroadcast(<< <<SpawnEvent(a, none)>>, <<SpawnEvent(b, a)>> >>
                   \o SetToSeq({<<SpawnEvent(x, a)>> : x \in things}))
  /\ UNCHANGED <<net_Accepted, client, dropManual>>

is_object_valid_on_svclient(x) == x \in client[server].objs

(* Process_event_ownership, for a client's GE_OWNERSHIP_TAKE.  Whether the *)
(* actor is alive is not asked: the test is commented out.                 *)
OwnershipAllowed(a, x) ==
  /\ Idle /\ a \in entities /\ Independent(x)
  /\ is_object_valid_on_svclient(a) /\ is_object_valid_on_svclient(x)

TakeItem(a, x) ==
  /\ OwnershipAllowed(a, x)
  /\ ID_Parent' = [ID_Parent EXCEPT ![x] = a]
  /\ SendBroadcast(<< <<TakeEvent(a, x)>> >>)
  /\ UNCHANGED <<entities, net_Accepted, client, dropManual>>

(* Mutant: the thing is given before it is taken away.                     *)
Perform_transfer_take_first(things, from, to) ==
  IF things = {} THEN <<>>
  ELSE << FlattenSeq(SetToSeq({<<TakeEvent(to, x), RejectEvent(from, x)>> : x \in things})) >>

(* A pack that moves each of the things from one bearer to another.        *)
Perform_transfer(things, from, to) ==
  IF things = {} THEN <<>>
  ELSE << FlattenSeq(SetToSeq({<<RejectEvent(from, x), TakeEvent(to, x)>> : x \in things})) >>

(* OnTouchPlayersBag: its things go to the actor, the bag is destroyed.    *)
TakeBag(a, b) ==
  /\ OwnershipAllowed(a, b)
  /\ entities' = entities \ {b}
  /\ ID_Parent' = [x \in ObjectIds |-> IF ID_Parent[x] = b THEN a ELSE ID_Parent[x]]
  /\ SendBroadcast(Perform_transfer(Children(b), b, a) \o << <<DestroyEvent(b)>> >>)
  /\ UNCHANGED <<net_Accepted, client, dropManual>>

(* Process_event_reject, for a client's request to drop an item.           *)
RejectItem(a, x) ==
  /\ Idle /\ a \in entities /\ ID_Parent[x] = a
  /\ ID_Parent' = [ID_Parent EXCEPT ![x] = none]
  /\ SendBroadcast(<< <<RejectEvent(a, x)>> >>)
  /\ UNCHANGED <<entities, net_Accepted, client, dropManual>>

(* CInventory::UpdateDropItem on the server's client asks for the bag of   *)
(* one who died to be rejected.  If he still has a client, data, OnDetach  *)
(* first transfers what he carries to the bag, but for the item he had in  *)
(* his hands on the server's client, which is rejected.                    *)
RejectBag(b, data) ==
  /\ b \in dropManual
  /\ dropManual' = dropManual \ {b}
  /\ LET a == client[server].parent[b] IN
     \E active \in (Items \cap CarriedBy(client[server].parent, a)) \cup {none} :
       LET inHands == IF active = none THEN {} ELSE {active}
           things  == IF data THEN Children(a) \ ({b} \cup inHands) ELSE {}
           thrown  == IF data THEN inHands ELSE {}
       IN /\ ID_Parent' = [x \in ObjectIds |-> IF x \in things THEN b
                                         ELSE IF x = b \/ x \in thrown THEN none
                                         ELSE ID_Parent[x]]
          /\ SendBroadcast(Perform_transfer(things, a, b)
                           \o SetToSeq({<<RejectEvent(a, x)>> : x \in thrown})
                           \o << <<RejectEvent(a, b)>> >>)
  /\ UNCHANGED <<entities, net_Accepted, client>>

(* NeedToDestroyObject on the server's client: an item or a bag that has   *)
(* lain about for too long there, a body that has dropped its bag there.   *)
NeedToDestroyObject(x) ==
  LET s == client[server] IN
  /\ x \in s.objs /\ s.parent[x] = none
  /\ x \in Actors => x \in s.dead /\ Bags \cap CarriedBy(s.parent, x) = {}

(* Mutant: what is carried is destroyed without being rejected.            *)
DestroyEventsUnrejected(y) == <<DestroyEvent(y)>>

(* One entity is destroyed: what is carried is rejected first.             *)
DestroyEvents(y) ==
  IF ID_Parent[y] = none THEN <<DestroyEvent(y)>>
  ELSE <<RejectEvent(ID_Parent[y], y), DestroyEvent(y)>>

(* Process_event_destroy: what it carries goes first, all in one pack.     *)
DestroyObject(x) ==
  /\ Idle /\ x \in entities /\ NeedToDestroyObject(x)
  /\ LET inner  == UNION {Children(y) : y \in Children(x)}
         leaves == SetToSeq(inner) \o SetToSeq(Children(x)) \o <<x>>
         gone == ToSet(leaves)
     IN /\ entities' = entities \ gone
        /\ ID_Parent' = [y \in ObjectIds |-> IF y \in gone THEN none ELSE ID_Parent[y]]
        /\ SendBroadcast(<< FlattenSeq([i \in DOMAIN leaves |-> DestroyEvents(leaves[i])]) >>)
  /\ UNCHANGED <<net_Accepted, client, dropManual>>

(* A hit or his wounds kill an actor on the server's client, which sends   *)
(* GE_DIE; the server sends it on to everyone.                             *)
KillEntity(a) ==
  /\ Idle /\ a \in client[server].objs /\ a \notin client[server].dead /\ a \in entities
  /\ client' = [client EXCEPT ![server].dead = @ \cup {a}]
  /\ SendBroadcast(<< <<DieEvent(a)>> >>)
  /\ UNCHANGED <<tree, net_Accepted, dropManual>>

(* Mutant: the entities are sent as they come, not parents first.          *)
SnapshotUnordered == SetToSeq({<<SpawnEvent(x, ID_Parent[x])>> : x \in entities})

(* SendConnectionData: every entity once, its parent before it.            *)
Snapshot ==
  LET roots == {x \in entities : ID_Parent[x] = none}
      held  == UNION {Children(x) : x \in roots}
      inner == UNION {Children(x) : x \in held}
      Spawns(S) == SetToSeq({<<SpawnEvent(x, ID_Parent[x])>> : x \in S})
  IN Spawns(roots) \o Spawns(held) \o Spawns(inner)

OnCL_Connected(c) ==
  /\ Idle /\ c \notin net_Accepted
  /\ net_Accepted' = net_Accepted \cup {c}
  /\ messages' = [messages EXCEPT ![c] = @ \o Snapshot]
  /\ UNCHANGED <<tree, client, dropManual>>

-----------------------------------------------------------------------------
(* Frames of the clients.                                                  *)

(* Mutant: of the bags that are to be dropped in a frame only one is.      *)
ServerFrameOneBag ==
  /\ dropManual = {} /\ messages[server] # <<>>
  /\ LET s == ProcessGameEvents([client[server] EXCEPT !.unmet = {}], messages[server])
     IN /\ dropManual' = IF s.dropping = {} THEN {} ELSE {CHOOSE b \in s.dropping : TRUE}
        /\ client' = [client EXCEPT ![server] = [ObjectsUpdate(s) EXCEPT !.dropping = {}]]
  /\ messages' = [messages EXCEPT ![server] = <<>>]
  /\ UNCHANGED <<tree, net_Accepted>>

(* The server's client has everything that was sent when its frame begins. *)
ServerFrame ==
  /\ dropManual = {} /\ messages[server] # <<>>
  /\ LET s == ProcessGameEvents([client[server] EXCEPT !.unmet = {}], messages[server])
     IN /\ dropManual' = s.dropping
        /\ client' = [client EXCEPT ![server] = [ObjectsUpdate(s) EXCEPT !.dropping = {}]]
  /\ messages' = [messages EXCEPT ![server] = <<>>]
  /\ UNCHANGED <<tree, net_Accepted>>

(* Another client has the first n messages.                                *)
RemoteFrame(c, n) ==
  /\ n <= Len(messages[c])
  /\ LET s == ProcessGameEvents([client[c] EXCEPT !.unmet = {}], SubSeq(messages[c], 1, n))
     IN client' = [client EXCEPT ![c] = [ObjectsUpdate(s) EXCEPT !.dropping = {}]]
  /\ messages' = [messages EXCEPT ![c] = SubSeq(@, n + 1, Len(@))]
  /\ UNCHANGED <<tree, net_Accepted, dropManual>>

(* M_UPDATE_OBJECTS brings the health of an actor; it is not queued and    *)
(* may arrive before events that were sent earlier.                        *)
ImportHealth(c, a) ==
  /\ a \in client[c].objs \ client[c].dead /\ a \in client[server].dead
  /\ client' = [client EXCEPT ![c].dead = @ \cup {a}]
  /\ UNCHANGED <<tree, net_Accepted, messages, dropManual>>

Init ==
  /\ entities = {} /\ ID_Parent = [x \in ObjectIds |-> none]
  /\ net_Accepted = {server}
  /\ messages = [c \in Clients |-> <<>>]
  /\ client = [c \in Clients |-> EmptyList]
  /\ dropManual = {}

Frame(c) == IF c = server THEN ServerFrame
            ELSE \E n \in 1 .. Len(messages[c]) : RemoteFrame(c, n)

Next ==
  \/ \E a \in Actors, b \in Bags, things \in SUBSET Items : RespawnPlayer(a, b, things)
  \/ \E a \in Actors : \/ \E x \in Items : TakeItem(a, x) \/ RejectItem(a, x)
                       \/ \E b \in Bags : TakeBag(a, b)
                       \/ KillEntity(a)
  \/ \E b \in Bags, data \in BOOLEAN : RejectBag(b, data)
  \/ \E x \in ObjectIds : DestroyObject(x)
  \/ \E c \in Remote : OnCL_Connected(c) \/ \E a \in Actors : ImportHealth(c, a)
  \/ \E c \in Clients : Frame(c)

Spec == Init /\ [][Next]_vars

(* A frame takes messages from the client's queue, and nothing else does;  *)
(* so this is fairness of Frame(c), said of its effect.                    *)
TakesMessages(c) ==
  /\ c = server => dropManual = {}
  /\ \E n \in 1 .. Len(messages[c]) :
       messages' = [messages EXCEPT ![c] = SubSeq(@, n + 1, Len(@))]

(* Every client goes on drawing frames, the links go on delivering, and    *)
(* the inventories of the server's client are updated in every frame.      *)
FairSpec ==
  /\ Spec
  /\ \A c \in Clients : WF_messages(TakesMessages(c))
  /\ WF_dropManual(\E b \in dropManual : dropManual' = dropManual \ {b})

-----------------------------------------------------------------------------
WorldsTyped ==
  /\ entities \subseteq ObjectIds /\ ID_Parent \in [ObjectIds -> ObjectIds \cup {none}]
  /\ net_Accepted \subseteq Clients
  /\ \A c \in Clients : /\ client[c] \in ObjectList
                        /\ \A i \in DOMAIN messages[c] : messages[c][i] \in Seq(Event)
  /\ dropManual \subseteq Bags

(* What is on its way makes a client's world the server's: when a client   *)
(* has handled the messages sent to it, it has an object for every entity  *)
(* and for nothing else, and the same parents.  The one difference there   *)
(* can be is a thing the server has given to an actor who is dead: there   *)
(* it lies about (CActor::OnEvent refuses it).                             *)
WorldsAgree ==
  \A c \in net_Accepted :
    LET s == ObjectsUpdate(ProcessGameEvents(client[c], messages[c])) IN
    /\ s.objs = entities
    /\ \A x \in entities : \/ s.parent[x] = ID_Parent[x]
                           \/ s.parent[x] = none /\ ID_Parent[x] \in s.dead

(* Events arrive when a client can do what they say: the object they name  *)
(* exists (VERIFY2 in CActor::OnEvent), it has left its bearer before it   *)
(* is taken by another (VERIFY2 in H_SetParent, R_ASSERT in CMPPlayersBag) *)
(* or destroyed (the error message of CGameObject::OnEvent), an actor who  *)
(* lives is told to drop only what it carries (VERIFY(GO->H_Parent()), a   *)
(* dead one what nobody else carries, and nothing is left with a destroyed *)
(* parent.                                                                 *)
EventsMakeSense == \A c \in Clients : client[c].unmet = {}

(* When the server's client asks for a bag to be dropped, what it sees in  *)
(* the dead actor's inventory is what the server takes him to carry: the   *)
(* item OnDetach rejects has its parent (VERIFY2 in RejectGameItem) and    *)
(* the bag is his (Process_event_reject).                                  *)
DropsWhatIsCarried ==
  \A b \in dropManual :
    LET a == client[server].parent[b] IN
    \A x \in CarriedBy(client[server].parent, a) : ID_Parent[x] = a

(* Neither the clients nor the server are told what they cannot do.        *)
MessagesMakeSense == WorldsTyped /\ EventsMakeSense /\ DropsWhatIsCarried

(* What the server has destroyed disappears from every client.             *)
DestroyedDisappear ==
  \A c \in Clients, x \in ObjectIds :
    (x \in client[c].objs /\ x \notin entities) ~> x \notin client[c].objs

(* Whoever dies drops his bag, on the server.                              *)
DeadDropTheirBag ==
  \A a \in Actors, b \in Bags :
    (a \in client[server].dead /\ ID_Parent[b] = a) ~> ID_Parent[b] # a
=============================================================================
