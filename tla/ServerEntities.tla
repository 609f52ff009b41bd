--------------------------- MODULE ServerEntities ---------------------------
(***************************************************************************)
(* The entity map of the game server (xrServer::entities) under the        *)
(* roleplay mode: spawning, ownership take and reject, destruction, the    *)
(* player's bag that gathers a dead player's items, the corpse list, and   *)
(* players who disconnect and come back.                                   *)
(*                                                                         *)
(* One server thread runs every handler; a handler that calls others in a  *)
(* loop is split at the points where the code checks verify_entities() or  *)
(* re-enters Process_event, and `call' holds what the running handler still *)
(* has to do.  While a handler runs the only other thing that can happen   *)
(* is that the network thread reports a disconnection.                     *)
(***************************************************************************)
EXTENDS Integers, Sequences, FiniteSets, SequencesExt

CONSTANTS
  Ids,               \* entity ids (u16 without 0xffff)
  Clients,           \* remote players
  SV_Client,         \* the server's own client
  InvalidID,         \* 0xffff
  DefaultItems,      \* classes of the items a respawned player is given
  SpawnClasses,      \* classes of the other items the game spawns
  MaxOldIDs,         \* entity ids a player state remembers (10 in the code)
  MaxCorpses,        \* g_dwMaxCorpses
  PerformIDgen(_)    \* which of the free ids the id generator may return

Classes == {"actor", "spectator", "bag", "item", "tool"}
ItemClasses == {"item", "tool"}

ASSUME NamesAssumption == /\ InvalidID \notin Ids
                          /\ SV_Client \notin Clients
ASSUME ItemsAssumption == /\ DefaultItems \in Seq(ItemClasses)
                          /\ SpawnClasses \subseteq ItemClasses
ASSUME BoundsAssumption == MaxOldIDs \in Nat \ {0} /\ MaxCorpses \in Nat
ASSUME GeneratorAssumption == \A S \in SUBSET Ids : PerformIDgen(S) \subseteq S

VARIABLES
  entities,          \* ids in the entity map
  cls,               \* class of each entity (m_tClassID)
  ID_Parent,         \* CSE_Abstract::ID_Parent
  children,          \* CSE_Abstract::children
  owner,             \* CSE_Abstract::owner
  alive,             \* actors whose server object has not died
  m_bAllowDeathRemove, \* bodies the server object may remove once dead
  dropManual,        \* bags whose server object is going to be dropped
  connected,         \* clients in net_players
  main,              \* xrClientData::owner, the entity a client plays
  GameID,            \* game_PlayerState::GameID
  mOldIDs,           \* game_PlayerState::mOldIDs
  delayed,           \* queued PLAYER_DISCONNECTED events
  m_CorpseList,
  to_destroy,        \* bags Update will destroy (raw pointers in the code)
  call,              \* the running handler
  undefined          \* a freed object has been used

tree == <<entities, cls, ID_Parent, children>>
objects == <<alive, m_bAllowDeathRemove, dropManual>>
players == <<connected, main, GameID, mOldIDs, delayed>>
game == <<m_CorpseList, to_destroy>>
vars == <<tree, owner, objects, players, game, call, undefined>>

(* call.op names the handler; who/what are its entities, c the children    *)
(* iterator it saved, keep the active item, todo the entities it is        *)
(* destroying (innermost last), left the classes still to spawn.           *)
IdleCall == [op |-> "idle", who |-> InvalidID, what |-> InvalidID, c |-> 0,
             keep |-> InvalidID, todo |-> <<>>, left |-> <<>>]
Idle == call = IdleCall /\ undefined = "no"
Running(op) == call.op = op /\ undefined = "no"

Calls == [op : {"idle", "respawn", "detach", "touch", "destroy", "corpses"},
          who : Ids \cup {InvalidID}, what : Ids \cup {InvalidID}, c : Nat,
          keep : Ids \cup {InvalidID}, todo : Seq(Ids), left : Seq(Classes)]

TreeType ==
  /\ entities \subseteq Ids
  /\ cls \in [Ids -> Classes]
  /\ ID_Parent \in [Ids -> Ids \cup {InvalidID}]
  /\ children \in [Ids -> Seq(Ids)]
  /\ owner \in [Ids -> Clients \cup {SV_Client}]

ObjectType ==
  alive \subseteq Ids /\ m_bAllowDeathRemove \subseteq Ids /\ dropManual \subseteq Ids

PlayerType ==
  /\ connected \subseteq Clients
  /\ main \in [Clients -> Ids \cup {InvalidID}]
  /\ GameID \in [Clients -> Ids \cup {InvalidID}]
  /\ mOldIDs \in [Clients -> Seq(Ids \cup {InvalidID})]
  /\ \A c \in Clients : Len(mOldIDs[c]) <= MaxOldIDs
  /\ delayed \in Seq([client : Clients, GameID : Ids \cup {InvalidID}])

GameType == m_CorpseList \in Seq(Ids) /\ to_destroy \subseteq Ids

CallType ==
  /\ call \in Calls
  /\ call.op \in {"respawn", "detach", "touch"} => call.who \in Ids
  /\ call.op \in {"detach", "touch"} => call.what \in Ids
  /\ call.op = "respawn" => call.left # <<>>
  /\ call.op = "destroy" => call.todo # <<>>
  /\ undefined \in {"no", "entity", "client", "iterator"}

(* Every variable keeps its type, a player state remembers at most         *)
(* MaxOldIDs ids, and a running handler has entities to work on.           *)
TypeOK == TreeType /\ ObjectType /\ PlayerType /\ GameType /\ CallType

Init ==
  /\ entities = {}
  /\ cls = [i \in Ids |-> "item"]
  /\ ID_Parent = [i \in Ids |-> InvalidID]
  /\ children = [i \in Ids |-> <<>>]
  /\ owner = [i \in Ids |-> SV_Client]
  /\ alive = {} /\ m_bAllowDeathRemove = {} /\ dropManual = {}
  /\ connected = {}
  /\ main = [c \in Clients |-> InvalidID]
  /\ GameID = [c \in Clients |-> InvalidID]
  /\ mOldIDs = [c \in Clients |-> <<>>]
  /\ delayed = <<>>
  /\ m_CorpseList = <<>>
  /\ to_destroy = {}
  /\ call = IdleCall
  /\ undefined = "no"
-----------------------------------------------------------------------------
(* Helpers.                                                                *)

(* An id is not handed out again while the game still names it: the        *)
(* generator takes ids from the block no id came back to for the longest   *)
(* time, to_destroy waits 60 frames, an event a frame, a player without an *)
(* entity a round.                                                         *)
StillNamed == to_destroy \cup {GameID[c] : c \in connected}
                         \cup {delayed[i].GameID : i \in DOMAIN delayed}
FreeIDs == Ids \ (entities \cup StillNamed)

IndexOf(s, x) == SelectInSeq(s, LAMBDA y : y = x)

IsActor(i) == i \in entities /\ cls[i] = "actor"

PendingDisconnect(c) == \E i \in DOMAIN delayed : delayed[i].client = c

(* game_sv_GameState::get_client: the entity's owner if it plays this id,  *)
(* else a connected player who once played it.                             *)
get_client(i) ==
  \/ i \in entities /\ owner[i] \in Clients /\ GameID[owner[i]] = i
  \/ \E c \in connected : i \in ToSet(mOldIDs[c])

(* game_PlayerState::SetGameID: the previous id is remembered.             *)
Remember(old, i) == Append(IF Len(old) >= MaxOldIDs THEN Tail(old) ELSE old, i)

(* Process_spawn: id enters the map as a child of p, or on its own.        *)
Process_spawn(id, class, p, c) ==
  /\ entities' = entities \cup {id}
  /\ cls' = [cls EXCEPT ![id] = class]
  /\ ID_Parent' = [ID_Parent EXCEPT ![id] = p]
  /\ children' = IF p = InvalidID THEN children
                 ELSE [children EXCEPT ![p] = Append(@, id)]
  /\ owner' = [owner EXCEPT ![id] = c]

(* x is taken out of its parent's children.                                *)
Detached_not(x) == children
Detached(x) == IF ID_Parent[x] = InvalidID THEN children
               ELSE [children EXCEPT ![ID_Parent[x]] = RemoveFirst(@, x)]

(* AllowDeadBodyRemove: the owners once a body is left to the server.      *)
LeftToServer_not(owners, body) == owners
LeftToServer(owners, body) == [owners EXCEPT ![body] = SV_Client]

(* Perform_transfer: x leaves `from' and becomes the last child of `to'.   *)
Perform_transfer(x, from, to) ==
  /\ children' = [children EXCEPT ![from] = RemoveFirst(@, x), ![to] = Append(@, x)]
  /\ ID_Parent' = [ID_Parent EXCEPT ![x] = to]
  /\ UNCHANGED <<entities, cls>>

(* entity_Destroy: a client who owns and plays one of X plays nothing.     *)
NobodyPlays_not(X) == main
NobodyPlays(X) == [c \in Clients |-> IF main[c] \in X /\ owner[main[c]] = c
                                     THEN InvalidID ELSE main[c]]

(* entity_Destroy and OnDestroyObject of x, already free of children, after *)
(* Process_event_reject has taken it from its parent.  An id out of use is *)
(* kept with the fields of a new one.                                      *)
Destroy_leaf(x) ==
  /\ entities' = entities \ {x}
  /\ children' = Detached(x)
  /\ ID_Parent' = [ID_Parent EXCEPT ![x] = InvalidID]
  /\ cls' = [cls EXCEPT ![x] = "item"]
  /\ owner' = [owner EXCEPT ![x] = SV_Client]
  /\ main' = NobodyPlays({x})
  /\ alive' = alive \ {x}
  /\ m_bAllowDeathRemove' = m_bAllowDeathRemove \ {x}
  /\ dropManual' = dropManual \ {x}
  /\ UNCHANGED <<connected, GameID, mOldIDs, delayed>>
-----------------------------------------------------------------------------
(* Players.                                                                *)

(* A player finishes connecting: he gets a spectator.  The player state is *)
(* new, or takes its GameID from the pool of disconnected clients.         *)
OnPlayerConnectFinished(c) ==
  /\ Idle /\ c \notin connected /\ ~PendingDisconnect(c)
  /\ \E id \in PerformIDgen(FreeIDs), pooled \in {GameID[c], InvalidID} :
       /\ Process_spawn(id, "spectator", InvalidID, c)
       /\ connected' = connected \cup {c}
       /\ main' = [main EXCEPT ![c] = id]
       /\ GameID' = [GameID EXCEPT ![c] = id]
       /\ mOldIDs' = [mOldIDs EXCEPT ![c] = <<pooled>>]
  /\ UNCHANGED <<objects, delayed, game, call, undefined>>

(* The network thread: the client goes to the pool of disconnected         *)
(* clients, his entities keep their owner (PerformMigration is empty), the  *)
(* event waits for the server thread.  FindClient no longer sees the client,*)
(* so the ids it remembers are dropped here.                               *)
OnCL_Disconnected(c) ==
  /\ undefined = "no" /\ c \in connected
  /\ connected' = connected \ {c}
  /\ delayed' = Append(delayed, [client |-> c, GameID |-> GameID[c]])
  /\ mOldIDs' = [mOldIDs EXCEPT ![c] = <<>>]
  /\ UNCHANGED <<tree, owner, objects, main, GameID, game, call, undefined>>

(* ProcessDelayedEvent / OnPlayerDisconnect: the body passes to the        *)
(* server's client, may be removed once dead, and joins the corpse list.   *)
(* KillPlayer no longer kills: the body stays as it is.  Nothing reads the *)
(* pooled client's entity after this, so it is reset.                      *)
OnPlayerDisconnect ==
  /\ Idle /\ delayed # <<>>
  /\ delayed' = Tail(delayed)
  /\ main' = [main EXCEPT ![Head(delayed).client] = InvalidID]
  /\ LET body == Head(delayed).GameID IN
     IF body \in entities
     THEN /\ owner' = LeftToServer(owner, body)
          /\ m_CorpseList' = Append(m_CorpseList, body)
          /\ m_bAllowDeathRemove' = IF cls[body] = "actor"
                                    THEN m_bAllowDeathRemove \cup {body}
                                    ELSE m_bAllowDeathRemove
     ELSE UNCHANGED <<owner, m_CorpseList, m_bAllowDeathRemove>>
  /\ UNCHANGED <<tree, alive, dropManual, connected, GameID, mOldIDs, to_destroy,
                 call, undefined>>

(* What a respawned player is given, the bag first.                        *)
Handout_bag_last == DefaultItems \o <<"bag">>
Handout == <<"bag">> \o DefaultItems

(* What SpawnPlayer and the start of roleplay's own RespawnPlayer add.     *)
SpawnActor(c, id) ==
  /\ main' = [main EXCEPT ![c] = id]
  /\ GameID' = [GameID EXCEPT ![c] = id]
  /\ mOldIDs' = [mOldIDs EXCEPT ![c] = Remember(@, GameID[c])]
  /\ alive' = alive \cup {id}
  /\ call' = [IdleCall EXCEPT !.op = "respawn", !.who = id, !.left = Handout]

(* RespawnPlayer of a spectator: he is destroyed, an actor takes over.     *)
RespawnSpectator(c) ==
  /\ Idle /\ c \in connected /\ main[c] # InvalidID /\ cls[main[c]] = "spectator"
  /\ \E id \in PerformIDgen(FreeIDs) :
       /\ entities' = (entities \ {main[c]}) \cup {id}
       /\ cls' = [cls EXCEPT ![main[c]] = "item", ![id] = "actor"]
       /\ owner' = [owner EXCEPT ![main[c]] = SV_Client, ![id] = c]
       /\ SpawnActor(c, id)
  /\ m_CorpseList' = RemoveFirst(m_CorpseList, main[c])
  /\ UNCHANGED <<ID_Parent, children, m_bAllowDeathRemove, dropManual, connected,
                 delayed, to_destroy, undefined>>

(* RespawnPlayer of an actor, dead (player ready) or alive (another team): *)
(* the body is left to the server's client and joins the corpse list.      *)
RespawnActor(c) ==
  /\ Idle /\ c \in connected /\ main[c] # InvalidID /\ cls[main[c]] = "actor"
  /\ \E id \in PerformIDgen(FreeIDs) :
       /\ entities' = entities \cup {id}
       /\ cls' = [cls EXCEPT ![id] = "actor"]
       /\ owner' = [LeftToServer(owner, main[c]) EXCEPT ![id] = c]
       /\ SpawnActor(c, id)
  /\ m_bAllowDeathRemove' = m_bAllowDeathRemove \cup {main[c]}
  /\ m_CorpseList' = Append(m_CorpseList, main[c])
  /\ UNCHANGED <<ID_Parent, children, dropManual, connected, delayed, to_destroy,
                 undefined>>

(* roleplay's RespawnPlayer hands out the bag first and then the items; it  *)
(* gives up when the client has gone in the meantime.                      *)
SpawnItemToActor ==
  /\ Running("respawn")
  /\ LET gone == Head(call.left) = "bag" /\ owner[call.who] \notin connected IN
     \/ /\ ~gone
        /\ \E id \in PerformIDgen(FreeIDs) :
             Process_spawn(id, Head(call.left), call.who, SV_Client)
        /\ call' = IF Len(call.left) = 1 THEN IdleCall
                   ELSE [call EXCEPT !.left = Tail(@)]
     \/ /\ gone \/ FreeIDs = {}
        /\ call' = IdleCall
        /\ UNCHANGED <<tree, owner>>
  /\ UNCHANGED <<objects, players, game, undefined>>

(* SpawnItem: an item on the ground, or in the hands of an actor (loaded   *)
(* from a save, bought, given by the administrator).                       *)
SpawnItem(class, p) ==
  /\ Idle /\ (p = InvalidID \/ IsActor(p))
  /\ \E id \in PerformIDgen(FreeIDs) : Process_spawn(id, class, p, SV_Client)
  /\ UNCHANGED <<objects, players, game, call, undefined>>

(* CActor::Die: the bag of the dead actor is going to be dropped.          *)
DroppedAtDeath(a) == {b \in ToSet(children[a]) : cls[b] = "bag"}

Die(a) ==
  /\ Idle /\ IsActor(a) /\ a \in alive
  /\ alive' = alive \ {a}
  /\ dropManual' = dropManual \cup DroppedAtDeath(a)
  /\ UNCHANGED <<tree, owner, m_bAllowDeathRemove, players, game, call, undefined>>
-----------------------------------------------------------------------------
(* Ownership.                                                              *)

(* Process_event_reject of anything but a bag.                             *)
RejectItem(x) ==
  /\ Idle /\ x \in entities /\ cls[x] \in ItemClasses /\ ID_Parent[x] # InvalidID
  /\ children' = Detached(x)
  /\ ID_Parent' = [ID_Parent EXCEPT ![x] = InvalidID]
  /\ UNCHANGED <<entities, cls, owner, objects, players, game, call, undefined>>

(* Process_event_reject of a bag: OnDetach fills it with the items of its  *)
(* bearer if he still has a client, after the iterator c was taken.        *)
RejectBag(b) ==
  /\ Idle /\ b \in entities /\ b \in dropManual /\ ID_Parent[b] # InvalidID
  /\ dropManual' = dropManual \ {b}
  /\ LET a == ID_Parent[b]
         c == IndexOf(children[a], b) IN
     IF get_client(a)
     THEN /\ \E active \in {x \in ToSet(children[a]) : cls[x] = "item"} \cup {InvalidID} :
               call' = [IdleCall EXCEPT !.op = "detach", !.who = a, !.what = b,
                                        !.c = c, !.keep = active]
          /\ UNCHANGED <<tree, to_destroy>>
     ELSE /\ to_destroy' = to_destroy \cup {b}
          /\ children' = Detached(b)
          /\ ID_Parent' = [ID_Parent EXCEPT ![b] = InvalidID]
          /\ UNCHANGED <<entities, cls, call>>
  /\ UNCHANGED <<owner, alive, m_bAllowDeathRemove, players, m_CorpseList, undefined>>

(* OnDetachPlayersBag sorts the bearer's children once and then transfers, *)
(* destroys and rejects them, in this order.                               *)
ToTransfer == SelectInSeq(children[call.who],
                          LAMBDA x : cls[x] = "item" /\ x # call.keep)
ToDestroy_none == 0
ToDestroy == SelectInSeq(children[call.who], LAMBDA x : cls[x] = "tool")

DetachTransfer ==
  /\ Running("detach") /\ ToTransfer # 0
  /\ Perform_transfer(children[call.who][ToTransfer], call.who, call.what)
  /\ UNCHANGED <<owner, objects, players, game, call, undefined>>

DetachDestroy ==
  /\ Running("detach") /\ ToTransfer = 0 /\ ToDestroy # 0
  /\ LET x == children[call.who][ToDestroy] IN
       /\ Destroy_leaf(x)
       /\ m_CorpseList' = RemoveFirst(m_CorpseList, x)
  /\ UNCHANGED <<to_destroy, call, undefined>>

DetachReject ==
  /\ Running("detach") /\ ToTransfer = 0 /\ ToDestroy = 0 /\ call.keep # InvalidID
  /\ children' = Detached(call.keep)
  /\ ID_Parent' = [ID_Parent EXCEPT ![call.keep] = InvalidID]
  /\ call' = [call EXCEPT !.keep = InvalidID]
  /\ UNCHANGED <<entities, cls, owner, objects, players, game, undefined>>

(* Back in Process_event_reject: C.erase(c) with the saved iterator.       *)
DetachErase ==
  /\ Running("detach") /\ ToTransfer = 0 /\ ToDestroy = 0 /\ call.keep = InvalidID
  /\ IF call.c \in DOMAIN children[call.who]
     THEN /\ children' = [children EXCEPT ![call.who] = RemoveAt(@, call.c)]
          /\ ID_Parent' = [ID_Parent EXCEPT ![call.what] = InvalidID]
          /\ call' = IdleCall
          /\ UNCHANGED undefined
     ELSE undefined' = "iterator" /\ UNCHANGED <<children, ID_Parent, call>>
  /\ UNCHANGED <<entities, cls, owner, objects, players, game>>

(* Process_event_ownership of an item: the first actor to ask gets it.     *)
TakeItem(a, x) ==
  /\ Idle /\ IsActor(a) /\ x \in entities /\ cls[x] \in ItemClasses
  /\ ID_Parent[x] = InvalidID
  /\ ID_Parent' = [ID_Parent EXCEPT ![x] = a]
  /\ children' = [children EXCEPT ![a] = Append(@, x)]
  /\ UNCHANGED <<entities, cls, owner, objects, players, game, call, undefined>>

(* Process_event_ownership of a bag: OnTouchPlayersBag empties it into the *)
(* actor, last item first, and destroys it instead of attaching it.        *)
TakeBag(a, b) ==
  /\ Idle /\ IsActor(a) /\ b \in entities /\ cls[b] = "bag"
  /\ ID_Parent[b] = InvalidID
  /\ call' = [IdleCall EXCEPT !.op = "touch", !.who = a, !.what = b]
  /\ UNCHANGED <<tree, owner, objects, players, game, undefined>>

TouchTransfer ==
  /\ Running("touch") /\ children[call.what] # <<>>
  /\ Perform_transfer(Last(children[call.what]), call.what, call.who)
  /\ UNCHANGED <<owner, objects, players, game, call, undefined>>

TouchDestroy_at_once ==
  /\ Running("touch")
  /\ call' = [IdleCall EXCEPT !.op = "destroy", !.who = call.who, !.todo = <<call.what>>]
  /\ UNCHANGED <<tree, owner, objects, players, game, undefined>>

TouchDestroy ==
  /\ Running("touch") /\ children[call.what] = <<>>
  /\ call' = [IdleCall EXCEPT !.op = "destroy", !.who = call.who, !.todo = <<call.what>>]
  /\ UNCHANGED <<tree, owner, objects, players, game, undefined>>
-----------------------------------------------------------------------------
(* Destruction.                                                            *)

(* Assumed, not tested by the code: the server's client has dropped the bag *)
(* of a dead body when the body is destroyed.  Its inventory update drops  *)
(* bags within a few frames, bodies stay for seconds (m_dwBodyRemoveTime). *)
BagDroppedInTime(x) == \A b \in ToSet(children[x]) : b \notin dropManual

(* GE_DESTROY sent by the server object of x: an item used up or left too  *)
(* long, a bag left on the ground too long (and longer than Update waits), *)
(* a dead body whose death has been handled.                               *)
DestroyObject(x) ==
  /\ Idle /\ x \in entities
  /\ \/ cls[x] \in ItemClasses
     \/ cls[x] = "bag" /\ ID_Parent[x] = InvalidID /\ x \notin to_destroy
     \/ /\ cls[x] = "actor" /\ x \notin alive /\ x \in m_bAllowDeathRemove
        /\ BagDroppedInTime(x)
  /\ call' = [IdleCall EXCEPT !.op = "destroy", !.todo = <<x>>]
  /\ UNCHANGED <<tree, owner, objects, players, game, undefined>>

(* Process_event_destroy goes down to the first child (a child missing     *)
(* from the map would keep its loop from ever ending) ...                  *)
DestroyChild ==
  /\ Running("destroy") /\ children[Last(call.todo)] # <<>>
  /\ Head(children[Last(call.todo)]) \in entities
  /\ call' = [call EXCEPT !.todo = Append(@, Head(children[Last(@)]))]
  /\ UNCHANGED <<tree, owner, objects, players, game, undefined>>

(* ... and destroys an entity that has none left, out of its parent.       *)
DestroyLeaf ==
  /\ Running("destroy") /\ children[Last(call.todo)] = <<>>
  /\ LET x == Last(call.todo) IN
       /\ Destroy_leaf(x)
       /\ m_CorpseList' = RemoveFirst(m_CorpseList, x)
  /\ call' = IF Len(call.todo) = 1 THEN IdleCall ELSE [call EXCEPT !.todo = Front(@)]
  /\ UNCHANGED <<to_destroy, undefined>>

(* game_sv_mp::Update trims the corpse list: the first corpse without      *)
(* children is destroyed and its entry erased; destroying it has already   *)
(* erased that entry (OnDestroyObject), so the second erase takes the next *)
(* one, or runs off the end.                                               *)
Removable(i) == i \notin entities \/ children[i] = <<>>
EraseEntry(list, i) == IF i \in DOMAIN list THEN RemoveAt(list, i) ELSE list

UpdateCorpses ==
  /\ (Idle \/ Running("corpses")) /\ Len(m_CorpseList) > MaxCorpses
  /\ LET i == SelectInSeq(m_CorpseList, Removable) IN
     \/ /\ i # 0 /\ m_CorpseList[i] \in entities
        /\ Destroy_leaf(m_CorpseList[i])
        /\ LET left == RemoveFirst(m_CorpseList, m_CorpseList[i]) IN
             /\ m_CorpseList' = EraseEntry(left, i)
             /\ undefined' = IF i \in DOMAIN left THEN undefined ELSE "iterator"
        /\ call' = [IdleCall EXCEPT !.op = "corpses"]
     \/ /\ i # 0 /\ m_CorpseList[i] \notin entities
        /\ m_CorpseList' = RemoveAt(m_CorpseList, i)
        /\ call' = [IdleCall EXCEPT !.op = "corpses"]
        /\ UNCHANGED <<tree, owner, objects, players, undefined>>
     \/ /\ i = 0 /\ Running("corpses")
        /\ call' = IdleCall
        /\ UNCHANGED <<tree, owner, objects, players, m_CorpseList, undefined>>
  /\ UNCHANGED to_destroy

UpdateCorpsesDone ==
  /\ Running("corpses") /\ Len(m_CorpseList) <= MaxCorpses
  /\ call' = IdleCall
  /\ UNCHANGED <<tree, owner, objects, players, game, undefined>>

(* roleplay's Update destroys the bags of to_destroy, and uses freed       *)
(* memory if one of them has been destroyed since.                         *)
UpdateToDestroy ==
  /\ Idle /\ to_destroy # {}
  /\ IF to_destroy \subseteq entities
     THEN /\ entities' = entities \ to_destroy
          /\ cls' = [i \in Ids |-> IF i \in to_destroy THEN "item" ELSE cls[i]]
          /\ dropManual' = dropManual \ to_destroy
          /\ UNCHANGED undefined
     ELSE undefined' = "entity" /\ UNCHANGED <<entities, cls, dropManual>>
  /\ to_destroy' = {}
  /\ UNCHANGED <<ID_Parent, children, owner, alive, m_bAllowDeathRemove, players,
                 m_CorpseList, call>>

(* OnRoundStart: the corpse list, the delayed events and the pool of       *)
(* disconnected clients are emptied, SLS_Clear destroys every entity; a    *)
(* bag carried by a body without a client enters to_destroy on the way.    *)
OnRoundStart ==
  /\ Idle
  /\ m_CorpseList' = <<>>
  /\ delayed' = <<>>
  /\ GameID' = [c \in Clients |-> IF c \in connected THEN GameID[c] ELSE InvalidID]
  /\ undefined' = IF \E i \in entities : owner[i] \in Clients \ connected
                  THEN "client" ELSE undefined
  /\ to_destroy' = to_destroy \cup
       {b \in entities : /\ cls[b] = "bag" /\ ID_Parent[b] # InvalidID
                         /\ ~get_client(ID_Parent[b])}
  /\ main' = NobodyPlays(entities)
  /\ entities' = {}
  /\ cls' = [i \in Ids |-> "item"]
  /\ ID_Parent' = [i \in Ids |-> InvalidID]
  /\ children' = [i \in Ids |-> <<>>]
  /\ owner' = [i \in Ids |-> SV_Client]
  /\ alive' = {} /\ m_bAllowDeathRemove' = {} /\ dropManual' = {}
  /\ UNCHANGED <<connected, mOldIDs, call>>
-----------------------------------------------------------------------------
Next ==
  \/ \E c \in Clients : \/ OnPlayerConnectFinished(c)
                        \/ OnCL_Disconnected(c)
                        \/ RespawnSpectator(c)
                        \/ RespawnActor(c)
  \/ OnPlayerDisconnect
  \/ SpawnItemToActor
  \/ \E class \in SpawnClasses, p \in Ids \cup {InvalidID} : SpawnItem(class, p)
  \/ \E x \in Ids : \/ Die(x)
                    \/ RejectItem(x)
                    \/ RejectBag(x)
                    \/ DestroyObject(x)
  \/ \E a, x \in Ids : TakeItem(a, x) \/ TakeBag(a, x)
  \/ DetachTransfer \/ DetachDestroy \/ DetachReject \/ DetachErase
  \/ TouchTransfer \/ TouchDestroy
  \/ DestroyChild \/ DestroyLeaf
  \/ UpdateCorpses \/ UpdateCorpsesDone \/ UpdateToDestroy
  \/ OnRoundStart

Spec == Init /\ [][Next]_vars
-----------------------------------------------------------------------------
(* Properties.                                                             *)

(* xrServer::verify_entities, and one place per entity: the parent of an   *)
(* entity lists it once among its children, and nobody else does, whatever *)
(* handlers interrupt or call one another.                                 *)
VerifyEntities ==
  /\ \A i \in entities :
       /\ ID_Parent[i] # InvalidID =>
            ID_Parent[i] \in entities /\ i \in ToSet(children[ID_Parent[i]])
       /\ \A x \in ToSet(children[i]) : x \in entities /\ ID_Parent[x] = i
  /\ \A i \in entities : \A j, k \in DOMAIN children[i] :
       children[i][j] = children[i][k] => j = k

(* Process_event_reject erases through the iterator it took before OnDetach *)
(* removed other children of the same parent: it still points at the bag.  *)
IteratorValid ==
  call.op = "detach" => /\ call.c \in DOMAIN children[call.who]
                        /\ children[call.who][call.c] = call.what

(* The entity a connected client plays (xrClientData::owner) is in the map, *)
(* is an actor or a spectator, owned by him, and is the one the game names *)
(* in his player state.                                                    *)
PlayedEntities ==
  \A c \in connected : main[c] # InvalidID =>
    /\ main[c] \in entities /\ cls[main[c]] \in {"actor", "spectator"}
    /\ owner[main[c]] = c /\ GameID[c] = main[c]

(* The owner pointer of an entity is the server's client, a connected one, *)
(* or one whose disconnection the server thread has still to handle; once  *)
(* it has handled it, nothing points to the departed client.               *)
OwnersKnown ==
  \A i \in entities : owner[i] \in {SV_Client} \cup connected \cup
                                   {delayed[k].client : k \in DOMAIN delayed}

(* What Update finds in to_destroy and is still there is an empty bag lying *)
(* on the ground, not an entity that got its id.                           *)
WaitingBags ==
  \A b \in to_destroy \cap entities :
    cls[b] = "bag" /\ ID_Parent[b] = InvalidID /\ children[b] = <<>>

(* OnDetachPlayersBag leaves nothing with the dead: everything is in the   *)
(* bag, on the ground or destroyed when the bag has been rejected.         *)
BodyEmptied ==
  [][call.op = "detach" /\ call' = IdleCall => children'[call.who] = <<>>]_vars

(* No item is lost while a bag is filled or picked up and destroyed.       *)
ItemsSurviveBags ==
  [][call.op \in {"detach", "touch", "destroy"} /\ call.who # InvalidID =>
       \A x \in entities : cls[x] = "item" => x \in entities']_vars

(* "entity not found for destroying" (DestroyGameItem's VERIFY2): the bags *)
(* Update destroys exist.                                                  *)
DestroyedBagsExist == undefined # "entity"
=============================================================================
