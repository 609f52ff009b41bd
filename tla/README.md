# The xray-monokit server in TLA+

This directory holds models of the parts of the engine whose correctness depends
on the order in which things happen: the multiplayer server's entities and the
events that change them, the connections and lists of its players, what is kept of
players who have left, how the world reaches the clients, the transfer of files, and
the scheduler that gives every object its updates. TLC checks them on small
instances; TLAPS proves for every instance the central invariants of the entities, the
queue of their events, the generator of their ids, the worlds of the clients, the lists of clients
and of bans, the pool of departed clients and the transfer of files, and of the network
server and of the scheduler that they implement what they promise. Paths below are relative to `src/src/`; `PROJECT.json` maps every definition to its lines.

## 1. The system

The engine (`xrEngine`) runs one frame after another on a main thread. Scheduled
objects get their updates in it. In a multiplayer game the server (`xrGame/xrServer*`)
and its game mode (`game_sv_*`) live in the same process as one client; other
clients reach them through `xrNetServer`, whose thread accepts connections, delivers
messages and reports departures. The mode this fork adds is *roleplay*
(`game_sv_roleplay` < `game_sv_freemp` < `game_sv_mp` < `game_sv_GameState`).

| Component | State | Operations | Talks to |
|---|---|---|---|
| Server entities | `entities`, `ID_Parent`, `children`, `owner` of each | spawn, take, reject, transfer, destroy, clear | game mode (`OnTouch`, `OnDetach`, `OnDestroyObject`), clients (messages) |
| Roleplay mode | `m_CorpseList`, `to_destroy`, player states | join, respawn, die, leave, fill and empty the player's bag, per-frame `Update`, round start | entities (re-entrant calls), event queue |
| Delayed events | `ready`, `unused`, `m_blocked_clients` | add, retrieve, release, erase, block | main thread, network thread |
| Id generator | blocks of free ids, ordered by the time of the last free | get, get a wished id, free | entities |
| Network server, handshake | slots, pending and registered clients, `xrClientData`, queues of messages, delayed packets and events, keys | connect, register, attach, identify, accept, spawn, kick, disconnect | players' programs (messages), events, entities |
| List of clients | `net_Players`, its lock and flag | add, erase, iterate, disconnect an address | both threads |
| Pool of departed clients | `m_dclients` | add, get, expire, clear | handshake, round start |
| Bans | `BannedAddresses`, `banned_list_ip.ltx` | ban, lift, load, save, update | network thread (who is let in) |
| Client replication | a message queue and an object list of each client, `destroy_queue` | snapshot, spawn, take, reject, die, destroy; a client's frame | entities, object list |
| File transfer | transfers and receivers of both sides, screenshot proxies | request, send, receive, relay, abort, reject, time out | link, scheduler |
| Scheduler | `Items` heap, `ItemsRT`, `ItemsProcessed`, `Registration` | register, unregister, update | every scheduled object (callback that calls back) |

`PROJECT.json` lists the rest (other modes, ALife, AI, user interface, rendering,
sound, physics, formats), with the reason why each is not modelled.

**What is hard here.** Handlers call one another through messages the server sends
to itself, synchronously, so a loop over `children`, over the corpse list or over a
saved iterator runs while the handlers it calls change what it loops over. The
network thread reports a departure at any point. Names of entities and of clients
(ids, raw pointers, owner pointers, the sender of a packet) outlive what they name by
frames or rounds. The queue leaves the event being handled in place while handlers
and the other thread erase events. Scheduled objects register, unregister and delete
themselves and others while the scheduler walks its lists. Clients learn of the world
by messages that were sent when it was different, and the server asks its own client,
a frame behind, what the dead carry. The packets of a file transfer name a client and
not a transfer. The list of hazards in `PROJECT.json` gives the line where each bites
and the property that covers it.

**What makes each component correct.**

- Entities: parent and children agree and every entity is in one place, whatever
  interrupts or re-enters (`VerifyEntities`); no item is lost with a bag; nothing refers
  to who or what is gone.
- Events: each accepted event is handled once and in order unless a round ends or its
  client leaves; an object of the pool is never in two places.
- Ids: an id is given when nobody has it, and not again while there are others whose
  old owners nobody can remember.
- Connections: every player goes through the stages of joining once and in order and is
  forgotten at none; slots, registrations and farewells stay in step, whichever thread
  disconnects, and the game hears of a departure twice only when both do at once.
- List of clients: an iteration handles every client once; who is to be disconnected is.
- Pool: whoever comes back goes on from his own last session, once.
- Bans: they outlive stops and crashes, keep out, and end when they are over.
- Replication: what is on its way makes every client's world the server's, and every
  event finds what it speaks of.
- Files: what is received is one whole file of the one asked; every transfer ends.
- Scheduler: an update goes only to a living, registered object, once a frame, and
  everyone gets a turn.

## 2. The modules

| Module | Content |
|---|---|
| `ServerEntities` | server entities, ownership, bags, corpses, players, rounds; its properties |
| `ServerEntitiesInv` | the inductive invariants `Inv` and `PlayersInv` |
| `GameEventQueue` | the event queue and its threads |
| `IdGenerator` | the generator of entity ids |
| `IdGeneratorSpec` | what it promises: a set of free ids |
| `NetworkServer` | players' programs, network thread and main thread while players join, play and leave |
| `Session` | what it promises of each connection |
| `PlayersMonitor` | the list of clients, its lock, iterations and disconnections |
| `ClientsPool` | departed clients and their return |
| `ClientsPoolState` | its variables and its two properties, for the module that proves them |
| `BannedList` | the list of bans, its file, stops and crashes |
| `WorldReplication` | the tree of entities on its way to the clients' object lists |
| `FileTransfer` | screenshots, configurations and the server's logo |
| `FileTransferState` | its variables, its files and its two safety properties, for the module that proves them |
| `Sheduler` | the scheduler |
| `ShedulerSpec` | what it promises |
| `MC...` | the instances for TLC |
| `Subsequences` | loops that keep some of a container's elements, as a recursive function |
| `SequenceLemmas` | facts about these loops, about removal, append and search in sequences and about sequences of sequences, proved |
| `NetworkServer_proofs` | the invariant of the two threads, the queues and every client; what follows from it; the refinement of `Session` |
| `GameEventQueue_proofs` | the queue's invariant and its four safety properties |
| `ServerEntities_proofs` | its `TypeCorrect`; what each change of the tree preserves of its shape; `Inv` is invariant, and what follows from it; `PlayersInv` is invariant; then the invariant of `IdGenerator` and the refinement of `IdGeneratorSpec` |
| `Sheduler_proofs` | what waits in `Registration`; the scheduler's invariant and what follows from it; the refinement of `ShedulerSpec` |
| `WorldReplication_proofs` | what events do to a world; that a client that handles them sees what they lead to; the invariant, handler by handler, and what follows from it |
| `Clients_proofs` | theorems about `PlayersMonitor` and `ClientsPool` |
| `Administration_proofs` | theorems about `BannedList` and `FileTransfer` |

The models meet where one takes the other's promise as its environment: `IdGenerator`
supports what `ServerEntities` assumes of reused ids; the event queue is a plain FIFO in
`NetworkServer` and `ServerEntities`, as `InOrder` and `NothingLost` allow; the tree of
`WorldReplication` changes as `ServerEntities` lets it; the list of clients is a set in
`NetworkServer` since `PlayersMonitor` looks after its iterations; the file transfer's
packets follow the link of `NetworkServer`.

### ServerEntities

The variables are the code's fields, one function per field of an entity (`cls` is
`m_tClassID`). An entity has a class out of five: actor, spectator, the player's bag,
`item` (goes into the bag at death) and `tool` (destroyed at death: bolt, torch and
the like). One action is one message handled on the server's main thread, with
everything the handler calls. Where a handler loops, or the code checks
`verify_entities` in the middle, it is split, and `call` holds what it still has to
do: which actor and bag (`who`, `what`), the saved iterator (`c`), the active item it
keeps out of the bag (`keep`), the entities being destroyed, innermost last (`todo`),
what is still to be handed out (`left`).

| Code | Actions |
|---|---|
| `OnPlayerConnectFinished`, `OnCL_Disconnected`, `OnPlayerDisconnect` | same names; the second is the network thread's and may come between two steps of any handler, the third handles the event it queues |
| `RespawnPlayer` of `game_sv_mp`, `_freemp`, `_roleplay` | `RespawnSpectator`, `RespawnActor`, then `SpawnItemToActor` for the bag and each item |
| `CActor::Die`, `NeedToDestroyObject` | `Die`, `DestroyObject` |
| `Process_event_reject` | `RejectItem`; `RejectBag` with `DetachTransfer`, `DetachDestroy`, `DetachReject`, `DetachErase` |
| `Process_event_ownership` | `TakeItem`; `TakeBag` with `TouchTransfer`, `TouchDestroy` |
| `Process_event_destroy` | `DestroyChild`, `DestroyLeaf` |
| `game_sv_mp::Update`, `game_sv_roleplay::Update` | `UpdateCorpses`, `UpdateCorpsesDone`, `UpdateToDestroy` |
| `OnRoundStart`, `SLS_Clear` | `OnRoundStart` |

When the code would use freed memory the action sets `undefined` and the model stops:
nothing after it could be said of the program. That is why these runs do not check
deadlock. `undefined = "client"` (a round start clears the pool of departed clients
before it destroys the entities that point to them) is reachable.

What the model takes from outside: `PerformIDgen` may return any free id; an id is
not reused while a connected player, a queued event or `to_destroy` still names it
(`StillNamed`). `IdGenerator`'s `FreshFirst` is the reason: ids that were freed come
after all blocks none of whose ids was, out of 256 blocks of 256. A corpse that is in
`m_CorpseList` under a reused id is not excluded. That a dead body is destroyed only
after its bag has been dropped is an assumption (`BagDroppedInTime` in `DestroyObject`):
`CActor::NeedToDestroyObject` (`xrGame/Actor.cpp:1816-1832`) does not ask for the bag, but the
inventories of the server's client are updated every frame, which drops the bag within a
few frames, and a body stays for `m_dwBodyRemoveTime`, seconds. Without it the bag would be
rejected from within the loop that destroys the body, and what its filling would then do
to the tree is not modelled; `Inv` and what follows from it rest on the assumption
(`WorldReplication` has the other side of it, `DeadDropTheirBag`). A bag in `to_destroy` is not removed by the item's own timer, which
is longer than 60 frames.

### GameEventQueue

`ready` and `unused` are sequences of addresses (`Cells`), `event` is what each
object holds. Each operation of the queue holds its critical section and is one step.
The main thread's frame is `Retreive`, `OnEvent`, `Release`; between them the event is
at the head of `ready` and unprotected. `OnCL_Disconnected` and `client_Destroy` are
the network thread. Of the event types four are told apart: those never ignored
(`player_started`, which also unblocks its client if he names the right map, and `player_state`, whose handler
may turn its client away), those ignored from blocked clients (`player_killed`) and
the network thread's own. Whether the queue has been idle for a minute, which decides
if a long pool is trimmed, is free. The single-player branch of `AddDelayedEvent` and
the creation of clients are left out. `added`, `last` and `number` are the model's own,
to tell events apart.

### IdGenerator and IdGeneratorSpec

The blocks, their arrays and times are the code's; `Before` is `SID_Block::operator<` and
`MinElement` what `std::min_element` finds with it. The clock is `Device.TimerAsync()`; it
starts at 1 because the generator is made after the timer has been started, so that
time 0 means that nothing of a block was ever freed. `held` and `freed` are the model's
own. Its names (`GeneratorSpec`, `generator`, `Values` for the ids) differ from those of
`ServerEntities` because one module proves both. `IdGeneratorSpec` knows only which ids are in use; the mapping takes them to be those
in no array.

### NetworkServer and Session

A player has a link and a program. The program answers each message of the handshake
(`Answer`); links keep their order, because every message is sent reliably; when a player
leaves or is lost, any suffix of what he has sent may be lost with him. The network
thread lets connections in (`ProcessConnection`), polls messages
(`PollIncomingMessages`) and disconnects who has gone. The main thread goes through
the phases of a frame: the messages, the delayed packets, the delayed events and the
rest, in which a client may be kicked. `DisconnectClient` runs on either thread and is
split where the other one may come in between: `FindSlot`, `CloseConnection`,
`DestroyCleint`, `FindAndEraseClient`, `client_Destroy`. Both may be anywhere in it, for two
clients or for the same one; then the second to come finds the client still registered,
until the first has erased him, and says the farewell again. Two things stop the model
(`failed`): a thread that would use a NULL pointer, fail an assertion or remove a packet
from the empty deque; and a thread that erases a slot and so moves the one the other thread
has found but not yet erased (`race`), which would then take another's slot or none.

A remote administrator's commands are delayed packets like the request for connection
data (`Command`, `OnDelayedMessage`). A packet is handled where it lies: `handling` is its
sender, and only afterwards `pop_front` removes what is the first packet by then. Of what the
console does the model has that clients are disconnected, one after the other, those of
an address that is banned, the administrator himself too (`Execute`); his own packets,
the one being handled among them, are then erased (`client_Destroy`), and the pop removes
another client's packet, or there is none. `dropped` remembers whose request went
that way. Only who plays sends commands, and nobody bans the address of the server's own
client; what else the console may change is left out.

What is simplified: a connection that is turned away has its slot for as long as
`CloseConnection` takes to erase it, but the tests between are one step with the
`push_back`, and that it may move the vector's memory is not followed; the registration of
those who have waited is one step; operations on the delayed packets are atomic, although
`client_Destroy` takes no lock; a delayed event is handled and removed in one step
(`GameEventQueue` has the difference); after `AttachNewClient` the server's own client
talks to the server by calls and is followed no further; GameSpy's check is off, the
login's on; rounds are left out. Keys are the numbers of their seeds.

`Session` has one stage per connection, from `outside` to `spawned` and `gone`. The
refinement takes a connection to be gone when its link is closed.

### PlayersMonitor

The list with its recursive lock, and who uses it: broadcasts on both threads, the check
of pings, which disconnects from within its iteration, and `DisconnectAddress` in its
three stages (count, collect, disconnect). `FindAndEraseClient` clears the flag
`now_iterating_in_net_players` whoever had set it, as the release build does, and `cells` is the
memory the loop walks over after that. Each client object enters the list once. That the
buffer of `DisconnectAddress` is sized before the lock is taken is not followed.

### ClientsPool

Sessions, numbered in the order they come, of players who all want the same name.
`Add` is split from `FindAndEraseClient`, between which a player may return. A player who
joins before his old connection is known to be lost is renamed (`CheckPlayerName`). A
client who is turned away for his digest has a state and is kept like one who has
played; so the properties except who was ever turned away (`refused`). A minute is taken
to be longer than the events and answers under way. That the vector has no lock is left
out: both threads' operations are atomic here.

### BannedList

Memory and file, as sets of bans, of which an address has one (who is banned already keeps
his ban). The server is down, listening (connections come in before the list is
loaded), up, or failed: `Connect` reports no error when it cannot listen and the game
goes on without the list. The time is in hours, because what matters of the file is
that `mktime` reads an uninitialised `tm_isdst`, so that each load may move a ban by an
hour. `ordered` and `reloads` remember what the administrator ordered, `overwritten` and
`slipped` the two exceptions.

### WorldReplication

The server's changes of the tree, each atomic, with the messages it sends to every
accepted client: a message is a sequence of events (a pack is several). A client's queue
is its link and `game_events`. `RemoteFrame` handles any number of messages and then
destroys what is queued for it, unless it has a parent; `ServerFrame` is the frame of
the server's own client, which handles its whole queue, and after which the inventories drop
the bags of the dead (`dropManual`, then `RejectBag`, whose handler looks at the client's
objects). `CInventory::Update` may return before it drops anything, while a weapon is being
put away or changed (`xrGame/Inventory.cpp:851-855`, `876-880`); `DeadDropTheirBag` assumes
that this passes. The snapshot of a joining client is sent by `OnCL_Connected`, parents first.
`ImportHealth` is the update that tells a client of a death before the event does. An id is
reused when neither a list nor a message names it. Round starts, clients that leave, crows
and sleeping objects are left out. The order of things inside one pack or snapshot is a
fixed one (`SetToSeq`), so no symmetry is used. Ids are finitely many (`IdsAreFinite`):
they are u16.

### FileTransfer

A file is a sequence of numbered pieces, one for each packet; the logo is file −1. The
server's site has receivers (by source), transfers (by destination and source) and the
screenshot proxies, which receive and pass on at the same time; a client's has one
upload and receivers by source. An administrator's requests begin when the server's
transfer of the logo to him has ended. A timeout may hit any receiver that waits
(`late`). A receiver that got pieces of two files, or a size that was not initialised,
may believe anything of its completion. `quiet` marks sessions asked for when nothing of an
earlier one was under way: what `Received` is about. The screenshot itself, or the
dump, is made in one step, and two things asked for before the first is made are made into
one upload (`making` is a set), which only concerns sessions that are not quiet. A client
who leaves rejects, with `~client_site`, what he still receives and aborts his upload.
Transfers from a file on the disk, which nothing starts, and
files of the server's own client are left out.

### Sheduler and ShedulerSpec

Entries of the heap hold a time relative to now; `Update(ticks)` moves them by the time
since the last frame (0 or 1 ticks), so that no clock grows. The heap is an
unordered sequence from which `ProcessStep` takes an entry with the least time. An
update is a callback: between `UpdateRT`/`ProcessStep` and `ReturnRT`/`ReturnStep`
callers may register, unregister, delete and create any object, the one being updated
included, and so may they between frames. Callers keep the code's own contract, its
VERIFYs: they register what is not registered, and delete what they have
unregistered. The constructor leaves `b_RT` uninitialised, so `Create` chooses it. This
is the release build, where the destructor unregisters once more.

`ShedulerSpec` knows only which objects are registered, which need updates and which
one is being updated. The mapping takes `registered` to be the objects for which
`CSheduler::Registered` (the debug build's check, here an operator) holds;
`KeepsPromise` says that every step of the scheduler is a step of `ShedulerSpec` or
leaves its variables alone, so an update never goes to an object that has
unregistered, and nothing but its own request ends an object's registration.

## 3. The runs

| Run | Instance | Distinct states | Shows |
|---|---|---|---|
| `entities` | 4 ids, 2 players, default item and tool, corpse limit 1 | 262 447 | `VerifyEntities`, `PlayedEntities`, `OwnersKnown`, `IteratorValid`, `BodyEmptied`, `ItemsSurviveBags` while players join, respawn, die, leave and return, take things and bags, and rounds start |
| `entities_to_destroy` | 4 ids, 1 player | – | violates `DestroyedBagsExist` (finding 1) |
| `event_queue` | 3 objects, 2 clients, one leaving, one turned away, 3 events | 438 628 | `PoolSound`, `BlockedKeptOut`, `InOrder`, `NothingLost`, `EveryEventLeaves` |
| `event_queue_release` | one client turned away, 2 events | – | violates `ReleaseFindsEvent` (finding 2) |
| `id_generator` | 5 ids in blocks of 2, 2 and 1 | 186 276 | `GivesUnusedIds` (refinement), `FreshFirst` |
| `network` | the server's client and 2 players, 2 or 3 slots, a command of each | 1 524 357 | `ClientsSound`, `KeysAgree`, `FarewellGiven`, `NobodyForgotten`, `FailsForTheGone`, `SessionSpec` (refinement) |
| `players` | 4 clients, 2 of the banned address, 1 with a high ping | 37 238 | `EachOnce`, `NotWhileIterating`, `AddressCleared` |
| `clients_pool` | 2 players, 3 sessions, 2 minutes | 2 427 258 | `EntriesSound`, `LatestState` |
| `bans` | 2 addresses, 4 hours, 3 starts | 538 715 | `BansKept`, `BannedStaysOut`, `NotLiftedEarly`, `LiftedInTime` |
| `replication` | 2 players with bags, 1 item, a client that joins | 87 006 | `WorldsAgree`, `MessagesMakeSense`, `DestroyedDisappear`, `DeadDropTheirBag` |
| `file_transfer` | an administrator who joins, a client, both may leave, 2 requests | 154 355 | `Received`, `ConfiguredOnce`, `TransfersEnd` |
| `sheduler` | 2 objects, 2 waiting operations, lateness 2 | 313 729 | `ListsSound`, `KeepsPromise` (refinement), `OncePerFrame`, `RealtimeUpdated`, `NobodyStarves` |

`PoolSound`, `ListsSound`, `ClientsSound`, `EntriesSound` and `MessagesMakeSense` include
the type invariants of their modules.

### Bounds

- *Entities.* Four ids are a player with his bag and an item beside the body he left, or
  two players with one thing each. `MaxOldIDs` is 1 (10 in the code): one remembered id
  is enough for a client to be found by it and for it to be forgotten. `MaxCorpses` 1
  makes the second death exceed it. Ids and players are interchangeable.
- *Events.* Three objects with `Pooled` 2 and `MaxUnused` 1 (16 and 32 in the code) let the
  pool be empty, be used and be trimmed; three events are the one being handled, one
  behind it, and one that recycles an object.
- *Ids.* Three blocks are the least for the order to matter when one has run empty; the
  last one is short, as the code's is; three ticks give each block a time of its own.
- *Network.* One player may leave or be lost at any moment and be turned away for his
  digest; the other may be refused, turned away for his login, or kicked. With two slots
  one player is refused while the other is inside, with three both get in. Either player
  may be an administrator and have either disconnected, with one command of his under way at a
  time (`MaxCommands`): the least for a packet of the other player, or none, to wait behind it.
  The numbers of the seeds reach 3.
- *Clients.* Four are the one disconnected from within the iteration, one before and one
  after him, and two of one address.
- *Pool.* Three sessions are a player who leaves twice and one who takes his name in
  between; a reconnect time of 0 disables the pool.
- *Bans.* One ban is over well before the other; three starts allow a reload after a
  failed start.
- *Replication.* The server goes on while no client's queue has more than `MaxMessages` 1
  message, after which a change may add several: two things are under way at once, and
  a client may take them in any portions. `MaxMessages` 2 holds too (425 000 states).
- *Files.* Two pieces to the logo and up to two to other files; `MaxPackets` 1 on the way
  of each transfer. Two requests let the second meet what is left of the first. Source and
  destination of a relay may both leave (`Leaving`). Two packets
  (423 000 states) hold too.
- *Scheduler.* Two objects are the least for one to disturb another; two waiting
  operations allow a pair that cancels; `Batch` 1 (3 in the code) lets the time limit
  strike after every update; `Period` and `MaxLate` of 1 and 2 ticks tell due, late and
  later apart.

`MaxEvents`, `MaxTime`, `MaxStarts`, `MaxMessages`, `MaxRequests`, `MaxPackets`, `MaxItems`,
`MaxCommands`, `MaxRegistration` and `MaxLate` are the models' own bounds and stand in the guards that
need them.

### Fairness

- *Events:* `Main` is weakly fair: `ProcessDelayedEvent` is called in every frame.
- *List of clients:* iterations and the end of a disconnection are weakly fair. The two
  steps that need the lock, `CollectClients` and `DisconnectNext`, are strongly fair: the
  network thread takes the lock again and again, but does not keep it.
- *Bans:* `UpdateBannedList` is weakly fair; it is called every 100 frames.
- *Replication:* each client takes messages (its link delivers and it draws frames), and the
  inventories of the server's client are updated.
- *Files:* both sides handle what arrives and draw frames, time passes for receivers that
  wait, a client who has left is destroyed.
- *Scheduler:* `Working` is weakly fair: updates return and the loops go on; `Update(1)` is
  strongly fair: frames keep coming and, however short they are, time passes between
  some of them again and again.

Nothing is assumed of players, clients, administrators or callers. The entities, the
network, the ids and the pool have no fairness: their properties are about safety.

### Findings

Two properties that quote an assertion of the code are violated; `PROJECT.json` gives
lines and the story of each.

1. A bag in `to_destroy` may be freed before `Update` uses it.
2. Handling the event of a player who is refused erases that very event, and the queue's
   assertion fails when it is released.

Other places where the models had to say what the code does, rather than what it seems
to intend:

- Trimming the corpse list erases two entries per body that has gone
  (`xrGame/game_sv_mp.cpp:112`), as `UpdateCorpses` does.
- A round start destroys clients to whom entities still point
  (`undefined = "client"`).
- The check of pings changes the list it goes through: `EachOnce` and `NotWhileIterating`
  stop there.
- `DisconnectClient` takes no lock against the network thread. Both threads may say the
  farewell of one client, the second time while he is being destroyed (`FarewellGiven`); and
  an erased slot may move the one the other thread has found (`failed = "race"`, at which
  `network` stops).
- A client may be destroyed while his delayed packet is handled, by his own command
  (`sv_banplayer_ip` of his own address, or of one he shares) or by the network thread:
  `pop_front` then removes the request of another client, who joins no further (the exception
  in `NobodyForgotten`), or finds the deque empty (`failed = "range"`; `FailsForTheGone` says
  that the sender has been destroyed by then).
- `M_CREATE_PLAYER_STATE` of a client who has just left fails its `R_ASSERT2`; other handlers
  use a NULL pointer: `FailsForTheGone` says that this happens for those only.
- With `sv_no_auth_check` a client is never asked for his player state, whose absence fails
  an assertion; `NetworkServer` has the check on.
- A server that cannot listen goes on and saves its empty list over the bans
  (`overwritten`); for a moment after it has begun to listen the list is not there
  (`slipped`).
- A dead actor refuses on the clients what the server gives him: the exception in
  `WorldsAgree`.
- The server relays for ever what has broken off at its source (`Starved`: nothing feeds the
  proxy any more, and its file is not complete), and takes late
  packets of one transfer for the next one's (the condition of `Received`).

## 4. What is proved

For all values of the constants that satisfy the modules' ASSUMEs.

**ServerEntities** (names are distinct, default items are of the two item classes, at
least one old id is remembered, the generator returns free ids): `TypeCorrect`; `InvHolds`:
`Spec => []Inv`, and from it `EntitiesVerified`, `IteratorStaysValid`,
`WaitingBagsAreBags`, `BodiesEmptied`, `NoItemLost`; and with
`PlayersInv` also `PlayersPlayTheirOwn` and `OwnersAreKnown`.

`VerifyEntities` alone is not inductive. `Inv` adds what the handlers rely on:

- `Listed` says that an entity is carried only by one of a higher `Rank` (actor 2, bag
  1, else 0): the tree has no cycle, and a transfer between a bag and its bearer cannot
  make one.
- `Unused` says that an id that is out of use has no parent and is nobody's child, so
  that a spawn starts clean; `SpectatorsAlone` lets a respawn drop a spectator
  without looking for his parent.
- `BagFirst`: the bag is the first child of its bearer, because it is handed out first
  and a later bag is emptied and destroyed instead of taken. Transfers, destructions
  and rejects of the *other* children therefore never move it, and this is why the
  iterator saved by `Process_event_reject` stays valid (`DetachInv`). The order of the
  handout is what the proof rests on; the mutant that hands the bag out last breaks it.
- `CarriedBagsEmpty`, `DeadDropTheirBag`: a bag is filled only while it is rejected, and
  a dead actor's bag is waiting to be dropped; so `to_destroy` receives only empty
  bags, and, with `BagDroppedInTime`, a body that is destroyed carries none.
- `CallInv`: what each split handler has established when it goes on, among it that
  the entities being destroyed descend in rank (`DestroyInv`).

`PlayersInv` adds to `PlayedEntities` that whoever owns an entity also names it in his
player state, or has a farewell in the queue that does (`OwnersNameIt`); that a client
has one farewell and only when he has gone (`OneFarewell`); and that no two clients, and no
client and farewell, name one entity (`OwnGameIDs`), so that handling a farewell takes
nobody else's entity away.

`ServerEntities_proofs` proves once for each kind of change (detach,
attach, add, remove) that it preserves `Tree`; its next part puts them
together for spawn, transfer and destruction, and has a lemma `Step...` for each action
that cites these. The type part of `Inv` comes from
`TypeCorrect`, so `InvHolds` is a step per action over the remaining three parts.

**NetworkServer** (any players, any slots, any number of commands; whoever may leave, be
lost, be turned away or kicked, and whoever may command): `Invariance` (`Spec => []IInv`), and from it `SlotsAreThePlayers`, `KeysDoAgree`,
`FarewellIsGiven`, `NobodyIsForgotten`, `OnlyTheGoneFail` and `ServerIsASession`, the
refinement of `Session`. `IInv` speaks of control and of each client; TLC has checked it on
the instance of `network`.

- *Control.* Unless the program has failed the slot a thread has found stays its client's,
  and one who had none has been closed (`Found`): an erase of the other thread that would move
  it is the race, one of the same client's slot is found by both at the same place and moves it
  too. The packet being handled is the first, or its sender has been destroyed (`Handing`).
  The slots are those of the connections that are let in, and whoever is registered has
  one or is being destroyed, by either thread (`Slots`, `JobsSound`). All
  creations wait behind that of the server's own client, or he is attached (`HostFirst`).
- *Batches.* Joining goes in six batches of at most three messages, each answered
  by the next: the creation; key and challenge; key and digest; key and result; map;
  configuration. Everything under way for a client belongs to *one* batch b, and what is in
  events, messages, the link to the server and the link to the player is in this order
  (`Pipe`, `Line`): a message moves from the front of one queue to the end of the one
  before (commands, which concern nobody's joining, are filtered out, and the packet being
  handled is not counted). This is why the last message of a batch finds the other queues empty, and a new
  batch begins in an empty pipe.
- *What b says.* It determines the last seed, and when the client is attached, accepted
  and may be spawned (`Known`); the server's and the player's keys are b once the messages
  that change them have arrived (`Keys`, which gives `KeysAgree`); the player state comes
  before the login (`StateFirst`, which gives the stage `identified` and that
  `OnPlayerConnectFinished` finds a state); and until he plays the last message of the
  batch is somewhere, unless it was removed in place of another's packet (`Alive`, which gives
  `NobodyForgotten`).
- *Farewells.* Between `DestroyCleint` and `FindAndEraseClient` the other thread may still
  handle the client's messages; a `ready` handled there would give him an entity after his
  farewell. `Farewell` says that as long as he is registered nobody has said it but a thread
  that is about to erase him (`Parting`), and that by then he has had it, or that no `ready`
  waits. So a second farewell finds the other thread there.

The refinement has one lemma `...Session` per action; a step shows in the stage of one
connection or of none, except the registration of the server's own client, who takes all
who wait with him. These theorems speak of the program up to its first failure
(`failed`), as the model does.

**GameEventQueue** (any finite pool, any clients, any bounds): `PoolIsSound`,
`BlockedAreKeptOut`, `RetrievedInOrder`, `NothingIsLost`. Its `IInv`: queue and pool have no
object in common and none twice (`Separate`); numbers ascend along the queue and what has
been retrieved is behind them, except the event being handled (`Ordered`, `Behind`);
between the erasing at the end of a round and the blocking of the clients nothing is
there that would be ignored (`EndsEmpty`). That erasing keeps the order of what it leaves
rests on `Filtered`: its result is picked from the sequence by an increasing function
(`FilteredPicks` in `SequenceLemmas`, by induction over a set of naturals).

**IdGenerator** (any range of ids, any block size): `GeneratorTypeCorrect`, `PoolIsExact`,
`AvailableWhenFree`, `IdsAreUnused` (the refinement of `IdGeneratorSpec`), `FreshIdsFirst`.
The invariant `IInv` says that what an array lists is free and in it once (`Sound`,
`EachOnce`), that what is free is listed (`Complete`), that a block's time is 0 until an
id of it has been freed (`Clock`), and that `m_available_count` counts the blocks that are
not empty (`Counted`). That a freed id finds room in its array, the code's
`VERIFY(m_tCount < tBlockSize)`, follows by counting the places of a block (`Room`).

**PlayersMonitor** (any finite set of clients): `TypeCorrect`, `EveryoneOnce`, `LockHolds`.
The invariant `Steady`: until the check of pings has disconnected somebody, an iteration
sees the list as it was when it began.

**ClientsPool** (any players and numbered sessions, any reconnect times): `EntriesAreSound`,
`ResumesTheLatest`. Both rest on `LastPooled`: once the digest of a later session of a
player is known, no earlier one of his is in the pool, unless he was turned away. It is not
inductive: a session may leave, and enter the pool, after its player has joined again, and
the digest of the new session is on its way all this time. `PoolInv` says why it comes too
late to miss the entry:

- `NamesInv`: a name is given only when nobody in the list has it. So while the earlier
  session is in the list the later one has another name (and is another player to the
  pool); and if it has the same, the earlier has left the list already, and before it has
  got from there into the pool no digest of the later one has been handled. This last
  holds because the network thread, which puts it there, is also the one that receives
  digests, and asking takes an event after that of the name.
- `EventsInv`, `NewSessions`: states and logins wait in the order of the sessions, so when a
  name is given no later session has one.
- `DigestsInv`: a digest is asked for and answered once, so a state is taken up once.
- `LeavingInv`, `EntriesInv`: who plays or is leaving is not in the pool, and who is in it
  is there once, with the time he left at.

**Sheduler** (any objects, any bounds): `TypeCorrect`, `ListsAreSound`, `UpdatedOncePerFrame`,
`RealtimeAreUpdated` and `DoesWhatItPromises`, the refinement of `ShedulerSpec`.

- *What waits.* `QueueSound`: the first operation that waits in `Registration` for an
  object of the lists takes it out of them (`FirstErases`), and between two registrations
  of an object waits an unregistration (`Alternate`). The callers' contract gives it,
  because `Registered` looks at the last operation that waits, and every turn of
  `internal_Registration` keeps it, the one that drops a registration with the
  unregistration that follows it included (`TurnSound`). So nothing is entered twice.
- *Who is registered*, and as what, does not depend on how much of `Registration` has been
  carried out (`SameKinds`): for `ShedulerSpec` internal_Registration changes nothing.
  Its loop is a recursive function of what still waits; that such a function exists and
  where it ends is shown by induction over the number of operations (`SolutionExists`,
  `SolutionsAgree`, `LoopDone`).
- *The loops.* `IInv` adds what each phase of `Update` finds (`PhaseInv`), that no object
  is in two places (`ListsInv`), that nothing waits for an object the loops still look
  at (`QueueInv`), that the registered live and `b_RT` says which list they are in
  (`OwnersInv`), that who is still to be looked at has not been updated in this frame
  (`FrameInv`), and that no more real-time objects were passed without an update than
  entries were erased (`MissedInv`).

**WorldReplication** (any finitely many ids of each class, any clients, any
`MaxMessages`): `WorldsAgreeTheorem` (`Spec => []WorldsAgree`) and `MakeSenseTheorem`
(`Spec => []MessagesMakeSense`), both from `WorldsInv`, whose parts, but for the
worlds that `InStep` says exist, TLC has checked on the instance of `replication`.

- *Events as changes.* A world is a set of entities with their parents. `Change(A, e, B)`:
  the event e makes B of A, and may do so (the thing it takes is nobody's, what it
  destroys carries nothing). `Leads(A, q, B)`: the events q do, one after the other. This
  speaks of no object list and no frame, so that each handler's messages, and the snapshot, need one
  lemma each: they lead from the old tree to the new (`Transfer`, `Spawned`, `Thrown`,
  `LeavesGone`, `SnapshotTold`), in whatever order a set of them is sent (`LeadsForEach`).
- *What a client sees.* `Sees(s, A)`: the object list s shows A, but for what it refused
  for the dead and what is queued to be destroyed. `EventSeen`: whatever may happen to A
  happens to s when it handles the event, and no expectation of the code is unmet. Hence
  for a frame of any number of messages (`FrameSeen`, by induction over the events; that
  the recursive functions of the model have values is `EventsRun` and `FlattenSolved`).
- *`InStep`.* The events on their way lead from a world the client sees to the server's
  tree. `WorldsAgree` follows for any state, because handling them all arrives there; and a
  frame that handles some leaves the rest leading from where it has come (`LeadsSplit`).
  `Fresh` says that no id comes again while its old object is still to be destroyed.
- *The server's own client.* `RejectBag` acts on what this client sees the dead carry, a
  frame behind. That this is what they carry does not follow from `InStep`: something may
  be on its way. `BagEvents` says that a bag moves on this client only when it is spawned
  on an actor it does not know yet or left by one it knows to be dead; so a bag that is
  carried is seen where it is (`BagsKnown`), and no death is on its way while bags are to
  be dropped (`Dropping`), between the frame and the inventories' update.

**BannedList** (any addresses, any times, any shift by at most an hour): `TypeCorrect`,
`BansAreKept`, `TheBannedStayOut`, `BansLastTheirTime`. `Kept` relates memory and file to
what the administrator ordered in every state of the server; `Late` bounds how early a
ban may end by the number of times it was loaded.

**FileTransfer** (any clients, administrators, proxies, requests and packets under way):
`ReceivesWholeFiles`, `ToldOnce`. TLC has checked the parts of `TransferInv` on the
instance of `file_transfer`.

- *Records.* `Sound`: a proxy serves the client whose receiver points to it and the
  administrator whose transfer does, nobody else while there is one of the two, and never
  the server's own client, in whose name the logo is sent; who has left sends, makes and
  gets nothing.
- *Uploads.* As long as the server has a receiver that was made when nothing of the client was under
  way (`quiet`), he is yet to be asked, or yet to make the file (`Coming`), or there is one
  file f (`Under`): the proxy has its first l pieces, the packets of the client in the queue have the
  pieces l+1 to n, in order, and he has not sent those after n, which he
  reads from f. `Pieces` says this of any part of a queue in which messages about
  others are mixed with them.
- *Downloads.* For each destination and source: as long as a receiver is quiet, or the
  message that makes it is on its way, there is a file f of which it has l
  pieces and of which the packets on their way have the next ones, up to n (`Run`); then the
  server has the rest, in the proxy's file or still to come from the upload (`Fed`), or f is
  complete, or the run is ended by an abort (`Stream`). The two halves meet in `Fed`: the
  proxy's file at the server is f's beginning.
- *The end.* A receiver believes it has all when its content is as long as the size it was
  told; as content is always a beginning of one f and the size f's, it has f
  (`PieceReceived`). A transfer of the logo is begun only when its client joins,
  which he does once (`LogoOnce`).
- *Configuration.* A client waits for `M_SV_CONFIG_FINISHED` when he joins, and it comes
  from a callback of the logo's transfer. `LogosData` says that no relay is taken for it, and
  `ToldEnd` that a transfer leaves the table together with its callback, whichever of the three
  ways it ends.

`SequenceLemmas` proves what `RemoveFirst`, `RemoveAt`, `Front`, `Filtered` and `FlattenSeq`
do to a sequence and its elements, for all of these proofs.

**Only model-checked.** Liveness (`EveryEventLeaves`, `AddressCleared`, `LiftedInTime`,
`DestroyedDisappear`, `DeadDropTheirBag`, `TransfersEnd`, `NobodyStarves`), with ENABLED, is
outside what the prover does. The two findings are counterexamples, which are TLC's.
Every other property of the runs is a theorem.

## 5. Not modelled, and the plan

Within the modelled parts:

- Entities: the values they carry (health, money, names), teams, the single-player
  branches, weapon addons, saving of players. That the handlers' loops end rests on
  `VerifyEntities`; it is not a property of its own.
- Network: `DestroyConnection` and `DisconnectAll` at the end of the program, the server over
  DirectPlay (one of the two is compiled), passwords and the IP filter beyond that they
  turn away, `CheckNewPlayer`'s refusal (it is in `GameEventQueue`), rounds, updates of
  objects.
- Replication: movement and compressed updates, other events, demo playback,
  `ClearAllObjects` at a new round, clients that leave, active and sleeping objects.
- Scheduler: `Destroy`, `EnsureOrder` (nothing calls it) and time stamps.
- Data races proper: the set of blocked clients in `CreateSafe`
  (`xrGame/game_sv_event_queue.cpp:50`), the pool's vector, the vector of bans and the map of
  entities are used by both threads; the models take each operation on them as atomic.

Whole components that are left out are numeric (physics, collision, particles, AI planners),
pure input and output (rendering, sound, formats, user interface), data that is not in
the repository (scripts), or vendored; `PROJECT.json` says which. The other game modes
share the handlers that are modelled and add rules of scores and money.

What a continuation would take up, most important first:

1. `Possession`: an abstract specification (who holds what; things are created, moved,
   destroyed, in one place at a time) that both `ServerEntities` and the worlds of
   `WorldReplication` implement.
2. Liveness of joining: with fair threads and a player who answers, he plays or is
   turned away.
3. A round start in `NetworkServer` and `WorldReplication`, with the pool cleared under
   entities that point to departed clients.
4. The object list's active and sleeping objects, with the scheduler's promise as their
   environment; ALife switching after it.
