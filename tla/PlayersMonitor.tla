--------------------------- MODULE PlayersMonitor ---------------------------
(***************************************************************************)
(* The list of the server's clients (PlayersMonitor) and who uses it: the  *)
(* network thread adds clients and takes them out, both threads go through *)
(* the list under its recursive lock, and the main thread disconnects      *)
(* clients: one by one, all those of an address, or, for a high ping, from *)
(* within such an iteration.                                               *)
(***************************************************************************)
EXTENDS Naturals, Sequences, FiniteSets, SequencesExt

CONSTANTS
  Clients,    \* client objects; each enters the list once
  Here,       \* those of the address that is banned
  HighPing    \* those with a ping over the limit and no warning left

ASSUME MonitorAssumption == IsFiniteSet(Clients) /\ Here \subseteq Clients /\ HighPing \subseteq Clients

VARIABLES
  net_Players,                  \* the list
  csPlayers,                    \* who is in an iteration, or "nobody"
  now_iterating_in_net_players,
  pass,                         \* the iteration: its functor, place i and end ie
  cells,                        \* the memory of the vector since it began
  visited,                      \* the clients it has handled
  departed,                     \* clients that were taken out
  stage,                        \* of DisconnectAddress
  players_count, PlayersToDisconnect  \* its buffer and the capacity it got

list == <<net_Players, departed>>
iteration == <<csPlayers, now_iterating_in_net_players, pass, cells, visited>>
disconnecting == <<stage, players_count, PlayersToDisconnect>>
vars == <<list, iteration, disconnecting>>

Threads == {"main", "network"}
Functors == {"visit", "ping", "collect"}

TypeOK ==
  /\ net_Players \in Seq(Clients) /\ departed \subseteq Clients
  /\ csPlayers \in Threads \cup {"nobody"} /\ now_iterating_in_net_players \in BOOLEAN
  /\ now_iterating_in_net_players => csPlayers # "nobody"
  /\ pass \in [functor : Functors, i : Nat, ie : Nat]
  /\ cells \in Seq(Clients) /\ visited \in Seq(Clients) /\ pass.ie <= Len(cells)
  /\ stage \in {"idle", "counted", "collected"} /\ players_count \in Nat
  /\ PlayersToDisconnect \in Seq(Clients)

NoPass == [functor |-> "visit", i |-> 1, ie |-> 0]

Init ==
  /\ net_Players = <<>> /\ departed = {}
  /\ csPlayers = "nobody" /\ now_iterating_in_net_players = FALSE
  /\ pass = NoPass /\ cells = <<>> /\ visited = <<>>
  /\ stage = "idle" /\ players_count = 0 /\ PlayersToDisconnect = <<>>
-----------------------------------------------------------------------------
(* FindAndEraseClient: the rest of the vector moves down a cell, the last  *)
(* one keeps what it held; the flag is cleared, whoever had set it.        *)
FindAndEraseClient(c) ==
  /\ net_Players' = RemoveFirst(net_Players, c)
  /\ cells' = IF Contains(net_Players, c)
              THEN RemoveFirst(net_Players, c) \o SubSeq(cells, Len(net_Players), Len(cells))
              ELSE cells
  /\ now_iterating_in_net_players' = FALSE
  /\ departed' = departed \cup {c}

(* Whoever is not in an iteration himself waits for the end of one.        *)
Enter == csPlayers = "nobody"

(* The network thread: AddNewClient, and client_Destroy of one who left.   *)
AddNewClient(c) ==
  /\ Enter /\ c \notin departed /\ ~Contains(net_Players, c)
  /\ net_Players' = Append(net_Players, c)
  /\ UNCHANGED <<departed, iteration, disconnecting>>

(* Mutant: a client is taken out without the lock.                         *)
Leave_unlocked(c) ==
  /\ csPlayers # "network" /\ Contains(net_Players, c) /\ FindAndEraseClient(c)
  /\ UNCHANGED <<csPlayers, pass, visited, disconnecting>>

Leave(c) ==
  /\ Enter /\ Contains(net_Players, c) /\ FindAndEraseClient(c)
  /\ UNCHANGED <<csPlayers, pass, visited, disconnecting>>

(* ForEachClientDo and ForFoundClientsDo: the lock is taken, the end saved *)
(* and the functor called for every client.                                *)
BeginPass(thread, functor) ==
  /\ Enter /\ csPlayers' = thread
  /\ now_iterating_in_net_players' = TRUE
  /\ pass' = [functor |-> functor, i |-> 1, ie |-> Len(net_Players)]
  /\ cells' = net_Players /\ visited' = <<>>
  /\ UNCHANGED list

(* Handled: the functor is called with the client of the cell i.           *)
Handle(c) ==
  /\ csPlayers # "nobody" /\ pass.i <= pass.ie /\ c = cells[pass.i]
  /\ pass' = [pass EXCEPT !.i = @ + 1] /\ visited' = Append(visited, c)
  /\ UNCHANGED csPlayers

(* A functor that only looks and sends; when it broadcasts, it goes        *)
(* through the list itself, and the inner iteration clears the flag.       *)
Visit(c) ==
  /\ pass.functor = "visit" /\ Handle(c)
  /\ now_iterating_in_net_players' \in {now_iterating_in_net_players, FALSE}
  /\ UNCHANGED <<list, cells, disconnecting>>

(* PerformCheckClientsForMaxPing disconnects from within.                  *)
CheckPing(c) ==
  /\ pass.functor = "ping" /\ Handle(c)
  /\ IF c \in HighPing THEN FindAndEraseClient(c)
     ELSE UNCHANGED <<list, cells, now_iterating_in_net_players>>
  /\ UNCHANGED disconnecting

(* ToDisconnectFillerFunctor.  Mutant: it disconnects at once.             *)
Collect_now(c) ==
  /\ pass.functor = "collect" /\ Handle(c)
  /\ IF c \in Here THEN FindAndEraseClient(c)
     ELSE UNCHANGED <<list, cells, now_iterating_in_net_players>>
  /\ UNCHANGED disconnecting

Collect(c) ==
  /\ pass.functor = "collect" /\ Handle(c)
  /\ PlayersToDisconnect' = IF c \in Here THEN Append(PlayersToDisconnect, c) ELSE PlayersToDisconnect
  /\ UNCHANGED <<list, cells, now_iterating_in_net_players, stage, players_count>>

EndPass ==
  /\ csPlayers # "nobody" /\ pass.i > pass.ie /\ csPlayers' = "nobody"
  /\ now_iterating_in_net_players' = FALSE
  /\ pass' = NoPass /\ cells' = <<>> /\ visited' = <<>>
  /\ stage' = IF pass.functor = "collect" THEN "collected" ELSE stage
  /\ UNCHANGED <<list, players_count, PlayersToDisconnect>>

(* The iterations: a broadcast or the like on either thread, the check of  *)
(* pings at the end of a frame.                                            *)
Broadcast(thread) ==
  /\ thread = "main" => stage = "idle"
  /\ BeginPass(thread, "visit") /\ UNCHANGED disconnecting

PerformCheckClientsForMaxPing == stage = "idle" /\ BeginPass("main", "ping") /\ UNCHANGED disconnecting

(* DisconnectAddress: the clients are counted, those of the address are    *)
(* collected and, after the lock has been left, disconnected.  More may be *)
(* collected than were counted: what the buffer then overwrites is not     *)
(* followed.                                                               *)
CountClients ==
  /\ stage = "idle" /\ Enter
  /\ stage' = "counted" /\ players_count' = Len(net_Players) /\ PlayersToDisconnect' = <<>>
  /\ UNCHANGED <<list, iteration>>

CollectClients ==
  /\ stage = "counted" /\ BeginPass("main", "collect") /\ UNCHANGED disconnecting

(* DisconnectClient: DestroyCleint looks the client up by his id first.    *)
DisconnectNext ==
  /\ stage = "collected" /\ Enter /\ PlayersToDisconnect # <<>>
  /\ LET c == Head(PlayersToDisconnect) IN
     IF Contains(net_Players, c) THEN FindAndEraseClient(c)
     ELSE UNCHANGED <<list, cells, now_iterating_in_net_players>>
  /\ PlayersToDisconnect' = Tail(PlayersToDisconnect)
  /\ UNCHANGED <<csPlayers, pass, visited, stage, players_count>>

EndDisconnect ==
  /\ stage = "collected" /\ PlayersToDisconnect = <<>> /\ stage' = "idle"
  /\ UNCHANGED <<list, iteration, players_count, PlayersToDisconnect>>

(* KickCheaters: a client that is looked up by id, outside any iteration.  *)
KickCheater(c) ==
  /\ stage = "idle" /\ Enter /\ Contains(net_Players, c) /\ FindAndEraseClient(c)
  /\ UNCHANGED <<csPlayers, pass, visited, disconnecting>>

MainThread ==
  \/ Broadcast("main") \/ PerformCheckClientsForMaxPing
  \/ CountClients \/ CollectClients \/ DisconnectNext \/ EndDisconnect
  \/ \E c \in Clients : KickCheater(c)

NetworkThread ==
  Broadcast("network") \/ \E c \in Clients : AddNewClient(c) \/ Leave(c)

Iterating == EndPass \/ \E c \in Clients : Visit(c) \/ CheckPing(c) \/ Collect(c)

Next == MainThread \/ NetworkThread \/ Iterating

Fairness ==
  /\ WF_vars(Iterating) /\ WF_vars(EndDisconnect)
  /\ SF_vars(CollectClients) /\ SF_vars(DisconnectNext)

Spec == Init /\ [][Next]_vars /\ Fairness
-----------------------------------------------------------------------------
(* The check of pings has disconnected somebody: from now on it walks over *)
(* the memory of the list as it was, and may leave out some who are there  *)
(* and handle others twice.                                                *)
Interrupted == pass.functor = "ping" /\ \E k \in DOMAIN visited : visited[k] \in HighPing

(* While a thread goes through the list nothing else changes it: unless it *)
(* has itself disconnected somebody, the clients are handled in their      *)
(* order, each once, and none is left out.                                 *)
EachOnce ==
  csPlayers # "nobody" /\ ~Interrupted =>
    visited = SubSeq(net_Players, 1, pass.i - 1) /\ pass.ie = Len(net_Players)

(* VERIFY(!now_iterating_in_net_players) of AddNewClient and               *)
(* FindAndEraseClient: the list is not changed under an iteration, but for *)
(* the check of pings, which fails it.                                     *)
NotWhileIterating ==
  [][net_Players' # net_Players =>
       ~now_iterating_in_net_players \/ \E c \in HighPing : CheckPing(c)]_vars

(* Disconnecting an address ends, and nobody of it who was in the list     *)
(* when the collecting began is left then.                                 *)
AddressCleared ==
  \A c \in Here :
    stage = "counted" /\ Contains(net_Players, c) ~> stage = "idle" /\ c \in departed
=============================================================================
