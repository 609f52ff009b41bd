--------------------------- MODULE NetworkServer ----------------------------
(***************************************************************************)
(* Players join, play and leave: the network thread (SteamNetServer),      *)
(* which lets connections in, keeps the messages it receives for the main  *)
(* thread and destroys clients who have gone; the main thread              *)
(* (xrServer::Update), which handles in every frame the messages, the      *)
(* delayed packets and the delayed events and may disconnect a client      *)
(* itself; and the program of each player.  Messages between a player and  *)
(* the server keep their order (they are sent reliably).                   *)
(*                                                                         *)
(* What is external: the networking library (links).  After                *)
(* AttachNewClient the server's own client talks to the server by calls,   *)
(* not by messages, and is followed no further.  GameSpy's key check is    *)
(* off and its accounts are not used (CheckNewPlayer passes); logins are   *)
(* checked.  Both threads may disconnect clients, the same one too, at the *)
(* same time, and take no lock for it.  The model stops (failed) when a    *)
(* NULL pointer is used, an R_ASSERT fails, a packet is removed from the   *)
(* empty deque, or a thread erases a slot and so moves the one that the    *)
(* other thread has found and not yet erased (race).                       *)
(*                                                                         *)
(* A remote administrator's commands are delayed packets.  Of what they do *)
(* (Console->Execute) the model has that clients are disconnected, one or  *)
(* several, the administrator himself too (sv_banplayer, sv_banplayer_ip); *)
(* nobody bans the address of the server's own client.                     *)
(***************************************************************************)
EXTENDS Naturals, Sequences, SequencesExt, Subsequences

CONSTANTS
  Remote,           \* connections of players
  Host,             \* the connection of the server's own client
  Nobody,           \* SV_Client is NULL
  MaxPlayers,       \* values of m_max_players
  Unlisted,         \* may be turned away at once: banned, not in the IP filter, wrong password
  BadLogin,         \* may be turned away for login or password
  Banned,           \* may be turned away for their digest
  Kicked,           \* whom the main thread may disconnect in the rest of a frame
  Radmins,          \* who are remote administrators when they play
  Targets,          \* whom an administrator may have disconnected
  MaxCommands,      \* bound of an administrator's commands that are under way
  Leaving           \* who may leave, or be lost, at any time

ASSUME ClientsAssumption ==
  /\ Host \notin Remote /\ Nobody \notin Remote \cup {Host} /\ MaxPlayers \subseteq Nat \ {0}
  /\ Unlisted \cup BadLogin \cup Banned \cup Kicked \cup Radmins \cup Targets \cup Leaving \subseteq Remote
  /\ MaxCommands \in Nat

Clients == Remote \cup {Host}

VARIABLES
  \* The players' programs and the links.
  link,       \* state of each connection
  toServer,   \* messages on their way to the server, in order
  toClient,   \* messages on their way to each player
  secret,     \* key of each player's program (CLevel::m_secret_key)
  playing,    \* the players whose programs have been configured
  \* The network thread's.
  m_max_players, m_players, m_pending_clients, m_bServerClientConnected,
  \* Shared.
  net_players,       \* the registered clients
  client,            \* xrClientData
  SV_Client,
  m_messagesQueue, m_aDelayedPackets, events,
  \* Control.
  phase,      \* what the main thread does in its frame
  handling,   \* whose delayed packet is handled (a copy of its SenderID)
  job,        \* what each thread has to do for the client it disconnects
  farewells,  \* number of PLAYER_DISCONNECTED events of each client
  dropped,    \* whose request was removed in place of another's packet
  failed

peers == <<toServer, toClient, secret, playing>>
queues == <<m_messagesQueue, m_aDelayedPackets, events>>
slots == <<m_max_players, m_players, m_pending_clients, m_bServerClientConnected>>
registry == <<net_players, client, SV_Client>>
frame == <<phase, handling, dropped>>
vars == <<link, peers, slots, registry, queues, frame, job, farewells, failed>>

Threads == {"net", "main"}

(* connecting, lost: the library has a Connecting callback for the server; *)
(* broken: a ClosedByPeer or ProblemDetectedLocally callback.  leaving: it *)
(* has been delivered, or who was connecting is turned away.               *)
Links == {"none", "connecting", "lost", "open", "broken", "leaving", "closed"}
Seeds == 0..3
Message(t, n) == [type |-> t, n |-> n]
FromClient == [type : {"data", "ack", "state", "auth", "digest", "map", "request", "ready", "remote"}, n : Seeds]
FromServer == [type : {"connected", "key", "challenge", "digest", "result", "map", "configured"}, n : Seeds]
Received == [sender : Clients, type : {"ack", "state", "auth", "digest", "map", "request", "ready", "remote", "create"}, n : Seeds]
ClientData == [bConnected : BOOLEAN, bVerified : BOOLEAN, ps : BOOLEAN, net_Accepted : BOOLEAN,
               owner : BOOLEAN, m_last_key_sync_request_seed : Seeds, m_secret_key : Seeds]
Jobs == [step : {"idle", "slot", "erase", "farewell", "destroy", "clean"}, of : Clients, at : Nat]

Disconnecting(c) == [step |-> "slot", of |-> c, at |-> 0]
Idle == [step |-> "idle", of |-> Host, at |-> 0]

(* A thread begins to disconnect c.                                        *)
Disconnect(t, c) == job' = [job EXCEPT ![t] = Disconnecting(c)]

TypeOK ==
  /\ link \in [Clients -> Links]
  /\ toServer \in [Clients -> Seq(FromClient)] /\ toClient \in [Clients -> Seq(FromServer)]
  /\ secret \in [Clients -> Seeds] /\ playing \subseteq Clients
  /\ m_max_players \in MaxPlayers /\ m_players \in Seq(Clients) /\ Len(m_players) <= m_max_players /\ m_pending_clients \in Seq(Clients)
  /\ m_bServerClientConnected \in BOOLEAN
  /\ net_players \subseteq Clients /\ client \in [Clients -> ClientData]
  /\ SV_Client \in {Host, Nobody}
  /\ m_messagesQueue \in Seq(Received) /\ m_aDelayedPackets \in Seq(Received)
  /\ events \in Seq(Received)
  /\ phase \in {"messages", "packets", "command", "pop", "events", "rest"}
  /\ handling \in Clients \cup {Nobody} /\ dropped \subseteq Clients
  /\ job \in [Threads -> Jobs]
  /\ farewells \in [Clients -> Nat] /\ failed \in {"no", "null", "assert", "range", "race"}

NewClient == [bConnected |-> FALSE, bVerified |-> FALSE, ps |-> FALSE, net_Accepted |-> FALSE, owner |-> FALSE,
              m_last_key_sync_request_seed |-> 0, m_secret_key |-> 0]

Init ==
  /\ link = [c \in Clients |-> "none"]
  /\ toServer = [c \in Clients |-> <<>>] /\ toClient = [c \in Clients |-> <<>>]
  /\ secret = [c \in Clients |-> 0] /\ playing = {}
  /\ m_max_players \in MaxPlayers /\ m_players = <<>> /\ m_pending_clients = <<>> /\ m_bServerClientConnected = FALSE
  /\ net_players = {} /\ client = [c \in Clients |-> NewClient] /\ SV_Client = Nobody
  /\ m_messagesQueue = <<>> /\ m_aDelayedPackets = <<>> /\ events = <<>>
  /\ phase = "messages" /\ handling = Nobody /\ dropped = {} /\ job = [t \in Threads |-> Idle]
  /\ farewells = [c \in Clients |-> 0] /\ failed = "no"
-----------------------------------------------------------------------------
(* The players' programs.                                                  *)

Connect(c) ==
  /\ failed = "no" /\ link[c] = "none" /\ link' = [link EXCEPT ![c] = "connecting"]
  /\ UNCHANGED <<peers, slots, registry, queues, frame, job, farewells, failed>>

(* What a program sends when it gets a message (which may change its key). *)
(* The connection data are requested when the map has been confirmed.      *)
(* Mutant: the player state is not sent.                                   *)
Answer_stateless(c, m) ==
  CASE m.type = "connected"  -> <<Message("data", 0)>>
    [] m.type = "key"        -> <<Message("ack", m.n)>>
    [] m.type = "challenge"  -> <<Message("auth", secret[c])>>
    [] m.type = "digest"     -> <<Message("digest", secret[c])>>
    [] m.type = "result"     -> <<Message("map", 0)>>
    [] m.type = "map"        -> <<Message("request", 0)>>
    [] m.type = "configured" -> <<Message("ready", 0)>>

Answer(c, m) ==
  CASE m.type = "connected"  -> <<Message("data", 0)>>
    [] m.type = "key"        -> <<Message("ack", m.n)>>
    [] m.type = "challenge"  -> <<Message("state", secret[c]), Message("auth", secret[c])>>
    [] m.type = "digest"     -> <<Message("digest", secret[c])>>
    [] m.type = "result"     -> <<Message("map", 0)>>
    [] m.type = "map"        -> <<Message("request", 0)>>
    [] m.type = "configured" -> <<Message("ready", 0)>>

ClientReceive(c) ==
  /\ failed = "no" /\ link[c] = "open" /\ toClient[c] # <<>>
  /\ LET m == Head(toClient[c]) IN
     /\ toClient' = [toClient EXCEPT ![c] = Tail(@)]
     /\ toServer' = [toServer EXCEPT ![c] = @ \o Answer(c, m)]
     /\ secret' = IF m.type = "key" THEN [secret EXCEPT ![c] = m.n] ELSE secret
     /\ playing' = IF m.type = "configured" THEN playing \cup {c} ELSE playing
  /\ UNCHANGED <<link, slots, registry, queues, frame, job, farewells, failed>>

(* A player leaves or is lost; of what is on its way some may not arrive.  *)
Leave(c) ==
  /\ failed = "no" /\ c \in Leaving
  /\ \/ link[c] = "connecting" /\ link' = [link EXCEPT ![c] = "lost"] /\ UNCHANGED toServer
     \/ /\ link[c] = "open" /\ link' = [link EXCEPT ![c] = "broken"]
        /\ \E n \in 0..Len(toServer[c]) : toServer' = [toServer EXCEPT ![c] = SubSeq(@, 1, n)]
  /\ toClient' = [toClient EXCEPT ![c] = <<>>]
  /\ UNCHANGED <<secret, playing, slots, registry, queues, frame, job, farewells, failed>>

(* An administrator, who has logged in, sends a command.                   *)
UnderWay(c) ==
  Len(SelectSeq(toServer[c], LAMBDA m : m.type = "remote"))
  + Len(SelectSeq(m_messagesQueue \o m_aDelayedPackets, LAMBDA e : e.sender = c /\ e.type = "remote"))
Command(c) ==
  /\ failed = "no" /\ link[c] = "open" /\ c \in Radmins \cap playing
  /\ UnderWay(c) < MaxCommands
  /\ toServer' = [toServer EXCEPT ![c] = Append(@, Message("remote", 0))]
  /\ UNCHANGED <<link, toClient, secret, playing, slots, registry, queues, frame, job, farewells, failed>>

(* The library closes a connection: nothing more is received from it.      *)
Closed(c) ==
  /\ link' = [link EXCEPT ![c] = "closed"]
  /\ toServer' = [toServer EXCEPT ![c] = <<>>] /\ toClient' = [toClient EXCEPT ![c] = <<>>]
  /\ UNCHANGED <<secret, playing>>

(* A message reaches its player unless the connection is gone.             *)
SendTo(c, s) ==
  toClient' = IF link[c] = "open" THEN [toClient EXCEPT ![c] = @ \o s] ELSE toClient
-----------------------------------------------------------------------------
(* The network thread.                                                     *)
Network == failed = "no" /\ job["net"] = Idle

(* A connection is let in: it gets a slot and is accepted.                 *)
LetIn(c) ==
  /\ m_players' = Append(m_players, c)
  /\ link' = [link EXCEPT ![c] = "open"]
  /\ toClient' = [toClient EXCEPT ![c] = <<Message("connected", 0)>>]
  /\ UNCHANGED <<toServer, secret, playing, job>>

(* Who is turned away has got a slot, which CloseConnection takes back: he *)
(* is refused, or has gone, so that accepting fails.                       *)
Refusable(c) == link[c] = "lost" \/ c \in Unlisted
TurnAway(c) ==
  /\ m_players' = Append(m_players, c)
  /\ link' = [link EXCEPT ![c] = "leaving"]
  /\ Disconnect("net", c)
  /\ UNCHANGED peers

(* Mutant: the slot of one that is turned away is not given back.          *)
ProcessConnection_keeps(c) ==
  /\ Network /\ link[c] \in {"connecting", "lost"} /\ c \notin ToSet(m_players)
  /\ \/ Len(m_players) >= m_max_players /\ Closed(c) /\ UNCHANGED <<m_players, job>>
     \/ /\ Len(m_players) < m_max_players /\ Refusable(c)
        /\ Closed(c) /\ m_players' = Append(m_players, c) /\ UNCHANGED job
     \/ Len(m_players) < m_max_players /\ link[c] # "lost" /\ LetIn(c)
  /\ UNCHANGED <<m_max_players, m_pending_clients, m_bServerClientConnected, registry, queues,
                 frame, farewells, failed>>

ProcessConnection(c) ==
  /\ Network /\ link[c] \in {"connecting", "lost"} /\ c \notin ToSet(m_players)
  /\ \/ Len(m_players) >= m_max_players /\ Closed(c) /\ UNCHANGED <<m_players, job>>
     \/ Len(m_players) < m_max_players /\ Refusable(c) /\ TurnAway(c)
     \/ Len(m_players) < m_max_players /\ link[c] # "lost" /\ LetIn(c)
  /\ UNCHANGED <<m_max_players, m_pending_clients, m_bServerClientConnected, registry, queues,
                 frame, farewells, failed>>

(* FinishConnection, for each connection in s: the client is registered.   *)
FinishConnection(s) ==
  /\ net_players' = net_players \cup ToSet(s)
  /\ client' = [c \in Clients |-> IF c \in ToSet(s) THEN NewClient ELSE client[c]]
  /\ events' = events \o [k \in DOMAIN s |-> [sender |-> s[k], type |-> "create", n |-> 0]]

(* Those who come before the server's own client wait for it.  Mutants:    *)
(* they do not wait; they are forgotten.                                   *)
OnClientDataReceived_now(c) ==
  /\ FinishConnection(<<c>>)
  /\ m_bServerClientConnected' = (m_bServerClientConnected \/ c = Host)
  /\ UNCHANGED m_pending_clients

OnClientDataReceived_forgets(c) ==
  IF c = Host
  THEN /\ FinishConnection(<<c>>)
       /\ m_bServerClientConnected' = TRUE /\ m_pending_clients' = <<>>
  ELSE IF m_bServerClientConnected
  THEN FinishConnection(<<c>>) /\ UNCHANGED <<m_bServerClientConnected, m_pending_clients>>
  ELSE /\ m_pending_clients' = Append(m_pending_clients, c)
       /\ UNCHANGED <<m_bServerClientConnected, net_players, client, events>>

OnClientDataReceived(c) ==
  IF c = Host
  THEN /\ FinishConnection(<<c>> \o m_pending_clients)
       /\ m_bServerClientConnected' = TRUE /\ m_pending_clients' = <<>>
  ELSE IF m_bServerClientConnected
  THEN FinishConnection(<<c>>) /\ UNCHANGED <<m_bServerClientConnected, m_pending_clients>>
  ELSE /\ m_pending_clients' = IF c \in ToSet(m_pending_clients) THEN m_pending_clients
                               ELSE Append(m_pending_clients, c)
       /\ UNCHANGED <<m_bServerClientConnected, net_players, client, events>>

(* One message of c.  Its queue is locked while the main thread handles it. *)
PollIncomingMessages(c) ==
  /\ Network /\ link[c] \in {"open", "broken"} /\ toServer[c] # <<>>
  /\ LET m == Head(toServer[c]) IN
     IF m.type = "data"
     THEN OnClientDataReceived(c) /\ UNCHANGED m_messagesQueue
     ELSE /\ phase # "messages"
          /\ m_messagesQueue' = Append(m_messagesQueue, [sender |-> c, type |-> m.type, n |-> m.n])
          /\ UNCHANGED <<net_players, client, events, m_bServerClientConnected, m_pending_clients>>
  /\ toServer' = [toServer EXCEPT ![c] = Tail(@)]
  /\ UNCHANGED <<link, toClient, secret, playing, m_max_players, m_players, SV_Client, m_aDelayedPackets, frame,
                 job, farewells, failed>>

OnSteamNetConnectionStatusChanged(c) ==
  /\ Network /\ link[c] = "broken"
  /\ link' = [link EXCEPT ![c] = "leaving"]
  /\ Disconnect("net", c)
  /\ UNCHANGED <<peers, slots, registry, queues, frame, farewells, failed>>
-----------------------------------------------------------------------------
(* Disconnecting a client, on either thread: CloseConnection finds the     *)
(* client's slot and erases it, DestroyCleint marks him as disconnected,   *)
(* tells the game (OnCL_Disconnected) and destroys him (client_Destroy:    *)
(* the registration goes, then the delayed packets).                       *)

At(t, step) == failed = "no" /\ job[t].step = step
Then(t, step) == job' = [job EXCEPT ![t].step = step]
Done(t) == job' = [job EXCEPT ![t] = Idle]

FindSlot(t) ==
  /\ At(t, "slot")
  /\ LET c == job[t].of IN
     job' = [job EXCEPT ![t].step = "erase",
                        ![t].at = SelectInSeq(m_players, LAMBDA p : p = c)]
  /\ UNCHANGED <<link, peers, slots, registry, queues, frame, farewells, failed>>

(* An erase moves the slots behind it: one that the other thread has found *)
(* is then another's, or none.                                             *)
Moves(t) == job[t].at # 0 /\ \E u \in Threads \ {t} : job[u].step = "erase" /\ job[u].at >= job[t].at

CloseConnection(t) ==
  /\ At(t, "erase") /\ Then(t, "farewell")
  /\ LET c == job[t].of  k == job[t].at  waits == c \in ToSet(m_pending_clients) IN
     /\ failed' = IF Moves(t) THEN "race" ELSE failed
     /\ m_players' = IF k # 0 THEN RemoveAt(m_players, k) ELSE m_players
     /\ m_pending_clients' = RemoveFirst(m_pending_clients, c)
     /\ IF k # 0 \/ waits THEN Closed(c) ELSE UNCHANGED <<link, peers>>
  /\ UNCHANGED <<m_max_players, m_bServerClientConnected, registry, queues, frame, farewells>>

(* Mutant: it is not looked up whether the client is still there.          *)
DestroyCleint_of_gone(t) ==
  LET c == job[t].of IN
  /\ At(t, "farewell") /\ Then(t, "destroy")
  /\ client' = [client EXCEPT ![c].bConnected = FALSE]
  /\ farewells' = IF client[c].ps THEN [farewells EXCEPT ![c] = @ + 1] ELSE farewells
  /\ UNCHANGED <<link, peers, slots, net_players, SV_Client, queues, frame, failed>>

DestroyCleint(t) ==
  LET c == job[t].of IN
  /\ At(t, "farewell")
  /\ IF c \in net_players
     THEN /\ Then(t, "destroy")
          /\ client' = [client EXCEPT ![c].bConnected = FALSE]
          /\ farewells' = IF client[c].ps THEN [farewells EXCEPT ![c] = @ + 1] ELSE farewells
     ELSE Done(t) /\ UNCHANGED <<client, farewells>>
  /\ UNCHANGED <<link, peers, slots, net_players, SV_Client, queues, frame, failed>>

FindAndEraseClient(t) ==
  LET c == job[t].of IN
  /\ At(t, "destroy")
  /\ IF c \in net_players THEN Then(t, "clean") ELSE Done(t)
  /\ net_players' = net_players \ {c}
  /\ UNCHANGED <<link, peers, slots, client, SV_Client, queues, frame, farewells, failed>>

(* The packet that is being handled may be among them.                     *)
client_Destroy(t) ==
  /\ At(t, "clean") /\ Done(t)
  /\ m_aDelayedPackets' = Filtered(m_aDelayedPackets, {p \in Received : p.sender # job[t].of})
  /\ UNCHANGED <<link, peers, slots, registry, m_messagesQueue, events, frame, farewells, failed>>

DisconnectClient(t) ==
  FindSlot(t) \/ CloseConnection(t) \/ DestroyCleint(t) \/ FindAndEraseClient(t) \/ client_Destroy(t)
-----------------------------------------------------------------------------
(* The main thread.  An operator below names what it changes; the rest is  *)
(* unchanged.                                                              *)
Main == failed = "no" /\ job["main"] = Idle

Fails(how) == failed' = how /\ UNCHANGED <<toClient, client, SV_Client, m_aDelayedPackets, job>>

(* A new key is asked for: the client is sent a seed.                      *)
PerformSecretKeysSync(c) ==
  [client EXCEPT ![c].m_last_key_sync_request_seed = @ + 1]
Seed(c) == Message("key", client[c].m_last_key_sync_request_seed + 1)

(* SendConnectResult with a refusal.                                       *)
Turned(c) ==
  /\ Disconnect("main", c) /\ UNCHANGED <<toClient, client, SV_Client, m_aDelayedPackets, failed>>

(* Check_BuildVersion_Success.                                             *)
Verified(c) == [PerformSecretKeysSync(c) EXCEPT ![c].bVerified = TRUE]

(* The client is banned, or has passed the last check.                     *)
ProcessClientDigest(c) ==
  \/ c \in Banned /\ Turned(c)
  \/ /\ SendTo(c, <<Seed(c), Message("result", 1)>>)
     /\ client' = Verified(c)
     /\ UNCHANGED <<SV_Client, m_aDelayedPackets, job, failed>>

(* A secure message is dropped when it was not made with the client's key. *)
OnSecureMessage(e) ==
  IF e.n # client[e.sender].m_secret_key \/ e.type # "digest"
  THEN UNCHANGED <<toClient, client, SV_Client, m_aDelayedPackets, job, failed>>
  ELSE ProcessClientDigest(e.sender)

(* The events that a message adds (AddDelayedEvent).                       *)
Added(e) ==
  IF /\ e.type \in {"state", "auth"} /\ e.sender \in net_players
     /\ e.n = client[e.sender].m_secret_key
  THEN <<e>> ELSE <<>>

(* The client has the last key that he was sent the seed of.               *)
PerformSecretKeysSyncAck(c) ==
  /\ client' = [client EXCEPT ![c].m_secret_key = client[c].m_last_key_sync_request_seed]
  /\ UNCHANGED <<toClient, SV_Client, m_aDelayedPackets, job, failed>>

OnProcessClientMapData(c) ==
  /\ SendTo(c, <<Message("map", 0)>>)
  /\ UNCHANGED <<client, SV_Client, m_aDelayedPackets, job, failed>>

(* M_CLIENTREADY: SpawnPlayer needs the client's state.                    *)
OnPlayerConnectFinished(c) ==
  IF client[c].ps
  THEN /\ client' = [client EXCEPT ![c].owner = TRUE]
       /\ UNCHANGED <<toClient, SV_Client, m_aDelayedPackets, job, failed>>
  ELSE Fails("null")

(* OnMessage.  What is delayed may come from a client who has gone.        *)
OnMessage(e) ==
  LET c == e.sender IN
  /\ events' = events \o Added(e)
  /\ \/ /\ e.type \in {"request", "remote"}
        /\ m_aDelayedPackets' = Append(m_aDelayedPackets, e)
        /\ UNCHANGED <<toClient, client, SV_Client, job, failed>>
     \/ e.type \notin {"request", "remote"} /\ c \notin net_players /\ Fails("null")
     \/ e.type \in {"state", "auth", "digest"} /\ c \in net_players /\ OnSecureMessage(e)
     \/ e.type = "ack" /\ c \in net_players /\ PerformSecretKeysSyncAck(c)
     \/ e.type = "map" /\ c \in net_players /\ OnProcessClientMapData(c)
     \/ e.type = "ready" /\ c \in net_players /\ OnPlayerConnectFinished(c)

ProcessMessagesQueue ==
  /\ Main /\ phase = "messages"
  /\ IF m_messagesQueue = <<>>
     THEN /\ phase' = "packets"
          /\ UNCHANGED <<m_messagesQueue, toClient, client, SV_Client, m_aDelayedPackets, events, job, failed>>
     ELSE /\ OnMessage(Head(m_messagesQueue)) /\ m_messagesQueue' = Tail(m_messagesQueue)
          /\ UNCHANGED phase
  /\ UNCHANGED <<link, toServer, secret, playing, slots, net_players, handling, dropped, farewells>>

(* OnCL_Connected.                                                         *)
OnCL_Connected(c) ==
  /\ client' = [client EXCEPT ![c].net_Accepted = TRUE]
  /\ SendTo(c, <<Message("configured", 0)>>)
  /\ UNCHANGED <<SV_Client, m_aDelayedPackets, job, failed>>

(* OnDelayedMessage, for a request or a command, both of which need the    *)
(* client.  What the command does is Execute.                              *)
OnDelayedMessage(p) ==
  \/ p.sender \notin net_players /\ Fails("null")
  \/ p.sender \in net_players /\ p.type = "request" /\ OnCL_Connected(p.sender)
  \/ /\ p.sender \in net_players /\ p.type = "remote"
     /\ UNCHANGED <<toClient, client, SV_Client, m_aDelayedPackets, job, failed>>

(* An administrator's command disconnects a client.                        *)
Execute(c) ==
  /\ Main /\ phase = "command" /\ c \in Targets \cap net_players
  /\ Disconnect("main", c)
  /\ UNCHANGED <<link, peers, slots, registry, queues, frame, farewells, failed>>

(* The first packet is removed.  It is another's when the one that was     *)
(* handled has been erased meanwhile.                                      *)
pop_front ==
  IF m_aDelayedPackets = <<>>
  THEN failed' = "range" /\ UNCHANGED <<m_aDelayedPackets, dropped>>
  ELSE /\ m_aDelayedPackets' = Tail(m_aDelayedPackets)
       /\ dropped' = LET p == Head(m_aDelayedPackets) IN
            IF p.sender # handling /\ p.type # "remote" THEN dropped \cup {p.sender} ELSE dropped
       /\ UNCHANGED failed

(* A packet is handled where it lies; then the first packet is removed.    *)
ProceedDelayedPackets ==
  /\ Main
  /\ \/ /\ phase = "packets" /\ m_aDelayedPackets = <<>> /\ phase' = "events"
        /\ UNCHANGED <<toClient, client, SV_Client, m_aDelayedPackets, job, failed, handling, dropped>>
     \/ /\ phase = "packets" /\ m_aDelayedPackets # <<>>
        /\ LET p == Head(m_aDelayedPackets) IN
           /\ OnDelayedMessage(p)
           /\ phase' = IF p.type = "remote" THEN "command" ELSE "pop"
           /\ handling' = p.sender /\ UNCHANGED dropped
     \/ /\ phase \in {"command", "pop"} /\ phase' = "packets" /\ handling' = Nobody
        /\ pop_front
        /\ UNCHANGED <<toClient, client, SV_Client, job>>
  /\ UNCHANGED <<link, toServer, secret, playing, slots, net_players, m_messagesQueue, events, farewells>>

(* RequestClientDigest.                                                    *)
RequestClientDigest(c) ==
  /\ SendTo(c, <<Seed(c), Message("digest", 0)>>)
  /\ client' = PerformSecretKeysSync(c)
  /\ UNCHANGED <<SV_Client, m_aDelayedPackets, job, failed>>

(* AttachNewClient: the client is challenged, and the rest waits for his   *)
(* answer.  Mutant: it does not wait.                                      *)
Attached(c, seed, s) ==
  IF c = Host
  THEN /\ SV_Client' = Host /\ client' = [client EXCEPT ![c].bConnected = TRUE]
       /\ UNCHANGED <<toClient, m_aDelayedPackets, job, failed>>
  ELSE /\ client' = [client EXCEPT ![c].bConnected = TRUE, ![c].m_last_key_sync_request_seed = seed]
       /\ SendTo(c, s)
       /\ UNCHANGED <<SV_Client, m_aDelayedPackets, job, failed>>

AttachNewClient_goes_on(c) ==
  Attached(c, 2, <<Message("key", 1), Message("challenge", 0), Message("key", 2), Message("digest", 0)>>)

AttachNewClient(c) == Attached(c, 1, <<Message("key", 1), Message("challenge", 0)>>)

CreatePlayerState(c) ==
  /\ client' = [client EXCEPT ![c].ps = TRUE]
  /\ UNCHANGED <<toClient, SV_Client, m_aDelayedPackets, job, failed>>

(* OnEvent, for the events of joining; a client to be created may have     *)
(* gone, the others' must be there.  auth: OnBuildVersionRespond.          *)
OnEvent(e) ==
  LET c == e.sender IN
  \/ /\ e.type = "create"
     /\ IF c \in net_players THEN AttachNewClient(c)
        ELSE UNCHANGED <<toClient, client, SV_Client, m_aDelayedPackets, job, failed>>
  \/ /\ e.type = "state"
     /\ IF c \notin net_players THEN Fails("assert") ELSE CreatePlayerState(c)
  \/ /\ e.type = "auth"
     /\ IF c \notin net_players THEN Fails("null")
        ELSE RequestClientDigest(c) \/ (c \in BadLogin /\ Turned(c))

ProcessDelayedEvent ==
  /\ Main /\ phase = "events"
  /\ IF events = <<>>
     THEN /\ phase' = "rest"
          /\ UNCHANGED <<events, toClient, client, SV_Client, m_aDelayedPackets, job, failed>>
     ELSE OnEvent(Head(events)) /\ events' = Tail(events) /\ UNCHANGED phase
  /\ UNCHANGED <<link, toServer, secret, playing, slots, net_players, m_messagesQueue, handling, dropped, farewells>>

(* The rest of the frame, in which a client may be disconnected (for his   *)
(* ping, as a cheater, from the console).                                  *)
NextFrame ==
  /\ Main /\ phase = "rest" /\ phase' = "messages"
  /\ UNCHANGED <<link, peers, slots, registry, queues, handling, dropped, job, farewells, failed>>

Kick(c) ==
  /\ Main /\ phase = "rest" /\ c \in Kicked \cap net_players
  /\ Disconnect("main", c)
  /\ UNCHANGED <<link, peers, slots, registry, queues, frame, farewells, failed>>
-----------------------------------------------------------------------------
NetworkThread ==
  \/ \E c \in Clients : ProcessConnection(c) \/ OnSteamNetConnectionStatusChanged(c)
  \/ DisconnectClient("net")
MainThread ==
  ProcessMessagesQueue \/ ProceedDelayedPackets \/ ProcessDelayedEvent \/ NextFrame
  \/ DisconnectClient("main")

Next ==
  \/ NetworkThread \/ MainThread
  \/ \E c \in Clients :
       \/ PollIncomingMessages(c) \/ Connect(c) \/ ClientReceive(c) \/ Command(c) \/ Leave(c)
       \/ Execute(c) \/ Kick(c)

Spec == Init /\ [][Next]_vars
-----------------------------------------------------------------------------
(* When no client is being disconnected the slots are those of the         *)
(* connections that are let in, each once, and there are not too many.     *)
SlotsSound ==
  /\ Len(m_players) <= m_max_players
  /\ job["net"] = Idle /\ job["main"] = Idle =>
       /\ IsInjective(m_players)
       /\ ToSet(m_players) = {c \in Clients : link[c] \in {"open", "broken"}}

(* A secure message that is about to be handled was made with the key that *)
(* the server has for its sender: no message of an honest player is dropped. *)
KeysAgree ==
  m_messagesQueue # <<>> =>
    LET e == Head(m_messagesQueue) IN
    e.type \in {"state", "auth", "digest"} /\ e.sender \in net_players =>
      e.n = client[e.sender].m_secret_key

(* The game is told of every player who was in the game and is destroyed,  *)
(* and never of one who had no state.  It is told of him a second time     *)
(* only when both threads destroy him at once: neither farewell comes      *)
(* after he has been destroyed.                                            *)
FarewellsSound ==
  \A c \in Clients :
    /\ farewells[c] > 0 => client[c].ps
    /\ client[c].owner /\ c \notin net_players => farewells[c] > 0
SecondFarewell ==
  \A c \in Clients :
    farewells'[c] # farewells[c] /\ farewells[c] > 0 =>
      \A t \in Threads : job'[t].of = c /\ job'[t].step = "destroy"
FarewellGiven == []FarewellsSound /\ [][SecondFarewell]_vars

(* When no client is being disconnected, who waits or is registered is     *)
(* connected: nobody is registered after he has gone.                      *)
RegisteredConnected ==
  job["net"] = Idle /\ job["main"] = Idle =>
    net_players \cup ToSet(m_pending_clients) \subseteq ToSet(m_players)

(* Slots, registrations and connections are those of the same clients.     *)
ClientsSound == TypeOK /\ SlotsSound /\ RegisteredConnected

(* What the server promises (Session).  A connection that is closed is     *)
(* gone, although its client is destroyed a few steps later.               *)
stage == [c \in Clients |->
  CASE link[c] \in {"none", "connecting", "lost"} -> "outside"
    [] link[c] = "closed" -> "gone"
    [] link[c] \in {"open", "broken", "leaving"} ->
         CASE c \notin net_players -> "seated"
           [] c \in net_players /\ ~client[c].bConnected -> "registered"
           [] c \in net_players /\ client[c].bConnected ->
                CASE ~client[c].ps -> "attached"
                  [] client[c].ps /\ ~client[c].net_Accepted -> "identified"
                  [] client[c].ps /\ client[c].net_Accepted ->
                       IF client[c].owner THEN "spawned" ELSE "accepted"]

S == INSTANCE Session WITH seats <- m_max_players
SessionSpec == S!Spec

(* Nobody is forgotten on the way: when nothing waits to be handled, who   *)
(* is connected plays, or waits for the server's own client, unless his    *)
(* request was removed in place of a packet whose sender was destroyed     *)
(* while it was handled.                                                   *)
Quiet ==
  /\ failed = "no" /\ phase \notin {"command", "pop"} /\ \A t \in Threads : job[t] = Idle
  /\ m_messagesQueue = <<>> /\ m_aDelayedPackets = <<>> /\ events = <<>>
  /\ \A c \in Clients : /\ toServer[c] = <<>> /\ toClient[c] = <<>>
                         /\ link[c] \notin {"connecting", "lost", "broken"}
NobodyForgotten ==
  Quiet =>
    \A c \in Remote \ dropped : link[c] = "open" =>
      client[c].owner \/ (c \in ToSet(m_pending_clients) /\ ~m_bServerClientConnected)

(* What is being handled names its sender by id.  The handlers fail (a     *)
(* NULL pointer, the R_ASSERT2 of M_CREATE_PLAYER_STATE, nothing to remove *)
(* from the deque) for nobody but those who have gone in the meantime,     *)
(* whether they left, were disconnected by the other thread, or by their   *)
(* own command; a slot moves under one thread only while both disconnect   *)
(* clients who are still connected.                                        *)
Handled ==
  CASE phase = "messages"           -> {Head(m_messagesQueue).sender}
    [] phase = "packets"            -> {Head(m_aDelayedPackets).sender}
    [] phase \in {"command", "pop"} -> {handling}
    [] phase = "events"             -> {Head(events).sender}
    [] phase = "rest"               -> {}
FailsForTheGone ==
  [][failed' # failed =>
       \/ /\ failed' = "race"
          /\ \A t \in Threads : job[t].step = "erase" /\ link[job[t].of] # "closed"
       \/ failed' \in {"null", "assert", "range"} /\ \E c \in Handled : c \notin net_players]_vars
=============================================================================
