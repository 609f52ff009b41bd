---------------------------- MODULE Clients_proofs ---------------------------
(***************************************************************************)
(* What is proved of the clients, for any number of them: first of the     *)
(* list of those who play (PlayersMonitor), then of the pool of those who  *)
(* have left (ClientsPool, here the instance CP).                          *)
(***************************************************************************)
EXTENDS PlayersMonitor, ClientsPoolState, SequenceLemmas

CP == INSTANCE ClientsPool
-----------------------------------------------------------------------------
(* The list of clients.                                                    *)

(* What the types rest on: between iterations nothing is left of the last  *)
(* one, and within one the list only gets shorter.                         *)
Memory == IF csPlayers = "nobody" THEN pass = NoPass ELSE Len(net_Players) <= Len(cells)

(* Until somebody is taken out from within, an iteration sees the list as  *)
(* it was when it began.                                                   *)
Steady ==
  csPlayers # "nobody" /\ ~Interrupted =>
    /\ cells = net_Players /\ pass.ie = Len(net_Players) /\ pass.i \in 1..(pass.ie + 1)
    /\ visited = SubSeq(net_Players, 1, pass.i - 1)

(* At the start nobody plays and nobody iterates.                          *)
LEMMA TypeInit == Init => TypeOK /\ Memory
<1> SUFFICES ASSUME Init PROVE TypeOK /\ Memory
  OBVIOUS
<1>1. <<>> \in Seq(Clients) /\ Len(<<>>) = 0
  OBVIOUS
<1>2. NoPass \in [functor : Functors, i : Nat, ie : Nat] /\ NoPass.ie = 0
  BY DEF NoPass, Functors
<1>3. /\ net_Players \in Seq(Clients) /\ cells \in Seq(Clients) /\ visited \in Seq(Clients)
      /\ PlayersToDisconnect \in Seq(Clients) /\ pass.ie <= Len(cells)
      /\ pass \in [functor : Functors, i : Nat, ie : Nat]
  BY <1>1, <1>2 DEF Init
<1> QED
  BY <1>3 DEF Init, TypeOK, Memory

(* Taking a client out keeps the types, and the memory its size.           *)
LEMMA ErasedTypes ==
  ASSUME TypeOK, NEW c \in Clients, FindAndEraseClient(c)
  PROVE  /\ net_Players' \in Seq(Clients) /\ departed' \subseteq Clients
         /\ cells' \in Seq(Clients)
         /\ Len(net_Players') <= Len(net_Players)
         /\ Len(net_Players) <= Len(cells) => Len(cells') = Len(cells)
         /\ now_iterating_in_net_players' = FALSE
<1> DEFINE s == net_Players
           r == RemoveFirst(s, c)
<1>1. s \in Seq(Clients) /\ cells \in Seq(Clients) /\ Len(s) \in Nat /\ Len(cells) \in Nat
  BY DEF TypeOK
<1>2. r \in Seq(Clients)
  BY <1>1, SeqTypes
<1>3. ~Contains(s, c) => r = s
  BY <1>1, RemoveFirstProperties DEF Contains
<1>4. Contains(s, c) => Len(r) = Len(s) - 1 /\ Len(s) >= 1
  <2>1. SUFFICES ASSUME Contains(s, c) PROVE Len(r) = Len(s) - 1 /\ Len(s) >= 1
    OBVIOUS
  <2>2. PICK i \in 1..Len(s) : s[i] = c
    BY <2>1 DEF Contains
  <2>3. PICK k \in 1..Len(s) : r = RemoveAt(s, k)
    BY <1>1, <2>2, RemoveFirstProperties
  <2>4. Len(r) = Len(s) - 1
    BY <1>1, <2>3, RemoveAtProperties
  <2> QED
    BY <1>1, <2>2, <2>4
<1>5. /\ net_Players' = r /\ departed' = departed \cup {c} /\ now_iterating_in_net_players' = FALSE
      /\ cells' = IF Contains(s, c) THEN r \o SubSeq(cells, Len(s), Len(cells)) ELSE cells
  BY DEF FindAndEraseClient
<1> HIDE DEF r
<1>6. CASE ~Contains(s, c)
  BY <1>1, <1>2, <1>3, <1>5, <1>6 DEF TypeOK
<1>7. CASE Contains(s, c)
  <2> DEFINE t == SubSeq(cells, Len(s), Len(cells))
  <2>1. \A k \in Len(s)..Len(cells) : cells[k] \in Clients
    BY <1>1, <1>4, <1>7
  <2>2. /\ t \in Seq(Clients)
        /\ Len(t) = IF Len(s) <= Len(cells) THEN Len(cells) - Len(s) + 1 ELSE 0
    BY <1>1, <1>4, <1>7, <2>1, SubSeqProperties
  <2> HIDE DEF t
  <2>3. r \o t \in Seq(Clients) /\ Len(r \o t) = Len(r) + Len(t)
    BY <1>2, <2>2
  <2>4. cells' = r \o t
    BY <1>5, <1>7 DEF t
  <2>5. Len(cells') = Len(r) + Len(t) /\ cells' \in Seq(Clients)
    BY <2>3, <2>4
  <2>6. departed' \subseteq Clients
    BY <1>5 DEF TypeOK
  <2>7. Len(s) <= Len(cells) => Len(cells') = Len(cells)
    BY <1>1, <1>4, <1>7, <2>2, <2>5
  <2>8. Len(r) <= Len(s)
    BY <1>1, <1>4, <1>7
  <2> QED
    BY <1>2, <1>5, <2>5, <2>6, <2>7, <2>8
<1> QED
  BY <1>6, <1>7

(* The same outside an iteration.                                          *)
LEMMA ErasedOutside ==
  ASSUME TypeOK, Memory, Enter, NEW c \in Clients, FindAndEraseClient(c),
         UNCHANGED <<csPlayers, pass, visited>>,
         stage' \in {"idle", "counted", "collected"}, players_count' \in Nat,
         PlayersToDisconnect' \in Seq(Clients)
  PROVE  TypeOK' /\ Memory'
<1>1. cells' \in Seq(Clients) /\ pass' = pass
  BY ErasedTypes
<1>2. pass = NoPass /\ pass.ie = 0
  BY DEF Memory, Enter, NoPass
<1>3. Len(cells') >= 0
  BY <1>1
<1>4. pass'.ie <= Len(cells')
  BY <1>1, <1>2, <1>3
<1> QED
  BY <1>1, <1>2, <1>4, ErasedTypes DEF TypeOK, Memory, Enter

(* An iteration begins within the bounds of the list.                      *)
LEMMA BeginTypes ==
  ASSUME TypeOK, NEW thread \in Threads, NEW functor \in Functors, BeginPass(thread, functor),
         UNCHANGED disconnecting
  PROVE  TypeOK' /\ Memory'
BY DEF TypeOK, Memory, BeginPass, list, disconnecting, Threads

(* A client that is handled is one of the list.                            *)
LEMMA HandledTypes ==
  ASSUME TypeOK, NEW c, Handle(c)
  PROVE  /\ pass' \in [functor : Functors, i : Nat, ie : Nat] /\ pass'.ie = pass.ie
         /\ pass'.functor = pass.functor /\ pass'.i = pass.i + 1
         /\ visited' = Append(visited, c)
         /\ csPlayers' = csPlayers /\ csPlayers # "nobody"
<1>1. pass' = [pass EXCEPT !.i = pass.i + 1] /\ visited' = Append(visited, c)
  BY DEF Handle
<1>2. pass \in [functor : Functors, i : Nat, ie : Nat]
  BY DEF TypeOK
<1> QED
  BY <1>1, <1>2 DEF Handle

(* However a client was handled, the types and the memory are kept.        *)
LEMMA HandledOutcome ==
  ASSUME TypeOK, Memory, NEW c \in Clients, Handle(c),
         net_Players' \in Seq(Clients), departed' \subseteq Clients, cells' \in Seq(Clients),
         Len(net_Players') <= Len(net_Players), Len(cells') = Len(cells),
         now_iterating_in_net_players' \in BOOLEAN,
         stage' \in {"idle", "counted", "collected"}, players_count' \in Nat,
         PlayersToDisconnect' \in Seq(Clients)
  PROVE  TypeOK' /\ Memory'
<1>0. csPlayers # "nobody" /\ visited' = Append(visited, c) /\ visited \in Seq(Clients)
  BY HandledTypes DEF TypeOK
<1>1. Len(net_Players) <= Len(cells) /\ visited' \in Seq(Clients)
  BY <1>0 DEF Memory
<1>2. /\ Len(net_Players') \in Nat /\ Len(net_Players) \in Nat
      /\ Len(cells) \in Nat /\ Len(cells') \in Nat
  BY DEF TypeOK
<1>3. Len(net_Players') <= Len(cells')
  BY <1>1, <1>2
<1>4. /\ csPlayers' \in Threads \cup {"nobody"} /\ csPlayers' # "nobody"
      /\ pass' \in [functor : Functors, i : Nat, ie : Nat] /\ pass'.ie <= Len(cells')
  BY HandledTypes DEF TypeOK
<1> QED
  BY <1>1, <1>3, <1>4 DEF TypeOK, Memory

(* Every step keeps the types and the memory.                              *)
LEMMA TypeStep == ASSUME TypeOK, Memory, [Next]_vars PROVE TypeOK' /\ Memory'
<1>1. CASE UNCHANGED vars
  BY <1>1 DEF TypeOK, Memory, vars, list, iteration, disconnecting
<1>2. ASSUME NEW c \in Clients, AddNewClient(c) PROVE TypeOK' /\ Memory'
  BY <1>2 DEF TypeOK, Memory, AddNewClient, Enter, iteration, disconnecting
<1>3. ASSUME NEW c \in Clients, Leave(c) \/ KickCheater(c) PROVE TypeOK' /\ Memory'
  <2>1. /\ Enter /\ FindAndEraseClient(c) /\ UNCHANGED <<csPlayers, pass, visited>>
        /\ UNCHANGED disconnecting
    BY <1>3 DEF Leave, KickCheater
  <2> QED
    BY <2>1, ErasedOutside DEF disconnecting, TypeOK
<1>4. ASSUME NEW thread \in Threads, Broadcast(thread) PROVE TypeOK' /\ Memory'
  BY <1>4, BeginTypes DEF Broadcast, Functors
<1>5. CASE PerformCheckClientsForMaxPing \/ CollectClients
  BY <1>5, BeginTypes DEF PerformCheckClientsForMaxPing, CollectClients, Functors, Threads
<1> DEFINE DisconnectType == /\ stage \in {"idle", "counted", "collected"} /\ players_count \in Nat
                            /\ PlayersToDisconnect \in Seq(Clients)
           ListType == /\ net_Players \in Seq(Clients) /\ departed \subseteq Clients
                       /\ cells \in Seq(Clients) /\ now_iterating_in_net_players \in BOOLEAN
                       /\ Len(net_Players) \in Nat
<1>t. DisconnectType /\ ListType
  BY DEF TypeOK
<1>6. ASSUME NEW c \in Clients, Visit(c) PROVE TypeOK' /\ Memory'
  <2>1. Handle(c) /\ UNCHANGED <<net_Players, departed, cells>> /\ DisconnectType'
        /\ now_iterating_in_net_players' \in BOOLEAN
    BY <1>6, <1>t DEF Visit, list, disconnecting
  <2> QED
    BY <1>t, <2>1, HandledOutcome
<1>7. ASSUME NEW c \in Clients, CheckPing(c) PROVE TypeOK' /\ Memory'
  <2>1. Handle(c) /\ DisconnectType'
    BY <1>7, <1>t DEF CheckPing, disconnecting
  <2>2. CASE c \in HighPing
    <3>1. FindAndEraseClient(c)
      BY <1>7, <2>2 DEF CheckPing
    <3>2. Len(net_Players) <= Len(cells)
      BY <2>1, HandledTypes DEF Memory
    <3>3. /\ net_Players' \in Seq(Clients) /\ departed' \subseteq Clients /\ cells' \in Seq(Clients)
          /\ Len(net_Players') <= Len(net_Players) /\ Len(cells') = Len(cells)
          /\ now_iterating_in_net_players' = FALSE
      BY <3>1, <3>2, ErasedTypes
    <3> QED
      BY <2>1, <3>3, HandledOutcome
  <2>3. CASE c \notin HighPing
    <3>1. UNCHANGED <<net_Players, departed, cells, now_iterating_in_net_players>>
      BY <1>7, <2>3 DEF CheckPing, list
    <3> QED
      BY <1>t, <2>1, <3>1, HandledOutcome
  <2> QED
    BY <2>2, <2>3
<1>8. ASSUME NEW c \in Clients, Collect(c) PROVE TypeOK' /\ Memory'
  <2>1. /\ Handle(c) /\ UNCHANGED <<net_Players, departed, cells, now_iterating_in_net_players>>
        /\ DisconnectType'
    BY <1>8, <1>t DEF Collect, list
  <2> QED
    BY <1>t, <2>1, HandledOutcome
<1>9. CASE EndPass
  <2>1. /\ pass' = NoPass /\ cells' = <<>> /\ visited' = <<>> /\ csPlayers' = "nobody"
        /\ now_iterating_in_net_players' = FALSE
        /\ stage' \in {"idle", "counted", "collected"}
        /\ UNCHANGED <<net_Players, departed, players_count, PlayersToDisconnect>>
    BY <1>9, <1>t DEF EndPass, list
  <2>2. NoPass \in [functor : Functors, i : Nat, ie : Nat] /\ NoPass.ie = 0
    BY DEF NoPass, Functors
  <2>3. <<>> \in Seq(Clients) /\ Len(<<>>) = 0
    OBVIOUS
  <2>4. /\ cells' \in Seq(Clients) /\ visited' \in Seq(Clients) /\ pass'.ie <= Len(cells')
        /\ pass' \in [functor : Functors, i : Nat, ie : Nat]
    BY <2>1, <2>2, <2>3
  <2> QED
    BY <1>t, <2>1, <2>4 DEF TypeOK, Memory
<1>10. CASE CountClients \/ EndDisconnect
  <2>1. UNCHANGED <<list, iteration>>
    BY <1>10 DEF CountClients, EndDisconnect
  <2>2. CASE CountClients
    <3>1. stage' = "counted" /\ players_count' = Len(net_Players) /\ PlayersToDisconnect' = <<>>
      BY <2>2 DEF CountClients
    <3>2. <<>> \in Seq(Clients)
      OBVIOUS
    <3> QED
      BY <1>t, <2>1, <3>1, <3>2 DEF TypeOK, Memory, list, iteration
  <2>3. CASE EndDisconnect
    <3>1. stage' = "idle" /\ UNCHANGED <<players_count, PlayersToDisconnect>>
      BY <2>3 DEF EndDisconnect
    <3> QED
      BY <1>t, <2>1, <3>1 DEF TypeOK, Memory, list, iteration
  <2> QED
    BY <1>10, <2>2, <2>3
<1>11. CASE DisconnectNext
  <2> DEFINE c == Head(PlayersToDisconnect)
  <2>1. c \in Clients /\ Tail(PlayersToDisconnect) \in Seq(Clients)
    BY <1>11, SeqTypes DEF TypeOK, DisconnectNext
  <2>2. CASE Contains(net_Players, c)
    BY <1>11, <2>1, <2>2, ErasedOutside DEF DisconnectNext, TypeOK
  <2>3. CASE ~Contains(net_Players, c)
    BY <1>11, <2>1, <2>3 DEF DisconnectNext, TypeOK, Memory, list
  <2> QED
    BY <2>2, <2>3
<1> QED
  BY <1>1, <1>2, <1>3, <1>4, <1>5, <1>6, <1>7, <1>8, <1>9, <1>10, <1>11
     DEF Next, MainThread, NetworkThread, Iterating, Threads

(* The list, the iterator of a pass and the memory it walks through keep   *)
(* their types and bounds, whoever is taken out from within a pass.        *)
THEOREM TypeCorrect == Spec => []TypeOK
BY TypeInit, TypeStep, PTL DEF Spec

(* One more client of the list.                                            *)
LEMMA NextOne ==
  ASSUME NEW s \in Seq(Clients), NEW i \in 1..Len(s)
  PROVE  Append(SubSeq(s, 1, i - 1), s[i]) = SubSeq(s, 1, i)
<1>1. /\ SubSeq(s, 1, i - 1) \in Seq(Clients) /\ Len(SubSeq(s, 1, i - 1)) = i - 1
      /\ \A j \in 1..(i - 1) : SubSeq(s, 1, i - 1)[j] = s[j]
  BY SubSeqProperties
<1>2. /\ SubSeq(s, 1, i) \in Seq(Clients) /\ Len(SubSeq(s, 1, i)) = i
      /\ \A j \in 1..i : SubSeq(s, 1, i)[j] = s[j]
  BY SubSeqProperties
<1> DEFINE a == SubSeq(s, 1, i - 1)
           b == SubSeq(s, 1, i)
<1> HIDE DEF a, b
<1>3. Append(a, s[i]) \in Seq(Clients) /\ Len(Append(a, s[i])) = i
  BY <1>1 DEF a
<1>4. \A j \in 1..i : Append(a, s[i])[j] = s[j]
  BY <1>1 DEF a
<1> QED
  BY <1>2, <1>3, <1>4, SeqEqual DEF a, b

(* Every step keeps Steady.                                                *)
LEMMA SteadyStep ==
  ASSUME TypeOK, Memory, Steady, [Next]_vars
  PROVE  Steady'
<1>1. CASE UNCHANGED vars
  BY <1>1 DEF Steady, Interrupted, vars, list, iteration
<1>2. ASSUME Enter, UNCHANGED csPlayers PROVE Steady'
  BY <1>2 DEF Steady, Enter
<1>3. ASSUME NEW c \in Clients, AddNewClient(c) \/ Leave(c) \/ KickCheater(c) PROVE Steady'
  BY <1>2, <1>3 DEF AddNewClient, Leave, KickCheater, iteration
<1>4. CASE DisconnectNext \/ CountClients
  BY <1>2, <1>4 DEF DisconnectNext, CountClients, iteration
<1>5. ASSUME NEW thread \in Threads, NEW functor \in Functors, BeginPass(thread, functor)
      PROVE  Steady'
  <2>1. /\ cells' = net_Players' /\ pass'.ie = Len(net_Players') /\ pass'.i = 1 /\ visited' = <<>>
        /\ net_Players' \in Seq(Clients)
    BY <1>5 DEF BeginPass, list, TypeOK
  <2>2. SubSeq(net_Players', 1, 0) = <<>>
    BY <2>1, SubSeqProperties
  <2> QED
    BY <2>1, <2>2 DEF Steady
<1>6. CASE PerformCheckClientsForMaxPing \/ CollectClients \/ Broadcast("main") \/ Broadcast("network")
  BY <1>5, <1>6 DEF PerformCheckClientsForMaxPing, CollectClients, Broadcast, Functors, Threads
<1>7. ASSUME NEW c \in Clients, Handle(c), ~Interrupted'
      PROVE  ~Interrupted /\ (pass.functor = "ping" => c \notin HighPing)
  <2>1. visited \in Seq(Clients) /\ visited' = Append(visited, c) /\ pass'.functor = pass.functor
    BY <1>7, HandledTypes DEF TypeOK
  <2>2. /\ DOMAIN visited \subseteq DOMAIN visited' /\ \A k \in DOMAIN visited : visited'[k] = visited[k]
        /\ Len(visited) + 1 \in DOMAIN visited' /\ visited'[Len(visited) + 1] = c
    BY <2>1
  <2> QED
    BY <1>7, <2>1, <2>2 DEF Interrupted
<1>8. ASSUME NEW c \in Clients, Visit(c) \/ CheckPing(c) \/ Collect(c) PROVE Steady'
  <2> SUFFICES ASSUME ~Interrupted' PROVE Steady'
    BY DEF Steady
  <2>1. Handle(c) /\ UNCHANGED <<net_Players, cells>> /\ ~Interrupted
    BY <1>7, <1>8 DEF Visit, CheckPing, Collect, list
  <2>2. /\ cells = net_Players /\ pass.ie = Len(net_Players) /\ pass.i \in 1..Len(net_Players)
        /\ c = net_Players[pass.i] /\ visited = SubSeq(net_Players, 1, pass.i - 1)
    BY <2>1 DEF Steady, Handle, TypeOK
  <2>3. /\ pass'.i = pass.i + 1 /\ pass'.ie = pass.ie
        /\ visited' = Append(SubSeq(net_Players, 1, pass.i - 1), net_Players[pass.i])
    BY <2>1, <2>2, HandledTypes
  <2>4. visited' = SubSeq(net_Players, 1, pass.i)
    BY <2>2, <2>3, NextOne DEF TypeOK
  <2> QED
    BY <2>1, <2>2, <2>3, <2>4 DEF Steady, TypeOK
<1>9. CASE EndPass
  BY <1>9 DEF EndPass, Steady
<1>10. CASE EndDisconnect
  BY <1>10 DEF EndDisconnect, Steady, Interrupted, list, iteration
<1> QED
  BY <1>1, <1>3, <1>4, <1>6, <1>8, <1>9, <1>10 DEF Next, MainThread, NetworkThread, Iterating

(* Every iteration on either thread handles the clients of the list in     *)
(* their order, each once, until it disconnects one for his ping.          *)
THEOREM EveryoneOnce == Spec => []EachOnce
<1>1. Init => TypeOK /\ Memory /\ Steady
  BY TypeInit DEF Init, Steady
<1>2. TypeOK /\ Memory /\ Steady /\ [Next]_vars => (TypeOK /\ Memory /\ Steady)'
  BY TypeStep, SteadyStep
<1>3. Steady => EachOnce
  BY DEF Steady, EachOnce
<1> QED
  BY <1>1, <1>2, <1>3, PTL DEF Spec

(* The list is changed while somebody goes through it by nothing but the   *)
(* disconnection of a client for his ping.                                 *)
THEOREM LockHolds == Spec => NotWhileIterating
<1>1. ASSUME TypeOK, [Next]_vars, net_Players' # net_Players
      PROVE  ~now_iterating_in_net_players \/ \E c \in HighPing : CheckPing(c)
  <2>1. ASSUME Enter PROVE ~now_iterating_in_net_players
    BY <1>1, <2>1 DEF TypeOK, Enter
  <2>2. ASSUME NEW c \in Clients, Visit(c) \/ CheckPing(c) \/ Collect(c)
        PROVE  net_Players' = net_Players \/ (c \in HighPing /\ CheckPing(c))
    BY <2>2 DEF Visit, CheckPing, Collect, list
  <2>3. EndPass \/ EndDisconnect \/ UNCHANGED vars => net_Players' = net_Players
    BY DEF EndPass, EndDisconnect, vars, list
  <2>4. HighPing \subseteq Clients
    BY MonitorAssumption
  <2> QED
    BY <1>1, <2>1, <2>2, <2>3, <2>4
       DEF Next, MainThread, NetworkThread, Iterating, Broadcast, PerformCheckClientsForMaxPing,
           CollectClients, CountClients, DisconnectNext, KickCheater, AddNewClient, Leave, BeginPass
<1>2. TypeOK /\ [Next]_vars => [net_Players' # net_Players =>
                                    ~now_iterating_in_net_players \/ \E c \in HighPing : CheckPing(c)]_vars
  BY <1>1
<1> QED
  BY <1>2, TypeCorrect, PTL DEF Spec, NotWhileIterating
-----------------------------------------------------------------------------
(* The pool of those who have left.                                        *)

(* The digest of s is not known, and not on its way; nor asked for.        *)
Digest(s) == client[s].m_cdkey_digest
NotAnswered(s) == ~Digest(s) /\ \A k \in 1..Len(answers) : answers[k] # s
NotAsked(s) == s \notin asked /\ NotAnswered(s)

(* Sessions begin in their order; nothing is known of those to come.       *)
NewSessions ==
  \A s \in Sessions : Fresh(s) =>
    /\ \A t \in Sessions : s < t => Fresh(t)
    /\ s \notin registered \cup Pooled \cup deleted /\ s # leaving.of
    /\ ~HasState(s) /\ NotAsked(s)

(* States and logins wait in the order of the sessions: while a state      *)
(* waits, none of a later session has arrived.                             *)
Before(a, b) == a.of < b.of \/ (a.of = b.of /\ a.type = "state" /\ b.type = "auth")
EventsInv ==
  /\ \A j, k \in 1..Len(events) : j < k => Before(events[j], events[k])
  /\ \A k \in 1..Len(events) :
       /\ ~Fresh(events[k].of) /\ NotAsked(events[k].of)
       /\ events[k].type = "state" => \A t \in Sessions : events[k].of <= t => ~HasState(t)

(* A digest is asked for and answered once, and then the pool is asked.    *)
DigestsInv ==
  /\ \A s \in Sessions : ~Digest(s) => client[s].resumed = Nobody
  /\ \A s \in asked : NotAnswered(s)
  /\ \A k \in 1..Len(answers) : ~Digest(answers[k])
  /\ \A j, k \in 1..Len(answers) : answers[j] = answers[k] => j = k

(* Who plays or is leaving is not in the pool and has not been deleted.    *)
LeavingInv ==
  /\ leaving.of # Nobody => (leaving.step = "erase" <=> leaving.of \in registered)
  /\ \A s \in Sessions : s \in registered \/ s = leaving.of => s \notin Pooled \cup deleted

(* A name is given when nobody has it who plays.  So who has it again has  *)
(* not answered yet when the one before him gets into the pool.            *)
NamesInv ==
  \A s, t \in Sessions : s < t /\ HasState(s) /\ client[s].name = client[t].name =>
    s \notin registered /\ (s = leaving.of => NotAnswered(t))

(* Each is in the pool once, since he left; who has been resumed has been  *)
(* deleted.                                                                *)
EntriesInv ==
  /\ \A j, k \in 1..Len(m_dclients) : m_dclients[j].m_client = m_dclients[k].m_client => j = k
  /\ \A k \in 1..Len(m_dclients) : leftAt[m_dclients[k].m_client] = m_dclients[k].m_dtime
  /\ \A s \in Sessions : client[s].resumed \in deleted \cup {Nobody}
  /\ ResumedOnce

(* The digest of a later session of his has taken whoever was in the pool, *)
(* unless it was turned away.                                              *)
LastPooled ==
  \A s, t \in Sessions : s < t /\ Digest(s) /\ Same(s, t) /\ s \in Pooled => Refused(client[s].player)

PoolInv ==
  /\ PoolTypes /\ NewSessions /\ EventsInv /\ DigestsInv /\ LeavingInv /\ NamesInv
  /\ EntriesInv /\ LastPooled

(* An operator of the instance is the one of the same name here, where the *)
(* primes and the state do not come in.                                    *)
LEMMA Bridge ==
  /\ CP!NoName = NoName /\ CP!Names = Names /\ CP!Nobody = Nobody /\ CP!Pooled = Pooled
  /\ \A s : CP!HasState(s) = HasState(s) /\ CP!Fresh(s) = Fresh(s)
<1>1. CP!Cardinality(Sessions) = Cardinality(Sessions)
  BY DEF CP!Cardinality, Cardinality
<1>2. CP!NoName = NoName
  BY <1>1 DEF CP!NoName, NoName
<1>3. CP!Nobody = Nobody
  BY DEF CP!Nobody, Nobody
<1> QED
  BY <1>1, <1>2, <1>3 DEF CP!Names, Names, CP!Pooled, Pooled, CP!HasState, HasState, CP!Fresh, Fresh

(* The members of a sequence, and one more.                                *)
LEMMA SeqMembers ==
  ASSUME NEW S, NEW s \in Seq(S)
  PROVE  DOMAIN s = 1..Len(s) /\ Len(s) \in Nat /\ \A k \in 1..Len(s) : s[k] \in S
OBVIOUS

LEMMA LongerByOne ==
  ASSUME NEW S, NEW s \in Seq(S), NEW x \in S
  PROVE  /\ Append(s, x) \in Seq(S) /\ Len(Append(s, x)) = Len(s) + 1
         /\ Append(s, x)[Len(s) + 1] = x /\ \A k \in 1..Len(s) : Append(s, x)[k] = s[k]
OBVIOUS

(* What waits, and what the pool holds.                                    *)
LEMMA EventTypes ==
  ASSUME NEW q \in Seq([type : Events, of : Sessions])
  PROVE  \A k \in 1..Len(q) : q[k].type \in Events /\ q[k].of \in Sessions
<1> DEFINE E == [type : Events, of : Sessions]
<1>1. \A e \in E : e.type \in Events /\ e.of \in Sessions
  OBVIOUS
<1>2. q \in Seq(E)
  OBVIOUS
<1> HIDE DEF E
<1> QED
  BY <1>1, <1>2, SeqMembers

(* Who is in the pool has an entry of it.                                  *)
LEMMA PooledIs ==
  ASSUME NEW q \in Seq([m_client : Sessions, m_dtime : Nat])
  PROVE  /\ \A k \in 1..Len(q) : q[k].m_client \in Sessions /\ q[k].m_dtime \in Nat
         /\ {q[k].m_client : k \in DOMAIN q} \subseteq Sessions
         /\ \A s : s \in {q[k].m_client : k \in DOMAIN q} <=> \E k \in 1..Len(q) : q[k].m_client = s
<1> DEFINE E == [m_client : Sessions, m_dtime : Nat]
<1>1. \A e \in E : e.m_client \in Sessions /\ e.m_dtime \in Nat
  OBVIOUS
<1>2. q \in Seq(E)
  OBVIOUS
<1> HIDE DEF E
<1>3. DOMAIN q = 1..Len(q) /\ \A k \in 1..Len(q) : q[k].m_client \in Sessions /\ q[k].m_dtime \in Nat
  BY <1>1, <1>2, SeqMembers
<1> QED
  BY <1>3

(* EventsInv and LastPooled of the next state.                             *)
LEMMA EventsAre ==
  ASSUME \A j, k \in 1..Len(events') : j < k => Before(events'[j], events'[k]),
         \A k \in 1..Len(events') : \A x : x = events'[k].of =>
           /\ x \in Sessions /\ ~Fresh(x)' /\ NotAsked(x)'
           /\ events'[k].type = "state" => \A t \in Sessions : x <= t => ~HasState(t)'
  PROVE  EventsInv'
BY DEF EventsInv, Fresh, NotAsked, NotAnswered, Digest, HasState, Before

(* (Whoever is turned away in the next state, by his number there.)        *)
LEMMA LastPooledIs ==
  ASSUME \A t, u \in Sessions : t < u /\ Digest(t)' /\ Same(t, u)' /\ t \in Pooled' =>
           \E q : q = client'[t].player /\ Refused(q)'
  PROVE  LastPooled'
BY DEF LastPooled, Digest, Same, Refused

(* The clock goes on, or the reconnect time is set: PoolInv does not       *)
(* depend on them.                                                         *)
LEMMA ClockKeeps ==
  ASSUME PoolInv,
         UNCHANGED <<client, registered, leaving, m_dclients, deleted, events, answers, asked, leftAt>>,
         g_sv_Client_Reconnect_Time' \in ReconnectTimes, dwTimeGlobal' \in Nat
  PROVE  PoolInv'
<1> USE DEF PoolInv, Digest, NotAnswered, NotAsked, Pooled, Fresh, HasState
<1>1. PoolTypes'
  BY DEF PoolTypes
<1>2. NewSessions' /\ DigestsInv' /\ LeavingInv' /\ NamesInv'
  BY DEF NewSessions, DigestsInv, LeavingInv, NamesInv
<1>3. EventsInv'
  BY DEF EventsInv
<1>4. EntriesInv' /\ LastPooled'
  BY DEF EntriesInv, LastPooled, Same, Refused, ResumedOnce
<1> QED
  BY <1>1, <1>2, <1>3, <1>4

(* A player joins.                                                         *)
LEMMA JoinKeeps ==
  ASSUME PoolInv, NEW s \in Sessions, NEW p \in Players, CP!Join(s, p)
  PROVE  PoolInv'
<1> DEFINE e1 == [type |-> "state", of |-> s]
           e2 == [type |-> "auth", of |-> s]
<1>1. /\ leaving.of = Nobody /\ Fresh(s) /\ \A t \in Sessions : t < s => ~Fresh(t)
      /\ client' = [client EXCEPT ![s].player = p] /\ registered' = registered \cup {s}
      /\ events' = events \o <<e1, e2>>
      /\ UNCHANGED <<leaving, leftAt, answers, asked, m_dclients, deleted>>
      /\ UNCHANGED <<g_sv_Client_Reconnect_Time, dwTimeGlobal>>
  BY DEF CP!Join, CP!Network, CP!Nobody, Nobody, CP!Fresh, Fresh, CP!clock
<1>2. PoolTypes /\ p # Nobody /\ Pooled' = Pooled
  BY <1>1, PoolAssumption DEF PoolInv, Pooled, Nobody
<1>3. /\ client' \in [Sessions -> [player : Players \cup {Nobody}, name : Names \cup {NoName},
                                   m_cdkey_digest : BOOLEAN, resumed : Sessions \cup {Nobody},
                                   refused : BOOLEAN]]
      /\ \A t \in Sessions : /\ client'[t].name = client[t].name /\ client'[t].resumed = client[t].resumed
                             /\ client'[t].m_cdkey_digest = client[t].m_cdkey_digest
                             /\ client'[t].refused = client[t].refused
                             /\ t # s => client'[t].player = client[t].player
      /\ client'[s].player = p
  <2> DEFINE R == [player : Players \cup {Nobody}, name : Names \cup {NoName},
                   m_cdkey_digest : BOOLEAN, resumed : Sessions \cup {Nobody}, refused : BOOLEAN]
             c == [client[s] EXCEPT !.player = p]
  <2>1. client \in [Sessions -> R] /\ client[s] \in R
    BY <1>2 DEF PoolTypes
  <2>2. c \in R /\ c.name = client[s].name /\ c.resumed = client[s].resumed /\ c.player = p
        /\ c.m_cdkey_digest = client[s].m_cdkey_digest /\ c.refused = client[s].refused
    BY <2>1
  <2>3. client' = [client EXCEPT ![s] = c]
    BY <1>1, <2>1
  <2> HIDE DEF c, R
  <2> QED
    BY <2>1, <2>2, <2>3 DEF R
<1>4. /\ s \notin registered \cup Pooled \cup deleted /\ s # leaving.of /\ ~HasState(s) /\ NotAsked(s)
      /\ \A t \in Sessions : s < t => Fresh(t)
  BY <1>1 DEF PoolInv, NewSessions
<1>5. /\ events' \in Seq([type : Events, of : Sessions]) /\ Len(events') = Len(events) + 2
      /\ Len(events) \in Nat
      /\ \A k \in 1..Len(events) : events'[k] = events[k]
      /\ events'[Len(events) + 1] = e1 /\ events'[Len(events) + 2] = e2
  <2>1. e1 \in [type : Events, of : Sessions] /\ e2 \in [type : Events, of : Sessions]
    BY DEF Events
  <2>2. <<e1, e2>> \in Seq([type : Events, of : Sessions]) /\ Len(<<e1, e2>>) = 2
        /\ <<e1, e2>>[1] = e1 /\ <<e1, e2>>[2] = e2
    BY <2>1
  <2> HIDE DEF e1, e2
  <2>3. events \in Seq([type : Events, of : Sessions])
    BY <1>2 DEF PoolTypes
  <2> QED
    BY <1>1, <2>2, <2>3
<1> HIDE DEF e1, e2
<1>6. PoolTypes'
  BY <1>1, <1>2, <1>3, <1>4, <1>5 DEF PoolTypes
<1>7. \A t \in Sessions :
        /\ Digest(t)' = Digest(t) /\ NotAnswered(t)' = NotAnswered(t) /\ NotAsked(t)' = NotAsked(t)
        /\ HasState(t)' = HasState(t) /\ Fresh(t)' = (Fresh(t) /\ t # s)
  BY <1>1, <1>2, <1>3 DEF Digest, NotAnswered, NotAsked, HasState, Fresh
<1>8. NewSessions'
  <2>1. \A t, u \in Sessions : Fresh(t) /\ t # s /\ t < u => u # s
    BY <1>1
  <2> QED
    BY <1>1, <1>2, <1>7, <2>1 DEF PoolInv, NewSessions
<1>9. EventsInv'
  <2>1. \A k \in 1..Len(events) : events[k].of \in Sessions /\ events[k].of < s
    <3>1. \A k \in 1..Len(events) : events[k].of \in Sessions /\ ~Fresh(events[k].of)
      <4>1. \A k \in 1..Len(events) : events[k].of \in Sessions
        BY <1>2, EventTypes DEF PoolTypes
      <4> QED
        BY <4>1 DEF PoolInv, EventsInv
    <3> QED
      BY <1>1, <1>4, <3>1, PoolAssumption
  <2>2. e1.of = s /\ e2.of = s /\ e1.type = "state" /\ e2.type = "auth"
    BY DEF e1, e2
  <2>3. \A j, k \in 1..Len(events') : j < k => Before(events'[j], events'[k])
    <3> SUFFICES ASSUME NEW j \in 1..Len(events'), NEW k \in 1..Len(events'), j < k
                 PROVE  Before(events'[j], events'[k])
      OBVIOUS
    <3>1. CASE k \in 1..Len(events)
      <4>1. j \in 1..Len(events)
        BY <1>5, <3>1
      <4>2. Before(events[j], events[k])
        BY <3>1, <4>1 DEF PoolInv, EventsInv
      <4> QED
        BY <1>5, <3>1, <4>1, <4>2
    <3>2. CASE k = Len(events) + 1
      <4>1. j \in 1..Len(events)
        BY <1>5, <3>2
      <4> QED
        BY <1>5, <2>1, <2>2, <3>2, <4>1 DEF Before
    <3>3. CASE k = Len(events) + 2
      <4>1. j \in 1..Len(events) \/ j = Len(events) + 1
        BY <1>5, <3>3
      <4>2. events'[j].of < s \/ (events'[j].of = s /\ events'[j].type = "state")
        BY <1>5, <2>1, <2>2, <4>1
      <4> QED
        BY <1>5, <2>2, <3>3, <4>2 DEF Before
    <3> QED
      BY <1>5, <3>1, <3>2, <3>3
  <2>4. \A t \in Sessions : s <= t => ~HasState(t)
    <3>1. \A t \in Sessions : s < t => ~HasState(t)
      BY <1>4 DEF PoolInv, NewSessions
    <3> QED
      BY <1>4, <3>1, PoolAssumption
  <2>5. ASSUME NEW k \in 1..Len(events'), NEW x, x = events'[k].of
        PROVE  /\ x \in Sessions /\ ~Fresh(x)' /\ NotAsked(x)'
               /\ events'[k].type = "state" => \A t \in Sessions : x <= t => ~HasState(t)'
    <3>1. CASE k \in 1..Len(events)
      <4>1. events'[k] = events[k] /\ x = events[k].of /\ x \in Sessions /\ x # s
        BY <1>5, <2>1, <2>5, <3>1, PoolAssumption
      <4> QED
        BY <1>7, <2>1, <3>1, <4>1 DEF PoolInv, EventsInv
    <3>2. CASE x = s
      <4>1. ~Fresh(s)' /\ NotAsked(s)' /\ \A t \in Sessions : s <= t => ~HasState(t)'
        BY <1>4, <1>7, <2>4
      <4> QED
        BY <3>2, <4>1
    <3> QED
      BY <1>5, <2>2, <2>5, <3>1, <3>2
  <2> QED
    BY <2>3, <2>5, EventsAre
<1>10. DigestsInv'
  BY <1>1, <1>2, <1>3, <1>7 DEF PoolInv, PoolTypes, DigestsInv
<1>11. LeavingInv'
  BY <1>1, <1>2, <1>4 DEF PoolInv, LeavingInv
<1>12. NamesInv'
  BY <1>1, <1>3, <1>4, <1>7 DEF PoolInv, NamesInv, HasState
<1>13. EntriesInv'
  BY <1>1, <1>3 DEF PoolInv, EntriesInv, ResumedOnce
<1>14. LastPooled'
  <2>1. \A q : Refused(q) /\ q # Nobody => Refused(q)'
    BY <1>1, <1>3 DEF Refused, Fresh
  <2>2. ASSUME NEW t \in Sessions, NEW u \in Sessions, t < u, Digest(t)', Same(t, u)', t \in Pooled
        PROVE  \E q : q = client'[t].player /\ Refused(q)'
    <3>1. t # s /\ u # s
      BY <1>4, <1>7, <2>2 DEF Same, NotAsked, NotAnswered, Digest
    <3>2. Digest(t) /\ Same(t, u) /\ client'[t].player = client[t].player
      BY <1>3, <2>2, <3>1 DEF Same, Digest
    <3>3. Refused(client[t].player) /\ ~Fresh(t)
      BY <2>2, <3>2 DEF PoolInv, LastPooled, NewSessions
    <3> QED
      BY <2>1, <3>2, <3>3 DEF Fresh
  <2> QED
    BY <1>2, <2>2, LastPooledIs
<1> QED
  BY <1>6, <1>8, <1>9, <1>10, <1>11, <1>12, <1>13, <1>14 DEF PoolInv

(* He sends his digest.                                                    *)
LEMMA ReceiveKeeps ==
  ASSUME PoolInv, NEW s \in Sessions, CP!Receive(s)
  PROVE  PoolInv'
<1>1. /\ leaving.of = Nobody /\ s \in asked /\ s \in registered
      /\ asked' = asked \ {s} /\ answers' = Append(answers, s)
      /\ UNCHANGED <<client, registered, leaving, leftAt, events, m_dclients, deleted>>
      /\ UNCHANGED <<g_sv_Client_Reconnect_Time, dwTimeGlobal>>
  BY DEF CP!Receive, CP!Network, CP!Nobody, Nobody, CP!clock, CP!players
<1>2. PoolTypes /\ Pooled' = Pooled /\ NotAnswered(s)
  BY <1>1 DEF PoolInv, Pooled, DigestsInv
<1>3. /\ answers' \in Seq(Sessions) /\ Len(answers') = Len(answers) + 1 /\ Len(answers) \in Nat
      /\ \A k \in 1..Len(answers) : answers'[k] = answers[k]
      /\ answers'[Len(answers) + 1] = s
  BY <1>1, <1>2 DEF PoolTypes
<1>4. \A t \in Sessions :
        /\ Digest(t)' = Digest(t) /\ HasState(t)' = HasState(t) /\ Fresh(t)' = Fresh(t)
        /\ NotAnswered(t) /\ t # s => NotAnswered(t)'
        /\ NotAsked(t) => NotAsked(t)'
  BY <1>1, <1>3 DEF Digest, NotAnswered, NotAsked, HasState, Fresh
<1>5. PoolTypes'
  BY <1>1, <1>2, <1>3 DEF PoolTypes
<1>6. NewSessions' /\ LeavingInv'
  BY <1>1, <1>2, <1>4 DEF PoolInv, NewSessions, LeavingInv
<1>7. EventsInv'
  <2>1. \A k \in 1..Len(events) : events[k].of \in Sessions
    BY <1>2, EventTypes DEF PoolTypes
  <2> QED
    BY <1>1, <1>4, <2>1, EventsAre DEF PoolInv, EventsInv
<1>8. DigestsInv'
  <2>1. \A t \in asked' : NotAnswered(t)'
    BY <1>1, <1>2, <1>4 DEF PoolInv, DigestsInv, PoolTypes
  <2>2. \A k \in 1..Len(answers') : ~client[answers'[k]].m_cdkey_digest
    BY <1>2, <1>3 DEF PoolInv, DigestsInv, NotAnswered, Digest
  <2>3. \A j, k \in 1..Len(answers') : answers'[j] = answers'[k] => j = k
    BY <1>2, <1>3 DEF PoolInv, DigestsInv, NotAnswered
  <2>4. \A t \in Sessions : ~Digest(t)' => client'[t].resumed = Nobody
    BY <1>1, <1>4 DEF PoolInv, DigestsInv
  <2> QED
    BY <1>1, <2>1, <2>2, <2>3, <2>4 DEF DigestsInv, Digest
<1>9. NamesInv'
  BY <1>1, PoolAssumption DEF PoolInv, NamesInv, HasState, Nobody
<1>10. EntriesInv' /\ LastPooled'
  BY <1>1, <1>2 DEF PoolInv, EntriesInv, ResumedOnce, LastPooled, Digest, Same, Refused
<1> QED
  BY <1>5, <1>6, <1>7, <1>8, <1>9, <1>10 DEF PoolInv

(* He leaves, and is erased from the list.                                 *)
LEMMA LeavingKeeps ==
  ASSUME PoolInv, NEW s \in Sessions, s \in registered,
         \/ leaving' = [of |-> s, step |-> "erase"] /\ registered' = registered
         \/ /\ s = leaving.of /\ leaving' = [of |-> s, step |-> "pool"]
            /\ registered' = registered \ {s},
         UNCHANGED <<client, leftAt, events, answers, asked, m_dclients, deleted>>,
         UNCHANGED <<g_sv_Client_Reconnect_Time, dwTimeGlobal>>
  PROVE  PoolInv'
<1> USE DEF PoolInv, Digest, NotAnswered, NotAsked, Pooled, Fresh, HasState
<1>1. leaving'.of = s /\ registered' \subseteq registered
      /\ (leaving'.step = "erase" <=> s \in registered')
  OBVIOUS
<1>2. PoolTypes'
  BY <1>1 DEF PoolTypes
<1>3. NewSessions' /\ DigestsInv' /\ NamesInv'
  BY <1>1 DEF NewSessions, DigestsInv, NamesInv
<1>4. LeavingInv'
  BY <1>1 DEF LeavingInv
<1>5. EventsInv'
  BY DEF EventsInv
<1>6. EntriesInv' /\ LastPooled'
  BY DEF EntriesInv, LastPooled, Same, Refused, ResumedOnce
<1> QED
  BY <1>2, <1>3, <1>4, <1>5, <1>6

(* He is kept in the pool, or deleted at once.  By NamesInv nobody of his  *)
(* name after him has answered, so he is the last there (LastPooled).      *)
LEMMA AddKeeps ==
  ASSUME PoolInv, CP!Add
  PROVE  PoolInv'
<1> DEFINE s == leaving.of
           d == [m_client |-> s, m_dtime |-> dwTimeGlobal]
<1>1. /\ s # Nobody /\ leaving.step = "pool" /\ leaving' = [of |-> Nobody, step |-> "erase"]
      /\ leftAt' = [leftAt EXCEPT ![s] = dwTimeGlobal]
      /\ deleted' = IF HasState(s) /\ g_sv_Client_Reconnect_Time = 0 THEN deleted \cup {s} ELSE deleted
      /\ m_dclients' = IF HasState(s) /\ g_sv_Client_Reconnect_Time # 0
                       THEN Append(m_dclients, d) ELSE m_dclients
      /\ UNCHANGED <<client, registered, events, answers, asked>>
      /\ UNCHANGED <<g_sv_Client_Reconnect_Time, dwTimeGlobal>>
  <2>1. /\ s # Nobody /\ leaving.step = "pool" /\ leaving' = [of |-> Nobody, step |-> "erase"]
        /\ UNCHANGED <<client, registered, CP!messages, CP!clock>>
    BY DEF CP!Add, CP!Nobody, Nobody
  <2>2. CP!HasState(s) = HasState(s)
    BY Bridge
  <2>3. /\ leftAt' = [leftAt EXCEPT ![s] = dwTimeGlobal]
        /\ deleted' = IF CP!HasState(s) /\ g_sv_Client_Reconnect_Time = 0 THEN deleted \cup {s} ELSE deleted
        /\ m_dclients' = IF CP!HasState(s) /\ g_sv_Client_Reconnect_Time # 0
                         THEN Append(m_dclients, d) ELSE m_dclients
    BY DEF CP!Add
  <2> HIDE DEF d
  <2> QED
    BY <2>1, <2>2, <2>3 DEF CP!messages, CP!clock
<1>2. PoolTypes /\ s \in Sessions /\ s \notin registered \cup Pooled \cup deleted /\ ~Fresh(s)
  BY <1>1 DEF PoolInv, PoolTypes, LeavingInv, NewSessions
<1>3. /\ m_dclients' \in Seq([m_client : Sessions, m_dtime : Nat])
      /\ m_dclients \in Seq([m_client : Sessions, m_dtime : Nat])
      /\ Len(m_dclients) \in Nat
      /\ \/ m_dclients' = m_dclients
         \/ /\ Len(m_dclients') = Len(m_dclients) + 1 /\ m_dclients'[Len(m_dclients) + 1] = d
            /\ \A k \in 1..Len(m_dclients) : m_dclients'[k] = m_dclients[k]
            /\ HasState(s) /\ g_sv_Client_Reconnect_Time # 0
  <2> DEFINE E == [m_client : Sessions, m_dtime : Nat]
  <2>1. d \in E /\ m_dclients \in Seq(E)
    BY <1>2 DEF PoolTypes
  <2> DEFINE longer == /\ Len(m_dclients') = Len(m_dclients) + 1 /\ m_dclients'[Len(m_dclients) + 1] = d
                       /\ \A k \in 1..Len(m_dclients) : m_dclients'[k] = m_dclients[k]
  <2> HIDE DEF E, d, longer
  <2>2. m_dclients' = Append(m_dclients, d) => m_dclients' \in Seq(E) /\ longer
    BY <2>1, LongerByOne DEF longer
  <2>3. \/ m_dclients' = m_dclients
        \/ m_dclients' = Append(m_dclients, d) /\ HasState(s) /\ g_sv_Client_Reconnect_Time # 0
    BY <1>1
  <2>4. /\ m_dclients' \in Seq(E) /\ Len(m_dclients) \in Nat
        /\ m_dclients' = m_dclients \/ (longer /\ HasState(s) /\ g_sv_Client_Reconnect_Time # 0)
    BY <2>1, <2>2, <2>3, SeqMembers
  <2> QED
    BY <2>1, <2>4 DEF E, longer
<1>4. /\ Pooled' \subseteq Pooled \cup {s} /\ deleted' \subseteq deleted \cup {s}
      /\ deleted \subseteq deleted'
      /\ s \in Pooled' => HasState(s) /\ s \notin deleted'
  <2> DEFINE of(q) == {q[k].m_client : k \in DOMAIN q}
  <2>1. \A x : x \in of(m_dclients) <=> \E k \in 1..Len(m_dclients) : m_dclients[k].m_client = x
    BY <1>3, PooledIs
  <2>2. \A x : x \in of(m_dclients') <=> \E k \in 1..Len(m_dclients') : m_dclients'[k].m_client = x
    BY <1>3, PooledIs
  <2>3. Pooled = of(m_dclients) /\ Pooled' = of(m_dclients')
    BY DEF Pooled
  <2>4. d.m_client = s
    OBVIOUS
  <2> HIDE DEF of, d
  <2>5. Pooled' \subseteq Pooled \cup {s}
    <3> SUFFICES ASSUME NEW x \in Pooled' PROVE x \in Pooled \/ x = s
      OBVIOUS
    <3>1. PICK k \in 1..Len(m_dclients') : m_dclients'[k].m_client = x
      BY <2>2, <2>3
    <3>2. \/ k \in 1..Len(m_dclients) /\ m_dclients'[k] = m_dclients[k]
          \/ m_dclients'[k] = d
      BY <1>3
    <3>3. k \in 1..Len(m_dclients) /\ m_dclients'[k] = m_dclients[k] => x \in Pooled
      BY <2>1, <2>3, <3>1
    <3> QED
      BY <2>4, <3>1, <3>2, <3>3
  <2>6. s \in Pooled' => HasState(s) /\ g_sv_Client_Reconnect_Time # 0
    BY <1>2, <1>3, <2>3
  <2> QED
    BY <1>1, <1>2, <2>5, <2>6
<1>5. PoolTypes'
  BY <1>1, <1>2, <1>3, <1>4 DEF PoolTypes, Nobody
<1>6. \A t \in Sessions :
        /\ Digest(t)' = Digest(t) /\ HasState(t)' = HasState(t) /\ Fresh(t)' = Fresh(t)
        /\ NotAnswered(t)' = NotAnswered(t) /\ NotAsked(t)' = NotAsked(t)
  BY <1>1 DEF Digest, NotAnswered, NotAsked, HasState, Fresh
<1>7. Nobody \notin Sessions
  BY PoolAssumption DEF Nobody
<1>8. NewSessions'
  BY <1>1, <1>2, <1>4, <1>6, <1>7 DEF PoolInv, NewSessions
<1>9. LeavingInv'
  BY <1>1, <1>2, <1>4, <1>7 DEF PoolInv, LeavingInv
<1>10. EventsInv' /\ DigestsInv'
  BY <1>1 DEF PoolInv, EventsInv, DigestsInv, Digest, NotAnswered, NotAsked, HasState, Fresh
<1>11. NamesInv'
  BY <1>1, <1>6, <1>7 DEF PoolInv, NamesInv
<1>12. EntriesInv'
  <2>1. d.m_client = s /\ d.m_dtime = dwTimeGlobal
    OBVIOUS
  <2>2. \A k \in 1..Len(m_dclients) : m_dclients[k].m_client \in Sessions \ {s}
    BY <1>2, <1>3, PooledIs DEF Pooled
  <2> HIDE DEF d
  <2>3. \A j, k \in 1..Len(m_dclients') : m_dclients'[j].m_client = m_dclients'[k].m_client => j = k
    <3>1. \A j, k \in 1..Len(m_dclients) : m_dclients[j].m_client = m_dclients[k].m_client => j = k
      BY DEF PoolInv, EntriesInv
    <3>2. CASE m_dclients' = m_dclients
      BY <3>1, <3>2
    <3>3. CASE /\ Len(m_dclients') = Len(m_dclients) + 1 /\ m_dclients'[Len(m_dclients) + 1] = d
               /\ \A k \in 1..Len(m_dclients) : m_dclients'[k] = m_dclients[k]
      <4>1. \A k \in 1..Len(m_dclients) : m_dclients'[k].m_client # s
        BY <2>2, <3>3
      <4>2. /\ m_dclients'[Len(m_dclients) + 1].m_client = s
            /\ \A k \in 1..Len(m_dclients) : m_dclients'[k].m_client = m_dclients[k].m_client
        BY <2>1, <3>3
      <4>3. \A k \in 1..Len(m_dclients') : k \in 1..Len(m_dclients) \/ k = Len(m_dclients) + 1
        BY <1>3, <3>3
      <4> QED
        BY <3>1, <4>1, <4>2, <4>3
    <3> QED
      BY <1>3, <3>2, <3>3
  <2>4. \A k \in 1..Len(m_dclients') : leftAt'[m_dclients'[k].m_client] = m_dclients'[k].m_dtime
    <3>1. leftAt'[s] = dwTimeGlobal /\ \A t \in Sessions \ {s} : leftAt'[t] = leftAt[t]
      BY <1>1, <1>2 DEF PoolTypes
    <3> QED
      BY <1>3, <2>1, <2>2, <3>1 DEF PoolInv, EntriesInv
  <2> QED
    BY <1>1, <1>4, <2>3, <2>4 DEF PoolInv, EntriesInv, ResumedOnce
<1>13. LastPooled'
  <2>1. \A t \in Sessions : s < t /\ Same(s, t) /\ HasState(s) => ~Digest(t)
    BY <1>2 DEF PoolInv, NamesInv, Same, NotAnswered
  <2>2. \A t, u \in Sessions : t < u /\ Digest(t) /\ Same(t, u) /\ t \in Pooled' => Refused(client[t].player)
    BY <1>4, <2>1 DEF PoolInv, LastPooled, Same, Digest
  <2> QED
    BY <1>1, <2>2 DEF LastPooled, Digest, Same, Refused
<1> QED
  BY <1>5, <1>8, <1>9, <1>10, <1>11, <1>12, <1>13 DEF PoolInv

(* A round starts: whoever is in the pool is deleted.                      *)
LEMMA RoundKeeps ==
  ASSUME PoolInv, CP!OnRoundStart
  PROVE  PoolInv'
<1>1. /\ deleted' = deleted \cup Pooled /\ m_dclients' = <<>>
      /\ UNCHANGED <<client, registered, leaving, leftAt, events, answers, asked>>
      /\ UNCHANGED <<g_sv_Client_Reconnect_Time, dwTimeGlobal>>
  BY DEF CP!OnRoundStart, CP!Pooled, Pooled, CP!clock, CP!messages, CP!players
<1>2. PoolTypes /\ Pooled \subseteq Sessions /\ Pooled \cap registered = {}
  BY PooledIs DEF PoolInv, PoolTypes, Pooled
<1>3. Pooled' = {} /\ m_dclients' \in Seq([m_client : Sessions, m_dtime : Nat]) /\ Len(m_dclients') = 0
  BY <1>1 DEF Pooled
<1>4. PoolTypes'
  BY <1>1, <1>2, <1>3 DEF PoolTypes
<1>5. NewSessions' /\ LeavingInv'
  BY <1>1, <1>3 DEF PoolInv, NewSessions, LeavingInv, Fresh, HasState, NotAsked, NotAnswered, Digest
<1>6. EventsInv' /\ DigestsInv' /\ NamesInv'
  BY <1>1 DEF PoolInv, EventsInv, DigestsInv, NamesInv, Fresh, HasState, NotAsked, NotAnswered, Digest
<1>7. EntriesInv' /\ LastPooled'
  BY <1>1, <1>3 DEF PoolInv, EntriesInv, ResumedOnce, LastPooled
<1> QED
  BY <1>4, <1>5, <1>6, <1>7 DEF PoolInv

(* The first of what waits, and the rest.                                  *)
LEMMA TailIs ==
  ASSUME NEW S, NEW q \in Seq(S), q # <<>>
  PROVE  /\ Tail(q) \in Seq(S) /\ Len(Tail(q)) = Len(q) - 1 /\ Len(q) \in Nat \ {0}
         /\ Head(q) = q[1] /\ \A k \in 1..(Len(q) - 1) : Tail(q)[k] = q[k + 1]
OBVIOUS

(* There are more names than clients, so one is free.                      *)
LEMMA NameIsFree ==
  ASSUME PoolTypes, NEW s \in Sessions
  PROVE  /\ CP!CheckPlayerName(s) \in Names
         /\ \A t \in registered \ {s} : client[t].name # CP!CheckPlayerName(s)
<1> DEFINE used == {client[t].name : t \in registered \ {s}}
           free == Names \ used
<1>1. IsFiniteSet(registered \ {s}) /\ Cardinality(registered \ {s}) <= Cardinality(Sessions)
      /\ Cardinality(Sessions) \in Nat
  BY PoolAssumption, FS_Subset, FS_CardinalityType DEF PoolTypes
<1>2. IsFiniteSet(used) /\ Cardinality(used) <= Cardinality(Sessions) /\ Cardinality(used) \in Nat
  <2>1. IsFiniteSet(used) /\ Cardinality(used) <= Cardinality(registered \ {s})
    <3> DEFINE f == [t \in registered \ {s} |-> client[t].name]
    <3>1. f \in Surjection(registered \ {s}, used)
      BY DEF Surjection
    <3> QED
      BY <1>1, <3>1, FS_Surjection
  <2> QED
    BY <1>1, <2>1, FS_CardinalityType
<1>3. IsFiniteSet(Names) /\ Cardinality(Names) = Cardinality(Sessions) + 1
  BY <1>1, FS_Interval DEF Names
<1>4. free # {}
  <2> SUFFICES ASSUME Names \subseteq used PROVE FALSE
    OBVIOUS
  <2>1. Cardinality(Names) <= Cardinality(used)
    BY <1>2, FS_Subset
  <2> QED
    BY <1>1, <1>2, <1>3, <2>1
<1>5. free \in SUBSET Nat
  BY <1>1 DEF Names
<1> HIDE DEF free
<1>6. Min(free) \in free
  BY <1>4, <1>5, MinOfNats
<1>7. CP!CheckPlayerName(s) = Min(free)
  BY Bridge DEF CP!CheckPlayerName, CP!Min, Min, free
<1> QED
  BY <1>6, <1>7 DEF free

(* His state arrives: he gets a name that nobody has who plays.            *)
LEMMA StateKeeps ==
  ASSUME PoolInv, CP!CreatePlayerState
  PROVE  PoolInv'
<1> DEFINE s == Head(events).of
           n == CP!CheckPlayerName(s)
<1>1. /\ events # <<>> /\ Head(events).type = "state" /\ s \in registered
      /\ client' = [client EXCEPT ![s].name = n] /\ events' = Tail(events)
      /\ UNCHANGED <<registered, leaving, leftAt, answers, asked, m_dclients, deleted>>
      /\ UNCHANGED <<g_sv_Client_Reconnect_Time, dwTimeGlobal>>
  BY DEF CP!CreatePlayerState, CP!clock
<1>2. PoolTypes /\ s \in Sessions /\ Pooled' = Pooled
  BY <1>1 DEF PoolInv, PoolTypes, Pooled
<1>3. n \in Names /\ n \in Nat /\ n # NoName /\ \A t \in registered \ {s} : client[t].name # n
  <2>1. n \in Names /\ \A t \in registered \ {s} : client[t].name # n
    BY <1>2, NameIsFree
  <2>2. Cardinality(Sessions) \in Nat
    BY PoolAssumption, FS_CardinalityType
  <2> HIDE DEF n
  <2> QED
    BY <2>1, <2>2 DEF Names, NoName
<1>4. /\ events' \in Seq([type : Events, of : Sessions])
      /\ Len(events') = Len(events) - 1 /\ Len(events) \in Nat \ {0}
      /\ events[1].of = s /\ events[1].type = "state"
      /\ \A k \in 1..Len(events') : events'[k] = events[k + 1]
  <2> DEFINE E == [type : Events, of : Sessions]
  <2>1. events \in Seq(E)
    BY <1>2 DEF PoolTypes
  <2> HIDE DEF E
  <2>2. /\ Tail(events) \in Seq(E) /\ Len(Tail(events)) = Len(events) - 1 /\ Len(events) \in Nat \ {0}
        /\ Head(events) = events[1] /\ \A k \in 1..(Len(events) - 1) : Tail(events)[k] = events[k + 1]
    BY <1>1, <2>1, TailIs
  <2> QED
    BY <1>1, <2>2 DEF E
<1> HIDE DEF s, n
<1>5. /\ client' \in [Sessions -> [player : Players \cup {Nobody}, name : Names \cup {NoName},
                                   m_cdkey_digest : BOOLEAN, resumed : Sessions \cup {Nobody},
                                   refused : BOOLEAN]]
      /\ \A t \in Sessions : /\ client'[t].player = client[t].player /\ client'[t].resumed = client[t].resumed
                             /\ client'[t].m_cdkey_digest = client[t].m_cdkey_digest
                             /\ client'[t].refused = client[t].refused
                             /\ t # s => client'[t].name = client[t].name
      /\ client'[s].name = n
  <2> DEFINE R == [player : Players \cup {Nobody}, name : Names \cup {NoName},
                   m_cdkey_digest : BOOLEAN, resumed : Sessions \cup {Nobody}, refused : BOOLEAN]
             c == [client[s] EXCEPT !.name = n]
  <2>1. client \in [Sessions -> R] /\ client[s] \in R
    BY <1>2 DEF PoolTypes
  <2>2. c \in R /\ c.player = client[s].player /\ c.resumed = client[s].resumed /\ c.name = n
        /\ c.m_cdkey_digest = client[s].m_cdkey_digest /\ c.refused = client[s].refused
    BY <1>3, <2>1
  <2>3. client' = [client EXCEPT ![s] = c]
    BY <1>1, <2>1
  <2> HIDE DEF c, R
  <2> QED
    BY <1>2, <2>1, <2>2, <2>3 DEF R
<1>6. PoolTypes'
  BY <1>1, <1>2, <1>4, <1>5 DEF PoolTypes
<1>7. \A t \in Sessions :
        /\ Digest(t)' = Digest(t) /\ NotAnswered(t)' = NotAnswered(t) /\ NotAsked(t)' = NotAsked(t)
        /\ Fresh(t)' = Fresh(t) /\ (t # s => HasState(t)' = HasState(t))
  BY <1>1, <1>2, <1>5 DEF Digest, NotAnswered, NotAsked, HasState, Fresh
<1>8. ~Fresh(s) /\ NotAsked(s) /\ \A t \in Sessions : s <= t => ~HasState(t)
  BY <1>4 DEF PoolInv, EventsInv
<1>9. NewSessions'
  BY <1>1, <1>2, <1>7, <1>8 DEF PoolInv, NewSessions
<1>10. EventsInv'
  <2>1. \A k \in 1..Len(events) : events[k].of \in Sessions
    BY <1>2, EventTypes DEF PoolTypes
  <2>2. \A k \in 1..Len(events') : k + 1 \in 1..Len(events) /\ 1 < k + 1
    BY <1>4
  <2>3. \A j, k \in 1..Len(events') : j < k => Before(events'[j], events'[k])
    <3> SUFFICES ASSUME NEW j \in 1..Len(events'), NEW k \in 1..Len(events'), j < k
                 PROVE  Before(events'[j], events'[k])
      OBVIOUS
    <3>1. j + 1 \in 1..Len(events) /\ k + 1 \in 1..Len(events) /\ j + 1 < k + 1
      BY <2>2
    <3>2. Before(events[j + 1], events[k + 1])
      BY <3>1 DEF PoolInv, EventsInv
    <3> QED
      BY <1>4, <3>2
  <2>4. ASSUME NEW k \in 1..Len(events'), NEW x, x = events'[k].of
        PROVE  /\ x \in Sessions /\ ~Fresh(x)' /\ NotAsked(x)'
               /\ events'[k].type = "state" => \A t \in Sessions : x <= t => ~HasState(t)'
    <3>0. x = events[k + 1].of /\ k + 1 \in 1..Len(events) /\ 1 \in 1..Len(events) /\ 1 < k + 1
      BY <1>4, <2>2, <2>4
    <3>1. x \in Sessions /\ ~Fresh(x) /\ NotAsked(x) /\ Before(events[1], events[k + 1])
      BY <2>1, <3>0 DEF PoolInv, EventsInv
    <3>2. ASSUME events'[k].type = "state", NEW t \in Sessions, x <= t PROVE ~HasState(t)'
      <4>1. events[k + 1].type = "state" /\ s < x
        BY <1>4, <3>0, <3>1, <3>2 DEF Before
      <4>2. t # s /\ ~HasState(t)
        BY <1>2, <3>0, <3>1, <3>2, <4>1, PoolAssumption DEF PoolInv, EventsInv
      <4> QED
        BY <1>7, <4>2
    <3> QED
      BY <1>7, <3>1, <3>2
  <2> QED
    BY <2>3, <2>4, EventsAre
<1>11. DigestsInv' /\ LeavingInv'
  <2>1. \A k \in 1..Len(answers) : answers[k] \in Sessions
    BY <1>2 DEF PoolTypes
  <2>2. \A k \in 1..Len(answers') : ~client'[answers'[k]].m_cdkey_digest
    BY <1>1, <1>5, <2>1 DEF PoolInv, DigestsInv, Digest
  <2>3. \A t \in Sessions : ~Digest(t)' => client'[t].resumed = Nobody
    BY <1>5, <1>7 DEF PoolInv, DigestsInv
  <2>4. \A t \in asked' : NotAnswered(t)'
    BY <1>1, <1>2, <1>7 DEF PoolInv, DigestsInv, PoolTypes
  <2>5. \A j, k \in 1..Len(answers') : answers'[j] = answers'[k] => j = k
    BY <1>1 DEF PoolInv, DigestsInv
  <2> QED
    BY <1>1, <1>2, <2>2, <2>3, <2>4, <2>5 DEF PoolInv, DigestsInv, LeavingInv, Digest
<1>12. NamesInv'
  <2>1. ASSUME NEW t \in Sessions, NEW u \in Sessions, t < u, HasState(t)', client'[t].name = client'[u].name
        PROVE  t \notin registered /\ (t = leaving.of => NotAnswered(u))
    <3>1. CASE t # s /\ u # s
      BY <1>5, <1>7, <2>1, <3>1 DEF PoolInv, NamesInv
    <3>2. CASE u = s
      <4>1. t # s /\ client[t].name = n
        BY <1>5, <2>1, <3>2, PoolAssumption
      <4> QED
        BY <1>3, <1>8, <3>2, <4>1 DEF NotAsked
    <3>3. CASE t = s
      <4>1. u # s /\ client[u].name = n /\ ~HasState(u)
        <5>1. s < u /\ s <= u /\ u # s
          BY <1>2, <2>1, <3>3, PoolAssumption
        <5> QED
          BY <1>5, <1>8, <2>1, <3>3, <5>1
      <4> QED
        BY <1>3, <4>1 DEF HasState
    <3> QED
      BY <3>1, <3>2, <3>3
  <2> QED
    BY <1>1, <1>7, <2>1 DEF NamesInv
<1>13. EntriesInv'
  BY <1>1, <1>5 DEF PoolInv, EntriesInv, ResumedOnce
<1>14. LastPooled'
  <2>1. \A q : Refused(q) => Refused(q)'
    BY <1>5 DEF Refused
  <2>2. ASSUME NEW t \in Sessions, NEW u \in Sessions, t < u, Digest(t)', Same(t, u)', t \in Pooled
        PROVE  \E q : q = client'[t].player /\ Refused(q)'
    <3>1. t # s /\ u # s
      BY <1>5, <1>8, <2>2 DEF Same, NotAsked, NotAnswered, Digest
    <3>2. Digest(t) /\ Same(t, u) /\ client'[t].player = client[t].player
      BY <1>5, <2>2, <3>1 DEF Same, Digest
    <3> QED
      BY <2>1, <2>2, <3>2 DEF PoolInv, LastPooled
  <2> QED
    BY <1>2, <2>2, LastPooledIs
<1> QED
  BY <1>6, <1>9, <1>10, <1>11, <1>12, <1>13, <1>14 DEF PoolInv

(* He is asked for his digest.                                             *)
LEMMA RequestKeepsPool ==
  ASSUME PoolInv, CP!RequestClientDigest
  PROVE  PoolInv'
<1> DEFINE s == Head(events).of
<1>1. /\ events # <<>> /\ Head(events).type = "auth" /\ s \in registered
      /\ asked' = asked \cup {s} /\ events' = Tail(events)
      /\ UNCHANGED <<client, registered, leaving, leftAt, answers, m_dclients, deleted>>
      /\ UNCHANGED <<g_sv_Client_Reconnect_Time, dwTimeGlobal>>
  BY DEF CP!RequestClientDigest, CP!clock, CP!players
<1>2. PoolTypes /\ s \in Sessions /\ Pooled' = Pooled
  BY <1>1 DEF PoolInv, PoolTypes, Pooled
<1>3. /\ events' \in Seq([type : Events, of : Sessions])
      /\ Len(events') = Len(events) - 1 /\ Len(events) \in Nat \ {0}
      /\ events[1].of = s /\ events[1].type = "auth"
      /\ \A k \in 1..Len(events') : events'[k] = events[k + 1]
  <2> DEFINE E == [type : Events, of : Sessions]
  <2>1. events \in Seq(E)
    BY <1>2 DEF PoolTypes
  <2> HIDE DEF E
  <2>2. /\ Tail(events) \in Seq(E) /\ Len(Tail(events)) = Len(events) - 1 /\ Len(events) \in Nat \ {0}
        /\ Head(events) = events[1] /\ \A k \in 1..(Len(events) - 1) : Tail(events)[k] = events[k + 1]
    BY <1>1, <2>1, TailIs
  <2> QED
    BY <1>1, <2>2 DEF E
<1> HIDE DEF s
<1>4. PoolTypes'
  BY <1>1, <1>2, <1>3 DEF PoolTypes
<1>5. \A t \in Sessions :
        /\ Digest(t)' = Digest(t) /\ NotAnswered(t)' = NotAnswered(t) /\ (NotAsked(t)' <=> NotAsked(t) /\ t # s)
        /\ Fresh(t)' = Fresh(t) /\ HasState(t)' = HasState(t)
  BY <1>1 DEF Digest, NotAnswered, NotAsked, HasState, Fresh
<1>6. ~Fresh(s) /\ NotAsked(s)
  BY <1>3 DEF PoolInv, EventsInv
<1>7. NewSessions'
  BY <1>1, <1>2, <1>5, <1>6 DEF PoolInv, NewSessions
<1>8. EventsInv'
  <2>1. \A k \in 1..Len(events) : events[k].of \in Sessions
    BY <1>2, EventTypes DEF PoolTypes
  <2>2. \A k \in 1..Len(events') : k + 1 \in 1..Len(events) /\ 1 < k + 1
    BY <1>3
  <2>3. \A j, k \in 1..Len(events') : j < k => Before(events'[j], events'[k])
    <3> SUFFICES ASSUME NEW j \in 1..Len(events'), NEW k \in 1..Len(events'), j < k
                 PROVE  Before(events'[j], events'[k])
      OBVIOUS
    <3>1. j + 1 \in 1..Len(events) /\ k + 1 \in 1..Len(events) /\ j + 1 < k + 1
      BY <2>2
    <3>2. Before(events[j + 1], events[k + 1])
      BY <3>1 DEF PoolInv, EventsInv
    <3> QED
      BY <1>3, <3>2
  <2>4. ASSUME NEW k \in 1..Len(events'), NEW x, x = events'[k].of
        PROVE  /\ x \in Sessions /\ ~Fresh(x)' /\ NotAsked(x)'
               /\ events'[k].type = "state" => \A t \in Sessions : x <= t => ~HasState(t)'
    <3>0. /\ x = events[k + 1].of /\ k + 1 \in 1..Len(events) /\ 1 \in 1..Len(events) /\ 1 < k + 1
          /\ events'[k] = events[k + 1]
      BY <1>3, <2>2, <2>4
    <3>1. /\ x \in Sessions /\ ~Fresh(x) /\ NotAsked(x) /\ Before(events[1], events[k + 1])
          /\ events'[k].type = "state" => \A t \in Sessions : x <= t => ~HasState(t)
      BY <2>1, <3>0 DEF PoolInv, EventsInv
    <3>2. x # s
      <4>1. s < x
        BY <1>3, <3>0, <3>1 DEF Before
      <4> QED
        BY <1>2, <3>1, <4>1, PoolAssumption
    <3> QED
      BY <1>5, <3>1, <3>2
  <2> QED
    BY <2>3, <2>4, EventsAre
<1>9. DigestsInv'
  <2>1. \A t \in asked' : NotAnswered(t)'
    BY <1>1, <1>2, <1>5, <1>6 DEF PoolInv, DigestsInv, PoolTypes, NotAsked
  <2> QED
    BY <1>1, <2>1 DEF PoolInv, DigestsInv, Digest
<1>10. LeavingInv' /\ NamesInv'
  BY <1>1, <1>2, <1>5 DEF PoolInv, LeavingInv, NamesInv
<1>11. EntriesInv' /\ LastPooled'
  BY <1>1, <1>2 DEF PoolInv, EntriesInv, ResumedOnce, LastPooled, Digest, Same, Refused
<1> QED
  BY <1>4, <1>7, <1>8, <1>9, <1>10, <1>11 DEF PoolInv

(* The pool without the expired.                                           *)
LEMMA ExpireIs ==
  ASSUME PoolTypes, EntriesInv
  PROVE  /\ CP!Expire \in Seq([m_client : Sessions, m_dtime : Nat])
         /\ \A j, k \in 1..Len(CP!Expire) : CP!Expire[j].m_client = CP!Expire[k].m_client => j = k
         /\ \A k \in 1..Len(CP!Expire) :
              /\ \E i \in 1..Len(m_dclients) : CP!Expire[k] = m_dclients[i]
              /\ CP!Expire[k].m_client \notin CP!ExpiredClients
              /\ dwTimeGlobal - CP!Expire[k].m_dtime <= g_sv_Client_Reconnect_Time
         /\ CP!ExpiredClients \subseteq Pooled
<1> DEFINE E == [m_client : Sessions, m_dtime : Nat]
           T == {d \in ToSet(m_dclients) : ~CP!Expired(d)}
           N == Len(m_dclients)
           r == Filtered(m_dclients, T)
<1>1. m_dclients \in Seq(E) /\ N \in Nat /\ DOMAIN m_dclients = 1..N
  BY DEF PoolTypes
<1>2. CP!Expire = r
  BY DEF CP!Expire, CP!Filtered, Filtered, CP!Scan, Scan, CP!ToSet, ToSet
<1> HIDE DEF E, T, r
<1>3. r \in Seq(E) /\ \E e : Picks(e, r, m_dclients, T, N)
  BY <1>1, FilteredPicks DEF r
<1>4. PICK e : Picks(e, r, m_dclients, T, N)
  BY <1>3
<1>5. /\ \A k \in 1..Len(r) : e[k] \in 1..N /\ r[k] = m_dclients[e[k]] /\ r[k] \in T
      /\ Len(r) \in Nat /\ \A j, k \in 1..Len(r) : j < k => e[j] < e[k]
  BY <1>3, <1>4 DEF Picks, Increasing
<1>6. \A j, k \in 1..N : m_dclients[j].m_client = m_dclients[k].m_client => j = k
  BY DEF EntriesInv
<1>7. \A j, k \in 1..Len(r) : r[j].m_client = r[k].m_client => j = k
  <2> SUFFICES ASSUME NEW j \in 1..Len(r), NEW k \in 1..Len(r), r[j].m_client = r[k].m_client
               PROVE  j = k
    OBVIOUS
  <2>1. e[j] = e[k] /\ e[j] \in Nat
    BY <1>1, <1>5, <1>6
  <2> QED
    BY <1>5, <2>1
<1>8. /\ \A k \in 1..Len(r) : ~CP!Expired(r[k])
      /\ \A c : c \in CP!ExpiredClients <=>
                 \E i \in 1..N : c = m_dclients[i].m_client /\ CP!Expired(m_dclients[i])
  BY <1>1, <1>5 DEF T, CP!ExpiredClients
<1>9. \A k \in 1..Len(r) : r[k].m_client \notin CP!ExpiredClients
  <2> SUFFICES ASSUME NEW k \in 1..Len(r), r[k].m_client \in CP!ExpiredClients PROVE FALSE
    OBVIOUS
  <2>1. PICK i \in 1..N : r[k].m_client = m_dclients[i].m_client /\ CP!Expired(m_dclients[i])
    BY <1>8
  <2>2. i = e[k]
    BY <1>5, <1>6, <2>1
  <2> QED
    BY <1>5, <1>8, <2>1, <2>2
<1>10. \A k \in 1..Len(r) : dwTimeGlobal - r[k].m_dtime <= g_sv_Client_Reconnect_Time
  <2>1. \A d \in E : d.m_dtime \in Nat
    BY DEF E
  <2>2. \A k \in 1..Len(r) : r[k].m_dtime \in Nat
    BY <1>3, <2>1, SeqMembers
  <2>3. dwTimeGlobal \in Nat /\ g_sv_Client_Reconnect_Time \in Nat
    BY PoolAssumption DEF PoolTypes
  <2> QED
    BY <1>8, <2>2, <2>3 DEF CP!Expired
<1>11. CP!ExpiredClients \subseteq Pooled
  BY <1>1, <1>8 DEF Pooled
<1> QED
  BY <1>2, <1>3, <1>5, <1>7, <1>9, <1>10, <1>11 DEF E

(* What happens when the digest of s is handled: he gets the state of r,   *)
(* or of nobody.                                                           *)
Answered(s, r) ==
  /\ s \in Sessions /\ r \in Pooled \cup {Nobody}
  /\ answers # <<>> /\ s = Head(answers) /\ answers' = Tail(answers)
  /\ UNCHANGED <<registered, leaving, leftAt, events, asked>>
  /\ UNCHANGED <<g_sv_Client_Reconnect_Time, dwTimeGlobal>>
  /\ client' \in [Sessions -> [player : Players \cup {Nobody}, name : Names \cup {NoName},
                               m_cdkey_digest : BOOLEAN, resumed : Sessions \cup {Nobody},
                               refused : BOOLEAN]]
  /\ \A t \in Sessions :
       /\ client'[t].player = client[t].player /\ client'[t].name = client[t].name
       /\ client[t].refused => client'[t].refused
       /\ t # s => /\ client'[t].m_cdkey_digest = client[t].m_cdkey_digest
                   /\ client'[t].resumed = client[t].resumed
  /\ client'[s].resumed = r
  /\ client'[s].m_cdkey_digest =>
       /\ s \in registered
       /\ client'[s].refused \/ Refused(client[s].player) \/ \A u \in Pooled' : ~Same(s, u)
  /\ ~client'[s].m_cdkey_digest => r = Nobody
  /\ m_dclients' \in Seq([m_client : Sessions, m_dtime : Nat])
  /\ \A j, k \in 1..Len(m_dclients') : m_dclients'[j].m_client = m_dclients'[k].m_client => j = k
  /\ \A k \in 1..Len(m_dclients') : \E i \in 1..Len(m_dclients) : m_dclients'[k] = m_dclients[i]
  /\ deleted \subseteq deleted' /\ deleted' \subseteq deleted \cup Pooled /\ Pooled' \cap deleted' = {}
  /\ r # Nobody => r \in deleted' /\ Same(s, r)
                   /\ dwTimeGlobal - leftAt[r] <= g_sv_Client_Reconnect_Time

(* He is in the list, so not in the pool; of those in the pool who are the *)
(* same as he, none is left unless the player has been turned away.        *)
LEMMA AnsweredKeeps ==
  ASSUME PoolInv, NEW s, NEW r, Answered(s, r)
  PROVE  PoolInv'
<1>1. /\ s \in Sessions /\ r \in Pooled \cup {Nobody}
      /\ UNCHANGED <<registered, leaving, leftAt, events, asked>>
      /\ UNCHANGED <<g_sv_Client_Reconnect_Time, dwTimeGlobal>>
  BY DEF Answered
<1>2. PoolTypes /\ Pooled \subseteq Sessions /\ Pooled \cap (deleted \cup registered) = {}
  BY PooledIs DEF PoolInv, PoolTypes, Pooled
<1>3. \A t \in Sessions :
        /\ client'[t].player = client[t].player /\ client'[t].name = client[t].name
        /\ client[t].refused => client'[t].refused
        /\ t # s => /\ client'[t].m_cdkey_digest = client[t].m_cdkey_digest
                    /\ client'[t].resumed = client[t].resumed
  BY DEF Answered
<1>4. Pooled' \subseteq Pooled
  <2>1. /\ \A x : x \in Pooled' <=> \E k \in 1..Len(m_dclients') : m_dclients'[k].m_client = x
        /\ \A x : x \in Pooled <=> \E k \in 1..Len(m_dclients) : m_dclients[k].m_client = x
    BY <1>2, PooledIs DEF Answered, PoolTypes, Pooled
  <2>2. \A k \in 1..Len(m_dclients') : \E i \in 1..Len(m_dclients) : m_dclients'[k] = m_dclients[i]
    BY DEF Answered
  <2> QED
    BY <2>1, <2>2
<1>5. deleted \subseteq deleted' /\ deleted' \subseteq deleted \cup Pooled /\ Pooled' \cap deleted' = {}
  BY DEF Answered
<1>6. /\ answers' \in Seq(Sessions) /\ Len(answers') = Len(answers) - 1 /\ Len(answers) \in Nat \ {0}
      /\ answers[1] = s /\ \A k \in 1..Len(answers') : answers'[k] = answers[k + 1]
  <2>1. answers \in Seq(Sessions) /\ answers # <<>> /\ s = Head(answers) /\ answers' = Tail(answers)
    BY <1>2 DEF Answered, PoolTypes
  <2> QED
    BY <2>1, TailIs
<1>7. /\ 1 \in 1..Len(answers)
      /\ \A k \in 1..Len(answers') : k + 1 \in 1..Len(answers) /\ k + 1 # 1
  BY <1>6
<1>8. \A t \in Sessions :
        /\ NotAnswered(t) => t # s /\ NotAnswered(t)'
        /\ NotAsked(t) => t # s /\ NotAsked(t)'
        /\ Fresh(t)' = Fresh(t) /\ HasState(t)' = HasState(t)
  <2>1. \A t \in Sessions : NotAnswered(t) => t # s /\ NotAnswered(t)'
    BY <1>3, <1>6, <1>7 DEF NotAnswered, Digest
  <2> QED
    BY <1>1, <1>3, <2>1 DEF NotAsked, Fresh, HasState
<1>9. PoolTypes'
  BY <1>1, <1>2, <1>4, <1>5, <1>6 DEF PoolTypes, Answered
<1>10. NewSessions'
  BY <1>1, <1>4, <1>5, <1>8 DEF PoolInv, NewSessions
<1>11. EventsInv'
  <2>1. \A k \in 1..Len(events) : events[k].of \in Sessions
    BY <1>2, EventTypes DEF PoolTypes
  <2> QED
    BY <1>1, <1>8, <2>1, EventsAre DEF PoolInv, EventsInv
<1>12. DigestsInv'
  <2>1. \A k \in 1..Len(answers') : answers'[k] \in Sessions \ {s} /\ ~client[answers'[k]].m_cdkey_digest
    BY <1>6, <1>7 DEF PoolInv, DigestsInv, Digest
  <2>2. \A k \in 1..Len(answers') : ~client'[answers'[k]].m_cdkey_digest
    BY <1>3, <2>1
  <2>3. \A j, k \in 1..Len(answers') : answers'[j] = answers'[k] => j = k
    BY <1>6, <1>7 DEF PoolInv, DigestsInv
  <2>4. \A t \in asked' : NotAnswered(t)'
    BY <1>1, <1>2, <1>8 DEF PoolInv, DigestsInv, PoolTypes
  <2>5. \A t \in Sessions : ~client'[t].m_cdkey_digest => client'[t].resumed = Nobody
    BY <1>3 DEF PoolInv, DigestsInv, Digest, Answered
  <2> QED
    BY <2>2, <2>3, <2>4, <2>5 DEF DigestsInv, Digest
<1>13. LeavingInv' /\ NamesInv'
  BY <1>1, <1>3, <1>4, <1>5, <1>8 DEF PoolInv, LeavingInv, NamesInv
<1>14. EntriesInv'
  <2>1. \A k \in 1..Len(m_dclients') : leftAt'[m_dclients'[k].m_client] = m_dclients'[k].m_dtime
    BY <1>1 DEF PoolInv, EntriesInv, Answered
  <2>2. r # Nobody => r \in deleted' /\ r \notin deleted
    BY <1>1, <1>2 DEF Answered
  <2>3. client'[s].resumed = r
    BY DEF Answered
  <2>4. \A t \in Sessions : client'[t].resumed \in deleted' \cup {Nobody}
    BY <1>3, <1>5, <2>2, <2>3 DEF PoolInv, EntriesInv
  <2>5. ResumedOnce'
    BY <1>1, <1>3, <2>2, <2>3 DEF PoolInv, EntriesInv, ResumedOnce
  <2> QED
    BY <2>1, <2>4, <2>5 DEF EntriesInv, Answered
<1>15. LastPooled'
  <2>1. \A q : Refused(q) => Refused(q)'
    BY <1>3 DEF Refused
  <2>2. ASSUME NEW t \in Sessions, NEW u \in Sessions, t < u, Digest(t)', Same(t, u)', t \in Pooled'
        PROVE  \E q : q = client'[t].player /\ Refused(q)'
    <3>1. CASE t # s /\ u # s
      <4>1. Digest(t) /\ Same(t, u) /\ client'[t].player = client[t].player
        BY <1>3, <2>2, <3>1 DEF Same, Digest
      <4> QED
        BY <1>4, <2>1, <2>2, <4>1 DEF PoolInv, LastPooled
    <3>2. CASE t = s
      BY <1>2, <1>4, <2>2, <3>2 DEF Answered, Digest
    <3>3. CASE t # s /\ u = s
      <4>1. Same(s, t) /\ client'[t].player = client[s].player /\ client'[s].m_cdkey_digest
        BY <1>3, <2>2, <3>3 DEF Same, Digest
      <4>2. client'[s].refused \/ Refused(client[s].player)
        BY <2>2, <4>1 DEF Answered
      <4>3. client'[s].refused => \E q : q = client[s].player /\ Refused(q)'
        BY <1>1, <1>3 DEF Refused
      <4> QED
        BY <2>1, <4>1, <4>2, <4>3
    <3> QED
      BY <3>1, <3>2, <3>3
  <2> QED
    BY <2>2, LastPooledIs
<1> QED
  BY <1>9, <1>10, <1>11, <1>12, <1>13, <1>14, <1>15 DEF PoolInv

(* The pool that is left when what is in R has been taken out of it: some  *)
(* of the expired pool, whose clients are kept apart from the deleted.     *)
LEMMA TakenPool ==
  ASSUME PoolInv, NEW R, R \subseteq Pooled,
         NEW q \in Seq([m_client : Sessions, m_dtime : Nat]), m_dclients' = q,
         \A j, k \in 1..Len(q) : q[j].m_client = q[k].m_client => j = k,
         \A k \in 1..Len(q) : /\ \E i \in 1..Len(CP!Expire) : q[k] = CP!Expire[i]
                              /\ q[k].m_client \notin R,
         deleted' = deleted \cup CP!ExpiredClients \cup R
  PROVE  /\ m_dclients' \in Seq([m_client : Sessions, m_dtime : Nat])
         /\ \A j, k \in 1..Len(m_dclients') : m_dclients'[j].m_client = m_dclients'[k].m_client => j = k
         /\ \A k \in 1..Len(m_dclients') : \E i \in 1..Len(m_dclients) : m_dclients'[k] = m_dclients[i]
         /\ deleted \subseteq deleted' /\ deleted' \subseteq deleted \cup Pooled
         /\ Pooled' \cap deleted' = {}
<1>1. PoolTypes /\ EntriesInv
  BY DEF PoolInv
<1>2. /\ \A k \in 1..Len(CP!Expire) :
              /\ \E i \in 1..Len(m_dclients) : CP!Expire[k] = m_dclients[i]
              /\ CP!Expire[k].m_client \notin CP!ExpiredClients
      /\ CP!ExpiredClients \subseteq Pooled
  BY <1>1, ExpireIs
<1>3. \A k \in 1..Len(q) : /\ \E i \in 1..Len(m_dclients) : q[k] = m_dclients[i]
                           /\ q[k].m_client \notin CP!ExpiredClients \cup R
  <2> SUFFICES ASSUME NEW k \in 1..Len(q)
               PROVE  /\ \E i \in 1..Len(m_dclients) : q[k] = m_dclients[i]
                      /\ q[k].m_client \notin CP!ExpiredClients \cup R
    OBVIOUS
  <2>1. PICK i \in 1..Len(CP!Expire) : q[k] = CP!Expire[i]
    OBVIOUS
  <2>2. q[k].m_client \notin R
    OBVIOUS
  <2>3. /\ \E j \in 1..Len(m_dclients) : CP!Expire[i] = m_dclients[j]
        /\ CP!Expire[i].m_client \notin CP!ExpiredClients
    BY <1>2
  <2> QED
    BY <2>1, <2>2, <2>3
<1>4. \A x : x \in Pooled' <=> \E k \in 1..Len(q) : q[k].m_client = x
  BY PooledIs DEF Pooled
<1>5. \A x : x \in Pooled <=> \E k \in 1..Len(m_dclients) : m_dclients[k].m_client = x
  BY <1>1, PooledIs DEF Pooled, PoolTypes
<1>6. Pooled' \subseteq Pooled /\ Pooled' \cap (CP!ExpiredClients \cup R) = {}
  <2> SUFFICES ASSUME NEW x \in Pooled'
               PROVE  x \in Pooled /\ x \notin CP!ExpiredClients \cup R
    OBVIOUS
  <2>1. PICK k \in 1..Len(q) : q[k].m_client = x
    BY <1>4
  <2>2. PICK i \in 1..Len(m_dclients) : q[k] = m_dclients[i]
    BY <1>3
  <2> QED
    BY <1>3, <1>5, <2>1, <2>2
<1>7. Pooled \cap deleted = {}
  BY <1>1 DEF PoolTypes
<1>8. deleted \subseteq deleted' /\ deleted' \subseteq deleted \cup Pooled /\ Pooled' \cap deleted' = {}
  <2>1. CP!ExpiredClients \subseteq Pooled /\ R \subseteq Pooled
    BY <1>2
  <2>2. deleted' = deleted \cup CP!ExpiredClients \cup R
    OBVIOUS
  <2> QED
    BY <1>6, <1>7, <2>1, <2>2
<1>9. \A k \in 1..Len(q) : \E i \in 1..Len(m_dclients) : q[k] = m_dclients[i]
  BY <1>3
<1> QED
  BY <1>8, <1>9

(* He is let in, and takes the first entry that fits, if there is one.     *)
LEMMA TakenIs ==
  ASSUME PoolInv, answers # <<>>, answers' = Tail(answers),
         NEW s, s = Head(answers), s \in registered,
         CP!Taken(s, CP!Expire, {k \in DOMAIN CP!Expire : CP!Finder(s, CP!Expire[k])}),
         UNCHANGED <<registered, leaving, leftAt, events, asked>>,
         UNCHANGED <<g_sv_Client_Reconnect_Time, dwTimeGlobal>>
  PROVE  \E r : Answered(s, r)
<1> DEFINE q == CP!Expire
           ks == {k \in DOMAIN q : CP!Finder(s, q[k])}
           r == IF ks = {} THEN Nobody ELSE q[Min(ks)].m_client
<1>1. PoolTypes /\ EntriesInv /\ s \in Sessions
  BY DEF PoolInv, PoolTypes
<1>2. /\ q \in Seq([m_client : Sessions, m_dtime : Nat])
      /\ \A j, k \in 1..Len(q) : q[j].m_client = q[k].m_client => j = k
      /\ \A k \in 1..Len(q) :
           /\ \E i \in 1..Len(m_dclients) : q[k] = m_dclients[i]
           /\ q[k].m_client \notin CP!ExpiredClients
           /\ dwTimeGlobal - q[k].m_dtime <= g_sv_Client_Reconnect_Time
      /\ CP!ExpiredClients \subseteq Pooled
  BY <1>1, ExpireIs
<1>3. DOMAIN q = 1..Len(q) /\ Len(q) \in Nat
  BY <1>2
<1>4. \A k \in 1..Len(q) : q[k].m_client \in Pooled /\ q[k].m_client \in Sessions
  <2>1. \A x : x \in Pooled <=> \E k \in 1..Len(m_dclients) : m_dclients[k].m_client = x
    BY <1>1, PooledIs DEF Pooled, PoolTypes
  <2> QED
    BY <1>2, <2>1, PooledIs
<1>5. \A k \in 1..Len(q) : k \in ks <=> Same(s, q[k].m_client)
  BY <1>3 DEF CP!Finder, Same
<1>6. \A S : CP!Min(S) = Min(S)
  BY DEF CP!Min, Min
<1>7. /\ client' = [client EXCEPT ![s].m_cdkey_digest = TRUE, ![s].resumed = r]
      /\ deleted' = deleted \cup CP!ExpiredClients \cup ({r} \ {Nobody})
      /\ m_dclients' = IF ks = {} THEN q ELSE CP!RemoveAt(q, Min(ks))
  BY <1>6 DEF CP!Taken, CP!Resumed, CP!Nobody, Nobody
<1>8. Nobody \notin Sessions
  BY PoolAssumption DEF Nobody
<1>9. ks # {} => /\ Min(ks) \in 1..Len(q) /\ r = q[Min(ks)].m_client
                 /\ r \in Pooled /\ r \in Sessions /\ r # Nobody /\ Same(s, r)
                 /\ dwTimeGlobal - leftAt[r] <= g_sv_Client_Reconnect_Time
  <2> SUFFICES ASSUME ks # {} PROVE /\ Min(ks) \in 1..Len(q) /\ q[Min(ks)].m_client \in Pooled
                                    /\ q[Min(ks)].m_client \in Sessions /\ Same(s, q[Min(ks)].m_client)
                                    /\ dwTimeGlobal - leftAt[q[Min(ks)].m_client] <= g_sv_Client_Reconnect_Time
    BY <1>8
  <2>1. Min(ks) \in ks
    <3>1. ks \in SUBSET Nat
      BY <1>3
    <3> HIDE DEF ks
    <3> QED
      BY <3>1, MinOfNats
  <2>2. Min(ks) \in 1..Len(q)
    BY <1>3, <2>1
  <2>3. \A k \in 1..Len(m_dclients) : leftAt[m_dclients[k].m_client] = m_dclients[k].m_dtime
    BY <1>1 DEF EntriesInv
  <2>4. leftAt[q[Min(ks)].m_client] = q[Min(ks)].m_dtime
    <3> HIDE DEF q, ks
    <3>1. PICK i \in 1..Len(m_dclients) : q[Min(ks)] = m_dclients[i]
      BY <1>2, <2>2
    <3> QED
      BY <2>3, <3>1
  <2> QED
    BY <1>2, <1>4, <1>5, <2>1, <2>2, <2>4
<1> HIDE DEF q, r, ks
<1>10. r \in Pooled \cup {Nobody} /\ (r # Nobody <=> ks # {})
  BY <1>9 DEF r
<1>11. /\ client' \in [Sessions -> [player : Players \cup {Nobody}, name : Names \cup {NoName},
                                    m_cdkey_digest : BOOLEAN, resumed : Sessions \cup {Nobody},
                                    refused : BOOLEAN]]
       /\ \A t \in Sessions :
            /\ client'[t].player = client[t].player /\ client'[t].name = client[t].name
            /\ client'[t].refused = client[t].refused
            /\ t # s => /\ client'[t].m_cdkey_digest = client[t].m_cdkey_digest
                        /\ client'[t].resumed = client[t].resumed
       /\ client'[s].resumed = r /\ client'[s].m_cdkey_digest
  <2> DEFINE C == [player : Players \cup {Nobody}, name : Names \cup {NoName},
                   m_cdkey_digest : BOOLEAN, resumed : Sessions \cup {Nobody}, refused : BOOLEAN]
             c == [client[s] EXCEPT !.m_cdkey_digest = TRUE, !.resumed = r]
  <2>1. client \in [Sessions -> C] /\ client[s] \in C
    BY <1>1 DEF PoolTypes
  <2>2. r \in Sessions \cup {Nobody}
    BY <1>9, <1>10
  <2>3. c \in C /\ c.player = client[s].player /\ c.resumed = r /\ c.name = client[s].name
        /\ c.m_cdkey_digest = TRUE /\ c.refused = client[s].refused
    BY <2>1, <2>2
  <2>4. client' = [client EXCEPT ![s] = c]
    BY <1>7, <2>1
  <2> HIDE DEF c, C
  <2> QED
    BY <1>1, <2>1, <2>3, <2>4 DEF C
<1>12. \E p \in Seq([m_client : Sessions, m_dtime : Nat]) :
         /\ m_dclients' = p
         /\ \A j, k \in 1..Len(p) : p[j].m_client = p[k].m_client => j = k
         /\ \A k \in 1..Len(p) : \E i \in 1..Len(q) : p[k] = q[i] /\ q[i].m_client # r
  <2>1. CASE ks = {}
    <3>1. r = Nobody /\ m_dclients' = q
      BY <1>7, <2>1 DEF r
    <3>2. \A k \in 1..Len(q) : q[k].m_client # r
      BY <1>4, <1>8, <3>1
    <3>3. \A k \in 1..Len(q) : \E i \in 1..Len(q) : q[k] = q[i] /\ q[i].m_client # r
      BY <3>2
    <3> QED
      BY <1>2, <3>1, <3>3
  <2>2. CASE ks # {}
    <3> DEFINE i == Min(ks)
               p == RemoveAt(q, i)
               E == [m_client : Sessions, m_dtime : Nat]
    <3>1. i \in 1..Len(q) /\ r = q[i].m_client /\ q \in Seq(E)
      BY <1>2, <1>9, <2>2
    <3>2. m_dclients' = p
      BY <1>7, <2>2 DEF CP!RemoveAt, RemoveAt
    <3> HIDE DEF i, p, E
    <3>3. /\ p \in Seq(E) /\ Len(p) = Len(q) - 1
          /\ \A j \in 1..(Len(q) - 1) : p[j] = IF j < i THEN q[j] ELSE q[j + 1]
      BY <3>1, RemoveAtProperties DEF p
    <3>4. \A j \in 1..Len(p) : \E m \in 1..Len(q) :
            m = (IF j < i THEN j ELSE j + 1) /\ p[j] = q[m] /\ m # i
      BY <1>3, <3>1, <3>3
    <3>5. \A j, k \in 1..Len(p) : p[j].m_client = p[k].m_client => j = k
      <4> SUFFICES ASSUME NEW j \in 1..Len(p), NEW k \in 1..Len(p), p[j].m_client = p[k].m_client
                   PROVE  j = k
        OBVIOUS
      <4>1. PICK m \in 1..Len(q) : m = (IF j < i THEN j ELSE j + 1) /\ p[j] = q[m]
        BY <3>4
      <4>2. PICK n \in 1..Len(q) : n = (IF k < i THEN k ELSE k + 1) /\ p[k] = q[n]
        BY <3>4
      <4>3. m = n
        BY <1>2, <4>1, <4>2
      <4> QED
        BY <1>3, <3>1, <4>1, <4>2, <4>3
    <3>6. \A k \in 1..Len(p) : \E m \in 1..Len(q) : p[k] = q[m] /\ q[m].m_client # r
      BY <1>2, <3>1, <3>4
    <3> QED
      BY <3>2, <3>3, <3>5, <3>6 DEF E
  <2> QED
    BY <2>1, <2>2
<1>13. PICK p \in Seq([m_client : Sessions, m_dtime : Nat]) :
         /\ m_dclients' = p
         /\ \A j, k \in 1..Len(p) : p[j].m_client = p[k].m_client => j = k
         /\ \A k \in 1..Len(p) : \E i \in 1..Len(q) : p[k] = q[i] /\ q[i].m_client # r
  BY <1>12
<1>14. /\ m_dclients' \in Seq([m_client : Sessions, m_dtime : Nat])
       /\ \A j, k \in 1..Len(m_dclients') : m_dclients'[j].m_client = m_dclients'[k].m_client => j = k
       /\ \A k \in 1..Len(m_dclients') : \E i \in 1..Len(m_dclients) : m_dclients'[k] = m_dclients[i]
       /\ deleted \subseteq deleted' /\ deleted' \subseteq deleted \cup Pooled
       /\ Pooled' \cap deleted' = {}
  <2> DEFINE gone == {r} \ {Nobody}
  <2>1. gone \subseteq Pooled /\ deleted' = deleted \cup CP!ExpiredClients \cup gone
    BY <1>7, <1>10
  <2>2. \A k \in 1..Len(p) : (\E i \in 1..Len(CP!Expire) : p[k] = CP!Expire[i]) /\ p[k].m_client \notin gone
    BY <1>13 DEF q
  <2> HIDE DEF gone
  <2> QED
    BY <1>13, <2>1, <2>2, TakenPool
<1>15. Refused(client[s].player) \/ \A u \in Pooled' : ~Same(s, u)
  <2> SUFFICES ASSUME NEW u \in Pooled', Same(s, u) PROVE Refused(client[s].player)
    OBVIOUS
  <2>1. PICK k \in 1..Len(p) : p[k].m_client = u
    BY <1>13, PooledIs DEF Pooled
  <2>2. PICK i \in 1..Len(q) : p[k] = q[i] /\ q[i].m_client # r
    BY <1>13
  <2>3. i \in ks /\ u \in Pooled /\ u \in Sessions /\ u # r
    BY <1>4, <1>5, <2>1, <2>2
  <2>4. r \in Pooled /\ r \in Sessions /\ Same(s, r)
    BY <1>9, <2>3
  <2>5. u < r \/ r < u
    BY <2>3, <2>4, PoolAssumption
  <2> QED
    BY <2>3, <2>4, <2>5 DEF PoolInv, LastPooled, Same, Digest
<1> QED
  BY <1>1, <1>7, <1>9, <1>10, <1>11, <1>14, <1>15 DEF Answered

(* Whatever comes of his digest (he is let in, turned away or gone         *)
(* already) is of the kind Answered.                                       *)
LEMMA ProcessIs ==
  ASSUME PoolInv, CP!ProcessClientDigest
  PROVE  \E s, r : Answered(s, r)
<1> DEFINE s == Head(answers)
<1>1. /\ answers # <<>> /\ answers' = Tail(answers)
      /\ UNCHANGED <<registered, leaving, leftAt, events, asked>>
      /\ UNCHANGED <<g_sv_Client_Reconnect_Time, dwTimeGlobal>>
  BY DEF CP!ProcessClientDigest, CP!clock
<1>2. PoolTypes /\ EntriesInv /\ DigestsInv
  BY DEF PoolInv
<1>3. s \in Sessions /\ ~client[s].m_cdkey_digest /\ client[s].resumed = Nobody
  <2>1. answers \in Seq(Sessions) /\ answers # <<>>
    BY <1>1, <1>2 DEF PoolTypes
  <2>2. s = answers[1] /\ 1 \in 1..Len(answers) /\ s \in Sessions
    BY <2>1
  <2> QED
    BY <1>2, <2>2 DEF DigestsInv, Digest
<1>4. CASE s \in registered /\ CP!Taken(s, CP!Expire, {k \in DOMAIN CP!Expire : CP!Finder(s, CP!Expire[k])})
  BY <1>1, <1>4, TakenIs
<1> DEFINE C == [player : Players \cup {Nobody}, name : Names \cup {NoName},
                 m_cdkey_digest : BOOLEAN, resumed : Sessions \cup {Nobody}, refused : BOOLEAN]
<1>5. client \in [Sessions -> C] /\ client[s] \in C
  BY <1>2, <1>3 DEF PoolTypes
<1>6. ASSUME UNCHANGED <<m_dclients, deleted>>
      PROVE  /\ m_dclients' \in Seq([m_client : Sessions, m_dtime : Nat])
             /\ \A j, k \in 1..Len(m_dclients') : m_dclients'[j].m_client = m_dclients'[k].m_client => j = k
             /\ \A k \in 1..Len(m_dclients') : \E i \in 1..Len(m_dclients) : m_dclients'[k] = m_dclients[i]
             /\ deleted \subseteq deleted' /\ deleted' \subseteq deleted \cup Pooled
             /\ Pooled' \cap deleted' = {}
  <2>1. m_dclients' = m_dclients /\ deleted' = deleted
    BY <1>6
  <2>2. /\ m_dclients \in Seq([m_client : Sessions, m_dtime : Nat])
        /\ \A j, k \in 1..Len(m_dclients) : m_dclients[j].m_client = m_dclients[k].m_client => j = k
        /\ Pooled \cap deleted = {}
    BY <1>2 DEF PoolTypes, EntriesInv
  <2>3. \A k \in 1..Len(m_dclients) : \E i \in 1..Len(m_dclients) : m_dclients[k] = m_dclients[i]
    OBVIOUS
  <2>4. Pooled' = Pooled
    BY <2>1 DEF Pooled
  <2> QED
    BY <2>1, <2>2, <2>3, <2>4
<1>7. CASE /\ s \in registered
           /\ client' = [client EXCEPT ![s].m_cdkey_digest = TRUE, ![s].refused = TRUE]
           /\ UNCHANGED <<m_dclients, deleted>>
  <2> DEFINE c == [client[s] EXCEPT !.m_cdkey_digest = TRUE, !.refused = TRUE]
  <2>1. c \in C /\ c.player = client[s].player /\ c.resumed = client[s].resumed /\ c.name = client[s].name
        /\ c.m_cdkey_digest = TRUE /\ c.refused = TRUE
    BY <1>5
  <2>2. client' = [client EXCEPT ![s] = c]
    BY <1>5, <1>7
  <2> HIDE DEF c, C
  <2>3. /\ client' \in [Sessions -> C] /\ client'[s] = c
        /\ \A t \in Sessions : t # s => client'[t] = client[t]
    BY <1>3, <1>5, <2>1, <2>2
  <2>4. \A t \in Sessions : /\ client'[t].player = client[t].player /\ client'[t].name = client[t].name
                            /\ client[t].refused => client'[t].refused
    BY <2>1, <2>3
  <2>5. client'[s].resumed = Nobody /\ client'[s].m_cdkey_digest /\ client'[s].refused
    BY <1>3, <2>1, <2>3
  <2>6. Answered(s, Nobody)
    BY <1>1, <1>3, <1>6, <1>7, <2>3, <2>4, <2>5 DEF Answered, C
  <2> QED
    BY <2>6
<1>8. CASE s \notin registered /\ UNCHANGED <<client, m_dclients, deleted>>
  <2>1. Answered(s, Nobody)
    BY <1>1, <1>3, <1>5, <1>6, <1>8 DEF Answered
  <2> QED
    BY <2>1
<1> QED
  BY <1>4, <1>7, <1>8 DEF CP!ProcessClientDigest

(* PoolInv holds at the start, when nobody has joined.                     *)
LEMMA InitIs ==
  ASSUME CP!Init
  PROVE  PoolInv
<1> DEFINE c == [player |-> Nobody, name |-> NoName, m_cdkey_digest |-> FALSE,
                 resumed |-> Nobody, refused |-> FALSE]
           C == [player : Players \cup {Nobody}, name : Names \cup {NoName},
                 m_cdkey_digest : BOOLEAN, resumed : Sessions \cup {Nobody}, refused : BOOLEAN]
<1>1. /\ client = [s \in Sessions |-> c] /\ registered = {}
      /\ leaving = [of |-> Nobody, step |-> "erase"]
      /\ m_dclients = <<>> /\ deleted = {} /\ events = <<>> /\ answers = <<>> /\ asked = {}
      /\ g_sv_Client_Reconnect_Time \in ReconnectTimes /\ dwTimeGlobal = 0
      /\ leftAt = [s \in Sessions |-> 0]
  BY Bridge DEF CP!Init
<1>2. c \in C /\ c.player = Nobody /\ c.name = NoName /\ c.resumed = Nobody /\ ~c.m_cdkey_digest
  OBVIOUS
<1> HIDE DEF c
<1>3. client \in [Sessions -> C] /\ \A s \in Sessions : client[s] = c
  BY <1>1, <1>2
<1>4. Nobody \notin Sessions /\ Pooled = {}
  BY <1>1, PoolAssumption DEF Nobody, Pooled
<1>5. PoolTypes
  BY <1>1, <1>3, <1>4 DEF PoolTypes
<1>6. NewSessions
  BY <1>1, <1>2, <1>3, <1>4 DEF NewSessions, Fresh, HasState, NotAsked, NotAnswered, Digest
<1>7. EventsInv /\ LeavingInv
  BY <1>1, <1>4 DEF EventsInv, LeavingInv
<1>8. DigestsInv /\ NamesInv
  BY <1>1, <1>2, <1>3 DEF DigestsInv, NamesInv, HasState, Digest
<1>9. EntriesInv /\ LastPooled
  BY <1>1, <1>2, <1>3, <1>4 DEF EntriesInv, ResumedOnce, LastPooled
<1> QED
  BY <1>5, <1>6, <1>7, <1>8, <1>9 DEF PoolInv

(* Every step keeps it: one lemma above for each kind of step.             *)
LEMMA PoolStep ==
  ASSUME PoolInv, [CP!Next]_CP!vars
  PROVE  PoolInv'
<1> USE DEF CP!clock, CP!players, CP!messages
<1>1. PoolTypes
  BY DEF PoolInv
<1>2. CASE UNCHANGED CP!vars
  <2>1. /\ UNCHANGED <<client, registered, leaving, m_dclients, deleted, events, answers, asked, leftAt>>
        /\ UNCHANGED <<g_sv_Client_Reconnect_Time, dwTimeGlobal>>
    BY <1>2 DEF CP!vars
  <2> QED
    BY <1>1, <2>1, ClockKeeps DEF PoolTypes
<1>3. CASE CP!FindAndEraseClient
  <2>1. /\ leaving.of # Nobody /\ leaving.step = "erase" /\ registered' = registered \ {leaving.of}
        /\ leaving' = [leaving EXCEPT !.step = "pool"]
        /\ UNCHANGED <<client, leftAt, events, answers, asked, m_dclients, deleted>>
        /\ UNCHANGED <<g_sv_Client_Reconnect_Time, dwTimeGlobal>>
    BY <1>3, Bridge DEF CP!FindAndEraseClient
  <2>2. leaving.of \in registered /\ leaving.of \in Sessions
    BY <1>1, <2>1 DEF PoolInv, LeavingInv, PoolTypes
  <2>3. leaving' = [of |-> leaving.of, step |-> "pool"]
    BY <1>1, <2>1 DEF PoolTypes
  <2> QED
    BY <2>1, <2>2, <2>3, LeavingKeeps
<1>4. CASE \E s \in Sessions : CP!OnCL_Disconnected(s)
  <2>1. PICK s \in Sessions : CP!OnCL_Disconnected(s)
    BY <1>4
  <2>2. /\ s \in registered /\ leaving' = [of |-> s, step |-> "erase"] /\ registered' = registered
        /\ UNCHANGED <<client, leftAt, events, answers, asked, m_dclients, deleted>>
        /\ UNCHANGED <<g_sv_Client_Reconnect_Time, dwTimeGlobal>>
    BY <2>1 DEF CP!OnCL_Disconnected
  <2> QED
    BY <2>2, LeavingKeeps
<1>5. CASE CP!ProcessClientDigest
  BY <1>5, ProcessIs, AnsweredKeeps
<1>6. CASE CP!Tick
  <2>1. /\ dwTimeGlobal' = dwTimeGlobal + 1
        /\ UNCHANGED <<client, registered, leaving, m_dclients, deleted, events, answers, asked, leftAt>>
        /\ UNCHANGED g_sv_Client_Reconnect_Time
    BY <1>6 DEF CP!Tick
  <2> QED
    BY <1>1, <2>1, ClockKeeps DEF PoolTypes
<1>7. CASE \E t \in ReconnectTimes : CP!SetReconnectTime(t)
  <2>1. /\ g_sv_Client_Reconnect_Time' \in ReconnectTimes
        /\ UNCHANGED <<client, registered, leaving, m_dclients, deleted, events, answers, asked, leftAt>>
        /\ UNCHANGED dwTimeGlobal
    BY <1>7 DEF CP!SetReconnectTime
  <2> QED
    BY <1>1, <2>1, ClockKeeps DEF PoolTypes
<1>8. CASE \E s \in Sessions : CP!Receive(s)
  BY <1>8, ReceiveKeeps
<1>9. CASE \E s \in Sessions : \E p \in Players : CP!Join(s, p)
  BY <1>9, JoinKeeps
<1>10. CASE CP!Add \/ CP!OnRoundStart \/ CP!CreatePlayerState \/ CP!RequestClientDigest
  BY <1>10, AddKeeps, RoundKeeps, StateKeeps, RequestKeepsPool
<1> QED
  BY <1>2, <1>3, <1>4, <1>5, <1>6, <1>7, <1>8, <1>9, <1>10 DEF CP!Next

(* PoolInv holds in every state: who plays or leaves is not in the pool,   *)
(* events and digests arrive in their order, names are unique among those  *)
(* who play, and the last session of a player is the one whose entry       *)
(* stays.                                                                  *)
THEOREM PoolInductive == CP!Spec => []PoolInv
<1>1. CP!Init => PoolInv
  BY InitIs
<1>2. PoolInv /\ [CP!Next]_CP!vars => PoolInv'
  BY PoolStep
<1> QED
  BY <1>1, <1>2, PTL DEF CP!Spec

(* The types are kept, each state is resumed once, and a player who has    *)
(* never been turned away has one entry of a name at most: of two, the     *)
(* digest of the later one would have taken the earlier out of the pool.   *)
THEOREM EntriesAreSound == CP!Spec => []EntriesSound
<1>1. PoolInv => EntriesSound
  <2> SUFFICES ASSUME PoolInv PROVE EntriesSound
    OBVIOUS
  <2>1. /\ DOMAIN m_dclients = 1..Len(m_dclients)
        /\ \A k \in 1..Len(m_dclients) : m_dclients[k].m_client \in Pooled \cap Sessions
    <3>1. m_dclients \in Seq([m_client : Sessions, m_dtime : Nat])
      BY DEF PoolInv, PoolTypes
    <3>2. \A k \in 1..Len(m_dclients) : m_dclients[k].m_client \in Sessions
      BY <3>1, PooledIs
    <3>3. DOMAIN m_dclients = 1..Len(m_dclients)
      BY <3>1
    <3> QED
      BY <3>2, <3>3 DEF Pooled
  <2>2. ASSUME NEW j \in 1..Len(m_dclients), NEW k \in 1..Len(m_dclients),
               Same(m_dclients[j].m_client, m_dclients[k].m_client),
               client[m_dclients[j].m_client].m_cdkey_digest,
               ~Refused(client[m_dclients[j].m_client].player)
        PROVE  j = k
    <3> DEFINE s == m_dclients[j].m_client
               t == m_dclients[k].m_client
    <3>1. /\ s \in Pooled /\ t \in Pooled /\ s \in Sessions /\ t \in Sessions
          /\ Same(s, t) /\ Same(t, s) /\ Digest(s) /\ Digest(t) /\ client[t].player = client[s].player
          /\ ~Refused(client[s].player)
      BY <2>1, <2>2 DEF Same, Digest
    <3>2. s = t => j = k
      BY DEF PoolInv, EntriesInv
    <3> HIDE DEF s, t
    <3>3. ~(s < t) /\ ~(t < s)
      BY <3>1 DEF PoolInv, LastPooled
    <3>4. s = t
      BY <3>1, <3>3, PoolAssumption
    <3> QED
      BY <3>2, <3>4
  <2>3. OneEntryEach
    BY <2>1, <2>2 DEF OneEntryEach
  <2> QED
    BY <2>3 DEF PoolInv, EntriesInv, EntriesSound
<1> QED
  BY <1>1, PoolInductive, PTL

(* Who comes back gets the state of a session of his digest and name that  *)
(* left within the reconnect time, and of the last one: were there a later *)
(* one of his, its digest would have taken this entry before.              *)
THEOREM ResumesTheLatest == CP!Spec => LatestState
<1> DEFINE A == \A s \in Sessions : LET r == client'[s].resumed IN
                  r # client[s].resumed =>
                    /\ Same(s, r) /\ dwTimeGlobal - leftAt[r] <= g_sv_Client_Reconnect_Time
                    /\ \A t \in Sessions \ {s} : Same(s, t) => t <= r \/ Refused(client[s].player)
<1>1. ASSUME PoolInv, NEW s, NEW r, Answered(s, r) PROVE A
  <2>1. /\ PoolTypes /\ Pooled \subseteq Sessions /\ s \in Sessions /\ answers # <<>> /\ s = Head(answers)
        /\ r \in Pooled \cup {Nobody} /\ client'[s].resumed = r
        /\ \A t \in Sessions : t # s => client'[t].resumed = client[t].resumed
    BY <1>1, PooledIs DEF PoolInv, PoolTypes, Pooled, Answered
  <2>2. client[s].resumed = Nobody
    <3>1. answers \in Seq(Sessions)
      BY <2>1 DEF PoolTypes
    <3>2. s = answers[1] /\ 1 \in 1..Len(answers)
      BY <2>1, <3>1
    <3> QED
      BY <1>1, <2>1, <3>2 DEF PoolInv, DigestsInv, Digest
  <2>3. ASSUME r # Nobody
        PROVE  /\ Same(s, r) /\ dwTimeGlobal - leftAt[r] <= g_sv_Client_Reconnect_Time
               /\ \A t \in Sessions \ {s} : Same(s, t) => t <= r \/ Refused(client[s].player)
    <3>1. /\ Same(s, r) /\ dwTimeGlobal - leftAt[r] <= g_sv_Client_Reconnect_Time
          /\ r \in Pooled /\ r \in Sessions
      BY <1>1, <2>1, <2>3 DEF Answered
    <3>2. ASSUME NEW t \in Sessions, Same(s, t), ~(t <= r) PROVE Refused(client[s].player)
      <4>1. r < t /\ Digest(r) /\ Same(r, t) /\ client[r].player = client[s].player
        BY <3>1, <3>2, PoolAssumption DEF Same, Digest
      <4> QED
        BY <1>1, <3>1, <4>1 DEF PoolInv, LastPooled
    <3> QED
      BY <3>1, <3>2
  <2> QED
    BY <2>1, <2>2, <2>3
<1>2. ASSUME \A s \in Sessions : client'[s].resumed = client[s].resumed PROVE A
  BY <1>2
<1> HIDE DEF A
<1>3. PoolInv /\ [CP!Next]_CP!vars => [A]_client
  <2> SUFFICES ASSUME PoolInv, CP!Next, client' # client PROVE A
    BY DEF CP!vars, CP!players
  <2>1. PoolTypes
    BY DEF PoolInv
  <2>2. CASE CP!ProcessClientDigest
    BY <1>1, <2>2, ProcessIs
  <2>3. ASSUME NEW s \in Sessions, NEW p, \/ client' = [client EXCEPT ![s].player = p]
                                          \/ client' = [client EXCEPT ![s].name = p]
        PROVE  A
    <3> DEFINE C == [player : Players \cup {Nobody}, name : Names \cup {NoName},
                     m_cdkey_digest : BOOLEAN, resumed : Sessions \cup {Nobody}, refused : BOOLEAN]
    <3>1. client \in [Sessions -> C]
      BY <2>1 DEF PoolTypes
    <3>2. \A t \in Sessions : client'[t].resumed = client[t].resumed
      <4>1. client[s] \in C
        BY <3>1
      <4>2. /\ [client[s] EXCEPT !.player = p].resumed = client[s].resumed
            /\ [client[s] EXCEPT !.name = p].resumed = client[s].resumed
        BY <4>1
      <4> HIDE DEF C
      <4> QED
        BY <2>3, <3>1, <4>2
    <3> QED
      BY <1>2, <3>2
  <2>4. CASE CP!CreatePlayerState
    <3>1. Head(events).of \in Sessions
      BY <2>1, <2>4 DEF CP!CreatePlayerState, PoolTypes
    <3> QED
      BY <2>3, <2>4, <3>1 DEF CP!CreatePlayerState
  <2>5. CASE \E s \in Sessions : \E p \in Players : CP!Join(s, p)
    BY <2>3, <2>5 DEF CP!Join
  <2> QED
    BY <2>2, <2>4, <2>5 DEF CP!Next, CP!FindAndEraseClient, CP!Add, CP!RequestClientDigest,
       CP!OnRoundStart, CP!Tick, CP!Receive, CP!OnCL_Disconnected, CP!SetReconnectTime, CP!players
<1> QED
  BY <1>3, PoolInductive, PTL DEF CP!Spec, LatestState, A
=============================================================================
