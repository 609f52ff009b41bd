----------------------------- MODULE ClientsPool ----------------------------
(***************************************************************************)
(* The pool of disconnected clients (xrClientsPool).  A client who leaves  *)
(* is kept for some minutes; when the same player, by the digest of his    *)
(* key and his name, joins again, he gets the state of that client.  Each  *)
(* connection is a session with a client object of its own.  A player may  *)
(* join again before the server has noticed that his connection is lost.   *)
(***************************************************************************)
EXTENDS ClientsPoolState, FiniteSetsExt, SequencesExt, Subsequences

players == <<client, registered, leaving, leftAt>>
messages == <<events, answers, asked>>
clock == <<g_sv_Client_Reconnect_Time, dwTimeGlobal>>
vars == <<players, messages, m_dclients, deleted, clock>>

Init ==
  /\ client = [s \in Sessions |-> [player |-> Nobody, name |-> NoName, m_cdkey_digest |-> FALSE,
                                   resumed |-> Nobody, refused |-> FALSE]]
  /\ registered = {} /\ leaving = [of |-> Nobody, step |-> "erase"]
  /\ m_dclients = <<>> /\ deleted = {}
  /\ events = <<>> /\ answers = <<>> /\ asked = {}
  /\ g_sv_Client_Reconnect_Time \in ReconnectTimes /\ dwTimeGlobal = 0
  /\ leftAt = [s \in Sessions |-> 0]
-----------------------------------------------------------------------------
(* The network thread, which receives, registers and destroys clients.     *)
Network == leaving.of = Nobody

(* A player joins; his state and then his profile arrive.                  *)
Join(s, p) ==
  /\ Network /\ Fresh(s) /\ \A t \in Sessions : t < s => ~Fresh(t)
  /\ client' = [client EXCEPT ![s].player = p]
  /\ registered' = registered \cup {s}
  /\ events' = events \o <<[type |-> "state", of |-> s], [type |-> "auth", of |-> s]>>
  /\ UNCHANGED <<leaving, leftAt, answers, asked, m_dclients, deleted, clock>>

Receive(s) ==
  /\ Network /\ s \in asked \cap registered
  /\ asked' = asked \ {s} /\ answers' = Append(answers, s)
  /\ UNCHANGED <<players, events, m_dclients, deleted, clock>>

(* He leaves or his connection is lost: OnCL_Disconnected, then            *)
(* client_Destroy, which erases the client and adds him to the pool.       *)
OnCL_Disconnected(s) ==
  /\ Network /\ s \in registered /\ leaving' = [of |-> s, step |-> "erase"]
  /\ UNCHANGED <<client, registered, leftAt, messages, m_dclients, deleted, clock>>

FindAndEraseClient ==
  /\ leaving.of # Nobody /\ leaving.step = "erase"
  /\ registered' = registered \ {leaving.of} /\ leaving' = [leaving EXCEPT !.step = "pool"]
  /\ UNCHANGED <<client, leftAt, messages, m_dclients, deleted, clock>>

(* A client without a state is neither kept nor deleted.                   *)
Add ==
  /\ leaving.of # Nobody /\ leaving.step = "pool"
  /\ LET s == leaving.of IN
     /\ leftAt' = [leftAt EXCEPT ![s] = dwTimeGlobal]
     /\ deleted' = IF HasState(s) /\ g_sv_Client_Reconnect_Time = 0 THEN deleted \cup {s} ELSE deleted
     /\ m_dclients' = IF HasState(s) /\ g_sv_Client_Reconnect_Time # 0
                      THEN Append(m_dclients, [m_client |-> s, m_dtime |-> dwTimeGlobal])
                      ELSE m_dclients
  /\ leaving' = [of |-> Nobody, step |-> "erase"]
  /\ UNCHANGED <<client, registered, messages, clock>>
-----------------------------------------------------------------------------
(* The main thread.  CheckPlayerName numbers a name until it is free among *)
(* the registered clients.                                                 *)
CheckPlayerName(s) ==
  Min(Names \ {client[t].name : t \in registered \ {s}})

(* CREATE_PLAYER_STATE; the assertion of a client who has left ends the    *)
(* program.  The login follows, after which the digest is asked for.       *)
CreatePlayerState ==
  /\ events # <<>> /\ Head(events).type = "state" /\ Head(events).of \in registered
  /\ LET s == Head(events).of IN client' = [client EXCEPT ![s].name = CheckPlayerName(s)]
  /\ events' = Tail(events)
  /\ UNCHANGED <<registered, leaving, leftAt, answers, asked, m_dclients, deleted, clock>>

RequestClientDigest ==
  /\ events # <<>> /\ Head(events).type = "auth" /\ Head(events).of \in registered
  /\ asked' = asked \cup {Head(events).of} /\ events' = Tail(events)
  /\ UNCHANGED <<players, answers, m_dclients, deleted, clock>>

Expired(d) == dwTimeGlobal - d.m_dtime > g_sv_Client_Reconnect_Time
Expire == Filtered(m_dclients, {d \in ToSet(m_dclients) : ~Expired(d)})
ExpiredClients == {m_dclients[k].m_client : k \in {j \in DOMAIN m_dclients : Expired(m_dclients[j])}}

(* pooled_client_finder.  Mutant: the digest is not compared.              *)
Finder_name(s, d) == client[d.m_client].name = client[s].name

Finder(s, d) ==
  /\ client[d.m_client].m_cdkey_digest /\ client[d.m_client].player = client[s].player
  /\ client[d.m_client].name = client[s].name

(* Get and GetPooledState: the state of the first that fits is taken, his  *)
(* entry erased and the client deleted.  Mutant: the entry stays.          *)
Resumed(s, r) ==
  /\ client' = [client EXCEPT ![s].m_cdkey_digest = TRUE, ![s].resumed = r]
  /\ deleted' = deleted \cup ExpiredClients \cup ({r} \ {Nobody})

Taken_kept(s, pool, ks) ==
  /\ Resumed(s, IF ks = {} THEN Nobody ELSE pool[Min(ks)].m_client)
  /\ m_dclients' = pool

Taken(s, pool, ks) ==
  /\ Resumed(s, IF ks = {} THEN Nobody ELSE pool[Min(ks)].m_client)
  /\ m_dclients' = IF ks = {} THEN pool ELSE RemoveAt(pool, Min(ks))

(* ProcessClientDigest: the digest is kept and the pool asked for a state, *)
(* unless it is banned at the time (who is turned away leaves).            *)
ProcessClientDigest ==
  /\ answers # <<>> /\ answers' = Tail(answers)
  /\ LET s == Head(answers) IN
     \/ /\ s \in registered
        /\ Taken(s, Expire, {k \in DOMAIN Expire : Finder(s, Expire[k])})
     \/ /\ s \in registered
        /\ client' = [client EXCEPT ![s].m_cdkey_digest = TRUE, ![s].refused = TRUE]
        /\ UNCHANGED <<m_dclients, deleted>>
     \/ s \notin registered /\ UNCHANGED <<client, m_dclients, deleted>>
  /\ UNCHANGED <<registered, leaving, leftAt, events, asked, clock>>

(* OnRoundStart: the pool is cleared (the logins of this frame have been   *)
(* handled before; the others are still on their way).                     *)
OnRoundStart ==
  /\ deleted' = deleted \cup Pooled
  /\ m_dclients' = <<>>
  /\ UNCHANGED <<players, messages, clock>>

SetReconnectTime(t) ==
  /\ t # g_sv_Client_Reconnect_Time /\ g_sv_Client_Reconnect_Time' = t
  /\ UNCHANGED <<players, messages, m_dclients, deleted, dwTimeGlobal>>

(* A minute is longer than the main thread and the clients take.           *)
Tick ==
  /\ dwTimeGlobal < MaxTime /\ events = <<>> /\ answers = <<>> /\ Network
  /\ dwTimeGlobal' = dwTimeGlobal + 1
  /\ UNCHANGED <<players, messages, m_dclients, deleted, g_sv_Client_Reconnect_Time>>

Next ==
  \/ FindAndEraseClient \/ Add
  \/ CreatePlayerState \/ RequestClientDigest \/ ProcessClientDigest
  \/ OnRoundStart \/ Tick
  \/ \E s \in Sessions : Receive(s) \/ OnCL_Disconnected(s) \/ \E p \in Players : Join(s, p)
  \/ \E t \in ReconnectTimes : SetReconnectTime(t)

Spec == Init /\ [][Next]_vars
=============================================================================
