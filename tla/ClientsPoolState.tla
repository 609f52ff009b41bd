--------------------------- MODULE ClientsPoolState ---------------------------
(* The state of ClientsPool, and what is to hold of it.                    *)
EXTENDS Naturals, Sequences, FiniteSets

CONSTANTS
  Players,        \* each has a digest of his own; all want the same name
  Sessions,       \* the numbers of the connections, in their order
  ReconnectTimes, \* values of sv_client_reconnect_time, in minutes
  MaxTime         \* bound of the clock, in minutes

ASSUME PoolAssumption ==
  /\ Sessions \subseteq Nat \ {0} /\ IsFiniteSet(Sessions)
  /\ ReconnectTimes \subseteq Nat /\ ReconnectTimes # {} /\ MaxTime \in Nat
  /\ 0 \notin Players

VARIABLES
  client,      \* xrClientData of each session, and whether he has been turned away
  registered,  \* net_players
  leaving,     \* the session the network thread destroys, and how far it is
  m_dclients,  \* the pool
  deleted,     \* the client objects that have been deleted
  events,      \* the events of states and logins that wait
  answers,     \* the digests that have been received (m_messagesQueue)
  asked,       \* the clients who have been asked for one
  g_sv_Client_Reconnect_Time, dwTimeGlobal,
  leftAt       \* when each session left

Nobody == 0
Names == 0..Cardinality(Sessions)
NoName == Cardinality(Sessions) + 1
Events == {"state", "auth"}
Fresh(s) == client[s].player = Nobody
HasState(s) == client[s].name # NoName
Pooled == {m_dclients[k].m_client : k \in DOMAIN m_dclients}

PoolTypes ==
  /\ client \in [Sessions -> [player : Players \cup {Nobody}, name : Names \cup {NoName},
                              m_cdkey_digest : BOOLEAN, resumed : Sessions \cup {Nobody},
                              refused : BOOLEAN]]
  /\ registered \subseteq Sessions
  /\ leaving \in [of : Sessions \cup {Nobody}, step : {"erase", "pool"}]
  /\ m_dclients \in Seq([m_client : Sessions, m_dtime : Nat])
  /\ deleted \subseteq Sessions
  /\ events \in Seq([type : Events, of : Sessions])
  /\ answers \in Seq(Sessions) /\ asked \subseteq Sessions
  /\ g_sv_Client_Reconnect_Time \in ReconnectTimes /\ dwTimeGlobal \in Nat
  /\ leftAt \in [Sessions -> Nat]
  /\ Pooled \cap (deleted \cup registered) = {}
-----------------------------------------------------------------------------
Same(s, t) == client[t].m_cdkey_digest /\ client[t].player = client[s].player /\ client[t].name = client[s].name
Refused(p) == \E s \in Sessions : client[s].player = p /\ client[s].refused

(* A player who has never been turned away has one entry of a name at      *)
(* most, although the pool takes whoever leaves: names are unique among    *)
(* those who are registered, and the entry goes when the player is back.   *)
(* So the first that fits is the one.  (Who is turned away is kept too,    *)
(* beside the entry that his digest could not take.)                       *)
OneEntryEach ==
  \A j, k \in DOMAIN m_dclients :
    LET s == m_dclients[j].m_client IN
    Same(s, m_dclients[k].m_client) /\ client[s].m_cdkey_digest /\ ~Refused(client[s].player) => j = k

(* A player who comes back goes on where he left: he gets the state of a   *)
(* session of his digest and name, not one that is older than the          *)
(* reconnect time, and the last there was if he has never been turned away. *)
LatestState ==
  [][\A s \in Sessions : LET r == client'[s].resumed IN
       r # client[s].resumed =>
         /\ Same(s, r) /\ dwTimeGlobal - leftAt[r] <= g_sv_Client_Reconnect_Time
         /\ \A t \in Sessions \ {s} : Same(s, t) => t <= r \/ Refused(client[s].player)]_client

(* Each state is taken up once.                                            *)
ResumedOnce == \A s, t \in Sessions :
  client[s].resumed = client[t].resumed /\ client[s].resumed # Nobody => s = t

(* A state is in the pool once and leaves it once.                         *)
EntriesSound == PoolTypes /\ OneEntryEach /\ ResumedOnce
=============================================================================
