------------------------- MODULE FileTransferState -------------------------
(* The state of FileTransfer, its files, and what is to hold in each state. *)
EXTENDS Integers

CONSTANTS
  Clients,      \* the clients but the server's own
  Joining,      \* those of them who join while the model runs
  Admins,       \* those who have the rights of an administrator
  Leaving,      \* those who may leave
  SV_Client,    \* the server's client, in whose name the logo is sent
  Nobody,       \* the id 0
  Proxies,      \* the number of m_screenshot_proxies
  MaxRequests,  \* bound: requests of administrators
  MaxPackets    \* bound: no transfer sends while so much is on its way, and who has
                \* twice as much to be sent reads nothing

ASSUME FileTransferAssumption ==
  /\ Joining \subseteq Clients /\ Admins \subseteq Clients /\ Leaving \subseteq Clients
  /\ SV_Client \notin Clients /\ Nobody \notin Clients \cup {SV_Client}
  /\ Proxies \in Nat \ {0} /\ MaxRequests \in Nat /\ MaxPackets \in Nat \ {0}

VARIABLES
  connected,    \* the clients the server knows
  playing,      \* the clients whose program still runs
  toServer,     \* their messages: the link and m_aDelayedPackets
  toClient,     \* the messages to them: the link and game_events
  m_screenshot_proxies,  \* whom each serves, its memory file, m_first_receive
  m_receivers,  \* of the server: a receiver for each client it receives from
  m_transfers,  \* of the server, by destination and source
  making,       \* clients that make a screenshot (or a dump of configurations)
  uploading,    \* m_transfering of each client
  receiving,    \* the m_receivers of each client, by source
  files,        \* what has been made, in order: who made it, its pieces
  buffer,       \* the file in each client's upload_memory_writer
  requests,     \* how many requests there were
  configured,   \* how often each client was sent M_SV_CONFIG_FINISHED
  got           \* what has just been received completely
-----------------------------------------------------------------------------
Nothing == [from |-> Nobody, content |-> <<>>]

(* The logo and the rules are file -1, the pieces of the others are numbered. *)
Info == -1
SizeOf(f) == IF f = Info THEN 2 ELSE files[f].size
Whole(f) == [k \in 1..SizeOf(f) |-> <<f, k>>]
Made == {Info} \cup DOMAIN files
-----------------------------------------------------------------------------
(* What is received completely, by the server or through it by an           *)
(* administrator or by a client who joins, is one whole file of the one it  *)
(* comes from, if nothing of an earlier transfer of his was under way when  *)
(* it was asked for.                                                       *)
Received ==
  got # Nothing =>
    \E f \in Made : /\ got.content = Whole(f)
                    /\ got.from = IF f = Info THEN SV_Client ELSE files[f].owner

(* A client who joins is told once that the configuration is finished, when *)
(* the transfer of the logo has ended, however it has.                     *)
ConfiguredOnce ==
  \A c \in Joining \cap connected :
    configured[c] = IF <<c, SV_Client>> \in DOMAIN m_transfers THEN 0 ELSE 1
=============================================================================
