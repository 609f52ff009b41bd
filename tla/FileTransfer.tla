--------------------------- MODULE FileTransfer ---------------------------
(* Transfers of files over the game's connection (file_transfer.cpp with its *)
(* two kinds of nodes) and who uses them: administrators ask for screenshots *)
(* and configurations of clients, which the server receives and passes on at *)
(* the same time (screenshot_server.cpp), and a client who joins gets the    *)
(* logo and the rules of the server (xrServer_info.cpp).  A file is a        *)
(* sequence of pieces, one piece fits a packet.  The constants and variables  *)
(* are those of FileTransferState.                                         *)
EXTENDS FileTransferState, FiniteSets, SequencesExt

net == <<connected, playing, toServer, toClient>>
server == <<m_screenshot_proxies, m_receivers, m_transfers, requests, configured>>
client == <<making, uploading, receiving, buffer, files>>
vars == <<net, server, client, got>>
-----------------------------------------------------------------------------
Sources == Clients \cup {SV_Client}
NoFile == 0
NoUpload == [at |-> 0, size |-> 0]

(* A size that was not initialised, or read where there is none; the bytes  *)
(* of a header in the middle of a file.                                    *)
Junk == 99
Header == <<0, 0>>

(* A part of a file from its beginning, whose size is known.               *)
InOrder(content, size) ==
  \E f \in Made : size = SizeOf(f) /\ IsPrefix(content, Whole(f))

(* is_complete: what is not one file from its beginning may have any size.  *)
Complete(content, size) ==
  CASE size = 0 -> {content = <<>>}
    [] size # 0 /\ InOrder(content, size) -> {Len(content) = size}
    [] OTHER -> BOOLEAN

Data(from, size, pieces) ==
  [type |-> "data", from |-> from, size |-> size, pieces |-> pieces]
Abort(from) == [type |-> "abort", from |-> from]
Reject(from) == [type |-> "reject", from |-> from]

(* receive_packet: the first packet begins with the size; one without       *)
(* anything is ignored by an empty file, whose size it sets to nothing.     *)
Ignored(content, m) == content = <<>> /\ m.size = 0 /\ m.pieces = <<>>
SizeRead(content, size, m) ==
  CASE content # <<>> -> size
    [] content = <<>> /\ m.size > 0 -> m.size
    [] content = <<>> /\ m.size = 0 -> IF m.pieces = <<>> THEN 0 ELSE Junk
Written(content, m) ==
  content \o (IF content # <<>> /\ m.size > 0 THEN <<Header>> ELSE <<>>) \o m.pieces
receive_packet(content, size, m) ==
  IF Ignored(content, m) THEN {FALSE} ELSE Complete(Written(content, m), SizeRead(content, size, m))

(* SendTo: to those whom the server knows and whose program runs.          *)
Delivered(c, s) == IF c \in connected \cap playing THEN s ELSE <<>>
SendTo(c, s) == toClient' = [toClient EXCEPT ![c] = @ \o Delivered(c, s)]

Without(f, K) == Restrict(f, DOMAIN f \ K)
(* A map's insert leaves what is there.                                    *)
Inserted(f, k, v) == [x \in DOMAIN f \cup {k} |-> IF x \in DOMAIN f THEN f[x] ELSE v]

Init ==
  /\ connected = Clients \ Joining /\ playing = Clients
  /\ toServer = [c \in Clients |-> <<>>] /\ toClient = [c \in Clients |-> <<>>]
  /\ m_screenshot_proxies =
       [p \in 1..Proxies |-> [admin |-> Nobody, cheater |-> Nobody, file |-> <<>>, first |-> TRUE]]
  /\ m_receivers = <<>> /\ m_transfers = <<>>
  /\ making = {} /\ uploading = [c \in Clients |-> NoUpload]
  /\ receiving = [c \in Clients |-> <<>>]
  /\ files = <<>> /\ buffer = [c \in Clients |-> NoFile]
  /\ requests = 0 /\ configured = [c \in Clients |-> 0]
  /\ got = Nothing
-----------------------------------------------------------------------------
(* An administrator asks (MakeScreenshot, MakeConfigDump): the first proxy  *)
(* that serves nobody takes the request.  quiet: nothing of an earlier      *)
(* transfer of the client is under way.                                     *)
is_active(p) ==
  LET s == m_screenshot_proxies[p] IN
  s.cheater \in DOMAIN m_receivers \/ <<s.admin, s.cheater>> \in DOMAIN m_transfers

Quiet(c) ==
  /\ c \notin making /\ uploading[c] = NoUpload
  /\ \A k \in DOMAIN toServer[c] : toServer[c][k].type \notin {"data", "abort"}
  /\ \A k \in DOMAIN toClient[c] : toClient[c][k].type \notin {"request", "reject"}

(* The file of the proxy is cleared; in the mutant it is not.              *)
Cleared_not(p) == m_screenshot_proxies[p].file
Cleared(p) == <<>>

make_screenshot(p, admin, cheater) ==
  IF cheater \notin connected \/ cheater \in DOMAIN m_receivers
  THEN /\ m_screenshot_proxies' =
            [m_screenshot_proxies EXCEPT ![p].admin = admin, ![p].cheater = cheater]
       /\ UNCHANGED <<m_receivers, toClient>>
  ELSE /\ SendTo(cheater, <<[type |-> "request"]>>)
       /\ m_screenshot_proxies' = [m_screenshot_proxies EXCEPT ![p] =
            [admin |-> admin, cheater |-> cheater, file |-> Cleared(p), first |-> TRUE]]
       /\ m_receivers' = Inserted(m_receivers, cheater,
            [proxy |-> p, size |-> Junk, read |-> TRUE, quiet |-> Quiet(cheater)])

MakeScreenshot(admin, cheater) ==
  /\ requests < MaxRequests /\ requests' = requests + 1
  /\ admin \in connected /\ <<admin, SV_Client>> \notin DOMAIN m_transfers
  /\ \/ \E p \in 1..Proxies :
          /\ ~is_active(p) /\ \A q \in 1..(p - 1) : is_active(q)
          /\ make_screenshot(p, admin, cheater)
     \/ /\ \A p \in 1..Proxies : is_active(p)
        /\ UNCHANGED <<m_screenshot_proxies, m_receivers, toClient>>
  /\ got' = Nothing
  /\ UNCHANGED <<connected, playing, toServer, m_transfers, configured, client>>

(* A client joins (SendServerInfoToClient): he is sent the logo and the     *)
(* rules, or told at once that the configuration is finished when there are *)
(* none.                                                                    *)
SendServerInfoToClient(c) ==
  /\ c \in Joining \ connected /\ c \in playing /\ configured[c] = 0
  /\ connected' = connected \cup {c} /\ got' = Nothing
  /\ \/ /\ configured' = [configured EXCEPT ![c] = 1]
        /\ UNCHANGED <<m_transfers, toClient>>
     \/ /\ toClient' = [toClient EXCEPT ![c] = Append(@, [type |-> "logo"])]
        /\ m_transfers' = Inserted(m_transfers, <<c, SV_Client>>,
                                   [proxy |-> 0, at |-> 0, size |-> SizeOf(Info)])
        /\ UNCHANGED configured
  /\ UNCHANGED <<playing, toServer, m_screenshot_proxies, m_receivers, requests, client>>
-----------------------------------------------------------------------------
(* The server's on_message.  What has been received is passed on from the   *)
(* first packet on, unless the administrator still gets something of the    *)
(* same client.                                                             *)
Forwards(p, total, quiet) ==
  LET s == m_screenshot_proxies[p]
      key == <<s.admin, s.cheater>>
      response == [type |-> "response", from |-> s.cheater,
        quiet |-> /\ quiet /\ key \notin DOMAIN m_transfers
                  /\ s.cheater \notin DOMAIN receiving[s.admin]
                  /\ \A k \in DOMAIN toClient[s.admin] :
                       toClient[s.admin][k].type \in {"data", "abort", "response"} =>
                         toClient[s.admin][k].from # s.cheater]
  IN IF s.first
     THEN /\ m_transfers' = Inserted(m_transfers, key, [proxy |-> p, at |-> 0, size |-> total])
          /\ SendTo(s.admin, <<response>>)
     ELSE UNCHANGED <<m_transfers, toClient>>

OnData(c, m) ==
  IF c \notin DOMAIN m_receivers
  THEN /\ SendTo(c, <<Reject(SV_Client)>>)
       /\ got' = Nothing
       /\ UNCHANGED <<m_screenshot_proxies, m_receivers, m_transfers>>
  ELSE LET r == m_receivers[c]
           file == m_screenshot_proxies[r.proxy].file
           content == Written(file, m)
           size == SizeRead(file, r.size, m)
       IN /\ m_screenshot_proxies' =
               [m_screenshot_proxies EXCEPT ![r.proxy].file = content, ![r.proxy].first = FALSE]
          /\ Forwards(r.proxy, size, r.quiet)
          /\ \E complete \in receive_packet(file, r.size, m) :
               IF complete
               THEN /\ m_receivers' = Without(m_receivers, {c})
                    /\ got' = IF r.quiet THEN [from |-> c, content |-> content] ELSE Nothing
               ELSE /\ m_receivers' = [m_receivers EXCEPT ![c].size = size,
                                                       ![c].read = @ \/ ~Ignored(file, m)]
                    /\ got' = Nothing

(* stop_receive_file: the client is told to stop unless all has come.      *)
RejectUnlessComplete(c, complete) == IF complete THEN <<>> ELSE <<Reject(SV_Client)>>
CompleteAtServer(c) ==
  Complete(m_screenshot_proxies[m_receivers[c].proxy].file, m_receivers[c].size)

OnAbort(c) ==
  /\ IF c \in DOMAIN m_receivers
     THEN /\ \E complete \in CompleteAtServer(c) : SendTo(c, RejectUnlessComplete(c, complete))
          /\ m_receivers' = Without(m_receivers, {c})
     ELSE UNCHANGED <<toClient, m_receivers>>
  /\ got' = Nothing
  /\ UNCHANGED <<m_screenshot_proxies, m_transfers>>

(* A transfer that ends with its destination still there is aborted; the    *)
(* end of the logo's, however it came, finishes the configuration.          *)
Finishes(keys) ==
  [c \in Clients |-> configured[c] + IF <<c, SV_Client>> \in keys /\ c \in connected THEN 1 ELSE 0]

(* The callback of a transfer that is rejected; in the mutant it is called  *)
(* only for transfers that come to their end.                              *)
Rejected_unheard(keys) == configured
Rejected(keys) == Finishes(keys)

OnReject(c, src) ==
  /\ IF <<c, src>> \in DOMAIN m_transfers
     THEN /\ SendTo(c, <<Abort(src)>>) /\ configured' = Rejected({<<c, src>>})
          /\ m_transfers' = Without(m_transfers, {<<c, src>>})
     ELSE UNCHANGED <<toClient, m_transfers, configured>>
  /\ got' = Nothing
  /\ UNCHANGED <<m_screenshot_proxies, m_receivers>>

ServerReceive(c) ==
  /\ toServer[c] # <<>> /\ c \in connected
  /\ toServer' = [toServer EXCEPT ![c] = Tail(@)]
  /\ LET m == Head(toServer[c]) IN
       \/ m.type = "data" /\ OnData(c, m) /\ UNCHANGED configured
       \/ m.type = "abort" /\ OnAbort(c) /\ UNCHANGED configured
       \/ m.type = "reject" /\ OnReject(c, m.from)
  /\ UNCHANGED <<connected, playing, requests, client>>
-----------------------------------------------------------------------------
(* The server's frame (update_transfer, stop_obsolete_receivers): each       *)
(* transfer sends a packet, which carries nothing when what is passed on has *)
(* not come yet, and those end whose last packet it was or whose destination *)
(* has gone.                                                                 *)
Source(k) ==
  IF k[2] = SV_Client THEN Whole(Info) ELSE m_screenshot_proxies[m_transfers[k].proxy].file

(* Mutant: the last piece of what is passed on counts as not yet there.     *)
Sent_but_last(k) ==
  LET n == m_transfers[k].at + 1 IN
  IF n \in DOMAIN Source(k) /\ (k[2] = SV_Client \/ n + 1 \in DOMAIN Source(k)) THEN <<Source(k)[n]>> ELSE <<>>
Sent(k) ==
  LET n == m_transfers[k].at + 1 IN IF n \in DOMAIN Source(k) THEN <<Source(k)[n]>> ELSE <<>>
Packet(k) ==
  Data(k[2], IF m_transfers[k].at = 0 THEN m_transfers[k].size ELSE 0, Sent(k))
At(k) == m_transfers[k].at + Len(Sent(k))

(* Which transfers may end with this packet.                               *)
Ends(keys) ==
  {K \in SUBSET keys : \A k \in keys :
     (k \in K) \in Complete(SubSeq(Source(k), 1, At(k)), m_transfers[k].size)}

(* The buffers of the logo are given up before the test for the end, so that *)
(* its transfer is aborted although it is complete.                        *)
Farewell(c, done) == IF <<c, SV_Client>> \in done THEN <<Abort(SV_Client)>> ELSE <<>>

(* Who is not heard of for 6 seconds (28 before the first packet).         *)
Obsolete == {c \in DOMAIN m_receivers : ~m_receivers[c].read}

Update(late) ==
  LET gone == {k \in DOMAIN m_transfers : k[1] \notin connected}
      there == DOMAIN m_transfers \ gone
      sending == {k \in there : Len(toClient[k[1]]) < MaxPackets}
  IN \E done \in Ends(sending), all \in SUBSET late :
       /\ \A c \in all : (TRUE \in CompleteAtServer(c))
       /\ \A c \in late \ all : (FALSE \in CompleteAtServer(c))
       /\ toClient' = [c \in Clients |->
            LET keys == SetToSeq({k \in sending : k[1] = c}) IN
            toClient[c] \o Delivered(c,
              [n \in DOMAIN keys |-> Packet(keys[n])] \o Farewell(c, done)
              \o IF c \in late THEN RejectUnlessComplete(c, c \in all) ELSE <<>>)]
       /\ m_transfers' =
            [k \in there \ done |->
               [m_transfers[k] EXCEPT !.at = IF k \in sending THEN At(k) ELSE @]]
       /\ configured' = Finishes(done \cup gone)
       /\ m_receivers' =
            [c \in DOMAIN m_receivers \ late |-> [m_receivers[c] EXCEPT !.read = FALSE]]
       /\ got' = Nothing

UpdateServer(late) ==
  /\ late \subseteq Obsolete /\ Update(late)
  /\ UNCHANGED <<connected, playing, toServer, m_screenshot_proxies, requests, client>>
-----------------------------------------------------------------------------
(* A client's messages.  ClientID(0) stands for the server.                *)
Answer(c, s) == toServer' = [toServer EXCEPT ![c] = @ \o s]

StopReceiving(c, src, complete) ==
  /\ Answer(c, IF complete THEN <<>> ELSE <<Reject(src)>>)
  /\ receiving' = [receiving EXCEPT ![c] = Without(@, {src})]

ClientOnData(c, m) ==
  IF m.from \notin DOMAIN receiving[c]
  THEN Answer(c, <<Reject(m.from)>>) /\ got' = Nothing /\ UNCHANGED receiving
  ELSE LET r == receiving[c][m.from]
           content == Written(r.content, m)
           size == SizeRead(r.content, r.size, m)
       IN \E complete \in receive_packet(r.content, r.size, m) :
            IF complete
            THEN /\ StopReceiving(c, m.from, TRUE)
                 /\ got' = IF r.quiet THEN [from |-> m.from, content |-> content] ELSE Nothing
            ELSE /\ receiving' = [receiving EXCEPT ![c][m.from] =
                      [content |-> content, size |-> size,
                       read |-> r.read \/ ~Ignored(r.content, m), quiet |-> r.quiet]]
                 /\ got' = Nothing /\ UNCHANGED toServer

StartReceiving(c, src, quiet) ==
  /\ receiving' = [receiving EXCEPT ![c] =
       Inserted(@, src, [content |-> <<>>, size |-> Junk, read |-> TRUE, quiet |-> quiet])]
  /\ got' = Nothing /\ UNCHANGED <<toServer, making, uploading>>

ClientOnAbort(c, src) ==
  /\ IF src \in DOMAIN receiving[c]
     THEN \E complete \in Complete(receiving[c][src].content, receiving[c][src].size) :
            StopReceiving(c, src, complete)
     ELSE UNCHANGED <<toServer, receiving>>
  /\ got' = Nothing

ClientOnReject(c) ==
  /\ IF uploading[c] # NoUpload
     THEN Answer(c, <<Abort(c)>>) /\ uploading' = [uploading EXCEPT ![c] = NoUpload]
     ELSE UNCHANGED <<toServer, uploading>>
  /\ got' = Nothing

ClientReceive(c) ==
  /\ toClient[c] # <<>> /\ c \in connected \cap playing /\ Len(toServer[c]) < 2 * MaxPackets
  /\ toClient' = [toClient EXCEPT ![c] = Tail(@)]
  /\ LET m == Head(toClient[c]) IN
       \/ /\ m.type = "request" /\ making' = making \cup {c} /\ got' = Nothing
          /\ UNCHANGED <<toServer, uploading, receiving>>
       \/ m.type = "response" /\ StartReceiving(c, m.from, m.quiet)
       \/ m.type = "logo" /\ StartReceiving(c, SV_Client, TRUE)
       \/ m.type = "data" /\ ClientOnData(c, m) /\ UNCHANGED <<making, uploading>>
       \/ m.type = "abort" /\ ClientOnAbort(c, m.from) /\ UNCHANGED <<making, uploading>>
       \/ m.type = "reject" /\ ClientOnReject(c) /\ UNCHANGED <<making, receiving>>
  /\ UNCHANGED <<connected, playing, server, buffer, files>>

(* SendCollectedData: what has been made goes into the buffer, also when a  *)
(* transfer still reads from it, and is sent unless there is one.           *)
SendCollectedData(c) ==
  /\ c \in making /\ making' = making \ {c}
  /\ \E n \in 1..2 :
       /\ files' = Append(files, [owner |-> c, size |-> n])
       /\ uploading' = [uploading EXCEPT ![c] = IF @ = NoUpload THEN [at |-> 0, size |-> n] ELSE @]
  /\ buffer' = [buffer EXCEPT ![c] = Len(files')]
  /\ got' = Nothing
  /\ UNCHANGED <<net, server, receiving>>

(* The frame of a client (CLevel::ClientSend): a packet of what he sends,    *)
(* and the receivers that have waited too long are stopped.                *)
Waiting(c) == {src \in DOMAIN receiving[c] : ~receiving[c][src].read}

Sends(c) == uploading[c] # NoUpload /\ Len(toServer[c]) < MaxPackets
Piece(c) ==
  LET u == uploading[c] IN
  IF ~Sends(c) THEN <<>>
  ELSE <<Data(c, IF u.at = 0 THEN u.size ELSE 0, <<<<buffer[c], u.at + 1>>>>)>>

ClientSend(c, late) ==
  /\ c \in playing /\ late \subseteq Waiting(c)
  /\ \E all \in SUBSET late :
       /\ \A src \in late :
            (src \in all) \in Complete(receiving[c][src].content, receiving[c][src].size)
       /\ Answer(c, Piece(c) \o SetToSeq({Reject(src) : src \in late \ all}))
  /\ uploading' = [uploading EXCEPT ![c] =
       CASE ~Sends(c) -> @
         [] Sends(c) -> IF @.at + 1 = @.size THEN NoUpload ELSE [@ EXCEPT !.at = @ + 1]]
  /\ receiving' = [receiving EXCEPT ![c] =
       [src \in DOMAIN @ \ late |-> [@[src] EXCEPT !.read = FALSE]]]
  /\ got' = Nothing
  /\ UNCHANGED <<connected, playing, toClient, server, making, buffer, files>>

(* A client leaves: what he sends is aborted.  What the server has not     *)
(* handled by the time it destroys him is erased (client_Destroy).         *)
Leave(c) ==
  /\ c \in Leaving \cap connected \cap playing /\ playing' = playing \ {c}
  /\ \E all \in SUBSET DOMAIN receiving[c] :
       /\ \A src \in DOMAIN receiving[c] :
            (src \in all) \in Complete(receiving[c][src].content, receiving[c][src].size)
       /\ Answer(c, (IF uploading[c] = NoUpload THEN <<>> ELSE <<Abort(c)>>)
                    \o SetToSeq({Reject(src) : src \in DOMAIN receiving[c] \ all}))
  /\ toClient' = [toClient EXCEPT ![c] = <<>>] /\ making' = making \ {c}
  /\ uploading' = [uploading EXCEPT ![c] = NoUpload]
  /\ receiving' = [receiving EXCEPT ![c] = <<>>] /\ buffer' = [buffer EXCEPT ![c] = NoFile]
  /\ got' = Nothing
  /\ UNCHANGED <<connected, server, files>>

client_Destroy(c) ==
  /\ c \in connected \ playing /\ connected' = connected \ {c}
  /\ toServer' = [toServer EXCEPT ![c] = <<>>] /\ got' = Nothing
  /\ UNCHANGED <<playing, toClient, server, client>>
-----------------------------------------------------------------------------
Next ==
  \/ \E a \in Admins, c \in Clients : MakeScreenshot(a, c)
  \/ \E c \in Clients :
       \/ SendServerInfoToClient(c) \/ ServerReceive(c)
       \/ ClientReceive(c) \/ SendCollectedData(c)
       \/ \E late \in SUBSET Waiting(c) : ClientSend(c, late)
       \/ Leave(c) \/ client_Destroy(c)
  \/ \E late \in SUBSET Obsolete : UpdateServer(late)

Spec == Init /\ [][Next]_vars

(* Both programs go on frame after frame, what is sent arrives, and time    *)
(* passes for those who wait.                                              *)
FairSpec ==
  /\ Spec /\ WF_vars(UpdateServer(Obsolete))
  /\ \A c \in Clients :
       /\ WF_vars(ServerReceive(c)) /\ WF_vars(ClientReceive(c)) /\ WF_vars(SendCollectedData(c))
       /\ WF_vars(ClientSend(c, Waiting(c))) /\ WF_vars(client_Destroy(c))
-----------------------------------------------------------------------------
(* Every transfer ends, whoever rejects, aborts, leaves or falls silent: as  *)
(* there are finitely many requests, there comes a time when none is under  *)
(* way; except the relay of what has broken off (the server goes on with    *)
(* packets that carry nothing, and who gets them waits as long).  What has  *)
(* been received whole is passed on to its end.                            *)
Starved(k) ==
  /\ k \in DOMAIN m_transfers /\ k[2] # SV_Client
  /\ ~\E c \in DOMAIN m_receivers : m_receivers[c].proxy = m_transfers[k].proxy
  /\ FALSE \in Complete(m_screenshot_proxies[m_transfers[k].proxy].file, m_transfers[k].size)
TransfersEnd ==
  <>[](/\ m_receivers = <<>>
       /\ \A k \in DOMAIN m_transfers : Starved(k)
       /\ \A c \in Clients : \A src \in DOMAIN receiving[c] : Starved(<<c, src>>))
=============================================================================
