------------------------ MODULE NetworkServer_proofs -------------------------
(***************************************************************************)
(* What is proved of players who join, play and leave, for any number of   *)
(* them and whatever the two threads do at the same time.                  *)
(***************************************************************************)
EXTENDS NetworkServer, SequenceLemmas

(* While the program runs a slot that a thread has found stays where it    *)
(* is; and the packet that is handled stays the first, unless its sender   *)
(* has been destroyed.                                                     *)
Found ==
  \A t \in Threads : job[t].step = "erase" =>
    IF job[t].at = 0 THEN link[job[t].of] = "closed"
    ELSE job[t].at \in 1..Len(m_players) /\ m_players[job[t].at] = job[t].of
Handing ==
  /\ phase \notin {"command", "pop"} => handling = Nobody
  /\ handling # Nobody =>
    \/ m_aDelayedPackets # <<>> /\ Head(m_aDelayedPackets).sender = handling
    \/ handling \notin net_players /\ link[handling] = "closed"
Sound == Found /\ Handing

Seated == {c \in Clients : link[c] \in {"open", "broken", "leaving"}}

Slots ==
  /\ Distinct(m_players) /\ ToSet(m_players) = Seated
  /\ Distinct(m_pending_clients) /\ ToSet(m_pending_clients) \subseteq Seated \ ({Host} \cup net_players)
  /\ \A c \in net_players :
       c \in Seated \/ \E t \in Threads : job[t].of = c /\ job[t].step \in {"farewell", "destroy"}

JobSound(t) ==
  /\ job[t] = Idle \/ (job[t].of \in Remote /\ job[t].step # "idle")
  /\ job[t].step \in {"slot", "erase"} => job[t].of \in Seated \/ link[job[t].of] = "closed"
  /\ job[t].step \in {"farewell", "destroy", "clean"} => link[job[t].of] = "closed"
  /\ job[t].step = "clean" => job[t].of \notin net_players
JobsSound ==
  /\ \A t \in Threads : JobSound(t)
  /\ \A c \in Clients : link[c] = "leaving" => job["net"].of = c /\ job["net"].step \in {"slot", "erase"}

(* The server's own client comes first and stays.                          *)
Creates(e) == e.type = "create" /\ e.sender = Host
HostFirst ==
  /\ link[Host] \in {"none", "connecting", "open", "closed"}
  /\ m_bServerClientConnected = (Host \in net_players)
  /\ Host \in net_players => m_pending_clients = <<>> /\ link[Host] = "open"
  /\ \A k \in 1..Len(events) : events[k].type \in {"create", "state", "auth"}
  /\ Host \in net_players =>
       client[Host].bConnected \/ \E j \in 1..Len(events) : Creates(events[j])
  /\ \A k \in 1..Len(events) : events[k].type = "create" =>
       /\ Host \in net_players
       /\ \/ Creates(events[k]) \/ client[Host].bConnected
          \/ \E j \in 1..Len(events) : j < k /\ Creates(events[j])
  /\ client[Host].bConnected => Host \in net_players

(* What is under way for one client: the events and messages that the      *)
(* server keeps, and the packets it has still to handle.                   *)
(* A command is of no concern to who is joining.                           *)
Of(c) == {e \in Received : e.sender = c /\ e.type # "remote"}
Joins == {m \in FromClient : m.type # "remote"}
FirstHandled == m_aDelayedPackets # <<>> /\ Head(m_aDelayedPackets).sender = handling
Waiting == IF FirstHandled THEN Tail(m_aDelayedPackets) ELSE m_aDelayedPackets
EventsOf(c) == Filtered(events, Of(c))
MessagesOf(c) == Filtered(m_messagesQueue, Of(c))
PacketsOf(c) == Filtered(Waiting, Of(c))
JoinsOf(c) == Filtered(toServer[c], Joins)

(* Joining goes in batches of up to three messages, handled one after the  *)
(* other.                                                                  *)
Place(m) == IF m.type \in {"key", "ack"} THEN 1 ELSE IF m.type \in {"challenge", "state"} THEN 2 ELSE 3
Ahead(s, t) == \A i \in 1..Len(s), j \in 1..Len(t) : Place(s[i]) < Place(t[j])
Ascending(s) == \A i, j \in 1..Len(s) : i < j => Place(s[i]) < Place(s[j])
Made(s, types, keyed, n) == \A i \in 1..Len(s) : s[i].type \in types /\ (s[i].type \in keyed => s[i].n = n)
Some(s, types) == \E i \in 1..Len(s) : s[i].type \in types

ToPlayer(b) == IF b = 1 THEN {"key", "challenge"} ELSE IF b = 2 THEN {"key", "digest"}
               ELSE IF b = 3 THEN {"key", "result"} ELSE IF b = 4 THEN {"map"}
               ELSE IF b = 5 THEN {"configured"} ELSE {}
FromPlayer(b) == IF b = 1 THEN {"ack", "state", "auth"} ELSE IF b = 2 THEN {"ack", "digest"}
                 ELSE IF b = 3 THEN {"ack", "map"} ELSE IF b = 4 THEN {"request"}
                 ELSE IF b = 5 THEN {"ready"} ELSE {}
Events(b) == IF b = 0 THEN {"create"} ELSE IF b = 1 THEN {"state", "auth"} ELSE {}
Keyed == {"ack", "state", "auth", "digest"}

(* The batch b is on its way: what is in each queue, e of events, q of     *)
(* messages, s to the server, t to the player, comes before what is in the *)
(* next.                                                                   *)
Pipe(e, q, s, t, b) ==
  /\ Ascending(e) /\ Ascending(q) /\ Ascending(s) /\ Ascending(t)
  /\ Ahead(e, q) /\ Ahead(e, s) /\ Ahead(e, t) /\ Ahead(q, s) /\ Ahead(q, t) /\ Ahead(s, t)
  /\ Made(e, Events(b), {}, b) /\ Made(q, FromPlayer(b), Keyed, b)
  /\ Made(s, FromPlayer(b), Keyed, b) /\ Made(t, ToPlayer(b), {"key"}, b)

Silent(c) == MessagesOf(c) = <<>> /\ JoinsOf(c) = <<>> /\ toClient[c] = <<>>
Line(c, b) ==
  /\ Pipe(EventsOf(c), MessagesOf(c), JoinsOf(c), toClient[c], b)
  /\ failed = "no" /\ PacketsOf(c) # <<>> => b = 4 /\ Len(PacketsOf(c)) = 1 /\ Silent(c)

(* What the server knows of a client by then.                              *)
Known(c, b) ==
  /\ client[c].m_last_key_sync_request_seed = IF b < 3 THEN b ELSE 3
  /\ b >= 2 => client[c].ps
  /\ b = 0 => ~client[c].ps
  /\ client[c].net_Accepted = (b = 5)
  /\ client[c].owner => b = 5
  /\ c = Host => b = 0
  /\ c # Host /\ link[c] # "closed" => client[c].bConnected = (b >= 1)

(* The keys of the server and the player are those of the batch, once what *)
(* changes them has arrived.                                               *)
Keys(c, b) == b \in 1..3 =>
  /\ \/ client[c].m_secret_key = b \/ Silent(c)
     \/ Some(MessagesOf(c), {"ack"}) \/ Some(JoinsOf(c), {"ack"}) \/ Some(toClient[c], {"key"})
  /\ secret[c] = b \/ toClient[c] = <<>> \/ Some(toClient[c], {"key"})

(* The player's state is handled before the login.                         *)
StateFirst(c, b) == b = 1 /\ ~client[c].ps =>
  \/ Some(EventsOf(c), {"state"}) \/ Some(MessagesOf(c), {"state"}) \/ Some(JoinsOf(c), {"state"})
  \/ Some(toClient[c], {"challenge"})
  \/ ~Some(EventsOf(c), {"auth"}) /\ ~Some(MessagesOf(c), {"auth"}) /\ ~Some(JoinsOf(c), {"auth"})

(* Nobody gets stuck: the last of the batch is under way as long as the    *)
(* player is connected, until he plays.                                    *)
Closing(c) == job["main"].of = c /\ job["main"].step \in {"slot", "erase"}
Alive(c, b) == failed = "no" /\ link[c] = "open" /\ c \notin dropped \cup {Host} /\ ~Closing(c) =>
  \/ b = 5 /\ client[c].owner
  \/ PacketsOf(c) # <<>> \/ Some(EventsOf(c), {"create", "auth"})
  \/ Some(MessagesOf(c), {"auth", "digest", "map", "request", "ready"})
  \/ Some(JoinsOf(c), {"auth", "digest", "map", "request", "ready"})
  \/ Some(toClient[c], {"challenge", "digest", "result", "map", "configured"})

Batch(c, b) == Line(c, b) /\ Known(c, b) /\ Keys(c, b) /\ StateFirst(c, b) /\ Alive(c, b)
Joining(c) == \E b \in 0..5 : Batch(c, b)

(* A player who has left the game has been given his farewell; as long as  *)
(* he is registered nobody has but a thread that is about to remove him.   *)
Told(c) == farewells[c] > 0 \/ ~client[c].owner
Parting(c) == \E t \in Threads : job[t].of = c /\ job[t].step = "destroy"
Farewell(c) ==
  /\ farewells[c] > 0 => client[c].ps
  /\ IF c \in net_players
     THEN IF Parting(c) THEN Told(c) /\ (farewells[c] > 0 \/ ~Some(MessagesOf(c), {"ready"}))
          ELSE farewells[c] = 0
     ELSE IF link[c] = "closed" THEN Told(c) ELSE farewells[c] = 0

(* Before a client is registered his connection is announced to him, his   *)
(* data are on their way, or he waits for the server's own client.         *)
Coming(c) ==
  /\ client[c] = NewClient /\ secret[c] = 0 /\ c \notin playing \cup dropped
  /\ EventsOf(c) = <<>> /\ MessagesOf(c) = <<>> /\ Filtered(m_aDelayedPackets, Of(c)) = <<>>
  /\ IF c \in Seated
     THEN \/ toClient[c] = <<Message("connected", 0)>> /\ toServer[c] = <<>> /\ c \notin ToSet(m_pending_clients)
          \/ toClient[c] = <<>> /\ toServer[c] = <<Message("data", 0)>> /\ c \notin ToSet(m_pending_clients)
          \/ toClient[c] = <<>> /\ toServer[c] = <<>> /\ (link[c] # "open" \/ c \in ToSet(m_pending_clients))
     ELSE toClient[c] = <<>> /\ toServer[c] = <<>>

PerClient(c) ==
  /\ Farewell(c)
  /\ link[c] = "closed" => toClient[c] = <<>> /\ toServer[c] = <<>>
  /\ c \in net_players => Joining(c)
  /\ c \notin net_players /\ link[c] # "closed" => Coming(c)

Control == TypeOK /\ (failed = "no" => Sound) /\ Slots /\ JobsSound /\ HostFirst
IInv == Control /\ \A c \in Clients : PerClient(c)
-----------------------------------------------------------------------------
(* Sequences of messages.                                                  *)

(* An empty queue satisfies whatever is said of queues.                    *)
LEMMA Empty ==
  ASSUME NEW s, NEW types, NEW keyed, NEW n
  PROVE  /\ Ahead(<<>>, s) /\ Ahead(s, <<>>) /\ Ascending(<<>>)
         /\ Made(<<>>, types, keyed, n) /\ ~Some(<<>>, types)
BY DEF Ahead, Ascending, Made, Some

(* What holds of a sequence holds of its first element and of the rest.    *)
LEMMA HeadAndTail ==
  ASSUME NEW R, NEW s \in Seq(R), s # <<>>
  PROVE  /\ Head(s) \in R /\ Tail(s) \in Seq(R)
         /\ \A t : Ahead(s, t) <=> Ahead(<<Head(s)>>, t) /\ Ahead(Tail(s), t)
         /\ \A t : Ahead(t, s) <=> Ahead(t, <<Head(s)>>) /\ Ahead(t, Tail(s))
         /\ Ascending(s) <=> Ascending(Tail(s)) /\ Ahead(<<Head(s)>>, Tail(s))
         /\ \A types, keyed, n : Made(s, types, keyed, n) <=>
              /\ Head(s).type \in types /\ (Head(s).type \in keyed => Head(s).n = n)
              /\ Made(Tail(s), types, keyed, n)
         /\ \A types : Some(s, types) <=> Head(s).type \in types \/ Some(Tail(s), types)
<1> DEFINE h == <<Head(s)>>
           r == Tail(s)
           N == Len(s)
<1>1. /\ Head(s) \in R /\ r \in Seq(R) /\ N \in Nat /\ N >= 1
      /\ Len(h) = 1 /\ h[1] = s[1] /\ Head(s) = s[1]
      /\ Len(r) = N - 1 /\ \A i \in 1..(N - 1) : r[i] = s[i + 1]
  OBVIOUS
<1> HIDE DEF h, r, N
<1>2. \A i \in 1..N : i = 1 \/ (i - 1 \in 1..(N - 1) /\ r[i - 1] = s[i])
  BY <1>1
<1>3. 1 \in 1..N /\ \A i \in 1..(N - 1) : i + 1 \in 1..N
  BY <1>1
<1>4. ASSUME NEW t PROVE Ahead(s, t) <=> Ahead(h, t) /\ Ahead(r, t)
  BY <1>1, <1>2, <1>3 DEF Ahead, N
<1>5. ASSUME NEW t PROVE Ahead(t, s) <=> Ahead(t, h) /\ Ahead(t, r)
  BY <1>1, <1>2, <1>3 DEF Ahead, N
<1>6. Ascending(s) <=> Ascending(r) /\ Ahead(h, r)
  <2>1. ASSUME Ascending(s) PROVE Ascending(r) /\ Ahead(h, r)
    <3>1. ASSUME NEW i \in 1..(N - 1), NEW j \in 1..(N - 1), i < j PROVE Place(r[i]) < Place(r[j])
      <4>1. i + 1 \in 1..N /\ j + 1 \in 1..N /\ i + 1 < j + 1
        BY <1>1, <1>3, <3>1
      <4>2. Place(s[i + 1]) < Place(s[j + 1])
        BY <2>1, <4>1 DEF Ascending, N
      <4> QED
        BY <1>1, <4>2
    <3>2. ASSUME NEW i \in 1..1, NEW j \in 1..(N - 1) PROVE Place(h[i]) < Place(r[j])
      <4>1. 1 \in 1..N /\ j + 1 \in 1..N /\ 1 < j + 1 /\ i = 1
        BY <1>1, <1>3, <3>2
      <4>2. Place(s[1]) < Place(s[j + 1])
        BY <2>1, <4>1 DEF Ascending, N
      <4> QED
        BY <1>1, <4>1, <4>2
    <3>3. Ascending(r)
      BY <1>1, <3>1 DEF Ascending
    <3>4. Ahead(h, r)
      BY <1>1, <3>2 DEF Ahead
    <3> QED
      BY <3>3, <3>4
  <2>2. ASSUME Ascending(r), Ahead(h, r), NEW i \in 1..N, NEW j \in 1..N, i < j
        PROVE  Place(s[i]) < Place(s[j])
    <3>1. j - 1 \in 1..(N - 1) /\ r[j - 1] = s[j]
      BY <1>1, <1>2, <2>2
    <3>2. CASE i = 1
      BY <1>1, <2>2, <3>1, <3>2 DEF Ahead
    <3>3. CASE i # 1
      BY <1>1, <1>2, <2>2, <3>1, <3>3 DEF Ascending
    <3> QED
      BY <3>2, <3>3
  <2> QED
    BY <2>1, <2>2 DEF Ascending, N
<1>7. ASSUME NEW types, NEW keyed, NEW n
      PROVE  Made(s, types, keyed, n) <=>
               s[1].type \in types /\ (s[1].type \in keyed => s[1].n = n) /\ Made(r, types, keyed, n)
  BY <1>1, <1>2, <1>3 DEF Made, N
<1>8. ASSUME NEW types PROVE Some(s, types) <=> s[1].type \in types \/ Some(r, types)
  BY <1>1, <1>2, <1>3 DEF Some, N
<1> QED
  BY <1>1, <1>4, <1>5, <1>6, <1>7, <1>8 DEF h, r

(* What holds of a sequence and of an element holds when it is appended.   *)
LEMMA Appended ==
  ASSUME NEW R, NEW s \in Seq(R), NEW x \in R
  PROVE  /\ Append(s, x) \in Seq(R)
         /\ \A t : Ahead(Append(s, x), t) <=> Ahead(s, t) /\ Ahead(<<x>>, t)
         /\ \A t : Ahead(t, Append(s, x)) <=> Ahead(t, s) /\ Ahead(t, <<x>>)
         /\ Ascending(Append(s, x)) <=> Ascending(s) /\ Ahead(s, <<x>>)
         /\ \A types, keyed, n : Made(Append(s, x), types, keyed, n) <=>
              x.type \in types /\ (x.type \in keyed => x.n = n) /\ Made(s, types, keyed, n)
         /\ \A types : Some(Append(s, x), types) <=> x.type \in types \/ Some(s, types)
<1> DEFINE a == Append(s, x)
           h == <<x>>
           N == Len(s)
<1>1. /\ N \in Nat /\ a \in Seq(R) /\ Len(a) = N + 1 /\ a[N + 1] = x /\ Len(h) = 1 /\ h[1] = x
      /\ \A i \in 1..N : a[i] = s[i]
  OBVIOUS
<1> HIDE DEF a, h, N
<1>2. N + 1 \in 1..(N + 1) /\ \A i \in 1..(N + 1) : i = N + 1 \/ i \in 1..N
  BY <1>1
<1>3. \A i \in 1..N : i \in 1..(N + 1) /\ i < N + 1
  BY <1>1
<1>4. ASSUME NEW t PROVE Ahead(a, t) <=> Ahead(s, t) /\ Ahead(h, t)
  BY <1>1, <1>2, <1>3, SMTT(40) DEF Ahead, N
<1>5. ASSUME NEW t PROVE Ahead(t, a) <=> Ahead(t, s) /\ Ahead(t, h)
  BY <1>1, <1>2, <1>3 DEF Ahead, N
<1>6. Ascending(a) <=> Ascending(s) /\ Ahead(s, h)
  <2>1. ASSUME Ascending(a) PROVE Ascending(s) /\ Ahead(s, h)
    BY <1>1, <1>2, <1>3, <2>1 DEF Ahead, Ascending, N
  <2>2. ASSUME Ascending(s), Ahead(s, h), NEW i \in 1..(N + 1), NEW j \in 1..(N + 1), i < j
        PROVE  Place(a[i]) < Place(a[j])
    <3>1. i \in 1..N
      BY <1>1, <2>2
    <3>2. CASE j = N + 1
      BY <1>1, <2>2, <3>1, <3>2 DEF Ahead, N
    <3>3. CASE j \in 1..N
      BY <1>1, <2>2, <3>1, <3>3 DEF Ascending, N
    <3> QED
      BY <1>2, <3>2, <3>3
  <2> QED
    BY <1>1, <2>1, <2>2 DEF Ascending
<1>7. ASSUME NEW types, NEW keyed, NEW n
      PROVE  Made(a, types, keyed, n) <=>
               x.type \in types /\ (x.type \in keyed => x.n = n) /\ Made(s, types, keyed, n)
  BY <1>1, <1>2, <1>3 DEF Made, N
<1>8. ASSUME NEW types PROVE Some(a, types) <=> x.type \in types \/ Some(s, types)
  BY <1>1, <1>2, <1>3 DEF Some, N
<1> QED
  BY <1>1, <1>4, <1>5, <1>6, <1>7, <1>8 DEF a, h

(* Only the place of a message counts, and nothing comes after the third.  *)
LEMMA Places ==
  ASSUME NEW x
  PROVE  /\ Place(x) \in 1..3
         /\ \A y, s : Place(y) = Place(x) => /\ Ahead(<<x>>, s) <=> Ahead(<<y>>, s)
                                             /\ Ahead(s, <<x>>) <=> Ahead(s, <<y>>)
         /\ \A y : Ahead(<<x>>, <<y>>) <=> Place(x) < Place(y)
         /\ \A y, s : Place(x) <= Place(y) /\ Ahead(s, <<x>>) => Ahead(s, <<y>>)
<1>1. \A y : Place(y) \in 1..3 /\ Len(<<y>>) = 1 /\ <<y>>[1] = y
  BY DEF Place
<1> QED
  BY <1>1 DEF Ahead

(* Nothing comes after the last message of a batch.                        *)
LEMMA AfterTheLast ==
  ASSUME NEW R, NEW s \in Seq(R), NEW x, Place(x) = 3, Ahead(<<x>>, s)
  PROVE  s = <<>>
<1>1. SUFFICES ASSUME s # <<>> PROVE FALSE
  OBVIOUS
<1>2. Ahead(<<x>>, <<Head(s)>>)
  BY <1>1, HeadAndTail
<1> QED
  BY <1>2, Places

(* A first message that is not there has nothing of its kind behind it.    *)
LEMMA NoneBehind ==
  ASSUME NEW R, NEW s \in Seq(R), NEW x, NEW type, Ahead(<<x>>, s),
         Place([type |-> type, n |-> 0]) <= Place(x)
  PROVE  ~Some(s, {type})
<1>1. SUFFICES ASSUME NEW i \in 1..Len(s), s[i].type = type PROVE FALSE
  BY DEF Some
<1>2. Place(s[i]) = Place([type |-> type, n |-> 0])
  BY <1>1 DEF Place
<1>3. Place(x) < Place(s[i])
  BY Len(<<x>>) = 1, <<x>>[1] = x DEF Ahead
<1> QED
  BY <1>2, <1>3, Places
-----------------------------------------------------------------------------
(* How a batch moves on.                                                   *)

(* The player answers a message with one of its place.                     *)
LEMMA PipeReceive ==
  ASSUME NEW e, NEW q, NEW s \in Seq(FromClient), NEW t \in Seq(FromServer), NEW b,
         Pipe(e, q, s, t, b), t # <<>>,
         NEW x \in FromClient, Place(x) = Place(Head(t)), x.type \in FromPlayer(b),
         x.type \in Keyed => x.n = b
  PROVE  Pipe(e, q, Append(s, x), Tail(t), b)
<1>1. /\ Ahead(<<Head(t)>>, Tail(t)) /\ Ascending(Tail(t)) /\ Made(Tail(t), ToPlayer(b), {"key"}, b)
      /\ \A r : Ahead(r, t) => Ahead(r, <<Head(t)>>) /\ Ahead(r, Tail(t))
  BY HeadAndTail DEF Pipe
<1>2. \A r : (Ahead(r, <<Head(t)>>) => Ahead(r, <<x>>)) /\ (Ahead(<<Head(t)>>, r) => Ahead(<<x>>, r))
  BY Places
<1>3. /\ \A r : Ahead(r, Append(s, x)) <=> Ahead(r, s) /\ Ahead(r, <<x>>)
      /\ \A r : Ahead(Append(s, x), r) <=> Ahead(s, r) /\ Ahead(<<x>>, r)
      /\ Ascending(Append(s, x)) <=> Ascending(s) /\ Ahead(s, <<x>>)
      /\ Made(Append(s, x), FromPlayer(b), Keyed, b) <=>
           x.type \in FromPlayer(b) /\ (x.type \in Keyed => x.n = b) /\ Made(s, FromPlayer(b), Keyed, b)
  BY Appended
<1> QED
  BY <1>1, <1>2, <1>3 DEF Pipe

(* A last answer comes after everything else.                              *)
LEMMA PipeMore ==
  ASSUME NEW e, NEW q, NEW s \in Seq(FromClient), NEW b, Pipe(e, q, s, <<>>, b),
         NEW x \in FromClient, Ahead(e, <<x>>), Ahead(q, <<x>>), Ahead(s, <<x>>),
         x.type \in FromPlayer(b), x.type \in Keyed => x.n = b
  PROVE  Pipe(e, q, Append(s, x), <<>>, b)
<1>1. \A r : Ahead(r, <<>>) /\ Ahead(<<>>, r)
  BY Empty
<1>2. /\ \A r : Ahead(r, Append(s, x)) <=> Ahead(r, s) /\ Ahead(r, <<x>>)
      /\ Ascending(Append(s, x)) <=> Ascending(s) /\ Ahead(s, <<x>>)
      /\ Made(Append(s, x), FromPlayer(b), Keyed, b) <=>
           x.type \in FromPlayer(b) /\ (x.type \in Keyed => x.n = b) /\ Made(s, FromPlayer(b), Keyed, b)
  BY Appended
<1> QED
  BY <1>1, <1>2 DEF Pipe

(* A message arrives at the server.                                        *)
LEMMA PipePoll ==
  ASSUME NEW e, NEW q \in Seq(Received), NEW s \in Seq(FromClient), NEW t, NEW b,
         Pipe(e, q, s, t, b), s # <<>>,
         NEW x \in Received, x.type = Head(s).type, x.n = Head(s).n
  PROVE  Pipe(e, Append(q, x), Tail(s), t, b)
<1>1. /\ Ahead(<<Head(s)>>, Tail(s)) /\ Ascending(Tail(s)) /\ Made(Tail(s), FromPlayer(b), Keyed, b)
      /\ Head(s).type \in FromPlayer(b) /\ (Head(s).type \in Keyed => Head(s).n = b)
      /\ \A r : Ahead(r, s) => Ahead(r, <<Head(s)>>) /\ Ahead(r, Tail(s))
      /\ \A r : Ahead(s, r) => Ahead(<<Head(s)>>, r) /\ Ahead(Tail(s), r)
  BY HeadAndTail DEF Pipe
<1>2. Place(x) = Place(Head(s))
  BY DEF Place
<1>3. \A r : (Ahead(r, <<Head(s)>>) => Ahead(r, <<x>>)) /\ (Ahead(<<Head(s)>>, r) => Ahead(<<x>>, r))
  BY <1>2, Places
<1>4. /\ \A r : Ahead(r, Append(q, x)) <=> Ahead(r, q) /\ Ahead(r, <<x>>)
      /\ \A r : Ahead(Append(q, x), r) <=> Ahead(q, r) /\ Ahead(<<x>>, r)
      /\ Ascending(Append(q, x)) <=> Ascending(q) /\ Ahead(q, <<x>>)
      /\ Made(Append(q, x), FromPlayer(b), Keyed, b) <=>
           x.type \in FromPlayer(b) /\ (x.type \in Keyed => x.n = b) /\ Made(q, FromPlayer(b), Keyed, b)
  BY Appended
<1> QED
  BY <1>1, <1>3, <1>4 DEF Pipe

(* A message is handled, and may leave an event.                           *)
LEMMA PipeHandle ==
  ASSUME NEW e \in Seq(Received), NEW q \in Seq(Received), NEW s, NEW t, NEW b,
         Pipe(e, q, s, t, b), q # <<>>
  PROVE  /\ Pipe(e, Tail(q), s, t, b)
         /\ Head(q).type \in Events(b) => Pipe(Append(e, Head(q)), Tail(q), s, t, b)
<1> DEFINE x == Head(q)
<1>1. /\ x \in Received
      /\ Ahead(<<x>>, Tail(q)) /\ Ascending(Tail(q)) /\ Made(Tail(q), FromPlayer(b), Keyed, b)
      /\ \A r : Ahead(r, q) => Ahead(r, <<x>>) /\ Ahead(r, Tail(q))
      /\ \A r : Ahead(q, r) => Ahead(<<x>>, r) /\ Ahead(Tail(q), r)
  BY HeadAndTail DEF Pipe
<1> HIDE DEF x
<1>2. /\ \A r : Ahead(Append(e, x), r) <=> Ahead(e, r) /\ Ahead(<<x>>, r)
      /\ Ascending(Append(e, x)) <=> Ascending(e) /\ Ahead(e, <<x>>)
      /\ Made(Append(e, x), Events(b), {}, b) <=>
           x.type \in Events(b) /\ (x.type \in {} => x.n = b) /\ Made(e, Events(b), {}, b)
  BY <1>1, Appended
<1> QED
  BY <1>1, <1>2 DEF Pipe, x

(* An event that is handled leaves the rest of the pipe as it was.         *)
LEMMA PipeEvent ==
  ASSUME NEW e \in Seq(Received), NEW q, NEW s, NEW t, NEW b, Pipe(e, q, s, t, b), e # <<>>
  PROVE  Pipe(Tail(e), q, s, t, b)
<1>1. /\ Ascending(Tail(e)) /\ Made(Tail(e), Events(b), {}, b)
      /\ \A r : Ahead(e, r) => Ahead(Tail(e), r)
  BY HeadAndTail DEF Pipe
<1> QED
  BY <1>1 DEF Pipe

(* What the player had sent when he left, or some of it, may still arrive. *)
LEMMA PipeLeave ==
  ASSUME NEW e, NEW q, NEW s \in Seq(FromClient), NEW t, NEW b, Pipe(e, q, s, t, b),
         NEW n \in 0..Len(s)
  PROVE  Pipe(e, q, SubSeq(s, 1, n), <<>>, b)
<1> DEFINE r == SubSeq(s, 1, n)
<1>1. Len(s) \in Nat /\ Len(r) = n /\ \A i \in 1..n : r[i] = s[i] /\ i \in 1..Len(s)
  OBVIOUS
<1> HIDE DEF r
<1>2. Ascending(r) /\ Made(r, FromPlayer(b), Keyed, b) /\ Ahead(e, r) /\ Ahead(q, r)
  BY <1>1 DEF Pipe, Ascending, Made, Ahead
<1>3. Ahead(e, <<>>) /\ Ahead(q, <<>>) /\ Ahead(r, <<>>) /\ Ascending(<<>>) /\ Made(<<>>, ToPlayer(b), {"key"}, b)
  BY Empty
<1> QED
  BY <1>2, <1>3 DEF Pipe, r

(* When the last of a batch has come nothing more of it is on its way.     *)
LEMMA LastMessage ==
  ASSUME NEW e, NEW q \in Seq(Received), NEW s \in Seq(FromClient), NEW t \in Seq(FromServer), NEW b,
         Pipe(e, q, s, t, b), q # <<>>, Place(Head(q)) = 3
  PROVE  Tail(q) = <<>> /\ s = <<>> /\ t = <<>>
<1>1. /\ Ahead(<<Head(q)>>, Tail(q)) /\ Tail(q) \in Seq(Received)
      /\ \A r : Ahead(q, r) => Ahead(<<Head(q)>>, r)
  BY HeadAndTail DEF Pipe
<1> QED
  BY <1>1, AfterTheLast DEF Pipe

(* When the event is the last of its batch, the pipe is empty after it.    *)
LEMMA LastEvent ==
  ASSUME NEW e \in Seq(Received), NEW q \in Seq(Received), NEW s \in Seq(FromClient), NEW t \in Seq(FromServer),
         NEW b, Pipe(e, q, s, t, b), e # <<>>, Place(Head(e)) = 3
  PROVE  Tail(e) = <<>> /\ q = <<>> /\ s = <<>> /\ t = <<>>
<1>1. /\ Ahead(<<Head(e)>>, Tail(e)) /\ Tail(e) \in Seq(Received)
      /\ \A r : Ahead(e, r) => Ahead(<<Head(e)>>, r)
  BY HeadAndTail DEF Pipe
<1> QED
  BY <1>1, AfterTheLast DEF Pipe

(* A new batch is sent.                                                    *)
LEMMA PipeStart ==
  ASSUME NEW b
  PROVE  /\ Pipe(<<>>, <<>>, <<>>, <<>>, b)
         /\ \A x : x.type \in ToPlayer(b) /\ (x.type = "key" => x.n = b) => Pipe(<<>>, <<>>, <<>>, <<x>>, b)
         /\ \A x, y : /\ x.type \in ToPlayer(b) /\ y.type \in ToPlayer(b)
                      /\ x.type = "key" => x.n = b
                      /\ y.type # "key" /\ x.type = "key"
                      => Pipe(<<>>, <<>>, <<>>, <<x, y>>, b)
<1>1. \A s : /\ Ahead(<<>>, s) /\ Ascending(<<>>) /\ Ahead(s, <<>>)
             /\ \A types, keyed, n : Made(<<>>, types, keyed, n)
  BY Empty
<1>2. \A x : Ascending(<<x>>) /\ (x.type \in ToPlayer(b) /\ (x.type = "key" => x.n = b) => Made(<<x>>, ToPlayer(b), {"key"}, b))
  BY DEF Ascending, Made
<1>3. ASSUME NEW x, NEW y, x.type \in ToPlayer(b), y.type \in ToPlayer(b), x.type = "key" => x.n = b,
             y.type # "key", x.type = "key"
      PROVE  Ascending(<<x, y>>) /\ Made(<<x, y>>, ToPlayer(b), {"key"}, b)
  <2>1. Place(x) = 1
    BY <1>3 DEF Place
  <2>2. Place(y) # 1
    BY <1>3 DEF Place, ToPlayer
  <2>3. Len(<<x, y>>) = 2 /\ <<x, y>>[1] = x /\ <<x, y>>[2] = y
    OBVIOUS
  <2>4. Place(x) < Place(y)
    <3>1. \A z : Place(z) \in 1..3
      BY Places
    <3> QED
      BY <2>1, <2>2, <3>1
  <2>5. \A i \in 1..Len(<<x, y>>) : i = 1 \/ i = 2
    BY <2>3
  <2> QED
    BY <1>3, <2>3, <2>4, <2>5 DEF Ascending, Made
<1> QED
  BY <1>1, <1>2, <1>3 DEF Pipe
-----------------------------------------------------------------------------
(* What a step leaves of a client.                                         *)

(* What waits for one client are messages of the queues' types.            *)
LEMMA Projections ==
  ASSUME TypeOK, NEW c \in Clients
  PROVE  /\ EventsOf(c) \in Seq(Received) /\ MessagesOf(c) \in Seq(Received) /\ PacketsOf(c) \in Seq(Received)
         /\ Filtered(m_aDelayedPackets, Of(c)) \in Seq(Received) /\ Waiting \in Seq(Received)
         /\ toServer[c] \in Seq(FromClient) /\ toClient[c] \in Seq(FromServer)
         /\ JoinsOf(c) \in Seq(FromClient)
<1>1. /\ events \in Seq(Received) /\ m_messagesQueue \in Seq(Received) /\ m_aDelayedPackets \in Seq(Received)
      /\ toServer[c] \in Seq(FromClient) /\ toClient[c] \in Seq(FromServer)
  BY DEF TypeOK
<1>2. Waiting \in Seq(Received)
  <2>1. \A s \in Seq(Received) : s # <<>> => Tail(s) \in Seq(Received)
    OBVIOUS
  <2> QED
    BY <1>1, <2>1 DEF Waiting, FirstHandled
<1> QED
  BY <1>1, <1>2, FilteredPicks DEF EventsOf, MessagesOf, PacketsOf, JoinsOf

(* Who is not concerned by a step stays as he was.                         *)
Same(c) ==
  /\ link'[c] = link[c] /\ toClient'[c] = toClient[c] /\ toServer'[c] = toServer[c] /\ secret'[c] = secret[c]
  /\ client'[c] = client[c] /\ farewells'[c] = farewells[c]
  /\ (c \in net_players') <=> (c \in net_players)
  /\ (c \in playing') <=> (c \in playing)
  /\ (c \in dropped') <=> (c \in dropped)
  /\ (c \in ToSet(m_pending_clients')) <=> (c \in ToSet(m_pending_clients))
  /\ EventsOf(c)' = EventsOf(c) /\ MessagesOf(c)' = MessagesOf(c)
  /\ failed' = "no" => PacketsOf(c)' = PacketsOf(c)
  /\ Filtered(m_aDelayedPackets, Of(c)) = <<>> => Filtered(m_aDelayedPackets', Of(c)) = <<>>
  /\ Parting(c)' <=> Parting(c)
  /\ Closing(c) => Closing(c)'

(* A client is not touched by a step that changes nothing that is his.     *)
LEMMA Frame ==
  ASSUME failed = "no", NEW c \in Clients, PerClient(c), Same(c)
  PROVE  PerClient(c)'
<1>1. Farewell(c)'
  <2>1. Told(c)' <=> Told(c)
    BY DEF Same, Told
  <2>2. Farewell(c)
    BY DEF PerClient
  <2> QED
    BY <2>1, <2>2 DEF Same, Farewell
<1>2. ASSUME NEW b \in 0..5, Batch(c, b)
      PROVE  Batch(c, b)'
  <2>0. JoinsOf(c)' = JoinsOf(c)
    BY DEF Same, JoinsOf
  <2>1. Silent(c)' <=> Silent(c)
    BY <2>0 DEF Same, Silent
  <2>2. Line(c, b)'
    BY <1>2, <2>0, <2>1 DEF Batch, Line, Same
  <2>3. Known(c, b)'
    BY <1>2 DEF Batch, Known, Same
  <2>4. Keys(c, b)'
    BY <1>2, <2>0, <2>1 DEF Batch, Keys, Same
  <2>5. StateFirst(c, b)'
    BY <1>2, <2>0 DEF Batch, StateFirst, Same
  <2>6. Alive(c, b)'
    BY <1>2, <2>0 DEF Batch, Alive, Same
  <2> QED
    BY <2>2, <2>3, <2>4, <2>5, <2>6 DEF Batch
<1>3. Coming(c) => Coming(c)'
  BY DEF Coming, Seated, Same
<1> QED
  BY <1>1, <1>2, <1>3 DEF PerClient, Joining, Same

(* Unchanged queues hold the same for every client.                        *)
LEMMA QueuesKept ==
  ASSUME UNCHANGED queues, handling' = handling, NEW c
  PROVE  /\ EventsOf(c)' = EventsOf(c) /\ MessagesOf(c)' = MessagesOf(c) /\ PacketsOf(c)' = PacketsOf(c)
         /\ Filtered(m_aDelayedPackets', Of(c)) = Filtered(m_aDelayedPackets, Of(c))
BY DEF queues, EventsOf, MessagesOf, PacketsOf, Waiting, FirstHandled, Of

(* Unchanged jobs disconnect the same clients.                             *)
LEMMA JobsKept ==
  ASSUME job' = job, NEW c
  PROVE  (Parting(c)' <=> Parting(c)) /\ (Closing(c)' <=> Closing(c))
BY DEF Parting, Closing

(* The jobs stay as they are, and nobody whose job is at its end is        *)
(* registered again.                                                       *)
LEMMA JobsSoundKept ==
  ASSUME JobsSound, job' = job, link' = link,
         \/ net_players' = net_players
         \/ \A t \in Threads : job[t].step = "clean" => job[t].of \notin net_players' \ net_players
  PROVE  JobsSound'
<1>1. Seated' = Seated
  BY DEF Seated
<1>2. ASSUME NEW t \in Threads PROVE JobSound(t)'
  <2>1. JobSound(t)
    BY DEF JobsSound
  <2> QED
    BY <1>1, <2>1 DEF JobSound
<1> QED
  BY <1>2 DEF JobsSound

(* Who is registered but not connected is being disconnected.              *)
LEMMA RegisteredIsIn ==
  ASSUME Slots, JobsSound, NEW c \in net_players, net_players \subseteq Clients
  PROVE  link[c] \in {"open", "broken", "leaving", "closed"}
BY DEF Slots, JobsSound, JobSound, Seated

(* The connections that are let in stay the same.                          *)
LEMMA ControlKept ==
  ASSUME Control, TypeOK', failed = "no", UNCHANGED <<slots, registry, queues, frame, job, failed>>,
         NEW c \in Clients, \A d \in Clients \ {c} : link'[d] = link[d],
         (c \in Seated') <=> (c \in Seated),
         link'[c] # "leaving", link[c] # "closed", c = Host => link'[c] \in {"none", "connecting", "open", "closed"} /\ (link[c] = "open" => link'[c] = "open")
  PROVE  Control'
<1>1. Seated' = Seated
  BY DEF Seated
<1>2. Slots'
  BY <1>1 DEF Control, Slots, slots, registry
<1>3. /\ \A t \in Threads : job[t].step # "idle" => job[t].of \in Clients
      /\ \A d \in Clients : link[d] = "closed" => link'[d] = "closed"
      /\ handling # Nobody => handling \in Clients
  <2>1. \A t \in Threads : job[t].step # "idle" => job[t].of \in Clients
    BY DEF Control, JobsSound, JobSound, Idle, Clients
  <2>2. \A d \in Clients : link[d] = "closed" => link'[d] = "closed"
    OBVIOUS
  <2>3. handling # Nobody => handling \in Clients
    BY DEF Control, TypeOK
  <2> QED
    BY <2>1, <2>2, <2>3
<1>6. Sound'
  BY <1>3 DEF Control, Sound, Found, Handing, slots, queues, registry, frame
<1>4. JobsSound'
  BY <1>1, <1>3 DEF Control, JobsSound, JobSound, registry
<1>5. HostFirst'
  <2>1. /\ link'[Host] \in {"none", "connecting", "open", "closed"}
        /\ Host \in net_players => link'[Host] = "open"
    BY DEF Control, HostFirst, Clients
  <2> QED
    BY <2>1 DEF Control, HostFirst, slots, registry, queues, Creates
<1> QED
  BY <1>2, <1>4, <1>5, <1>6 DEF Control
-----------------------------------------------------------------------------
(* The players' programs.                                                  *)

(* The steps of the players, of the links and of the network thread that   *)
(* lets them in.                                                           *)
LEMMA ConnectStep ==
  ASSUME IInv, NEW c \in Clients, Connect(c)
  PROVE  IInv'
<1>1. /\ failed = "no" /\ failed' = "no" /\ TypeOK /\ link[c] = "none" /\ link' = [link EXCEPT ![c] = "connecting"]
      /\ UNCHANGED <<peers, slots, registry, queues, frame, job, farewells, failed>>
  BY DEF IInv, Control, Connect
<1>2. TypeOK'
  BY <1>1 DEF TypeOK, peers, slots, registry, queues, frame, Links
<1>3. /\ link \in [Clients -> Links] /\ link'[c] = "connecting" /\ \A d \in Clients \ {c} : link'[d] = link[d]
  BY <1>1 DEF TypeOK
<1>4. Control'
  BY <1>1, <1>2, <1>3, ControlKept DEF IInv, Seated
<1>5. ASSUME NEW d \in Clients \ {c} PROVE PerClient(d)'
  <2>1. Same(d)
    BY <1>1, <1>3, <1>5, QueuesKept, JobsKept DEF Same, peers, slots, registry, frame
  <2> QED
    BY <1>1, <1>5, <2>1, Frame DEF IInv
<1>6. PerClient(c)'
  <2>1. c \notin net_players
    BY <1>1, RegisteredIsIn DEF IInv, Control, TypeOK
  <2>2. Coming(c) /\ Farewell(c)
    BY <1>1, <2>1 DEF IInv, PerClient
  <2>3. c \notin Seated /\ (c \notin Seated')
    BY <1>1, <1>3 DEF Seated
  <2>4. Coming(c)'
    BY <1>1, <2>2, <2>3, QueuesKept DEF Coming, peers, registry, frame
  <2>5. Farewell(c)'
    BY <1>1, <1>3, <2>1, <2>2 DEF Farewell, Told, registry
  <2> QED
    BY <1>1, <1>3, <2>1, <2>4, <2>5 DEF PerClient, registry
<1> QED
  BY <1>4, <1>5, <1>6 DEF IInv

(* One answer of the place of the message it answers.                      *)
LEMMA BatchReceive ==
  ASSUME TypeOK, TypeOK', failed = "no", NEW c \in Clients, NEW b \in 0..5, Batch(c, b), toClient[c] # <<>>,
         NEW x \in FromClient, Place(x) = Place(Head(toClient[c])), x.type \in FromPlayer(b),
         x.type \in Keyed => x.n = b,
         x.type \notin {"state", "auth"} /\ Head(toClient[c]).type # "challenge",
         Head(toClient[c]).type = "key" => x.type = "ack" /\ secret'[c] = b,
         Head(toClient[c]).type # "key" => secret'[c] = secret[c],
         Head(toClient[c]).type \in {"challenge", "digest", "result", "map", "configured"} =>
           x.type \in {"digest", "map", "request", "ready"},
         toClient'[c] = Tail(toClient[c]), JoinsOf(c)' = Append(JoinsOf(c), x),
         link'[c] = link[c], UNCHANGED <<registry, queues, frame, job, failed>>
  PROVE  Batch(c, b)'
<1> DEFINE e == EventsOf(c)
           q == MessagesOf(c)
           s == JoinsOf(c)
           t == toClient[c]
           h == Head(t)
<1>1. /\ t \in Seq(FromServer) /\ s \in Seq(FromClient) /\ t # <<>>
      /\ EventsOf(c)' = e /\ MessagesOf(c)' = q /\ PacketsOf(c)' = PacketsOf(c)
      /\ (Closing(c)' <=> Closing(c)) /\ JoinsOf(c)' = Append(s, x) /\ toClient'[c] = Tail(t)
      /\ client' = client /\ dropped' = dropped
  BY Projections, QueuesKept, JobsKept DEF registry, frame
<1>2. PacketsOf(c) = <<>> /\ ~Silent(c)
  BY DEF Batch, Line, Silent
<1>3. /\ \A types : Some(Append(s, x), types) <=> x.type \in types \/ Some(s, types)
      /\ \A types : Some(t, types) <=> h.type \in types \/ Some(Tail(t), types)
  <2> HIDE DEF s, t
  <2>1. \A types : Some(Append(s, x), types) <=> x.type \in types \/ Some(s, types)
    BY <1>1, Appended
  <2> QED
    BY <1>1, <2>1, HeadAndTail
<1>4. Pipe(e, q, Append(s, x), Tail(t), b)
  BY <1>1, PipeReceive DEF Batch, Line
<1>5. h.type \in {"connected", "key", "challenge", "digest", "result", "map", "configured"}
  <2> HIDE DEF t
  <2>1. h \in FromServer
    BY <1>1, HeadAndTail
  <2> QED
    BY <2>1 DEF FromServer
<1> HIDE DEF h, e, q, s, t
<1>6. Line(c, b)'
  BY <1>1, <1>2, <1>4 DEF Line
<1>7. Known(c, b)'
  BY <1>1 DEF Batch, Known
<1>8. Keys(c, b)'
  <2>1. Keys(c, b)
    BY DEF Batch
  <2>2. CASE h.type = "key"
    BY <1>1, <1>3, <2>2 DEF Keys, h, e, q, s, t
  <2>3. CASE h.type # "key"
    <3>1. ASSUME b \in 1..3
          PROVE  secret'[c] = b \/ Tail(t) = <<>> \/ Some(Tail(t), {"key"})
      BY <1>1, <1>3, <2>1, <2>3, <3>1 DEF Keys, h, t
    <3>2. ASSUME b \in 1..3
          PROVE  client[c].m_secret_key = b \/ Some(q, {"ack"}) \/ Some(Append(s, x), {"ack"}) \/ Some(Tail(t), {"key"})
      BY <1>1, <1>2, <1>3, <2>1, <2>3, <3>2 DEF Keys, h, q, s, t
    <3> QED
      BY <1>1, <3>1, <3>2 DEF Keys
  <2> QED
    BY <2>2, <2>3
<1>9. StateFirst(c, b)'
  BY <1>1, <1>3 DEF Batch, StateFirst, h, e, q, s, t
<1>10. Alive(c, b)'
  <2>1. ASSUME failed = "no", link[c] = "open", c \notin dropped \cup {Host}, ~Closing(c), ~(b = 5 /\ client[c].owner)
        PROVE  \/ Some(e, {"create", "auth"}) \/ Some(q, {"auth", "digest", "map", "request", "ready"})
               \/ Some(s, {"auth", "digest", "map", "request", "ready"})
               \/ Some(t, {"challenge", "digest", "result", "map", "configured"})
    BY <1>2, <2>1 DEF Batch, Alive, e, q, s, t
  <2>2. Some(t, {"challenge", "digest", "result", "map", "configured"}) =>
          \/ Some(Append(s, x), {"auth", "digest", "map", "request", "ready"})
          \/ Some(Tail(t), {"challenge", "digest", "result", "map", "configured"})
    <3>1. CASE h.type \in {"challenge", "digest", "result", "map", "configured"}
      BY <1>3, <3>1 DEF h, t
    <3>2. CASE h.type \notin {"challenge", "digest", "result", "map", "configured"}
      BY <1>3, <3>2
    <3> QED
      BY <3>1, <3>2
  <2>3. Some(s, {"auth", "digest", "map", "request", "ready"}) =>
          Some(Append(s, x), {"auth", "digest", "map", "request", "ready"})
    BY <1>3
  <2> QED
    BY <1>1, <2>1, <2>2, <2>3 DEF Alive
<1> QED
  BY <1>6, <1>7, <1>8, <1>9, <1>10 DEF Batch

(* The two answers to the challenge.                                       *)
LEMMA BatchChallenge ==
  ASSUME TypeOK, TypeOK', failed = "no", NEW c \in Clients, NEW b \in 0..5, Batch(c, b), toClient[c] # <<>>,
         Head(toClient[c]).type = "challenge", NEW x \in FromClient, NEW y \in FromClient,
         x = Message("state", secret[c]), y = Message("auth", secret[c]),
         toClient'[c] = Tail(toClient[c]), JoinsOf(c)' = Append(Append(JoinsOf(c), x), y),
         secret' = secret, link'[c] = link[c], UNCHANGED <<registry, queues, frame, job, failed>>
  PROVE  Batch(c, b)'
<1> DEFINE e == EventsOf(c)
           q == MessagesOf(c)
           s == JoinsOf(c)
           t == toClient[c]
           h == Head(t)
<1>1. /\ t \in Seq(FromServer) /\ s \in Seq(FromClient) /\ t # <<>>
      /\ EventsOf(c)' = e /\ MessagesOf(c)' = q /\ PacketsOf(c)' = PacketsOf(c)
      /\ JoinsOf(c)' = Append(Append(s, x), y) /\ toClient'[c] = Tail(t) /\ client' = client
  BY Projections, QueuesKept DEF registry, frame
<1>2. PacketsOf(c) = <<>> /\ ~Silent(c) /\ Pipe(e, q, s, t, b)
  BY DEF Batch, Line, Silent
<1>3. /\ x.type = "state" /\ y.type = "auth" /\ Place(x) = 2 /\ Place(y) = 3 /\ Place(h) = 2
  BY DEF Message, Place
<1>4. /\ h \in FromServer /\ Tail(t) \in Seq(FromServer) /\ Ahead(<<h>>, Tail(t))
      /\ h.type \in ToPlayer(b) /\ Made(Tail(t), ToPlayer(b), {"key"}, b)
      /\ \A types : Some(t, types) <=> h.type \in types \/ Some(Tail(t), types)
  BY <1>1, <1>2, HeadAndTail, ZenonT(60) DEF Pipe
<1>5. b = 1
  BY <1>4 DEF ToPlayer
<1>6. Tail(t) = <<>>
  <2>1. SUFFICES ASSUME Tail(t) # <<>> PROVE FALSE
    OBVIOUS
  <2> DEFINE g == Head(Tail(t))
  <2>2. g.type \in {"key", "challenge"} /\ Ahead(<<h>>, <<g>>)
    BY <1>4, <1>5, <2>1, HeadAndTail DEF ToPlayer
  <2>4. Place(h) < Place(g)
    BY <2>2, Places
  <2> HIDE DEF g
  <2>3. Place(g) <= 2
    BY <2>2 DEF Place
  <2>5. Place(g) \in 1..3
    BY Places
  <2> HIDE DEF g, h
  <2> QED
    BY <1>3, <2>3, <2>4, <2>5
<1>7. ~Some(t, {"key"})
  <2>1. ~Some(<<>>, {"key"})
    BY Empty
  <2> QED
    BY <1>4, <1>6, <2>1
<1>8. secret[c] = 1 /\ x.n = b /\ y.n = b
  <2>1. secret[c] = b
    BY <1>1, <1>5, <1>7 DEF Batch, Keys
  <2> QED
    BY <1>5, <2>1 DEF Message
<1> DEFINE r == Append(s, x)
<1>9. r \in Seq(FromClient) /\ Pipe(e, q, r, <<>>, b)
  <2>0. r \in Seq(FromClient)
    BY <1>1
  <2>1. x.type \in FromPlayer(b) /\ Place(x) = Place(h)
    BY <1>3, <1>5 DEF FromPlayer
  <2>2. Pipe(e, q, Append(s, x), Tail(t), b)
    BY <1>1, <1>2, <1>8, <2>1, PipeReceive
  <2> QED
    BY <1>1, <1>6, <2>0, <2>2
<1> HIDE DEF h, e, q, s, t, r
<1>10. /\ \A types : Some(r, types) <=> x.type \in types \/ Some(s, types)
       /\ \A types : Some(Append(r, y), types) <=> y.type \in types \/ Some(r, types)
       /\ \A u : Ahead(u, r) <=> Ahead(u, s) /\ Ahead(u, <<x>>)
       /\ \A u : Ahead(r, u) <=> Ahead(s, u) /\ Ahead(<<x>>, u)
       /\ Ascending(r) <=> Ascending(s) /\ Ahead(s, <<x>>)
  <2>1. /\ \A types : Some(r, types) <=> x.type \in types \/ Some(s, types)
        /\ \A u : Ahead(u, r) <=> Ahead(u, s) /\ Ahead(u, <<x>>)
        /\ \A u : Ahead(r, u) <=> Ahead(s, u) /\ Ahead(<<x>>, u)
        /\ Ascending(r) <=> Ascending(s) /\ Ahead(s, <<x>>)
    BY <1>1, Appended DEF r
  <2>2. r \in Seq(FromClient)
    BY <1>9
  <2>3. \A types : Some(Append(r, y), types) <=> y.type \in types \/ Some(r, types)
    <3>1. \A z \in FromClient : \A types : Some(Append(r, z), types) <=> z.type \in types \/ Some(r, types)
      BY <2>2, Appended
    <3> QED
      BY <3>1
  <2> QED
    BY <2>1, <2>3
<1>11. Pipe(e, q, Append(r, y), <<>>, b)
  <2>1. Place(x) <= Place(y) /\ Place(x) < Place(y)
    BY <1>3
  <2>2. \A u : Ahead(u, <<x>>) => Ahead(u, <<y>>)
    BY <2>1, Places
  <2>3. Ahead(<<x>>, <<y>>)
    BY <2>1, Places
  <2>4. Ahead(e, <<y>>) /\ Ahead(q, <<y>>) /\ Ahead(r, <<y>>)
    BY <1>9, <1>10, <2>2, <2>3 DEF Pipe
  <2>5. y.type \in FromPlayer(b)
    BY <1>3, <1>5 DEF FromPlayer
  <2> QED
    BY <1>8, <1>9, <2>4, <2>5, PipeMore
<1>12. Line(c, b)'
  BY <1>1, <1>2, <1>6, <1>11 DEF Line, r
<1>13. Known(c, b)'
  BY <1>1 DEF Batch, Known
<1>14. Keys(c, b)'
  <2>1. client[c].m_secret_key = b \/ Some(q, {"ack"}) \/ Some(s, {"ack"})
    BY <1>1, <1>2, <1>5, <1>7 DEF Batch, Keys, h, e, q, s, t
  <2>2. client[c].m_secret_key = b \/ Some(q, {"ack"}) \/ Some(Append(r, y), {"ack"})
    BY <1>10, <2>1
  <2> QED
    BY <1>1, <1>5, <1>8, <2>2 DEF Keys, r
<1>15. StateFirst(c, b)' /\ Alive(c, b)'
  <2>1. Some(Append(r, y), {"state"})
    BY <1>3, <1>10
  <2>2. Some(Append(r, y), {"auth", "digest", "map", "request", "ready"})
    BY <1>3, <1>10
  <2> QED
    BY <1>1, <2>1, <2>2 DEF StateFirst, Alive, r
<1> QED
  BY <1>12, <1>13, <1>14, <1>15 DEF Batch

(* What the answers are.                                                   *)
LEMMA Answers ==
  ASSUME NEW c, secret[c] \in Seeds, NEW m \in FromServer
  PROVE  /\ m.type = "connected" => Answer(c, m) = <<Message("data", 0)>>
         /\ m.type = "key" => Answer(c, m) = <<Message("ack", m.n)>>
         /\ m.type = "challenge" => Answer(c, m) = <<Message("state", secret[c]), Message("auth", secret[c])>>
         /\ m.type = "digest" => Answer(c, m) = <<Message("digest", secret[c])>>
         /\ m.type = "result" => Answer(c, m) = <<Message("map", 0)>>
         /\ m.type = "map" => Answer(c, m) = <<Message("request", 0)>>
         /\ m.type = "configured" => Answer(c, m) = <<Message("ready", 0)>>
         /\ Answer(c, m) \in Seq(FromClient) /\ m.n \in Seeds
         /\ Filtered(Answer(c, m), Joins) = Answer(c, m)
         /\ m.type \in {"connected", "key", "challenge", "digest", "result", "map", "configured"}
<1>1. m.type \in {"connected", "key", "challenge", "digest", "result", "map", "configured"} /\ m.n \in Seeds
  BY DEF FromServer
<1>2. \A n \in Seeds : \A type \in {"data", "ack", "state", "auth", "digest", "map", "request", "ready"} :
        Message(type, n) \in FromClient /\ Message(type, n) \in Joins
  BY DEF Message, FromClient, Joins
<1>3. \A x, y \in FromClient : /\ <<x>> \in Seq(FromClient) /\ <<x, y>> \in Seq(FromClient)
                               /\ x \in Joins => Filtered(<<x>>, Joins) = <<x>>
                               /\ x \in Joins /\ y \in Joins => Filtered(<<x, y>>, Joins) = <<x, y>>
  <2>1. TAKE x, y \in FromClient
  <2>2. <<x>> \in Seq(FromClient) /\ <<x, y>> \in Seq(FromClient) /\ <<x, y>> = Append(<<x>>, y)
    OBVIOUS
  <2>3. x \in Joins => Filtered(<<x>>, Joins) = <<x>>
    BY FilteredOne
  <2>4. x \in Joins /\ y \in Joins => Filtered(Append(<<x>>, y), Joins) = <<x, y>>
    BY <2>2, <2>3, FilteredAppend, ZenonT(60)
  <2> QED
    BY <2>2, <2>3, <2>4
<1>4. 0 \in Seeds
  BY DEF Seeds
<1>5. CASE m.type = "connected"
  BY <1>1, <1>2, <1>3, <1>4, <1>5 DEF Answer
<1>6. CASE m.type = "key"
  BY <1>1, <1>2, <1>3, <1>6 DEF Answer
<1>7. CASE m.type = "challenge"
  BY <1>1, <1>2, <1>3, <1>7 DEF Answer
<1>8. CASE m.type = "digest"
  BY <1>1, <1>2, <1>3, <1>8 DEF Answer
<1>9. CASE m.type = "result"
  BY <1>1, <1>2, <1>3, <1>4, <1>9 DEF Answer
<1>10. CASE m.type = "map"
  BY <1>1, <1>2, <1>3, <1>4, <1>10 DEF Answer
<1>11. CASE m.type = "configured"
  BY <1>1, <1>2, <1>3, <1>4, <1>11 DEF Answer
<1> QED
  BY <1>1, <1>5, <1>6, <1>7, <1>8, <1>9, <1>10, <1>11

LEMMA ClientReceiveStep ==
  ASSUME IInv, NEW c \in Clients, ClientReceive(c)
  PROVE  IInv'
<1> DEFINE t == toClient[c]
           s == toServer[c]
           h == Head(t)
<1>1. /\ failed = "no" /\ failed' = "no" /\ TypeOK /\ link[c] = "open" /\ t # <<>>
      /\ toClient' = [toClient EXCEPT ![c] = Tail(@)]
      /\ toServer' = [toServer EXCEPT ![c] = @ \o Answer(c, h)]
      /\ secret' = IF h.type = "key" THEN [secret EXCEPT ![c] = h.n] ELSE secret
      /\ playing' = IF h.type = "configured" THEN playing \cup {c} ELSE playing
      /\ UNCHANGED <<link, slots, registry, queues, frame, job, farewells, failed>>
  BY DEF IInv, Control, ClientReceive
<1>2. /\ t \in Seq(FromServer) /\ s \in Seq(FromClient) /\ secret \in [Clients -> Seeds] /\ secret[c] \in Seeds
      /\ toClient \in [Clients -> Seq(FromServer)] /\ toServer \in [Clients -> Seq(FromClient)]
      /\ playing \subseteq Clients
  BY <1>1 DEF TypeOK
<1>3. h \in FromServer /\ Tail(t) \in Seq(FromServer)
  <2> HIDE DEF t
  <2> QED
    BY <1>1, <1>2
<1> HIDE DEF h
<1>4. Answer(c, h) \in Seq(FromClient) /\ h.n \in Seeds /\ Filtered(Answer(c, h), Joins) = Answer(c, h)
  BY <1>2, <1>3, Answers
<1>5. /\ toClient'[c] = Tail(t) /\ toServer'[c] = s \o Answer(c, h)
      /\ secret'[c] = IF h.type = "key" THEN h.n ELSE secret[c]
      /\ \A d \in Clients \ {c} : toClient'[d] = toClient[d] /\ toServer'[d] = toServer[d] /\ secret'[d] = secret[d]
  BY <1>1, <1>2
<1> DEFINE j == JoinsOf(c)
<1>14. j \in Seq(FromClient) /\ JoinsOf(c)' = j \o Answer(c, h)
  <2>1. JoinsOf(c) \in Seq(FromClient)
    BY <1>1, Projections
  <2>2. JoinsOf(c)' = Filtered(s \o Answer(c, h), Joins)
    BY <1>5 DEF JoinsOf
  <2>3. Filtered(s \o Answer(c, h), Joins) = Filtered(s, Joins) \o Filtered(Answer(c, h), Joins)
    <3>1. PICK r : r = s
      OBVIOUS
    <3>2. PICK a : a = Answer(c, h)
      OBVIOUS
    <3>3. r \in Seq(FromClient) /\ a \in Seq(FromClient)
      BY <1>2, <1>4, <3>1, <3>2
    <3>4. Filtered(r \o a, Joins) = Filtered(r, Joins) \o Filtered(a, Joins)
      BY <3>3, FilteredConcat
    <3> QED
      BY <3>1, <3>2, <3>4
  <2> QED
    BY <1>4, <2>1, <2>2, <2>3 DEF JoinsOf
<1>6. TypeOK'
  <2>1. s \o Answer(c, h) \in Seq(FromClient)
    BY <1>2, <1>4
  <2>2. toServer' \in [Clients -> Seq(FromClient)] /\ toClient' \in [Clients -> Seq(FromServer)]
    BY <1>1, <1>2, <1>3, <2>1
  <2>3. secret' \in [Clients -> Seeds]
    BY <1>1, <1>2, <1>4
  <2>4. playing' \subseteq Clients
    BY <1>1, <1>2
  <2> QED
    BY <1>1, <2>2, <2>3, <2>4 DEF TypeOK, slots, registry, queues, frame
<1>7. Control'
  BY <1>1, <1>6, ControlKept DEF IInv, Seated
<1>8. ASSUME NEW d \in Clients \ {c} PROVE PerClient(d)'
  <2>1. Same(d)
    BY <1>1, <1>5, <1>8, QueuesKept, JobsKept DEF Same, slots, registry, frame
  <2> QED
    BY <1>1, <1>8, <2>1, Frame DEF IInv
<1>9. PerClient(c)
  BY DEF IInv
<1>10. Farewell(c)'
  <2>1. Farewell(c)
    BY <1>9 DEF PerClient
  <2> QED
    BY <1>1, <2>1, QueuesKept, JobsKept DEF Farewell, Told, registry, frame
<1>11. ASSUME c \notin net_players PROVE Coming(c)'
  <2>1. Coming(c) /\ c \in Seated
    BY <1>1, <1>9, <1>11 DEF PerClient, Seated
  <2>2. t = <<Message("connected", 0)>> /\ s = <<>> /\ c \notin ToSet(m_pending_clients)
    BY <1>1, <2>1 DEF Coming
  <2>3. h.type = "connected" /\ Tail(t) = <<>>
    BY <2>2 DEF h, Message
  <2>4. s \o Answer(c, h) = <<Message("data", 0)>>
    BY <1>2, <1>3, <2>2, <2>3, Answers
  <2> HIDE DEF t, s
  <2> QED
    BY <1>1, <1>5, <2>1, <2>2, <2>3, <2>4, QueuesKept DEF Coming, Seated, slots, registry, frame
<1>12. ASSUME NEW b \in 0..5, Batch(c, b) PROVE Batch(c, b)'
  <2>1. h.type \in ToPlayer(b) /\ (h.type = "key" => h.n = b)
    <3>1. Made(t, ToPlayer(b), {"key"}, b)
      BY <1>12 DEF Batch, Line, Pipe
    <3> HIDE DEF t
    <3>2. \A types, keyed, n : Made(t, types, keyed, n) =>
            Head(t).type \in types /\ (Head(t).type \in keyed => Head(t).n = n)
      BY <1>1, <1>2, HeadAndTail
    <3> QED
      BY <3>1, <3>2 DEF h
  <2> HIDE DEF j
  <2>2. \A x \in FromClient : j \o <<x>> = Append(j, x)
    BY <1>14
  <2>3. \A x, y \in FromClient : j \o <<x, y>> = Append(Append(j, x), y)
    BY <1>14
  <2>4. \A n \in Seeds : \A type \in {"data", "ack", "state", "auth", "digest", "map", "request", "ready"} :
          Message(type, n) \in FromClient
    BY DEF Message, FromClient
  <2>5. 0 \in Seeds
    BY DEF Seeds
  <2>6. CASE h.type = "challenge"
    <3>1. PICK x \in FromClient, y \in FromClient : x = Message("state", secret[c]) /\ y = Message("auth", secret[c])
      BY <1>2, <2>4
    <3>2. JoinsOf(c)' = Append(Append(JoinsOf(c), x), y)
      <4>1. Answer(c, h) = <<Message("state", secret[c]), Message("auth", secret[c])>>
        BY <1>2, <1>3, <2>6, Answers
      <4>2. Answer(c, h) = <<x, y>>
        BY <3>1, <4>1
      <4>3. JoinsOf(c)' = j \o <<x, y>>
        BY <1>14, <4>2
      <4> QED
        BY <2>3, <4>3 DEF j
    <3>3. secret' = secret
      BY <1>1, <2>6
    <3> QED
      BY <1>1, <1>5, <1>6, <1>12, <2>6, <3>1, <3>2, <3>3, BatchChallenge DEF h
  <2>7. ASSUME NEW x \in FromClient, Answer(c, h) = <<x>>, h.type # "challenge",
               Place(x) = Place(h), x.type \in FromPlayer(b), x.type \in Keyed => x.n = b,
               x.type \notin {"state", "auth"}, h.type = "key" => x.type = "ack" /\ secret'[c] = b,
               h.type \in {"challenge", "digest", "result", "map", "configured"} =>
                 x.type \in {"digest", "map", "request", "ready"}
        PROVE  Batch(c, b)'
    <3>1. JoinsOf(c)' = Append(JoinsOf(c), x)
      BY <1>14, <2>2, <2>7 DEF j
    <3>2. h.type # "key" => secret'[c] = secret[c]
      BY <1>1
    <3> QED
      BY <1>1, <1>5, <1>6, <1>12, <2>7, <3>1, <3>2, BatchReceive DEF h
  <2>8. CASE h.type = "key"
    <3>1. PICK x \in FromClient : x = Message("ack", h.n)
      BY <1>4, <2>4
    <3>2. Answer(c, h) = <<x>>
      BY <1>2, <1>3, <2>8, <3>1, Answers
    <3>3. x.type = "ack" /\ x.n = b /\ secret'[c] = b
      BY <1>5, <2>1, <2>8, <3>1 DEF Message
    <3>4. Place(x) = Place(h) /\ x.type \in FromPlayer(b)
      BY <2>1, <2>8, <3>3 DEF Place, FromPlayer, ToPlayer
    <3> QED
      BY <2>7, <2>8, <3>2, <3>3, <3>4
  <2>9. CASE h.type = "digest"
    <3>1. PICK x \in FromClient : x = Message("digest", secret[c])
      BY <1>2, <2>4
    <3>2. Answer(c, h) = <<x>>
      BY <1>2, <1>3, <2>9, <3>1, Answers
    <3>3. b = 2
      BY <2>1, <2>9 DEF ToPlayer
    <3>4. ~Some(t, {"key"})
      <4>1. Ahead(<<h>>, Tail(t)) /\ (Some(t, {"key"}) => h.type = "key" \/ Some(Tail(t), {"key"}))
        <5>1. Ascending(t)
          BY <1>12 DEF Batch, Line, Pipe
        <5> HIDE DEF t
        <5>2. Ascending(t) => Ahead(<<h>>, Tail(t))
          BY <1>1, <1>2, HeadAndTail DEF h
        <5>3. \A types : Some(t, types) => h.type \in types \/ Some(Tail(t), types)
          BY <1>1, <1>2, HeadAndTail DEF h
        <5> QED
          BY <5>1, <5>2, <5>3
      <4>2. Place(h) = 3 /\ Place([type |-> "key", n |-> 0]) = 1
        BY <2>9 DEF Place
      <4>3. ~Some(Tail(t), {"key"})
        <5>1. Place([type |-> "key", n |-> 0]) <= Place(h) /\ Ahead(<<h>>, Tail(t))
          BY <4>1, <4>2
        <5> HIDE DEF t
        <5> QED
          BY <1>3, <5>1, NoneBehind
      <4> QED
        BY <2>9, <4>1, <4>3
    <3>5. x.type = "digest" /\ x.n = b
      BY <1>1, <1>12, <3>1, <3>3, <3>4 DEF Message, Batch, Keys
    <3>6. Place(x) = Place(h) /\ x.type \in FromPlayer(b)
      BY <2>9, <3>3, <3>5 DEF Place, FromPlayer
    <3> QED
      BY <2>7, <2>9, <3>2, <3>5, <3>6
  <2>10. CASE h.type = "result"
    <3>1. PICK x \in FromClient : x = Message("map", 0)
      BY <2>4, <2>5
    <3>2. Answer(c, h) = <<x>> /\ x.type = "map"
      BY <1>2, <1>3, <2>10, <3>1, Answers DEF Message
    <3>3. Place(x) = Place(h) /\ x.type \in FromPlayer(b) /\ x.type \notin Keyed
      BY <2>1, <2>10, <3>2 DEF Place, FromPlayer, ToPlayer, Keyed
    <3> QED
      BY <2>7, <2>10, <3>2, <3>3
  <2>11. CASE h.type = "map"
    <3>1. PICK x \in FromClient : x = Message("request", 0)
      BY <2>4, <2>5
    <3>2. Answer(c, h) = <<x>> /\ x.type = "request"
      BY <1>2, <1>3, <2>11, <3>1, Answers DEF Message
    <3>3. Place(x) = Place(h) /\ x.type \in FromPlayer(b) /\ x.type \notin Keyed
      BY <2>1, <2>11, <3>2 DEF Place, FromPlayer, ToPlayer, Keyed
    <3> QED
      BY <2>7, <2>11, <3>2, <3>3
  <2>12. CASE h.type = "configured"
    <3>1. PICK x \in FromClient : x = Message("ready", 0)
      BY <2>4, <2>5
    <3>2. Answer(c, h) = <<x>> /\ x.type = "ready"
      BY <1>2, <1>3, <2>12, <3>1, Answers DEF Message
    <3>3. Place(x) = Place(h) /\ x.type \in FromPlayer(b) /\ x.type \notin Keyed
      BY <2>1, <2>12, <3>2 DEF Place, FromPlayer, ToPlayer, Keyed
    <3> QED
      BY <2>7, <2>12, <3>2, <3>3
  <2> QED
    BY <2>1, <2>6, <2>8, <2>9, <2>10, <2>11, <2>12 DEF ToPlayer
<1>13. PerClient(c)'
  BY <1>1, <1>9, <1>10, <1>11, <1>12 DEF PerClient, Joining, registry
<1> QED
  BY <1>7, <1>8, <1>13 DEF IInv

(* Of the joining messages a player has sent the first arrive.             *)
LEMMA JoinsArrive ==
  ASSUME NEW s \in Seq(FromClient), NEW n \in 0..Len(s)
  PROVE  \E m \in 0..Len(Filtered(s, Joins)) :
           Filtered(SubSeq(s, 1, n), Joins) = SubSeq(Filtered(s, Joins), 1, m)
<1> DEFINE a == SubSeq(s, 1, n)
           z == SubSeq(s, n + 1, Len(s))
<1>1. a \in Seq(FromClient) /\ z \in Seq(FromClient) /\ s = a \o z
  <2>1. /\ Len(s) \in Nat /\ n \in Nat /\ n <= Len(s) /\ n + 1 \in Int /\ Len(s) \in Int
        /\ \A i \in 1..Len(s) : s[i] \in FromClient
    BY LenProperties, ElementOfSeq
  <2>2. /\ \A i \in 1..n : s[i] \in FromClient
        /\ \A i \in (n + 1)..Len(s) : s[i] \in FromClient
    BY <2>1
  <2>3. /\ a \in Seq(FromClient) /\ Len(a) = IF 1 <= n THEN n - 1 + 1 ELSE 0
        /\ \A i \in 1..(n - 1 + 1) : a[i] = s[1 + i - 1]
    BY <2>1, <2>2, SubSeqProperties, 1 \in Int, n \in Int
  <2>4. /\ z \in Seq(FromClient) /\ Len(z) = IF n + 1 <= Len(s) THEN Len(s) - (n + 1) + 1 ELSE 0
        /\ \A i \in 1..(Len(s) - (n + 1) + 1) : z[i] = s[n + 1 + i - 1]
    BY <2>1, <2>2, SubSeqProperties
  <2> HIDE DEF a, z
  <2>5. /\ Len(a) = n /\ \A i \in 1..n : a[i] = s[i]
        /\ Len(z) = Len(s) - n /\ \A i \in 1..Len(s) : i > n => i - n \in 1..Len(z) /\ z[i - n] = s[i]
    <3>1. Len(a) = n /\ \A i \in 1..n : a[i] = s[i]
      BY <2>1, <2>3
    <3>2. Len(z) = Len(s) - n
      BY <2>1, <2>4
    <3>3. ASSUME NEW i \in 1..Len(s), i > n PROVE i - n \in 1..Len(z) /\ z[i - n] = s[i]
      <4>1. i - n \in 1..(Len(s) - (n + 1) + 1) /\ n + 1 + (i - n) - 1 = i /\ i - n \in 1..Len(z)
        BY <2>1, <3>2, <3>3
      <4> QED
        BY <2>4, <4>1
    <3> QED
      BY <3>1, <3>2, <3>3
  <2>6. /\ a \o z \in Seq(FromClient) /\ Len(a \o z) = Len(a) + Len(z)
        /\ \A i \in 1..(Len(a) + Len(z)) : (a \o z)[i] = IF i <= Len(a) THEN a[i] ELSE z[i - Len(a)]
    BY <2>3, <2>4, ConcatProperties
  <2>7. Len(a \o z) = Len(s) /\ \A i \in 1..Len(s) : (a \o z)[i] = s[i]
    BY <2>1, <2>5, <2>6
  <2> QED
    BY <2>3, <2>4, <2>6, <2>7, SeqEqual
<1> HIDE DEF a, z
<1>2. PICK f : f = Filtered(a, Joins)
  OBVIOUS
<1>3. PICK g : g = Filtered(z, Joins)
  OBVIOUS
<1>4. f \in Seq(FromClient) /\ g \in Seq(FromClient) /\ Filtered(s, Joins) = f \o g
  <2>1. f \in Seq(FromClient) /\ g \in Seq(FromClient)
    BY <1>1, <1>2, <1>3, FilteredPicks
  <2>2. Filtered(a \o z, Joins) = Filtered(a, Joins) \o Filtered(z, Joins)
    BY <1>1, FilteredConcat
  <2> QED
    BY <1>1, <1>2, <1>3, <2>1, <2>2
<1>5. Len(f) \in 0..Len(f \o g) /\ SubSeq(f \o g, 1, Len(f)) = f
  BY <1>4
<1>6. Len(f) \in 0..Len(Filtered(s, Joins)) /\ SubSeq(Filtered(s, Joins), 1, Len(f)) = f
  BY <1>4, <1>5
<1> QED
  BY <1>2, <1>6 DEF a

(* What does not arrive of a player who has left is no loss: the server    *)
(* does not wait for it.                                                   *)
LEMMA BatchLeave ==
  ASSUME TypeOK, failed = "no", NEW c \in Clients, NEW b \in 0..5, Batch(c, b),
         NEW n \in 0..Len(JoinsOf(c)), JoinsOf(c)' = SubSeq(JoinsOf(c), 1, n), toClient'[c] = <<>>,
         secret' = secret, link[c] # "closed", link'[c] \in {"broken", "closed"},
         UNCHANGED <<registry, queues, handling>>
  PROVE  Batch(c, b)'
<1> DEFINE e == EventsOf(c)
           q == MessagesOf(c)
           s == JoinsOf(c)
           t == toClient[c]
           r == SubSeq(s, 1, n)
<1>1. /\ e \in Seq(Received) /\ q \in Seq(Received) /\ t \in Seq(FromServer) /\ s \in Seq(FromClient)
      /\ EventsOf(c)' = e /\ MessagesOf(c)' = q /\ PacketsOf(c)' = PacketsOf(c)
      /\ JoinsOf(c)' = r /\ toClient'[c] = <<>> /\ client' = client
      /\ Pipe(e, q, s, t, b) /\ Keys(c, b) /\ StateFirst(c, b)
  BY Projections, QueuesKept DEF registry, Batch, Line
<1>2. /\ Len(s) \in Nat /\ n \in Nat /\ n <= Len(s) /\ Len(r) = n /\ (n = 0 => r = <<>>)
      /\ \A i \in 1..n : r[i] = s[i] /\ i \in 1..Len(s)
  BY <1>1
<1>3. s = <<>> => r = <<>>
  BY <1>1, <1>2
<1>4. /\ Keys(c, b) <=> (b \in 1..3 =>
           /\ \/ client[c].m_secret_key = b \/ Silent(c)
              \/ Some(q, {"ack"}) \/ Some(s, {"ack"}) \/ Some(t, {"key"})
           /\ secret[c] = b \/ t = <<>> \/ Some(t, {"key"}))
      /\ StateFirst(c, b) <=> (b = 1 /\ ~client[c].ps =>
           \/ Some(e, {"state"}) \/ Some(q, {"state"}) \/ Some(s, {"state"}) \/ Some(t, {"challenge"})
           \/ ~Some(e, {"auth"}) /\ ~Some(q, {"auth"}) /\ ~Some(s, {"auth"}))
      /\ Silent(c) <=> q = <<>> /\ s = <<>> /\ t = <<>>
      /\ Silent(c)' <=> q = <<>> /\ r = <<>>
  BY <1>1 DEF Keys, StateFirst, Silent
<1> HIDE DEF e, q, s, t, r
<1>5. \A z : Place(z) \in 1..3
  BY Places
<1>6. \A z : /\ z.type \in {"ack", "key"} => Place(z) = 1
             /\ z.type \in {"state", "challenge"} => Place(z) = 2
             /\ z.type \in {"auth"} => Place(z) = 3
  BY DEF Place
<1>7. Line(c, b)'
  <2>1. Pipe(e, q, r, <<>>, b)
    BY <1>1, PipeLeave DEF s, r
  <2> QED
    BY <1>1, <1>3, <1>4, <2>1 DEF Batch, Line
<1>8. Known(c, b)'
  BY <1>1 DEF Batch, Known
<1>9. Keys(c, b)'
  <2>1. ASSUME Some(t, {"key"}) PROVE q = <<>> /\ s = <<>>
    <3>1. PICK j \in 1..Len(t) : Place(t[j]) = 1
      BY <1>6, <2>1 DEF Some
    <3>2. \A u : Ahead(u, t) => Len(u) \notin Nat \/ Len(u) = 0
      <4>1. SUFFICES ASSUME NEW u, Ahead(u, t), Len(u) \in Nat, Len(u) # 0 PROVE FALSE
        OBVIOUS
      <4>2. Place(u[1]) < Place(t[j])
        BY <4>1 DEF Ahead
      <4>3. Place(u[1]) \in 1..3
        BY <1>5
      <4> QED
        BY <3>1, <4>2, <4>3
    <3> QED
      BY <1>1, <3>2, LenZero, LenProperties DEF Pipe
  <2>2. ASSUME Some(s, {"ack"}) PROVE q = <<>> /\ (r = <<>> \/ Some(r, {"ack"}))
    <3>1. PICK j \in 1..Len(s) : Place(s[j]) = 1 /\ s[j].type = "ack"
      BY <1>6, <2>2 DEF Some
    <3>2. \A u : Ahead(u, s) => Len(u) \notin Nat \/ Len(u) = 0
      <4>1. SUFFICES ASSUME NEW u, Ahead(u, s), Len(u) \in Nat, Len(u) # 0 PROVE FALSE
        OBVIOUS
      <4>2. Place(u[1]) < Place(s[j])
        BY <4>1 DEF Ahead
      <4>3. Place(u[1]) \in 1..3
        BY <1>5
      <4> QED
        BY <3>1, <4>2, <4>3
    <3>3. q = <<>>
      BY <1>1, <3>2, LenZero, LenProperties DEF Pipe
    <3>4. j = 1
      <4>1. SUFFICES ASSUME j # 1 PROVE FALSE
        OBVIOUS
      <4>2. 1 \in 1..Len(s) /\ 1 < j
        BY <1>2, <4>1
      <4>3. Place(s[1]) < Place(s[j]) /\ Place(s[1]) \in 1..3
        BY <1>1, <1>5, <4>2 DEF Pipe, Ascending
      <4> QED
        BY <3>1, <4>3
    <3>5. n # 0 => Some(r, {"ack"})
      <4>1. SUFFICES ASSUME n # 0 PROVE Some(r, {"ack"})
        OBVIOUS
      <4>2. 1 \in 1..Len(r) /\ r[1] = s[1] /\ s[1].type = "ack"
        BY <1>2, <3>1, <3>4, <4>1
      <4> QED
        BY <4>2 DEF Some
    <3> QED
      BY <1>2, <3>3, <3>5
  <2>3. b \in 1..3 => client[c].m_secret_key = b \/ Some(q, {"ack"}) \/ Some(r, {"ack"}) \/ (q = <<>> /\ r = <<>>)
    BY <1>1, <1>3, <1>4, <2>1, <2>2
  <2> QED
    BY <1>1, <1>4, <2>3 DEF Keys
<1>10. StateFirst(c, b)'
  <2>1. SUFFICES ASSUME b = 1, ~client[c].ps, Some(e, {"auth"}) \/ Some(q, {"auth"}) \/ Some(r, {"auth"})
                 PROVE  Some(e, {"state"}) \/ Some(q, {"state"}) \/ Some(r, {"state"})
    BY <1>1 DEF StateFirst
  <2>2. \/ \E i \in 1..Len(e) : Place(e[i]) = 3 /\ e[i].type = "auth"
        \/ \E i \in 1..Len(q) : Place(q[i]) = 3 /\ q[i].type = "auth"
        \/ \E i \in 1..n : Place(s[i]) = 3 /\ s[i].type = "auth" /\ i \in 1..Len(s)
    BY <1>2, <1>6, <2>1 DEF Some
  <2>3. ~Some(t, {"challenge"})
    BY <1>1, <1>6, <2>2, SMTT(40) DEF Some, Pipe, Ahead
  <2>4. Some(e, {"auth"}) \/ Some(q, {"auth"}) \/ Some(s, {"auth"})
    BY <2>2 DEF Some
  <2>5. ASSUME Some(s, {"state"}) PROVE Some(r, {"state"})
    <3>1. PICK j \in 1..Len(s) : Place(s[j]) = 2 /\ s[j].type = "state"
      BY <1>6, <2>5 DEF Some
    <3>2. PICK i \in 1..n : Place(s[i]) = 3 /\ i \in 1..Len(s)
      BY <1>1, <2>2, <3>1 DEF Pipe, Ahead
    <3>3. j < i
      BY <1>1, <1>2, <3>1, <3>2 DEF Pipe, Ascending
    <3>4. j \in 1..n
      BY <1>2, <3>2, <3>3
    <3> QED
      BY <1>2, <3>1, <3>4 DEF Some
  <2> QED
    BY <1>1, <1>4, <2>1, <2>3, <2>4, <2>5
<1>11. Alive(c, b)'
  BY DEF Alive
<1> QED
  BY <1>7, <1>8, <1>9, <1>10, <1>11 DEF Batch

LEMMA LeaveStep ==
  ASSUME IInv, NEW c \in Clients, Leave(c)
  PROVE  IInv'
<1> DEFINE s == toServer[c]
<1>1. /\ failed = "no" /\ failed' = "no" /\ TypeOK /\ c \in Leaving /\ c # Host
      /\ toClient' = [toClient EXCEPT ![c] = <<>>]
      /\ UNCHANGED <<secret, playing, slots, registry, queues, frame, job, farewells, failed>>
  BY ClientsAssumption DEF IInv, Control, Leave
<1>2. \/ link[c] = "connecting" /\ link' = [link EXCEPT ![c] = "lost"] /\ toServer' = toServer
      \/ /\ link[c] = "open" /\ link' = [link EXCEPT ![c] = "broken"]
         /\ \E n \in 0..Len(s) : toServer' = [toServer EXCEPT ![c] = SubSeq(@, 1, n)]
  BY DEF Leave
<1>3. /\ link \in [Clients -> Links] /\ toClient \in [Clients -> Seq(FromServer)]
      /\ toServer \in [Clients -> Seq(FromClient)] /\ s \in Seq(FromClient)
  BY <1>1 DEF TypeOK
<1>4. /\ toClient'[c] = <<>> /\ \A d \in Clients \ {c} : toClient'[d] = toClient[d]
      /\ \A d \in Clients \ {c} : link'[d] = link[d] /\ toServer'[d] = toServer[d]
      /\ \/ link'[c] = "lost" /\ link[c] = "connecting" /\ toServer'[c] = s
         \/ link'[c] = "broken" /\ link[c] = "open" /\ \E n \in 0..Len(s) : toServer'[c] = SubSeq(s, 1, n)
  BY <1>1, <1>2, <1>3
<1>5. TypeOK'
  <2>1. \A n \in 0..Len(s) : SubSeq(s, 1, n) \in Seq(FromClient)
    BY <1>3
  <2>2. toServer' \in [Clients -> Seq(FromClient)]
    BY <1>2, <1>3, <2>1
  <2>3. link' \in [Clients -> Links]
    BY <1>2, <1>3 DEF Links
  <2>4. toClient' \in [Clients -> Seq(FromServer)]
    BY <1>1, <1>3, EmptySeq
  <2> QED
    BY <1>1, <2>2, <2>3, <2>4 DEF TypeOK, slots, registry, queues, frame
<1>6. Control'
  <2>1. (c \in Seated') <=> (c \in Seated)
    BY <1>4 DEF Seated
  <2> QED
    BY <1>1, <1>4, <1>5, <2>1, ControlKept DEF IInv
<1>7. ASSUME NEW d \in Clients \ {c} PROVE PerClient(d)'
  <2>1. Same(d)
    BY <1>1, <1>4, <1>7, QueuesKept, JobsKept DEF Same, slots, registry, frame
  <2> QED
    BY <1>1, <1>7, <2>1, Frame DEF IInv
<1>8. PerClient(c) /\ link[c] # "closed" /\ link'[c] # "closed"
  BY <1>4 DEF IInv
<1>9. Farewell(c)'
  <2>1. Farewell(c)
    BY <1>8 DEF PerClient
  <2> QED
    BY <1>1, <1>8, <2>1, QueuesKept, JobsKept DEF Farewell, Told, registry, frame
<1>10. ASSUME c \notin net_players PROVE Coming(c)'
  <2>1. Coming(c)
    BY <1>8, <1>10 DEF PerClient
  <2>2. CASE link'[c] = "lost" /\ link[c] = "connecting" /\ toServer'[c] = s
    BY <1>1, <1>4, <2>1, <2>2, QueuesKept DEF Coming, Seated, registry, frame, slots
  <2>3. CASE link'[c] = "broken" /\ link[c] = "open" /\ \E n \in 0..Len(s) : toServer'[c] = SubSeq(s, 1, n)
    <3>1. PICK n \in 0..Len(s) : toServer'[c] = SubSeq(s, 1, n)
      BY <2>3
    <3>2. c \in Seated /\ (c \in Seated') /\ link'[c] # "open"
      BY <2>3 DEF Seated
    <3>3. s = <<>> \/ (s = <<Message("data", 0)>> /\ c \notin ToSet(m_pending_clients))
      BY <2>1, <3>2 DEF Coming
    <3>4. toServer'[c] = <<>> \/ toServer'[c] = s
      <4>1. s = <<>> => SubSeq(s, 1, n) = <<>>
        BY <3>1
      <4>2. ASSUME NEW x, s = <<x>> PROVE SubSeq(s, 1, n) = <<>> \/ SubSeq(s, 1, n) = <<x>>
        <5>1. n = 0 \/ n = 1
          BY <3>1, <4>2
        <5>2. SubSeq(<<x>>, 1, 0) = <<>> /\ SubSeq(<<x>>, 1, 1) = <<x>>
          <6> DEFINE u == SubSeq(<<x>>, 1, 1)
          <6>1. u \in Seq({x}) /\ Len(u) = 1 /\ u[1] = x
            OBVIOUS
          <6>2. SubSeq(<<x>>, 1, 0) = <<>>
            OBVIOUS
          <6> HIDE DEF u
          <6>3. u = <<x>>
            BY <6>1
          <6> QED
            BY <6>2, <6>3 DEF u
        <5> HIDE DEF s
        <5> QED
          BY <4>2, <5>1, <5>2
      <4> QED
        BY <3>1, <3>3, <4>1, <4>2
    <3> QED
      BY <1>1, <1>4, <2>1, <3>2, <3>3, <3>4, QueuesKept DEF Coming, slots, registry, frame
  <2> QED
    BY <1>4, <2>2, <2>3
<1>11. ASSUME c \in net_players PROVE Joining(c)'
  <2>1. PICK b \in 0..5 : Batch(c, b)
    BY <1>8, <1>11 DEF PerClient, Joining
  <2>2. link[c] # "connecting"
    BY <1>1, <1>11, RegisteredIsIn DEF IInv, Control, TypeOK
  <2>3. PICK n \in 0..Len(s) : toServer'[c] = SubSeq(s, 1, n)
    BY <1>4, <2>2
  <2> QED
    <3>1. JoinsOf(c) = Filtered(s, Joins) /\ JoinsOf(c)' = Filtered(SubSeq(s, 1, n), Joins)
      BY <2>3 DEF JoinsOf
    <3>2. PICK m \in 0..Len(JoinsOf(c)) : JoinsOf(c)' = SubSeq(JoinsOf(c), 1, m)
      BY <1>3, <3>1, JoinsArrive
    <3>3. Batch(c, b)'
      BY <1>1, <1>4, <2>1, <2>2, <3>2, BatchLeave DEF frame
    <3> QED
      BY <3>3 DEF Joining
<1>12. PerClient(c)'
  BY <1>1, <1>8, <1>9, <1>10, <1>11 DEF PerClient, registry
<1> QED
  BY <1>6, <1>7, <1>12 DEF IInv

(* A command is of no concern to who is joining.                           *)
LEMMA CommandStep ==
  ASSUME IInv, NEW c \in Clients, Command(c)
  PROVE  IInv'
<1> DEFINE s == toServer[c]
           x == Message("remote", 0)
<1>1. /\ failed = "no" /\ failed' = "no" /\ TypeOK /\ link[c] = "open" /\ c \in playing
      /\ toServer' = [toServer EXCEPT ![c] = Append(@, x)]
      /\ UNCHANGED <<link, toClient, secret, playing, slots, registry, queues, frame, job, farewells, failed>>
  BY DEF IInv, Control, Command
<1>2. /\ toServer \in [Clients -> Seq(FromClient)] /\ s \in Seq(FromClient)
      /\ x \in FromClient /\ x \notin Joins /\ Append(s, x) \in Seq(FromClient)
  <2>1. x \in FromClient /\ x \notin Joins
    BY DEF FromClient, Message, Seeds, Joins
  <2> QED
    BY <1>1, <2>1 DEF TypeOK
<1>3. /\ toServer'[c] = Append(s, x) /\ \A d \in Clients \ {c} : toServer'[d] = toServer[d]
      /\ toServer' \in [Clients -> Seq(FromClient)]
  BY <1>1, <1>2
<1>4. TypeOK'
  BY <1>1, <1>3 DEF TypeOK, slots, registry, queues, frame
<1>5. Control'
  <2>1. Seated' = Seated
    BY <1>1 DEF Seated
  <2>2. link[c] # "leaving" /\ link[c] # "closed" /\ (c = Host => link[c] = "open")
    BY <1>1
  <2> QED
    BY <1>1, <1>4, <2>1, <2>2, ControlKept DEF IInv
<1>6. \A d \in Clients : JoinsOf(d)' = JoinsOf(d)
  <2>1. Filtered(Append(s, x), Joins) = Filtered(s, Joins)
    BY <1>2, FilteredAppend
  <2>2. JoinsOf(c)' = JoinsOf(c)
    BY <1>3, <2>1 DEF JoinsOf
  <2>3. \A d \in Clients \ {c} : JoinsOf(d)' = JoinsOf(d)
    BY <1>3 DEF JoinsOf
  <2> QED
    BY <2>2, <2>3
<1>7. ASSUME NEW d \in Clients \ {c} PROVE PerClient(d)'
  <2>1. Same(d)
    BY <1>1, <1>3, <1>7, QueuesKept, JobsKept DEF Same, slots, registry, frame
  <2> QED
    BY <1>1, <1>7, <2>1, Frame DEF IInv
<1>8. PerClient(c)'
  <2>1. PerClient(c) /\ c \in net_players
    BY <1>1 DEF IInv, PerClient, Coming
  <2>2. /\ EventsOf(c)' = EventsOf(c) /\ MessagesOf(c)' = MessagesOf(c) /\ PacketsOf(c)' = PacketsOf(c)
        /\ (Parting(c)' <=> Parting(c)) /\ (Closing(c)' <=> Closing(c)) /\ JoinsOf(c)' = JoinsOf(c)
        /\ toClient' = toClient /\ client' = client /\ secret' = secret /\ link' = link /\ net_players' = net_players
        /\ dropped' = dropped /\ farewells' = farewells
    BY <1>1, <1>6, QueuesKept, JobsKept DEF registry, frame
  <2>3. Farewell(c)'
    BY <1>1, <2>1, <2>2 DEF PerClient, Farewell, Told
  <2>4. PICK b \in 0..5 : Batch(c, b)
    BY <2>1 DEF PerClient, Joining
  <2>5. Batch(c, b)'
    BY <1>1, <2>2, <2>4 DEF Batch, Line, Silent, Known, Keys, StateFirst, Alive
  <2> QED
    BY <1>1, <2>1, <2>2, <2>3, <2>5 DEF PerClient, Joining
<1> QED
  BY <1>5, <1>7, <1>8 DEF IInv
-----------------------------------------------------------------------------
(* The network thread lets connections in, or not.                         *)

(* Nothing is on the way to or from a connection that is not let in.       *)
LEMMA Outside ==
  ASSUME IInv, NEW c \in Clients, link[c] \in {"connecting", "lost"}
  PROVE  /\ c \notin net_players /\ c \notin Seated /\ Coming(c) /\ farewells[c] = 0
         /\ toClient[c] = <<>> /\ toServer[c] = <<>> /\ c \notin ToSet(m_pending_clients)
<1>1. c \notin net_players
  BY RegisteredIsIn DEF IInv, Control, TypeOK
<1>2. c \notin Seated /\ c \notin ToSet(m_pending_clients)
  BY DEF Seated, IInv, Control, Slots
<1>3. Coming(c) /\ farewells[c] = 0
  BY <1>1 DEF IInv, PerClient, Farewell
<1> QED
  BY <1>1, <1>2, <1>3 DEF Coming

(* The jobs that the threads begin and end with.                           *)
LEMMA JobTypes ==
  /\ Idle \in Jobs /\ \A c \in Clients : Disconnecting(c) \in Jobs
  /\ Idle.step = "idle" /\ Idle.of = Host
  /\ \A c : Disconnecting(c).step = "slot" /\ Disconnecting(c).of = c
  /\ Remote \subseteq Clients /\ Host \in Clients /\ Host \notin Remote
BY ClientsAssumption DEF Idle, Disconnecting, Jobs, Clients

(* What it is to be handed a client to disconnect.                         *)
LEMMA Handed ==
  ASSUME TypeOK, NEW t \in Threads, job[t] = Idle, NEW c \in Remote, Disconnect(t, c)
  PROVE  /\ job' \in [Threads -> Jobs]
         /\ job'[t].step = "slot" /\ job'[t].of = c /\ job'[t] # Idle
         /\ \A u \in Threads : u # t => job'[u] = job[u]
         /\ \A d : (Parting(d)' <=> Parting(d)) /\ (Closing(d) => Closing(d)')
<1>1. job \in [Threads -> Jobs] /\ job' = [job EXCEPT ![t] = Disconnecting(c)]
  BY DEF TypeOK, Disconnect
<1>2. job' \in [Threads -> Jobs] /\ job'[t] = Disconnecting(c) /\ \A u \in Threads : u # t => job'[u] = job[u]
  BY <1>1, JobTypes
<1>3. \A d : Parting(d)' <=> Parting(d)
  BY <1>2, JobTypes DEF Parting
<1>4. \A d : Closing(d) => Closing(d)'
  BY <1>2, JobTypes DEF Closing, Threads
<1>5. job'[t].step = "slot" /\ job'[t].of = c /\ job'[t] # Idle
  BY <1>2, JobTypes
<1> QED
  BY <1>1, <1>2, <1>3, <1>4, <1>5

(* The thread begins with somebody who is let in, or whom the other thread *)
(* disconnects.                                                            *)
LEMMA HandedControl ==
  ASSUME TypeOK, Found, JobsSound, NEW t \in Threads, job[t] = Idle,
         NEW c \in Remote, Disconnect(t, c), c \in Seated' \/ link'[c] = "closed",
         \A k \in 1..Len(m_players) : m_players'[k] = m_players[k] /\ k \in 1..Len(m_players'),
         net_players' = net_players,
         \A d \in Clients : link'[d] = link[d] \/ (d = c /\ link[d] # "closed"),
         \A d \in Clients : link'[d] = "leaving" => link[d] = "leaving" \/ (d = c /\ t = "net")
  PROVE  JobsSound' /\ Found'
<1>1. /\ job' \in [Threads -> Jobs]
      /\ job'[t].step = "slot" /\ job'[t].of = c /\ job'[t] # Idle
      /\ \A u \in Threads : u # t => job'[u] = job[u]
  BY Handed
<1>2. \A u \in Threads : job[u].step # "idle" => job[u].of \in Clients
  BY JobTypes DEF JobsSound, JobSound
<1>3. Found'
  <2>1. SUFFICES ASSUME NEW u \in Threads, job'[u].step = "erase"
                 PROVE  IF job'[u].at = 0 THEN link'[job'[u].of] = "closed"
                        ELSE job'[u].at \in 1..Len(m_players') /\ m_players'[job'[u].at] = job'[u].of
    BY DEF Found
  <2>2. u # t /\ job'[u] = job[u] /\ job[u].of \in Clients
    BY <1>1, <1>2, <2>1
  <2>3. IF job[u].at = 0 THEN link[job[u].of] = "closed"
        ELSE job[u].at \in 1..Len(m_players) /\ m_players[job[u].at] = job[u].of
    BY <2>1, <2>2 DEF Found
  <2> QED
    BY <2>2, <2>3
<1>4. \A u \in Threads : job'[u] = Idle \/ (job'[u].of \in Remote /\ job'[u].step # "idle")
  BY <1>1 DEF JobsSound, JobSound
<1>5. \A u \in Threads : job'[u].step \in {"farewell", "destroy", "clean"} => link'[job'[u].of] = "closed"
  <2>1. \A u \in Threads : job'[u].step \in {"farewell", "destroy", "clean"} =>
          u # t /\ job[u].of \in Clients /\ link[job[u].of] = "closed" /\ job'[u] = job[u]
    BY <1>1, JobTypes DEF JobsSound, JobSound
  <2> QED
    BY <2>1
<1>6. \A u \in Threads : job'[u].step = "clean" => job'[u].of \notin net_players'
  BY <1>1 DEF JobsSound, JobSound
<1>7. \A d \in Clients : link'[d] = "leaving" => job'["net"].of = d /\ job'["net"].step \in {"slot", "erase"}
  <2>1. ASSUME NEW d \in Clients, link'[d] = "leaving"
        PROVE  job'["net"].of = d /\ job'["net"].step \in {"slot", "erase"}
    <3>1. CASE d = c /\ t = "net"
      BY <1>1, <3>1
    <3>2. CASE link[d] = "leaving"
      <4>1. job["net"].of = d /\ job["net"].step \in {"slot", "erase"}
        BY <3>2 DEF JobsSound, JobSound
      <4>2. t # "net"
        BY <4>1, JobTypes
      <4> QED
        BY <1>1, <4>1, <4>2 DEF Threads
    <3> QED
      BY <2>1, <3>1, <3>2
  <2> QED
    BY <2>1
<1>8. \A u \in Threads : job'[u].step \in {"slot", "erase"} => job'[u].of \in Seated' \/ link'[job'[u].of] = "closed"
  <2>1. SUFFICES ASSUME NEW u \in Threads, job'[u].step \in {"slot", "erase"}, u # t
                 PROVE  job'[u].of \in Seated' \/ link'[job'[u].of] = "closed"
    BY <1>1
  <2>2. job'[u] = job[u] /\ job[u].of \in Clients /\ (job[u].of \in Seated \/ link[job[u].of] = "closed")
    BY <1>1, <1>2, <2>1 DEF JobsSound, JobSound
  <2>3. job[u].of \in Seated /\ link'[job[u].of] = link[job[u].of] => job[u].of \in Seated'
    BY <2>2 DEF Seated
  <2> QED
    BY <2>2, <2>3
<1>9. JobsSound'
  BY <1>4, <1>5, <1>6, <1>7, <1>8 DEF JobsSound, JobSound
<1> QED
  BY <1>3, <1>9

(* The packet that is handled stays the first.                             *)
LEMMA HandingKept ==
  ASSUME TypeOK, Handing, UNCHANGED <<phase, handling, m_aDelayedPackets>>, net_players' \subseteq net_players,
         \A d \in Clients : link[d] = "closed" => link'[d] = "closed"
  PROVE  Handing'
<1>1. handling # Nobody => handling \in Clients
  BY DEF TypeOK, Clients
<1> QED
  BY <1>1 DEF Handing

LEMMA ProcessConnectionStep ==
  ASSUME IInv, NEW c \in Clients, ProcessConnection(c)
  PROVE  IInv'
<1>1. /\ failed = "no" /\ failed' = "no" /\ TypeOK /\ job["net"] = Idle /\ link[c] \in {"connecting", "lost"}
      /\ c \notin ToSet(m_players) /\ secret' = secret /\ playing' = playing
      /\ UNCHANGED <<m_max_players, m_pending_clients, m_bServerClientConnected, registry, queues,
                 frame, farewells, failed>>
      /\ \/ Closed(c) /\ m_players' = m_players /\ job' = job
         \/ Len(m_players) < m_max_players /\ Refusable(c) /\ TurnAway(c)
         \/ Len(m_players) < m_max_players /\ LetIn(c)
  BY DEF IInv, Control, ProcessConnection, Network, Closed, LetIn, TurnAway, peers
<1>2. /\ link \in [Clients -> Links] /\ toClient \in [Clients -> Seq(FromServer)]
      /\ toServer \in [Clients -> Seq(FromClient)] /\ m_players \in Seq(Clients)
      /\ Len(m_players) \in Nat /\ m_max_players \in Nat
  BY <1>1, ClientsAssumption DEF TypeOK
<1>3. /\ c \notin net_players /\ c \notin Seated /\ Coming(c) /\ farewells[c] = 0
      /\ toClient[c] = <<>> /\ toServer[c] = <<>> /\ c \notin ToSet(m_pending_clients)
  BY <1>1, Outside
<1>4. \A d \in Clients \ {c} : link'[d] = link[d] /\ toServer'[d] = toServer[d] /\ toClient'[d] = toClient[d]
  BY <1>1, <1>2 DEF Closed, LetIn, TurnAway, peers
<1>8. Refusable(c) => c \in Remote /\ c # Host
  BY <1>1, ClientsAssumption DEF Refusable, Clients, IInv, Control, HostFirst
<1>5. ASSUME NEW d \in Clients \ {c} PROVE PerClient(d)'
  <2>1. (Parting(d)' <=> Parting(d)) /\ (Closing(d) => Closing(d)')
    <3>1. CASE job' = job
      BY <3>1, JobsKept
    <3>2. CASE Refusable(c) /\ TurnAway(c)
      BY <1>1, <1>8, <3>2, Handed DEF TurnAway, Threads
    <3> QED
      BY <1>1, <3>1, <3>2 DEF LetIn
  <2>2. Same(d)
    BY <1>1, <1>4, <1>5, <2>1, QueuesKept DEF Same, registry, frame
  <2> QED
    BY <1>1, <1>5, <2>2, Frame DEF IInv
<1>6. CASE Closed(c) /\ m_players' = m_players /\ job' = job
  <2>1. link'[c] = "closed" /\ toServer'[c] = <<>> /\ toClient'[c] = <<>>
    BY <1>2, <1>6 DEF Closed
  <2>2. TypeOK'
    <3>1. link' \in [Clients -> Links]
      BY <1>2, <1>6 DEF Closed, Links
    <3>2. toServer' \in [Clients -> Seq(FromClient)] /\ toClient' \in [Clients -> Seq(FromServer)]
      BY <1>2, <1>6, EmptySeq DEF Closed
    <3> QED
      BY <1>1, <1>6, <3>1, <3>2 DEF TypeOK, slots, registry, queues, frame
  <2>3. Control'
    <3>1. c \notin Seated'
      BY <2>1 DEF Seated
    <3>2. UNCHANGED <<slots, registry, queues, frame, job, failed>>
      BY <1>1, <1>6 DEF slots
    <3> QED
      BY <1>1, <1>3, <1>4, <2>1, <2>2, <3>1, <3>2, ControlKept DEF IInv
  <2>4. Told(c)'
    BY <1>1, <1>3 DEF Told, Coming, NewClient, registry
  <2>5. PerClient(c)'
    BY <1>1, <1>3, <2>1, <2>4 DEF PerClient, Farewell, registry
  <2> QED
    BY <1>5, <2>3, <2>5 DEF IInv
<1>7. CASE Len(m_players) < m_max_players /\ LetIn(c)
  <2>1. /\ link'[c] = "open" /\ toServer'[c] = <<>> /\ toClient'[c] = <<Message("connected", 0)>>
        /\ m_players' = Append(m_players, c) /\ job' = job
    BY <1>2, <1>3, <1>7 DEF LetIn
  <2>2. /\ Len(m_players') = Len(m_players) + 1 /\ m_players' \in Seq(Clients)
        /\ m_players'[Len(m_players) + 1] = c
        /\ \A k \in 1..Len(m_players) : m_players'[k] = m_players[k] /\ k \in 1..Len(m_players')
        /\ \A k \in 1..Len(m_players') : k = Len(m_players) + 1 \/ k \in 1..Len(m_players)
    BY <1>2, <2>1
  <2>3. TypeOK'
    <3>1. link' \in [Clients -> Links] /\ toServer' \in [Clients -> Seq(FromClient)]
      BY <1>2, <1>7 DEF LetIn, Links
    <3>2. <<Message("connected", 0)>> \in Seq(FromServer)
      BY DEF Message, FromServer, Seeds
    <3>3. toClient' \in [Clients -> Seq(FromServer)]
      BY <1>2, <1>7, <3>2 DEF LetIn
    <3>4. Len(m_players') <= m_max_players'
      BY <1>1, <1>2, <1>7, <2>2
    <3> QED
      BY <1>1, <2>1, <2>2, <3>1, <3>3, <3>4 DEF TypeOK, slots, registry, queues, frame
  <2>4. Seated' = Seated \cup {c}
    BY <1>4, <2>1 DEF Seated
  <2>5. ToSet(m_players') = ToSet(m_players) \cup {c}
    BY <1>2, <2>1, AppendedElements
  <2>6. Distinct(m_players')
    BY <1>1, <1>2, <2>1, AppendedElements DEF IInv, Control, Slots
  <2>7. Slots'
    BY <1>1, <2>1, <2>4, <2>5, <2>6 DEF IInv, Control, Slots, registry
  <2>8. Sound'
    <3>1. /\ \A u \in Threads : job[u].step # "idle" => job[u].of \in Clients
          /\ \A d \in Clients : link[d] = "closed" => link'[d] = "closed"
      BY <1>1, <1>4, JobTypes DEF IInv, Control, JobsSound, JobSound
    <3>2. Found'
      BY <1>1, <2>1, <2>2, <3>1 DEF IInv, Control, Sound, Found
    <3>3. Handing'
      BY <1>1, <3>1, HandingKept DEF IInv, Control, Sound, queues, frame, registry
    <3> QED
      BY <3>2, <3>3 DEF Sound
  <2>9. JobsSound'
    <3>1. \A t \in Threads : job[t].step # "idle" => job[t].of \in Clients
      BY JobTypes DEF IInv, Control, JobsSound, JobSound
    <3>2. \A d \in Clients : link[d] = "closed" => link'[d] = "closed"
      BY <1>1, <1>4
    <3> QED
      BY <1>1, <1>4, <2>1, <2>4, <3>1, <3>2 DEF IInv, Control, JobsSound, JobSound, registry
  <2>10. HostFirst'
    <3>1. link'[Host] \in {"none", "connecting", "open", "closed"} /\ (Host \in net_players => link'[Host] = "open")
      BY <1>3, <1>4, <2>1 DEF IInv, Control, HostFirst, Clients
    <3> QED
      BY <1>1, <3>1 DEF IInv, Control, HostFirst, registry, queues, Creates
  <2>11. Coming(c)'
    BY <1>1, <1>3, <2>1, <2>4, QueuesKept DEF Coming, registry, frame
  <2>12. PerClient(c)'
    BY <1>1, <1>3, <2>1, <2>11 DEF PerClient, Farewell, registry
  <2> QED
    BY <1>1, <1>5, <2>3, <2>7, <2>8, <2>9, <2>10, <2>12 DEF IInv, Control
<1>9. CASE Len(m_players) < m_max_players /\ Refusable(c) /\ TurnAway(c)
  <2>1. /\ link'[c] = "leaving" /\ toServer' = toServer /\ toClient' = toClient
        /\ m_players' = Append(m_players, c) /\ Disconnect("net", c) /\ "net" \in Threads
        /\ c \in Remote /\ c # Host
    BY <1>2, <1>8, <1>9 DEF TurnAway, peers, Threads
  <2>2. /\ Len(m_players') = Len(m_players) + 1 /\ m_players' \in Seq(Clients)
        /\ \A k \in 1..Len(m_players) : m_players'[k] = m_players[k] /\ k \in 1..Len(m_players')
    BY <1>2, <2>1
  <2>3. /\ job' \in [Threads -> Jobs] /\ job'["net"].of = c /\ job'["net"].step = "slot"
        /\ \A u \in Threads : u # "net" => job'[u] = job[u]
    BY <1>1, <2>1, Handed
  <2>4. TypeOK'
    <3>1. link' \in [Clients -> Links]
      BY <1>2, <1>9 DEF TurnAway, Links
    <3>2. Len(m_players') <= m_max_players'
      BY <1>1, <1>2, <1>9, <2>2
    <3> QED
      BY <1>1, <2>1, <2>2, <2>3, <3>1, <3>2 DEF TypeOK, slots, registry, queues, frame
  <2>5. Seated' = Seated \cup {c}
    BY <1>4, <2>1 DEF Seated
  <2>6. ToSet(m_players') = ToSet(m_players) \cup {c}
    BY <1>2, <2>1, AppendedElements
  <2>7. Distinct(m_players')
    BY <1>1, <1>2, <2>1, AppendedElements DEF IInv, Control, Slots
  <2>8. Slots'
    <3>1. \A d \in net_players : d \notin Seated =>
            \E u \in Threads : job'[u].of = d /\ job'[u].step \in {"farewell", "destroy"}
      <4>1. SUFFICES ASSUME NEW d \in net_players, d \notin Seated
                     PROVE \E u \in Threads : job'[u].of = d /\ job'[u].step \in {"farewell", "destroy"}
        OBVIOUS
      <4>2. PICK u \in Threads : job[u].of = d /\ job[u].step \in {"farewell", "destroy"}
        BY <4>1 DEF IInv, Control, Slots
      <4> QED
        BY <1>1, <2>3, <4>2, JobTypes
    <3> QED
      BY <1>1, <2>5, <2>6, <2>7, <3>1 DEF IInv, Control, Slots, registry
  <2>9. JobsSound' /\ Found'
    <3>1. TypeOK /\ Found /\ JobsSound /\ job["net"] = Idle
      BY <1>1 DEF IInv, Control, Sound
    <3>2. c \in Seated' /\ net_players' = net_players
      BY <1>1, <2>5 DEF registry
    <3>3. /\ \A d \in Clients : link'[d] = link[d] \/ (d = c /\ link[d] # "closed")
          /\ \A d \in Clients : link'[d] = "leaving" => link[d] = "leaving" \/ (d = c /\ "net" = "net")
      BY <1>1, <1>4
    <3> QED
      BY <2>1, <2>2, <3>1, <3>2, <3>3, HandedControl
  <2>10. Handing'
    <3>1. \A d \in Clients : link[d] = "closed" => link'[d] = "closed"
      BY <1>1, <1>4
    <3> QED
      BY <1>1, <3>1, HandingKept DEF IInv, Control, Sound, queues, frame, registry
  <2>11. HostFirst'
    <3>1. link'[Host] = link[Host]
      BY <1>4, <2>1, JobTypes
    <3> QED
      BY <1>1, <3>1 DEF IInv, Control, HostFirst, registry, queues, Creates
  <2>12. Coming(c)'
    BY <1>1, <1>3, <2>1, <2>5, QueuesKept DEF Coming, registry, frame
  <2>13. PerClient(c)'
    BY <1>1, <1>3, <2>1, <2>12 DEF PerClient, Farewell, registry
  <2> QED
    BY <1>1, <1>5, <2>4, <2>8, <2>9, <2>10, <2>11, <2>13 DEF IInv, Control, Sound
<1> QED
  BY <1>1, <1>6, <1>7, <1>9
-----------------------------------------------------------------------------
(* Disconnecting a client.                                                 *)

LEMMA ReportedStep ==
  ASSUME IInv, NEW c \in Clients, OnSteamNetConnectionStatusChanged(c)
  PROVE  IInv'
<1>1. /\ failed = "no" /\ failed' = "no" /\ TypeOK /\ job["net"] = Idle /\ link[c] = "broken"
      /\ link' = [link EXCEPT ![c] = "leaving"] /\ Disconnect("net", c)
      /\ UNCHANGED <<peers, slots, registry, queues, frame, farewells, failed>>
  BY DEF IInv, Control, OnSteamNetConnectionStatusChanged, Network
<1>2. /\ link'[c] = "leaving" /\ \A d \in Clients \ {c} : link'[d] = link[d]
      /\ link' \in [Clients -> Links]
  BY <1>1 DEF TypeOK, Links
<1>3. c \in Remote /\ "net" \in Threads
  BY <1>1 DEF Clients, IInv, Control, HostFirst, Threads
<1>4. /\ job' \in [Threads -> Jobs]
      /\ \A d : (Parting(d)' <=> Parting(d)) /\ (Closing(d) => Closing(d)')
      /\ job'["net"].step = "slot" /\ job'["net"].of = c
      /\ \A u \in Threads : u # "net" => job'[u] = job[u]
  BY <1>1, <1>3, Handed
<1>5. TypeOK'
  BY <1>1, <1>2, <1>4 DEF TypeOK, peers, slots, registry, queues, frame
<1>6. Seated' = Seated /\ (c \in Seated')
  BY <1>1, <1>2 DEF Seated
<1>7. Slots'
  <2>1. \A d \in net_players : d \notin Seated =>
          \E u \in Threads : job'[u].of = d /\ job'[u].step \in {"farewell", "destroy"}
    <3>1. SUFFICES ASSUME NEW d \in net_players, d \notin Seated
                   PROVE \E u \in Threads : job'[u].of = d /\ job'[u].step \in {"farewell", "destroy"}
      OBVIOUS
    <3>2. PICK u \in Threads : job[u].of = d /\ job[u].step \in {"farewell", "destroy"}
      BY <3>1 DEF IInv, Control, Slots
    <3> QED
      BY <1>1, <1>4, <3>2, JobTypes
  <2> QED
    BY <1>1, <1>6, <2>1 DEF IInv, Control, Slots, slots, registry
<1>8. JobsSound' /\ Sound'
  <2>1. m_players' = m_players /\ net_players' = net_players
    BY <1>1 DEF slots, registry
  <2>2. TypeOK /\ Found /\ Handing /\ JobsSound
    BY <1>1 DEF IInv, Control, Sound
  <2>3. \A d \in Clients : link[d] = "closed" => link'[d] = "closed"
    BY <1>1, <1>2
  <2>4. JobsSound' /\ Found'
    BY <1>1, <1>2, <1>3, <1>6, <2>1, <2>2, HandedControl
  <2>5. Handing'
    BY <1>1, <2>1, <2>2, <2>3, HandingKept DEF queues, frame
  <2> QED
    BY <2>4, <2>5 DEF Sound
<1>9. HostFirst'
  <2>1. link'[Host] = link[Host]
    BY <1>2, <1>3, JobTypes
  <2> QED
    BY <1>1, <2>1 DEF IInv, Control, HostFirst, slots, registry, queues, Creates
<1>10. ASSUME NEW d \in Clients \ {c} PROVE PerClient(d)'
  <2>1. Same(d)
    BY <1>1, <1>2, <1>4, <1>10, QueuesKept DEF Same, peers, slots, registry, frame
  <2> QED
    BY <1>1, <1>10, <2>1, Frame DEF IInv
<1>11. PerClient(c)'
  <2>1. PerClient(c)
    BY DEF IInv
  <2>2. Farewell(c)'
    <3>1. Farewell(c)
      BY <2>1 DEF PerClient
    <3> QED
      BY <1>1, <1>2, <1>4, <3>1, QueuesKept DEF Farewell, Told, registry, frame
  <2>3. c \notin net_players => Coming(c)'
    <3>1. c \notin net_players => Coming(c)
      BY <1>1, <2>1 DEF PerClient
    <3>2. c \in Seated /\ link'[c] # "open"
      BY <1>2, <1>6
    <3> QED
      BY <1>1, <1>6, <3>1, <3>2, QueuesKept DEF Coming, peers, slots, registry, frame
  <2>4. c \in net_players => Joining(c)'
    <3>1. ASSUME NEW b \in 0..5, Batch(c, b) PROVE Batch(c, b)'
      <4>1. /\ EventsOf(c)' = EventsOf(c) /\ MessagesOf(c)' = MessagesOf(c) /\ PacketsOf(c)' = PacketsOf(c)
            /\ toServer' = toServer /\ toClient' = toClient /\ client' = client /\ secret' = secret
            /\ JoinsOf(c)' = JoinsOf(c)
        BY <1>1, QueuesKept DEF peers, registry, frame, JoinsOf
      <4>2. Silent(c)' <=> Silent(c)
        BY <4>1 DEF Silent
      <4>3. Line(c, b)'
        BY <1>1, <3>1, <4>1, <4>2 DEF Batch, Line
      <4>4. Known(c, b)'
        BY <1>1, <1>2, <3>1, <4>1 DEF Batch, Known
      <4>5. Keys(c, b)'
        BY <3>1, <4>1, <4>2 DEF Batch, Keys
      <4>6. StateFirst(c, b)'
        BY <3>1, <4>1 DEF Batch, StateFirst
      <4>7. Alive(c, b)'
        BY <1>2 DEF Alive
      <4> QED
        BY <4>3, <4>4, <4>5, <4>6, <4>7 DEF Batch
    <3> QED
      BY <2>1, <3>1 DEF PerClient, Joining
  <2> QED
    BY <1>1, <1>2, <2>2, <2>3, <2>4 DEF PerClient, registry
<1> QED
  BY <1>5, <1>7, <1>8, <1>9, <1>10, <1>11 DEF IInv, Control

(* A thread that disconnects a client disconnects a player.                *)
LEMMA Working ==
  ASSUME IInv, NEW t \in Threads, job[t].step # "idle"
  PROVE  /\ job \in [Threads -> Jobs] /\ job[t] # Idle
         /\ job[t].of \in Remote /\ job[t].of \in Clients /\ job[t].of # Host
<1>1. TypeOK /\ JobsSound
  BY DEF IInv, Control
<1>2. job \in [Threads -> Jobs] /\ job[t] # Idle
  BY <1>1, JobTypes DEF TypeOK
<1>3. job[t].of \in Remote
  BY <1>1, <1>2 DEF JobsSound, JobSound
<1> QED
  BY <1>2, <1>3, JobTypes

(* A thread that goes on with its job changes who is parting for nobody    *)
(* else.                                                                   *)
LEMMA WorkedOn ==
  ASSUME IInv, NEW t \in Threads, job[t].step # "idle", NEW c, job[t].of = c,
         \A u \in Threads : u # t => job'[u] = job[u],
         job'[t] = Idle \/ job'[t].of = c
  PROVE  /\ \A d : d # c => (Parting(d)' <=> Parting(d)) /\ (Closing(d) => Closing(d)')
         /\ job'[t].step = "destroy" => Parting(c)'
         /\ job[t].step # "destroy" /\ Parting(c) => Parting(c)'
         /\ job'[t].step # "destroy" /\ Parting(c)' => Parting(c)
<1>1. ASSUME NEW d, d # c PROVE (Parting(d)' <=> Parting(d)) /\ (Closing(d) => Closing(d)')
  <2>1. \A u \in Threads : job'[u].of = d /\ job'[u].step = "destroy" <=> job[u].of = d /\ job[u].step = "destroy"
    BY <1>1, JobTypes
  <2>2. Closing(d) => Closing(d)'
    BY <1>1 DEF Closing, Threads
  <2> QED
    BY <2>1, <2>2 DEF Parting
<1>2. job'[t].step = "destroy" => Parting(c)'
  BY JobTypes DEF Parting
<1>3. ASSUME job[t].step # "destroy", Parting(c) PROVE Parting(c)'
  <2>1. PICK u \in Threads : job[u].of = c /\ job[u].step = "destroy"
    BY <1>3 DEF Parting
  <2>2. u # t /\ job'[u] = job[u]
    BY <1>3, <2>1
  <2> QED
    BY <2>1, <2>2 DEF Parting
<1>4. ASSUME job'[t].step # "destroy", Parting(c)' PROVE Parting(c)
  <2>1. PICK u \in Threads : job'[u].of = c /\ job'[u].step = "destroy"
    BY <1>4 DEF Parting
  <2>2. u # t /\ job'[u] = job[u]
    BY <1>4, <2>1
  <2> QED
    BY <2>1, <2>2 DEF Parting
<1> QED
  BY <1>1, <1>2, <1>3, <1>4

LEMMA FindSlotStep ==
  ASSUME IInv, NEW t \in Threads, FindSlot(t)
  PROVE  IInv'
<1>0. PICK c : c = job[t].of
  OBVIOUS
<1> DEFINE k == SelectInSeq(m_players, LAMBDA p : p = c)
<1>1. /\ failed = "no" /\ failed' = "no" /\ job[t].step = "slot" /\ TypeOK
      /\ job' = [job EXCEPT ![t].step = "erase", ![t].at = k]
      /\ UNCHANGED <<link, peers, slots, registry, queues, frame, farewells, failed>>
  BY <1>0 DEF IInv, Control, FindSlot, At
<1>2. /\ job \in [Threads -> Jobs] /\ c \in Remote /\ c \in Clients /\ c # Host
  BY <1>0, <1>1, Working
<1>3. IF k = 0 THEN link[c] = "closed" ELSE k \in 1..Len(m_players) /\ m_players[k] = c
  <2>1. m_players \in Seq(Clients) /\ (c \in ToSet(m_players) \/ link[c] = "closed")
    BY <1>0, <1>1 DEF IInv, Control, JobsSound, JobSound, Slots, TypeOK
  <2>2. CASE c \in ToSet(m_players)
    <3>1. k \in 1..Len(m_players) /\ m_players[k] = c
      BY <2>1, <2>2, SelectedElement
    <3>2. k # 0
      BY <3>1
    <3> QED
      BY <3>1, <3>2
  <2>3. CASE c \notin ToSet(m_players)
    <3>0. m_players \in Seq(Clients)
      BY <2>1
    <3>1. {i \in 1..Len(m_players) : m_players[i] = c} = {}
      BY <2>3, <3>0, Elements
    <3>2. k = 0
      BY <3>1 DEF SelectInSeq
    <3> QED
      BY <2>1, <2>3, <3>2
  <2> QED
    BY <2>2, <2>3
<1> HIDE DEF k
<1>4. k \in Nat
  BY <1>1, <1>3 DEF TypeOK
<1>5. /\ job' \in [Threads -> Jobs] /\ job'[t].step = "erase" /\ job'[t].of = c /\ job'[t].at = k
      /\ \A u \in Threads : u # t => job'[u] = job[u]
  BY <1>0, <1>1, <1>2, <1>4 DEF Jobs
<1>6. TypeOK'
  BY <1>1, <1>5 DEF TypeOK, peers, slots, registry, queues, frame
<1>7. Sound'
  <2>1. Found'
    BY <1>0, <1>1, <1>3, <1>5 DEF IInv, Control, Sound, Found, slots
  <2>2. Handing'
    BY <1>1, HandingKept DEF IInv, Control, Sound, queues, frame, registry
  <2> QED
    BY <2>1, <2>2 DEF Sound
<1>8. Seated' = Seated
  BY <1>1 DEF Seated
<1>9. Slots'
  <2>1. \A d \in net_players : d \notin Seated =>
          \E u \in Threads : job'[u].of = d /\ job'[u].step \in {"farewell", "destroy"}
    BY <1>0, <1>1, <1>2, <1>5, JobTypes DEF IInv, Control, Slots
  <2> QED
    BY <1>1, <1>8, <2>1 DEF IInv, Control, Slots, slots, registry
<1>10. JobsSound'
  <2>1. c \in Seated \/ link[c] = "closed"
    BY <1>0, <1>1 DEF IInv, Control, JobsSound, JobSound
  <2>2. \A d \in Clients : link[d] = "leaving" => job'["net"].of = d /\ job'["net"].step \in {"slot", "erase"}
    BY <1>0, <1>1, <1>2, <1>5 DEF IInv, Control, JobsSound, JobSound, Threads
  <2>3. ASSUME NEW u \in Threads, u # t PROVE JobSound(u)'
    <3>1. JobSound(u)
      BY DEF IInv, Control, JobsSound, JobSound
    <3> QED
      BY <1>1, <1>5, <1>8, <2>3, <3>1 DEF JobSound, registry
  <2>4. JobSound(t)'
    BY <1>1, <1>2, <1>5, <1>8, <2>1 DEF JobSound
  <2> QED
    BY <1>1, <2>2, <2>3, <2>4 DEF JobsSound
<1>11. HostFirst'
  BY <1>1 DEF IInv, Control, HostFirst, slots, registry, queues, Creates
<1>12. ASSUME NEW d \in Clients PROVE PerClient(d)'
  <2>1. (Parting(d)' <=> Parting(d)) /\ (Closing(d) => Closing(d)')
    <3>1. CASE d = c
      BY <1>0, <1>1, <1>2, <1>5, <3>1, WorkedOn DEF Closing, Threads
    <3>2. CASE d # c
      BY <1>0, <1>1, <1>5, <3>2, WorkedOn
    <3> QED
      BY <3>1, <3>2
  <2>2. Same(d)
    BY <1>1, <1>12, <2>1, QueuesKept DEF Same, peers, slots, registry, frame
  <2> QED
    BY <1>1, <1>12, <2>2, Frame DEF IInv
<1> QED
  BY <1>6, <1>7, <1>9, <1>10, <1>11, <1>12 DEF IInv, Control

(* A batch does not depend on what the disconnecting threads do once the   *)
(* connection is closed.                                                   *)
LEMMA BatchClosed ==
  ASSUME NEW c \in Clients, NEW b \in 0..5, Batch(c, b), link[c] = "closed", link'[c] = "closed",
         toClient'[c] = toClient[c], toServer'[c] = toServer[c], secret'[c] = secret[c],
         client'[c].m_last_key_sync_request_seed = client[c].m_last_key_sync_request_seed,
         client'[c].ps = client[c].ps, client'[c].net_Accepted = client[c].net_Accepted,
         client'[c].owner = client[c].owner, client'[c].m_secret_key = client[c].m_secret_key,
         EventsOf(c)' = EventsOf(c), MessagesOf(c)' = MessagesOf(c),
         failed = "no", failed' = "no" => PacketsOf(c)' = PacketsOf(c)
  PROVE  Batch(c, b)'
<1>1. (Silent(c)' <=> Silent(c)) /\ JoinsOf(c)' = JoinsOf(c)
  BY DEF Silent, JoinsOf
<1>2. Line(c, b)'
  BY <1>1 DEF Batch, Line
<1>3. Known(c, b)'
  BY DEF Batch, Known
<1>4. Keys(c, b)'
  BY <1>1 DEF Batch, Keys
<1>5. StateFirst(c, b)'
  BY <1>1 DEF Batch, StateFirst
<1>6. Alive(c, b)'
  BY DEF Alive
<1> QED
  BY <1>2, <1>3, <1>4, <1>5, <1>6 DEF Batch

LEMMA CloseConnectionStep ==
  ASSUME IInv, NEW t \in Threads, CloseConnection(t)
  PROVE  IInv'
<1>0. PICK c \in Clients, k \in Nat : c = job[t].of /\ k = job[t].at
  <2>1. job \in [Threads -> Jobs]
    BY DEF IInv, Control, TypeOK
  <2> QED
    BY <2>1 DEF Jobs
<1>1. /\ failed = "no" /\ job[t].step = "erase" /\ TypeOK
      /\ job' = [job EXCEPT ![t].step = "farewell"] /\ failed' = IF Moves(t) THEN "race" ELSE failed
      /\ m_players' = IF k # 0 THEN RemoveAt(m_players, k) ELSE m_players
      /\ m_pending_clients' = RemoveFirst(m_pending_clients, c)
      /\ IF k # 0 \/ c \in ToSet(m_pending_clients) THEN Closed(c) ELSE UNCHANGED <<link, peers>>
      /\ UNCHANGED <<m_max_players, m_bServerClientConnected, registry, queues, frame, farewells>>
  BY <1>0 DEF IInv, Control, CloseConnection, At, Then
<1>2. job \in [Threads -> Jobs] /\ c \in Remote /\ c # Host
  BY <1>0, <1>1, Working
<1>3. /\ m_players \in Seq(Clients) /\ m_pending_clients \in Seq(Clients) /\ Len(m_players) \in Nat
      /\ Found /\ Handing /\ Slots /\ JobsSound
      /\ IF k = 0 THEN link[c] = "closed" ELSE k \in 1..Len(m_players) /\ m_players[k] = c
  <2>1. Found /\ Handing /\ Slots /\ JobsSound
    BY <1>1 DEF IInv, Control, Sound
  <2>2. IF k = 0 THEN link[c] = "closed" ELSE k \in 1..Len(m_players) /\ m_players[k] = c
    BY <1>0, <1>1, <2>1 DEF Found
  <2> QED
    BY <1>1, <2>1, <2>2 DEF TypeOK
<1>4. /\ k = 0 => c \notin Seated /\ c \notin ToSet(m_pending_clients)
      /\ k # 0 => c \in Seated /\ link[c] # "closed"
  <2>1. k # 0 => c \in ToSet(m_players)
    BY <1>3, Elements
  <2> QED
    BY <1>3, <2>1 DEF Slots, Seated
<1>5. /\ link' \in [Clients -> Links] /\ toServer' \in [Clients -> Seq(FromClient)]
      /\ toClient' \in [Clients -> Seq(FromServer)] /\ secret' = secret /\ playing' = playing
      /\ link'[c] = "closed" /\ toServer'[c] = <<>> /\ toClient'[c] = <<>>
      /\ \A d \in Clients \ {c} : link'[d] = link[d] /\ toServer'[d] = toServer[d] /\ toClient'[d] = toClient[d]
  <2>1. CASE k # 0
    <3>1. /\ link \in [Clients -> Links] /\ toServer \in [Clients -> Seq(FromClient)]
          /\ toClient \in [Clients -> Seq(FromServer)]
      BY <1>1 DEF TypeOK
    <3>2. /\ link' = [link EXCEPT ![c] = "closed"]
          /\ toServer' = [toServer EXCEPT ![c] = <<>>] /\ toClient' = [toClient EXCEPT ![c] = <<>>]
          /\ secret' = secret /\ playing' = playing
      BY <1>1, <2>1 DEF Closed
    <3>3. <<>> \in Seq(FromClient) /\ <<>> \in Seq(FromServer) /\ "closed" \in Links
      BY EmptySeq DEF Links
    <3> QED
      BY <3>1, <3>2, <3>3
  <2>2. CASE k = 0
    <3>1. toServer[c] = <<>> /\ toClient[c] = <<>>
      BY <1>3, <2>2 DEF IInv, PerClient
    <3> QED
      BY <1>1, <1>3, <1>4, <2>2, <3>1 DEF TypeOK, peers
  <2> QED
    BY <2>1, <2>2
<1>6. /\ job' \in [Threads -> Jobs] /\ job'[t].step = "farewell" /\ job'[t].of = c
      /\ \A u \in Threads : u # t => job'[u] = job[u]
  BY <1>0, <1>1, <1>2 DEF Jobs
<1>7. /\ m_players' \in Seq(Clients) /\ Len(m_players') \in Nat /\ Len(m_players') <= Len(m_players)
      /\ Distinct(m_players') /\ ToSet(m_players') = ToSet(m_players) \ {c}
      /\ k # 0 => /\ Len(m_players') = Len(m_players) - 1
                  /\ \A j \in 1..(Len(m_players) - 1) :
                       m_players'[j] = IF j < k THEN m_players[j] ELSE m_players[j + 1]
  <2>1. Distinct(m_players) /\ ToSet(m_players) = Seated
    BY <1>3 DEF Slots
  <2>2. CASE k # 0
    <3>1. m_players' = RemoveAt(m_players, k) /\ k \in 1..Len(m_players) /\ m_players[k] = c
      BY <1>1, <1>3, <2>2
    <3>2. ToSet(m_players') = ToSet(m_players) \ {c} /\ Distinct(m_players')
      BY <1>3, <2>1, <3>1, RemovedElements
    <3>3. /\ m_players' \in Seq(Clients) /\ Len(m_players') = Len(m_players) - 1
          /\ \A j \in 1..(Len(m_players) - 1) :
               m_players'[j] = IF j < k THEN m_players[j] ELSE m_players[j + 1]
      BY <1>3, <3>1, RemoveAtProperties
    <3> QED
      BY <1>3, <3>1, <3>2, <3>3
  <2>3. CASE k = 0
    BY <1>1, <1>3, <1>4, <2>1, <2>3
  <2> QED
    BY <2>2, <2>3
<1>8. /\ m_pending_clients' \in Seq(Clients) /\ Distinct(m_pending_clients')
      /\ ToSet(m_pending_clients') = ToSet(m_pending_clients) \ {c}
      /\ m_pending_clients = <<>> => m_pending_clients' = <<>>
  <2>1. Distinct(m_pending_clients)
    BY <1>3 DEF Slots
  <2> QED
    BY <1>1, <1>3, <2>1, FirstRemoved
<1>9. TypeOK'
  <2>1. m_max_players \in Nat /\ Len(m_players) <= m_max_players
    BY <1>1, ClientsAssumption DEF TypeOK
  <2>2. Len(m_players') <= m_max_players'
    BY <1>1, <1>3, <1>7, <2>1
  <2> QED
    BY <1>1, <1>5, <1>6, <1>7, <1>8, <2>2 DEF TypeOK, registry, queues, frame
<1>10. Seated' = Seated \ {c}
  BY <1>2, <1>5 DEF Seated
<1>11. Slots'
  <2>1. \A d \in net_players : d \notin Seated' =>
          \E u \in Threads : job'[u].of = d /\ job'[u].step \in {"farewell", "destroy"}
    <3>1. SUFFICES ASSUME NEW d \in net_players, d \notin Seated'
                   PROVE \E u \in Threads : job'[u].of = d /\ job'[u].step \in {"farewell", "destroy"}
      OBVIOUS
    <3>2. CASE d = c
      BY <1>6, <3>2
    <3>3. CASE d # c
      <4>1. PICK u \in Threads : job[u].of = d /\ job[u].step \in {"farewell", "destroy"}
        BY <1>3, <1>10, <3>1, <3>3 DEF Slots
      <4>2. job'[u] = job[u]
        BY <1>1, <1>6, <4>1
      <4> QED
        BY <4>1, <4>2
    <3> QED
      BY <3>2, <3>3
  <2>2. ToSet(m_players') = Seated'
    BY <1>3, <1>7, <1>10 DEF Slots
  <2>3. ToSet(m_pending_clients') \subseteq Seated' \ ({Host} \cup net_players)
    BY <1>3, <1>8, <1>10 DEF Slots
  <2> QED
    BY <1>1, <1>7, <1>8, <2>1, <2>2, <2>3 DEF Slots, registry
<1>12. failed' = "no" => Sound'
  <2>1. SUFFICES ASSUME ~Moves(t) PROVE Sound'
    BY <1>1
  <2>2. Found'
    <3>1. SUFFICES ASSUME NEW u \in Threads, job'[u].step = "erase"
                   PROVE  IF job'[u].at = 0 THEN link'[job'[u].of] = "closed"
                          ELSE job'[u].at \in 1..Len(m_players') /\ m_players'[job'[u].at] = job'[u].of
      BY DEF Found
    <3>2. u # t /\ job'[u] = job[u]
      BY <1>6, <3>1
    <3>3. PICK d \in Clients, i \in Nat : d = job[u].of /\ i = job[u].at
      BY <1>2 DEF Jobs
    <3>4. IF i = 0 THEN link[d] = "closed" ELSE i \in 1..Len(m_players) /\ m_players[i] = d
      BY <1>3, <3>1, <3>2, <3>3 DEF Found
    <3>5. CASE i = 0
      BY <1>5, <3>2, <3>3, <3>4, <3>5
    <3>6. CASE i # 0 /\ k = 0
      BY <1>1, <3>2, <3>3, <3>4, <3>6
    <3>7. CASE i # 0 /\ k # 0
      <4>1. ~(i >= k)
        BY <1>0, <2>1, <3>1, <3>2, <3>3, <3>7 DEF Moves
      <4>2. k \in 1..Len(m_players) /\ i \in 1..Len(m_players) /\ m_players[i] = d
        BY <1>3, <3>4, <3>7
      <4>3. i \in 1..(Len(m_players) - 1) /\ i < k
        BY <1>3, <4>1, <4>2
      <4>4. i \in 1..Len(m_players') /\ m_players'[i] = d
        BY <1>7, <3>7, <4>2, <4>3
      <4> QED
        BY <3>2, <3>3, <3>7, <4>4
    <3> QED
      BY <3>5, <3>6, <3>7
  <2>3. Handing'
    BY <1>1, <1>3, <1>5, HandingKept DEF queues, frame, registry
  <2> QED
    BY <2>2, <2>3 DEF Sound
<1>13. JobsSound'
  <2>1. \A u \in Threads : job[u].step # "idle" => job[u].of \in Clients
    BY <1>3, JobTypes DEF JobsSound, JobSound
  <2>2. \A d \in Clients : link'[d] = "leaving" => job'["net"].of = d /\ job'["net"].step \in {"slot", "erase"}
    <3>1. SUFFICES ASSUME NEW d \in Clients, link'[d] = "leaving"
                   PROVE  job'["net"].of = d /\ job'["net"].step \in {"slot", "erase"}
      OBVIOUS
    <3>2. d # c /\ link[d] = "leaving"
      BY <1>5, <3>1
    <3>3. job["net"].of = d /\ job["net"].step \in {"slot", "erase"}
      BY <1>3, <3>2 DEF JobsSound, JobSound
    <3>4. "net" # t
      BY <1>0, <3>2, <3>3
    <3> QED
      BY <1>6, <3>3, <3>4 DEF Threads
  <2>3. ASSUME NEW u \in Threads, u # t PROVE JobSound(u)'
    <3>1. JobSound(u) /\ job'[u] = job[u] /\ net_players' = net_players
      BY <1>1, <1>3, <1>6, <2>3 DEF JobsSound, registry
    <3>2. job[u] = Idle \/ job[u].of \in Clients
      BY <2>1, <2>3, <3>1 DEF JobSound
    <3>3. CASE job[u].of = c
      BY <1>5, <3>1, <3>3 DEF JobSound
    <3>4. CASE job[u].of # c
      <4>1. job[u] # Idle => (job[u].of \in Seated' <=> job[u].of \in Seated) /\ link'[job[u].of] = link[job[u].of]
        BY <1>5, <1>10, <3>2, <3>4
      <4> QED
        BY <3>1, <4>1, JobTypes DEF JobSound
    <3> QED
      BY <3>3, <3>4
  <2>4. JobSound(t)'
    BY <1>2, <1>5, <1>6 DEF JobSound
  <2> QED
    BY <2>2, <2>3, <2>4 DEF JobsSound
<1>14. HostFirst'
  <2>1. link'[Host] = link[Host]
    BY <1>2, <1>5, JobTypes
  <2> QED
    BY <1>1, <1>8, <2>1 DEF IInv, Control, HostFirst, registry, queues, Creates
<1>15. ASSUME NEW d \in Clients \ {c} PROVE PerClient(d)'
  <2>1. (Parting(d)' <=> Parting(d)) /\ (Closing(d) => Closing(d)')
    BY <1>0, <1>1, <1>6, <1>15, WorkedOn
  <2>2. Same(d)
    BY <1>1, <1>5, <1>8, <1>15, <2>1, QueuesKept DEF Same, registry, frame
  <2> QED
    BY <1>1, <1>15, <2>2, Frame DEF IInv
<1>16. PerClient(c)'
  <2>1. PerClient(c) /\ (Parting(c)' <=> Parting(c))
    BY <1>0, <1>1, <1>6, WorkedOn DEF IInv
  <2>2. Parting(c) => link[c] = "closed"
    BY <1>3 DEF Parting, JobsSound, JobSound
  <2>3. Farewell(c)'
    <3>1. Farewell(c)
      BY <2>1 DEF PerClient
    <3>2. CASE c \in net_players
      BY <1>1, <2>1, <3>1, <3>2, QueuesKept DEF Farewell, Told, registry, frame
    <3>3. CASE c \notin net_players /\ link[c] # "closed"
      <4>1. Coming(c)
        BY <2>1, <3>3 DEF PerClient
      <4> QED
        BY <1>1, <1>5, <3>1, <3>3, <4>1 DEF Farewell, Told, Coming, NewClient, registry
    <3>4. CASE c \notin net_players /\ link[c] = "closed"
      BY <1>1, <1>5, <3>1, <3>4 DEF Farewell, Told, registry
    <3> QED
      BY <3>2, <3>3, <3>4
  <2>4. c \in net_players => Joining(c)'
    <3>1. ASSUME NEW b \in 0..5, Batch(c, b) PROVE Batch(c, b)'
      <4>1. JoinsOf(c) \in Seq(FromClient) /\ toServer[c] \in Seq(FromClient) /\ JoinsOf(c)' = <<>>
        <5>1. Filtered(<<>>, Joins) = <<>>
          BY FilteredOne
        <5> QED
          BY <1>1, <1>5, <5>1, Projections DEF JoinsOf
      <4>2. CASE k # 0
        <5>1. JoinsOf(c)' = SubSeq(JoinsOf(c), 1, 0) /\ 0 \in 0..Len(JoinsOf(c))
          BY <4>1
        <5> QED
          BY <1>1, <1>4, <1>5, <3>1, <4>2, <5>1, BatchLeave DEF frame
      <4>3. CASE k = 0
        <5>1. link[c] = "closed" /\ toServer[c] = <<>> /\ toClient[c] = <<>>
          BY <1>3, <2>1, <4>3 DEF PerClient
        <5>2. /\ EventsOf(c)' = EventsOf(c) /\ MessagesOf(c)' = MessagesOf(c) /\ PacketsOf(c)' = PacketsOf(c)
              /\ client' = client
          BY <1>1, QueuesKept DEF registry, frame
        <5> QED
          BY <1>1, <1>5, <3>1, <5>1, <5>2, BatchClosed
      <4> QED
        BY <4>2, <4>3
    <3> QED
      BY <2>1, <3>1 DEF PerClient, Joining
  <2> QED
    BY <1>1, <1>5, <2>3, <2>4 DEF PerClient, registry
<1> QED
  BY <1>9, <1>11, <1>12, <1>13, <1>14, <1>15, <1>16 DEF IInv, Control

(* What the last steps of disconnecting leave of the control.              *)
LEMMA WorkedControl ==
  ASSUME IInv, failed = "no", NEW t \in Threads, job[t].step \in {"farewell", "destroy", "clean"},
         NEW c \in Clients, c = job[t].of,
         job' \in [Threads -> Jobs], \A u \in Threads : u # t => job'[u] = job[u],
         job'[t] = Idle \/ (job'[t].of = c /\ job'[t].step \in {"destroy", "clean"}),
         c \in net_players' => job'[t].of = c /\ job'[t].step = "destroy",
         net_players' \subseteq net_players, net_players \ {c} \subseteq net_players',
         \A d \in Clients \ {c} : client'[d] = client[d],
         link' = link, slots' = slots, events' = events
  PROVE  Found' /\ Slots' /\ JobsSound' /\ HostFirst'
<1>1. /\ job \in [Threads -> Jobs] /\ c \in Remote /\ c # Host
  BY Working
<1>2. Found /\ Slots /\ JobsSound /\ HostFirst
  BY DEF IInv, Control, Sound
<1>3. link[c] = "closed" /\ Seated' = Seated /\ c \notin Seated
  BY <1>2 DEF JobsSound, JobSound, Seated
<1>4. Found'
  <2>1. \A u \in Threads : job'[u].step = "erase" => job'[u] = job[u]
    BY JobTypes
  <2> QED
    BY <1>2, <2>1 DEF Found, slots
<1>5. Slots'
  <2>1. \A d \in net_players' : d \notin Seated =>
          \E u \in Threads : job'[u].of = d /\ job'[u].step \in {"farewell", "destroy"}
    <3>1. SUFFICES ASSUME NEW d \in net_players', d \notin Seated, d # c
                   PROVE \E u \in Threads : job'[u].of = d /\ job'[u].step \in {"farewell", "destroy"}
      OBVIOUS
    <3>2. PICK u \in Threads : job[u].of = d /\ job[u].step \in {"farewell", "destroy"}
      BY <1>2, <3>1 DEF Slots
    <3>3. u # t
      BY <3>1, <3>2
    <3> QED
      BY <3>2, <3>3
  <2> QED
    BY <1>2, <1>3, <2>1 DEF Slots, slots
<1>6. JobsSound'
  <2>1. \A d \in Clients : link[d] = "leaving" => job'["net"].of = d /\ job'["net"].step \in {"slot", "erase"}
    BY <1>2 DEF JobsSound, JobSound, Threads
  <2>2. ASSUME NEW u \in Threads, u # t PROVE JobSound(u)'
    <3>1. JobSound(u) /\ job'[u] = job[u]
      BY <1>2, <2>2 DEF JobsSound
    <3> QED
      BY <1>3, <3>1 DEF JobSound
  <2>3. JobSound(t)'
    BY <1>1, <1>3, JobTypes DEF JobSound
  <2> QED
    BY <2>1, <2>2, <2>3 DEF JobsSound
<1>7. HostFirst'
  <2>1. client'[Host] = client[Host] /\ (Host \in net_players' <=> Host \in net_players)
    BY <1>1, JobTypes
  <2> QED
    BY <1>2, <2>1 DEF HostFirst, slots, Creates
<1> QED
  BY <1>4, <1>5, <1>6, <1>7

LEMMA DestroyCleintStep ==
  ASSUME IInv, NEW t \in Threads, DestroyCleint(t)
  PROVE  IInv'
<1>0. PICK c \in Clients : c = job[t].of
  <2>1. job \in [Threads -> Jobs]
    BY DEF IInv, Control, TypeOK
  <2> QED
    BY <2>1 DEF Jobs
<1>1. /\ failed = "no" /\ failed' = "no" /\ job[t].step = "farewell" /\ TypeOK /\ link[c] = "closed"
      /\ UNCHANGED <<link, peers, slots, net_players, SV_Client, queues, frame, failed>>
  BY <1>0 DEF IInv, Control, JobsSound, JobSound, DestroyCleint, At
<1>2. /\ job \in [Threads -> Jobs] /\ c \in Remote /\ c # Host
  BY <1>0, <1>1, Working
<1>3. /\ client \in [Clients -> ClientData] /\ farewells \in [Clients -> Nat]
  BY <1>1 DEF TypeOK
<1>4. CASE c \in net_players
  <2>1. /\ job' = [job EXCEPT ![t].step = "destroy"]
        /\ client' = [client EXCEPT ![c].bConnected = FALSE]
        /\ farewells' = IF client[c].ps THEN [farewells EXCEPT ![c] = @ + 1] ELSE farewells
    BY <1>0, <1>4 DEF DestroyCleint, Then
  <2>2. /\ job' \in [Threads -> Jobs] /\ job'[t].step = "destroy" /\ job'[t].of = c
        /\ \A u \in Threads : u # t => job'[u] = job[u]
    BY <1>0, <1>2, <2>1 DEF Jobs
  <2>3. /\ client' \in [Clients -> ClientData] /\ client'[c] = [client[c] EXCEPT !.bConnected = FALSE]
        /\ \A d \in Clients \ {c} : client'[d] = client[d]
        /\ client[c] \in ClientData
    BY <1>3, <2>1 DEF ClientData
  <2>4. /\ farewells' \in [Clients -> Nat] /\ \A d \in Clients \ {c} : farewells'[d] = farewells[d]
        /\ farewells'[c] = IF client[c].ps THEN farewells[c] + 1 ELSE farewells[c]
    BY <1>3, <2>1
  <2>5. TypeOK'
    BY <1>1, <2>2, <2>3, <2>4 DEF TypeOK, peers, slots, queues, frame
  <2>6. Sound' /\ Slots' /\ JobsSound' /\ HostFirst'
    <3>1. Handing'
      BY <1>1, HandingKept DEF IInv, Control, Sound, queues, frame
    <3> QED
      BY <1>0, <1>1, <2>2, <2>3, <3>1, WorkedControl DEF Sound, queues
  <2>7. ASSUME NEW d \in Clients \ {c} PROVE PerClient(d)'
    <3>1. (Parting(d)' <=> Parting(d)) /\ (Closing(d) => Closing(d)')
      BY <1>0, <1>1, <2>2, <2>7, WorkedOn
    <3>2. Same(d)
      BY <1>1, <2>3, <2>4, <2>7, <3>1, QueuesKept DEF Same, peers, slots, frame
    <3> QED
      BY <1>1, <2>7, <3>2, Frame DEF IInv
  <2>8. PerClient(c)'
    <3>1. PerClient(c) /\ Parting(c)'
      BY <1>0, <1>1, <2>2, WorkedOn DEF IInv
    <3>2. PICK b \in 0..5 : Batch(c, b)
      BY <1>4, <3>1 DEF PerClient, Joining
    <3>3. farewells[c] \in Nat
      BY <1>3
    <3>4. /\ client'[c].m_last_key_sync_request_seed = client[c].m_last_key_sync_request_seed
          /\ client'[c].ps = client[c].ps /\ client'[c].net_Accepted = client[c].net_Accepted
          /\ client'[c].owner = client[c].owner /\ client'[c].m_secret_key = client[c].m_secret_key
      BY <2>3 DEF ClientData
    <3>5. client[c].owner => client[c].ps
      BY <3>2 DEF Batch, Known
    <3>6. Some(MessagesOf(c), {"ready"}) => client[c].ps
      <4>1. ASSUME Some(MessagesOf(c), {"ready"}) PROVE b = 5
        <5>1. "ready" \in FromPlayer(b)
          BY <3>2, <4>1 DEF Batch, Line, Pipe, Made, Some
        <5> QED
          BY <5>1 DEF FromPlayer
      <4> QED
        BY <3>2, <4>1 DEF Batch, Known
    <3>7. Told(c)' /\ (farewells'[c] > 0 \/ ~Some(MessagesOf(c)', {"ready"}))
      BY <1>1, <2>4, <3>3, <3>4, <3>5, <3>6, QueuesKept DEF Told, frame
    <3>8. Farewell(c)'
      <4>1. farewells'[c] > 0 => client'[c].ps
        BY <2>4, <3>1, <3>4 DEF PerClient, Farewell
      <4> QED
        BY <1>1, <1>4, <3>1, <3>7, <4>1 DEF Farewell
    <3>9. Batch(c, b)'
      BY <1>1, <3>2, <3>4, QueuesKept, BatchClosed DEF peers, frame
    <3> QED
      BY <1>1, <1>4, <3>1, <3>8, <3>9 DEF PerClient, Joining, peers
  <2> QED
    BY <2>5, <2>6, <2>7, <2>8 DEF IInv, Control
<1>5. CASE c \notin net_players
  <2>1. job' = [job EXCEPT ![t] = Idle] /\ UNCHANGED <<client, farewells>>
    BY <1>0, <1>5 DEF DestroyCleint, Done
  <2>2. /\ job' \in [Threads -> Jobs] /\ job'[t] = Idle
        /\ \A u \in Threads : u # t => job'[u] = job[u]
    BY <1>2, <2>1, JobTypes
  <2>3. TypeOK'
    BY <1>1, <2>1, <2>2 DEF TypeOK, peers, slots, queues, frame
  <2>4. Sound' /\ Slots' /\ JobsSound' /\ HostFirst'
    <3>1. Handing'
      BY <1>1, HandingKept DEF IInv, Control, Sound, queues, frame
    <3>2. net_players' = net_players /\ client' = client
      BY <1>1, <2>1
    <3> QED
      BY <1>0, <1>1, <1>5, <2>2, <3>1, <3>2, WorkedControl DEF Sound, queues
  <2>5. ASSUME NEW d \in Clients PROVE PerClient(d)'
    <3>1. (Parting(d)' <=> Parting(d)) /\ (Closing(d) => Closing(d)')
      <4>1. CASE d = c
        <5>1. Closing(c) => Closing(c)'
          BY <1>1, <2>2 DEF Closing, Threads
        <5>2. Parting(c)' <=> Parting(c)
          BY <1>0, <1>1, <2>2, WorkedOn, JobTypes
        <5> QED
          BY <4>1, <5>1, <5>2
      <4>2. CASE d # c
        BY <1>0, <1>1, <2>2, <4>2, WorkedOn
      <4> QED
        BY <4>1, <4>2
    <3>2. Same(d)
      BY <1>1, <2>1, <3>1, QueuesKept DEF Same, peers, slots, frame
    <3> QED
      BY <1>1, <3>2, Frame DEF IInv
  <2> QED
    BY <2>3, <2>4, <2>5 DEF IInv, Control
<1> QED
  BY <1>4, <1>5

LEMMA FindAndEraseClientStep ==
  ASSUME IInv, NEW t \in Threads, FindAndEraseClient(t)
  PROVE  IInv'
<1>0. PICK c \in Clients : c = job[t].of
  <2>1. job \in [Threads -> Jobs]
    BY DEF IInv, Control, TypeOK
  <2> QED
    BY <2>1 DEF Jobs
<1>1. /\ failed = "no" /\ failed' = "no" /\ job[t].step = "destroy" /\ TypeOK /\ link[c] = "closed"
      /\ job' = [job EXCEPT ![t].step = "clean"] \/ job' = [job EXCEPT ![t] = Idle]
      /\ net_players' = net_players \ {c}
      /\ UNCHANGED <<link, peers, slots, client, SV_Client, queues, frame, farewells, failed>>
  BY <1>0 DEF IInv, Control, JobsSound, JobSound, FindAndEraseClient, At, Then, Done
<1>2. /\ job \in [Threads -> Jobs] /\ c \in Remote /\ c # Host
  BY <1>0, <1>1, Working
<1>3. /\ job' \in [Threads -> Jobs]
      /\ job'[t] = Idle \/ (job'[t].of = c /\ job'[t].step = "clean")
      /\ \A u \in Threads : u # t => job'[u] = job[u]
  BY <1>0, <1>1, <1>2, JobTypes DEF Jobs
<1>4. TypeOK'
  BY <1>1, <1>3 DEF TypeOK, peers, slots, queues, frame
<1>5. Sound' /\ Slots' /\ JobsSound' /\ HostFirst'
  <2>1. Handing'
    <3>1. net_players' \subseteq net_players
      BY <1>1
    <3> QED
      BY <1>1, <3>1, HandingKept DEF IInv, Control, Sound, queues, frame
  <2>2. client' = client
    BY <1>1
  <2> QED
    BY <1>0, <1>1, <1>3, <2>1, <2>2, WorkedControl DEF Sound, queues
<1>6. ASSUME NEW d \in Clients \ {c} PROVE PerClient(d)'
  <2>1. (Parting(d)' <=> Parting(d)) /\ (Closing(d) => Closing(d)')
    BY <1>0, <1>1, <1>3, <1>6, WorkedOn
  <2>2. Same(d)
    BY <1>1, <1>6, <2>1, QueuesKept DEF Same, peers, slots, frame
  <2> QED
    BY <1>1, <1>6, <2>2, Frame DEF IInv
<1>7. PerClient(c)'
  <2>1. Told(c) /\ (farewells[c] > 0 => client[c].ps)
    <3>1. Parting(c)
      BY <1>0, <1>1 DEF Parting
    <3> QED
      BY <1>1, <3>1 DEF IInv, PerClient, Farewell
  <2>2. Farewell(c)'
    BY <1>1, <2>1 DEF Farewell, Told
  <2> QED
    BY <1>1, <2>2 DEF IInv, PerClient, peers
<1> QED
  BY <1>4, <1>5, <1>6, <1>7 DEF IInv, Control

(* The packets of whoever is not being handled all wait.                   *)
LEMMA OthersPackets ==
  ASSUME NEW m \in Seq(Received), NEW h, NEW c, c # h
  PROVE  Filtered(IF m # <<>> /\ Head(m).sender = h THEN Tail(m) ELSE m, Of(c)) = Filtered(m, Of(c))
<1>1. SUFFICES ASSUME m # <<>>, Head(m).sender = h
               PROVE  Filtered(Tail(m), Of(c)) = Filtered(m, Of(c))
  OBVIOUS
<1>2. Head(m) \notin Of(c)
  BY <1>1 DEF Of
<1> QED
  BY <1>1, <1>2, FilteredTail

LEMMA client_DestroyStep ==
  ASSUME IInv, NEW t \in Threads, client_Destroy(t)
  PROVE  IInv'
<1>0. PICK c \in Clients : c = job[t].of
  <2>1. job \in [Threads -> Jobs]
    BY DEF IInv, Control, TypeOK
  <2> QED
    BY <2>1 DEF Jobs
<1> DEFINE others == {p \in Received : p.sender # c}
<1>1. /\ failed = "no" /\ job[t].step = "clean" /\ TypeOK /\ link[c] = "closed" /\ c \notin net_players
      /\ job' = [job EXCEPT ![t] = Idle]
      /\ m_aDelayedPackets' = Filtered(m_aDelayedPackets, others)
      /\ UNCHANGED <<link, peers, slots, registry, m_messagesQueue, events, frame, farewells, failed>>
  BY <1>0 DEF IInv, Control, JobsSound, JobSound, client_Destroy, At, Done
<1> HIDE DEF others
<1>2. /\ job \in [Threads -> Jobs] /\ c \in Remote /\ c # Host
  BY <1>0, <1>1, Working
<1>3. /\ job' \in [Threads -> Jobs] /\ job'[t] = Idle /\ \A u \in Threads : u # t => job'[u] = job[u]
  BY <1>1, <1>2, JobTypes
<1>4. m_aDelayedPackets \in Seq(Received) /\ m_aDelayedPackets' \in Seq(Received)
  BY <1>1, FilteredPicks DEF TypeOK
<1>5. TypeOK'
  BY <1>1, <1>3, <1>4 DEF TypeOK, peers, slots, registry, frame
<1>6. Sound' /\ Slots' /\ JobsSound' /\ HostFirst'
  <2>1. Handing'
    <3>1. /\ Handing /\ handling' = handling /\ phase' = phase /\ net_players' = net_players /\ link' = link
      BY <1>1 DEF IInv, Control, Sound, frame, registry
    <3>2. CASE handling = c
      BY <1>1, <3>1, <3>2 DEF Handing
    <3>3. CASE handling # c /\ m_aDelayedPackets # <<>> /\ Head(m_aDelayedPackets).sender = handling
      <4>1. Head(m_aDelayedPackets) \in Received
        BY <1>4, <3>3
      <4>2. Head(m_aDelayedPackets) \in others
        BY <3>3, <4>1 DEF others
      <4>3. m_aDelayedPackets' # <<>> /\ Head(m_aDelayedPackets') = Head(m_aDelayedPackets)
        BY <1>1, <1>4, <3>3, <4>2, FilteredHead
      <4> QED
        BY <3>1, <3>3, <4>3 DEF Handing
    <3>4. CASE ~(m_aDelayedPackets # <<>> /\ Head(m_aDelayedPackets).sender = handling)
      BY <3>1, <3>4 DEF Handing
    <3> QED
      BY <3>2, <3>3, <3>4
  <2>2. client' = client /\ net_players' = net_players
    BY <1>1 DEF registry
  <2> QED
    BY <1>0, <1>1, <1>3, <2>1, <2>2, WorkedControl DEF Sound
<1>7. ASSUME NEW d \in Clients \ {c} PROVE PerClient(d)'
  <2>1. (Parting(d)' <=> Parting(d)) /\ (Closing(d) => Closing(d)')
    BY <1>0, <1>1, <1>3, <1>7, WorkedOn
  <2>2. Filtered(m_aDelayedPackets', Of(d)) = Filtered(m_aDelayedPackets, Of(d))
    <3>1. Of(d) \cap Received \subseteq others
      BY <1>7 DEF Of, others
    <3> QED
      BY <1>1, <1>4, <3>1, FilteredTwice
  <2>3. CASE d # handling \/ FirstHandled
    <3>1. PacketsOf(d)' = PacketsOf(d)
      <4>1. CASE d # handling
        <5>1. PacketsOf(d) = Filtered(m_aDelayedPackets, Of(d))
          BY <1>4, <4>1, OthersPackets DEF PacketsOf, Waiting, FirstHandled
        <5>2. handling' = handling
          BY <1>1 DEF frame
        <5>3. PacketsOf(d)' = Filtered(m_aDelayedPackets', Of(d))
          BY <1>4, <4>1, <5>2, OthersPackets DEF PacketsOf, Waiting, FirstHandled, Of
        <5> QED
          BY <2>2, <5>1, <5>3
      <4>2. CASE d = handling /\ FirstHandled
        <5>1. Head(m_aDelayedPackets) \in others /\ m_aDelayedPackets # <<>>
          BY <1>4, <1>7, <4>2 DEF others, FirstHandled
        <5>2. /\ m_aDelayedPackets' # <<>> /\ Head(m_aDelayedPackets') = Head(m_aDelayedPackets)
              /\ Tail(m_aDelayedPackets') = Filtered(Tail(m_aDelayedPackets), others)
          BY <1>1, <1>4, <5>1, FilteredTail
        <5>3. Tail(m_aDelayedPackets) \in Seq(Received) /\ Of(d) \cap Received \subseteq others
          BY <1>4, <1>7, <5>1 DEF Of, others
        <5>4. Filtered(Tail(m_aDelayedPackets'), Of(d)) = Filtered(Tail(m_aDelayedPackets), Of(d))
          <6>1. PICK q : q = Tail(m_aDelayedPackets)
            OBVIOUS
          <6>2. q \in Seq(Received)
            BY <5>3, <6>1
          <6>3. Filtered(Filtered(q, others), Of(d)) = Filtered(q, Of(d))
            BY <5>3, <6>2, FilteredTwice
          <6> QED
            BY <5>2, <6>1, <6>3
        <5>5. handling' = handling /\ FirstHandled'
          BY <1>1, <4>2, <5>2 DEF frame, FirstHandled
        <5> QED
          BY <4>2, <5>4, <5>5 DEF PacketsOf, Waiting, Of
      <4> QED
        BY <2>3, <4>1, <4>2
    <3>2. EventsOf(d)' = EventsOf(d) /\ MessagesOf(d)' = MessagesOf(d)
      BY <1>1 DEF EventsOf, MessagesOf, Of
    <3>3. Same(d)
      BY <1>1, <1>7, <2>1, <2>2, <3>1, <3>2 DEF Same, peers, slots, registry, frame
    <3> QED
      BY <1>1, <1>7, <3>3, Frame DEF IInv
  <2>4. CASE d = handling /\ ~FirstHandled
    <3>1. d \notin net_players /\ link[d] = "closed"
      <4>1. d # Nobody
        BY <1>7, ClientsAssumption DEF Clients
      <4> QED
        BY <1>1, <2>4, <4>1 DEF IInv, Control, Sound, Handing, FirstHandled
    <3>2. Farewell(d)'
      BY <1>1, <1>7, <3>1 DEF IInv, PerClient, Farewell, Told, registry
    <3> QED
      BY <1>1, <1>7, <3>1, <3>2 DEF IInv, PerClient, peers, registry
  <2> QED
    BY <2>3, <2>4
<1>8. PerClient(c)'
  <2>1. Farewell(c)'
    BY <1>1 DEF IInv, PerClient, Farewell, Told, registry
  <2> QED
    BY <1>1, <2>1 DEF IInv, PerClient, peers, registry
<1> QED
  BY <1>5, <1>6, <1>7, <1>8 DEF IInv, Control

LEMMA DisconnectStep ==
  ASSUME IInv, NEW t \in Threads, DisconnectClient(t)
  PROVE  IInv'
BY FindSlotStep, CloseConnectionStep, DestroyCleintStep, FindAndEraseClientStep, client_DestroyStep
   DEF DisconnectClient
-----------------------------------------------------------------------------
(* Messages that are received.                                             *)

(* Who has no delayed packet has none to come.                             *)
LEMMA NoPackets ==
  ASSUME TypeOK, NEW c \in Clients, Filtered(m_aDelayedPackets, Of(c)) = <<>>
  PROVE  PacketsOf(c) = <<>>
<1>1. m_aDelayedPackets \in Seq(Received)
  BY DEF TypeOK
<1>2. m_aDelayedPackets # <<>> => Filtered(Tail(m_aDelayedPackets), Of(c)) = <<>>
  BY <1>1, FilteredTail
<1> QED
  BY <1>2 DEF PacketsOf, Waiting, FirstHandled

(* The events of the clients that are registered come last, one of each.   *)
Creation(c) == [sender |-> c, type |-> "create", n |-> 0]
(* The events that FinishConnection adds: one for each client that is      *)
(* registered.                                                             *)
LEMMA Creations ==
  ASSUME events \in Seq(Received), NEW s \in Seq(Clients), Distinct(s), FinishConnection(s)
  PROVE  /\ events' \in Seq(Received)
         /\ Len(events) \in Nat /\ Len(s) \in Nat /\ Len(events') = Len(events) + Len(s)
         /\ \A k \in 1..Len(events) : events'[k] = events[k]
         /\ \A k \in 1..Len(s) : events'[Len(events) + k] = Creation(s[k])
         /\ \A d \in Clients : EventsOf(d)' = IF d \in ToSet(s) THEN EventsOf(d) \o <<Creation(d)>>
                                              ELSE EventsOf(d)
<1> DEFINE a == [k \in DOMAIN s |-> [sender |-> s[k], type |-> "create", n |-> 0]]
<1>1. Len(s) \in Nat /\ DOMAIN s = 1..Len(s) /\ \A k \in 1..Len(s) : s[k] \in Clients
  BY ElementOfSeq, LenProperties
<1>2. \A k \in 1..Len(s) : [sender |-> s[k], type |-> "create", n |-> 0] \in Received
  BY <1>1 DEF Received, Seeds
<1>3. /\ a \in Seq(Received) /\ Len(a) = Len(s) /\ events' = events \o a
      /\ \A k \in 1..Len(s) : a[k] = Creation(s[k])
  BY <1>1, <1>2 DEF FinishConnection, Creation
<1> HIDE DEF a
<1>4. /\ events' \in Seq(Received)
      /\ Len(events) \in Nat /\ Len(s) \in Nat /\ Len(events') = Len(events) + Len(s)
      /\ \A k \in 1..Len(events) : events'[k] = events[k]
      /\ \A k \in 1..Len(s) : events'[Len(events) + k] = a[k]
  <2>1. /\ Len(events) \in Nat /\ Len(a) \in Nat /\ Len(events \o a) = Len(events) + Len(a)
        /\ events \o a \in Seq(Received)
        /\ \A i \in 1..(Len(events) + Len(a)) :
             (events \o a)[i] = IF i <= Len(events) THEN events[i] ELSE a[i - Len(events)]
    BY <1>3, ConcatProperties, LenProperties
  <2>2. \A k \in 1..Len(a) : /\ Len(events) + k \in 1..(Len(events) + Len(a)) /\ ~(Len(events) + k <= Len(events))
                             /\ Len(events) + k - Len(events) = k
    BY <2>1
  <2>3. \A k \in 1..Len(events) : k \in 1..(Len(events) + Len(a)) /\ k <= Len(events)
    BY <2>1
  <2> QED
    BY <1>1, <1>3, <2>1, <2>2, <2>3
<1>5. ASSUME NEW d \in Clients
      PROVE  EventsOf(d)' = IF d \in ToSet(s) THEN EventsOf(d) \o <<Creation(d)>> ELSE EventsOf(d)
  <2>1. EventsOf(d)' = EventsOf(d) \o Filtered(a, Of(d)) /\ EventsOf(d) \in Seq(Received)
    <3>1. Filtered(events \o a, Of(d)) = Filtered(events, Of(d)) \o Filtered(a, Of(d))
      BY <1>3, FilteredConcat
    <3> QED
      BY <1>3, <3>1, FilteredPicks DEF EventsOf, Of
  <2>2. \A k \in 1..Len(a) : a[k] \in Of(d) <=> s[k] = d
    <3>1. \A c \in Clients : Creation(c) \in Of(d) <=> c = d
      BY DEF Creation, Of, Received, Seeds
    <3> QED
      BY <1>1, <1>3, <3>1
  <2>3. CASE d \in ToSet(s)
    <3>1. PICK k \in 1..Len(s) : s[k] = d
      BY <2>3, Elements
    <3>2. \A j \in 1..Len(a) : a[j] \in Of(d) => j = k
      BY <1>3, <2>2, <3>1 DEF Distinct
    <3>3. Filtered(a, Of(d)) = <<a[k]>>
      <4>1. k \in 1..Len(a) /\ a[k] \in Of(d)
        BY <1>3, <2>2, <3>1
      <4> QED
        BY <1>3, <3>2, <4>1, FilteredOnly
    <3> QED
      BY <1>3, <2>1, <2>3, <3>1, <3>3
  <2>4. CASE d \notin ToSet(s)
    <3>1. \A k \in 1..Len(a) : a[k] \notin Of(d)
      BY <1>3, <2>2, <2>4, Elements
    <3>2. Filtered(a, Of(d)) = <<>>
      BY <1>3, <3>1, FilteredNone
    <3> QED
      BY <2>1, <2>4, <3>2
  <2> QED
    BY <2>3, <2>4
<1> QED
  BY <1>3, <1>4, <1>5

(* A client begins with the event of his registration.                     *)
LEMMA NewBatch ==
  ASSUME TypeOK, TypeOK', failed = "no", NEW c \in Clients, PerClient(c), JobsSound,
         c \notin net_players, link[c] # "closed", link'[c] = link[c],
         c \in net_players', client'[c] = NewClient, EventsOf(c)' = EventsOf(c) \o <<Creation(c)>>,
         toClient'[c] = <<>>, toServer'[c] = <<>>,
         UNCHANGED <<m_messagesQueue, m_aDelayedPackets, frame, job, farewells>>
  PROVE  PerClient(c)'
<1>1. Coming(c) /\ farewells[c] = 0
  BY DEF PerClient, Farewell
<1>2. /\ EventsOf(c)' = <<Creation(c)>> /\ MessagesOf(c)' = <<>> /\ JoinsOf(c)' = <<>>
      /\ Filtered(m_aDelayedPackets', Of(c)) = <<>>
  BY <1>1, ConcatAppend, EmptySeq, FilteredOne DEF Coming, MessagesOf, JoinsOf, Of
<1>3. PacketsOf(c)' = <<>>
  <2>1. PacketsOf(c) = <<>>
    BY <1>1, NoPackets DEF Coming
  <2> QED
    BY <2>1 DEF PacketsOf, Waiting, FirstHandled, Of, frame
<1>4. /\ Len(<<Creation(c)>>) = 1 /\ <<Creation(c)>>[1] = Creation(c) /\ Creation(c).type = "create"
  BY DEF Creation
<1>5. Line(c, 0)'
  <2>1. Ascending(<<Creation(c)>>) /\ Made(<<Creation(c)>>, Events(0), {}, 0)
    BY <1>4 DEF Ascending, Made, Events
  <2>2. Pipe(<<Creation(c)>>, <<>>, <<>>, <<>>, 0)
    BY <2>1, Empty DEF Pipe
  <2> QED
    BY <1>2, <1>3, <2>2 DEF Line
<1>6. Known(c, 0)'
  <2>1. /\ client'[c].m_last_key_sync_request_seed = 0 /\ ~client'[c].ps /\ ~client'[c].owner
        /\ client'[c].net_Accepted = FALSE /\ client'[c].bConnected = FALSE
    BY DEF NewClient
  <2>2. (0 = 5) = FALSE /\ (0 >= 1) = FALSE /\ 0 < 3 /\ ~(0 >= 2)
    OBVIOUS
  <2> QED
    BY <2>1, <2>2 DEF Known
<1>7. Keys(c, 0)' /\ StateFirst(c, 0)'
  BY DEF Keys, StateFirst
<1>8. Alive(c, 0)'
  BY <1>2, <1>4 DEF Alive, Some
<1>9. Joining(c)'
  BY <1>5, <1>6, <1>7, <1>8 DEF Joining, Batch
<1>10. ~Parting(c)'
  BY DEF Parting, JobsSound, JobSound
<1>11. Farewell(c)'
  BY <1>1, <1>10 DEF Farewell
<1> QED
  BY <1>9, <1>11 DEF PerClient

LEMMA PollMessageStep ==
  ASSUME IInv, NEW c \in Clients, PollIncomingMessages(c), Head(toServer[c]).type # "data"
  PROVE  IInv'
<1> DEFINE s == toServer[c]
           m == Head(s)
<1>1. /\ failed = "no" /\ failed' = "no" /\ TypeOK /\ link[c] \in {"open", "broken"} /\ s # <<>> /\ m.type # "data"
      /\ m_messagesQueue' = Append(m_messagesQueue, [sender |-> c, type |-> m.type, n |-> m.n])
      /\ toServer' = [toServer EXCEPT ![c] = Tail(@)]
      /\ UNCHANGED <<link, toClient, secret, playing, slots, registry, m_aDelayedPackets, events, frame,
                     job, farewells, failed>>
  BY DEF IInv, Control, PollIncomingMessages, Network, slots, registry
<1>2. s \in Seq(FromClient) /\ toServer \in [Clients -> Seq(FromClient)] /\ m_messagesQueue \in Seq(Received)
  BY <1>1 DEF TypeOK
<1>3. m \in FromClient /\ Tail(s) \in Seq(FromClient)
  <2> HIDE DEF s
  <2> QED
    BY <1>1, <1>2
<1>4. PICK x \in Received : x = [sender |-> c, type |-> m.type, n |-> m.n]
  <2> HIDE DEF m
  <2> QED
    BY <1>1, <1>3 DEF FromClient, Received
<1>5. x.sender = c /\ x.type = m.type /\ x.n = m.n /\ m_messagesQueue' = Append(m_messagesQueue, x)
  BY <1>1, <1>4
<1>6. toServer'[c] = Tail(s) /\ \A d \in Clients \ {c} : toServer'[d] = toServer[d]
  BY <1>1, <1>2
<1>7. TypeOK'
  <2>1. toServer' \in [Clients -> Seq(FromClient)]
    BY <1>1, <1>2, <1>3
  <2>2. m_messagesQueue' \in Seq(Received)
    BY <1>2, <1>5
  <2> QED
    BY <1>1, <2>1, <2>2 DEF TypeOK, slots, registry, frame
<1>8. Control'
  <2>1. Seated' = Seated
    BY <1>1 DEF Seated
  <2>2. Sound'
    BY <1>1, HandingKept DEF IInv, Control, Sound, Found, slots, frame, registry
  <2>3. Slots'
    BY <1>1, <2>1 DEF IInv, Control, Slots, slots, registry
  <2>4. JobsSound'
    BY <1>1, JobsSoundKept DEF IInv, Control, registry
  <2>5. HostFirst'
    BY <1>1 DEF IInv, Control, HostFirst, slots, registry, Creates
  <2> QED
    BY <1>7, <2>2, <2>3, <2>4, <2>5 DEF Control
<1>9. \A d \in Clients : EventsOf(d)' = EventsOf(d) /\ PacketsOf(d)' = PacketsOf(d)
  BY <1>1 DEF EventsOf, PacketsOf, Waiting, FirstHandled, Of, frame
<1>10. ASSUME NEW d \in Clients
       PROVE  MessagesOf(d)' = IF d = c /\ m.type # "remote" THEN Append(MessagesOf(c), x) ELSE MessagesOf(d)
  <2>1. x \in Of(d) <=> d = c /\ m.type # "remote"
    BY <1>5 DEF Of
  <2>2. Filtered(m_messagesQueue', Of(d)) =
          IF x \in Of(d) THEN Append(Filtered(m_messagesQueue, Of(d)), x) ELSE Filtered(m_messagesQueue, Of(d))
    BY <1>2, <1>5, FilteredAppend
  <2> QED
    BY <2>1, <2>2 DEF MessagesOf, Of
<1>11. ASSUME NEW d \in Clients \ {c} PROVE PerClient(d)'
  <2>1. Same(d)
    BY <1>1, <1>6, <1>9, <1>10, <1>11, JobsKept DEF Same, slots, registry, frame, Of
  <2> QED
    BY <1>1, <1>11, <2>1, Frame DEF IInv
<1>12. c \in net_players
  <2>1. SUFFICES ASSUME c \notin net_players PROVE FALSE
    OBVIOUS
  <2>2. s = <<Message("data", 0)>>
    BY <1>1, <2>1 DEF IInv, PerClient, Coming
  <2>3. m.type = "data"
    BY <2>2 DEF Message
  <2> QED
    BY <1>1, <2>3
<1>13. Farewell(c)'
  <2>1. Farewell(c) /\ ~Parting(c)
    BY <1>1 DEF IInv, Control, PerClient, Parting, JobsSound, JobSound
  <2> QED
    BY <1>1, <1>12, <2>1, JobsKept DEF Farewell, registry
<1>14. ASSUME NEW b \in 0..5, Batch(c, b), m.type # "remote" PROVE Batch(c, b)'
  <2> DEFINE e == EventsOf(c)
             q == MessagesOf(c)
             t == toClient[c]
             r == JoinsOf(c)
  <2>0. r # <<>> /\ Head(r) = m /\ JoinsOf(c)' = Tail(r) /\ r \in Seq(FromClient)
    <3>1. m \in Joins
      BY <1>3, <1>14 DEF Joins
    <3> HIDE DEF s
    <3>2. /\ Filtered(s, Joins) # <<>> /\ Head(Filtered(s, Joins)) = Head(s)
          /\ Filtered(Tail(s), Joins) = Tail(Filtered(s, Joins)) /\ Filtered(s, Joins) \in Seq(FromClient)
      BY <1>1, <1>2, <3>1, FilteredTail, FilteredPicks
    <3> QED
      BY <1>6, <3>2 DEF JoinsOf, s
  <2>1. /\ EventsOf(c)' = e /\ MessagesOf(c)' = Append(q, x) /\ PacketsOf(c)' = PacketsOf(c)
        /\ JoinsOf(c)' = Tail(r) /\ toClient'[c] = t /\ secret'[c] = secret[c] /\ client' = client
        /\ q \in Seq(Received) /\ e \in Seq(Received)
    BY <1>1, <1>9, <1>10, <1>14, <2>0, Projections DEF registry
  <2>2. PacketsOf(c) = <<>> /\ ~Silent(c) /\ Pipe(e, q, r, t, b)
    BY <1>1, <1>14, <2>0 DEF Batch, Line, Silent
  <2>3. /\ \A types : Some(Append(q, x), types) <=> x.type \in types \/ Some(q, types)
        /\ \A types : Some(r, types) <=> m.type \in types \/ Some(Tail(r), types)
    <3>1. \A types : Some(Append(q, x), types) <=> x.type \in types \/ Some(q, types)
      BY <2>1, Appended
    <3> HIDE DEF r
    <3> QED
      BY <2>0, <3>1, HeadAndTail
  <2>4. Pipe(e, Append(q, x), Tail(r), t, b)
    BY <1>5, <2>0, <2>1, <2>2, PipePoll
  <2> HIDE DEF m, e, q, s, t, r
  <2>5. Line(c, b)'
    BY <1>1, <2>1, <2>2, <2>4 DEF Line
  <2>6. Known(c, b)'
    BY <1>1, <1>14, <2>1 DEF Batch, Known
  <2>7. Keys(c, b)'
    BY <1>5, <1>14, <2>1, <2>2, <2>3 DEF Batch, Keys, e, q, r, t
  <2>8. StateFirst(c, b)'
    BY <1>5, <1>14, <2>1, <2>3 DEF Batch, StateFirst, e, q, r, t
  <2>9. Alive(c, b)'
    <3>1. Closing(c)' <=> Closing(c)
      BY <1>1, JobsKept
    <3>2. m.type \in {"auth", "digest", "map", "request", "ready"} <=> x.type \in {"auth", "digest", "map", "request", "ready"}
      BY <1>5
    <3>3. Alive(c, b)
      BY <1>14 DEF Batch
    <3> QED
      BY <1>1, <2>1, <2>2, <2>3, <3>1, <3>2, <3>3 DEF frame, Alive, e, q, r, t
  <2> QED
    BY <2>5, <2>6, <2>7, <2>8, <2>9 DEF Batch
<1>16. ASSUME NEW b \in 0..5, Batch(c, b), m.type = "remote" PROVE Batch(c, b)'
  <2>1. JoinsOf(c)' = JoinsOf(c)
    <3>1. m \notin Joins
      BY <1>16 DEF Joins
    <3> HIDE DEF s
    <3>2. Filtered(Tail(s), Joins) = Filtered(s, Joins)
      BY <1>1, <1>2, <3>1, FilteredTail
    <3> QED
      BY <1>6, <3>2 DEF JoinsOf, s
  <2>2. /\ EventsOf(c)' = EventsOf(c) /\ MessagesOf(c)' = MessagesOf(c) /\ PacketsOf(c)' = PacketsOf(c)
        /\ toClient' = toClient /\ client' = client /\ secret' = secret /\ link' = link /\ dropped' = dropped
        /\ (Closing(c)' <=> Closing(c))
    BY <1>1, <1>9, <1>10, <1>16, JobsKept DEF registry, frame
  <2> QED
    BY <1>1, <1>16, <2>1, <2>2 DEF Batch, Line, Silent, Known, Keys, StateFirst, Alive
<1>15. PerClient(c)'
  BY <1>1, <1>12, <1>13, <1>14, <1>16 DEF IInv, PerClient, Joining, registry
<1> QED
  BY <1>8, <1>11, <1>15 DEF IInv

(* Clients are registered, one of them the server's own unless he is.      *)
LEMMA Registrations ==
  ASSUME IInv, failed = "no", failed' = "no", NEW c \in Clients, NEW s \in Seq(Clients), Distinct(s), c \in ToSet(s),
         FinishConnection(s), \A d \in ToSet(s) : d \notin net_players /\ d \in Seated,
         \A d \in ToSet(s) : toClient'[d] = <<>> /\ toServer'[d] = <<>>,
         \A d \in Clients \ {c} : toServer'[d] = toServer[d],
         toServer' \in [Clients -> Seq(FromClient)],
         m_pending_clients' \in Seq(Clients), Distinct(m_pending_clients'),
         ToSet(m_pending_clients') = ToSet(m_pending_clients) \ ToSet(s),
         m_bServerClientConnected' \in BOOLEAN, m_bServerClientConnected' = (Host \in net_players'),
         Host \in net_players' => m_pending_clients' = <<>> /\ link[Host] = "open",
         (Host \in ToSet(s) /\ s[1] = Host) \/ Host \in net_players,
         UNCHANGED <<link, toClient, secret, playing, m_max_players, m_players, SV_Client, m_messagesQueue,
                     m_aDelayedPackets, frame, job, farewells, failed>>
  PROVE  IInv'
<1>1. /\ TypeOK /\ ToSet(s) \subseteq Clients /\ net_players' = net_players \cup ToSet(s)
      /\ client' = [d \in Clients |-> IF d \in ToSet(s) THEN NewClient ELSE client[d]]
      /\ events \in Seq(Received)
  BY Elements DEF IInv, Control, FinishConnection, TypeOK
<1>2. /\ events' \in Seq(Received)
      /\ Len(events) \in Nat /\ Len(s) \in Nat /\ Len(events') = Len(events) + Len(s)
      /\ \A k \in 1..Len(events) : events'[k] = events[k]
      /\ \A k \in 1..Len(s) : events'[Len(events) + k] = Creation(s[k])
      /\ \A d \in Clients : EventsOf(d)' = IF d \in ToSet(s) THEN EventsOf(d) \o <<Creation(d)>>
                                           ELSE EventsOf(d)
  BY <1>1, Creations
<1>3. TypeOK'
  <2>1. NewClient \in ClientData
    BY DEF NewClient, ClientData, Seeds
  <2>2. client' \in [Clients -> ClientData] /\ net_players' \subseteq Clients
    BY <1>1, <2>1 DEF TypeOK
  <2> QED
    BY <1>1, <1>2, <2>2 DEF TypeOK, frame
<1>4. Seated' = Seated
  BY DEF Seated
<1>5. Sound'
  <2>1. Found'
    BY DEF IInv, Control, Sound, Found
  <2>2. Handing'
    <3>1. handling # Nobody => handling \in Clients
      BY <1>1 DEF TypeOK, Clients
    <3>2. \A d \in Clients : link[d] = "closed" => d \notin ToSet(s)
      BY DEF Seated
    <3> QED
      BY <1>1, <3>1, <3>2 DEF IInv, Control, Sound, Handing, frame
  <2> QED
    BY <2>1, <2>2 DEF Sound
<1>6. Slots'
  BY <1>1, <1>4 DEF IInv, Control, Slots
<1>7. JobsSound'
  <2>1. \A t \in Threads : job[t].step = "clean" => job[t].of \notin ToSet(s)
    BY DEF IInv, Control, JobsSound, JobSound, Seated
  <2> QED
    <3>1. JobsSound
      BY DEF IInv, Control
    <3>2. \A t \in Threads : job[t].step = "clean" => job[t].of \notin net_players' \ net_players
      BY <1>1, <2>1
    <3> QED
      BY <3>1, <3>2, JobsSoundKept
<1>8. HostFirst'
  <2> DEFINE N == Len(events)
  <2>1. /\ HostFirst /\ \A k \in 1..N : k \in 1..Len(events')
        /\ \A k \in 1..Len(s) : N + k \in 1..Len(events')
        /\ \A k \in 1..Len(events') : k \in 1..N \/ (k - N \in 1..Len(s) /\ k = N + (k - N))
    BY <1>2 DEF IInv, Control
  <2>2. \A k \in 1..Len(s) : events'[N + k].type = "create" /\ events'[N + k].sender = s[k]
    <3>1. \A x : Creation(x).type = "create" /\ Creation(x).sender = x
      BY DEF Creation
    <3>2. \A k \in 1..Len(s) : events'[N + k] = Creation(s[k])
      BY <1>2
    <3> HIDE DEF N
    <3> QED
      BY <3>1, <3>2, SMTT(40)
  <2>3. \A k \in 1..Len(events') : events'[k].type \in {"create", "state", "auth"}
    <3>1. SUFFICES ASSUME NEW k \in 1..Len(events') PROVE events'[k].type \in {"create", "state", "auth"}
      OBVIOUS
    <3>2. CASE k \in 1..N
      <4>1. events'[k] = events[k] /\ events[k].type \in {"create", "state", "auth"}
        BY <1>2, <2>1, <3>2 DEF HostFirst
      <4> QED
        BY <4>1
    <3>3. CASE k - N \in 1..Len(s) /\ k = N + (k - N)
      <4> HIDE DEF N
      <4>1. events'[N + (k - N)].type = "create"
        BY <2>2, <3>3
      <4> QED
        BY <3>3, <4>1
    <3> QED
      BY <2>1, <3>2, <3>3
  <2>4. client'[Host].bConnected => Host \in net_players'
    BY <1>1, JobTypes DEF NewClient, IInv, Control, HostFirst
  <2>5. CASE Host \in ToSet(s) /\ s[1] = Host
    <3>1. 1 \in 1..Len(s)
      <4>1. \E i \in 1..Len(s) : s[i] = c
        BY Elements
      <4> QED
        BY <1>2, <4>1
    <3>2. N + 1 \in 1..Len(events') /\ Creates(events'[N + 1])
      BY <2>1, <2>2, <2>5, <3>1 DEF Creates
    <3>3. ~client[Host].bConnected
      BY <2>1, <2>5 DEF HostFirst
    <3>4. ASSUME NEW k \in 1..Len(events'), events'[k].type = "create"
          PROVE  \/ Creates(events'[k]) \/ client'[Host].bConnected
                 \/ \E j \in 1..Len(events') : j < k /\ Creates(events'[j])
      <4>1. CASE k \in 1..N
        <5>1. Creates(events[k]) \/ \E j \in 1..N : j < k /\ Creates(events[j])
          BY <1>2, <2>1, <3>3, <3>4, <4>1 DEF HostFirst
        <5> QED
          BY <1>2, <2>1, <4>1, <5>1
      <4>2. CASE k - N \in 1..Len(s) /\ k = N + (k - N)
        <5>1. k = N + 1 \/ N + 1 < k
          <6>1. N \in Nat /\ Len(s) \in Nat
            BY <1>2
          <6> HIDE DEF N
          <6> QED
            BY <4>2, <6>1
        <5> QED
          BY <3>2, <5>1
      <4> QED
        BY <2>1, <4>1, <4>2
    <3> QED
      BY <2>3, <2>4, <3>2, <3>4, <2>1, <1>1 DEF HostFirst
  <2>6. CASE Host \in net_players
    <3>1. Host \notin ToSet(s) /\ client'[Host] = client[Host] /\ Host \in net_players'
      BY <1>1, <2>6, JobTypes
    <3>2. client[Host].bConnected \/ \E j \in 1..N : Creates(events'[j])
      BY <1>2, <2>1, <2>6 DEF HostFirst
    <3>3. ASSUME NEW k \in 1..Len(events'), events'[k].type = "create"
          PROVE  \/ Creates(events'[k]) \/ client'[Host].bConnected
                 \/ \E j \in 1..Len(events') : j < k /\ Creates(events'[j])
      <4>1. CASE k \in 1..N
        <5>1. Creates(events[k]) \/ client[Host].bConnected \/ \E j \in 1..N : j < k /\ Creates(events[j])
          BY <1>2, <2>1, <3>3, <4>1 DEF HostFirst
        <5> QED
          BY <1>2, <2>1, <3>1, <4>1, <5>1
      <4>2. CASE k - N \in 1..Len(s) /\ k = N + (k - N)
        <5>1. \A j \in 1..N : j < k
          BY <1>2, <4>2
        <5> QED
          BY <2>1, <3>1, <3>2, <5>1
      <4> QED
        BY <2>1, <4>1, <4>2
    <3>4. client'[Host].bConnected \/ \E j \in 1..Len(events') : Creates(events'[j])
      BY <2>1, <3>1, <3>2
    <3> QED
      BY <2>1, <2>3, <2>4, <3>1, <3>3, <3>4 DEF HostFirst
  <2> QED
    BY <2>5, <2>6
<1>9. ASSUME NEW d \in Clients PROVE PerClient(d)'
  <2>1. CASE d \in ToSet(s)
    <3>1. PerClient(d) /\ JobsSound
      BY DEF IInv, Control
    <3>2. d \in net_players' /\ client'[d] = NewClient
      BY <1>1, <2>1
    <3>3. EventsOf(d)' = EventsOf(d) \o <<Creation(d)>>
      BY <1>2, <2>1
    <3>4. d \notin net_players /\ link[d] # "closed" /\ link'[d] = link[d]
      BY <2>1 DEF Seated
    <3> QED
      BY <1>1, <1>3, <2>1, <3>1, <3>2, <3>3, <3>4, NewBatch
  <2>2. CASE d \notin ToSet(s)
    <3>1. /\ EventsOf(d)' = EventsOf(d) /\ MessagesOf(d)' = MessagesOf(d) /\ PacketsOf(d)' = PacketsOf(d)
          /\ Filtered(m_aDelayedPackets', Of(d)) = Filtered(m_aDelayedPackets, Of(d))
      BY <1>2, <2>2 DEF MessagesOf, PacketsOf, Waiting, FirstHandled, Of, frame
    <3>2. client'[d] = client[d] /\ (d \in net_players' <=> d \in net_players) /\ d # c
      BY <1>1, <2>2
    <3>3. Same(d)
      BY <2>2, <3>1, <3>2, JobsKept DEF Same, JoinsOf, frame
    <3> QED
      BY <3>3, Frame DEF IInv
  <2> QED
    BY <2>1, <2>2
<1> QED
  BY <1>3, <1>5, <1>6, <1>7, <1>8, <1>9 DEF IInv, Control

LEMMA PollDataStep ==
  ASSUME IInv, NEW c \in Clients, PollIncomingMessages(c), Head(toServer[c]).type = "data"
  PROVE  IInv'
<1> DEFINE s == toServer[c]
           m == Head(s)
           w == m_pending_clients
<1>1. /\ failed = "no" /\ failed' = "no" /\ TypeOK /\ link[c] \in {"open", "broken"} /\ s # <<>> /\ m.type = "data"
      /\ OnClientDataReceived(c) /\ m_messagesQueue' = m_messagesQueue
      /\ toServer' = [toServer EXCEPT ![c] = Tail(@)]
      /\ UNCHANGED <<link, toClient, secret, playing, m_max_players, m_players, SV_Client, m_aDelayedPackets, frame,
                     job, farewells, failed>>
  BY DEF IInv, Control, PollIncomingMessages, Network
<1>2. /\ s \in Seq(FromClient) /\ toServer \in [Clients -> Seq(FromClient)] /\ w \in Seq(Clients)
      /\ net_players \subseteq Clients /\ client \in [Clients -> ClientData]
  BY <1>1 DEF TypeOK
<1>3. c \notin net_players
  <2>1. ASSUME NEW b \in 0..5, Batch(c, b) PROVE FALSE
    <3>1. Made(JoinsOf(c), FromPlayer(b), Keyed, b)
      BY <2>1 DEF Batch, Line, Pipe
    <3>2. m.type \in FromPlayer(b)
      <4> HIDE DEF s
      <4>1. Head(s) \in Joins
        <5>1. Head(s) \in FromClient
          BY <1>1, <1>2
        <5> QED
          BY <1>1, <5>1 DEF Joins
      <4>2. PICK r : r = Filtered(s, Joins)
        OBVIOUS
      <4>3. r # <<>> /\ Head(r) = Head(s) /\ r \in Seq(FromClient) /\ r = JoinsOf(c)
        BY <1>1, <1>2, <4>1, <4>2, FilteredHead, FilteredPicks DEF JoinsOf, s
      <4>4. \A types, keyed, n : Made(r, types, keyed, n) => Head(r).type \in types
        BY <4>3, HeadAndTail
      <4> QED
        BY <3>1, <4>3, <4>4
    <3> QED
      BY <1>1, <3>2 DEF FromPlayer
  <2> QED
    BY <2>1 DEF IInv, PerClient, Joining
<1>4. /\ Coming(c) /\ s = <<Message("data", 0)>> /\ toClient[c] = <<>> /\ c \notin ToSet(w) /\ c \in Seated
  <2>1. Coming(c) /\ c \in Seated
    BY <1>1, <1>3 DEF IInv, PerClient, Seated
  <2> QED
    BY <1>1, <2>1 DEF Coming
<1>5. /\ toServer'[c] = <<>> /\ toServer' \in [Clients -> Seq(FromClient)]
      /\ \A d \in Clients \ {c} : toServer'[d] = toServer[d]
  <2>1. Tail(s) = <<>> /\ <<>> \in Seq(FromClient)
    BY <1>4, EmptySeq
  <2> QED
    BY <1>1, <1>2, <2>1
<1>6. \A d \in ToSet(w) : /\ d \in Clients /\ d \notin net_players /\ d # Host /\ d \in Seated
                          /\ toClient[d] = <<>> /\ toServer[d] = <<>>
  <2>1. SUFFICES ASSUME NEW d \in ToSet(w)
                 PROVE /\ d \in Clients /\ d \notin net_players /\ d # Host /\ d \in Seated
                       /\ toClient[d] = <<>> /\ toServer[d] = <<>>
    OBVIOUS
  <2>2. d \in Clients /\ d \in Seated /\ d \notin net_players /\ d # Host
    BY DEF IInv, Control, Slots, Seated
  <2>3. Coming(d)
    BY <2>2 DEF IInv, PerClient, Seated
  <2> QED
    BY <2>2, <2>3 DEF Coming
<1>7. Distinct(w) /\ Distinct(<<>>) /\ ToSet(<<>>) = {} /\ Distinct(<<c>>) /\ ToSet(<<c>>) = {c} /\ <<c>> \in Seq(Clients)
  <2>1. Distinct(<<>>) /\ Distinct(<<c>>) /\ <<c>> \in Seq(Clients)
    BY DEF Distinct
  <2>2. \A x : (x \in ToSet(<<c>>) <=> \E i \in 1..Len(<<c>>) : <<c>>[i] = x)
               /\ (x \in ToSet(<<>>) <=> \E i \in 1..0 : <<>>[i] = x)
    BY DEF ToSet
  <2> QED
    BY <2>1, <2>2 DEF IInv, Control, Slots
<1>8. HostFirst
  BY DEF IInv, Control
<1>9. CASE c = Host
  <2> DEFINE r == <<c>> \o w
  <2>1. /\ r \in Seq(Clients) /\ Len(r) = Len(w) + 1 /\ r[1] = c /\ \A i \in 1..Len(w) : r[i + 1] = w[i]
        /\ \A i \in 1..Len(r) : i = 1 \/ (i - 1 \in 1..Len(w) /\ r[i] = w[i - 1])
        /\ \A i \in 1..Len(w) : i + 1 \in 1..Len(r)
        /\ Len(w) \in Nat
    BY <1>2
  <2>2. /\ FinishConnection(r) /\ m_bServerClientConnected' = TRUE /\ m_pending_clients' = <<>>
    BY <1>1, <1>9 DEF OnClientDataReceived
  <2> HIDE DEF r
  <2>3. 1 \in 1..Len(r)
    BY <2>1
  <2>4. ToSet(r) = {c} \cup ToSet(w)
    <3>1. /\ \A x : x \in ToSet(r) <=> \E i \in 1..Len(r) : r[i] = x
          /\ \A x : x \in ToSet(w) <=> \E i \in 1..Len(w) : w[i] = x
      BY <1>2, <2>1, Elements
    <3> HIDE DEF w
    <3>2. ASSUME NEW x \in ToSet(r) PROVE x = c \/ x \in ToSet(w)
      BY <2>1, <3>1, <3>2
    <3>3. ASSUME NEW x \in ToSet(w) PROVE x \in ToSet(r)
      BY <2>1, <3>1, <3>3
    <3> QED
      BY <2>1, <2>3, <3>1, <3>2, <3>3
  <2>5. Distinct(r)
    <3>1. SUFFICES ASSUME NEW i \in 1..Len(r), NEW j \in 1..Len(r), r[i] = r[j] PROVE i = j
      BY DEF Distinct
    <3>2. \A n \in 1..Len(w) : w[n] # c
      BY <1>2, <1>4, Elements
    <3>3. CASE i = 1 \/ j = 1
      BY <2>1, <3>1, <3>2, <3>3, SMTT(40)
    <3>4. CASE i # 1 /\ j # 1
      <4>1. i - 1 = j - 1
        BY <1>7, <2>1, <3>1, <3>4, SMTT(40) DEF Distinct
      <4> QED
        BY <2>1, <4>1
    <3> QED
      BY <3>3, <3>4
  <2>6. link[Host] = "open"
    BY <1>1, <1>8, <1>9 DEF HostFirst
  <2>7. \A d \in ToSet(r) : /\ d \notin net_players /\ d \in Seated
                            /\ toClient'[d] = <<>> /\ toServer'[d] = <<>>
    BY <1>1, <1>3, <1>4, <1>5, <1>6, <2>4
  <2>8. /\ m_pending_clients' \in Seq(Clients) /\ Distinct(m_pending_clients')
        /\ ToSet(m_pending_clients') = ToSet(m_pending_clients) \ ToSet(r)
    BY <1>7, <2>2, <2>4, EmptySeq
  <2>9. Host \in net_players' /\ m_bServerClientConnected' \in BOOLEAN /\ m_bServerClientConnected' = (Host \in net_players')
    BY <1>9, <2>2, <2>4 DEF FinishConnection
  <2>10. c \in ToSet(r) /\ (Host \in ToSet(r) /\ r[1] = Host)
    BY <1>9, <2>1, <2>4
  <2> QED
    BY <1>1, <1>5, <2>1, <2>2, <2>5, <2>6, <2>7, <2>8, <2>9, <2>10, Registrations
<1>10. CASE c # Host /\ m_bServerClientConnected
  <2>1. FinishConnection(<<c>>) /\ UNCHANGED <<m_bServerClientConnected, m_pending_clients>>
    BY <1>1, <1>10 DEF OnClientDataReceived
  <2>2. Host \in net_players /\ Host \in net_players' /\ w = <<>> /\ link[Host] = "open"
    BY <1>8, <1>10, <2>1 DEF HostFirst, FinishConnection
  <2> DEFINE r == <<c>>
  <2>3. /\ r \in Seq(Clients) /\ Distinct(r) /\ c \in ToSet(r) /\ ToSet(r) = {c} /\ FinishConnection(r)
    BY <1>7, <2>1
  <2> HIDE DEF r
  <2>4. \A d \in ToSet(r) : /\ d \notin net_players /\ d \in Seated
                            /\ toClient'[d] = <<>> /\ toServer'[d] = <<>>
    BY <1>1, <1>3, <1>4, <1>5, <2>3
  <2>5. /\ m_pending_clients' \in Seq(Clients) /\ Distinct(m_pending_clients')
        /\ ToSet(m_pending_clients') = ToSet(m_pending_clients) \ ToSet(r)
        /\ m_pending_clients' = <<>>
    BY <1>7, <2>1, <2>2, EmptySeq
  <2>6. m_bServerClientConnected' \in BOOLEAN /\ m_bServerClientConnected' = (Host \in net_players')
    BY <1>10, <2>1, <2>2
  <2> QED
    BY <1>1, <1>5, <2>2, <2>3, <2>4, <2>5, <2>6, Registrations
<1>11. CASE c # Host /\ ~m_bServerClientConnected
  <2>1. m_pending_clients' = Append(w, c) /\ UNCHANGED <<m_bServerClientConnected, net_players, client, events>>
    BY <1>1, <1>4, <1>11 DEF OnClientDataReceived
  <2>2. /\ m_pending_clients' \in Seq(Clients) /\ Distinct(m_pending_clients')
        /\ ToSet(m_pending_clients') = ToSet(w) \cup {c}
    BY <1>2, <1>4, <1>7, <2>1, AppendedElements
  <2>3. TypeOK'
    BY <1>1, <1>5, <2>1, <2>2 DEF TypeOK, frame
  <2>4. Seated' = Seated
    BY <1>1 DEF Seated
  <2>5. Sound'
    BY <1>1, <2>1, HandingKept DEF IInv, Control, Sound, Found, frame
  <2>6. Slots'
    BY <1>1, <1>3, <1>4, <1>11, <2>1, <2>2, <2>4 DEF IInv, Control, Slots
  <2>7. JobsSound'
    BY <1>1, <2>1, JobsSoundKept DEF IInv, Control
  <2>8. HostFirst'
    <3>1. Host \notin net_players
      BY <1>8, <1>11 DEF HostFirst
    <3> QED
      BY <1>1, <1>8, <2>1, <3>1 DEF HostFirst, Creates
  <2>9. \A d \in Clients :
          /\ EventsOf(d)' = EventsOf(d) /\ MessagesOf(d)' = MessagesOf(d) /\ PacketsOf(d)' = PacketsOf(d)
          /\ Filtered(m_aDelayedPackets', Of(d)) = Filtered(m_aDelayedPackets, Of(d))
    BY <1>1, <2>1 DEF EventsOf, MessagesOf, PacketsOf, Waiting, FirstHandled, Of, frame
  <2>10. ASSUME NEW d \in Clients \ {c} PROVE PerClient(d)'
    <3>1. Same(d)
      BY <1>1, <1>5, <2>1, <2>2, <2>9, <2>10, JobsKept DEF Same, JoinsOf, frame
    <3> QED
      BY <1>1, <2>10, <3>1, Frame DEF IInv
  <2>11. PerClient(c)'
    <3>1. Coming(c)'
      BY <1>1, <1>4, <1>5, <2>1, <2>2, <2>4, <2>9 DEF Coming, frame
    <3>2. Farewell(c)'
      BY <1>1, <1>3, <2>1 DEF IInv, PerClient, Farewell
    <3> QED
      BY <1>1, <1>3, <2>1, <3>1, <3>2 DEF PerClient
  <2> QED
    BY <2>3, <2>5, <2>6, <2>7, <2>8, <2>10, <2>11 DEF IInv, Control
<1> QED
  BY <1>9, <1>10, <1>11

LEMMA PollStep ==
  ASSUME IInv, NEW c \in Clients, PollIncomingMessages(c)
  PROVE  IInv'
BY PollDataStep, PollMessageStep
-----------------------------------------------------------------------------
(* The main thread.                                                        *)

(* It may begin to disconnect a client, and changes nothing else that the  *)
(* slots and the jobs depend on.                                           *)
LEMMA MainControl ==
  ASSUME Control, failed = "no", UNCHANGED <<link, slots, net_players>>, job["main"] = Idle,
         job' = job \/ \E c \in Remote \cap net_players : Disconnect("main", c)
  PROVE  Slots' /\ JobsSound' /\ Found' /\ job' \in [Threads -> Jobs]
<1>1. TypeOK /\ Found /\ Slots /\ JobsSound /\ Seated' = Seated
  BY DEF Control, Sound, Seated
<1>2. CASE job' = job
  BY <1>1, <1>2 DEF Slots, JobsSound, JobSound, Found, slots, TypeOK
<1>3. ASSUME NEW c \in Remote \cap net_players, Disconnect("main", c)
      PROVE  Slots' /\ JobsSound' /\ Found' /\ job' \in [Threads -> Jobs]
  <2>1. "main" \in Threads /\ c \in Remote /\ c \in Clients
    BY JobTypes DEF Threads
  <2>2. /\ job' \in [Threads -> Jobs] /\ job'["main"].of = c
        /\ \A u \in Threads : u # "main" => job'[u] = job[u]
    BY <1>1, <1>3, <2>1, Handed
  <2>3. Slots'
    <3>1. \A d \in net_players : d \notin Seated =>
            \E u \in Threads : job'[u].of = d /\ job'[u].step \in {"farewell", "destroy"}
      <4>1. SUFFICES ASSUME NEW d \in net_players, d \notin Seated
                     PROVE \E u \in Threads : job'[u].of = d /\ job'[u].step \in {"farewell", "destroy"}
        OBVIOUS
      <4>2. PICK u \in Threads : job[u].of = d /\ job[u].step \in {"farewell", "destroy"}
        BY <1>1, <4>1 DEF Slots
      <4>3. u # "main"
        BY <4>2, JobTypes
      <4> QED
        BY <2>2, <4>2, <4>3
    <3> QED
      BY <1>1, <3>1 DEF Slots, slots
  <2>4. c \in Seated' \/ link'[c] = "closed"
    <3>1. c \in Seated \/ \E u \in Threads : job[u].of = c /\ job[u].step \in {"farewell", "destroy"}
      BY <1>1, <1>3 DEF Slots
    <3> QED
      BY <1>1, <3>1 DEF JobsSound, JobSound
  <2>5. m_players' = m_players
    BY DEF slots
  <2> QED
    BY <1>1, <1>3, <2>1, <2>2, <2>3, <2>4, <2>5, HandedControl
<1> QED
  BY <1>2, <1>3

(* The events of joining that come later do not concern the registrations. *)
LEMMA HostStays ==
  ASSUME HostFirst, events \in Seq(Received), UNCHANGED <<link, slots, net_players>>,
         client'[Host].bConnected = client[Host].bConnected,
         \/ events' = events
         \/ \E e \in Received : e.type \in {"state", "auth"} /\ events' = Append(events, e)
  PROVE  HostFirst'
<1>1. CASE events' = events
  BY <1>1 DEF HostFirst, slots, Creates
<1>2. ASSUME NEW e \in Received, e.type \in {"state", "auth"}, events' = Append(events, e)
      PROVE  HostFirst'
  <2> DEFINE N == Len(events)
  <2>1. /\ N \in Nat /\ Len(events') = N + 1 /\ events'[N + 1] = e
        /\ \A k \in 1..N : events'[k] = events[k] /\ k \in 1..Len(events')
        /\ \A k \in 1..Len(events') : k \in 1..N \/ k = N + 1
    BY <1>2
  <2>2. \A k \in 1..Len(events') : events'[k].type \in {"create", "state", "auth"}
    BY <1>2, <2>1 DEF HostFirst
  <2>3. Host \in net_players => client[Host].bConnected \/ \E j \in 1..Len(events') : Creates(events'[j])
    BY <2>1 DEF HostFirst
  <2>4. ASSUME NEW k \in 1..Len(events'), events'[k].type = "create"
        PROVE  \/ Creates(events'[k]) \/ client[Host].bConnected
               \/ \E j \in 1..Len(events') : j < k /\ Creates(events'[j])
    <3>1. k \in 1..N
      BY <1>2, <2>1, <2>4
    <3>2. Creates(events[k]) \/ client[Host].bConnected \/ \E j \in 1..N : j < k /\ Creates(events[j])
      BY <2>1, <2>4, <3>1 DEF HostFirst
    <3> QED
      BY <2>1, <3>1, <3>2
  <2> QED
    BY <2>2, <2>3, <2>4, SMTT(40) DEF HostFirst, slots
<1> QED
  BY <1>1, <1>2

(* The first message is taken: it is the first of its sender's.            *)
LEMMA Taken ==
  ASSUME TypeOK, m_messagesQueue # <<>>, m_messagesQueue' = Tail(m_messagesQueue),
         NEW e, e = Head(m_messagesQueue)
  PROVE  /\ e \in Received /\ e.sender \in Clients /\ m_messagesQueue' \in Seq(Received)
         /\ e.type # "remote" => MessagesOf(e.sender) # <<>> /\ Head(MessagesOf(e.sender)) = e
         /\ \A c \in Clients : MessagesOf(c)' = IF c = e.sender /\ e.type # "remote"
                                                  THEN Tail(MessagesOf(c)) ELSE MessagesOf(c)
<1>1. m_messagesQueue \in Seq(Received) /\ e \in Received /\ m_messagesQueue' \in Seq(Received)
  BY DEF TypeOK
<1>2. e.sender \in Clients /\ \A c \in Clients : e \in Of(c) <=> c = e.sender /\ e.type # "remote"
  BY <1>1 DEF Received, Of
<1>3. \A c \in Clients :
        /\ e \in Of(c) => /\ Filtered(m_messagesQueue, Of(c)) # <<>> /\ Head(Filtered(m_messagesQueue, Of(c))) = e
                          /\ Filtered(m_messagesQueue', Of(c)) = Tail(Filtered(m_messagesQueue, Of(c)))
        /\ e \notin Of(c) => Filtered(m_messagesQueue', Of(c)) = Filtered(m_messagesQueue, Of(c))
  BY <1>1, FilteredTail
<1> QED
  BY <1>1, <1>2, <1>3 DEF MessagesOf, Of

(* What is sent reaches nobody else.                                       *)
LEMMA Sent ==
  ASSUME TypeOK, NEW c \in Clients, NEW s \in Seq(FromServer), SendTo(c, s)
  PROVE  /\ toClient' \in [Clients -> Seq(FromServer)]
         /\ toClient'[c] = IF link[c] = "open" THEN toClient[c] \o s ELSE toClient[c]
         /\ \A d \in Clients : d # c => toClient'[d] = toClient[d]
<1>1. toClient \in [Clients -> Seq(FromServer)] /\ toClient[c] \o s \in Seq(FromServer)
  BY DEF TypeOK
<1> QED
  BY <1>1 DEF SendTo

(* A message that is about to be handled was made with the key of the      *)
(* batch, which is the one the server has.                                 *)
LEMMA KeyKnown ==
  ASSUME TypeOK, NEW c \in Clients, NEW b \in 0..5, Batch(c, b), MessagesOf(c) # <<>>,
         Head(MessagesOf(c)).type \in {"state", "auth", "digest"}
  PROVE  /\ client[c].m_secret_key = b /\ Head(MessagesOf(c)).n = b
         /\ Head(MessagesOf(c)).type \in {"state", "auth"} => b = 1
         /\ Head(MessagesOf(c)).type = "digest" => b = 2
<1> DEFINE q == MessagesOf(c)
           s == JoinsOf(c)
           t == toClient[c]
           x == Head(q)
<1>1. q \in Seq(Received) /\ s \in Seq(FromClient) /\ t \in Seq(FromServer) /\ Pipe(EventsOf(c), q, s, t, b)
  BY Projections DEF Batch, Line
<1>2. ~Silent(c)
  BY DEF Silent
<1>3. Keys(c, b)
  BY DEF Batch
<1> HIDE DEF q
<1>4. /\ Ahead(<<x>>, Tail(q)) /\ Tail(q) \in Seq(Received)
      /\ Ahead(q, s) => Ahead(<<x>>, s)
      /\ Ahead(q, t) => Ahead(<<x>>, t)
      /\ Made(q, FromPlayer(b), Keyed, b) => x.type \in FromPlayer(b) /\ (x.type \in Keyed => x.n = b)
      /\ Some(q, {"ack"}) => x.type = "ack" \/ Some(Tail(q), {"ack"})
      /\ Ascending(q) => Ahead(<<x>>, Tail(q))
  BY <1>1, HeadAndTail DEF q, Pipe
<1>5. x.type \in FromPlayer(b) /\ (x.type \in Keyed => x.n = b) /\ Ahead(<<x>>, s) /\ Ahead(<<x>>, t)
  BY <1>1, <1>4 DEF Pipe
<1>6. x.type \in {"state", "auth", "digest"}
  BY DEF q
<1> HIDE DEF x, s, t
<1>7. /\ Place([type |-> "ack", n |-> 0]) <= Place(x) /\ Place([type |-> "key", n |-> 0]) <= Place(x)
  <2>1. Place([type |-> "ack", n |-> 0]) = 1 /\ Place([type |-> "key", n |-> 0]) = 1 /\ Place(x) \in 1..3
    BY Places DEF Place
  <2> QED
    BY <2>1
<1>8. ~Some(Tail(q), {"ack"}) /\ ~Some(s, {"ack"}) /\ ~Some(t, {"key"})
  BY <1>1, <1>4, <1>5, <1>7, NoneBehind
<1>9. (x.type \in {"state", "auth"} => b = 1) /\ (x.type = "digest" => b = 2)
  BY <1>5 DEF FromPlayer
<1>10. b \in 1..3 /\ x.type \in Keyed
  BY <1>6, <1>9 DEF Keyed
<1>11. client[c].m_secret_key = b
  BY <1>2, <1>3, <1>4, <1>6, <1>8, <1>10 DEF Keys, q, s, t
<1> QED
  BY <1>5, <1>9, <1>10, <1>11 DEF x, q

(* The last message of a batch is all there is of it.                      *)
LEMMA EndOfBatch ==
  ASSUME TypeOK, failed = "no", NEW c \in Clients, NEW b \in 0..5, Batch(c, b), MessagesOf(c) # <<>>,
         Head(MessagesOf(c)).type \in {"digest", "map", "request", "ready"}
  PROVE  /\ EventsOf(c) = <<>> /\ Tail(MessagesOf(c)) = <<>> /\ JoinsOf(c) = <<>> /\ toClient[c] = <<>>
         /\ PacketsOf(c) = <<>>
         /\ Head(MessagesOf(c)).type = "digest" => b = 2
         /\ Head(MessagesOf(c)).type = "map" => b = 3
         /\ Head(MessagesOf(c)).type = "request" => b = 4
         /\ Head(MessagesOf(c)).type = "ready" => b = 5
<1> DEFINE e == EventsOf(c)
           q == MessagesOf(c)
           s == JoinsOf(c)
           t == toClient[c]
           x == Head(q)
<1>1. /\ e \in Seq(Received) /\ q \in Seq(Received) /\ s \in Seq(FromClient) /\ t \in Seq(FromServer)
      /\ Pipe(e, q, s, t, b) /\ q # <<>>
  BY Projections DEF Batch, Line
<1>2. PacketsOf(c) = <<>>
  BY DEF Batch, Line, Silent
<1>3. x.type \in {"digest", "map", "request", "ready"}
  OBVIOUS
<1> HIDE DEF e, q, s, t
<1>4. Made(q, FromPlayer(b), Keyed, b) => x.type \in FromPlayer(b)
  BY <1>1, HeadAndTail
<1>5. x.type \in FromPlayer(b)
  BY <1>1, <1>4 DEF Pipe
<1>6. /\ x.type = "digest" => b = 2
      /\ x.type = "map" => b = 3
      /\ x.type = "request" => b = 4
      /\ x.type = "ready" => b = 5
  BY <1>5 DEF FromPlayer
<1>7. Tail(q) = <<>> /\ s = <<>> /\ t = <<>>
  <2>1. Place(x) = 3
    BY <1>3 DEF Place
  <2> QED
    BY <1>1, <2>1, LastMessage
<1>8. e = <<>>
  <2>1. Made(e, {}, {}, b)
    BY <1>1, <1>3, <1>6 DEF Pipe, Events
  <2>2. e # <<>> => \A types, keyed, n : Made(e, types, keyed, n) => Head(e).type \in types
    BY <1>1, HeadAndTail
  <2> QED
    BY <2>1, <2>2
<1> QED
  BY <1>2, <1>6, <1>7, <1>8 DEF e, q, s, t, x

(* The next batch is sent to a player, unless his connection is gone.      *)
LEMMA NextBatch ==
  ASSUME NEW c \in Clients, NEW b \in 1..5, EventsOf(c)' = <<>>, MessagesOf(c)' = <<>>, PacketsOf(c)' = <<>>,
         JoinsOf(c)' = <<>>, link'[c] = link[c],
         NEW s, toClient'[c] = IF link[c] = "open" THEN s ELSE <<>>,
         NEW w, NEW n,
         \/ b \in 1..3 /\ s = <<Message("key", b), Message(w, n)>>
         \/ b \in 4..5 /\ s = <<Message(w, n)>>,
         w = IF b = 1 THEN "challenge" ELSE IF b = 2 THEN "digest" ELSE IF b = 3 THEN "result"
             ELSE IF b = 4 THEN "map" ELSE "configured",
         Known(c, b)'
  PROVE  Batch(c, b)'
<1>1. /\ Message("key", b).type = "key" /\ Message("key", b).n = b /\ Message(w, n).type = w
  BY DEF Message
<1>2. /\ w \in ToPlayer(b) /\ w # "key" /\ w \in {"challenge", "digest", "result", "map", "configured"}
      /\ b \in 1..3 => "key" \in ToPlayer(b)
  BY DEF ToPlayer
<1>3. Pipe(<<>>, <<>>, <<>>, s, b)
  BY <1>1, <1>2, PipeStart
<1>4. Some(s, {"challenge", "digest", "result", "map", "configured"}) /\ (b = 1 => Some(s, {"challenge"}))
      /\ (b \in 1..3 => Some(s, {"key"}))
  <2>1. CASE b \in 1..3 /\ s = <<Message("key", b), Message(w, n)>>
    <3>1. Len(s) = 2 /\ s[1].type = "key" /\ s[2].type = w
      BY <1>1, <2>1
    <3>2. 1 \in 1..Len(s) /\ 2 \in 1..Len(s)
      BY <3>1
    <3> QED
      BY <1>2, <3>1, <3>2 DEF Some
  <2>2. CASE b \in 4..5 /\ s = <<Message(w, n)>>
    <3>1. Len(s) = 1 /\ s[1].type = w /\ 1 \in 1..Len(s)
      BY <1>1, <2>2
    <3> QED
      BY <1>2, <2>2, <3>1 DEF Some
  <2> QED
    BY <2>1, <2>2
<1>5. ~Some(<<>>, {"auth"}) /\ Pipe(<<>>, <<>>, <<>>, <<>>, b)
  BY Empty, PipeStart
<1>6. Line(c, b)'
  BY <1>3, <1>5 DEF Line
<1>7. Keys(c, b)'
  BY <1>4 DEF Keys, Silent
<1>8. StateFirst(c, b)'
  BY <1>4, <1>5 DEF StateFirst
<1>9. Alive(c, b)'
  BY <1>4 DEF Alive
<1> QED
  BY <1>6, <1>7, <1>8, <1>9 DEF Batch

(* A new key is asked for.                                                 *)
LEMMA Synced ==
  ASSUME TypeOK, NEW c \in Clients, client[c].m_last_key_sync_request_seed \in 0..2,
         NEW r, r = PerformSecretKeysSync(c)
  PROVE  /\ r \in [Clients -> ClientData] /\ \A d \in Clients : d # c => r[d] = client[d]
         /\ r[c].m_last_key_sync_request_seed = client[c].m_last_key_sync_request_seed + 1
         /\ r[c].bConnected = client[c].bConnected /\ r[c].ps = client[c].ps
         /\ r[c].net_Accepted = client[c].net_Accepted /\ r[c].owner = client[c].owner
         /\ r[c].m_secret_key = client[c].m_secret_key
         /\ Seed(c) = Message("key", client[c].m_last_key_sync_request_seed + 1) /\ Seed(c) \in FromServer
<1>1. client \in [Clients -> ClientData] /\ client[c] \in ClientData
  BY DEF TypeOK
<1>2. client[c].m_last_key_sync_request_seed + 1 \in Seeds
  BY DEF Seeds
<1>3. Seed(c) = Message("key", client[c].m_last_key_sync_request_seed + 1) /\ Seed(c) \in FromServer
  BY <1>2 DEF Seed, Message, FromServer
<1> QED
  BY <1>1, <1>2, <1>3 DEF PerformSecretKeysSync, ClientData

(* The client passes the last check.                                       *)
LEMMA Checked ==
  ASSUME TypeOK, NEW c \in Clients, client[c].m_last_key_sync_request_seed \in 0..2, NEW v, v = Verified(c)
  PROVE  /\ v \in [Clients -> ClientData] /\ \A d \in Clients : d # c => v[d] = client[d]
         /\ v[c].m_last_key_sync_request_seed = client[c].m_last_key_sync_request_seed + 1
         /\ v[c].bConnected = client[c].bConnected /\ v[c].ps = client[c].ps
         /\ v[c].net_Accepted = client[c].net_Accepted /\ v[c].owner = client[c].owner
         /\ v[c].m_secret_key = client[c].m_secret_key
<1>1. PICK r : r = PerformSecretKeysSync(c)
  OBVIOUS
<1>2. /\ r \in [Clients -> ClientData] /\ \A d \in Clients : d # c => r[d] = client[d]
      /\ r[c].m_last_key_sync_request_seed = client[c].m_last_key_sync_request_seed + 1
      /\ r[c].bConnected = client[c].bConnected /\ r[c].ps = client[c].ps
      /\ r[c].net_Accepted = client[c].net_Accepted /\ r[c].owner = client[c].owner
      /\ r[c].m_secret_key = client[c].m_secret_key
  BY <1>1, Synced
<1>3. v = [r EXCEPT ![c].bVerified = TRUE]
  BY <1>1 DEF Verified
<1>4. /\ r[c] \in ClientData /\ v[c] = [r[c] EXCEPT !.bVerified = TRUE]
      /\ \A d \in Clients : d # c => v[d] = r[d]
  BY <1>2, <1>3
<1>5. /\ v[c] \in ClientData /\ v[c].bConnected = r[c].bConnected /\ v[c].ps = r[c].ps
      /\ v[c].net_Accepted = r[c].net_Accepted /\ v[c].owner = r[c].owner
      /\ v[c].m_secret_key = r[c].m_secret_key
      /\ v[c].m_last_key_sync_request_seed = r[c].m_last_key_sync_request_seed
  BY <1>4 DEF ClientData
<1>6. v \in [Clients -> ClientData]
  BY <1>2, <1>3, <1>5
<1> QED
  BY <1>2, <1>4, <1>5, <1>6

(* What handling a message e of c, or an event of c, may change of the rest. *)
Handles(c, e) ==
  /\ toClient' \in [Clients -> Seq(FromServer)] /\ client' \in [Clients -> ClientData]
  /\ \A d \in Clients : d # c => toClient'[d] = toClient[d] /\ client'[d] = client[d]
  /\ m_aDelayedPackets' = m_aDelayedPackets \/ m_aDelayedPackets' = Append(m_aDelayedPackets, e)
  /\ job' = job \/ (c \in Remote \cap net_players /\ Disconnect("main", c))
  /\ SV_Client' \in {Host, Nobody} /\ failed' \in {"no", "null", "assert"}

(* What a message may change, and whose.                                   *)
LEMMA MessageEffects ==
  ASSUME IInv, failed = "no", job["main"] = Idle, m_messagesQueue # <<>>, m_messagesQueue' = Tail(m_messagesQueue),
         NEW e, e = Head(m_messagesQueue), NEW c \in Clients, c = e.sender, OnMessage(e)
  PROVE  /\ Handles(c, e) /\ client'[c].bConnected = client[c].bConnected
         /\ events' = events \/ (e.type \in {"state", "auth"} /\ events' = Append(events, e))
<1>1. /\ TypeOK /\ client \in [Clients -> ClientData] /\ toClient \in [Clients -> Seq(FromServer)]
      /\ client[c] \in ClientData /\ SV_Client \in {Host, Nobody} /\ events \in Seq(Received) /\ events \o <<>> = events
      /\ \A x \in Received : events \o <<x>> = Append(events, x)
  <2>1. /\ TypeOK /\ client \in [Clients -> ClientData] /\ toClient \in [Clients -> Seq(FromServer)]
        /\ client[c] \in ClientData /\ SV_Client \in {Host, Nobody} /\ events \in Seq(Received)
    BY DEF IInv, Control, TypeOK
  <2> QED
    BY <2>1, ConcatAppend
<1>2. /\ e \in Received /\ (e.type # "remote" => MessagesOf(c) # <<>> /\ Head(MessagesOf(c)) = e)
      /\ e.type \in {"ack", "state", "auth", "digest", "map", "request", "ready", "remote", "create"}
  BY <1>1, Taken DEF Received
<1>3. events' = events \/ (e.type \in {"state", "auth"} /\ events' = Append(events, e))
  BY <1>1, <1>2 DEF OnMessage, Added
<1> SUFFICES Handles(c, e) /\ client'[c].bConnected = client[c].bConnected
  BY <1>3
<1>4. ASSUME toClient' = toClient, client' = client, SV_Client' = SV_Client, job' = job, failed' \in {"no", "null"},
             m_aDelayedPackets' = m_aDelayedPackets \/ m_aDelayedPackets' = Append(m_aDelayedPackets, e)
      PROVE  Handles(c, e) /\ client'[c].bConnected = client[c].bConnected
  BY <1>1, <1>4 DEF Handles
<1>5. CASE e.type \in {"request", "remote"}
  <2>1. /\ m_aDelayedPackets' = Append(m_aDelayedPackets, e)
        /\ toClient' = toClient /\ client' = client /\ SV_Client' = SV_Client /\ job' = job /\ failed' = failed
    BY <1>5 DEF OnMessage
  <2> QED
    BY <1>4, <2>1
<1>6. CASE e.type \notin {"request", "remote"} /\ c \notin net_players
  <2>1. Fails("null")
    BY <1>2, <1>6 DEF OnMessage
  <2>2. /\ m_aDelayedPackets' = m_aDelayedPackets /\ failed' = "null"
        /\ toClient' = toClient /\ client' = client /\ SV_Client' = SV_Client /\ job' = job
    BY <2>1 DEF Fails
  <2> QED
    BY <1>4, <2>2
<1>7. CASE e.type \in {"state", "auth", "digest"} /\ c \in net_players
  <2>1. OnSecureMessage(e)
    BY <1>7 DEF OnMessage
  <2>2. CASE e.n # client[e.sender].m_secret_key \/ e.type # "digest"
    <3>1. /\ m_aDelayedPackets' = m_aDelayedPackets /\ failed' = failed
          /\ toClient' = toClient /\ client' = client /\ SV_Client' = SV_Client /\ job' = job
      BY <2>1, <2>2 DEF OnSecureMessage
    <3> QED
      BY <1>4, <3>1
  <2>3. CASE e.type = "digest" /\ ProcessClientDigest(c)
    <3>1. PICK b \in 0..5 : Batch(c, b)
      BY <1>7 DEF IInv, PerClient, Joining
    <3>2. b = 2
      BY <1>1, <1>2, <2>3, <3>1, KeyKnown
    <3>3. client[c].m_last_key_sync_request_seed = 2
      BY <3>1, <3>2 DEF Batch, Known
    <3>4. CASE c \in Banned /\ Turned(c)
      <4>1. c \in Remote /\ Disconnect("main", c) /\ "main" \in Threads
        BY <3>4, ClientsAssumption DEF Turned, Threads
      <4> QED
        BY <1>1, <1>7, <3>4, <4>1 DEF Turned, Handles
    <3>5. CASE /\ SendTo(c, <<Seed(c), Message("result", 1)>>)
               /\ client' = Verified(c)
               /\ UNCHANGED <<SV_Client, m_aDelayedPackets, job, failed>>
      <4> DEFINE r == PerformSecretKeysSync(c)
      <4>1. /\ r \in [Clients -> ClientData] /\ \A d \in Clients : d # c => r[d] = client[d]
            /\ r[c].bConnected = client[c].bConnected /\ Seed(c) \in FromServer
        BY <1>1, <3>3, Synced
      <4>2. <<Seed(c), Message("result", 1)>> \in Seq(FromServer)
        <5>1. Message("result", 1) \in FromServer
          BY DEF Message, FromServer, Seeds
        <5> QED
          BY <4>1, <5>1
      <4>3. /\ toClient' \in [Clients -> Seq(FromServer)] /\ \A d \in Clients : d # c => toClient'[d] = toClient[d]
        BY <1>1, <3>5, <4>2, Sent
      <4>4. /\ client' \in [Clients -> ClientData] /\ \A d \in Clients : d # c => client'[d] = client[d]
            /\ client'[c].bConnected = client[c].bConnected
        BY <1>1, <3>3, <3>5, Checked
      <4> QED
        BY <1>1, <3>5, <4>3, <4>4 DEF Handles
    <3> QED
      BY <2>3, <3>4, <3>5 DEF ProcessClientDigest
  <2> QED
    BY <2>1, <2>2, <2>3 DEF OnSecureMessage
<1>8. CASE e.type = "ack" /\ c \in net_players
  <2>1. client' = [client EXCEPT ![c].m_secret_key = client[c].m_last_key_sync_request_seed]
        /\ UNCHANGED <<toClient, SV_Client, m_aDelayedPackets, job, failed>>
    BY <1>8 DEF OnMessage, PerformSecretKeysSyncAck
  <2>2. /\ client' \in [Clients -> ClientData] /\ \A d \in Clients : d # c => client'[d] = client[d]
        /\ client'[c].bConnected = client[c].bConnected
    BY <1>1, <2>1 DEF ClientData
  <2> QED
    BY <1>1, <2>1, <2>2 DEF Handles
<1>9. CASE e.type = "map" /\ c \in net_players
  <2>1. SendTo(c, <<Message("map", 0)>>) /\ UNCHANGED <<client, SV_Client, m_aDelayedPackets, job, failed>>
    BY <1>9 DEF OnMessage, OnProcessClientMapData
  <2>2. <<Message("map", 0)>> \in Seq(FromServer)
    BY DEF Message, FromServer, Seeds
  <2>3. /\ toClient' \in [Clients -> Seq(FromServer)] /\ \A d \in Clients : d # c => toClient'[d] = toClient[d]
    BY <1>1, <2>1, <2>2, Sent
  <2> QED
    BY <1>1, <2>1, <2>3 DEF Handles
<1>10. CASE e.type = "ready" /\ c \in net_players
  <2>1. CASE ~client[c].ps
    <3>1. Fails("null")
      BY <1>10, <2>1 DEF OnMessage, OnPlayerConnectFinished
    <3>2. /\ m_aDelayedPackets' = m_aDelayedPackets /\ failed' = "null"
          /\ toClient' = toClient /\ client' = client /\ SV_Client' = SV_Client /\ job' = job
      BY <3>1 DEF Fails
    <3> QED
      BY <1>4, <3>2
  <2>2. CASE client[c].ps
    <3>1. client' = [client EXCEPT ![c].owner = TRUE] /\ UNCHANGED <<toClient, SV_Client, m_aDelayedPackets, job, failed>>
      BY <1>10, <2>2 DEF OnMessage, OnPlayerConnectFinished
    <3>2. /\ client' \in [Clients -> ClientData] /\ \A d \in Clients : d # c => client'[d] = client[d]
          /\ client'[c].bConnected = client[c].bConnected
      BY <1>1, <3>1 DEF ClientData
    <3> QED
      BY <1>1, <3>1, <3>2 DEF Handles
  <2> QED
    BY <2>1, <2>2
<1>11. e.type # "create" \/ c \notin net_players
  <2> SUFFICES ASSUME e.type = "create" PROVE c \notin net_players
    OBVIOUS
  <2>1. ASSUME NEW b \in 0..5, Batch(c, b) PROVE e.type \in FromPlayer(b)
    <3>1. Made(MessagesOf(c), FromPlayer(b), Keyed, b) /\ MessagesOf(c) \in Seq(Received)
      BY <1>1, <2>1, Projections DEF Batch, Line, Pipe
    <3>2. \A types, keyed, n : Made(MessagesOf(c), types, keyed, n) => Head(MessagesOf(c)).type \in types
      BY <1>2, <3>1, HeadAndTail
    <3> QED
      BY <1>2, <3>1, <3>2
  <2> QED
    BY <2>1 DEF IInv, PerClient, Joining, FromPlayer
<1> QED
  BY <1>2, <1>5, <1>6, <1>7, <1>8, <1>9, <1>10, <1>11

(* The server's own client is not concerned by what players send.          *)
LEMMA ControlOnly ==
  ASSUME Control, failed = "no", job["main"] = Idle, UNCHANGED <<link, slots, net_players>>,
         job' = job \/ \E c \in Remote \cap net_players : Disconnect("main", c),
         failed' = "no" => Handing',
         client'[Host].bConnected = client[Host].bConnected, events' = events, TypeOK'
  PROVE  Control'
<1>1. Slots' /\ JobsSound' /\ (failed' = "no" => Sound')
  BY MainControl DEF Sound
<1>2. HostFirst'
  BY HostStays DEF Control, TypeOK
<1> QED
  BY <1>1, <1>2 DEF Control

(* The main thread goes on to the next part of its frame.                  *)
LEMMA PhaseStep ==
  ASSUME IInv, failed = "no", job["main"] = Idle, phase \notin {"command", "pop"},
         phase' \in {"messages", "packets", "events", "rest"},
         UNCHANGED <<link, peers, slots, registry, queues, handling, dropped, job, farewells, failed>>
  PROVE  IInv'
<1>1. /\ Control /\ link' = link /\ toServer' = toServer /\ toClient' = toClient /\ secret' = secret /\ playing' = playing
      /\ net_players' = net_players /\ client' = client /\ SV_Client' = SV_Client /\ job' = job
      /\ m_messagesQueue' = m_messagesQueue /\ m_aDelayedPackets' = m_aDelayedPackets /\ events' = events
      /\ farewells' = farewells /\ failed' = failed /\ UNCHANGED slots /\ dropped' = dropped
      /\ handling' = handling /\ handling = Nobody
  BY DEF IInv, peers, registry, queues, Control, Sound, Handing
<1>2. TypeOK'
  BY <1>1 DEF Control, TypeOK, slots
<1>5. Handing'
  BY <1>1 DEF Handing
<1>3. Control'
  BY <1>1, <1>2, <1>5, ControlOnly
<1>4. ASSUME NEW c \in Clients PROVE PerClient(c)'
  <2>1. /\ EventsOf(c)' = EventsOf(c) /\ MessagesOf(c)' = MessagesOf(c) /\ PacketsOf(c)' = PacketsOf(c)
        /\ Filtered(m_aDelayedPackets', Of(c)) = Filtered(m_aDelayedPackets, Of(c))
    BY <1>1, QueuesKept
  <2>2. (Parting(c)' <=> Parting(c)) /\ (Closing(c)' <=> Closing(c))
    BY <1>1, JobsKept
  <2>3. Same(c)
    BY <1>1, <2>1, <2>2 DEF Same, slots
  <2> QED
    BY <1>1, <2>3, Frame DEF IInv
<1> QED
  BY <1>3, <1>4 DEF IInv

(* No packet is being handled: all of them wait.                           *)
LEMMA NothingHandled ==
  ASSUME NEW c
  PROVE  /\ m_aDelayedPackets \in Seq(Received) /\ handling = Nobody => PacketsOf(c) = Filtered(m_aDelayedPackets, Of(c))
         /\ m_aDelayedPackets' \in Seq(Received) /\ handling' = Nobody =>
              PacketsOf(c)' = Filtered(m_aDelayedPackets', Of(c))
<1>1. \A m \in Seq(Received) : m # <<>> => Head(m).sender # Nobody
  <2>1. \A p \in Received : p.sender # Nobody
    BY ClientsAssumption DEF Received, Clients
  <2> QED
    BY <2>1
<1> QED
  BY <1>1 DEF PacketsOf, Waiting, FirstHandled, Of

(* A message e of c is handled: the others' affairs stay as they are.      *)
LEMMA MessageHandled ==
  ASSUME IInv, ProcessMessagesQueue, m_messagesQueue # <<>>,
         NEW e, e = Head(m_messagesQueue), NEW c \in Clients, c = e.sender
  PROVE  /\ Control' /\ Handles(c, e) /\ OnMessage(e) /\ failed = "no" /\ job["main"] = Idle
         /\ UNCHANGED <<link, toServer, secret, playing, slots, net_players, farewells, frame>>
         /\ e \in Received /\ dropped' = dropped /\ JoinsOf(c)' = JoinsOf(c)
         /\ e.type # "remote" =>
              MessagesOf(c) # <<>> /\ Head(MessagesOf(c)) = e /\ MessagesOf(c)' = Tail(MessagesOf(c))
         /\ events' = events => EventsOf(c)' = EventsOf(c)
         /\ events' = Append(events, e) => EventsOf(c)' = Append(EventsOf(c), e)
         /\ m_aDelayedPackets' = m_aDelayedPackets => PacketsOf(c)' = PacketsOf(c)
         /\ m_aDelayedPackets' = Append(m_aDelayedPackets, e) /\ e.type # "remote" =>
              PacketsOf(c)' = Append(PacketsOf(c), e)
         /\ e.type = "remote" => PerClient(c)'
         /\ \A d \in Clients \ {c} : PerClient(d)'
<1>1. /\ failed = "no" /\ job["main"] = Idle /\ phase = "messages" /\ phase' = "messages" /\ Control /\ TypeOK
      /\ OnMessage(e) /\ m_messagesQueue' = Tail(m_messagesQueue)
      /\ UNCHANGED <<link, toServer, secret, playing, slots, net_players, farewells, frame>>
      /\ phase' = phase /\ handling' = handling /\ dropped' = dropped
      /\ events \in Seq(Received) /\ m_aDelayedPackets \in Seq(Received)
  BY DEF ProcessMessagesQueue, Main, IInv, Control, TypeOK, frame
<1>12. handling = Nobody /\ handling' = Nobody
  BY <1>1 DEF Control, Sound, Handing
<1>2. /\ Handles(c, e) /\ client'[c].bConnected = client[c].bConnected
      /\ events' = events \/ (e.type \in {"state", "auth"} /\ events' = Append(events, e))
  BY <1>1, MessageEffects
<1>3. /\ e \in Received /\ m_messagesQueue' \in Seq(Received)
      /\ e.type # "remote" => MessagesOf(c) # <<>> /\ Head(MessagesOf(c)) = e
      /\ \A d \in Clients : MessagesOf(d)' = IF d = c /\ e.type # "remote" THEN Tail(MessagesOf(d)) ELSE MessagesOf(d)
  BY <1>1, Taken
<1>4. \A d \in Clients : e \in Of(d) <=> d = c /\ e.type # "remote"
  BY <1>3 DEF Of
<1>5. ASSUME NEW d \in Clients
      PROVE  /\ events' = events => EventsOf(d)' = EventsOf(d)
             /\ events' = Append(events, e) =>
                  EventsOf(d)' = IF d = c /\ e.type # "remote" THEN Append(EventsOf(d), e) ELSE EventsOf(d)
  <2>1. Filtered(Append(events, e), Of(d)) =
          IF e \in Of(d) THEN Append(Filtered(events, Of(d)), e) ELSE Filtered(events, Of(d))
    BY <1>1, <1>3, FilteredAppend
  <2> QED
    BY <1>4, <2>1 DEF EventsOf, Of
<1>6. ASSUME NEW d \in Clients
      PROVE  /\ m_aDelayedPackets' = m_aDelayedPackets => PacketsOf(d)' = PacketsOf(d)
             /\ m_aDelayedPackets' = Append(m_aDelayedPackets, e) =>
                  /\ PacketsOf(d)' = IF d = c /\ e.type # "remote" THEN Append(PacketsOf(d), e) ELSE PacketsOf(d)
                  /\ d # c \/ e.type = "remote" => Filtered(m_aDelayedPackets', Of(d)) = Filtered(m_aDelayedPackets, Of(d))
  <2>1. Filtered(Append(m_aDelayedPackets, e), Of(d)) =
          IF e \in Of(d) THEN Append(Filtered(m_aDelayedPackets, Of(d)), e) ELSE Filtered(m_aDelayedPackets, Of(d))
    BY <1>1, <1>3, FilteredAppend
  <2>3. m_aDelayedPackets' \in Seq(Received)
    <3>1. Append(m_aDelayedPackets, e) \in Seq(Received)
      BY <1>1, <1>3
    <3> QED
      BY <1>1, <1>2, <3>1 DEF Handles
  <2>2. PacketsOf(d) = Filtered(m_aDelayedPackets, Of(d)) /\ PacketsOf(d)' = Filtered(m_aDelayedPackets', Of(d))
    BY <1>1, <1>12, <2>3, NothingHandled
  <2> QED
    BY <1>4, <2>1, <2>2
<1>7. job' = job \/ \E x \in Remote \cap net_players : Disconnect("main", x)
  BY <1>2 DEF Handles
<1>8. Slots' /\ JobsSound' /\ Sound' /\ job' \in [Threads -> Jobs]
  <2>1. Slots' /\ JobsSound' /\ Found' /\ job' \in [Threads -> Jobs]
    BY <1>1, <1>7, MainControl
  <2>2. Handing'
    BY <1>1, <1>12 DEF Handing
  <2> QED
    BY <2>1, <2>2 DEF Sound
<1>9. TypeOK'
  <2>1. events' \in Seq(Received) /\ m_aDelayedPackets' \in Seq(Received)
    <3>1. Append(events, e) \in Seq(Received) /\ Append(m_aDelayedPackets, e) \in Seq(Received)
      BY <1>1, <1>3
    <3>2. m_aDelayedPackets' = m_aDelayedPackets \/ m_aDelayedPackets' = Append(m_aDelayedPackets, e)
      BY <1>2 DEF Handles
    <3> QED
      BY <1>1, <1>2, <3>1, <3>2
  <2> QED
    BY <1>1, <1>2, <1>3, <1>8, <2>1 DEF TypeOK, Handles, slots
<1>10. HostFirst'
  <2>1. client'[Host].bConnected = client[Host].bConnected
    BY <1>2, JobTypes DEF Handles
  <2> QED
    BY <1>1, <1>2, <1>3, <2>1, HostStays DEF Control
<1>13. e.type = "remote" => toClient' = toClient /\ client' = client /\ job' = job
  BY <1>1 DEF OnMessage
<1>11. ASSUME NEW d \in Clients, d # c \/ e.type = "remote" PROVE PerClient(d)'
  <2>1. (Parting(d)' <=> Parting(d)) /\ (Closing(d) => Closing(d)')
    <3>1. CASE job' = job
      BY <3>1, JobsKept
    <3>2. CASE c \in Remote /\ Disconnect("main", c)
      BY <1>1, <3>2, Handed DEF Threads
    <3> QED
      BY <1>2, <3>1, <3>2 DEF Handles
  <2>5. e.type = "remote" => events' = events
    BY <1>2
  <2>2. /\ EventsOf(d)' = EventsOf(d) /\ MessagesOf(d)' = MessagesOf(d) /\ PacketsOf(d)' = PacketsOf(d)
        /\ Filtered(m_aDelayedPackets', Of(d)) = Filtered(m_aDelayedPackets, Of(d))
    BY <1>2, <1>3, <1>5, <1>6, <1>11, <2>5 DEF Handles, Of
  <2>3. toClient'[d] = toClient[d] /\ client'[d] = client[d]
    BY <1>2, <1>11, <1>13 DEF Handles
  <2>4. Same(d)
    BY <1>1, <2>1, <2>2, <2>3 DEF Same, slots, Of
  <2> QED
    BY <1>1, <1>11, <2>4, Frame DEF IInv
<1>14. JoinsOf(c)' = JoinsOf(c)
  BY <1>1 DEF JoinsOf
<1>15. Control'
  BY <1>8, <1>9, <1>10 DEF Control
<1> QED
  BY <1>1, <1>2, <1>3, <1>5, <1>6, <1>11, <1>14, <1>15, SMTT(40)

(* A registered client is not given his farewell for a message of his.     *)
LEMMA FarewellKept ==
  ASSUME NEW c \in Clients, Farewell(c), c \in net_players, net_players' = net_players, farewells' = farewells,
         Parting(c)' <=> Parting(c), client[c].ps => client'[c].ps,
         Some(MessagesOf(c), {"ready"})' => Some(MessagesOf(c), {"ready"}),
         client'[c].owner = client[c].owner \/ Some(MessagesOf(c), {"ready"}),
         farewells[c] \in Nat
  PROVE  Farewell(c)'
<1>1. CASE ~Parting(c)
  BY <1>1 DEF Farewell
<1>2. CASE Parting(c)
  <2>1. Told(c) /\ (farewells[c] > 0 \/ ~Some(MessagesOf(c), {"ready"}))
    BY <1>2 DEF Farewell
  <2>4. Told(c)'
    BY <2>1 DEF Told
  <2> QED
    BY <1>2, <2>1, <2>4 DEF Farewell
<1> QED
  BY <1>1, <1>2

(* Handling what a client who has gone has left behind changes nothing.    *)
LEMMA GoneKept ==
  ASSUME NEW c \in Clients, PerClient(c), c \notin net_players, net_players' = net_players, link[c] = "closed",
         link'[c] = link[c], toClient'[c] = toClient[c], toServer'[c] = toServer[c], client'[c] = client[c],
         farewells'[c] = farewells[c]
  PROVE  PerClient(c)'
<1>1. Told(c)' <=> Told(c)
  BY DEF Told
<1> QED
  BY <1>1 DEF PerClient, Farewell

(* The answer to a key, the first of a batch, is handled.                  *)
LEMMA BatchAck ==
  ASSUME TypeOK, failed = "no", NEW c \in Clients, NEW b \in 0..5, Batch(c, b), MessagesOf(c) # <<>>,
         Head(MessagesOf(c)).type = "ack", MessagesOf(c)' = Tail(MessagesOf(c)),
         EventsOf(c)' = EventsOf(c), PacketsOf(c)' = PacketsOf(c),
         client'[c].m_last_key_sync_request_seed = client[c].m_last_key_sync_request_seed,
         client'[c].ps = client[c].ps, client'[c].net_Accepted = client[c].net_Accepted,
         client'[c].owner = client[c].owner, client'[c].bConnected = client[c].bConnected,
         client'[c].m_secret_key = client[c].m_last_key_sync_request_seed,
         link'[c] = link[c], JoinsOf(c)' = JoinsOf(c), toClient'[c] = toClient[c], secret'[c] = secret[c],
         job' = job, failed' = failed, dropped' = dropped
  PROVE  Batch(c, b)'
<1> DEFINE e == EventsOf(c)
           q == MessagesOf(c)
           s == JoinsOf(c)
           t == toClient[c]
<1>1. e \in Seq(Received) /\ q \in Seq(Received) /\ q # <<>>
  BY Projections
<1>2. Pipe(e, q, s, t, b) /\ PacketsOf(c) = <<>>
  BY DEF Batch, Line, Silent
<1>3. Pipe(e, Tail(q), s, t, b)
  BY <1>1, <1>2, PipeHandle
<1>4. /\ \A types : Some(q, types) <=> Head(q).type \in types \/ Some(Tail(q), types)
      /\ Head(q).type \in FromPlayer(b)
  <2>1. /\ \A types, keyed, n : Made(q, types, keyed, n) => Head(q).type \in types
        /\ \A types : Some(q, types) <=> Head(q).type \in types \/ Some(Tail(q), types)
    <3> HIDE DEF q
    <3> QED
      BY <1>1, HeadAndTail
  <2> QED
    BY <1>2, <2>1 DEF Pipe
<1>5. b \in 1..3
  BY <1>4 DEF FromPlayer
<1>6. client'[c].m_secret_key = b
  BY <1>5 DEF Batch, Known
<1> HIDE DEF e, q, s, t
<1>7. Line(c, b)'
  BY <1>2, <1>3 DEF Line, e, q, s, t
<1>8. Known(c, b)'
  BY DEF Batch, Known
<1>9. Keys(c, b)'
  BY <1>6 DEF Batch, Keys
<1>10. StateFirst(c, b)'
  BY <1>4 DEF Batch, StateFirst, q
<1>11. Alive(c, b)'
  <2>1. Closing(c)' <=> Closing(c)
    BY JobsKept
  <2> QED
    BY <1>4, <2>1 DEF Batch, Alive, q
<1> QED
  BY <1>7, <1>8, <1>9, <1>10, <1>11 DEF Batch

(* A message becomes an event.                                             *)
LEMMA BatchStored ==
  ASSUME TypeOK, failed = "no", NEW c \in Clients, NEW b \in 0..5, Batch(c, b), MessagesOf(c) # <<>>,
         Head(MessagesOf(c)).type \in {"state", "auth"}, MessagesOf(c)' = Tail(MessagesOf(c)),
         EventsOf(c)' = Append(EventsOf(c), Head(MessagesOf(c))), PacketsOf(c)' = PacketsOf(c),
         client'[c] = client[c],
         link'[c] = link[c], JoinsOf(c)' = JoinsOf(c), toClient'[c] = toClient[c], secret'[c] = secret[c],
         job' = job, failed' = failed, dropped' = dropped
  PROVE  Batch(c, b)'
<1> DEFINE e == EventsOf(c)
           q == MessagesOf(c)
           s == JoinsOf(c)
           t == toClient[c]
           x == Head(q)
<1>1. e \in Seq(Received) /\ q \in Seq(Received) /\ q # <<>>
  BY Projections
<1>2. Pipe(e, q, s, t, b) /\ PacketsOf(c) = <<>>
  BY DEF Batch, Line, Silent
<1>3. b = 1 /\ client[c].m_secret_key = b
  BY KeyKnown
<1>4. /\ \A types : Some(q, types) <=> x.type \in types \/ Some(Tail(q), types)
      /\ x \in Received
  <2> HIDE DEF q
  <2> QED
    BY <1>1, HeadAndTail
<1>5. Pipe(Append(e, x), Tail(q), s, t, b)
  <2>1. x.type \in Events(b)
    BY <1>3 DEF Events
  <2> QED
    BY <1>1, <1>2, <2>1, PipeHandle
<1>6. \A types : Some(Append(e, x), types) <=> x.type \in types \/ Some(e, types)
  <2> HIDE DEF e, x
  <2> QED
    BY <1>1, <1>4, Appended
<1> HIDE DEF e, q, s, t, x
<1>7. Line(c, b)'
  BY <1>2, <1>5 DEF Line, e, q, s, t, x
<1>8. Known(c, b)'
  BY DEF Batch, Known
<1>9. Keys(c, b)'
  BY <1>3 DEF Batch, Keys
<1>10. StateFirst(c, b)'
  BY <1>4, <1>6 DEF Batch, StateFirst, e, q, x
<1>11. Alive(c, b)'
  <2>1. Closing(c)' <=> Closing(c)
    BY JobsKept
  <2> QED
    BY <1>4, <1>6, <2>1 DEF Batch, Alive, e, q, x
<1> QED
  BY <1>7, <1>8, <1>9, <1>10, <1>11 DEF Batch

(* The last message of a batch is handled and nothing follows: the client  *)
(* plays or is turned away.                                                *)
LEMMA BatchEnds ==
  ASSUME NEW c \in Clients, NEW b \in 0..5, Known(c, b)', secret'[c] = secret[c],
         EventsOf(c)' = <<>>, MessagesOf(c)' = <<>>, PacketsOf(c)' = <<>>, JoinsOf(c)' = <<>>, toClient'[c] = <<>>,
         Closing(c)' \/ c = Host \/ (b = 5 /\ client'[c].owner)
  PROVE  Batch(c, b)'
<1>1. \A types : ~Some(<<>>, types)
  BY DEF Some
<1>2. Pipe(<<>>, <<>>, <<>>, <<>>, b)
  BY PipeStart
<1>3. Line(c, b)'
  BY <1>2 DEF Line
<1>4. Keys(c, b)'
  BY DEF Keys, Silent
<1>5. StateFirst(c, b)'
  BY <1>1 DEF StateFirst
<1>6. Alive(c, b)'
  BY DEF Alive
<1> QED
  BY <1>3, <1>4, <1>5, <1>6 DEF Batch

(* A message of a registered client is handled.                            *)
LEMMA AckStep ==
  ASSUME IInv, ProcessMessagesQueue, m_messagesQueue # <<>>,
         NEW e, e = Head(m_messagesQueue), NEW c \in net_players, c = e.sender, e.type = "ack",
         NEW b \in 0..5, Batch(c, b)
  PROVE  Batch(c, b)' /\ client'[c].owner = client[c].owner /\ client'[c].ps = client[c].ps
<1>1. TypeOK /\ c \in Clients /\ client \in [Clients -> ClientData] /\ client[c] \in ClientData /\ events \in Seq(Received)
  BY DEF IInv, Control, TypeOK
<1>2. /\ OnMessage(e) /\ failed = "no"
      /\ UNCHANGED <<link, secret>> /\ JoinsOf(c)' = JoinsOf(c) /\ dropped' = dropped
      /\ MessagesOf(c) # <<>> /\ Head(MessagesOf(c)) = e /\ MessagesOf(c)' = Tail(MessagesOf(c))
      /\ events' = events => EventsOf(c)' = EventsOf(c)
      /\ m_aDelayedPackets' = m_aDelayedPackets => PacketsOf(c)' = PacketsOf(c)
  BY <1>1, MessageHandled
<1>3. /\ client' = [client EXCEPT ![c].m_secret_key = client[c].m_last_key_sync_request_seed]
      /\ toClient' = toClient /\ m_aDelayedPackets' = m_aDelayedPackets /\ job' = job /\ failed' = failed
      /\ events' = events
  <2>1. PerformSecretKeysSyncAck(c) /\ events' = events \o <<>>
    BY <1>2 DEF OnMessage, Added
  <2> QED
    BY <1>1, <2>1 DEF PerformSecretKeysSyncAck
<1>4. /\ client'[c].m_last_key_sync_request_seed = client[c].m_last_key_sync_request_seed
      /\ client'[c].ps = client[c].ps /\ client'[c].net_Accepted = client[c].net_Accepted
      /\ client'[c].owner = client[c].owner /\ client'[c].bConnected = client[c].bConnected
      /\ client'[c].m_secret_key = client[c].m_last_key_sync_request_seed
  BY <1>1, <1>3 DEF ClientData
<1>5. EventsOf(c)' = EventsOf(c) /\ PacketsOf(c)' = PacketsOf(c)
  BY <1>2, <1>3
<1>6. link'[c] = link[c] /\ JoinsOf(c)' = JoinsOf(c) /\ toClient'[c] = toClient[c] /\ secret'[c] = secret[c]
  BY <1>2, <1>3
<1> QED
  BY <1>1, <1>2, <1>3, <1>4, <1>5, <1>6, BatchAck

(* Player state and version check become events; nothing else changes for  *)
(* their sender.                                                           *)
LEMMA StoredStep ==
  ASSUME IInv, ProcessMessagesQueue, m_messagesQueue # <<>>,
         NEW e, e = Head(m_messagesQueue), NEW c \in net_players, c = e.sender, e.type \in {"state", "auth"},
         NEW b \in 0..5, Batch(c, b)
  PROVE  Batch(c, b)' /\ client' = client
<1>1. TypeOK /\ c \in Clients /\ events \in Seq(Received)
  BY DEF IInv, Control, TypeOK
<1>2. /\ OnMessage(e) /\ failed = "no"
      /\ UNCHANGED <<link, secret>> /\ e \in Received /\ JoinsOf(c)' = JoinsOf(c) /\ dropped' = dropped
      /\ MessagesOf(c) # <<>> /\ Head(MessagesOf(c)) = e /\ MessagesOf(c)' = Tail(MessagesOf(c))
      /\ events' = Append(events, e) => EventsOf(c)' = Append(EventsOf(c), e)
      /\ m_aDelayedPackets' = m_aDelayedPackets => PacketsOf(c)' = PacketsOf(c)
  BY <1>1, MessageHandled
<1>3. e.n = client[c].m_secret_key
  BY <1>1, <1>2, KeyKnown
<1>4. /\ client' = client /\ events' = Append(events, e)
      /\ toClient' = toClient /\ m_aDelayedPackets' = m_aDelayedPackets /\ job' = job /\ failed' = failed
  <2>1. OnSecureMessage(e) /\ events' = events \o <<e>>
    BY <1>2, <1>3 DEF OnMessage, Added
  <2>2. events \o <<e>> = Append(events, e)
    BY <1>1, <1>2, ConcatAppend
  <2> QED
    BY <2>1, <2>2 DEF OnSecureMessage
<1>5. link'[c] = link[c] /\ JoinsOf(c)' = JoinsOf(c) /\ toClient'[c] = toClient[c] /\ secret'[c] = secret[c]
      /\ client'[c] = client[c]
  BY <1>2, <1>4
<1> QED
  BY <1>1, <1>2, <1>4, <1>5, BatchStored

(* The digest: the sender gets a new key and the result, or is turned away.*)
LEMMA DigestStep ==
  ASSUME IInv, ProcessMessagesQueue, m_messagesQueue # <<>>,
         NEW e, e = Head(m_messagesQueue), NEW c \in net_players, c = e.sender, e.type = "digest",
         NEW b \in 0..5, Batch(c, b)
  PROVE  Joining(c)' /\ client'[c].owner = client[c].owner /\ client'[c].ps = client[c].ps
<1>1. TypeOK /\ c \in Clients /\ events \in Seq(Received)
  BY DEF IInv, Control, TypeOK
<1>2. /\ OnMessage(e) /\ failed = "no"
      /\ link' = link /\ JoinsOf(c)' = JoinsOf(c) /\ secret' = secret /\ e \in Received /\ job["main"] = Idle
      /\ MessagesOf(c) # <<>> /\ Head(MessagesOf(c)) = e /\ MessagesOf(c)' = Tail(MessagesOf(c))
      /\ events' = events => EventsOf(c)' = EventsOf(c)
      /\ m_aDelayedPackets' = m_aDelayedPackets => PacketsOf(c)' = PacketsOf(c)
  BY <1>1, MessageHandled
<1>3. e.n = client[c].m_secret_key /\ b = 2
  BY <1>1, <1>2, KeyKnown
<1>4. /\ EventsOf(c) = <<>> /\ MessagesOf(c)' = <<>> /\ JoinsOf(c) = <<>> /\ toClient[c] = <<>>
      /\ PacketsOf(c) = <<>>
  BY <1>1, <1>2, EndOfBatch
<1>5. ProcessClientDigest(c) /\ events' = events
  <2>1. OnSecureMessage(e) /\ events' = events \o <<>>
    BY <1>2 DEF OnMessage, Added
  <2> QED
    BY <1>1, <1>3, <2>1 DEF OnSecureMessage
<1>6. EventsOf(c)' = <<>> /\ JoinsOf(c)' = <<>> /\ secret'[c] = secret[c] /\ link'[c] = link[c]
  BY <1>2, <1>4, <1>5
<1>7. CASE c \in Banned /\ Turned(c)
  <2>1. Disconnect("main", c) /\ toClient' = toClient /\ client' = client /\ m_aDelayedPackets' = m_aDelayedPackets
    BY <1>7 DEF Turned
  <2>2. Closing(c)'
    BY <1>1, <1>2, <1>7, <2>1, ClientsAssumption, Handed DEF Closing, Threads
  <2>3. PacketsOf(c)' = <<>> /\ toClient'[c] = <<>>
    BY <1>2, <1>4, <2>1
  <2>4. Known(c, b)'
    BY <1>2, <2>1 DEF Batch, Known
  <2>5. Batch(c, b)'
    BY <1>1, <1>4, <1>6, <2>2, <2>3, <2>4, BatchEnds
  <2> QED
    BY <2>1, <2>5 DEF Joining
<1>8. CASE /\ SendTo(c, <<Seed(c), Message("result", 1)>>)
           /\ client' = Verified(c)
           /\ UNCHANGED <<SV_Client, m_aDelayedPackets, job, failed>>
  <2>1. client[c].m_last_key_sync_request_seed = 2 /\ Known(c, 2) /\ b = 2
    BY <1>3 DEF Batch, Known
  <2>2. /\ client'[c].m_last_key_sync_request_seed = 3
        /\ client'[c].bConnected = client[c].bConnected /\ client'[c].ps = client[c].ps
        /\ client'[c].net_Accepted = client[c].net_Accepted /\ client'[c].owner = client[c].owner
        /\ client'[c].m_secret_key = client[c].m_secret_key
    <3>1. PICK v : v = Verified(c)
      OBVIOUS
    <3> QED
      BY <1>1, <1>8, <2>1, <3>1, Checked
  <2>3. Seed(c) = Message("key", 3) /\ Message("key", 3) \in FromServer
    <3>1. PICK r : r = PerformSecretKeysSync(c)
      OBVIOUS
    <3> QED
      BY <1>1, <2>1, <3>1, Synced
  <2>4. Message("result", 1) \in FromServer
    BY DEF Message, FromServer, Seeds
  <2>5. <<Message("key", 3), Message("result", 1)>> \in Seq(FromServer)
    BY <2>3, <2>4
  <2>6. toClient'[c] = IF link[c] = "open" THEN <<Message("key", 3), Message("result", 1)>> ELSE <<>>
    <3>1. toClient'[c] = IF link[c] = "open" THEN toClient[c] \o <<Message("key", 3), Message("result", 1)>> ELSE toClient[c]
      BY <1>1, <1>8, <2>3, <2>5, Sent
    <3>2. \A s \in Seq(FromServer) : <<>> \o s = s
      OBVIOUS
    <3> QED
      BY <1>4, <2>5, <3>1, <3>2
  <2>7. PacketsOf(c)' = <<>>
    BY <1>2, <1>4, <1>8
  <2>8. Known(c, 3)'
    BY <1>2, <1>8, <2>1, <2>2 DEF Known
  <2>9. Batch(c, 3)'
    BY <1>1, <1>4, <1>6, <2>6, <2>7, <2>8, NextBatch
  <2> QED
    BY <2>2, <2>9 DEF Joining
<1> QED
  BY <1>5, <1>7, <1>8 DEF ProcessClientDigest

(* The map's name: the answer is sent.                                     *)
LEMMA MapStep ==
  ASSUME IInv, ProcessMessagesQueue, m_messagesQueue # <<>>,
         NEW e, e = Head(m_messagesQueue), NEW c \in net_players, c = e.sender, e.type = "map",
         NEW b \in 0..5, Batch(c, b)
  PROVE  Joining(c)' /\ client' = client
<1>1. TypeOK /\ c \in Clients /\ events \in Seq(Received)
  BY DEF IInv, Control, TypeOK
<1>2. /\ OnMessage(e) /\ failed = "no"
      /\ link' = link /\ JoinsOf(c)' = JoinsOf(c) /\ secret' = secret
      /\ MessagesOf(c) # <<>> /\ Head(MessagesOf(c)) = e /\ MessagesOf(c)' = Tail(MessagesOf(c))
      /\ events' = events => EventsOf(c)' = EventsOf(c)
      /\ m_aDelayedPackets' = m_aDelayedPackets => PacketsOf(c)' = PacketsOf(c)
  BY <1>1, MessageHandled
<1>3. /\ EventsOf(c) = <<>> /\ MessagesOf(c)' = <<>> /\ JoinsOf(c) = <<>> /\ toClient[c] = <<>>
      /\ PacketsOf(c) = <<>> /\ b = 3
  BY <1>1, <1>2, EndOfBatch
<1>4. /\ SendTo(c, <<Message("map", 0)>>) /\ events' = events
      /\ client' = client /\ m_aDelayedPackets' = m_aDelayedPackets /\ job' = job /\ failed' = failed
  <2>1. OnProcessClientMapData(c) /\ events' = events \o <<>>
    BY <1>2 DEF OnMessage, Added
  <2> QED
    BY <1>1, <2>1 DEF OnProcessClientMapData
<1>5. toClient'[c] = IF link[c] = "open" THEN <<Message("map", 0)>> ELSE <<>>
  <2>1. Message("map", 0) \in FromServer
    BY DEF Message, FromServer, Seeds
  <2>2. <<Message("map", 0)>> \in Seq(FromServer)
    BY <2>1
  <2>3. toClient'[c] = IF link[c] = "open" THEN toClient[c] \o <<Message("map", 0)>> ELSE toClient[c]
    BY <1>1, <1>4, <2>2, Sent
  <2>4. \A s \in Seq(FromServer) : <<>> \o s = s
    OBVIOUS
  <2> QED
    BY <1>3, <2>2, <2>3, <2>4
<1>6. EventsOf(c)' = <<>> /\ PacketsOf(c)' = <<>> /\ JoinsOf(c)' = <<>> /\ link'[c] = link[c]
  BY <1>2, <1>3, <1>4
<1>7. Known(c, 4)'
  BY <1>2, <1>3, <1>4 DEF Batch, Known
<1>8. Batch(c, 4)'
  BY <1>1, <1>3, <1>5, <1>6, <1>7, NextBatch
<1> QED
  BY <1>4, <1>8 DEF Joining

(* The request for the connection data becomes a delayed packet.           *)
LEMMA RequestStep ==
  ASSUME IInv, ProcessMessagesQueue, m_messagesQueue # <<>>,
         NEW e, e = Head(m_messagesQueue), NEW c \in net_players, c = e.sender, e.type = "request",
         NEW b \in 0..5, Batch(c, b)
  PROVE  Joining(c)' /\ client' = client
<1>1. TypeOK /\ c \in Clients /\ events \in Seq(Received)
  BY DEF IInv, Control, TypeOK
<1>2. /\ OnMessage(e) /\ failed = "no"
      /\ link' = link /\ JoinsOf(c)' = JoinsOf(c) /\ secret' = secret
      /\ MessagesOf(c) # <<>> /\ Head(MessagesOf(c)) = e /\ MessagesOf(c)' = Tail(MessagesOf(c))
      /\ events' = events => EventsOf(c)' = EventsOf(c)
      /\ m_aDelayedPackets' = Append(m_aDelayedPackets, e) => PacketsOf(c)' = Append(PacketsOf(c), e)
  BY <1>1, MessageHandled
<1>3. /\ EventsOf(c) = <<>> /\ MessagesOf(c)' = <<>> /\ JoinsOf(c) = <<>> /\ toClient[c] = <<>>
      /\ PacketsOf(c) = <<>> /\ b = 4
  BY <1>1, <1>2, EndOfBatch
<1>4. /\ m_aDelayedPackets' = Append(m_aDelayedPackets, e) /\ events' = events
      /\ client' = client /\ toClient' = toClient /\ job' = job /\ failed' = failed
  <2>1. events' = events \o <<>>
    BY <1>2 DEF OnMessage, Added
  <2>2. /\ m_aDelayedPackets' = Append(m_aDelayedPackets, e)
        /\ client' = client /\ toClient' = toClient /\ job' = job /\ failed' = failed
    BY <1>2 DEF OnMessage
  <2> QED
    BY <1>1, <2>1, <2>2
<1>5. /\ EventsOf(c)' = <<>> /\ JoinsOf(c)' = <<>> /\ toClient'[c] = <<>>
      /\ PacketsOf(c)' # <<>> /\ Len(PacketsOf(c)') = 1
  <2>1. PacketsOf(c)' = <<e>>
    <3>1. Append(<<>>, e) = <<e>>
      OBVIOUS
    <3>2. PacketsOf(c)' = Append(PacketsOf(c), e)
      BY <1>2, <1>4
    <3> QED
      BY <1>3, <3>1, <3>2
  <2> QED
    BY <1>2, <1>3, <1>4, <2>1
<1>6. Pipe(<<>>, <<>>, <<>>, <<>>, b)
  BY PipeStart
<1>7. Line(c, b)'
  BY <1>3, <1>5, <1>6 DEF Line, Silent
<1>8. Known(c, b)'
  BY <1>2, <1>4 DEF Batch, Known
<1>9. Keys(c, b)' /\ StateFirst(c, b)'
  BY <1>3 DEF Keys, StateFirst
<1>10. Alive(c, b)'
  BY <1>5 DEF Alive
<1>11. Batch(c, b)'
  BY <1>7, <1>8, <1>9, <1>10 DEF Batch
<1> QED
  BY <1>4, <1>11 DEF Joining

(* The client is ready to play.                                            *)
LEMMA ReadyStep ==
  ASSUME IInv, ProcessMessagesQueue, m_messagesQueue # <<>>,
         NEW e, e = Head(m_messagesQueue), NEW c \in net_players, c = e.sender, e.type = "ready",
         NEW b \in 0..5, Batch(c, b)
  PROVE  Joining(c)' /\ client'[c].ps = client[c].ps
<1>1. TypeOK /\ c \in Clients /\ events \in Seq(Received) /\ client \in [Clients -> ClientData] /\ client[c] \in ClientData
  BY DEF IInv, Control, TypeOK
<1>2. /\ OnMessage(e) /\ failed = "no"
      /\ link' = link /\ JoinsOf(c)' = JoinsOf(c) /\ secret' = secret
      /\ MessagesOf(c) # <<>> /\ Head(MessagesOf(c)) = e /\ MessagesOf(c)' = Tail(MessagesOf(c))
      /\ events' = events => EventsOf(c)' = EventsOf(c)
      /\ m_aDelayedPackets' = m_aDelayedPackets => PacketsOf(c)' = PacketsOf(c)
  BY <1>1, MessageHandled
<1>3. /\ EventsOf(c) = <<>> /\ MessagesOf(c)' = <<>> /\ JoinsOf(c) = <<>> /\ toClient[c] = <<>>
      /\ PacketsOf(c) = <<>> /\ b = 5
  BY <1>1, <1>2, EndOfBatch
<1>4. client[c].ps
  BY <1>3 DEF Batch, Known
<1>5. /\ client' = [client EXCEPT ![c].owner = TRUE] /\ events' = events
      /\ toClient' = toClient /\ m_aDelayedPackets' = m_aDelayedPackets /\ job' = job /\ failed' = failed
  <2>1. OnPlayerConnectFinished(c) /\ events' = events \o <<>>
    BY <1>2 DEF OnMessage, Added
  <2> QED
    BY <1>1, <1>4, <2>1 DEF OnPlayerConnectFinished
<1>6. /\ client'[c].m_last_key_sync_request_seed = client[c].m_last_key_sync_request_seed
      /\ client'[c].ps = client[c].ps /\ client'[c].net_Accepted = client[c].net_Accepted
      /\ client'[c].owner /\ client'[c].bConnected = client[c].bConnected
  BY <1>1, <1>5 DEF ClientData
<1>7. /\ EventsOf(c)' = <<>> /\ JoinsOf(c)' = <<>> /\ toClient'[c] = <<>> /\ PacketsOf(c)' = <<>>
      /\ secret'[c] = secret[c]
  BY <1>2, <1>3, <1>5
<1>8. Known(c, b)'
  BY <1>2, <1>3, <1>6 DEF Batch, Known
<1>9. Batch(c, b)'
  BY <1>1, <1>3, <1>6, <1>7, <1>8, BatchEnds
<1> QED
  BY <1>6, <1>9 DEF Joining

(* A message that is handled, whoever sent it and wherever he is by then.  *)
LEMMA MessageStep ==
  ASSUME IInv, ProcessMessagesQueue, m_messagesQueue # <<>>
  PROVE  IInv'
<1>1. TypeOK /\ m_messagesQueue \in Seq(Received) /\ client \in [Clients -> ClientData]
  BY DEF IInv, Control, TypeOK
<1>2. PICK e \in Received : e = Head(m_messagesQueue)
  BY <1>1
<1>3. PICK c \in Clients : c = e.sender
  BY <1>2 DEF Received
<1>4. /\ Control' /\ Handles(c, e) /\ OnMessage(e) /\ failed = "no" /\ job["main"] = Idle
      /\ link' = link /\ toServer' = toServer /\ net_players' = net_players /\ farewells' = farewells
      /\ e.type # "remote" =>
           MessagesOf(c) # <<>> /\ Head(MessagesOf(c)) = e /\ MessagesOf(c)' = Tail(MessagesOf(c))
      /\ e.type = "remote" => PerClient(c)'
      /\ \A d \in Clients : d # c => PerClient(d)'
  BY <1>2, <1>3, MessageHandled
<1>5. PerClient(c) /\ farewells[c] \in Nat
  BY DEF IInv, Control, TypeOK
<1>6. CASE c \notin net_players /\ e.type # "remote"
  <2>1. link[c] = "closed"
    BY <1>4, <1>5, <1>6 DEF PerClient, Coming
  <2>2. toClient' = toClient /\ client' = client
    BY <1>3, <1>4, <1>6 DEF OnMessage, Fails
  <2>3. PerClient(c)'
    BY <1>4, <1>5, <1>6, <2>1, <2>2, GoneKept
  <2> QED
    BY <1>4, <2>3 DEF IInv
<1>8. CASE e.type = "remote"
  <2>1. PerClient(c)' /\ \A d \in Clients : d # c => PerClient(d)'
    BY <1>4, <1>8
  <2> QED
    BY <1>4, <2>1 DEF IInv
<1>7. CASE c \in net_players /\ e.type # "remote"
  <2>1. PICK b \in 0..5 : Batch(c, b)
    BY <1>5, <1>7 DEF PerClient, Joining
  <2>2. /\ MessagesOf(c) \in Seq(Received)
        /\ \A types : Some(MessagesOf(c), types) <=> e.type \in types \/ Some(Tail(MessagesOf(c)), types)
        /\ e.type \in FromPlayer(b)
    <3>1. MessagesOf(c) \in Seq(Received)
      BY <1>1, Projections
    <3>2. Made(MessagesOf(c), FromPlayer(b), Keyed, b)
      BY <2>1 DEF Batch, Line, Pipe
    <3>3. PICK q \in Seq(Received) : q = MessagesOf(c)
      BY <3>1
    <3>4. q # <<>> /\ Head(q) = e /\ Made(q, FromPlayer(b), Keyed, b)
      BY <1>4, <1>7, <3>2, <3>3
    <3>5. e.type \in FromPlayer(b) /\ \A types : Some(q, types) <=> e.type \in types \/ Some(Tail(q), types)
      BY <3>4, HeadAndTail
    <3> QED
      BY <3>3, <3>5
  <2>3. e.type \in {"ack", "state", "auth", "digest", "map", "request", "ready"}
    BY <2>2 DEF FromPlayer
  <2>4. /\ Joining(c)' /\ client'[c].ps = client[c].ps
        /\ client'[c].owner = client[c].owner \/ e.type = "ready"
    <3>1. CASE e.type = "ack"
      BY <1>2, <1>3, <1>7, <2>1, <3>1, AckStep DEF Joining
    <3>2. CASE e.type \in {"state", "auth"}
      BY <1>2, <1>3, <1>7, <2>1, <3>2, StoredStep DEF Joining
    <3>3. CASE e.type = "digest"
      BY <1>2, <1>3, <1>7, <2>1, <3>3, DigestStep
    <3>4. CASE e.type = "map"
      BY <1>2, <1>3, <1>7, <2>1, <3>4, MapStep
    <3>5. CASE e.type = "request"
      BY <1>2, <1>3, <1>7, <2>1, <3>5, RequestStep
    <3>6. CASE e.type = "ready"
      BY <1>2, <1>3, <1>7, <2>1, <3>6, ReadyStep
    <3> QED
      BY <2>3, <3>1, <3>2, <3>3, <3>4, <3>5, <3>6
  <2>5. Parting(c)' <=> Parting(c)
    <3>1. CASE job' = job
      BY <3>1, JobsKept
    <3>2. CASE c \in Remote /\ Disconnect("main", c)
      BY <1>1, <1>4, <3>2, Handed DEF Threads
    <3> QED
      BY <1>4, <3>1, <3>2 DEF Handles
  <2>6. Farewell(c)'
    <3>1. Farewell(c) /\ (e.type = "ready" => Some(MessagesOf(c), {"ready"}))
          /\ (Some(MessagesOf(c), {"ready"})' => Some(MessagesOf(c), {"ready"}))
      <4>1. Farewell(c) /\ "ready" \in {"ready"}
        BY <1>5 DEF PerClient
      <4>2. Some(MessagesOf(c), {"ready"}) <=> e.type \in {"ready"} \/ Some(Tail(MessagesOf(c)), {"ready"})
        BY <2>2
      <4>3. Some(MessagesOf(c), {"ready"})' => Some(Tail(MessagesOf(c)), {"ready"})
        BY <1>4, <1>7 DEF Some
      <4> QED
        BY <4>1, <4>2, <4>3
    <3> QED
      BY <1>4, <1>5, <1>7, <2>4, <2>5, <3>1, FarewellKept
  <2>7. link[c] = "closed" => toClient'[c] = <<>> /\ toServer'[c] = <<>>
    <3>1. SUFFICES ASSUME link[c] = "closed" PROVE toClient'[c] = toClient[c]
      BY <1>4, <1>5 DEF PerClient
    <3>2. toClient' = toClient
      BY <1>3, <1>4, <3>1 DEF OnMessage, Fails, OnSecureMessage, ProcessClientDigest, Turned, SendTo,
            PerformSecretKeysSyncAck, OnProcessClientMapData, OnPlayerConnectFinished
    <3> QED
      BY <3>2
  <2>8. PerClient(c)'
    BY <1>4, <1>7, <2>4, <2>6, <2>7 DEF PerClient
  <2> QED
    BY <1>4, <2>8 DEF IInv
<1> QED
  BY <1>6, <1>7, <1>8

(* Nothing is behind the only one.                                         *)
LEMMA OnlyOne ==
  ASSUME NEW s \in Seq(Received), Len(s) = 1
  PROVE  Tail(s) = <<>>
<1>1. s # <<>>
  BY Len(<<>>) = 0
<1>2. Tail(s) \in Seq(Received) /\ Len(Tail(s)) = Len(s) - 1
  BY <1>1, HeadTailProperties
<1>3. PICK q \in Seq(Received) : q = Tail(s)
  BY <1>2
<1>4. Len(q) = 0
  BY <1>2, <1>3
<1>5. q = <<>>
  BY <1>4, EmptySeq
<1> QED
  BY <1>3, <1>5

(* The request of another is removed: he is not answered.                  *)
LEMMA BatchDropped ==
  ASSUME TypeOK, failed = "no", NEW c \in Clients, NEW b \in 0..5, Batch(c, b), PacketsOf(c) # <<>>,
         EventsOf(c)' = EventsOf(c), MessagesOf(c)' = MessagesOf(c), PacketsOf(c)' = Tail(PacketsOf(c)),
         JoinsOf(c)' = JoinsOf(c), toClient'[c] = toClient[c], secret'[c] = secret[c], client'[c] = client[c],
         link'[c] = link[c], c \in dropped'
  PROVE  Batch(c, b)'
<1>1. b = 4 /\ Len(PacketsOf(c)) = 1 /\ PacketsOf(c) \in Seq(Received)
  BY Projections DEF Batch, Line
<1>2. PacketsOf(c)' = <<>>
  <2>1. Tail(PacketsOf(c)) = <<>>
    BY <1>1, OnlyOne
  <2> QED
    BY <2>1
<1>3. Line(c, b)'
  BY <1>2 DEF Batch, Line
<1>4. Known(c, b)'
  BY DEF Batch, Known
<1>5. Keys(c, b)' /\ StateFirst(c, b)' /\ Alive(c, b)'
  BY <1>1 DEF Keys, StateFirst, Alive
<1> QED
  BY <1>3, <1>4, <1>5 DEF Batch

(* The first packet is removed, which need not be the one that has been    *)
(* handled.                                                                *)
LEMMA PopStep ==
  ASSUME IInv, Main, phase \in {"command", "pop"}, phase' = "packets", handling' = Nobody, pop_front,
         UNCHANGED <<toClient, client, SV_Client, job, link, toServer, secret, playing,
                     slots, net_players, m_messagesQueue, events, farewells>>
  PROVE  IInv'
<1>1. /\ failed = "no" /\ job["main"] = Idle /\ Control /\ TypeOK
      /\ job' = job /\ client' = client /\ events' = events
      /\ m_aDelayedPackets \in Seq(Received) /\ dropped \subseteq Clients
  BY DEF Main, IInv, Control, TypeOK
<1>2. CASE m_aDelayedPackets = <<>>
  <2>1. failed' = "range" /\ m_aDelayedPackets' = m_aDelayedPackets /\ dropped' = dropped
    BY <1>2 DEF pop_front
  <2>2. TypeOK'
    BY <1>1, <2>1 DEF TypeOK, slots
  <2>3. Control'
    BY <1>1, <2>1, <2>2, ControlOnly
  <2>4. ASSUME NEW c \in Clients PROVE PerClient(c)'
    <3>1. EventsOf(c)' = EventsOf(c) /\ MessagesOf(c)' = MessagesOf(c)
      BY <1>1 DEF EventsOf, MessagesOf, Of
    <3>2. Filtered(m_aDelayedPackets', Of(c)) = Filtered(m_aDelayedPackets, Of(c))
      BY <2>1 DEF Of
    <3>3. (Parting(c)' <=> Parting(c)) /\ (Closing(c)' <=> Closing(c))
      BY <1>1, JobsKept
    <3>4. Same(c)
      BY <1>1, <2>1, <3>1, <3>2, <3>3 DEF Same, slots
    <3> QED
      BY <1>1, <3>4, Frame DEF IInv
  <2> QED
    BY <2>3, <2>4 DEF IInv
<1>3. CASE m_aDelayedPackets # <<>>
  <2>1. PICK p \in Received : p = Head(m_aDelayedPackets)
    BY <1>1, <1>3
  <2>2. /\ m_aDelayedPackets' = Tail(m_aDelayedPackets) /\ failed' = failed
        /\ dropped' = IF p.sender # handling /\ p.type # "remote" THEN dropped \cup {p.sender} ELSE dropped
        /\ p.sender \in Clients
    BY <1>3, <2>1 DEF pop_front, Received
  <2>3. m_aDelayedPackets' \in Seq(Received)
    BY <1>1, <1>3, <2>2
  <2>4. TypeOK'
    BY <1>1, <2>2, <2>3 DEF TypeOK, slots
  <2>5. Handing'
    BY DEF Handing
  <2>6. Control'
    BY <1>1, <2>4, <2>5, ControlOnly
  <2>7. ASSUME NEW c \in Clients PROVE PerClient(c)'
    <3>1. EventsOf(c)' = EventsOf(c) /\ MessagesOf(c)' = MessagesOf(c) /\ JoinsOf(c)' = JoinsOf(c)
      BY <1>1 DEF EventsOf, MessagesOf, Of, JoinsOf
    <3>2. /\ PacketsOf(c)' = Filtered(Tail(m_aDelayedPackets), Of(c))
          /\ PacketsOf(c) = IF p.sender = handling THEN Filtered(Tail(m_aDelayedPackets), Of(c))
                            ELSE Filtered(m_aDelayedPackets, Of(c))
      <4>1. PacketsOf(c)' = Filtered(m_aDelayedPackets', Of(c))
        BY <2>3, NothingHandled
      <4> QED
        BY <1>3, <2>1, <2>2, <4>1 DEF PacketsOf, Waiting, FirstHandled, Of
    <3>3. /\ Filtered(m_aDelayedPackets, Of(c)) = <<>> => Filtered(Tail(m_aDelayedPackets), Of(c)) = <<>>
          /\ p \notin Of(c) => Filtered(Tail(m_aDelayedPackets), Of(c)) = Filtered(m_aDelayedPackets, Of(c))
          /\ p \in Of(c) => /\ Filtered(m_aDelayedPackets, Of(c)) # <<>>
                             /\ Filtered(Tail(m_aDelayedPackets), Of(c)) = Tail(Filtered(m_aDelayedPackets, Of(c)))
      BY <1>1, <1>3, <2>1, FilteredTail
    <3>4. (Parting(c)' <=> Parting(c)) /\ (Closing(c)' <=> Closing(c))
      BY <1>1, JobsKept
    <3>5. p \in Of(c) <=> p.sender = c /\ p.type # "remote"
      BY <2>1 DEF Of
    <3>6. Filtered(m_aDelayedPackets, Of(c)) = <<>> => Filtered(m_aDelayedPackets', Of(c)) = <<>>
      BY <2>2, <3>3 DEF Of
    <3>7. CASE p.sender = handling \/ p \notin Of(c)
      <4>1. PacketsOf(c)' = PacketsOf(c)
        BY <3>2, <3>3, <3>7
      <4>2. c \in dropped' <=> c \in dropped
        BY <2>2, <3>5, <3>7
      <4>3. Same(c)
        BY <1>1, <3>1, <3>4, <3>6, <4>1, <4>2 DEF Same, slots
      <4> QED
        BY <1>1, <4>3, Frame DEF IInv
    <3>8. CASE p.sender # handling /\ p \in Of(c)
      <4>1. PacketsOf(c) # <<>> /\ PacketsOf(c)' = Tail(PacketsOf(c)) /\ c \in dropped'
            /\ Filtered(m_aDelayedPackets, Of(c)) # <<>>
        BY <2>2, <3>2, <3>3, <3>5, <3>8
      <4>2. PerClient(c)
        BY DEF IInv
      <4>3. CASE c \notin net_players
        <5>1. link[c] = "closed"
          BY <4>1, <4>2, <4>3 DEF PerClient, Coming
        <5> QED
          BY <1>1, <4>2, <4>3, <5>1, GoneKept
      <4>4. CASE c \in net_players
        <5>1. PICK b \in 0..5 : Batch(c, b)
          BY <4>2, <4>4 DEF PerClient, Joining
        <5>2. Batch(c, b)'
          BY <1>1, <3>1, <4>1, <5>1, BatchDropped
        <5>3. Farewell(c)'
          <6>1. Told(c)' <=> Told(c)
            BY <1>1 DEF Told
          <6> QED
            BY <1>1, <3>1, <3>4, <4>2, <6>1 DEF PerClient, Farewell
        <5> QED
          BY <1>1, <4>2, <4>4, <5>2, <5>3 DEF PerClient, Joining
      <4> QED
        BY <4>3, <4>4
    <3> QED
      BY <3>7, <3>8
  <2> QED
    BY <2>6, <2>7 DEF IInv
<1> QED
  BY <1>2, <1>3

(* The first packet is handled: the connection data are sent.              *)
LEMMA PacketStep ==
  ASSUME IInv, Main, phase = "packets", m_aDelayedPackets # <<>>,
         NEW p, p = Head(m_aDelayedPackets), phase' \in {"command", "pop"}, handling' = p.sender, dropped' = dropped,
         NEW c \in Clients, c = p.sender, OnDelayedMessage(p),
         UNCHANGED <<link, toServer, secret, playing, slots, net_players, m_messagesQueue, events, farewells>>
  PROVE  IInv'
<1>1. /\ failed = "no" /\ job["main"] = Idle /\ Control /\ TypeOK
      /\ m_aDelayedPackets \in Seq(Received) /\ client \in [Clients -> ClientData]
      /\ client[c] \in ClientData /\ toClient \in [Clients -> Seq(FromServer)]
  BY DEF Main, IInv, Control, TypeOK
<1>2. /\ m_aDelayedPackets' = m_aDelayedPackets /\ job' = job /\ SV_Client' = SV_Client
      /\ failed' \in {"no", "null"} /\ dropped' = dropped
  BY <1>1 DEF OnDelayedMessage, OnCL_Connected, Fails
<1>3. Message("configured", 0) \in FromServer
  BY DEF Message, FromServer, Seeds
<1>4. /\ toClient' \in [Clients -> Seq(FromServer)] /\ client' \in [Clients -> ClientData]
      /\ \A d \in Clients : /\ d # c => toClient'[d] = toClient[d] /\ client'[d] = client[d]
                            /\ client'[d].bConnected = client[d].bConnected
  <2>1. CASE c \notin net_players
    BY <1>1, <2>1 DEF OnDelayedMessage, Fails
  <2>3. CASE c \in net_players /\ p.type = "remote"
    BY <1>1, <2>3 DEF OnDelayedMessage
  <2>2. CASE c \in net_players /\ p.type = "request"
    <3>1. client' = [client EXCEPT ![c].net_Accepted = TRUE] /\ SendTo(c, <<Message("configured", 0)>>)
      BY <2>2 DEF OnDelayedMessage, OnCL_Connected
    <3>2. /\ client' \in [Clients -> ClientData]
          /\ \A d \in Clients : (d # c => client'[d] = client[d]) /\ client'[d].bConnected = client[d].bConnected
      BY <1>1, <3>1 DEF ClientData
    <3>3. <<Message("configured", 0)>> \in Seq(FromServer)
      BY <1>3
    <3>4. toClient' \in [Clients -> Seq(FromServer)] /\ \A d \in Clients : d # c => toClient'[d] = toClient[d]
      BY <1>1, <3>1, <3>3, Sent
    <3> QED
      BY <3>2, <3>4
  <2> QED
    BY <2>1, <2>2, <2>3 DEF OnDelayedMessage
<1>5. TypeOK'
  BY <1>1, <1>2, <1>4 DEF TypeOK, slots
<1>6. Control'
  <2>1. client'[Host].bConnected = client[Host].bConnected
    BY <1>4, JobTypes
  <2>2. Handing'
    BY <1>2 DEF Handing
  <2> QED
    BY <1>1, <1>2, <1>5, <2>1, <2>2, ControlOnly
<1>7. p \in Received /\ \A d \in Clients : p \in Of(d) <=> d = c /\ p.type # "remote"
  <2>1. p \in Received
    BY <1>1
  <2> QED
    BY <2>1 DEF Of
<1>8. ASSUME NEW d \in Clients
      PROVE  /\ EventsOf(d)' = EventsOf(d) /\ MessagesOf(d)' = MessagesOf(d)
             /\ PacketsOf(d) = Filtered(m_aDelayedPackets, Of(d))
             /\ d # c \/ p.type = "remote" => PacketsOf(d)' = PacketsOf(d)
             /\ d = c /\ p.type # "remote" => PacketsOf(d) # <<>> /\ PacketsOf(d)' = Tail(PacketsOf(d))
             /\ JoinsOf(d)' = JoinsOf(d)
  <2>1. EventsOf(d)' = EventsOf(d) /\ MessagesOf(d)' = MessagesOf(d) /\ JoinsOf(d)' = JoinsOf(d)
    BY <1>1 DEF EventsOf, MessagesOf, Of, JoinsOf
  <2>4. handling = Nobody
    BY <1>1 DEF Control, Sound, Handing
  <2>2. PacketsOf(d) = Filtered(m_aDelayedPackets, Of(d)) /\ PacketsOf(d)' = Filtered(Tail(m_aDelayedPackets), Of(d))
    <3>1. PacketsOf(d) = Filtered(m_aDelayedPackets, Of(d))
      BY <1>1, <2>4, NothingHandled
    <3> QED
      BY <1>2, <3>1 DEF PacketsOf, Waiting, FirstHandled, Of
  <2>3. /\ p \in Of(d) =>
             /\ Filtered(m_aDelayedPackets, Of(d)) # <<>>
             /\ Filtered(Tail(m_aDelayedPackets), Of(d)) = Tail(Filtered(m_aDelayedPackets, Of(d)))
        /\ p \notin Of(d) =>
             Filtered(Tail(m_aDelayedPackets), Of(d)) = Filtered(m_aDelayedPackets, Of(d))
    BY <1>1, FilteredTail
  <2> QED
    BY <1>7, <2>1, <2>2, <2>3
<1>9. \A d \in Clients : (Parting(d)' <=> Parting(d)) /\ (Closing(d)' <=> Closing(d))
  BY <1>2, JobsKept
<1>14. p.type = "remote" => toClient' = toClient /\ client' = client
  BY DEF OnDelayedMessage, Fails
<1>10. ASSUME NEW d \in Clients, d # c \/ p.type = "remote" PROVE PerClient(d)'
  <2>2. toClient'[d] = toClient[d] /\ client'[d] = client[d]
    BY <1>4, <1>10, <1>14
  <2>1. Same(d)
    BY <1>2, <1>8, <1>9, <1>10, <2>2 DEF Same, slots, Of
  <2> QED
    BY <1>1, <1>10, <2>1, Frame DEF IInv
<1>11. PerClient(c) /\ farewells[c] \in Nat
  BY <1>1 DEF IInv, TypeOK
<1>15. CASE p.type = "remote"
  BY <1>6, <1>10, <1>15 DEF IInv
<1>12. CASE c \notin net_players /\ p.type # "remote"
  <2>1. link[c] = "closed"
    BY <1>8, <1>11, <1>12 DEF PerClient, Coming
  <2>2. toClient' = toClient /\ client' = client
    BY <1>12 DEF OnDelayedMessage, Fails
  <2>3. PerClient(c)'
    BY <1>11, <1>12, <2>1, <2>2, GoneKept
  <2> QED
    BY <1>6, <1>10, <2>3 DEF IInv
<1>13. CASE c \in net_players /\ p.type # "remote"
  <2>1. PICK b \in 0..5 : Batch(c, b)
    BY <1>11, <1>13 DEF PerClient, Joining
  <2>2. /\ client' = [client EXCEPT ![c].net_Accepted = TRUE] /\ SendTo(c, <<Message("configured", 0)>>)
        /\ failed' = failed
    BY <1>13 DEF OnDelayedMessage, OnCL_Connected
  <2>3. /\ b = 4 /\ Len(PacketsOf(c)) = 1 /\ MessagesOf(c) = <<>> /\ JoinsOf(c) = <<>> /\ toClient[c] = <<>>
        /\ Made(EventsOf(c), Events(b), {}, b)
    <3>1. PacketsOf(c) # <<>>
      BY <1>8, <1>13
    <3>2. Line(c, b)
      BY <2>1 DEF Batch
    <3> QED
      BY <1>1, <3>1, <3>2 DEF Line, Silent, Pipe
  <2>4. EventsOf(c) \in Seq(Received) /\ PacketsOf(c) \in Seq(Received)
    BY <1>1, Projections
  <2>5. EventsOf(c)' = <<>>
    <3>1. SUFFICES ASSUME EventsOf(c) # <<>> PROVE FALSE
      BY <1>8
    <3>2. \A types, keyed, n : Made(EventsOf(c), types, keyed, n) => Head(EventsOf(c)).type \in types
      BY <2>4, <3>1, HeadAndTail
    <3> QED
      BY <2>3, <3>2 DEF Events
  <2>6. PacketsOf(c)' = <<>>
    <3>1. PacketsOf(c)' = Tail(PacketsOf(c))
      BY <1>8, <1>13
    <3>2. Tail(PacketsOf(c)) = <<>>
      BY <2>3, <2>4, OnlyOne
    <3> QED
      BY <3>1, <3>2
  <2>7. toClient'[c] = IF link[c] = "open" THEN <<Message("configured", 0)>> ELSE <<>>
    <3>1. <<Message("configured", 0)>> \in Seq(FromServer)
      BY <1>3
    <3>2. toClient'[c] = IF link[c] = "open" THEN toClient[c] \o <<Message("configured", 0)>> ELSE toClient[c]
      BY <1>1, <2>2, <3>1, Sent
    <3>3. \A s \in Seq(FromServer) : <<>> \o s = s
      OBVIOUS
    <3> QED
      BY <2>3, <3>1, <3>2, <3>3
  <2>8. /\ client'[c].m_last_key_sync_request_seed = client[c].m_last_key_sync_request_seed
        /\ client'[c].ps = client[c].ps /\ client'[c].net_Accepted = TRUE
        /\ client'[c].owner = client[c].owner /\ client'[c].bConnected = client[c].bConnected
    BY <1>1, <2>2 DEF ClientData
  <2>9. Known(c, 5)'
    <3>1. Known(c, 4) /\ link' = link
      BY <2>1, <2>3 DEF Batch
    <3>2. /\ client[c].m_last_key_sync_request_seed = 3 /\ client[c].ps /\ ~client[c].owner /\ c # Host
      BY <3>1 DEF Known
    <3>3. link[c] # "closed" => client[c].bConnected
      <4>1. 4 >= 1
        OBVIOUS
      <4> QED
        BY <3>1, <3>2, <4>1 DEF Known
    <3>4. client'[c].m_last_key_sync_request_seed = 3 /\ client'[c].ps /\ ~client'[c].owner /\ c # Host
      BY <2>8, <3>2
    <3>5. link'[c] # "closed" => client'[c].bConnected = TRUE
      BY <1>1, <2>8, <3>1, <3>3 DEF ClientData
    <3>6. 5 >= 1 /\ 5 >= 2 /\ ~(5 < 3) /\ 5 # 0
      OBVIOUS
    <3> QED
      BY <2>8, <3>4, <3>5, <3>6 DEF Known
  <2>10. Batch(c, 5)'
    <3>1. MessagesOf(c)' = <<>> /\ JoinsOf(c)' = <<>> /\ link'[c] = link[c]
      BY <1>8, <2>3
    <3> QED
      BY <2>5, <2>6, <2>7, <2>9, <3>1, NextBatch
  <2>11. Farewell(c)'
    <3>1. Farewell(c) /\ (Some(MessagesOf(c), {"ready"})' => Some(MessagesOf(c), {"ready"}))
      BY <1>8, <1>11 DEF PerClient
    <3> QED
      BY <1>9, <1>11, <1>13, <2>8, <3>1, FarewellKept
  <2>12. link[c] = "closed" => toClient'[c] = <<>> /\ toServer'[c] = <<>>
    BY <1>11, <2>7 DEF PerClient
  <2>13. PerClient(c)'
    BY <1>13, <2>10, <2>11, <2>12 DEF PerClient, Joining
  <2> QED
    BY <1>6, <1>10, <2>13 DEF IInv
<1> QED
  BY <1>12, <1>13, <1>15

(* The delayed packets: nothing, the handling of the first, its removal.   *)
LEMMA ProceedDelayedPacketsStep ==
  ASSUME IInv, ProceedDelayedPackets
  PROVE  IInv'
<1>1. failed = "no" /\ Main /\ m_aDelayedPackets \in Seq(Received)
  BY DEF ProceedDelayedPackets, Main, IInv, Control, TypeOK
<1>2. CASE /\ phase = "packets" /\ m_aDelayedPackets = <<>> /\ phase' = "events"
           /\ UNCHANGED <<toClient, client, SV_Client, m_aDelayedPackets, job, failed, handling, dropped>>
  BY <1>1, <1>2, PhaseStep DEF ProceedDelayedPackets, Main, peers, registry, queues
<1>3. CASE /\ phase = "packets" /\ m_aDelayedPackets # <<>>
           /\ LET p == Head(m_aDelayedPackets) IN
              /\ OnDelayedMessage(p)
              /\ phase' = IF p.type = "remote" THEN "command" ELSE "pop"
              /\ handling' = p.sender /\ UNCHANGED dropped
  <2>1. PICK p \in Received : p = Head(m_aDelayedPackets)
    BY <1>1, <1>3
  <2>2. PICK c \in Clients : c = p.sender
    BY <2>1 DEF Received
  <2>3. OnDelayedMessage(p) /\ phase' \in {"command", "pop"} /\ handling' = p.sender /\ dropped' = dropped
    BY <1>3, <2>1
  <2> QED
    BY <1>1, <1>3, <2>1, <2>2, <2>3, PacketStep DEF ProceedDelayedPackets
<1>4. CASE /\ phase \in {"command", "pop"} /\ phase' = "packets" /\ handling' = Nobody
           /\ pop_front
           /\ UNCHANGED <<toClient, client, SV_Client, job>>
  BY <1>1, <1>4, PopStep DEF ProceedDelayedPackets
<1> QED
  BY <1>2, <1>3, <1>4 DEF ProceedDelayedPackets

(* What the players' state and login have changed, and the challenge.      *)
LEMMA Attachment ==
  ASSUME TypeOK, NEW c \in Clients, c # Host, AttachNewClient(c)
  PROVE  /\ client' \in [Clients -> ClientData] /\ \A d \in Clients : d # c => client'[d] = client[d]
         /\ client'[c].m_last_key_sync_request_seed = 1 /\ client'[c].bConnected = TRUE
         /\ client'[c].ps = client[c].ps /\ client'[c].net_Accepted = client[c].net_Accepted
         /\ client'[c].owner = client[c].owner /\ client'[c].m_secret_key = client[c].m_secret_key
         /\ toClient' \in [Clients -> Seq(FromServer)]
         /\ toClient'[c] = IF link[c] = "open" THEN toClient[c] \o <<Message("key", 1), Message("challenge", 0)>> ELSE toClient[c]
         /\ \A d \in Clients : d # c => toClient'[d] = toClient[d]
         /\ SV_Client' = SV_Client /\ m_aDelayedPackets' = m_aDelayedPackets /\ job' = job /\ failed' = failed
<1>1. client \in [Clients -> ClientData] /\ client[c] \in ClientData
  BY DEF TypeOK
<1>2. /\ client' = [client EXCEPT ![c].bConnected = TRUE, ![c].m_last_key_sync_request_seed = 1]
      /\ SendTo(c, <<Message("key", 1), Message("challenge", 0)>>)
      /\ SV_Client' = SV_Client /\ m_aDelayedPackets' = m_aDelayedPackets /\ job' = job /\ failed' = failed
  BY DEF AttachNewClient, Attached
<1>3. /\ client' \in [Clients -> ClientData] /\ \A d \in Clients : d # c => client'[d] = client[d]
      /\ client'[c].m_last_key_sync_request_seed = 1 /\ client'[c].bConnected = TRUE
      /\ client'[c].ps = client[c].ps /\ client'[c].net_Accepted = client[c].net_Accepted
      /\ client'[c].owner = client[c].owner /\ client'[c].m_secret_key = client[c].m_secret_key
  <2>1. PICK r : r = [client EXCEPT ![c].bConnected = TRUE]
    OBVIOUS
  <2>2. /\ r \in [Clients -> ClientData] /\ \A d \in Clients : d # c => r[d] = client[d]
        /\ r[c] \in ClientData /\ r[c].bConnected = TRUE
        /\ r[c].ps = client[c].ps /\ r[c].net_Accepted = client[c].net_Accepted
        /\ r[c].owner = client[c].owner /\ r[c].m_secret_key = client[c].m_secret_key
    BY <1>1, <2>1 DEF ClientData
  <2>3. client' = [r EXCEPT ![c].m_last_key_sync_request_seed = 1]
    BY <1>1, <1>2, <2>1
  <2>4. 1 \in Seeds
    BY DEF Seeds
  <2> QED
    BY <2>2, <2>3, <2>4 DEF ClientData
<1>4. Message("key", 1) \in FromServer /\ Message("challenge", 0) \in FromServer
  BY DEF Message, FromServer, Seeds
<1>5. <<Message("key", 1), Message("challenge", 0)>> \in Seq(FromServer)
  BY <1>4
<1> QED
  BY <1>2, <1>3, <1>5, Sent

(* The last check is asked for.                                            *)
LEMMA Request ==
  ASSUME TypeOK, NEW c \in Clients, client[c].m_last_key_sync_request_seed = 1, RequestClientDigest(c)
  PROVE  /\ client' \in [Clients -> ClientData] /\ \A d \in Clients : d # c => client'[d] = client[d]
         /\ client'[c].m_last_key_sync_request_seed = 2 /\ client'[c].bConnected = client[c].bConnected
         /\ client'[c].ps = client[c].ps /\ client'[c].net_Accepted = client[c].net_Accepted
         /\ client'[c].owner = client[c].owner
         /\ toClient' \in [Clients -> Seq(FromServer)]
         /\ toClient'[c] = IF link[c] = "open" THEN toClient[c] \o <<Message("key", 2), Message("digest", 0)>> ELSE toClient[c]
         /\ \A d \in Clients : d # c => toClient'[d] = toClient[d]
         /\ SV_Client' = SV_Client /\ m_aDelayedPackets' = m_aDelayedPackets /\ job' = job /\ failed' = failed
<1>1. PICK r : r = PerformSecretKeysSync(c)
  OBVIOUS
<1>2. /\ client' = r /\ SendTo(c, <<Seed(c), Message("digest", 0)>>)
      /\ SV_Client' = SV_Client /\ m_aDelayedPackets' = m_aDelayedPackets /\ job' = job /\ failed' = failed
  BY <1>1 DEF RequestClientDigest
<1>3. /\ r \in [Clients -> ClientData] /\ \A d \in Clients : d # c => r[d] = client[d]
      /\ r[c].m_last_key_sync_request_seed = 2
      /\ r[c].bConnected = client[c].bConnected /\ r[c].ps = client[c].ps
      /\ r[c].net_Accepted = client[c].net_Accepted /\ r[c].owner = client[c].owner
      /\ Seed(c) = Message("key", 2) /\ Seed(c) \in FromServer
  BY <1>1, Synced
<1>4. Message("digest", 0) \in FromServer
  BY DEF Message, FromServer, Seeds
<1>5. <<Message("key", 2), Message("digest", 0)>> \in Seq(FromServer)
  BY <1>3, <1>4
<1> QED
  BY <1>2, <1>3, <1>5, Sent

(* What an event may change, and whose.                                    *)
LEMMA EventEffects ==
  ASSUME IInv, failed = "no", job["main"] = Idle, events # <<>>,
         NEW e, e = Head(events), NEW c \in Clients, c = e.sender, OnEvent(e)
  PROVE  /\ Handles(c, e) /\ m_aDelayedPackets' = m_aDelayedPackets
         /\ e.type \in {"create", "state", "auth"} /\ EventsOf(c) # <<>> /\ Head(EventsOf(c)) = e
         /\ IF e.type = "create" /\ c \in net_players THEN client'[c].bConnected
            ELSE client'[c].bConnected = client[c].bConnected
         /\ c \notin net_players => toClient' = toClient /\ client' = client
<1>1. /\ TypeOK /\ client \in [Clients -> ClientData] /\ toClient \in [Clients -> Seq(FromServer)]
      /\ client[c] \in ClientData /\ SV_Client \in {Host, Nobody} /\ events \in Seq(Received)
  BY DEF IInv, Control, TypeOK
<1>10. e \in Received /\ e = events[1] /\ 1 \in 1..Len(events)
  BY <1>1
<1>3. e.type \in {"create", "state", "auth"}
  BY <1>10 DEF IInv, Control, HostFirst
<1>2. e \in Received /\ e \in Of(c)
  BY <1>3, <1>10 DEF Of
<1>4. EventsOf(c) # <<>> /\ Head(EventsOf(c)) = e
  BY <1>1, <1>2, FilteredTail DEF EventsOf
<1>5. ASSUME toClient' = toClient, client' = client, SV_Client' = SV_Client, job' = job,
             failed' \in {"no", "null", "assert"}, m_aDelayedPackets' = m_aDelayedPackets
      PROVE  Handles(c, e)
  BY <1>1, <1>5 DEF Handles
<1>6. CASE c \notin net_players
  <2>1. /\ toClient' = toClient /\ client' = client /\ SV_Client' = SV_Client /\ job' = job
        /\ failed' \in {"no", "null", "assert"} /\ m_aDelayedPackets' = m_aDelayedPackets
    BY <1>6 DEF OnEvent, Fails
  <2> QED
    BY <1>3, <1>4, <1>5, <1>6, <2>1
<1>7. CASE e.type = "create" /\ c \in net_players
  <2>1. AttachNewClient(c)
    BY <1>7 DEF OnEvent
  <2>2. CASE c = Host
    <3>1. /\ SV_Client' = Host /\ client' = [client EXCEPT ![c].bConnected = TRUE]
          /\ toClient' = toClient /\ m_aDelayedPackets' = m_aDelayedPackets /\ job' = job /\ failed' = failed
      BY <2>1, <2>2 DEF AttachNewClient, Attached
    <3>2. /\ client' \in [Clients -> ClientData] /\ \A d \in Clients : d # c => client'[d] = client[d]
          /\ client'[c].bConnected
      BY <1>1, <3>1 DEF ClientData
    <3> QED
      BY <1>1, <1>3, <1>4, <1>7, <3>1, <3>2 DEF Handles
  <2>3. CASE c # Host
    <3>1. /\ client' \in [Clients -> ClientData] /\ \A d \in Clients : d # c => client'[d] = client[d]
          /\ client'[c].bConnected = TRUE
          /\ toClient' \in [Clients -> Seq(FromServer)]
          /\ \A d \in Clients : d # c => toClient'[d] = toClient[d]
          /\ SV_Client' = SV_Client /\ m_aDelayedPackets' = m_aDelayedPackets /\ job' = job /\ failed' = failed
      BY <1>1, <2>1, <2>3, Attachment
    <3> QED
      BY <1>1, <1>3, <1>4, <1>7, <3>1 DEF Handles
  <2> QED
    BY <2>2, <2>3
<1>8. CASE e.type = "state" /\ c \in net_players
  <2>1. /\ client' = [client EXCEPT ![c].ps = TRUE]
        /\ toClient' = toClient /\ SV_Client' = SV_Client /\ m_aDelayedPackets' = m_aDelayedPackets
        /\ job' = job /\ failed' = failed
    BY <1>8 DEF OnEvent, CreatePlayerState
  <2>2. /\ client' \in [Clients -> ClientData] /\ \A d \in Clients : d # c => client'[d] = client[d]
        /\ client'[c].bConnected = client[c].bConnected
    BY <1>1, <2>1 DEF ClientData
  <2> QED
    BY <1>1, <1>3, <1>4, <1>8, <2>1, <2>2 DEF Handles
<1>9. CASE e.type = "auth" /\ c \in net_players
  <2>1. RequestClientDigest(c) \/ (c \in BadLogin /\ Turned(c))
    BY <1>9 DEF OnEvent
  <2>2. CASE c \in BadLogin /\ Turned(c)
    <3>1. /\ c \in Remote /\ Disconnect("main", c) /\ "main" \in Threads
          /\ toClient' = toClient /\ client' = client /\ SV_Client' = SV_Client /\ m_aDelayedPackets' = m_aDelayedPackets
      BY <2>2, ClientsAssumption DEF Turned, Threads
    <3> QED
      BY <1>1, <1>3, <1>4, <1>9, <2>2, <3>1 DEF Handles, Turned
  <2>3. CASE RequestClientDigest(c)
    <3>1. PICK b \in 0..5 : Batch(c, b)
      BY <1>9 DEF IInv, PerClient, Joining
    <3>2. e.type \in Events(b)
      <4>1. Made(EventsOf(c), Events(b), {}, b) /\ EventsOf(c) \in Seq(Received)
        BY <1>1, <3>1, Projections DEF Batch, Line, Pipe
      <4>2. \A types, keyed, n : Made(EventsOf(c), types, keyed, n) => Head(EventsOf(c)).type \in types
        BY <1>4, <4>1, HeadAndTail
      <4> QED
        BY <1>4, <4>1, <4>2
    <3>3. b = 1
      BY <1>9, <3>2 DEF Events
    <3>4. client[c].m_last_key_sync_request_seed = 1
      BY <3>1, <3>3 DEF Batch, Known
    <3>5. /\ client' \in [Clients -> ClientData] /\ \A d \in Clients : d # c => client'[d] = client[d]
          /\ client'[c].bConnected = client[c].bConnected
          /\ toClient' \in [Clients -> Seq(FromServer)]
          /\ \A d \in Clients : d # c => toClient'[d] = toClient[d]
          /\ SV_Client' = SV_Client /\ m_aDelayedPackets' = m_aDelayedPackets /\ job' = job /\ failed' = failed
      BY <1>1, <2>3, <3>4, Request
    <3> QED
      BY <1>1, <1>3, <1>4, <1>9, <3>5 DEF Handles
  <2> QED
    BY <2>1, <2>2, <2>3
<1> QED
  BY <1>3, <1>6, <1>7, <1>8, <1>9

(* An event e of c is handled: the others' affairs stay as they are.       *)
LEMMA EventHandled ==
  ASSUME IInv, ProcessDelayedEvent, events # <<>>,
         NEW e, e = Head(events), NEW c \in Clients, c = e.sender
  PROVE  /\ Control' /\ Handles(c, e) /\ OnEvent(e) /\ failed = "no" /\ job["main"] = Idle
         /\ link' = link /\ toServer' = toServer /\ secret' = secret /\ net_players' = net_players
         /\ farewells' = farewells /\ JoinsOf(c)' = JoinsOf(c) /\ dropped' = dropped
         /\ EventsOf(c) # <<>> /\ Head(EventsOf(c)) = e /\ EventsOf(c)' = Tail(EventsOf(c))
         /\ MessagesOf(c)' = MessagesOf(c) /\ PacketsOf(c)' = PacketsOf(c)
         /\ e.type \in {"create", "state", "auth"}
         /\ \A d \in Clients \ {c} : PerClient(d)'
<1>1. /\ failed = "no" /\ job["main"] = Idle /\ phase = "events" /\ phase' = "events" /\ Control /\ TypeOK
      /\ OnEvent(e) /\ events' = Tail(events)
      /\ UNCHANGED <<link, toServer, secret, playing, slots, net_players, m_messagesQueue, farewells>>
      /\ handling' = handling /\ dropped' = dropped
      /\ events \in Seq(Received) /\ m_aDelayedPackets \in Seq(Received)
  BY DEF ProcessDelayedEvent, Main, IInv, Control, TypeOK
<1>2. /\ Handles(c, e) /\ m_aDelayedPackets' = m_aDelayedPackets
      /\ e.type \in {"create", "state", "auth"} /\ EventsOf(c) # <<>> /\ Head(EventsOf(c)) = e
      /\ IF e.type = "create" /\ c \in net_players THEN client'[c].bConnected
         ELSE client'[c].bConnected = client[c].bConnected
      /\ c \notin net_players => toClient' = toClient /\ client' = client
  BY <1>1, EventEffects
<1>3. /\ e \in Received /\ \A d \in Clients : e \in Of(d) <=> d = c
  <2>1. e \in Received
    BY <1>1
  <2> QED
    BY <1>2, <2>1 DEF Of
<1>4. \A d \in Clients : EventsOf(d)' = IF d = c THEN Tail(EventsOf(d)) ELSE EventsOf(d)
  <2> SUFFICES ASSUME NEW d \in Clients
               PROVE  EventsOf(d)' = IF d = c THEN Tail(EventsOf(d)) ELSE EventsOf(d)
    OBVIOUS
  <2>1. /\ Head(events) \in Of(d) => Filtered(Tail(events), Of(d)) = Tail(Filtered(events, Of(d)))
        /\ Head(events) \notin Of(d) => Filtered(Tail(events), Of(d)) = Filtered(events, Of(d))
    BY <1>1, FilteredTail
  <2> QED
    BY <1>1, <1>3, <2>1 DEF EventsOf, Of
<1>5. \A d \in Clients : MessagesOf(d)' = MessagesOf(d) /\ PacketsOf(d)' = PacketsOf(d)
  BY <1>1, <1>2 DEF MessagesOf, PacketsOf, Waiting, FirstHandled, Of
<1>6. job' = job \/ \E x \in Remote \cap net_players : Disconnect("main", x)
  BY <1>2 DEF Handles
<1>7. Slots' /\ JobsSound' /\ Sound' /\ job' \in [Threads -> Jobs]
  <2>1. Handing
    BY <1>1 DEF Control, Sound
  <2>2. Handing'
    BY <1>1, <1>2, <2>1 DEF Handing
  <2> QED
    BY <1>1, <1>6, <2>2, MainControl DEF Sound
<1>8. TypeOK'
  <2>1. events' \in Seq(Received)
    BY <1>1
  <2> QED
    BY <1>1, <1>2, <1>7, <2>1 DEF TypeOK, Handles, slots
<1>9. HostFirst'
  <2> DEFINE N == Len(events)
             r == Tail(events)
  <2>1. /\ N \in Nat /\ N >= 1 /\ e = events[1] /\ Len(r) = N - 1 /\ \A i \in 1..(N - 1) : r[i] = events[i + 1]
        /\ \A i \in 1..(N - 1) : i + 1 \in 1..N /\ 1 \in 1..N
    BY <1>1
  <2>2. \A i \in 1..N : i = 1 \/ (i - 1 \in 1..(N - 1) /\ r[i - 1] = events[i])
    BY <2>1
  <2> HIDE DEF N, r
  <2>3. HostFirst /\ events' = r /\ Len(events) = N
    BY <1>1 DEF Control, r, N
  <2>4. link' = link /\ net_players' = net_players /\ m_pending_clients' = m_pending_clients
        /\ m_bServerClientConnected' = m_bServerClientConnected
    BY <1>1 DEF slots
  <2>5. IF Creates(e) /\ Host \in net_players THEN client'[Host].bConnected
        ELSE client'[Host].bConnected = client[Host].bConnected
    <3>1. CASE c = Host
      BY <1>2, <3>1 DEF Creates
    <3>2. CASE c # Host
      BY <1>2, <3>2, JobTypes DEF Creates, Handles
    <3> QED
      BY <3>1, <3>2
  <2>6. client[Host].bConnected \in BOOLEAN /\ client'[Host].bConnected \in BOOLEAN
    BY <1>1, <1>8, JobTypes DEF TypeOK, ClientData
  <2>7. client[Host].bConnected => client'[Host].bConnected
    BY <2>5, <2>6
  <2>8. client'[Host].bConnected => Host \in net_players
    BY <2>3, <2>5, <2>6 DEF HostFirst
  <2>9. \A i \in 1..(N - 1) : r[i].type \in {"create", "state", "auth"}
    BY <2>1, <2>3 DEF HostFirst
  <2>10. Host \in net_players => client'[Host].bConnected \/ \E j \in 1..(N - 1) : Creates(r[j])
    <3>1. SUFFICES ASSUME Host \in net_players, ~client'[Host].bConnected
                   PROVE  \E j \in 1..(N - 1) : Creates(r[j])
      OBVIOUS
    <3>2. PICK j \in 1..N : Creates(events[j])
      BY <2>3, <2>7, <3>1 DEF HostFirst
    <3>3. j # 1
      BY <2>1, <2>5, <3>1, <3>2
    <3> QED
      BY <2>2, <3>2, <3>3
  <2>11. ASSUME NEW i \in 1..(N - 1), r[i].type = "create"
         PROVE  /\ Host \in net_players
                /\ Creates(r[i]) \/ client'[Host].bConnected \/ \E j \in 1..(N - 1) : j < i /\ Creates(r[j])
    <3>1. /\ Host \in net_players /\ r[i] = events[i + 1] /\ i + 1 \in 1..N
          /\ \/ Creates(r[i]) \/ client[Host].bConnected
             \/ \E j \in 1..N : j < i + 1 /\ Creates(events[j])
      BY <2>1, <2>3, <2>11 DEF HostFirst
    <3>2. CASE \E j \in 1..N : j < i + 1 /\ Creates(events[j])
      <4>1. PICK j \in 1..N : j < i + 1 /\ Creates(events[j])
        BY <3>2
      <4>2. CASE j = 1
        BY <2>1, <2>5, <3>1, <4>1, <4>2
      <4>3. CASE j # 1
        <5>1. j - 1 \in 1..(N - 1) /\ Creates(r[j - 1])
          BY <2>2, <4>1, <4>3
        <5>2. j - 1 < i
          BY <2>1, <4>1
        <5> QED
          BY <3>1, <5>1, <5>2
      <4> QED
        BY <4>2, <4>3
    <3> QED
      BY <2>7, <3>1, <3>2
  <2> QED
    BY <2>1, <2>3, <2>4, <2>8, <2>9, <2>10, <2>11 DEF HostFirst, Creates
<1>10. ASSUME NEW d \in Clients \ {c} PROVE PerClient(d)'
  <2>1. (Parting(d)' <=> Parting(d)) /\ (Closing(d) => Closing(d)')
    <3>1. CASE job' = job
      BY <3>1, JobsKept
    <3>2. CASE c \in Remote /\ Disconnect("main", c)
      BY <1>1, <3>2, Handed DEF Threads
    <3> QED
      BY <1>2, <3>1, <3>2 DEF Handles
  <2>2. toClient'[d] = toClient[d] /\ client'[d] = client[d]
    BY <1>2, <1>10 DEF Handles
  <2>3. Same(d)
    BY <1>1, <1>2, <1>4, <1>5, <1>10, <2>1, <2>2 DEF Same, slots, Of
  <2> QED
    BY <1>1, <1>10, <2>3, Frame DEF IInv
<1>11. JoinsOf(c)' = JoinsOf(c)
  BY <1>1 DEF JoinsOf
<1>12. Control'
  BY <1>7, <1>8, <1>9 DEF Control
<1> QED
  BY <1>1, <1>2, <1>4, <1>5, <1>10, <1>11, <1>12

(* The event of a registered client is handled.                            *)
LEMMA FirstEvent ==
  ASSUME TypeOK, failed = "no", NEW c \in Clients, NEW b \in 0..5, Batch(c, b), EventsOf(c) # <<>>
  PROVE  /\ EventsOf(c) \in Seq(Received) /\ PacketsOf(c) = <<>> /\ b \in 0..1
         /\ b = 0 <=> Head(EventsOf(c)).type = "create"
         /\ b = 1 <=> Head(EventsOf(c)).type \in {"state", "auth"}
         /\ Pipe(Tail(EventsOf(c)), MessagesOf(c), JoinsOf(c), toClient[c], b)
         /\ \A types : Some(EventsOf(c), types) <=> Head(EventsOf(c)).type \in types \/ Some(Tail(EventsOf(c)), types)
         /\ Head(EventsOf(c)).type \in {"create", "auth"} =>
              Tail(EventsOf(c)) = <<>> /\ MessagesOf(c) = <<>> /\ JoinsOf(c) = <<>> /\ toClient[c] = <<>>
<1>1. /\ EventsOf(c) \in Seq(Received) /\ MessagesOf(c) \in Seq(Received)
      /\ JoinsOf(c) \in Seq(FromClient) /\ toClient[c] \in Seq(FromServer)
  BY Projections
<1>2. Pipe(EventsOf(c), MessagesOf(c), JoinsOf(c), toClient[c], b)
  BY DEF Batch, Line
<1>3. /\ \A types, keyed, n : Made(EventsOf(c), types, keyed, n) => Head(EventsOf(c)).type \in types
      /\ \A types : Some(EventsOf(c), types) <=> Head(EventsOf(c)).type \in types \/ Some(Tail(EventsOf(c)), types)
  BY <1>1, HeadAndTail
<1>4. Head(EventsOf(c)).type \in Events(b)
  BY <1>2, <1>3 DEF Pipe
<1>5. /\ b \in 0..1 /\ (b = 0 <=> Head(EventsOf(c)).type = "create")
      /\ b = 1 <=> Head(EventsOf(c)).type \in {"state", "auth"}
  BY <1>4 DEF Events
<1>6. PacketsOf(c) = <<>>
  BY <1>5 DEF Batch, Line
<1>7. Pipe(Tail(EventsOf(c)), MessagesOf(c), JoinsOf(c), toClient[c], b)
  BY <1>1, <1>2, PipeEvent
<1>8. ASSUME Head(EventsOf(c)).type \in {"create", "auth"}
      PROVE  Tail(EventsOf(c)) = <<>> /\ MessagesOf(c) = <<>> /\ JoinsOf(c) = <<>> /\ toClient[c] = <<>>
  <2>1. Place(Head(EventsOf(c))) = 3
    BY <1>8 DEF Place
  <2> QED
    BY <1>1, <1>2, <2>1, LastEvent
<1> QED
  BY <1>1, <1>3, <1>5, <1>6, <1>7, <1>8

(* AttachNewClient: the client is challenged.                              *)
LEMMA CreateStep ==
  ASSUME IInv, ProcessDelayedEvent, events # <<>>,
         NEW e, e = Head(events), NEW c \in net_players, c = e.sender, e.type = "create",
         NEW b \in 0..5, Batch(c, b)
  PROVE  Joining(c)' /\ client'[c].owner = client[c].owner /\ client'[c].ps = client[c].ps
<1>1. TypeOK /\ c \in Clients /\ client \in [Clients -> ClientData] /\ client[c] \in ClientData
  BY DEF IInv, Control, TypeOK
<1>2. /\ OnEvent(e) /\ failed = "no" /\ link' = link /\ JoinsOf(c)' = JoinsOf(c) /\ secret' = secret /\ dropped' = dropped
      /\ EventsOf(c) # <<>> /\ Head(EventsOf(c)) = e /\ EventsOf(c)' = Tail(EventsOf(c))
      /\ MessagesOf(c)' = MessagesOf(c) /\ PacketsOf(c)' = PacketsOf(c)
  BY <1>1, EventHandled
<1>3. /\ b = 0 /\ PacketsOf(c) = <<>> /\ Tail(EventsOf(c)) = <<>> /\ MessagesOf(c) = <<>>
      /\ JoinsOf(c) = <<>> /\ toClient[c] = <<>>
  BY <1>1, <1>2, FirstEvent
<1>4. AttachNewClient(c)
  BY <1>2 DEF OnEvent
<1>5. Known(c, 0)
  BY <1>3 DEF Batch
<1>6. CASE c = Host
  <2>1. client' = [client EXCEPT ![c].bConnected = TRUE] /\ toClient' = toClient
    BY <1>4, <1>6 DEF AttachNewClient, Attached
  <2>2. /\ client'[c].m_last_key_sync_request_seed = client[c].m_last_key_sync_request_seed
        /\ client'[c].ps = client[c].ps /\ client'[c].net_Accepted = client[c].net_Accepted
        /\ client'[c].owner = client[c].owner
    BY <1>1, <2>1 DEF ClientData
  <2>3. Known(c, 0)'
    BY <1>5, <1>6, <2>2 DEF Known
  <2>4. Batch(c, 0)'
    BY <1>1, <1>2, <1>3, <1>6, <2>1, <2>3, BatchEnds
  <2> QED
    BY <2>2, <2>4 DEF Joining
<1>7. CASE c # Host
  <2>1. /\ client'[c].m_last_key_sync_request_seed = 1 /\ client'[c].bConnected = TRUE
        /\ client'[c].ps = client[c].ps /\ client'[c].net_Accepted = client[c].net_Accepted
        /\ client'[c].owner = client[c].owner
        /\ toClient'[c] = IF link[c] = "open" THEN toClient[c] \o <<Message("key", 1), Message("challenge", 0)>> ELSE toClient[c]
    BY <1>1, <1>4, <1>7, Attachment
  <2>2. toClient'[c] = IF link[c] = "open" THEN <<Message("key", 1), Message("challenge", 0)>> ELSE <<>>
    <3>1. Message("key", 1) \in FromServer /\ Message("challenge", 0) \in FromServer
      BY DEF Message, FromServer, Seeds
    <3>2. <<Message("key", 1), Message("challenge", 0)>> \in Seq(FromServer)
      BY <3>1
    <3>3. \A s \in Seq(FromServer) : <<>> \o s = s
      OBVIOUS
    <3> QED
      BY <1>3, <2>1, <3>2, <3>3
  <2>3. Known(c, 1)'
    <3>1. ~client[c].owner
      BY <1>3 DEF Batch, Known
    <3>2. client[c].net_Accepted = (b = 5)
      BY DEF Batch, Known
    <3>3. ~client'[c].owner /\ client'[c].net_Accepted = (b = 5)
      BY <2>1, <3>1, <3>2
    <3>4. 1 < 3 /\ ~(1 >= 2) /\ 1 >= 1 /\ 1 # 0 /\ 1 # 5
      OBVIOUS
    <3>5. client'[c].net_Accepted = (1 = 5)
      BY <1>3, <3>3, <3>4
    <3> QED
      BY <1>7, <2>1, <3>3, <3>4, <3>5 DEF Known
  <2>4. EventsOf(c)' = <<>> /\ MessagesOf(c)' = <<>> /\ PacketsOf(c)' = <<>> /\ JoinsOf(c)' = <<>> /\ link'[c] = link[c]
    BY <1>2, <1>3
  <2>5. Batch(c, 1)'
    BY <1>1, <2>2, <2>3, <2>4, NextBatch
  <2> QED
    BY <2>1, <2>5 DEF Joining
<1> QED
  BY <1>6, <1>7

(* The player state is created.                                            *)
LEMMA StateStep ==
  ASSUME IInv, ProcessDelayedEvent, events # <<>>,
         NEW e, e = Head(events), NEW c \in net_players, c = e.sender, e.type = "state",
         NEW b \in 0..5, Batch(c, b)
  PROVE  Joining(c)' /\ client'[c].owner = client[c].owner /\ client'[c].ps
<1>1. TypeOK /\ c \in Clients /\ client \in [Clients -> ClientData] /\ client[c] \in ClientData
  BY DEF IInv, Control, TypeOK
<1>2. /\ OnEvent(e) /\ failed = "no" /\ link' = link /\ JoinsOf(c)' = JoinsOf(c) /\ secret' = secret /\ dropped' = dropped
      /\ EventsOf(c) # <<>> /\ Head(EventsOf(c)) = e /\ EventsOf(c)' = Tail(EventsOf(c))
      /\ MessagesOf(c)' = MessagesOf(c) /\ PacketsOf(c)' = PacketsOf(c)
  BY <1>1, EventHandled
<1>3. /\ b = 1 /\ PacketsOf(c) = <<>>
      /\ Pipe(Tail(EventsOf(c)), MessagesOf(c), JoinsOf(c), toClient[c], b)
      /\ \A types : Some(EventsOf(c), types) <=> e.type \in types \/ Some(Tail(EventsOf(c)), types)
  BY <1>1, <1>2, FirstEvent
<1>4. /\ client' = [client EXCEPT ![c].ps = TRUE] /\ toClient' = toClient /\ job' = job /\ failed' = failed
  BY <1>2 DEF OnEvent, CreatePlayerState
<1>5. /\ client'[c].m_last_key_sync_request_seed = client[c].m_last_key_sync_request_seed
      /\ client'[c].ps /\ client'[c].net_Accepted = client[c].net_Accepted
      /\ client'[c].owner = client[c].owner /\ client'[c].bConnected = client[c].bConnected
      /\ client'[c].m_secret_key = client[c].m_secret_key
  BY <1>1, <1>4 DEF ClientData
<1>6. Line(c, b)'
  BY <1>2, <1>3, <1>4 DEF Line
<1>7. Known(c, b)'
  BY <1>2, <1>3, <1>5 DEF Batch, Known
<1>8. Keys(c, b)'
  <2>1. Silent(c)' <=> Silent(c)
    BY <1>2, <1>4 DEF Silent
  <2> QED
    BY <1>2, <1>4, <1>5, <2>1 DEF Batch, Keys
<1>9. StateFirst(c, b)'
  BY <1>5 DEF StateFirst
<1>10. Alive(c, b)'
  <2>1. Closing(c)' <=> Closing(c)
    BY <1>4, JobsKept
  <2> QED
    BY <1>2, <1>3, <1>4, <1>5, <2>1 DEF Batch, Alive
<1>11. Batch(c, b)'
  BY <1>6, <1>7, <1>8, <1>9, <1>10 DEF Batch
<1> QED
  BY <1>5, <1>11 DEF Joining

(* The version check: the digest is asked for, or the client is turned     *)
(* away.                                                                   *)
LEMMA AuthStep ==
  ASSUME IInv, ProcessDelayedEvent, events # <<>>,
         NEW e, e = Head(events), NEW c \in net_players, c = e.sender, e.type = "auth",
         NEW b \in 0..5, Batch(c, b)
  PROVE  Joining(c)' /\ client'[c].owner = client[c].owner /\ client'[c].ps = client[c].ps
<1>1. TypeOK /\ c \in Clients /\ client \in [Clients -> ClientData] /\ client[c] \in ClientData
  BY DEF IInv, Control, TypeOK
<1>2. /\ OnEvent(e) /\ failed = "no" /\ job["main"] = Idle /\ link' = link /\ JoinsOf(c)' = JoinsOf(c) /\ secret' = secret /\ dropped' = dropped
      /\ EventsOf(c) # <<>> /\ Head(EventsOf(c)) = e /\ EventsOf(c)' = Tail(EventsOf(c))
      /\ MessagesOf(c)' = MessagesOf(c) /\ PacketsOf(c)' = PacketsOf(c)
  BY <1>1, EventHandled
<1>3. /\ b = 1 /\ PacketsOf(c) = <<>> /\ Tail(EventsOf(c)) = <<>> /\ MessagesOf(c) = <<>>
      /\ JoinsOf(c) = <<>> /\ toClient[c] = <<>>
      /\ \A types : Some(EventsOf(c), types) <=> e.type \in types \/ Some(Tail(EventsOf(c)), types)
  BY <1>1, <1>2, FirstEvent
<1>4. Known(c, 1) /\ client[c].ps
  <2>1. \A types : ~Some(<<>>, types)
    BY DEF Some
  <2>2. Some(EventsOf(c), {"auth"}) /\ ~Some(EventsOf(c), {"state"})
    BY <1>3, <2>1
  <2> QED
    BY <1>3, <2>1, <2>2 DEF Batch, StateFirst
<1>5. /\ EventsOf(c)' = <<>> /\ MessagesOf(c)' = <<>> /\ PacketsOf(c)' = <<>> /\ JoinsOf(c)' = <<>>
      /\ link'[c] = link[c] /\ secret'[c] = secret[c]
  BY <1>2, <1>3
<1>6. CASE c \in BadLogin /\ Turned(c)
  <2>1. Disconnect("main", c) /\ toClient' = toClient /\ client' = client
    BY <1>6 DEF Turned
  <2>2. Closing(c)'
    BY <1>1, <1>2, <1>6, <2>1, ClientsAssumption, Handed DEF Closing, Threads
  <2>3. Known(c, b)' /\ toClient'[c] = <<>>
    BY <1>2, <1>3, <2>1 DEF Batch, Known
  <2>4. Batch(c, b)'
    BY <1>1, <1>5, <2>2, <2>3, BatchEnds
  <2> QED
    BY <2>1, <2>4 DEF Joining
<1>7. CASE RequestClientDigest(c)
  <2>1. client[c].m_last_key_sync_request_seed = 1
    BY <1>4 DEF Known
  <2>2. /\ client'[c].m_last_key_sync_request_seed = 2 /\ client'[c].bConnected = client[c].bConnected
        /\ client'[c].ps = client[c].ps /\ client'[c].net_Accepted = client[c].net_Accepted
        /\ client'[c].owner = client[c].owner
        /\ toClient'[c] = IF link[c] = "open" THEN toClient[c] \o <<Message("key", 2), Message("digest", 0)>> ELSE toClient[c]
    BY <1>1, <1>7, <2>1, Request
  <2>3. toClient'[c] = IF link[c] = "open" THEN <<Message("key", 2), Message("digest", 0)>> ELSE <<>>
    <3>1. Message("key", 2) \in FromServer /\ Message("digest", 0) \in FromServer
      BY DEF Message, FromServer, Seeds
    <3>2. <<Message("key", 2), Message("digest", 0)>> \in Seq(FromServer)
      BY <3>1
    <3>3. \A s \in Seq(FromServer) : <<>> \o s = s
      OBVIOUS
    <3> QED
      BY <1>3, <2>2, <3>2, <3>3
  <2>4. Known(c, 2)'
    BY <1>2, <1>4, <2>2 DEF Known
  <2>5. Batch(c, 2)'
    BY <1>1, <1>5, <2>3, <2>4, NextBatch
  <2> QED
    BY <2>2, <2>5 DEF Joining
<1> QED
  BY <1>2, <1>6, <1>7 DEF OnEvent

(* An event that is handled, whoever it names.                             *)
LEMMA EventStep ==
  ASSUME IInv, ProcessDelayedEvent, events # <<>>
  PROVE  IInv'
<1>1. TypeOK /\ events \in Seq(Received)
  BY DEF IInv, Control, TypeOK
<1>2. PICK e \in Received : e = Head(events)
  BY <1>1
<1>3. PICK c \in Clients : c = e.sender
  BY <1>2 DEF Received
<1>4. /\ Control' /\ Handles(c, e) /\ OnEvent(e) /\ failed = "no" /\ job["main"] = Idle
      /\ link' = link /\ toServer' = toServer /\ net_players' = net_players /\ farewells' = farewells
      /\ EventsOf(c) # <<>> /\ Head(EventsOf(c)) = e /\ MessagesOf(c)' = MessagesOf(c)
      /\ e.type \in {"create", "state", "auth"}
      /\ \A d \in Clients \ {c} : PerClient(d)'
  BY <1>2, <1>3, EventHandled
<1>5. PerClient(c) /\ farewells[c] \in Nat
  BY DEF IInv, Control, TypeOK
<1>6. CASE c \notin net_players
  <2>1. link[c] = "closed"
    BY <1>4, <1>5, <1>6 DEF PerClient, Coming
  <2>2. toClient' = toClient /\ client' = client
    BY <1>2, <1>3, <1>4, <1>6, EventEffects DEF ProcessDelayedEvent
  <2>3. PerClient(c)'
    BY <1>4, <1>5, <1>6, <2>1, <2>2, GoneKept
  <2> QED
    BY <1>4, <2>3 DEF IInv
<1>7. CASE c \in net_players
  <2>1. PICK b \in 0..5 : Batch(c, b)
    BY <1>5, <1>7 DEF PerClient, Joining
  <2>2. /\ Joining(c)' /\ (client[c].ps => client'[c].ps)
        /\ client'[c].owner = client[c].owner
    <3>1. CASE e.type = "create"
      BY <1>2, <1>3, <1>7, <2>1, <3>1, CreateStep
    <3>2. CASE e.type = "state"
      BY <1>2, <1>3, <1>7, <2>1, <3>2, StateStep
    <3>3. CASE e.type = "auth"
      BY <1>2, <1>3, <1>7, <2>1, <3>3, AuthStep
    <3> QED
      BY <1>4, <3>1, <3>2, <3>3
  <2>3. Parting(c)' <=> Parting(c)
    <3>1. CASE job' = job
      BY <3>1, JobsKept
    <3>2. CASE c \in Remote /\ Disconnect("main", c)
      BY <1>1, <1>4, <3>2, Handed DEF Threads
    <3> QED
      BY <1>4, <3>1, <3>2 DEF Handles
  <2>4. Farewell(c)'
    <3>1. Farewell(c) /\ (Some(MessagesOf(c), {"ready"})' => Some(MessagesOf(c), {"ready"}))
      BY <1>4, <1>5 DEF PerClient
    <3> QED
      BY <1>4, <1>5, <1>7, <2>2, <2>3, <3>1, FarewellKept
  <2>5. link[c] = "closed" => toClient'[c] = <<>> /\ toServer'[c] = <<>>
    <3>1. SUFFICES ASSUME link[c] = "closed" PROVE toClient'[c] = toClient[c]
      BY <1>4, <1>5 DEF PerClient
    <3>2. toClient' = toClient
      BY <1>3, <1>4, <3>1 DEF OnEvent, Fails, AttachNewClient, Attached, CreatePlayerState, RequestClientDigest,
            Turned, SendTo
    <3> QED
      BY <3>2
  <2>6. PerClient(c)'
    BY <1>4, <1>7, <2>2, <2>4, <2>5 DEF PerClient
  <2> QED
    BY <1>4, <2>6 DEF IInv
<1> QED
  BY <1>6, <1>7

(* Each part of the main thread's frame keeps the invariant.               *)
LEMMA MainStep ==
  ASSUME IInv, MainThread
  PROVE  IInv'
<1>1. CASE ProcessMessagesQueue
  <2>1. CASE m_messagesQueue = <<>>
    BY <1>1, <2>1, PhaseStep DEF ProcessMessagesQueue, Main, peers, registry, queues
  <2> QED
    BY <1>1, <2>1, MessageStep
<1>2. CASE ProceedDelayedPackets
  BY <1>2, ProceedDelayedPacketsStep
<1>3. CASE ProcessDelayedEvent
  <2>1. CASE events = <<>>
    BY <1>3, <2>1, PhaseStep DEF ProcessDelayedEvent, Main, peers, registry, queues
  <2> QED
    BY <1>3, <2>1, EventStep
<1>4. CASE NextFrame
  BY <1>4, PhaseStep DEF NextFrame, Main
<1>5. CASE DisconnectClient("main")
  BY <1>5, DisconnectStep DEF Threads
<1> QED
  BY <1>1, <1>2, <1>3, <1>4, <1>5 DEF MainThread

(* The main thread begins to disconnect a client.                          *)
LEMMA KickStep ==
  ASSUME IInv, NEW c \in Clients, Kick(c) \/ Execute(c)
  PROVE  IInv'
<1>1. /\ failed = "no" /\ job["main"] = Idle /\ Control /\ TypeOK
      /\ c \in Remote /\ c \in net_players /\ Disconnect("main", c)
      /\ link' = link /\ toServer' = toServer /\ toClient' = toClient /\ secret' = secret /\ playing' = playing
      /\ net_players' = net_players /\ client' = client /\ SV_Client' = SV_Client /\ UNCHANGED slots
      /\ m_messagesQueue' = m_messagesQueue /\ m_aDelayedPackets' = m_aDelayedPackets /\ events' = events
      /\ farewells' = farewells /\ failed' = failed
      /\ phase' = phase /\ handling' = handling /\ dropped' = dropped
  BY ClientsAssumption DEF Kick, Execute, Main, IInv, Control, peers, registry, queues, frame
<1>2. /\ job' \in [Threads -> Jobs]
      /\ \A d : (Parting(d)' <=> Parting(d)) /\ (Closing(d) => Closing(d)')
  BY <1>1, Handed DEF Threads
<1>3. TypeOK'
  BY <1>1, <1>2 DEF TypeOK, slots
<1>4. Control'
  <2>1. job' = job \/ \E x \in Remote \cap net_players : Disconnect("main", x)
    BY <1>1
  <2>2. Handing'
    BY <1>1, HandingKept DEF Control, Sound
  <2> QED
    BY <1>1, <1>3, <2>1, <2>2, ControlOnly
<1>5. ASSUME NEW d \in Clients PROVE PerClient(d)'
  <2>1. /\ EventsOf(d)' = EventsOf(d) /\ MessagesOf(d)' = MessagesOf(d) /\ PacketsOf(d)' = PacketsOf(d)
        /\ Filtered(m_aDelayedPackets', Of(d)) = Filtered(m_aDelayedPackets, Of(d))
    BY <1>1, QueuesKept DEF queues
  <2>2. Same(d)
    BY <1>1, <1>2, <2>1 DEF Same, slots
  <2> QED
    BY <1>1, <2>2, Frame DEF IInv
<1> QED
  BY <1>4, <1>5 DEF IInv

(* At first nobody has come.                                               *)
LEMMA InitIInv == Init => IInv
<1> SUFFICES ASSUME Init PROVE IInv
  OBVIOUS
<1>1. \A X : <<>> \in Seq(X)
  BY EmptySeq
<1>2. TypeOK
  <2>1. NewClient \in ClientData
    BY DEF NewClient, ClientData, Seeds
  <2>2. Idle \in Jobs /\ Idle.step = "idle"
    BY JobTypes
  <2>3. m_players = <<>> /\ m_max_players \in MaxPlayers /\ m_max_players \in Nat \ {0}
    BY ClientsAssumption DEF Init
  <2>4. Len(m_players) <= m_max_players
    BY <2>3
  <2> QED
    <3>1. /\ link \in [Clients -> Links] /\ secret \in [Clients -> Seeds] /\ playing \subseteq Clients
          /\ farewells \in [Clients -> Nat] /\ net_players \subseteq Clients
      BY DEF Init, Links, Seeds
    <3>2. /\ toServer \in [Clients -> Seq(FromClient)] /\ toClient \in [Clients -> Seq(FromServer)]
          /\ client \in [Clients -> ClientData] /\ job \in [Threads -> Jobs]
      BY <1>1, <2>1, <2>2 DEF Init
    <3>3. /\ m_players \in Seq(Clients) /\ m_pending_clients \in Seq(Clients)
          /\ m_messagesQueue \in Seq(Received) /\ m_aDelayedPackets \in Seq(Received) /\ events \in Seq(Received)
      BY <1>1 DEF Init
    <3>4. /\ m_bServerClientConnected \in BOOLEAN /\ SV_Client \in {Host, Nobody}
          /\ phase \in {"messages", "packets", "command", "pop", "events", "rest"}
          /\ handling \in Clients \cup {Nobody} /\ dropped \subseteq Clients
          /\ failed \in {"no", "null", "assert", "range", "race"}
      BY DEF Init
    <3> QED
      BY <2>3, <2>4, <3>1, <3>2, <3>3, <3>4 DEF TypeOK
<1>3. /\ \A t \in Threads : job[t] = Idle /\ job[t].step = "idle" /\ job[t].of = Host
      /\ \A c \in Clients : link[c] = "none" /\ client[c] = NewClient /\ secret[c] = 0
                            /\ toClient[c] = <<>> /\ toServer[c] = <<>> /\ farewells[c] = 0
      /\ m_players = <<>> /\ m_pending_clients = <<>> /\ net_players = {} /\ m_bServerClientConnected = FALSE
      /\ m_messagesQueue = <<>> /\ m_aDelayedPackets = <<>> /\ events = <<>> /\ phase = "messages"
      /\ handling = Nobody /\ dropped = {} /\ playing = {}
  BY JobTypes DEF Init
<1>4. Distinct(<<>>) /\ ToSet(<<>>) = {}
  BY DEF Distinct, ToSet
<1>5. Seated = {}
  BY <1>3 DEF Seated
<1>6. Sound
  BY <1>3 DEF Sound, Found, Handing
<1>7. Slots
  BY <1>3, <1>4, <1>5 DEF Slots
<1>8. JobsSound
  BY <1>3 DEF JobsSound, JobSound
<1>9. HostFirst
  <2>1. ~client[Host].bConnected
    BY <1>3, JobTypes DEF NewClient
  <2>2. link[Host] = "none"
    BY <1>3, JobTypes
  <2>3. Len(events) = 0 /\ \A k \in 1..Len(events) : FALSE
    BY <1>3
  <2>4. Host \notin net_players /\ m_bServerClientConnected = (Host \in net_players)
    <3>1. Host \notin net_players
      BY <1>3
    <3>2. m_bServerClientConnected = FALSE
      BY <1>3
    <3>3. (Host \in net_players) = FALSE
      BY <3>1
    <3> QED
      BY <3>1, <3>2, <3>3
  <2> QED
    BY <2>1, <2>2, <2>3, <2>4 DEF HostFirst
<1>10. ASSUME NEW c \in Clients PROVE PerClient(c)
  <2>1. \A T : Filtered(<<>>, T) = <<>>
    BY FilteredOne
  <2>2. EventsOf(c) = <<>> /\ MessagesOf(c) = <<>> /\ Filtered(m_aDelayedPackets, Of(c)) = <<>>
    BY <1>3, <2>1 DEF EventsOf, MessagesOf
  <2>4. Coming(c)
    <3>1. client[c] = NewClient /\ secret[c] = 0 /\ c \notin playing \cup dropped
      BY <1>3
    <3>2. toClient[c] = <<>> /\ toServer[c] = <<>> /\ c \notin Seated
      BY <1>3, <1>5
    <3> QED
      BY <2>2, <3>1, <3>2 DEF Coming
  <2>3. Farewell(c)
    BY <1>3 DEF Farewell
  <2> QED
    BY <1>3, <2>3, <2>4 DEF PerClient
<1> QED
  BY <1>2, <1>6, <1>7, <1>8, <1>9, <1>10 DEF IInv, Control

(* Nothing is changed by a step of nobody.                                 *)
LEMMA StutterStep ==
  ASSUME IInv, UNCHANGED vars
  PROVE  IInv'
<1>1. /\ link' = link /\ toServer' = toServer /\ toClient' = toClient /\ secret' = secret /\ playing' = playing
      /\ net_players' = net_players /\ client' = client /\ SV_Client' = SV_Client /\ job' = job
      /\ m_messagesQueue' = m_messagesQueue /\ m_aDelayedPackets' = m_aDelayedPackets /\ events' = events
      /\ farewells' = farewells /\ failed' = failed /\ phase' = phase
      /\ m_max_players' = m_max_players /\ m_players' = m_players /\ m_pending_clients' = m_pending_clients
      /\ m_bServerClientConnected' = m_bServerClientConnected
      /\ handling' = handling /\ dropped' = dropped
  BY DEF vars, peers, slots, registry, queues, frame
<1>2. Seated' = Seated
  BY <1>1 DEF Seated
<1>3. Control'
  <2>1. TypeOK' /\ Slots' /\ JobsSound'
    BY <1>1, <1>2 DEF IInv, Control, TypeOK, Slots, JobsSound, JobSound
  <2>2. failed' = "no" => Sound'
    BY <1>1 DEF IInv, Control, Sound, Found, Handing
  <2>3. HostFirst'
    BY <1>1 DEF IInv, Control, HostFirst, Creates
  <2> QED
    BY <2>1, <2>2, <2>3 DEF Control
<1>4. ASSUME NEW c \in Clients PROVE PerClient(c)'
  <2>1. /\ EventsOf(c)' = EventsOf(c) /\ MessagesOf(c)' = MessagesOf(c) /\ PacketsOf(c)' = PacketsOf(c)
        /\ JoinsOf(c)' = JoinsOf(c)
    BY <1>1 DEF EventsOf, MessagesOf, PacketsOf, JoinsOf, Waiting, FirstHandled, Of
  <2>2. /\ Silent(c)' <=> Silent(c)
        /\ Told(c)' <=> Told(c)
        /\ Parting(c)' <=> Parting(c)
        /\ Closing(c)' <=> Closing(c)
    BY <1>1, <2>1 DEF Silent, Told, Parting, Closing
  <2>3. ASSUME NEW b \in 0..5, Batch(c, b) PROVE Batch(c, b)'
    <3>1. Line(c, b)'
      BY <1>1, <2>1, <2>2, <2>3 DEF Batch, Line
    <3>2. Known(c, b)'
      BY <1>1, <2>3 DEF Batch, Known
    <3>3. Keys(c, b)'
      BY <1>1, <2>1, <2>2, <2>3 DEF Batch, Keys
    <3>4. StateFirst(c, b)'
      BY <1>1, <2>1, <2>3 DEF Batch, StateFirst
    <3>5. Alive(c, b)'
      BY <1>1, <2>1, <2>2, <2>3 DEF Batch, Alive
    <3> QED
      BY <3>1, <3>2, <3>3, <3>4, <3>5 DEF Batch
  <2>4. Farewell(c) => Farewell(c)'
    BY <1>1, <2>1, <2>2 DEF Farewell
  <2>5. Coming(c) => Coming(c)'
    BY <1>1, <1>2, <2>1 DEF Coming, Of
  <2> QED
    BY <1>1, <2>3, <2>4, <2>5 DEF IInv, PerClient, Joining
<1> QED
  BY <1>3, <1>4 DEF IInv

(* Every step keeps the invariant, and so it always holds.                 *)
LEMMA NextIInv == IInv /\ [Next]_vars => IInv'
<1> SUFFICES ASSUME IInv, [Next]_vars PROVE IInv'
  OBVIOUS
<1>1. CASE NetworkThread
  <2>1. ASSUME NEW c \in Clients, ProcessConnection(c) \/ OnSteamNetConnectionStatusChanged(c) PROVE IInv'
    BY <2>1, ProcessConnectionStep, ReportedStep
  <2>2. CASE DisconnectClient("net")
    BY <2>2, DisconnectStep DEF Threads
  <2> QED
    BY <1>1, <2>1, <2>2 DEF NetworkThread
<1>2. CASE MainThread
  BY <1>2, MainStep
<1>3. ASSUME NEW c \in Clients,
             \/ PollIncomingMessages(c) \/ Connect(c) \/ ClientReceive(c) \/ Command(c) \/ Leave(c)
             \/ Execute(c) \/ Kick(c)
      PROVE  IInv'
  BY <1>3, PollStep, ConnectStep, ClientReceiveStep, CommandStep, LeaveStep, KickStep
<1>4. CASE UNCHANGED vars
  BY <1>4, StutterStep
<1> QED
  BY <1>1, <1>2, <1>3, <1>4 DEF Next

LEMMA Invariance == Spec => []IInv
<1> QED
  BY InitIInv, NextIInv, PTL DEF Spec
-----------------------------------------------------------------------------
(* What follows for the server.                                            *)

(* The invariant implies each of the run's safety properties.              *)
LEMMA IInvClientsSound == IInv => ClientsSound
<1> SUFFICES ASSUME IInv PROVE ClientsSound
  OBVIOUS
<1>1. TypeOK /\ Slots /\ JobsSound /\ m_players \in Seq(Clients) /\ Len(m_players) <= m_max_players
  BY DEF IInv, Control, TypeOK
<1>2. ASSUME job["net"] = Idle, job["main"] = Idle
      PROVE  /\ IsInjective(m_players)
             /\ ToSet(m_players) = {c \in Clients : link[c] \in {"open", "broken"}}
             /\ net_players \cup ToSet(m_pending_clients) \subseteq ToSet(m_players)
  <2>1. Idle.step = "idle" /\ \A t \in Threads : job[t].step = "idle"
    BY <1>2, JobTypes DEF Threads
  <2>2. \A c \in Clients : link[c] # "leaving"
    BY <1>1, <2>1 DEF JobsSound, JobSound, Threads
  <2>3. Seated = {c \in Clients : link[c] \in {"open", "broken"}}
    BY <2>2 DEF Seated
  <2>4. net_players \subseteq Seated
    BY <1>1, <2>1 DEF Slots
  <2>5. IsInjective(m_players)
    <3>1. DOMAIN m_players = 1..Len(m_players)
      BY <1>1
    <3> QED
      BY <1>1, <3>1 DEF IsInjective, Slots, Distinct
  <2> QED
    BY <1>1, <2>3, <2>4, <2>5 DEF Slots
<1> QED
  BY <1>1, <1>2 DEF ClientsSound, SlotsSound, RegisteredConnected

LEMMA IInvKeysAgree == IInv => KeysAgree
<1> SUFFICES ASSUME IInv, m_messagesQueue # <<>>,
                    NEW e, e = Head(m_messagesQueue), e.type \in {"state", "auth", "digest"}, e.sender \in net_players
             PROVE  e.n = client[e.sender].m_secret_key
  BY DEF KeysAgree
<1>1. TypeOK /\ m_messagesQueue \in Seq(Received) /\ net_players \subseteq Clients
  BY DEF IInv, Control, TypeOK
<1>2. PICK c \in Clients : c = e.sender /\ c \in net_players
  BY <1>1
<1>3. e \in Of(c)
  BY <1>1, <1>2 DEF Of
<1>4. MessagesOf(c) # <<>> /\ Head(MessagesOf(c)) = e
  BY <1>1, <1>3, FilteredTail DEF MessagesOf
<1>5. PICK b \in 0..5 : Batch(c, b)
  BY <1>2 DEF IInv, PerClient, Joining
<1> QED
  BY <1>1, <1>2, <1>4, <1>5, KeyKnown

LEMMA IInvFarewellsSound == IInv => FarewellsSound
<1> SUFFICES ASSUME IInv, NEW c \in Clients
             PROVE  /\ farewells[c] > 0 => client[c].ps
                    /\ client[c].owner /\ c \notin net_players => farewells[c] > 0
  BY DEF FarewellsSound
<1>1. Farewell(c) /\ (c \notin net_players /\ link[c] # "closed" => Coming(c))
  BY DEF IInv, PerClient
<1>2. ASSUME client[c].owner, c \notin net_players PROVE farewells[c] > 0
  <2>1. link[c] = "closed"
    BY <1>1, <1>2 DEF Coming, NewClient
  <2> QED
    BY <1>1, <1>2, <2>1 DEF Farewell, Told
<1> QED
  BY <1>1, <1>2 DEF Farewell

(* Whoever tells the game of a client who is still registered is the first *)
(* to do so, unless the other thread has just done it, too.                *)
LEMMA StepSecondFarewell ==
  ASSUME IInv, [Next]_vars
  PROVE  SecondFarewell
<1> SUFFICES ASSUME NEW c \in Clients, farewells'[c] # farewells[c], farewells[c] > 0, NEW u \in Threads
             PROVE  job'[u].of = c /\ job'[u].step = "destroy"
  BY DEF SecondFarewell
<1>1. farewells' # farewells /\ TypeOK
  BY DEF IInv, Control
<1>2. PICK t \in Threads : DestroyCleint(t)
  <2>1. Next
    BY <1>1 DEF vars
  <2>2. CASE NetworkThread
    <3>1. \A d \in Clients : ~ProcessConnection(d) /\ ~OnSteamNetConnectionStatusChanged(d)
      BY <1>1 DEF ProcessConnection, OnSteamNetConnectionStatusChanged
    <3> QED
      BY <1>1, <2>2, <3>1 DEF NetworkThread, Threads, DisconnectClient, FindSlot, CloseConnection,
            FindAndEraseClient, client_Destroy
  <2>3. CASE MainThread
    <3>1. ~ProcessMessagesQueue /\ ~ProceedDelayedPackets /\ ~ProcessDelayedEvent /\ ~NextFrame
      BY <1>1 DEF ProcessMessagesQueue, ProceedDelayedPackets, ProcessDelayedEvent, NextFrame
    <3> QED
      BY <1>1, <2>3, <3>1 DEF MainThread, Threads, DisconnectClient, FindSlot, CloseConnection,
            FindAndEraseClient, client_Destroy
  <2>4. ASSUME NEW d \in Clients,
               \/ PollIncomingMessages(d) \/ Connect(d) \/ ClientReceive(d) \/ Command(d) \/ Leave(d)
               \/ Execute(d) \/ Kick(d)
        PROVE  FALSE
    BY <1>1, <2>4 DEF PollIncomingMessages, Connect, ClientReceive, Command, Leave, Execute, Kick
  <2> QED
    BY <2>1, <2>2, <2>3, <2>4 DEF Next
<1>3. job[t].step = "farewell" /\ job[t].step # "idle"
  BY <1>2 DEF DestroyCleint, At
<1>4. job \in [Threads -> Jobs] /\ job[t].of \in Clients /\ job[t] \in Jobs
  BY <1>3, Working
<1>5. c = job[t].of /\ c \in net_players /\ job' = [job EXCEPT ![t].step = "destroy"]
  <2>1. farewells' = IF client[job[t].of].ps THEN [farewells EXCEPT ![job[t].of] = @ + 1] ELSE farewells
        /\ job[t].of \in net_players
    BY <1>1, <1>2 DEF DestroyCleint
  <2>2. farewells \in [Clients -> Nat]
    BY <1>1 DEF TypeOK
  <2> QED
    BY <1>2, <2>1, <2>2 DEF DestroyCleint, Then
<1>6. job'[t].of = c /\ job'[t].step = "destroy" /\ \A v \in Threads : v # t => job'[v] = job[v]
  BY <1>4, <1>5 DEF Jobs
<1>7. PICK v \in Threads : job[v].of = c /\ job[v].step = "destroy"
  <2>1. Farewell(c)
    BY DEF IInv, PerClient
  <2> QED
    BY <1>5, <2>1 DEF Farewell, Parting
<1>8. v # t
  BY <1>3, <1>7
<1> QED
  BY <1>6, <1>7, <1>8 DEF Threads

LEMMA IInvNobodyForgotten == IInv => NobodyForgotten
<1> SUFFICES ASSUME IInv, Quiet, NEW c \in Remote \ dropped, link[c] = "open"
             PROVE  client[c].owner \/ (c \in ToSet(m_pending_clients) /\ ~m_bServerClientConnected)
  BY DEF NobodyForgotten
<1>1. /\ failed = "no" /\ m_messagesQueue = <<>> /\ m_aDelayedPackets = <<>> /\ events = <<>>
      /\ c \in Clients /\ c # Host /\ toServer[c] = <<>> /\ toClient[c] = <<>>
      /\ job["main"] = Idle /\ Idle.step = "idle" /\ TypeOK
  BY JobTypes DEF Quiet, IInv, Control, Clients, Threads
<1>2. EventsOf(c) = <<>> /\ MessagesOf(c) = <<>> /\ PacketsOf(c) = <<>> /\ JoinsOf(c) = <<>>
  BY <1>1, FilteredOne DEF EventsOf, MessagesOf, PacketsOf, JoinsOf, Waiting, FirstHandled
<1>3. CASE c \in net_players
  <2>1. PICK b \in 0..5 : Batch(c, b)
    BY <1>1, <1>3 DEF IInv, PerClient, Joining
  <2>2. \A types : ~Some(<<>>, types)
    BY DEF Some
  <2>3. ~Closing(c)
    BY <1>1 DEF Closing
  <2> QED
    BY <1>1, <1>2, <2>1, <2>2, <2>3 DEF Batch, Alive
<1>4. CASE c \notin net_players
  <2>1. Coming(c) /\ c \in Seated
    BY <1>1, <1>4 DEF IInv, PerClient, Seated
  <2>2. c \in ToSet(m_pending_clients)
    BY <1>1, <2>1 DEF Coming
  <2>3. m_pending_clients # <<>>
    BY <2>2 DEF ToSet
  <2>4. Host \notin net_players /\ m_bServerClientConnected = (Host \in net_players)
    BY <2>3 DEF IInv, Control, HostFirst
  <2> QED
    BY <2>2, <2>4
<1> QED
  BY <1>3, <1>4

(* Every variable keeps its type; slots, registrations and the connections *)
(* that are let in are those of the same clients, there are never too      *)
(* many, and nobody is registered after he has gone.                       *)
THEOREM SlotsAreThePlayers == Spec => []ClientsSound
<1> QED
  BY Invariance, IInvClientsSound, PTL

(* The server has the key of the player whose message it is about to       *)
(* check, whatever else was on its way: no message of his is dropped.      *)
THEOREM KeysDoAgree == Spec => []KeysAgree
<1> QED
  BY Invariance, IInvKeysAgree, PTL

(* The game hears of every player who was in the game and is destroyed,    *)
(* whichever thread disconnects him, and never of one without a state; it  *)
(* hears of him again only when the two threads destroy him at once.       *)
THEOREM FarewellIsGiven == Spec => FarewellGiven
<1>1. IInv /\ [Next]_vars => [SecondFarewell]_vars
  BY StepSecondFarewell
<1> QED
  BY <1>1, Invariance, IInvFarewellsSound, PTL DEF Spec, FarewellGiven

(* When nothing waits to be handled, who is connected plays, or waits for  *)
(* the server's own client: joining never comes to rest half-way, unless   *)
(* his request was removed in place of another's packet.                   *)
THEOREM NobodyIsForgotten == Spec => []NobodyForgotten
<1> QED
  BY Invariance, IInvNobodyForgotten, PTL

(* What a failing handler has been given, and when a slot moves away.      *)
GivenTheGone == failed' \in {"null", "assert", "range"} /\ \E c \in Handled : c \notin net_players
Moved == failed' = "race" /\ \A t \in Threads : job[t].step = "erase" /\ link[job[t].of] # "closed"

(* A handler of the main thread fails for one who has gone, and for nobody *)
(* else.                                                                   *)
LEMMA HandlersFail ==
  ASSUME IInv, MainThread, ~DisconnectClient("main"), failed' # failed
  PROVE  GivenTheGone
<1>1. TypeOK /\ Handing /\ HostFirst /\ failed = "no" /\ job["main"] = Idle
  BY DEF IInv, Control, Sound, MainThread, ProcessMessagesQueue, ProceedDelayedPackets, ProcessDelayedEvent, NextFrame, Main
<1>2. m_messagesQueue \in Seq(Received) /\ m_aDelayedPackets \in Seq(Received) /\ events \in Seq(Received)
  BY <1>1 DEF TypeOK
<1>4. \A s : s \in Seq(Received) /\ s # <<>> => Head(s) \in Received
  OBVIOUS
<1>5. CASE ProcessMessagesQueue
  <2>1. m_messagesQueue # <<>> /\ Handled = {Head(m_messagesQueue).sender}
    BY <1>1, <1>5 DEF ProcessMessagesQueue, Handled
  <2>2. PICK e \in Received : e = Head(m_messagesQueue)
    BY <1>2, <1>4, <2>1
  <2>3. PICK c \in Clients : c = e.sender
    BY <2>2 DEF Received
  <2>5. OnMessage(e)
    BY <1>5, <2>1, <2>2 DEF ProcessMessagesQueue
  <2>4. SUFFICES ASSUME c \in net_players PROVE FALSE
    <3>1. SUFFICES ASSUME c \notin net_players PROVE failed' = "null"
      BY <2>1, <2>2, <2>3 DEF GivenTheGone
    <3> QED
      BY <2>3, <2>5, <3>1 DEF OnMessage, Fails
  <2>6. CASE e.type \in {"state", "auth", "digest"} /\ OnSecureMessage(e)
    BY <2>6 DEF OnSecureMessage, ProcessClientDigest, Turned
  <2>7. CASE e.type = "ready" /\ OnPlayerConnectFinished(c)
    <3>1. PICK b \in 0..5 : Batch(c, b)
      BY <2>4 DEF IInv, PerClient, Joining
    <3>2. MessagesOf(c) # <<>> /\ Head(MessagesOf(c)) = e
      <4>1. e \in Of(c)
        BY <2>2, <2>3, <2>7 DEF Of
      <4> QED
        BY <1>2, <2>1, <2>2, <4>1, FilteredTail DEF MessagesOf
    <3>3. b = 5
      BY <1>1, <2>7, <3>1, <3>2, EndOfBatch
    <3>4. client[c].ps
      BY <3>1, <3>3 DEF Batch, Known
    <3> QED
      BY <2>7, <3>4 DEF OnPlayerConnectFinished
  <2>8. CASE PerformSecretKeysSyncAck(c) \/ OnProcessClientMapData(c)
    BY <2>8 DEF PerformSecretKeysSyncAck, OnProcessClientMapData
  <2>9. CASE e.type \in {"request", "remote"} /\ failed' = failed
    BY <2>9
  <2> QED
    BY <2>3, <2>4, <2>5, <2>6, <2>7, <2>8, <2>9 DEF OnMessage
<1>6. CASE ProceedDelayedPackets
  <2>1. CASE phase = "packets"
    <3>1. m_aDelayedPackets # <<>> /\ OnDelayedMessage(Head(m_aDelayedPackets))
      BY <1>1, <1>6, <2>1 DEF ProceedDelayedPackets
    <3>2. Handled = {Head(m_aDelayedPackets).sender}
      BY <2>1 DEF Handled
    <3> QED
      BY <3>1, <3>2 DEF OnDelayedMessage, OnCL_Connected, Fails, GivenTheGone
  <2>2. CASE phase \in {"command", "pop"}
    <3>1. m_aDelayedPackets = <<>> /\ failed' = "range"
      BY <1>6, <2>2 DEF ProceedDelayedPackets, pop_front
    <3>2. Handled = {handling}
      BY <2>2 DEF Handled
    <3>3. handling \notin net_players
      <4>1. Nobody \notin Clients /\ net_players \subseteq Clients
        BY <1>1, ClientsAssumption DEF TypeOK, Clients
      <4> QED
        BY <1>1, <3>1, <4>1 DEF Handing
    <3> QED
      BY <3>1, <3>2, <3>3 DEF GivenTheGone
  <2> QED
    BY <1>6, <2>1, <2>2 DEF ProceedDelayedPackets
<1>7. CASE ProcessDelayedEvent
  <2>1. events # <<>> /\ OnEvent(Head(events)) /\ Handled = {Head(events).sender}
    BY <1>1, <1>7 DEF ProcessDelayedEvent, Handled
  <2>2. PICK e \in Received : e = Head(events)
    BY <1>2, <1>4, <2>1
  <2>3. PICK c \in Clients : c = e.sender
    BY <2>2 DEF Received
  <2>4. CASE c \notin net_players
    <3>1. failed' \in {"null", "assert"}
      BY <2>1, <2>2, <2>3, <2>4 DEF OnEvent, Fails
    <3> QED
      BY <2>1, <2>2, <2>3, <2>4, <3>1 DEF GivenTheGone
  <2>5. CASE c \in net_players
    BY <2>1, <2>2, <2>3, <2>5 DEF OnEvent, AttachNewClient, Attached, CreatePlayerState, RequestClientDigest, Turned
  <2> QED
    BY <2>4, <2>5
<1>8. CASE NextFrame
  BY <1>8 DEF NextFrame
<1> QED
  BY <1>5, <1>6, <1>7, <1>8 DEF MainThread

(* No other step fails, but for two threads that erase slots at once.      *)
LEMMA StepsFail ==
  ASSUME IInv, Next, failed' # failed
  PROVE  GivenTheGone \/ Moved
<1>2. ASSUME NEW t \in Threads, DisconnectClient(t) PROVE Moved
  <2>1. CASE CloseConnection(t)
    <3>1. failed = "no" /\ job[t].step = "erase" /\ Moves(t) /\ failed' = "race"
      BY <2>1 DEF CloseConnection, At
    <3>2. Found /\ Slots /\ m_players \in Seq(Clients) /\ job \in [Threads -> Jobs]
      BY <3>1 DEF IInv, Control, Sound, TypeOK
    <3>3. PICK u \in Threads : u # t /\ job[u].step = "erase" /\ job[u].at >= job[t].at /\ job[t].at # 0
      BY <3>1 DEF Moves
    <3>4. job[t].at \in Nat /\ job[u].at \in Nat
      BY <3>2 DEF Jobs
    <3>5. job[t].at # 0 /\ job[u].at # 0
      BY <3>3, <3>4
    <3>6. ASSUME NEW v \in Threads, job[v].step = "erase", job[v].at # 0 PROVE link[job[v].of] # "closed"
      <4>1. job[v].at \in 1..Len(m_players) /\ m_players[job[v].at] = job[v].of
        BY <3>2, <3>6 DEF Found
      <4>2. job[v].of \in ToSet(m_players)
        BY <3>2, <4>1 DEF ToSet
      <4> QED
        BY <3>2, <4>2 DEF Slots, Seated
    <3>7. \A v \in Threads : v = t \/ v = u
      BY <3>3 DEF Threads
    <3> QED
      BY <3>1, <3>3, <3>5, <3>6, <3>7 DEF Moved
  <2> QED
    BY <1>2, <2>1 DEF DisconnectClient, FindSlot, DestroyCleint, FindAndEraseClient, client_Destroy
<1>3. CASE NetworkThread
  <2>1. ASSUME NEW c \in Clients, OnSteamNetConnectionStatusChanged(c) \/ ProcessConnection(c) PROVE FALSE
    BY <2>1 DEF OnSteamNetConnectionStatusChanged, ProcessConnection
  <2> QED
    BY <1>2, <1>3, <2>1 DEF NetworkThread, Threads
<1>4. CASE MainThread
  <2>1. CASE DisconnectClient("main")
    BY <1>2, <2>1 DEF Threads
  <2> QED
    BY <1>4, <2>1, HandlersFail
<1>5. ASSUME NEW c \in Clients,
             \/ PollIncomingMessages(c) \/ Connect(c) \/ ClientReceive(c) \/ Command(c) \/ Leave(c)
             \/ Execute(c) \/ Kick(c)
      PROVE  FALSE
  BY <1>5 DEF PollIncomingMessages, Connect, ClientReceive, Command, Leave, Execute, Kick
<1> QED
  BY <1>3, <1>4, <1>5 DEF Next

(* The handlers fail for nobody but those who have gone in the meantime,   *)
(* be it by their own command; a slot moves away from under a thread only  *)
(* while both disconnect clients who are still connected; and nothing else *)
(* fails.                                                                  *)
THEOREM OnlyTheGoneFail == Spec => FailsForTheGone
<1>1. IInv /\ [Next]_vars =>
        [failed' # failed =>
           \/ /\ failed' = "race"
              /\ \A t \in Threads : job[t].step = "erase" /\ link[job[t].of] # "closed"
           \/ failed' \in {"null", "assert", "range"} /\ \E c \in Handled : c \notin net_players]_vars
  BY StepsFail DEF GivenTheGone, Moved
<1> QED
  BY <1>1, Invariance, PTL DEF Spec, FailsForTheGone
-----------------------------------------------------------------------------
(* The server implements Session.                                          *)

(* How far the connection c has come, given its link l, who is registered  *)
(* and what the server knows of it.                                        *)
StageFrom(c, l, ins, r) ==
  CASE l \in {"none", "connecting", "lost"} -> "outside"
    [] l = "closed" -> "gone"
    [] l \in {"open", "broken", "leaving"} ->
         CASE c \notin ins -> "seated"
           [] c \in ins /\ ~r.bConnected -> "registered"
           [] c \in ins /\ r.bConnected ->
                CASE ~r.ps -> "attached"
                  [] r.ps /\ ~r.net_Accepted -> "identified"
                  [] r.ps /\ r.net_Accepted ->
                       IF r.owner THEN "spawned" ELSE "accepted"

(* The stage that each state of a connection stands for.                   *)
LEMMA StageValues ==
  ASSUME NEW c, NEW l \in Links, NEW ins, NEW r
  PROVE  /\ l \in {"none", "connecting", "lost"} => StageFrom(c, l, ins, r) = "outside"
         /\ l = "closed" => StageFrom(c, l, ins, r) = "gone"
         /\ l \in {"open", "broken", "leaving"} =>
              /\ c \notin ins => StageFrom(c, l, ins, r) = "seated"
              /\ c \in ins /\ ~r.bConnected => StageFrom(c, l, ins, r) = "registered"
              /\ c \in ins /\ r.bConnected /\ ~r.ps => StageFrom(c, l, ins, r) = "attached"
              /\ c \in ins /\ r.bConnected /\ r.ps /\ ~r.net_Accepted => StageFrom(c, l, ins, r) = "identified"
              /\ c \in ins /\ r.bConnected /\ r.ps /\ r.net_Accepted /\ ~r.owner => StageFrom(c, l, ins, r) = "accepted"
              /\ c \in ins /\ r.bConnected /\ r.ps /\ r.net_Accepted /\ r.owner => StageFrom(c, l, ins, r) = "spawned"
BY DEF StageFrom, Links

(* The stages before and after a step.                                     *)
LEMMA Stages ==
  /\ stage = [c \in Clients |-> StageFrom(c, link[c], net_players, client[c])]
  /\ stage' = [c \in Clients |-> StageFrom(c, link'[c], net_players', client'[c])]
BY DEF stage, StageFrom

(* What a step does to a connection is the same for its stage if nothing   *)
(* that the stage depends on has changed.                                  *)
StageKept(c) == StageFrom(c, link'[c], net_players', client'[c]) = StageFrom(c, link[c], net_players, client[c])

(* When no stage changes, and when only that of c does.                    *)
LEMMA StagesStay ==
  ASSUME \A c \in Clients : StageKept(c)
  PROVE  stage' = stage
BY Stages DEF StageKept

LEMMA StageMoves ==
  ASSUME NEW c \in Clients, \A d \in Clients \ {c} : StageKept(d)
  PROVE  /\ stage' = [stage EXCEPT ![c] = StageFrom(c, link'[c], net_players', client'[c])]
         /\ stage[c] = StageFrom(c, link[c], net_players, client[c])
BY Stages DEF StageKept

(* A connection is let in or turned away.                                  *)
LEMMA ProcessConnectionSession ==
  ASSUME IInv, NEW c \in Clients, ProcessConnection(c)
  PROVE  S!Next
<1>1. TypeOK /\ link \in [Clients -> Links] /\ link[c] \in {"connecting", "lost"} /\ c \notin net_players
  BY Outside DEF IInv, Control, TypeOK, ProcessConnection
<1>2. m_max_players' = m_max_players /\ client' = client /\ net_players' = net_players
  BY DEF ProcessConnection, registry
<1>3. \A d \in Clients \ {c} : link'[d] = link[d]
  BY <1>1 DEF ProcessConnection, Closed, LetIn, TurnAway
<1>4. \A d \in Clients \ {c} : StageKept(d)
  BY <1>2, <1>3 DEF StageKept
<1>5. stage[c] = "outside" /\ stage' = [stage EXCEPT ![c] = StageFrom(c, link'[c], net_players', client'[c])]
  BY <1>1, <1>4, StageMoves, StageValues
<1>6. CASE Closed(c)
  <2>1. link'[c] = "closed"
    BY <1>1, <1>6 DEF Closed
  <2>2. StageFrom(c, link'[c], net_players', client'[c]) = "gone"
    BY <2>1, StageValues DEF Links
  <2>3. S!Refuse(c)
    BY <1>5, <2>2 DEF S!Refuse, S!To
  <2> QED
    BY <1>2, <2>3 DEF S!Next
<1>7. CASE Len(m_players) < m_max_players /\ (LetIn(c) \/ TurnAway(c))
  <2>1. link'[c] \in {"open", "leaving"}
    BY <1>1, <1>7 DEF LetIn, TurnAway
  <2>2. StageFrom(c, link'[c], net_players', client'[c]) = "seated"
    BY <1>1, <1>2, <2>1, StageValues DEF Links
  <2>3. S!Members = Seated
    <3>1. ASSUME NEW d \in Clients PROVE stage[d] \in S!Inside <=> d \in Seated
      <4>1. stage[d] = StageFrom(d, link[d], net_players, client[d])
        BY Stages
      <4>2. CASE link[d] \in {"open", "broken", "leaving"}
        BY <1>1, <4>1, <4>2, StageValues DEF S!Inside, Seated
      <4>3. CASE link[d] \in {"none", "connecting", "lost"}
        BY <1>1, <4>1, <4>3, StageValues DEF S!Inside, Seated
      <4>4. CASE link[d] = "closed"
        BY <1>1, <4>1, <4>4, StageValues DEF S!Inside, Seated
      <4> QED
        BY <1>1, <4>2, <4>3, <4>4 DEF Links
    <3> QED
      BY <3>1 DEF S!Members, Seated
  <2>4. Cardinality(S!Members) = Len(m_players)
    BY <2>3, DistinctLength DEF IInv, Control, Slots, TypeOK
  <2>5. S!Cardinality(S!Members) = Cardinality(S!Members)
    BY DEF S!Cardinality, Cardinality
  <2>6. S!Seat(c)
    BY <1>5, <1>7, <2>2, <2>4, <2>5 DEF S!Seat, S!To
  <2> QED
    BY <1>2, <2>6 DEF S!Next
<1> QED
  BY <1>6, <1>7 DEF ProcessConnection

(* A client's slot is given back and his connection closed, unless the     *)
(* other thread has done it.                                               *)
LEMMA CloseConnectionSession ==
  ASSUME IInv, NEW t \in Threads, CloseConnection(t)
  PROVE  S!Next \/ (stage' = stage /\ m_max_players' = m_max_players)
<1>1. /\ TypeOK /\ Found /\ Slots /\ job[t].step = "erase" /\ m_players \in Seq(Clients) /\ job[t] \in Jobs
      /\ link \in [Clients -> Links]
  <2>1. failed = "no" /\ job[t].step = "erase"
    BY DEF CloseConnection, At
  <2>2. TypeOK /\ Found /\ Slots
    BY <2>1 DEF IInv, Control, Sound
  <2> QED
    BY <2>1, <2>2 DEF TypeOK
<1>2. PICK c \in Clients : c = job[t].of
  BY <1>1 DEF Jobs
<1>3. m_max_players' = m_max_players /\ client' = client /\ net_players' = net_players
  BY DEF CloseConnection, registry
<1>4. CASE c \in Seated
  <2>1. Closed(c)
    <3>1. job[t].at # 0
      BY <1>1, <1>2, <1>4 DEF Found, Seated
    <3> QED
      BY <1>2, <3>1 DEF CloseConnection
  <2>2. link'[c] = "closed" /\ \A d \in Clients \ {c} : link'[d] = link[d]
    BY <1>1, <2>1 DEF Closed
  <2>3. \A d \in Clients \ {c} : StageKept(d)
    BY <1>3, <2>2 DEF StageKept
  <2>4. stage[c] \in S!Inside
    <3>1. stage[c] = StageFrom(c, link[c], net_players, client[c]) /\ link[c] \in {"open", "broken", "leaving"}
      BY <1>4, Stages DEF Seated
    <3> QED
      BY <1>1, <3>1, StageValues DEF S!Inside
  <2>5. stage' = [stage EXCEPT ![c] = "gone"]
    BY <2>2, <2>3, StageMoves, StageValues DEF Links
  <2>6. S!Leave(c)
    BY <2>4, <2>5 DEF S!Leave
  <2> QED
    BY <1>3, <2>6 DEF S!Next
<1>5. CASE c \notin Seated
  <2>1. job[t].at = 0
    <3>1. SUFFICES ASSUME job[t].at # 0 PROVE FALSE
      OBVIOUS
    <3>2. job[t].at \in 1..Len(m_players) /\ m_players[job[t].at] = c
      BY <1>1, <1>2, <3>1 DEF Found
    <3>3. c \in ToSet(m_players)
      BY <1>1, <3>2, Elements
    <3> QED
      BY <1>1, <1>5, <3>3 DEF Slots
  <2>2. c \notin ToSet(m_pending_clients)
    BY <1>1, <1>5 DEF Slots
  <2>3. link' = link
    BY <1>2, <2>1, <2>2 DEF CloseConnection
  <2>4. \A d \in Clients : StageKept(d)
    BY <1>3, <2>3 DEF StageKept
  <2> QED
    BY <1>3, <2>4, StagesStay
<1> QED
  BY <1>4, <1>5

(* Clients are registered: those whose data have arrived, and those who    *)
(* waited for the server's own client with it.                             *)
LEMMA RegisterSession ==
  ASSUME IInv, NEW s \in Seq(Clients), FinishConnection(s), link' = link, m_max_players' = m_max_players,
         \A d \in ToSet(s) : d \in Seated /\ d \notin net_players,
         Host \in ToSet(s) \/ Host \in net_players
  PROVE  S!Next
<1>1. /\ TypeOK /\ link \in [Clients -> Links] /\ HostFirst /\ ToSet(s) \subseteq Clients
      /\ net_players' = net_players \cup ToSet(s)
      /\ client' = [c \in Clients |-> IF c \in ToSet(s) THEN NewClient ELSE client[c]]
  BY Elements DEF IInv, Control, TypeOK, FinishConnection
<1>2. ASSUME NEW d \in Clients, d \in ToSet(s)
      PROVE  stage[d] = "seated" /\ stage'[d] = "registered"
  <2>1. link[d] \in {"open", "broken", "leaving"} /\ link'[d] \in Links /\ link[d] \in Links
    BY <1>1, <1>2 DEF Seated
  <2>2. ~client'[d].bConnected /\ d \in net_players'
    BY <1>1, <1>2 DEF NewClient
  <2>3. StageFrom(d, link[d], net_players, client[d]) = "seated"
    BY <1>2, <2>1, StageValues
  <2>4. StageFrom(d, link'[d], net_players', client'[d]) = "registered"
    BY <2>1, <2>2, StageValues
  <2> QED
    BY <2>3, <2>4, Stages
<1>3. ASSUME NEW d \in Clients, d \notin ToSet(s)
      PROVE  stage'[d] = stage[d]
  <2>1. client'[d] = client[d] /\ (d \in net_players' <=> d \in net_players)
    BY <1>1, <1>3
  <2>2. StageFrom(d, link'[d], net_players', client'[d]) = StageFrom(d, link[d], net_players, client[d])
    <3>1. (d \in net_players') = (d \in net_players) /\ (d \notin net_players') = (d \notin net_players)
      BY <2>1
    <3> QED
      BY <2>1, <3>1 DEF StageFrom
  <2> QED
    BY <2>2, Stages
<1>4. Host \in ToSet(s) \/ stage[Host] \notin {"outside", "seated"}
  <2>1. SUFFICES ASSUME Host \in net_players PROVE stage[Host] \notin {"outside", "seated"}
    OBVIOUS
  <2>2. Host \in Clients /\ link[Host] = "open"
    BY <1>1, <2>1, JobTypes DEF HostFirst
  <2>3. stage[Host] = StageFrom(Host, "open", net_players, client[Host])
    BY <2>2, Stages
  <2>4. "open" \in Links
    BY DEF Links
  <2> QED
    BY <2>1, <2>3, <2>4, StageValues
<1>5. stage' = [c \in Clients |-> IF c \in ToSet(s) THEN "registered" ELSE stage[c]]
  BY <1>2, <1>3, Stages
<1>6. S!Register
  <2>1. \A d \in ToSet(s) : stage[d] = "seated"
    BY <1>1, <1>2
  <2> QED
    BY <1>1, <1>4, <1>5, <2>1 DEF S!Register
<1> QED
  BY <1>6 DEF S!Next

(* What the network thread receives: connection data register clients.     *)
LEMMA PollSession ==
  ASSUME IInv, NEW c \in Clients, PollIncomingMessages(c)
  PROVE  S!Next \/ (stage' = stage /\ m_max_players' = m_max_players)
<1>1. /\ TypeOK /\ link' = link /\ m_max_players' = m_max_players /\ toServer[c] # <<>>
      /\ link[c] \in {"open", "broken"} /\ Slots /\ HostFirst
      /\ m_pending_clients \in Seq(Clients) /\ toServer[c] \in Seq(FromClient)
  BY DEF IInv, Control, PollIncomingMessages, TypeOK
<1>2. CASE UNCHANGED <<net_players, client>>
  <2>1. \A d \in Clients : StageKept(d)
    BY <1>1, <1>2 DEF StageKept
  <2> QED
    BY <1>1, <2>1, StagesStay
<1>3. CASE Head(toServer[c]).type = "data" /\ ~UNCHANGED <<net_players, client>>
  <2>1. OnClientDataReceived(c)
    BY <1>3 DEF PollIncomingMessages
  <2>2. c \in Seated /\ c \notin net_players
    <3>1. c \in Seated
      BY <1>1 DEF Seated
    <3>2. SUFFICES ASSUME c \in net_players PROVE FALSE
      BY <3>1
    <3>3. PICK b \in 0..5 : Batch(c, b)
      BY <3>2 DEF IInv, PerClient, Joining
    <3>4. Made(JoinsOf(c), FromPlayer(b), Keyed, b) /\ JoinsOf(c) \in Seq(FromClient)
      BY <1>1, <3>3, Projections DEF Batch, Line, Pipe
    <3>5. JoinsOf(c) # <<>> /\ Head(JoinsOf(c)) = Head(toServer[c])
      <4>1. Head(toServer[c]) \in Joins
        BY <1>1, <1>3 DEF Joins
      <4> QED
        BY <1>1, <4>1, FilteredTail DEF JoinsOf
    <3>6. Head(toServer[c]).type \in FromPlayer(b)
      <4>1. \A types, keyed, n : Made(JoinsOf(c), types, keyed, n) => Head(JoinsOf(c)).type \in types
        BY <3>4, <3>5, HeadAndTail
      <4> QED
        BY <3>4, <3>5, <4>1
    <3> QED
      BY <1>3, <3>6 DEF FromPlayer
  <2>3. <<c>> \in Seq(Clients) /\ ToSet(<<c>>) = {c}
    BY DEF ToSet
  <2>4. CASE c = Host
    <3>1. FinishConnection(<<c>> \o m_pending_clients)
      BY <2>1, <2>4 DEF OnClientDataReceived
    <3>2. PICK s \in Seq(Clients) : s = <<c>> \o m_pending_clients
      BY <1>1, <2>3, ConcatProperties
    <3>3. c \in ToSet(s) /\ ToSet(s) \subseteq {c} \cup ToSet(m_pending_clients)
      <4>1. /\ Len(m_pending_clients) \in Nat /\ Len(s) = 1 + Len(m_pending_clients) /\ s[1] = c
            /\ \A i \in 1..Len(s) : i > 1 => i - 1 \in 1..Len(m_pending_clients) /\ s[i] = m_pending_clients[i - 1]
        BY <1>1, <2>3, <3>2
      <4>2. ASSUME NEW x \in ToSet(s) PROVE x \in {c} \cup ToSet(m_pending_clients)
        <5>1. PICK i \in 1..Len(s) : s[i] = x
          BY <3>2, Elements
        <5>2. CASE i = 1
          BY <4>1, <5>1, <5>2
        <5>3. CASE i # 1
          <6>1. i - 1 \in 1..Len(m_pending_clients) /\ m_pending_clients[i - 1] = x
            BY <4>1, <5>1, <5>3
          <6>2. \A w \in Seq(Clients) : \A k \in 1..Len(w) : w[k] \in ToSet(w)
            BY Elements
          <6> QED
            BY <1>1, <6>1, <6>2
        <5> QED
          BY <5>2, <5>3
      <4>3. 1 \in 1..Len(s)
        BY <4>1
      <4> QED
        BY <3>2, <4>1, <4>2, <4>3, Elements
    <3>4. \A d \in ToSet(s) : d \in Seated /\ d \notin net_players
      BY <1>1, <2>2, <3>3 DEF Slots
    <3> QED
      BY <1>1, <2>4, <3>1, <3>2, <3>3, <3>4, RegisterSession
  <2>5. CASE c # Host
    <3>1. m_bServerClientConnected /\ FinishConnection(<<c>>)
      BY <1>3, <2>1, <2>5 DEF OnClientDataReceived
    <3>2. Host \in net_players
      BY <1>1, <3>1 DEF HostFirst
    <3> QED
      BY <1>1, <2>2, <2>3, <3>1, <3>2, RegisterSession
  <2> QED
    BY <2>4, <2>5
<1>4. Head(toServer[c]).type = "data" \/ UNCHANGED <<net_players, client>>
  BY DEF PollIncomingMessages
<1> QED
  BY <1>2, <1>3, <1>4

(* What is done for a client whose connection is closed does not show.     *)
LEMMA DestroySession ==
  ASSUME IInv, NEW t \in Threads, DestroyCleint(t) \/ FindAndEraseClient(t)
  PROVE  stage' = stage /\ m_max_players' = m_max_players
<1>1. /\ TypeOK /\ JobsSound /\ link' = link /\ m_max_players' = m_max_players
      /\ job[t].step \in {"farewell", "destroy"} /\ job \in [Threads -> Jobs] /\ client \in [Clients -> ClientData]
      /\ link \in [Clients -> Links]
  BY DEF IInv, Control, TypeOK, DestroyCleint, FindAndEraseClient, At, slots
<1>2. PICK c \in Clients : c = job[t].of /\ link[c] = "closed"
  BY <1>1 DEF Jobs, JobsSound, JobSound
<1>3. \A d \in Clients \ {c} : client'[d] = client[d] /\ (d \in net_players' <=> d \in net_players)
  <2>1. CASE DestroyCleint(t)
    BY <1>1, <1>2, <2>1 DEF DestroyCleint
  <2>2. CASE FindAndEraseClient(t)
    BY <1>1, <1>2, <2>2 DEF FindAndEraseClient
  <2> QED
    BY <2>1, <2>2
<1>4. ASSUME NEW d \in Clients PROVE StageKept(d)
  <2>1. CASE d = c
    BY <1>1, <1>2, <2>1, StageValues DEF StageKept
  <2>2. CASE d # c
    <3>1. (d \in net_players') = (d \in net_players) /\ (d \notin net_players') = (d \notin net_players)
      BY <1>3, <2>2
    <3> QED
      BY <1>1, <1>3, <2>2, <3>1 DEF StageKept, StageFrom
  <2> QED
    BY <2>1, <2>2
<1> QED
  BY <1>1, <1>4, StagesStay

(* The fields of a client that count for his stage.                        *)
LEMMA FieldsKept ==
  ASSUME NEW c, link'[c] = link[c], net_players' = net_players,
         client'[c].bConnected = client[c].bConnected, client'[c].ps = client[c].ps,
         client'[c].net_Accepted = client[c].net_Accepted, client'[c].owner = client[c].owner
  PROVE  StageKept(c)
BY DEF StageKept, StageFrom

(* Outside and gone are stages that the client data do not show in.        *)
LEMMA OutsidersStay ==
  ASSUME NEW c, link[c] \in Links, link'[c] = link[c], link[c] \notin {"open", "broken", "leaving"}
  PROVE  StageKept(c)
<1>1. CASE link[c] = "closed"
  BY <1>1, StageValues DEF StageKept
<1>2. CASE link[c] \in {"none", "connecting", "lost"}
  BY <1>2, StageValues DEF StageKept
<1> QED
  BY <1>1, <1>2 DEF Links

(* Of the fields that stages depend on a message changes the owner only.   *)
LEMMA MessageFields ==
  ASSUME TypeOK, NEW e, NEW c \in Clients, c = e.sender, OnMessage(e)
  PROVE  /\ client'[c].bConnected = client[c].bConnected /\ client'[c].ps = client[c].ps
         /\ client'[c].net_Accepted = client[c].net_Accepted
         /\ \/ client'[c].owner = client[c].owner
            \/ e.type = "ready" /\ c \in net_players /\ client[c].ps /\ client'[c].owner
<1>1. client \in [Clients -> ClientData] /\ client[c] \in ClientData
  BY DEF TypeOK
<1>2. CASE client' = client
  BY <1>2
<1>3. CASE PerformSecretKeysSyncAck(c)
  <2>1. client' = [client EXCEPT ![c].m_secret_key = client[c].m_last_key_sync_request_seed]
    BY <1>3 DEF PerformSecretKeysSyncAck
  <2> QED
    BY <1>1, <2>1 DEF ClientData
<1>4. CASE client' = Verified(c)
  <2>1. PICK r : r = PerformSecretKeysSync(c)
    OBVIOUS
  <2>2. /\ r \in [Clients -> ClientData \cup {r[c]}] /\ r[c].bConnected = client[c].bConnected /\ r[c].ps = client[c].ps
        /\ r[c].net_Accepted = client[c].net_Accepted /\ r[c].owner = client[c].owner
        /\ r[c] = [client[c] EXCEPT !.m_last_key_sync_request_seed = @ + 1]
    BY <1>1, <2>1 DEF PerformSecretKeysSync, ClientData
  <2>3. client' = [r EXCEPT ![c].bVerified = TRUE]
    BY <1>4, <2>1 DEF Verified
  <2>4. client'[c] = [r[c] EXCEPT !.bVerified = TRUE]
    BY <2>2, <2>3
  <2>5. /\ client'[c].bConnected = r[c].bConnected /\ client'[c].ps = r[c].ps
        /\ client'[c].net_Accepted = r[c].net_Accepted /\ client'[c].owner = r[c].owner
    BY <1>1, <2>2, <2>4 DEF ClientData
  <2> QED
    BY <2>2, <2>5
<1>5. CASE e.type = "ready" /\ c \in net_players /\ client[c].ps /\ client' = [client EXCEPT ![c].owner = TRUE]
  BY <1>1, <1>5 DEF ClientData
<1>6. CASE e.type \in {"state", "auth", "digest"} /\ OnSecureMessage(e)
  <2>1. client' = client \/ client' = Verified(c)
    BY <1>6 DEF OnSecureMessage, ProcessClientDigest, Turned
  <2> QED
    BY <1>2, <1>4, <2>1
<1>7. CASE e.type = "ready" /\ c \in net_players /\ OnPlayerConnectFinished(c)
  <2>1. client' = client \/ (client[c].ps /\ client' = [client EXCEPT ![c].owner = TRUE])
    BY <1>7 DEF OnPlayerConnectFinished, Fails
  <2> QED
    BY <1>2, <1>5, <1>7, <2>1
<1>8. CASE OnProcessClientMapData(c) \/ Fails("null")
  BY <1>2, <1>8 DEF OnProcessClientMapData, Fails
<1>9. CASE e.type \in {"request", "remote"} /\ client' = client
  BY <1>2, <1>9
<1> QED
  BY <1>3, <1>6, <1>7, <1>8, <1>9 DEF OnMessage

(* A message shows when it spawns its sender.                              *)
LEMMA MessageSession ==
  ASSUME IInv, ProcessMessagesQueue
  PROVE  S!Next \/ (stage' = stage /\ m_max_players' = m_max_players)
<1>1. /\ TypeOK /\ link' = link /\ net_players' = net_players /\ m_max_players' = m_max_players
      /\ m_messagesQueue \in Seq(Received) /\ failed = "no" /\ link \in [Clients -> Links]
  BY DEF IInv, Control, TypeOK, ProcessMessagesQueue, Main, slots
<1>2. CASE m_messagesQueue = <<>>
  <2>1. client' = client
    BY <1>2 DEF ProcessMessagesQueue
  <2>2. \A c \in Clients : StageKept(c)
    BY <1>1, <2>1 DEF StageKept
  <2> QED
    BY <1>1, <2>2, StagesStay
<1>3. CASE m_messagesQueue # <<>>
  <2>1. PICK e \in Received : e = Head(m_messagesQueue)
    BY <1>1, <1>3
  <2>2. PICK c \in Clients : c = e.sender
    BY <2>1 DEF Received
  <2>3. /\ Handles(c, e) /\ OnMessage(e)
        /\ e.type # "remote" => MessagesOf(c) # <<>> /\ Head(MessagesOf(c)) = e
    BY <1>3, <2>1, <2>2, MessageHandled
  <2>4. \A d \in Clients \ {c} : StageKept(d)
    <3>1. \A d \in Clients \ {c} : client'[d] = client[d]
      BY <2>3 DEF Handles
    <3> QED
      BY <1>1, <3>1 DEF StageKept
  <2>5. /\ client'[c].bConnected = client[c].bConnected /\ client'[c].ps = client[c].ps
        /\ client'[c].net_Accepted = client[c].net_Accepted
        /\ \/ client'[c].owner = client[c].owner
           \/ e.type = "ready" /\ c \in net_players /\ client[c].ps /\ client'[c].owner
    BY <1>1, <2>2, <2>3, MessageFields
  <2>6. CASE StageKept(c)
    <3>1. \A d \in Clients : StageKept(d)
      BY <2>4, <2>6
    <3> QED
      BY <1>1, <3>1, StagesStay
  <2>7. CASE ~StageKept(c)
    <3>1. e.type = "ready" /\ c \in net_players /\ client[c].ps /\ client'[c].owner /\ client'[c].owner # client[c].owner
      BY <1>1, <2>5, <2>7, FieldsKept
    <3>2. ~client[c].owner
      <4>1. client[c].owner \in BOOLEAN /\ client'[c].owner \in BOOLEAN
        BY <1>1, <2>3 DEF TypeOK, Handles, ClientData
      <4> QED
        BY <3>1, <4>1
    <3>3. PICK b \in 0..5 : Batch(c, b)
      BY <3>1 DEF IInv, PerClient, Joining
    <3>4. b = 5
      BY <1>1, <2>3, <3>1, <3>3, EndOfBatch
    <3>5. link[c] \in Links /\ link'[c] = link[c]
      BY <1>1
    <3>6. link[c] \in {"open", "broken", "leaving"}
      BY <2>7, <3>5, OutsidersStay
    <3>7. client[c].net_Accepted /\ client[c].bConnected
      <4>1. client[c].net_Accepted = (b = 5)
        BY <3>3 DEF Batch, Known
      <4>2. client[c].bConnected = (b >= 1)
        <5>1. c = Host => b = 0
          BY <3>3 DEF Batch, Known
        <5>2. c # Host
          BY <3>4, <5>1
        <5> QED
          BY <3>3, <3>6, <5>2 DEF Batch, Known
      <4>3. b = 5 /\ b >= 1
        BY <3>4
      <4> QED
        BY <4>1, <4>2, <4>3
    <3>8. StageFrom(c, link[c], net_players, client[c]) = "accepted"
      BY <3>1, <3>2, <3>5, <3>6, <3>7, StageValues
    <3>9. StageFrom(c, link'[c], net_players', client'[c]) = "spawned"
      <4>1. client'[c].net_Accepted /\ client'[c].bConnected /\ client'[c].ps /\ client'[c].owner
        BY <2>5, <3>1, <3>7
      <4> QED
        BY <1>1, <3>1, <3>5, <3>6, <4>1, StageValues
    <3>10. stage[c] = "accepted" /\ stage' = [stage EXCEPT ![c] = "spawned"]
      BY <2>4, <3>8, <3>9, StageMoves
    <3>11. S!Spawn(c)
      BY <3>10 DEF S!Spawn, S!To
    <3> QED
      BY <1>1, <3>11 DEF S!Next
  <2> QED
    BY <2>6, <2>7
<1> QED
  BY <1>2, <1>3

(* A client who takes part has reached what he is in the batch of.         *)
LEMMA StageOfBatch ==
  ASSUME NEW c \in Clients, NEW b \in 0..5, Batch(c, b), link[c] \in {"open", "broken", "leaving"}, c # Host
  PROVE  /\ client[c].bConnected = (b >= 1) /\ client[c].net_Accepted = (b = 5)
         /\ b >= 2 => client[c].ps
         /\ b = 0 => ~client[c].ps
         /\ client[c].owner => b = 5
BY DEF Batch, Known

(* A delayed packet shows when its sender is accepted.                     *)
LEMMA PacketSession ==
  ASSUME IInv, ProceedDelayedPackets
  PROVE  S!Next \/ (stage' = stage /\ m_max_players' = m_max_players)
<1>1. /\ TypeOK /\ link' = link /\ net_players' = net_players /\ m_max_players' = m_max_players
      /\ m_aDelayedPackets \in Seq(Received) /\ failed = "no" /\ link \in [Clients -> Links]
      /\ client \in [Clients -> ClientData]
  BY DEF IInv, Control, TypeOK, ProceedDelayedPackets, Main, slots
<1>2. CASE client' = client
  <2>1. \A c \in Clients : StageKept(c)
    BY <1>1, <1>2 DEF StageKept
  <2> QED
    BY <1>1, <2>1, StagesStay
<1>3. CASE client' # client
  <2>1. phase = "packets" /\ m_aDelayedPackets # <<>> /\ OnDelayedMessage(Head(m_aDelayedPackets))
    BY <1>3 DEF ProceedDelayedPackets
  <2>2. PICK e \in Received : e = Head(m_aDelayedPackets)
    BY <1>1, <2>1
  <2>3. PICK c \in Clients : c = e.sender
    BY <2>2 DEF Received
  <2>4. c \in net_players /\ e.type = "request" /\ client' = [client EXCEPT ![c].net_Accepted = TRUE]
    BY <1>3, <2>1, <2>2, <2>3 DEF OnDelayedMessage, OnCL_Connected, Fails
  <2>5. /\ client'[c].bConnected = client[c].bConnected /\ client'[c].ps = client[c].ps
        /\ client'[c].net_Accepted /\ client'[c].owner = client[c].owner
        /\ \A d \in Clients \ {c} : client'[d] = client[d]
    BY <1>1, <2>4 DEF ClientData
  <2>6. \A d \in Clients \ {c} : StageKept(d)
    BY <1>1, <2>5 DEF StageKept
  <2>7. CASE StageKept(c)
    <3>1. \A d \in Clients : StageKept(d)
      BY <2>6, <2>7
    <3> QED
      BY <1>1, <3>1, StagesStay
  <2>8. CASE ~StageKept(c)
    <3>1. PICK b \in 0..5 : Batch(c, b)
      BY <2>4 DEF IInv, PerClient, Joining
    <3>2. PacketsOf(c) # <<>>
      <4>1. e \in Of(c)
        BY <2>2, <2>3, <2>4 DEF Of
      <4>2. handling = Nobody
        BY <1>1, <2>1 DEF IInv, Control, Sound, Handing
      <4>3. PacketsOf(c) = Filtered(m_aDelayedPackets, Of(c))
        BY <1>1, <4>2, NothingHandled
      <4>4. Filtered(m_aDelayedPackets, Of(c)) # <<>>
        BY <1>1, <2>1, <2>2, <4>1, FilteredTail
      <4> QED
        BY <4>3, <4>4
    <3>3. b = 4
      BY <1>1, <3>1, <3>2 DEF Batch, Line
    <3>4. link[c] \in Links /\ link'[c] = link[c] /\ link[c] \in {"open", "broken", "leaving"}
      BY <1>1, <2>8, OutsidersStay
    <3>5. c # Host
      BY <3>1, <3>3 DEF Batch, Known
    <3>6. client[c].bConnected /\ client[c].ps /\ ~client[c].net_Accepted /\ ~client[c].owner
      <4>1. b >= 1 /\ b >= 2 /\ b # 5
        BY <3>3
      <4> QED
        BY <3>1, <3>4, <3>5, <4>1, StageOfBatch
    <3>7. StageFrom(c, link[c], net_players, client[c]) = "identified"
      BY <2>4, <3>4, <3>6, StageValues
    <3>8. StageFrom(c, link'[c], net_players', client'[c]) = "accepted"
      <4>1. client'[c].net_Accepted /\ client'[c].bConnected /\ client'[c].ps /\ ~client'[c].owner
        BY <2>5, <3>6
      <4> QED
        BY <1>1, <2>4, <3>4, <4>1, StageValues, ZenonT(60)
    <3>9. stage[c] = "identified" /\ stage' = [stage EXCEPT ![c] = "accepted"]
      BY <2>6, <3>7, <3>8, StageMoves
    <3>10. S!Accept(c)
      BY <3>9 DEF S!Accept, S!To
    <3> QED
      BY <1>1, <3>10 DEF S!Next
  <2> QED
    BY <2>7, <2>8
<1> QED
  BY <1>2, <1>3

(* An event shows when a client is attached or gets his state.             *)
LEMMA EventSession ==
  ASSUME IInv, ProcessDelayedEvent
  PROVE  S!Next \/ (stage' = stage /\ m_max_players' = m_max_players)
<1>1. /\ TypeOK /\ link' = link /\ net_players' = net_players /\ m_max_players' = m_max_players /\ HostFirst
      /\ events \in Seq(Received) /\ failed = "no" /\ job["main"] = Idle /\ link \in [Clients -> Links]
      /\ client \in [Clients -> ClientData]
  BY DEF IInv, Control, TypeOK, ProcessDelayedEvent, Main, slots
<1>2. CASE client' = client
  <2>1. \A c \in Clients : StageKept(c)
    BY <1>1, <1>2 DEF StageKept
  <2> QED
    BY <1>1, <2>1, StagesStay
<1>3. CASE client' # client
  <2>1. events # <<>> /\ OnEvent(Head(events))
    BY <1>3 DEF ProcessDelayedEvent
  <2>2. PICK e \in Received : e = Head(events)
    BY <1>1, <2>1
  <2>3. PICK c \in Clients : c = e.sender
    BY <2>2 DEF Received
  <2>4. /\ Handles(c, e) /\ EventsOf(c) # <<>> /\ Head(EventsOf(c)) = e /\ c \in net_players
        /\ e.type \in {"create", "state", "auth"}
    BY <1>1, <1>3, <2>1, <2>2, <2>3, EventEffects
  <2>5. \A d \in Clients \ {c} : StageKept(d)
    <3>1. \A d \in Clients \ {c} : client'[d] = client[d]
      BY <2>4 DEF Handles
    <3> QED
      BY <1>1, <3>1 DEF StageKept
  <2>6. CASE StageKept(c)
    <3>1. \A d \in Clients : StageKept(d)
      BY <2>5, <2>6
    <3> QED
      BY <1>1, <3>1, StagesStay
  <2>7. CASE ~StageKept(c)
    <3>1. PICK b \in 0..5 : Batch(c, b)
      BY <2>4 DEF IInv, PerClient, Joining
    <3>2. /\ b = 0 <=> e.type = "create"
          /\ b = 1 <=> e.type \in {"state", "auth"}
      BY <1>1, <2>4, <3>1, FirstEvent
    <3>3. link[c] \in Links /\ link'[c] = link[c] /\ link[c] \in {"open", "broken", "leaving"}
      BY <1>1, <2>7, OutsidersStay
    <3>4. /\ client[c].bConnected \in BOOLEAN /\ client'[c].bConnected \in BOOLEAN
          /\ client[c].ps \in BOOLEAN /\ client'[c].ps \in BOOLEAN
          /\ client[c].net_Accepted \in BOOLEAN /\ client[c].owner \in BOOLEAN
      BY <1>1, <2>4 DEF Handles, ClientData
    <3>5. ~client[c].net_Accepted /\ ~client[c].owner
      <4>1. client[c].net_Accepted = (b = 5) /\ (client[c].owner => b = 5) /\ b # 5
        BY <2>4, <3>1, <3>2 DEF Batch, Known
      <4> QED
        BY <4>1
    <3>6. CASE e.type = "create"
      <4>1. AttachNewClient(c) /\ ~client[c].ps
        BY <2>1, <2>2, <2>3, <2>4, <3>1, <3>2, <3>6 DEF OnEvent, Batch, Known
      <4>2. client'[c].bConnected /\ client'[c].ps = client[c].ps /\ client'[c].net_Accepted = client[c].net_Accepted
            /\ client'[c].owner = client[c].owner
        <5>1. CASE c = Host
          <6>1. client' = [client EXCEPT ![c].bConnected = TRUE]
            BY <4>1, <5>1 DEF AttachNewClient, Attached
          <6> QED
            BY <1>1, <6>1 DEF ClientData
        <5>2. CASE c # Host
          BY <1>1, <4>1, <5>2, Attachment
        <5> QED
          BY <5>1, <5>2
      <4>3. ~client[c].bConnected
        BY <1>1, <2>7, <3>3, <3>4, <4>2, FieldsKept
      <4>4. StageFrom(c, link[c], net_players, client[c]) = "registered"
        BY <2>4, <3>3, <4>3, StageValues
      <4>5. StageFrom(c, link'[c], net_players', client'[c]) = "attached"
        <5>1. client'[c].bConnected /\ ~client'[c].ps
          BY <4>1, <4>2
        <5> QED
          BY <1>1, <2>4, <3>3, <5>1, StageValues
      <4>6. stage[c] = "registered" /\ stage' = [stage EXCEPT ![c] = "attached"]
        BY <2>5, <4>4, <4>5, StageMoves
      <4>7. c # Host => stage[Host] = "attached"
        <5>1. SUFFICES ASSUME c # Host PROVE stage[Host] = "attached"
          OBVIOUS
        <5>2. events[1] = e /\ 1 \in 1..Len(events) /\ ~\E j \in 1..Len(events) : j < 1
          BY <1>1, <2>1, <2>2
        <5>3. client[Host].bConnected
          BY <1>1, <2>3, <3>6, <5>1, <5>2 DEF HostFirst, Creates
        <5>4. Host \in net_players /\ link[Host] = "open" /\ Host \in Clients
          BY <1>1, <5>3, JobTypes DEF HostFirst
        <5>5. PICK d \in 0..5 : Batch(Host, d)
          BY <5>4 DEF IInv, PerClient, Joining
        <5>6. ~client[Host].ps
          BY <5>5 DEF Batch, Known
        <5>7. "open" \in Links
          BY DEF Links
        <5>8. StageFrom(Host, "open", net_players, client[Host]) = "attached"
          BY <5>3, <5>4, <5>6, <5>7, StageValues
        <5> QED
          BY <5>4, <5>8, Stages
      <4>8. S!Attach(c)
        BY <4>6, <4>7 DEF S!Attach, S!To
      <4> QED
        BY <1>1, <4>8 DEF S!Next
    <3>7. CASE e.type = "state"
      <4>1. client' = [client EXCEPT ![c].ps = TRUE]
        BY <2>1, <2>2, <2>3, <2>4, <3>7 DEF OnEvent, CreatePlayerState
      <4>2. /\ client'[c].ps /\ client'[c].bConnected = client[c].bConnected
            /\ client'[c].net_Accepted = client[c].net_Accepted /\ client'[c].owner = client[c].owner
        BY <1>1, <4>1 DEF ClientData
      <4>3. ~client[c].ps
        BY <1>1, <2>7, <3>3, <3>4, <4>2, FieldsKept
      <4>4. client[c].bConnected
        <5>1. c # Host /\ b >= 1
          BY <3>1, <3>2, <3>7 DEF Batch, Known
        <5> QED
          BY <3>1, <3>3, <5>1, StageOfBatch
      <4>5. StageFrom(c, link[c], net_players, client[c]) = "attached"
        BY <2>4, <3>3, <4>3, <4>4, StageValues
      <4>6. StageFrom(c, link'[c], net_players', client'[c]) = "identified"
        <5>1. client'[c].bConnected /\ client'[c].ps /\ ~client'[c].net_Accepted
          BY <3>5, <4>2, <4>4
        <5> QED
          BY <1>1, <2>4, <3>3, <5>1, StageValues
      <4>7. stage[c] = "attached" /\ stage' = [stage EXCEPT ![c] = "identified"]
        BY <2>5, <4>5, <4>6, StageMoves
      <4>8. S!Identify(c)
        BY <4>7 DEF S!Identify, S!To
      <4> QED
        BY <1>1, <4>8 DEF S!Next
    <3>8. CASE e.type = "auth"
      <4>1. RequestClientDigest(c)
        BY <1>3, <2>1, <2>2, <2>3, <2>4, <3>8 DEF OnEvent, Turned
      <4>2. client[c].m_last_key_sync_request_seed = 1
        BY <3>1, <3>2, <3>8 DEF Batch, Known
      <4>3. /\ client'[c].bConnected = client[c].bConnected
            /\ client'[c].ps = client[c].ps /\ client'[c].net_Accepted = client[c].net_Accepted
            /\ client'[c].owner = client[c].owner
        BY <1>1, <4>1, <4>2, Request
      <4> QED
        BY <1>1, <2>7, <3>3, <4>3, FieldsKept
    <3> QED
      BY <2>4, <3>6, <3>7, <3>8
  <2> QED
    BY <2>6, <2>7
<1> QED
  BY <1>2, <1>3

(* The steps that a connection's stage does not show.                      *)
LEMMA HiddenSession ==
  ASSUME IInv,
         \/ \E c \in Clients : \/ Connect(c) \/ ClientReceive(c) \/ Command(c) \/ Leave(c)
                               \/ OnSteamNetConnectionStatusChanged(c) \/ Execute(c) \/ Kick(c)
         \/ \E t \in Threads : FindSlot(t) \/ client_Destroy(t)
         \/ NextFrame
         \/ UNCHANGED vars
  PROVE  stage' = stage /\ m_max_players' = m_max_players
<1>1. link \in [Clients -> Links]
  <2>1. IInv => TypeOK
    BY DEF IInv, Control
  <2> QED
    BY <2>1 DEF TypeOK
<1>2. UNCHANGED <<m_max_players, net_players, client>>
  BY DEF Connect, ClientReceive, Command, Leave, OnSteamNetConnectionStatusChanged, Execute, Kick, FindSlot,
         client_Destroy, NextFrame, vars, slots, registry
<1>3. CASE link' = link
  <2>1. \A c \in Clients : StageKept(c)
    BY <1>2, <1>3 DEF StageKept
  <2> QED
    BY <1>2, <2>1, StagesStay
<1>4. CASE link' # link
  <2>1. PICK c \in Clients : Connect(c) \/ Leave(c) \/ OnSteamNetConnectionStatusChanged(c)
    BY <1>4 DEF ClientReceive, Command, Execute, Kick, FindSlot, client_Destroy, NextFrame, vars
  <2>2. \E l \in Links :
          /\ link' = [link EXCEPT ![c] = l]
          /\ \/ link[c] \in {"none", "connecting"} /\ l \in {"connecting", "lost"}
             \/ link[c] \in {"open", "broken"} /\ l \in {"broken", "leaving"}
    BY <2>1 DEF Connect, Leave, OnSteamNetConnectionStatusChanged, Links
  <2>3. PICK l \in Links :
          /\ link' = [link EXCEPT ![c] = l]
          /\ \/ link[c] \in {"none", "connecting"} /\ l \in {"connecting", "lost"}
             \/ link[c] \in {"open", "broken"} /\ l \in {"broken", "leaving"}
    BY <2>2
  <2>4. link'[c] = l /\ link[c] \in Links /\ \A d \in Clients \ {c} : link'[d] = link[d]
    BY <1>1, <2>3
  <2>5. \A d \in Clients \ {c} : StageKept(d)
    BY <1>2, <2>4 DEF StageKept
  <2>6. StageFrom(c, l, net_players, client[c]) = StageFrom(c, link[c], net_players, client[c])
    <3>1. CASE link[c] \in {"none", "connecting"} /\ l \in {"connecting", "lost"}
      BY <2>4, <3>1, StageValues
    <3>2. CASE link[c] \in {"open", "broken"} /\ l \in {"broken", "leaving"}
      BY <3>2 DEF StageFrom
    <3> QED
      BY <2>3, <3>1, <3>2
  <2>7. StageKept(c)
    BY <1>2, <2>4, <2>6 DEF StageKept
  <2>8. \A d \in Clients : StageKept(d)
    BY <2>5, <2>7
  <2> QED
    BY <1>2, <2>8, StagesStay
<1> QED
  BY <1>3, <1>4

(* Every step is one of a session, or does not show.                       *)
LEMMA NextSession ==
  ASSUME IInv, [Next]_vars
  PROVE  [S!Next]_<<stage, m_max_players>>
<1> SUFFICES S!Next \/ (stage' = stage /\ m_max_players' = m_max_players)
  OBVIOUS
<1>1. CASE \E c \in Clients : ProcessConnection(c)
  BY <1>1, ProcessConnectionSession
<1>2. CASE \E c \in Clients : \/ Connect(c) \/ ClientReceive(c) \/ Command(c) \/ Leave(c)
                              \/ OnSteamNetConnectionStatusChanged(c) \/ Execute(c) \/ Kick(c)
  BY <1>2, HiddenSession
<1>3. CASE \E t \in Threads : DisconnectClient(t)
  <2>1. PICK t \in Threads : DisconnectClient(t)
    BY <1>3
  <2>2. CASE FindSlot(t) \/ client_Destroy(t)
    BY <2>2, HiddenSession
  <2>3. CASE CloseConnection(t)
    BY <2>3, CloseConnectionSession
  <2>4. CASE DestroyCleint(t) \/ FindAndEraseClient(t)
    BY <2>4, DestroySession
  <2> QED
    BY <2>1, <2>2, <2>3, <2>4 DEF DisconnectClient
<1>4. CASE ProcessMessagesQueue
  BY <1>4, MessageSession
<1>5. CASE ProceedDelayedPackets
  BY <1>5, PacketSession
<1>6. CASE ProcessDelayedEvent
  BY <1>6, EventSession
<1>7. CASE NextFrame \/ UNCHANGED vars
  BY <1>7, HiddenSession
<1>8. CASE \E c \in Clients : PollIncomingMessages(c)
  BY <1>8, PollSession
<1> QED
  BY <1>1, <1>2, <1>3, <1>4, <1>5, <1>6, <1>7, <1>8 DEF Next, NetworkThread, MainThread, Threads

(* At first everybody is outside.                                          *)
LEMMA InitSession == Init => S!Init
<1> SUFFICES ASSUME Init PROVE S!Init
  OBVIOUS
<1>1. link = [c \in Clients |-> "none"]
  BY DEF Init
<1>2. ASSUME NEW c \in Clients PROVE StageFrom(c, link[c], net_players, client[c]) = "outside"
  BY <1>1, StageValues DEF Links
<1>3. stage = [c \in Clients |-> "outside"]
  BY <1>2, Stages
<1> QED
  BY <1>3 DEF S!Init

(* The two threads and the players' programs together are a session as the *)
(* server promises it: every connection goes through the stages of joining *)
(* once and in their order, nobody is attached before the server's own     *)
(* client, there are never more than m_max_players inside, and who is gone *)
(* does not come back.                                                     *)
THEOREM ServerIsASession == Spec => SessionSpec
<1> QED
  BY InitSession, NextSession, Invariance, PTL DEF Spec, SessionSpec, S!Spec
=============================================================================
