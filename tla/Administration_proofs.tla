------------------------ MODULE Administration_proofs ------------------------
(***************************************************************************)
(* What is proved of what administrators use: of the list of bans, for any *)
(* number of addresses, of bans, of stops, crashes and starts; and of the  *)
(* transfers of files (FT) for any number of clients, administrators and   *)
(* proxies.                                                                *)
(***************************************************************************)
EXTENDS BannedList, FileTransferState, Sequences, FiniteSetTheorems, TLAPS

FT == INSTANCE FileTransfer

-----------------------------------------------------------------------------
(* The list of bans.                                                       *)

(* The inductive invariant.  Kept: until the file is overwritten a server  *)
(* that is up has in memory the addresses of the file (a reload may have   *)
(* moved the times), these are the addresses that are banned, and the list *)
(* of a server that could not listen is empty.  Late: a ban in the list or *)
(* in the file ends at most an hour early for each time it has been        *)
(* loaded.                                                                 *)
Kept ==
  ~overwritten =>
    /\ server = "up" => Listed(BannedAddresses) = Listed(file)
    /\ server # "up" => BannedAddresses = {}
    /\ Listed(file) = {a \in Addresses : ordered[a] # 0}

Late ==
  \A b \in BannedAddresses \cup file : b.BanTime + reloads[b.HAddr] >= ordered[b.HAddr]

(* A server that has not been started.                                     *)
LEMMA TypeInit == Init => TypeOK
<1> SUFFICES ASSUME Init PROVE TypeOK
  OBVIOUS
<1>1. overwritten \in BOOLEAN /\ slipped \subseteq Addresses
  BY DEF Init
<1> QED
  BY <1>1 DEF Init, TypeOK

(* Every step keeps the types, and the addresses of the lists differ.      *)
LEMMA TypeStep == ASSUME TypeOK, [Next]_vars PROVE TypeOK'
<1>1. CASE UNCHANGED vars
  BY <1>1 DEF TypeOK, vars, history
<1>2. CASE CreateConnection
  BY <1>2 DEF TypeOK, CreateConnection, history
<1>3. CASE BannedList_Load
  <2>1. PICK s \in [file -> Shifts] :
          BannedAddresses' = {[b EXCEPT !.BanTime = @ + s[b]] : b \in file}
    BY <1>3 DEF BannedList_Load
  <2>2. \A b \in file : s[b] \in Int /\ b \in Bans
    BY <2>1, BansAssumption DEF TypeOK
  <2> DEFINE shifted(b) == [b EXCEPT !.BanTime = @ + s[b]]
  <2>3. \A b \in file : shifted(b) \in Bans /\ shifted(b).HAddr = b.HAddr
    BY <2>2 DEF Bans
  <2>4. BannedAddresses' = {shifted(b) : b \in file}
    BY <2>1
  <2> HIDE DEF shifted
  <2>5. BannedAddresses' \subseteq Bans
    BY <2>3, <2>4
  <2>6. ASSUME NEW b \in BannedAddresses', NEW c \in BannedAddresses', b.HAddr = c.HAddr
        PROVE  b = c
    <3>1. PICK b0 \in file, c0 \in file : b = shifted(b0) /\ c = shifted(c0)
      BY <2>4
    <3>2. b0 = c0
      BY <2>3, <2>6, <3>1 DEF TypeOK
    <3> QED
      BY <3>1, <3>2
  <2>7. slipped' \subseteq Addresses
    BY <1>3 DEF BannedList_Load, TypeOK, Listed, Bans
  <2> QED
    BY <1>3, <2>5, <2>6, <2>7 DEF TypeOK, BannedList_Load
<1>4. ASSUME NEW a \in Addresses, NEW t \in BanTimes, BanAddress(a, t) PROVE TypeOK'
  <2>1. [HAddr |-> a, BanTime |-> time + t] \in Bans /\ time + t \in Nat
    BY BansAssumption DEF TypeOK, Bans
  <2>2. /\ connection' \in [Addresses -> {"none", "accepted", "registered"}]
        /\ UNCHANGED <<server, time, starts>> /\ slipped' \subseteq Addresses
    BY <1>4 DEF TypeOK, BanAddress
  <2>3. CASE GetBannedClient(a)
    BY <1>4, <2>2, <2>3 DEF TypeOK, BanAddress, Ban
  <2>4. CASE ~GetBannedClient(a)
    <3>1. /\ BannedAddresses' = BannedAddresses \cup {[HAddr |-> a, BanTime |-> time + t]}
          /\ file' = BannedAddresses'
          /\ ordered' = [ordered EXCEPT ![a] = time + t]
          /\ reloads' = [reloads EXCEPT ![a] = 0] /\ overwritten' \in BOOLEAN
      BY <1>4, <2>4 DEF BanAddress, Ban, Changed, Save, TypeOK
    <3>2. \A b \in BannedAddresses : b.HAddr # a
      BY <2>4 DEF GetBannedClient, Listed
    <3>3. \A b, c \in BannedAddresses' : b.HAddr = c.HAddr => b = c
      BY <3>1, <3>2 DEF TypeOK
    <3> QED
      BY <2>1, <2>2, <3>1, <3>3 DEF TypeOK
  <2> QED
    BY <2>3, <2>4
<1>5. ASSUME NEW a \in Addresses, Lifted(a), UNCHANGED <<server, connection, time, starts, reloads, slipped>>
      PROVE  TypeOK'
  BY <1>5 DEF TypeOK, Lifted, Changed, Save
<1>6. ASSUME NEW a \in Addresses, UnBanAddress(a) PROVE TypeOK'
  BY <1>5, <1>6 DEF UnBanAddress
<1>7. CASE UpdateBannedList
  <2>1. \A b \in BannedAddresses : b.HAddr \in Addresses
    BY DEF TypeOK, Bans
  <2> QED
    BY <1>5, <1>7, <2>1 DEF UpdateBannedList
<1>8. CASE Disconnect \/ Crash
  BY <1>8 DEF TypeOK, Disconnect, Crash, Stopped, Save
<1>9. CASE Tick
  BY <1>9 DEF TypeOK, Tick, history
<1>10. ASSUME NEW a \in Addresses, ProcessConnection(a) \/ FinishConnection(a) \/ Leave(a)
       PROVE  TypeOK'
  BY <1>10 DEF TypeOK, ProcessConnection, FinishConnection, Leave, history
<1> QED
  BY <1>1, <1>2, <1>3, <1>4, <1>6, <1>7, <1>8, <1>9, <1>10 DEF Next

(* The list and the file have one ban for an address, whatever happens.    *)
THEOREM TypeCorrect == Spec => []TypeOK
BY TypeInit, TypeStep, PTL DEF Spec

(* The addresses of a list that a reload has shifted.                      *)
LEMMA ListedShifted ==
  ASSUME NEW f \in SUBSET Bans, NEW s \in [f -> Shifts]
  PROVE  Listed({[b EXCEPT !.BanTime = @ + s[b]] : b \in f}) = Listed(f)
<1> DEFINE shifted(b) == [b EXCEPT !.BanTime = @ + s[b]]
<1>1. \A b \in f : shifted(b).HAddr = b.HAddr
  BY DEF Bans
<1> HIDE DEF shifted
<1>2. {shifted(b).HAddr : b \in f} = {b.HAddr : b \in f}
  BY <1>1
<1>3. {c.HAddr : c \in {shifted(b) : b \in f}} = {shifted(b).HAddr : b \in f}
  OBVIOUS
<1> QED
  BY <1>2, <1>3 DEF Listed, shifted

(* No file, no bans.                                                       *)
LEMMA KeptInit == Init => Kept
BY DEF Init, Kept, Listed

(* A ban is lifted in memory and in the file.                              *)
LEMMA KeptLifted ==
  ASSUME TypeOK, Kept, NEW a \in Addresses, Runs, GetBannedClient(a), UNCHANGED server, Lifted(a)
  PROVE  Kept'
<1> SUFFICES ASSUME ~overwritten' PROVE Kept'
  BY DEF Kept
<1>0. server = "up" /\ ~overwritten
  BY DEF Lifted, Changed, Save, Runs, Kept, GetBannedClient, Listed
<1>1. /\ Listed(file) = Listed(BannedAddresses)
      /\ BannedAddresses' = {b \in BannedAddresses : b.HAddr # a} /\ file' = BannedAddresses'
  BY <1>0 DEF Kept, Lifted, Changed, Save
<1>2. Listed(file') = Listed(file) \ {a}
  BY <1>1 DEF Listed
<1>3. {x \in Addresses : ordered'[x] # 0} = {x \in Addresses : ordered[x] # 0} \ {a}
  BY DEF Lifted, TypeOK
<1> QED
  BY <1>0, <1>1, <1>2, <1>3 DEF Kept, Listed

(* Every step keeps the list and its file together.                        *)
LEMMA KeptStep == ASSUME TypeOK, Kept, [Next]_vars PROVE Kept'
<1>1. CASE UNCHANGED vars
  BY <1>1 DEF Kept, vars, history, Listed
<1>2. CASE CreateConnection
  BY <1>2 DEF Kept, CreateConnection, history, Listed
<1>3. CASE BannedList_Load
  <2>1. PICK s \in [file -> Shifts] :
          BannedAddresses' = {[b EXCEPT !.BanTime = @ + s[b]] : b \in file}
    BY <1>3 DEF BannedList_Load
  <2>2. Listed(BannedAddresses') = Listed(file)
    BY <2>1, ListedShifted DEF TypeOK
  <2>3. file' = file /\ ordered' = ordered /\ server' = "up" /\ overwritten' = overwritten
    BY <1>3 DEF BannedList_Load
  <2> QED
    BY <2>2, <2>3 DEF Kept, Listed
<1>4. ASSUME NEW a \in Addresses, NEW t \in BanTimes, BanAddress(a, t) PROVE Kept'
  <2>1. server' = server /\ Runs /\ Ban(a, t)
    BY <1>4 DEF BanAddress
  <2>2. CASE GetBannedClient(a)
    BY <2>1, <2>2 DEF Kept, Ban, Listed
  <2>3. CASE ~GetBannedClient(a) /\ ~overwritten'
    <3>0. server = "up" /\ ~overwritten /\ Listed(BannedAddresses) = Listed(file)
      BY <2>1, <2>3 DEF Ban, Changed, Save, Runs, Kept
    <3>1. /\ BannedAddresses' = BannedAddresses \cup {[HAddr |-> a, BanTime |-> time + t]}
          /\ file' = BannedAddresses' /\ ordered' = [ordered EXCEPT ![a] = time + t]
      BY <2>1, <2>3 DEF Ban, Changed, Save
    <3> DEFINE new == [HAddr |-> a, BanTime |-> time + t]
    <3>2. Listed(file') = Listed(file) \cup {a}
      <4>1. \A b \in BannedAddresses \cup {new} : b \in BannedAddresses \/ b.HAddr = a
        OBVIOUS
      <4>2. new.HAddr = a
        OBVIOUS
      <4> HIDE DEF new
      <4>3. {b.HAddr : b \in BannedAddresses \cup {new}}
              = {b.HAddr : b \in BannedAddresses} \cup {new.HAddr}
        OBVIOUS
      <4> QED
        BY <3>0, <3>1, <4>2, <4>3 DEF Listed, new
    <3>3. time + t # 0
      BY BansAssumption DEF TypeOK
    <3>4. {x \in Addresses : ordered'[x] # 0} = {x \in Addresses : ordered[x] # 0} \cup {a}
      BY <3>1, <3>3 DEF TypeOK
    <3> QED
      BY <2>1, <3>0, <3>1, <3>2, <3>4 DEF Kept, Listed
  <2> QED
    BY <2>2, <2>3 DEF Kept
<1>5. ASSUME NEW a \in Addresses, UnBanAddress(a) PROVE Kept'
  BY <1>5, KeptLifted DEF UnBanAddress, Kept
<1>6. CASE UpdateBannedList
  <2>1. \A b \in BannedAddresses : b.HAddr \in Addresses
    BY DEF TypeOK, Bans
  <2> QED
    BY <1>6, <2>1, KeptLifted DEF UpdateBannedList, GetBannedClient, Listed
<1>7. CASE Disconnect \/ Crash
  BY <1>7 DEF Kept, Disconnect, Crash, Stopped, Save, Runs, Listed
<1>8. CASE Tick
  BY <1>8 DEF Kept, Tick, history, Listed
<1>9. ASSUME NEW a \in Addresses, ProcessConnection(a) \/ FinishConnection(a) \/ Leave(a)
      PROVE  Kept'
  BY <1>9 DEF Kept, ProcessConnection, FinishConnection, Leave, history, Listed
<1> QED
  BY <1>1, <1>2, <1>3, <1>4, <1>5, <1>6, <1>7, <1>8, <1>9 DEF Next

(* A ban loses at most an hour when the list is loaded, and nothing else.  *)
LEMMA LateStep ==
  ASSUME TypeOK, Late, [Next]_vars
  PROVE  Late'
<1> USE DEF Late
<1>1. CASE UNCHANGED vars
  BY <1>1 DEF vars, history
<1>2. CASE CreateConnection
  BY <1>2 DEF CreateConnection, history
<1>3. CASE BannedList_Load
  <2>1. PICK s \in [file -> Shifts] :
          BannedAddresses' = {[b EXCEPT !.BanTime = @ + s[b]] : b \in file}
    BY <1>3 DEF BannedList_Load
  <2>2. /\ file' = file /\ ordered' = ordered
        /\ reloads' = [a \in Addresses |-> IF a \in Listed(file) THEN reloads[a] + 1 ELSE reloads[a]]
    BY <1>3 DEF BannedList_Load
  <2>3. ASSUME NEW b \in file
        PROVE  /\ s[b] \in Int /\ s[b] >= -1 /\ b.BanTime \in Int
               /\ reloads'[b.HAddr] = reloads[b.HAddr] + 1 /\ reloads[b.HAddr] \in Nat
               /\ ordered[b.HAddr] \in Nat
               /\ b.BanTime + reloads[b.HAddr] >= ordered[b.HAddr]
               /\ [b EXCEPT !.BanTime = @ + s[b]].HAddr = b.HAddr
               /\ [b EXCEPT !.BanTime = @ + s[b]].BanTime = b.BanTime + s[b]
    <3>1. b \in Bans /\ b.HAddr \in Addresses /\ b.HAddr \in Listed(file) /\ s[b] \in -1..1
      BY <2>1, BansAssumption DEF TypeOK, Bans, Listed
    <3> QED
      BY <2>2, <3>1 DEF TypeOK, Bans
  <2>4. \A b \in file : b.BanTime + reloads'[b.HAddr] >= ordered'[b.HAddr]
    BY <2>2, <2>3
  <2>5. \A b \in file : b.BanTime + s[b] + reloads'[b.HAddr] >= ordered'[b.HAddr]
    BY <2>2, <2>3
  <2>6. \A c \in BannedAddresses' : c.BanTime + reloads'[c.HAddr] >= ordered'[c.HAddr]
    <3> SUFFICES ASSUME NEW c \in BannedAddresses'
                 PROVE  c.BanTime + reloads'[c.HAddr] >= ordered'[c.HAddr]
      OBVIOUS
    <3>1. PICK b \in file : c = [b EXCEPT !.BanTime = @ + s[b]]
      BY <2>1
    <3>2. c.HAddr = b.HAddr /\ c.BanTime = b.BanTime + s[b]
      BY <2>3, <3>1
    <3> QED
      BY <2>5, <3>2
  <2> QED
    BY <2>2, <2>4, <2>6
<1>4. ASSUME NEW a \in Addresses, NEW t \in BanTimes, BanAddress(a, t) PROVE Late'
  <2>1. CASE GetBannedClient(a)
    BY <1>4, <2>1 DEF BanAddress, Ban
  <2>2. CASE ~GetBannedClient(a)
    <3>1. /\ BannedAddresses' = BannedAddresses \cup {[HAddr |-> a, BanTime |-> time + t]}
          /\ file' = BannedAddresses'
          /\ ordered' = [ordered EXCEPT ![a] = time + t]
          /\ reloads' = [reloads EXCEPT ![a] = 0]
      BY <1>4, <2>2 DEF BanAddress, Ban, Changed, Save
    <3>2. \A b \in BannedAddresses : b.HAddr # a /\ b.HAddr \in Addresses
      BY <2>2 DEF GetBannedClient, Listed, TypeOK, Bans
    <3>3. \A b \in BannedAddresses : b.BanTime + reloads'[b.HAddr] >= ordered'[b.HAddr]
      BY <3>1, <3>2 DEF TypeOK
    <3>4. time + t + reloads'[a] >= ordered'[a]
      BY <3>1, BansAssumption DEF TypeOK
    <3> QED
      BY <3>1, <3>3, <3>4
  <2> QED
    BY <2>1, <2>2
<1>5. ASSUME NEW a \in Addresses, Lifted(a), UNCHANGED reloads PROVE Late'
  <2>1. \A b \in BannedAddresses : b.HAddr \in Addresses
    BY DEF TypeOK, Bans
  <2> QED
    BY <1>5, <2>1 DEF Lifted, Changed, Save, TypeOK
<1>6. ASSUME NEW a \in Addresses, UnBanAddress(a) PROVE Late'
  BY <1>5, <1>6 DEF UnBanAddress
<1>7. CASE UpdateBannedList
  <2>1. \A b \in BannedAddresses : b.HAddr \in Addresses
    BY DEF TypeOK, Bans
  <2> QED
    BY <1>5, <1>7, <2>1 DEF UpdateBannedList
<1>8. CASE Disconnect \/ Crash
  BY <1>8 DEF Disconnect, Crash, Stopped, Save
<1>9. CASE Tick
  BY <1>9 DEF Tick, history
<1>10. ASSUME NEW a \in Addresses, ProcessConnection(a) \/ FinishConnection(a) \/ Leave(a)
       PROVE  Late'
  BY <1>10 DEF ProcessConnection, FinishConnection, Leave, history
<1> QED
  BY <1>1, <1>2, <1>3, <1>4, <1>6, <1>7, <1>8, <1>9, <1>10 DEF Next

(* Who has been banned stays banned through stops, crashes and starts, and *)
(* who has been pardoned stays so, until a server that could not listen    *)
(* writes its list over the file.                                          *)
THEOREM BansAreKept == Spec => []BansKept
<1>1. Init => TypeOK /\ Kept
  BY TypeInit, KeptInit
<1>2. TypeOK /\ Kept /\ [Next]_vars => (TypeOK /\ Kept)'
  BY TypeStep, KeptStep
<1>3. Kept => BansKept
  BY DEF Kept, BansKept
<1> QED
  BY <1>1, <1>2, <1>3, PTL DEF Spec

(* UpdateBannedList lifts no ban before its time but for an hour for each  *)
(* time the list has been loaded.                                          *)
THEOREM BansLastTheirTime == Spec => NotLiftedEarly
<1>1. Init => Late
  BY DEF Init, Late
<1>2. TypeOK /\ Late /\ [Next]_vars => Late'
  BY LateStep
<1>3. ASSUME TypeOK, Late, UpdateBannedList, NEW a \in Addresses, ordered'[a] # ordered[a]
      PROVE  time + reloads[a] > ordered[a]
  <2>1. PICK b \in BannedAddresses : b.BanTime < time /\ Lifted(b.HAddr)
    BY <1>3 DEF UpdateBannedList
  <2>2. b.HAddr = a
    BY <1>3, <2>1 DEF Lifted, TypeOK
  <2>3. b.BanTime + reloads[a] >= ordered[a] /\ b.BanTime \in Int
    BY <1>3, <2>2 DEF Late, TypeOK, Bans
  <2>4. time \in Nat /\ reloads[a] \in Nat /\ ordered[a] \in Nat
    BY <1>3 DEF TypeOK
  <2>5. b.BanTime < time
    BY <2>1
  <2> QED
    BY <2>3, <2>4, <2>5
<1>4. TypeOK /\ Late =>
        [UpdateBannedList => \A a \in Addresses : ordered'[a] # ordered[a] =>
                               time + reloads[a] > ordered[a]]_vars
  BY <1>3
<1>5. Spec => []TypeOK
  BY TypeCorrect
<1> QED
  BY <1>1, <1>2, <1>4, <1>5, PTL DEF Spec, NotLiftedEarly

(* Who is banned and plays has slipped in.                                 *)
Out ==
  /\ \A a \in Addresses : GetBannedClient(a) /\ connection[a] # "none" => a \in slipped
  /\ server # "up" /\ server # "failed" => BannedAddresses = {}

(* Who is let in is not banned; who is banned and registered is thrown out.*)
LEMMA OutStep == ASSUME TypeOK, Out, [Next]_vars PROVE Out'
<1> USE DEF Out, GetBannedClient
<1>1. CASE UNCHANGED vars
  BY <1>1 DEF vars, history, Listed
<1>2. CASE CreateConnection \/ Tick
  BY <1>2 DEF CreateConnection, Tick, history, Listed
<1>3. CASE BannedList_Load
  <2>1. Listed(BannedAddresses') = Listed(file)
    BY <1>3, ListedShifted DEF BannedList_Load, TypeOK
  <2> QED
    BY <1>3, <2>1 DEF BannedList_Load, Listed
<1>4. ASSUME NEW a \in Addresses, NEW t \in BanTimes, BanAddress(a, t) PROVE Out'
  <2>1. /\ Listed(BannedAddresses') \subseteq Listed(BannedAddresses) \cup {a}
        /\ server' = server /\ Runs
    BY <1>4 DEF BanAddress, Ban, Changed, Listed
  <2>2. /\ connection' = [connection EXCEPT ![a] = IF @ = "registered" THEN "none" ELSE @]
        /\ slipped' = IF connection[a] = "accepted" THEN slipped \cup {a} ELSE slipped \ {a}
        /\ connection \in [Addresses -> {"none", "accepted", "registered"}]
    BY <1>4 DEF BanAddress, TypeOK
  <2> QED
    BY <2>1, <2>2 DEF Runs, Listed
<1>5. ASSUME NEW a \in Addresses, Runs, Lifted(a), UNCHANGED <<server, connection, slipped>>
      PROVE  Out'
  <2>1. Listed(BannedAddresses') \subseteq Listed(BannedAddresses)
    BY <1>5 DEF Lifted, Changed, Listed
  <2> QED
    BY <1>5, <2>1 DEF Runs, Listed
<1>6. ASSUME NEW a \in Addresses, UnBanAddress(a) PROVE Out'
  BY <1>5, <1>6 DEF UnBanAddress
<1>7. CASE UpdateBannedList
  <2>1. \A b \in BannedAddresses : b.HAddr \in Addresses
    BY DEF TypeOK, Bans
  <2> QED
    BY <1>5, <1>7, <2>1 DEF UpdateBannedList
<1>8. CASE Disconnect \/ Crash
  BY <1>8 DEF Disconnect, Crash, Stopped, Listed
<1>9. ASSUME NEW a \in Addresses, ProcessConnection(a) \/ FinishConnection(a) \/ Leave(a)
      PROVE  Out'
  BY <1>9 DEF ProcessConnection, FinishConnection, Leave, history, Listed, TypeOK
<1> QED
  BY <1>1, <1>2, <1>3, <1>4, <1>6, <1>7, <1>8, <1>9 DEF Next

(* Nobody who is banned plays but those whom the ban found between the     *)
(* letting in and the registration, or who came before the list was loaded. *)
THEOREM TheBannedStayOut == Spec => []BannedStaysOut
<1>1. Init => TypeOK /\ Out
  BY TypeInit DEF Init, Out, GetBannedClient, Listed
<1>2. TypeOK /\ Out /\ [Next]_vars => (TypeOK /\ Out)'
  BY TypeStep, OutStep
<1>3. Out => BannedStaysOut
  BY DEF Out, BannedStaysOut
<1> QED
  BY <1>1, <1>2, <1>3, PTL DEF Spec

-----------------------------------------------------------------------------
(* The transfers of files.                                                 *)

-----------------------------------------------------------------------------
(* A queue of messages of whatever form.                                   *)
IsQueue(q) == q \in Seq({q[i] : i \in DOMAIN q})

(* What is known of a queue.                                               *)
LEMMA QueueShape ==
  ASSUME NEW q, IsQueue(q)
  PROVE  Len(q) \in Nat /\ DOMAIN q = 1..Len(q) /\ (q = <<>> <=> Len(q) = 0)
BY DEF IsQueue

(* What makes a queue.                                                     *)
LEMMA QueueMade ==
  ASSUME NEW q, NEW n \in Nat, DOMAIN q = 1..n, q = [i \in DOMAIN q |-> q[i]]
  PROVE  IsQueue(q) /\ Len(q) = n
<1> DEFINE S == {q[i] : i \in DOMAIN q}
<1>1. q \in [1..n -> S]
  OBVIOUS
<1> HIDE DEF S
<1>2. q \in Seq(S) /\ Len(q) = n
  BY <1>1
<1> QED
  BY <1>2 DEF IsQueue, S

(* Every sequence is one.                                                  *)
LEMMA SequenceIsQueue == ASSUME NEW S, NEW q \in Seq(S) PROVE IsQueue(q)
<1>1. q \in [1..Len(q) -> S] /\ Len(q) \in Nat
  OBVIOUS
<1> QED
  BY <1>1, QueueMade

(* Queues have few messages.                                               *)
LEMMA ShortQueues ==
  /\ IsQueue(<<>>) /\ Len(<<>>) = 0
  /\ \A m : IsQueue(<<m>>) /\ Len(<<m>>) = 1 /\ <<m>>[1] = m
<1>1. ASSUME NEW m PROVE IsQueue(<<m>>) /\ Len(<<m>>) = 1 /\ <<m>>[1] = m
  BY QueueMade DEF IsQueue
<1>2. IsQueue(<<>>)
  BY DEF IsQueue
<1> QED
  BY <1>1, <1>2

(* A queue that is appended to another.                                    *)
LEMMA QueueConcat ==
  ASSUME NEW q, NEW r, IsQueue(q), IsQueue(r)
  PROVE  /\ IsQueue(q \o r) /\ Len(q \o r) = Len(q) + Len(r)
         /\ \A i \in 1..Len(q) : (q \o r)[i] = q[i]
         /\ \A i \in 1..Len(r) : (q \o r)[Len(q) + i] = r[i]
         /\ \A i \in (Len(q) + 1)..(Len(q) + Len(r)) : (q \o r)[i] = r[i - Len(q)]
<1> DEFINE S == {q[i] : i \in DOMAIN q} \cup {r[i] : i \in DOMAIN r}
           Q == {q[i] : i \in DOMAIN q}
           R == {r[i] : i \in DOMAIN r}
<1>0. q \in Seq(Q) /\ r \in Seq(R) /\ S = Q \cup R
  BY DEF IsQueue
<1> HIDE DEF S, Q, R
<1>1. q \in Seq(S) /\ r \in Seq(S)
  BY <1>0
<1>2. q \o r \in Seq(S) /\ Len(q \o r) = Len(q) + Len(r) /\ Len(q) \in Nat /\ Len(r) \in Nat
  BY <1>1
<1>3. IsQueue(q \o r)
  BY <1>2, SequenceIsQueue
<1> QED
  BY <1>1, <1>2, <1>3

(* Nothing is appended.                                                    *)
LEMMA QueueNothing == ASSUME NEW q, IsQueue(q) PROVE q \o <<>> = q
<1> DEFINE S == {q[i] : i \in DOMAIN q}
<1>0. q \in Seq(S)
  BY DEF IsQueue
<1> HIDE DEF S
<1> QED
  BY <1>0

(* A queue without its first message.                                      *)
LEMMA QueueTail ==
  ASSUME NEW q, IsQueue(q), q # <<>>
  PROVE  /\ IsQueue(Tail(q)) /\ Len(q) \in Nat \ {0} /\ Len(Tail(q)) = Len(q) - 1
         /\ \A i \in 1..(Len(q) - 1) : Tail(q)[i] = q[i + 1]
         /\ Head(q) = q[1]
<1> DEFINE S == {q[i] : i \in DOMAIN q}
<1>0. q \in Seq(S)
  BY DEF IsQueue
<1> HIDE DEF S
<1>1. Tail(q) \in Seq(S) /\ Len(q) \in Nat \ {0} /\ Len(Tail(q)) = Len(q) - 1
  BY <1>0
<1>2. IsQueue(Tail(q))
  BY <1>1, SequenceIsQueue
<1> QED
  BY <1>0, <1>1, <1>2
-----------------------------------------------------------------------------
(* A part of a file from its beginning.                                    *)
Part(f, l) == [k \in 1..l |-> <<f, k>>]

(* Messages that carry what src sends, end it, begin to be received; and    *)
(* the packet of the k-th piece of the file f, of size s.                  *)
IsData(m, src) == m.type = "data" /\ m.from = src
IsAbort(m, src) == m.type = "abort" /\ m.from = src
Opens(m, src) ==
  (m.type = "response" /\ m.from = src /\ m.quiet) \/ (m.type = "logo" /\ src = SV_Client)
Own(m, src) ==
  (m.type \in {"data", "abort", "response"} /\ m.from = src) \/ (m.type = "logo" /\ src = SV_Client)
IsPiece(m, src, f, s, k) ==
  IsData(m, src) /\ m.pieces = <<<<f, k>>>> /\ m.size = IF k = 1 THEN s ELSE 0

(* Between b and e the queue q has the pieces l + 1, ..., n of the file f   *)
(* from src in order, and otherwise only packets from src without anything. *)
Pieces(q, b, e, src, f, s, l, n) ==
  /\ \A i \in (b + 1)..e : IsData(q[i], src) =>
       \/ q[i].pieces = <<>> /\ q[i].size = 0
       \/ \E k \in (l + 1)..n : IsPiece(q[i], src, f, s, k)
  /\ \A k \in (l + 1)..n : \E i \in (b + 1)..e : IsPiece(q[i], src, f, s, k)
  /\ \A i, j \in (b + 1)..e : \A k, h \in (l + 1)..n :
       IsPiece(q[i], src, f, s, k) /\ IsPiece(q[j], src, f, s, h) /\ i < j => k < h

(* A packet has one piece.                                                 *)
LEMMA OnePiece ==
  ASSUME NEW m, NEW src, NEW f, NEW s, NEW k, NEW h,
         IsPiece(m, src, f, s, k), IsPiece(m, src, f, s, h)
  PROVE  k = h
<1>1. <<<<f, k>>>> = <<<<f, h>>>>
  BY DEF IsPiece
<1>2. <<f, k>> = <<f, h>>
  <2>1. <<<<f, k>>>>[1] = <<f, k>> /\ <<<<f, h>>>>[1] = <<f, h>>
    OBVIOUS
  <2> QED
    BY <1>1, <2>1
<1>3. <<f, k>>[2] = k /\ <<f, h>>[2] = h
  OBVIOUS
<1> QED
  BY <1>2, <1>3

(* The next packet has the next piece or nothing.                          *)
LEMMA NextPiece ==
  ASSUME NEW q, NEW e \in Nat \ {0}, NEW src, NEW f, NEW s, NEW l \in Nat, NEW n \in Nat,
         Pieces(q, 0, e, src, f, s, l, n), IsData(q[1], src)
  PROVE  \/ q[1].pieces = <<>> /\ q[1].size = 0
         \/ l < n /\ IsPiece(q[1], src, f, s, l + 1)
<1> SUFFICES ASSUME ~(q[1].pieces = <<>> /\ q[1].size = 0)
             PROVE  l < n /\ IsPiece(q[1], src, f, s, l + 1)
  OBVIOUS
<1>1. PICK k \in (l + 1)..n : IsPiece(q[1], src, f, s, k)
  BY DEF Pieces
<1>2. PICK i \in 1..e : IsPiece(q[i], src, f, s, l + 1)
  BY <1>1 DEF Pieces
<1>3. CASE i = 1
  BY <1>1, <1>2, <1>3
<1>4. CASE i > 1
  <2>1. k < l + 1
    BY <1>1, <1>2, <1>4 DEF Pieces
  <2> QED
    BY <1>1, <2>1
<1> QED
  BY <1>2, <1>3, <1>4

(* A window that stays, and one that moves with its packets.               *)
LEMMA PiecesKept ==
  ASSUME NEW q, NEW r, NEW b \in Nat, NEW e \in Nat,
         NEW src, NEW f, NEW s, NEW l \in Nat, NEW n \in Nat,
         Pieces(q, b, e, src, f, s, l, n), \A i \in (b + 1)..e : r[i] = q[i]
  PROVE  Pieces(r, b, e, src, f, s, l, n)
BY DEF Pieces

(* The pieces when the first message has been taken.                       *)
LEMMA PiecesShifted ==
  ASSUME NEW q, NEW r, NEW b \in Nat \ {0}, NEW e \in Nat,
         NEW src, NEW f, NEW s, NEW l \in Nat, NEW n \in Nat,
         Pieces(q, b, e, src, f, s, l, n), \A i \in (b + 1)..e : r[i - 1] = q[i]
  PROVE  Pieces(r, b - 1, e - 1, src, f, s, l, n)
<1>1. \A i \in (b - 1 + 1)..(e - 1) : i + 1 \in (b + 1)..e /\ r[i] = q[i + 1]
  OBVIOUS
<1>2. ASSUME NEW i \in (b - 1 + 1)..(e - 1), IsData(r[i], src)
      PROVE  \/ r[i].pieces = <<>> /\ r[i].size = 0
             \/ \E k \in (l + 1)..n : IsPiece(r[i], src, f, s, k)
  <2>1. i + 1 \in (b + 1)..e /\ r[i] = q[i + 1]
    BY <1>1
  <2> QED
    BY <1>2, <2>1 DEF Pieces
<1>3. ASSUME NEW k \in (l + 1)..n
      PROVE  \E i \in (b - 1 + 1)..(e - 1) : IsPiece(r[i], src, f, s, k)
  <2>1. PICK i \in (b + 1)..e : IsPiece(q[i], src, f, s, k)
    BY DEF Pieces
  <2>2. i - 1 \in (b - 1 + 1)..(e - 1) /\ r[i - 1] = q[i]
    OBVIOUS
  <2> QED
    BY <2>1, <2>2
<1>4. ASSUME NEW i \in (b - 1 + 1)..(e - 1), NEW j \in (b - 1 + 1)..(e - 1),
             NEW k \in (l + 1)..n, NEW h \in (l + 1)..n,
             IsPiece(r[i], src, f, s, k), IsPiece(r[j], src, f, s, h), i < j
      PROVE  k < h
  <2>1. /\ i + 1 \in (b + 1)..e /\ r[i] = q[i + 1]
        /\ j + 1 \in (b + 1)..e /\ r[j] = q[j + 1] /\ i + 1 < j + 1
    BY <1>1, <1>4
  <2> HIDE <1>1
  <2> QED
    BY <1>4, <2>1 DEF Pieces
<1> QED
  BY <1>2, <1>3, <1>4 DEF Pieces

(* A packet that brings no piece.                                          *)
LEMMA PiecesSkipped ==
  ASSUME NEW q, NEW e \in Nat \ {0}, NEW src, NEW f, NEW s, NEW l \in Nat, NEW n \in Nat,
         Pieces(q, 0, e, src, f, s, l, n), IsData(q[1], src) => q[1].pieces = <<>>
  PROVE  Pieces(q, 1, e, src, f, s, l, n)
<1>1. \A k : ~IsPiece(q[1], src, f, s, k)
  <2>1. \A k : <<<<f, k>>>> # <<>>
    OBVIOUS
  <2> QED
    BY <2>1 DEF IsPiece
<1>2. \A i \in (1 + 1)..e : i \in (0 + 1)..e
  OBVIOUS
<1>3. ASSUME NEW k \in (l + 1)..n PROVE \E i \in (1 + 1)..e : IsPiece(q[i], src, f, s, k)
  <2>1. PICK i \in (0 + 1)..e : IsPiece(q[i], src, f, s, k)
    BY DEF Pieces
  <2>2. i # 1
    BY <1>1, <2>1
  <2> QED
    BY <2>1, <2>2
<1> QED
  BY <1>2, <1>3 DEF Pieces

(* A packet that brings the next piece.                                    *)
LEMMA PiecesTaken ==
  ASSUME NEW q, NEW e \in Nat \ {0}, NEW src, NEW f, NEW s, NEW l \in Nat, NEW n \in Nat,
         Pieces(q, 0, e, src, f, s, l, n), l < n, IsPiece(q[1], src, f, s, l + 1)
  PROVE  Pieces(q, 1, e, src, f, s, l + 1, n)
<1>0. \A i \in (1 + 1)..e : i \in (0 + 1)..e /\ 1 < i
  OBVIOUS
<1>1. ASSUME NEW i \in (1 + 1)..e, IsData(q[i], src)
      PROVE  \/ q[i].pieces = <<>> /\ q[i].size = 0
             \/ \E k \in (l + 1 + 1)..n : IsPiece(q[i], src, f, s, k)
  <2>1. CASE q[i].pieces = <<>> /\ q[i].size = 0
    BY <2>1
  <2>2. CASE ~(q[i].pieces = <<>> /\ q[i].size = 0)
    <3>1. PICK k \in (l + 1)..n : IsPiece(q[i], src, f, s, k)
      BY <1>0, <1>1, <2>2 DEF Pieces
    <3>2. l + 1 < k
      <4>1. i \in (0 + 1)..e /\ 1 \in (0 + 1)..e /\ 1 < i /\ l + 1 \in (l + 1)..n
        OBVIOUS
      <4> QED
        BY <3>1, <4>1 DEF Pieces
    <3> QED
      BY <3>1, <3>2
  <2> QED
    BY <2>1, <2>2
<1>2. ASSUME NEW k \in (l + 1 + 1)..n PROVE \E i \in (1 + 1)..e : IsPiece(q[i], src, f, s, k)
  <2>1. PICK i \in (0 + 1)..e : IsPiece(q[i], src, f, s, k)
    BY DEF Pieces
  <2>2. i # 1
    BY <2>1, OnePiece
  <2> QED
    BY <2>1, <2>2
<1>3. \A k \in (l + 1 + 1)..n : k \in (l + 1)..n
  OBVIOUS
<1> QED
  BY <1>0, <1>1, <1>2, <1>3 DEF Pieces

(* Nothing more of src.                                                    *)
LEMMA PiecesRest ==
  ASSUME NEW q, NEW b \in Nat, NEW e \in Nat, NEW e2 \in Nat, b <= e, e <= e2,
         NEW src, NEW f, NEW s, NEW l \in Nat, NEW n \in Nat,
         Pieces(q, b, e, src, f, s, l, n),
         \A i \in (e + 1)..e2 : IsData(q[i], src) => q[i].pieces = <<>> /\ q[i].size = 0
  PROVE  Pieces(q, b, e2, src, f, s, l, n)
<1>1. \A i \in (b + 1)..e2 : i \in (b + 1)..e \/ i \in (e + 1)..e2
  OBVIOUS
<1>2. \A i \in (e + 1)..e2 : \A k : ~IsPiece(q[i], src, f, s, k)
  <2>1. \A k : <<<<f, k>>>> # <<>>
    OBVIOUS
  <2> QED
    BY <2>1 DEF IsPiece
<1>3. \A i \in (b + 1)..e : i \in (b + 1)..e2
  OBVIOUS
<1> QED
  BY <1>1, <1>2, <1>3 DEF Pieces

(* One more piece of src.                                                  *)
LEMMA PiecesNext ==
  ASSUME NEW q, NEW b \in Nat, NEW e \in Nat, NEW e1 \in Nat, NEW e2 \in Nat,
         b <= e, e < e1, e1 <= e2,
         NEW src, NEW f, NEW s, NEW l \in Nat, NEW n \in Nat, l <= n,
         Pieces(q, b, e, src, f, s, l, n), IsPiece(q[e1], src, f, s, n + 1),
         \A i \in (e + 1)..e2 : i # e1 => ~IsData(q[i], src)
  PROVE  Pieces(q, b, e2, src, f, s, l, n + 1)
<1>0. \A i \in (b + 1)..e2 : i \in (b + 1)..e \/ i = e1 \/ (i \in (e + 1)..e2 /\ i # e1)
  OBVIOUS
<1>1. ASSUME NEW i \in (b + 1)..e2, IsData(q[i], src)
      PROVE  \/ q[i].pieces = <<>> /\ q[i].size = 0
             \/ \E k \in (l + 1)..(n + 1) : IsPiece(q[i], src, f, s, k)
  <2>1. CASE i \in (b + 1)..e
    <3>1. \A k \in (l + 1)..n : k \in (l + 1)..(n + 1)
      OBVIOUS
    <3> QED
      BY <1>1, <2>1, <3>1 DEF Pieces
  <2>2. n + 1 \in (l + 1)..(n + 1)
    OBVIOUS
  <2> QED
    BY <1>0, <1>1, <2>1, <2>2
<1>2. ASSUME NEW k \in (l + 1)..(n + 1) PROVE \E i \in (b + 1)..e2 : IsPiece(q[i], src, f, s, k)
  <2>1. CASE k = n + 1
    BY <2>1
  <2>2. CASE k # n + 1
    <3>1. k \in (l + 1)..n
      BY <2>2
    <3>2. \A i \in (b + 1)..e : i \in (b + 1)..e2
      OBVIOUS
    <3> QED
      BY <3>1, <3>2 DEF Pieces
  <2> QED
    BY <2>1, <2>2
<1>3. ASSUME NEW i \in (b + 1)..e2, NEW j \in (b + 1)..e2,
             NEW k \in (l + 1)..(n + 1), NEW h \in (l + 1)..(n + 1),
             IsPiece(q[i], src, f, s, k), IsPiece(q[j], src, f, s, h), i < j
      PROVE  k < h
  <2>0. IsData(q[i], src) /\ IsData(q[j], src)
    BY <1>3 DEF IsPiece
  <2>1. ASSUME NEW x \in (b + 1)..e, NEW y \in (l + 1)..(n + 1), IsPiece(q[x], src, f, s, y)
        PROVE  y \in (l + 1)..n
    <3>1. q[x].pieces = <<<<f, y>>>> /\ <<<<f, y>>>> # <<>> /\ IsData(q[x], src)
      BY <2>1 DEF IsPiece
    <3>2. PICK z \in (l + 1)..n : IsPiece(q[x], src, f, s, z)
      BY <3>1 DEF Pieces
    <3> QED
      BY <2>1, <3>2, OnePiece
  <2>2. i \in (b + 1)..e
    BY <1>0, <1>3, <2>0
  <2>3. k \in (l + 1)..n
    BY <1>3, <2>1, <2>2
  <2>4. CASE j \in (b + 1)..e
    <3>1. h \in (l + 1)..n
      BY <1>3, <2>1, <2>4
    <3> QED
      BY <1>3, <2>2, <2>3, <2>4, <3>1 DEF Pieces
  <2>5. CASE j = e1
    <3>1. h = n + 1
      BY <1>3, <2>5, OnePiece
    <3> QED
      BY <2>3, <3>1
  <2> QED
    BY <1>0, <1>3, <2>0, <2>4, <2>5
<1> QED
  BY <1>1, <1>2, <1>3 DEF Pieces
-----------------------------------------------------------------------------
(* Files are the same in the module and here.                              *)
LEMMA SameFiles ==
  /\ FT!Made = Made /\ FT!Info = Info /\ FT!Nothing = Nothing
  /\ \A f : FT!SizeOf(f) = SizeOf(f) /\ FT!Whole(f) = Whole(f)
BY DEF FT!Made, Made, FT!Info, Info, FT!Nothing, Nothing, FT!SizeOf, SizeOf, FT!Whole, Whole

FilesSound == files \in Seq([owner : Clients, size : 1..2])

(* A file has a piece at least; the logo and the rules have two.           *)
LEMMA FileSizes ==
  ASSUME FilesSound, NEW f \in Made
  PROVE  SizeOf(f) \in Nat \ {0} /\ Whole(f) = Part(f, SizeOf(f))
<1>1. \A k \in DOMAIN files : files[k].size \in 1..2
  <2> DEFINE F == [owner : Clients, size : 1..2]
  <2>0. files \in Seq(F) /\ \A g \in F : g.size \in 1..2
    BY DEF FilesSound
  <2> HIDE DEF F
  <2>1. \A k \in DOMAIN files : files[k] \in F
    BY <2>0
  <2> QED
    BY <2>0, <2>1
<1> QED
  BY <1>1 DEF Made, SizeOf, Whole, Part

(* What a part is.                                                         *)
LEMMA PartShape ==
  ASSUME NEW f, NEW l \in Nat
  PROVE  /\ Part(f, l) \in Seq({<<f, k>> : k \in 1..l}) /\ Len(Part(f, l)) = l
         /\ Part(f, l) = <<>> <=> l = 0
         /\ \A k \in 1..l : Part(f, l)[k] = <<f, k>>
<1> DEFINE S == {<<f, k>> : k \in 1..l}
<1>1. Part(f, l) \in [1..l -> S]
  BY DEF Part
<1> HIDE DEF S
<1>2. Part(f, l) \in Seq(S) /\ Len(Part(f, l)) = l
  BY <1>1
<1> QED
  BY <1>2 DEF Part, S

(* A part that is not empty is of one file.                                *)
LEMMA PartsDiffer ==
  ASSUME NEW f, NEW g, NEW l \in Nat, NEW h \in Nat, l # 0, Part(f, l) = Part(g, h)
  PROVE  f = g /\ l = h
<1>1. l = h
  <2>1. Len(Part(f, l)) = l /\ Len(Part(g, h)) = h
    BY PartShape
  <2> QED
    BY <2>1
<1>2. <<f, 1>> = <<g, 1>>
  <2>1. Part(f, l)[1] = <<f, 1>> /\ Part(g, h)[1] = <<g, 1>>
    BY <1>1 DEF Part
  <2> QED
    BY <2>1
<1>3. <<f, 1>>[1] = f /\ <<g, 1>>[1] = g
  OBVIOUS
<1> QED
  BY <1>1, <1>2, <1>3

(* A part that grows, and a part of a part.                                *)
LEMMA PartGrows ==
  ASSUME NEW f, NEW l \in Nat
  PROVE  Part(f, l) \o <<<<f, l + 1>>>> = Part(f, l + 1)
<1> DEFINE S == {<<f, k>> : k \in 1..(l + 1)}
<1>1. Part(f, l) \in Seq(S) /\ Len(Part(f, l)) = l
  <2>1. Part(f, l) \in [1..l -> S]
    BY DEF Part
  <2> HIDE DEF S
  <2> QED
    BY <2>1
<1>2. Part(f, l + 1) \in Seq(S) /\ Len(Part(f, l + 1)) = l + 1
  <2>1. Part(f, l + 1) \in [1..(l + 1) -> S]
    BY DEF Part
  <2> HIDE DEF S
  <2> QED
    BY <2>1
<1>3. <<<<f, l + 1>>>> \in Seq(S) /\ Len(<<<<f, l + 1>>>>) = 1
  <2>1. <<f, l + 1>> \in S
    OBVIOUS
  <2> HIDE DEF S
  <2> QED
    BY <2>1
<1>4. \A k \in 1..l : Part(f, l)[k] = Part(f, l + 1)[k]
  BY DEF Part
<1>5. <<<<f, l + 1>>>>[1] = Part(f, l + 1)[l + 1]
  BY DEF Part
<1> HIDE DEF S
<1>6. Part(f, l) \o <<<<f, l + 1>>>> \in Seq(S) /\ Len(Part(f, l) \o <<<<f, l + 1>>>>) = l + 1
  BY <1>1, <1>3
<1>7. \A k \in 1..(l + 1) : (Part(f, l) \o <<<<f, l + 1>>>>)[k] = Part(f, l + 1)[k]
  <2>1. \A k \in 1..l : (Part(f, l) \o <<<<f, l + 1>>>>)[k] = Part(f, l)[k]
    BY <1>1, <1>3
  <2>2. (Part(f, l) \o <<<<f, l + 1>>>>)[l + 1] = <<<<f, l + 1>>>>[1]
    BY <1>1, <1>3
  <2>3. \A k \in 1..(l + 1) : k \in 1..l \/ k = l + 1
    OBVIOUS
  <2> QED
    BY <1>4, <1>5, <2>1, <2>2, <2>3
<1> DEFINE p == Part(f, l) \o <<<<f, l + 1>>>>
           r == Part(f, l + 1)
<1>8. p \in Seq(S) /\ r \in Seq(S) /\ Len(p) = l + 1 /\ Len(r) = l + 1 /\ \A k \in 1..(l + 1) : p[k] = r[k]
  BY <1>2, <1>6, <1>7
<1> HIDE DEF p, r
<1>9. p = r
  BY <1>8
<1> QED
  BY <1>9 DEF p, r

(* The beginning of a part is a part.                                      *)
LEMMA PartOfPart ==
  ASSUME NEW f, NEW l \in Nat, NEW j \in 0..l
  PROVE  SubSeq(Part(f, l), 1, j) = Part(f, j)
<1> DEFINE S == {<<f, k>> : k \in 1..l}
<1>1. Part(f, l) \in Seq(S) /\ Len(Part(f, l)) = l
  BY PartShape
<1>2. SubSeq(Part(f, l), 1, j) = [i \in 1..j |-> Part(f, l)[i]]
  BY <1>1
<1>3. \A i \in 1..j : Part(f, l)[i] = <<f, i>>
  BY DEF Part
<1> QED
  BY <1>2, <1>3 DEF Part

(* When a part of a file is complete.                                      *)
LEMMA PartComplete ==
  ASSUME FilesSound, NEW f \in Made, NEW l \in 0..SizeOf(f)
  PROVE  FT!Complete(Part(f, l), SizeOf(f)) = {l = SizeOf(f)}
<1>1. SizeOf(f) \in Nat \ {0} /\ Whole(f) = Part(f, SizeOf(f))
  BY FileSizes
<1>2. l \in Nat /\ l <= SizeOf(f)
  BY <1>1
<1>3. Len(Part(f, l)) = l
  BY <1>2, PartShape
<1>4. FT!IsPrefix(Part(f, l), Whole(f))
  <2>1. Len(Part(f, l)) <= Len(Part(f, SizeOf(f)))
    BY <1>1, <1>2, PartShape
  <2>2. SubSeq(Part(f, l), 1, l) = Part(f, l)
    BY <1>2, PartOfPart
  <2>3. SubSeq(Part(f, SizeOf(f)), 1, l) = Part(f, l)
    BY <1>1, PartOfPart
  <2> QED
    BY <1>1, <1>3, <2>1, <2>2, <2>3 DEF FT!IsPrefix
<1>5. FT!InOrder(Part(f, l), SizeOf(f))
  BY <1>4, SameFiles DEF FT!InOrder
<1>6. FT!Complete(Part(f, l), SizeOf(f)) = {Len(Part(f, l)) = SizeOf(f)}
  BY <1>1, <1>5 DEF FT!Complete
<1> QED
  BY <1>3, <1>6

(* The next piece of a file is received.                                   *)
LEMMA PieceReceived ==
  ASSUME FilesSound, NEW f \in Made, NEW l \in 0..(SizeOf(f) - 1), NEW n, l > 0 => n = SizeOf(f),
         NEW m, NEW src, IsPiece(m, src, f, SizeOf(f), l + 1)
  PROVE  /\ FT!Written(Part(f, l), m) = Part(f, l + 1)
         /\ FT!SizeRead(Part(f, l), n, m) = SizeOf(f)
         /\ ~FT!Ignored(Part(f, l), m)
         /\ FT!receive_packet(Part(f, l), n, m) = {l + 1 = SizeOf(f)}
<1>1. SizeOf(f) \in Nat \ {0} /\ l \in Nat /\ l + 1 \in 0..SizeOf(f)
  BY FileSizes
<1>2. Part(f, l) = <<>> <=> l = 0
  BY <1>1, PartShape
<1>3. m.pieces = <<<<f, l + 1>>>> /\ m.size = IF l = 0 THEN SizeOf(f) ELSE 0
  BY <1>1 DEF IsPiece
<1>4. FT!Written(Part(f, l), m) = Part(f, l + 1)
  <2>1. ~(Part(f, l) # <<>> /\ m.size > 0)
    BY <1>1, <1>2, <1>3
  <2>3. FT!Written(Part(f, l), m) = Part(f, l) \o <<>> \o m.pieces
    BY <2>1 DEF FT!Written
  <2>2. Part(f, l) \o <<>> = Part(f, l)
    BY <1>1, PartShape
  <2> QED
    BY <1>1, <1>3, <2>2, <2>3, PartGrows
<1>5. ~FT!Ignored(Part(f, l), m)
  BY <1>3 DEF FT!Ignored
<1>6. FT!SizeRead(Part(f, l), n, m) = SizeOf(f)
  <2>1. CASE l = 0
    BY <1>1, <1>2, <1>3, <2>1 DEF FT!SizeRead
  <2>2. CASE l # 0
    BY <1>1, <1>2, <2>2 DEF FT!SizeRead
  <2> QED
    BY <2>1, <2>2
<1> QED
  BY <1>1, <1>4, <1>5, <1>6, PartComplete DEF FT!receive_packet

(* A packet without anything is received.                                  *)
LEMMA NothingReceived ==
  ASSUME FilesSound, NEW f \in Made, NEW l \in 0..(SizeOf(f) - 1), NEW n, l > 0 => n = SizeOf(f),
         NEW m, m.pieces = <<>>, m.size = 0
  PROVE  /\ FT!Written(Part(f, l), m) = Part(f, l)
         /\ l > 0 => FT!SizeRead(Part(f, l), n, m) = SizeOf(f)
         /\ FT!receive_packet(Part(f, l), n, m) = {FALSE}
<1>1. SizeOf(f) \in Nat \ {0} /\ l \in Nat /\ l \in 0..SizeOf(f) /\ l # SizeOf(f)
  BY FileSizes
<1>2. Part(f, l) = <<>> <=> l = 0
  BY <1>1, PartShape
<1>3. FT!Written(Part(f, l), m) = Part(f, l)
  <2>1. FT!Written(Part(f, l), m) = Part(f, l) \o <<>> \o <<>>
    BY DEF FT!Written
  <2>2. Part(f, l) \o <<>> = Part(f, l)
    BY <1>1, PartShape
  <2> QED
    BY <2>1, <2>2
<1>4. l > 0 => FT!SizeRead(Part(f, l), n, m) = SizeOf(f)
  BY <1>1, <1>2 DEF FT!SizeRead
<1>5. FT!receive_packet(Part(f, l), n, m) = {FALSE}
  <2>1. CASE l = 0
    BY <1>2, <2>1 DEF FT!receive_packet, FT!Ignored
  <2>2. CASE l # 0
    <3>0. Part(f, l) # <<>> /\ FT!SizeRead(Part(f, l), n, m) = SizeOf(f)
      BY <1>1, <1>2, <1>4, <2>2
    <3>1. FT!receive_packet(Part(f, l), n, m) = FT!Complete(Part(f, l), SizeOf(f))
      BY <1>3, <3>0 DEF FT!receive_packet, FT!Ignored
    <3> QED
      BY <1>1, <3>1, PartComplete
  <2> QED
    BY <2>1, <2>2
<1> QED
  BY <1>3, <1>4, <1>5
-----------------------------------------------------------------------------
(* An enumeration of a finite set.                                         *)
LEMMA Enumerated ==
  ASSUME NEW S, IsFiniteSet(S)
  PROVE  /\ IsQueue(FT!SetToSeq(S)) /\ Len(FT!SetToSeq(S)) \in Nat
         /\ DOMAIN FT!SetToSeq(S) = 1..Len(FT!SetToSeq(S))
         /\ \A i \in DOMAIN FT!SetToSeq(S) : FT!SetToSeq(S)[i] \in S
         /\ \A x \in S : \E i \in DOMAIN FT!SetToSeq(S) : FT!SetToSeq(S)[i] = x
         /\ \A i, j \in DOMAIN FT!SetToSeq(S) : FT!SetToSeq(S)[i] = FT!SetToSeq(S)[j] => i = j
<1> DEFINE n == Cardinality(S)
           f == FT!SetToSeq(S)
<1>0. FT!Cardinality(S) = n
  BY DEF FT!Cardinality, Cardinality
<1>1. n \in Nat /\ ExistsBijection(1..n, S)
  BY FS_CardinalityType
<1>2. PICK g \in [1..n -> S] : \A i, j \in 1..n : g[i] = g[j] => i = j
  BY <1>1 DEF ExistsBijection, Bijection, Injection, IsInjective
<1>3. FT!IsInjective(g)
  BY <1>2 DEF FT!IsInjective
<1>4. f \in [1..n -> S] /\ FT!IsInjective(f)
  <2>1. f = CHOOSE h \in [1..n -> S] : FT!IsInjective(h)
    BY <1>0 DEF FT!SetToSeq
  <2> HIDE DEF f, n
  <2> QED
    BY <1>2, <1>3, <2>1
<1> HIDE DEF f
<1>5. f \in Injection(1..n, S)
  BY <1>4 DEF FT!IsInjective, Injection, IsInjective
<1>6. Cardinality(1..n) = n
  BY <1>1, FS_Interval
<1>7. f \in Surjection(1..n, S)
  BY <1>1, <1>5, <1>6, FS_Injection
<1>8. IsQueue(f) /\ Len(f) = n
  BY <1>1, <1>4, QueueMade
<1>9. \A x \in S : \E i \in 1..n : f[i] = x
  BY <1>7 DEF Surjection
<1> HIDE DEF n
<1> QED
  BY <1>1, <1>4, <1>8, <1>9 DEF f, FT!IsInjective

(* The records of the server and of the clients.                           *)
IsProxy(s) ==
  s \in [admin : Clients \cup {Nobody}, cheater : Clients \cup {Nobody}, file : {s.file}, first : BOOLEAN]
IsReceiver(r) == r \in [proxy : 1..Proxies, size : {r.size}, read : BOOLEAN, quiet : BOOLEAN]
IsTransfer(t) == t \in [proxy : 0..Proxies, at : {t.at}, size : {t.size}]
IsReceiving(r) == r \in [content : {r.content}, size : {r.size}, read : BOOLEAN, quiet : {r.quiet}]

LinksSound ==
  /\ connected \subseteq Clients /\ playing \subseteq Clients
  /\ DOMAIN toServer = Clients /\ DOMAIN toClient = Clients
  /\ \A c \in Clients : IsQueue(toServer[c]) /\ IsQueue(toClient[c])

ClientsSound ==
  /\ FilesSound /\ DOMAIN buffer = Clients
  /\ uploading \in [Clients -> [at : Nat, size : Nat]]
  /\ DOMAIN receiving = Clients
  /\ \A a \in Clients : IsFiniteSet(DOMAIN receiving[a])
  /\ \A a \in Clients : \A src \in DOMAIN receiving[a] : IsReceiving(receiving[a][src])

(* Who receives from a client, and for whom; what is passed on.  A proxy    *)
(* serves nobody else as long as there is one of the two.                  *)
Serves(c) ==
  LET s == m_screenshot_proxies[m_receivers[c].proxy] IN s.cheater = c /\ s.admin \in Clients
PassesOn(k) ==
  k[2] # SV_Client =>
    LET s == m_screenshot_proxies[m_transfers[k].proxy] IN
    m_transfers[k].proxy \in 1..Proxies /\ s.admin = k[1] /\ s.cheater = k[2]

ServerSound ==
  /\ DOMAIN m_screenshot_proxies = 1..Proxies
  /\ \A p \in 1..Proxies : IsProxy(m_screenshot_proxies[p])
  /\ DOMAIN m_receivers \subseteq Clients
  /\ \A c \in DOMAIN m_receivers : IsReceiver(m_receivers[c]) /\ Serves(c)
  /\ DOMAIN m_transfers \subseteq Clients \X FT!Sources /\ IsFiniteSet(DOMAIN m_transfers)
  /\ \A k \in DOMAIN m_transfers : IsTransfer(m_transfers[k]) /\ PassesOn(k)

(* Who has left sends nothing, makes nothing and gets nothing.             *)
GoneSilent ==
  /\ \A c \in Clients \ playing : uploading[c] = FT!NoUpload /\ c \notin making
  /\ \A a \in Clients : a \notin connected \cap playing =>
       toClient[a] = <<>> /\ DOMAIN receiving[a] = {}

Sound == LinksSound /\ ClientsSound /\ ServerSound /\ GoneSilent

(* What SendTo and an answer do to the links.                              *)
LEMMA SentTo ==
  ASSUME LinksSound, NEW c \in Clients, NEW s, IsQueue(s), FT!SendTo(c, s)
  PROVE  /\ DOMAIN toClient' = Clients /\ \A a \in Clients : IsQueue(toClient'[a])
         /\ \A a \in Clients : a # c => toClient'[a] = toClient[a]
         /\ toClient'[c] = toClient[c] \o (IF c \in connected \cap playing THEN s ELSE <<>>)
         /\ c \notin connected \cap playing => toClient'[c] = toClient[c]
<1> DEFINE r == IF c \in connected \cap playing THEN s ELSE <<>>
<1>1. IsQueue(r) /\ IsQueue(toClient[c])
  BY ShortQueues DEF LinksSound
<1>2. toClient' = [toClient EXCEPT ![c] = @ \o r]
  BY DEF FT!SendTo, FT!Delivered
<1>3. c \notin connected \cap playing => toClient[c] \o r = toClient[c]
  BY <1>1, QueueNothing
<1> HIDE DEF r
<1>4. IsQueue(toClient[c] \o r)
  BY <1>1, QueueConcat
<1> QED
  BY <1>2, <1>3, <1>4 DEF LinksSound, r

(* What an answer of a client does to the links to the server.             *)
LEMMA Answered ==
  ASSUME LinksSound, NEW c \in Clients, NEW s, IsQueue(s), FT!Answer(c, s)
  PROVE  /\ DOMAIN toServer' = Clients /\ \A a \in Clients : IsQueue(toServer'[a])
         /\ \A a \in Clients : a # c => toServer'[a] = toServer[a]
         /\ toServer'[c] = toServer[c] \o s
<1>1. IsQueue(toServer[c] \o s)
  BY QueueConcat DEF LinksSound
<1> QED
  BY <1>1 DEF LinksSound, FT!Answer

(* Nobody has asked for anything.                                          *)
LEMMA SoundInit == FT!Init => Sound
<1> SUFFICES ASSUME FT!Init PROVE Sound
  OBVIOUS
<1>1. LinksSound
  BY ShortQueues, FileTransferAssumption DEF FT!Init, LinksSound
<1>2. ClientsSound
  <2>1. FilesSound
    BY DEF FT!Init, FilesSound
  <2>2. \A a \in Clients : receiving[a] = <<>> /\ DOMAIN receiving[a] = {}
    BY DEF FT!Init
  <2>3. uploading \in [Clients -> [at : Nat, size : Nat]]
    BY DEF FT!Init, FT!NoUpload
  <2> QED
    BY <2>1, <2>2, <2>3, FS_EmptySet DEF FT!Init, ClientsSound
<1>3. ServerSound
  <2>1. \A p \in 1..Proxies : IsProxy(m_screenshot_proxies[p])
    BY DEF FT!Init, IsProxy
  <2>2. DOMAIN m_receivers = {} /\ DOMAIN m_transfers = {}
    BY DEF FT!Init
  <2> QED
    BY <2>1, <2>2, FS_EmptySet DEF FT!Init, ServerSound
<1>4. GoneSilent
  BY DEF FT!Init, GoneSilent
<1> QED
  BY <1>1, <1>2, <1>3, <1>4 DEF Sound

(* The file of a proxy is filled.                                          *)
LEMMA ProxyFilled ==
  ASSUME NEW s, IsProxy(s), NEW v
  PROVE  LET n == [s EXCEPT !.file = v, !.first = FALSE] IN
         /\ IsProxy(n) /\ n.file = v /\ n.first = FALSE
         /\ n.admin = s.admin /\ n.cheater = s.cheater
BY DEF IsProxy

(* The record of a proxy that takes a request.                             *)
LEMMA ProxyCleared ==
  ASSUME NEW a \in Clients, NEW c \in Clients
  PROVE  LET n == [admin |-> a, cheater |-> c, file |-> <<>>, first |-> TRUE] IN
         IsProxy(n) /\ n.admin = a /\ n.cheater = c /\ n.file = <<>> /\ n.first = TRUE
BY DEF IsProxy

(* The record of a receiver that is made.                                  *)
LEMMA ReceiverMade ==
  ASSUME NEW p \in 1..Proxies, NEW z, NEW b \in BOOLEAN, NEW d \in BOOLEAN
  PROVE  LET r == [proxy |-> p, size |-> z, read |-> b, quiet |-> d] IN
         IsReceiver(r) /\ r.proxy = p /\ r.size = z /\ r.quiet = d
BY DEF IsReceiver

(* Whom the proxies serve that are not active may change.                  *)
LEMMA InactiveServes ==
  ASSUME ServerSound, NEW p \in 1..Proxies, ~FT!is_active(p)
  PROVE  /\ \A c \in DOMAIN m_receivers : m_receivers[c].proxy # p
         /\ \A k \in DOMAIN m_transfers : k[2] # SV_Client => m_transfers[k].proxy # p
<1>1. ASSUME NEW k \in DOMAIN m_transfers, k[2] # SV_Client, m_transfers[k].proxy = p PROVE FALSE
  <2>1. m_screenshot_proxies[p].admin = k[1] /\ m_screenshot_proxies[p].cheater = k[2]
    BY <1>1 DEF ServerSound, PassesOn
  <2>2. k = <<k[1], k[2]>>
    BY DEF ServerSound
  <2> QED
    BY <1>1, <2>1, <2>2 DEF FT!is_active
<1>2. ASSUME NEW c \in DOMAIN m_receivers, m_receivers[c].proxy = p PROVE FALSE
  BY <1>2 DEF ServerSound, Serves, FT!is_active
<1> QED
  BY <1>1, <1>2

(* A request makes a receiver for the client it concerns.                  *)
LEMMA SoundRequest ==
  ASSUME Sound, NEW a \in Admins, NEW c \in Clients, FT!MakeScreenshot(a, c)
  PROVE  Sound'
<1>0. /\ UNCHANGED <<connected, playing, toServer, m_transfers, making, uploading, receiving, buffer, files>>
      /\ a \in connected
  BY DEF FT!MakeScreenshot, FT!client
<1>1. ClientsSound'
  BY <1>0 DEF Sound, ClientsSound, FilesSound, IsReceiving
<1>2. CASE UNCHANGED <<m_screenshot_proxies, m_receivers, toClient>>
  BY <1>0, <1>1, <1>2 DEF Sound, LinksSound, ServerSound, GoneSilent, Serves, PassesOn
<1>3. CASE \E p \in 1..Proxies : ~FT!is_active(p) /\ FT!make_screenshot(p, a, c)
  <2>1. PICK p \in 1..Proxies : ~FT!is_active(p) /\ FT!make_screenshot(p, a, c)
    BY <1>3
  <2>2. /\ \A d \in DOMAIN m_receivers : m_receivers[d].proxy # p
        /\ \A k \in DOMAIN m_transfers : k[2] # SV_Client => m_transfers[k].proxy # p
    BY <2>1, InactiveServes DEF Sound
  <2>3. a \in Clients
    BY FileTransferAssumption
  <2>4. /\ DOMAIN m_screenshot_proxies' = 1..Proxies
        /\ \A q \in 1..Proxies : q # p => m_screenshot_proxies'[q] = m_screenshot_proxies[q]
        /\ IsProxy(m_screenshot_proxies'[p])
        /\ m_screenshot_proxies'[p].admin = a /\ m_screenshot_proxies'[p].cheater = c
    <3>1. IsProxy(m_screenshot_proxies[p]) /\ DOMAIN m_screenshot_proxies = 1..Proxies
      BY DEF Sound, ServerSound
    <3>2. CASE c \notin connected \/ c \in DOMAIN m_receivers
      <4> DEFINE n == [m_screenshot_proxies[p] EXCEPT !.admin = a, !.cheater = c]
      <4>1. m_screenshot_proxies' = [m_screenshot_proxies EXCEPT ![p] = n]
        BY <2>1, <3>1, <3>2 DEF FT!make_screenshot
      <4>2. IsProxy(n) /\ n.admin = a /\ n.cheater = c
        BY <2>3, <3>1 DEF IsProxy
      <4> HIDE DEF n
      <4> QED
        BY <3>1, <4>1, <4>2
    <3>3. CASE ~(c \notin connected \/ c \in DOMAIN m_receivers)
      <4>1. m_screenshot_proxies' = [m_screenshot_proxies EXCEPT
              ![p] = [admin |-> a, cheater |-> c, file |-> <<>>, first |-> TRUE]]
        BY <2>1, <3>3 DEF FT!make_screenshot, FT!Cleared
      <4> QED
        BY <2>3, <3>1, <4>1, ProxyCleared
    <3> QED
      BY <3>2, <3>3
  <2>5. /\ DOMAIN m_receivers \subseteq DOMAIN m_receivers'
        /\ \A d \in DOMAIN m_receivers : m_receivers'[d] = m_receivers[d]
        /\ \A d \in DOMAIN m_receivers' : d \notin DOMAIN m_receivers =>
             d = c /\ IsReceiver(m_receivers'[d]) /\ m_receivers'[d].proxy = p
    <3>1. CASE c \notin connected \/ c \in DOMAIN m_receivers
      BY <2>1, <3>1 DEF FT!make_screenshot
    <3>2. CASE ~(c \notin connected \/ c \in DOMAIN m_receivers)
      <4> DEFINE r == [proxy |-> p, size |-> FT!Junk, read |-> TRUE, quiet |-> FT!Quiet(c)]
      <4>1. IsReceiver(r) /\ r.proxy = p
        BY ReceiverMade DEF FT!Quiet
      <4>2. m_receivers' = FT!Inserted(m_receivers, c, r)
        BY <2>1, <3>2 DEF FT!make_screenshot
      <4> HIDE DEF r
      <4> QED
        BY <4>1, <4>2 DEF FT!Inserted
    <3> QED
      BY <3>1, <3>2
  <2>6. ServerSound'
    <3>1. \A q \in 1..Proxies : IsProxy(m_screenshot_proxies'[q])
      BY <2>4 DEF Sound, ServerSound
    <3>2. \A d \in DOMAIN m_receivers' : d \in Clients /\ IsReceiver(m_receivers'[d]) /\ Serves(d)'
      <4> TAKE d \in DOMAIN m_receivers'
      <4>1. CASE d \in DOMAIN m_receivers
        <5>1. m_receivers[d].proxy \in 1..Proxies /\ m_receivers[d].proxy # p
          BY <2>2, <4>1 DEF Sound, ServerSound, IsReceiver
        <5> QED
          BY <2>4, <2>5, <4>1, <5>1 DEF Sound, ServerSound, Serves
      <4>2. CASE d \notin DOMAIN m_receivers
        BY <2>3, <2>4, <2>5, <4>2 DEF Serves
      <4> QED
        BY <4>1, <4>2
    <3>3. \A k \in DOMAIN m_transfers : PassesOn(k)'
      BY <1>0, <2>2, <2>4 DEF Sound, ServerSound, PassesOn
    <3> QED
      BY <1>0, <2>4, <3>1, <3>2, <3>3 DEF Sound, ServerSound
  <2>7. LinksSound' /\ GoneSilent'
    <3>1. CASE UNCHANGED toClient
      BY <1>0, <3>1 DEF Sound, LinksSound, GoneSilent
    <3>2. CASE FT!SendTo(c, <<[type |-> "request"]>>)
      BY <1>0, <3>2, SentTo, ShortQueues DEF Sound, LinksSound, GoneSilent
    <3> QED
      BY <2>1, <3>1, <3>2 DEF FT!make_screenshot
  <2> QED
    BY <1>1, <2>6, <2>7 DEF Sound
<1> QED
  BY <1>2, <1>3 DEF FT!MakeScreenshot

(* A client joins.                                                         *)
LEMMA SoundJoin ==
  ASSUME Sound, NEW c \in Clients, FT!SendServerInfoToClient(c)
  PROVE  Sound'
<1>0. /\ UNCHANGED <<playing, toServer, m_screenshot_proxies, m_receivers, making, uploading,
                     receiving, buffer, files>>
      /\ c \notin connected /\ c \in playing /\ connected' = connected \cup {c}
  BY DEF FT!SendServerInfoToClient, FT!client
<1>1. ClientsSound'
  BY <1>0 DEF Sound, ClientsSound, FilesSound, IsReceiving
<1>2. CASE UNCHANGED <<m_transfers, toClient>>
  BY <1>0, <1>1, <1>2 DEF Sound, LinksSound, ServerSound, GoneSilent, Serves, PassesOn
<1>3. CASE /\ toClient' = [toClient EXCEPT ![c] = Append(@, [type |-> "logo"])]
           /\ m_transfers' = FT!Inserted(m_transfers, <<c, SV_Client>>,
                               [proxy |-> 0, at |-> 0, size |-> FT!SizeOf(FT!Info)])
  <2>1. toClient[c] = <<>>
    BY <1>0 DEF Sound, GoneSilent
  <2>2. IsQueue(Append(toClient[c], [type |-> "logo"]))
    BY <2>1, ShortQueues
  <2>3. LinksSound' /\ GoneSilent'
    BY <1>0, <1>3, <2>2 DEF Sound, LinksSound, GoneSilent
  <2> DEFINE k == <<c, SV_Client>>
             t == [proxy |-> 0, at |-> 0, size |-> FT!SizeOf(FT!Info)]
  <2>4. IsTransfer(t) /\ k[2] = SV_Client /\ k \in Clients \X FT!Sources
    BY FileTransferAssumption DEF IsTransfer, FT!Sources
  <2> HIDE DEF k, t
  <2>5. m_transfers' = FT!Inserted(m_transfers, k, t)
    BY <1>3 DEF k, t
  <2>6. /\ DOMAIN m_transfers' = DOMAIN m_transfers \cup {k}
        /\ \A j \in DOMAIN m_transfers : m_transfers'[j] = m_transfers[j]
        /\ k \notin DOMAIN m_transfers => m_transfers'[k] = t
    BY <2>5 DEF FT!Inserted
  <2>7. \A j \in DOMAIN m_transfers' : IsTransfer(m_transfers'[j]) /\ PassesOn(j)'
    BY <1>0, <2>4, <2>6 DEF Sound, ServerSound, PassesOn
  <2>8. IsFiniteSet(DOMAIN m_transfers')
    BY <2>6, FS_AddElement DEF Sound, ServerSound
  <2>9. ServerSound'
    BY <1>0, <2>4, <2>6, <2>7, <2>8 DEF Sound, ServerSound, Serves
  <2> QED
    BY <1>1, <2>3, <2>9 DEF Sound
<1> QED
  BY <1>2, <1>3 DEF FT!SendServerInfoToClient

(* What the server receives it keeps, and passes on to the administrator   *)
(* who has asked for it.                                                   *)
LEMMA SoundData ==
  ASSUME Sound, NEW c \in Clients, NEW m, FT!OnData(c, m), DOMAIN toServer' = Clients,
         \A a \in Clients : IsQueue(toServer'[a]),
         UNCHANGED <<connected, playing, making, uploading, receiving, buffer, files>>
  PROVE  Sound'
<1>1. ClientsSound'
  BY DEF Sound, ClientsSound, FilesSound, IsReceiving
<1>2. ASSUME NEW a \in Clients, NEW x, FT!SendTo(a, <<x>>) PROVE LinksSound' /\ GoneSilent'
  BY <1>2, SentTo, ShortQueues DEF Sound, LinksSound, GoneSilent
<1>3. CASE c \notin DOMAIN m_receivers
  <2>1. /\ UNCHANGED <<m_screenshot_proxies, m_receivers, m_transfers>>
        /\ FT!SendTo(c, <<FT!Reject(SV_Client)>>)
    BY <1>3 DEF FT!OnData
  <2> QED
    BY <1>1, <1>2, <2>1 DEF Sound, ServerSound, Serves, PassesOn
<1>4. CASE c \in DOMAIN m_receivers
  <2> DEFINE r == m_receivers[c]
             s == m_screenshot_proxies[r.proxy]
             content == FT!Written(s.file, m)
             n == FT!SizeRead(s.file, r.size, m)
  <2>1. /\ IsReceiver(r) /\ r.proxy \in 1..Proxies /\ IsProxy(s)
        /\ s.cheater = c /\ s.admin \in Clients
    BY <1>4 DEF Sound, ServerSound, IsReceiver, Serves
  <2>2. /\ m_screenshot_proxies' = [m_screenshot_proxies EXCEPT
             ![r.proxy] = [s EXCEPT !.file = content, !.first = FALSE]]
        /\ FT!Forwards(r.proxy, n, r.quiet)
        /\ \/ m_receivers' = FT!Without(m_receivers, {c})
           \/ \E b \in BOOLEAN : m_receivers' =
                [m_receivers EXCEPT ![c] = [r EXCEPT !.size = n, !.read = b]]
    <3>1. m_screenshot_proxies' = [m_screenshot_proxies EXCEPT
             ![r.proxy].file = content, ![r.proxy].first = FALSE]
      BY <1>4 DEF FT!OnData
    <3>2. m_screenshot_proxies' = [m_screenshot_proxies EXCEPT
             ![r.proxy] = [s EXCEPT !.file = content, !.first = FALSE]]
      BY <2>1, <3>1 DEF Sound, ServerSound
    <3>3. \/ m_receivers' = FT!Without(m_receivers, {c})
          \/ m_receivers' = [m_receivers EXCEPT ![c].size = n,
                                                ![c].read = @ \/ ~FT!Ignored(s.file, m)]
      BY <1>4 DEF FT!OnData
    <3>4. (r.read \/ ~FT!Ignored(s.file, m)) \in BOOLEAN
      BY <2>1 DEF IsReceiver
    <3> QED
      BY <1>4, <3>2, <3>3, <3>4 DEF FT!OnData
  <2> HIDE DEF content, n
  <2>3. /\ DOMAIN m_screenshot_proxies' = 1..Proxies
        /\ \A p \in 1..Proxies : /\ IsProxy(m_screenshot_proxies'[p])
                                 /\ m_screenshot_proxies'[p].admin = m_screenshot_proxies[p].admin
                                 /\ m_screenshot_proxies'[p].cheater = m_screenshot_proxies[p].cheater
    <3> DEFINE x == [s EXCEPT !.file = content, !.first = FALSE]
    <3>1. IsProxy(x) /\ x.admin = s.admin /\ x.cheater = s.cheater
      BY <2>1, ProxyFilled
    <3>2. m_screenshot_proxies' = [m_screenshot_proxies EXCEPT ![r.proxy] = x]
      BY <2>2
    <3> HIDE DEF x
    <3> QED
      BY <2>1, <3>1, <3>2 DEF Sound, ServerSound
  <2>4. /\ DOMAIN m_receivers' \subseteq DOMAIN m_receivers
        /\ \A d \in DOMAIN m_receivers' :
             IsReceiver(m_receivers'[d]) /\ m_receivers'[d].proxy = m_receivers[d].proxy
    <3>1. CASE m_receivers' = FT!Without(m_receivers, {c})
      BY <3>1 DEF Sound, ServerSound, FT!Without, FT!Restrict
    <3>2. CASE \E b \in BOOLEAN : m_receivers' =
                 [m_receivers EXCEPT ![c] = [r EXCEPT !.size = n, !.read = b]]
      <4>1. PICK b \in BOOLEAN : m_receivers' =
                 [m_receivers EXCEPT ![c] = [r EXCEPT !.size = n, !.read = b]]
        BY <3>2
      <4> DEFINE x == [r EXCEPT !.size = n, !.read = b]
      <4>2. IsReceiver(x) /\ x.proxy = r.proxy
        BY <2>1, <4>1 DEF IsReceiver
      <4>3. m_receivers' = [m_receivers EXCEPT ![c] = x]
        BY <4>1
      <4> HIDE DEF x
      <4> QED
        BY <1>4, <4>2, <4>3 DEF Sound, ServerSound
    <3> QED
      BY <2>2, <3>1, <3>2
  <2>5. /\ DOMAIN m_transfers' \subseteq DOMAIN m_transfers \cup {<<s.admin, c>>}
        /\ \A k \in DOMAIN m_transfers' :
             IF k \in DOMAIN m_transfers THEN m_transfers'[k] = m_transfers[k]
             ELSE m_transfers'[k] = [proxy |-> r.proxy, at |-> 0, size |-> n]
    BY <2>1, <2>2 DEF FT!Forwards, FT!Inserted
  <2>6. <<s.admin, c>> \in Clients \X FT!Sources
    BY <2>1 DEF FT!Sources
  <2>7. \A k \in DOMAIN m_transfers' : IsTransfer(m_transfers'[k]) /\ PassesOn(k)'
    <3> TAKE k \in DOMAIN m_transfers'
    <3>1. CASE k \in DOMAIN m_transfers
      BY <2>3, <2>5, <3>1 DEF Sound, ServerSound, PassesOn
    <3>2. CASE k \notin DOMAIN m_transfers
      <4>1. k = <<s.admin, c>> /\ m_transfers'[k] = [proxy |-> r.proxy, at |-> 0, size |-> n]
        BY <2>5, <3>2
      <4>2. IsTransfer(m_transfers'[k]) /\ m_transfers'[k].proxy = r.proxy
        BY <2>1, <4>1 DEF IsTransfer
      <4> QED
        BY <2>1, <2>3, <4>1, <4>2 DEF PassesOn
    <3> QED
      BY <3>1, <3>2
  <2>8. IsFiniteSet(DOMAIN m_transfers')
    <3>1. IsFiniteSet(DOMAIN m_transfers \cup {<<s.admin, c>>})
      BY FS_AddElement DEF Sound, ServerSound
    <3> QED
      BY <2>5, <3>1, FS_Subset
  <2>9. \A d \in DOMAIN m_receivers' : Serves(d)'
    <3> TAKE d \in DOMAIN m_receivers'
    <3>1. d \in DOMAIN m_receivers /\ m_receivers[d].proxy \in 1..Proxies /\ Serves(d)
      BY <2>4 DEF Sound, ServerSound, IsReceiver
    <3> QED
      BY <2>3, <2>4, <3>1 DEF Serves
  <2>10. ServerSound'
    BY <2>3, <2>4, <2>5, <2>6, <2>7, <2>8, <2>9 DEF Sound, ServerSound
  <2>11. CASE UNCHANGED toClient
    BY <1>1, <2>10, <2>11 DEF Sound, LinksSound, GoneSilent
  <2>12. CASE \E x : FT!SendTo(s.admin, <<x>>)
    BY <1>1, <1>2, <2>1, <2>10, <2>12 DEF Sound
  <2> QED
    BY <2>2, <2>11, <2>12 DEF FT!Forwards
<1> QED
  BY <1>3, <1>4

(* A client sends no more, or wants no more.                               *)
LEMMA SoundStop ==
  ASSUME Sound, NEW c \in Clients, NEW x, IsQueue(x), FT!SendTo(c, x) \/ UNCHANGED toClient,
         DOMAIN toServer' = Clients, \A a \in Clients : IsQueue(toServer'[a]),
         UNCHANGED <<connected, playing, making, uploading, receiving, buffer, files,
                     m_screenshot_proxies>>,
         \/ UNCHANGED <<m_receivers, m_transfers>>
         \/ UNCHANGED m_transfers /\ \E K : m_receivers' = FT!Without(m_receivers, K)
         \/ UNCHANGED m_receivers /\ \E K : m_transfers' = FT!Without(m_transfers, K)
  PROVE  Sound'
<1>1. ClientsSound'
  BY DEF Sound, ClientsSound, FilesSound, IsReceiving
<1>2. LinksSound' /\ GoneSilent'
  <2>1. CASE UNCHANGED toClient
    BY <2>1 DEF Sound, LinksSound, GoneSilent
  <2>2. CASE FT!SendTo(c, x)
    BY <2>2, SentTo DEF Sound, LinksSound, GoneSilent
  <2> QED
    BY <2>1, <2>2
<1>3. /\ DOMAIN m_receivers' \subseteq DOMAIN m_receivers
      /\ \A d \in DOMAIN m_receivers' : m_receivers'[d] = m_receivers[d]
      /\ DOMAIN m_transfers' \subseteq DOMAIN m_transfers
      /\ \A k \in DOMAIN m_transfers' : m_transfers'[k] = m_transfers[k]
  BY DEF FT!Without, FT!Restrict
<1>4. IsFiniteSet(DOMAIN m_transfers')
  BY <1>3, FS_Subset DEF Sound, ServerSound
<1>5. ServerSound'
  BY <1>3, <1>4 DEF Sound, ServerSound, Serves, PassesOn
<1> QED
  BY <1>1, <1>2, <1>5 DEF Sound

(* What the server sends a destination in a frame: a packet of each of its *)
(* transfers K, in some order, the farewell x and the reject y.            *)
Packed(a, K, x, y, r) ==
  /\ IsFiniteSet(K) /\ \A k \in K : k = <<a, k[2]>>
  /\ x \in {<<>>, <<FT!Abort(SV_Client)>>} /\ y \in {<<>>, <<FT!Reject(SV_Client)>>}
  /\ r = [n \in DOMAIN FT!SetToSeq(K) |-> FT!Packet(FT!SetToSeq(K)[n])] \o x \o y

(* What is in the packets of a frame, and in which order.                  *)
LEMMA FrameSent ==
  ASSUME NEW a, NEW K, NEW x, NEW y, NEW r, Packed(a, K, x, y, r)
  PROVE  /\ IsQueue(r)
         /\ \A i \in 1..Len(r) : \/ r[i].type = "data"
                                 \/ r[i] = FT!Abort(SV_Client) /\ x # <<>>
                                 \/ r[i].type = "reject" /\ y # <<>>
         /\ \A i \in 1..Len(r) : r[i].type = "data" => <<a, r[i].from>> \in K
         /\ \A k \in K : \E j \in 1..Len(r) :
              /\ r[j] = FT!Packet(k)
              /\ \A i \in 1..Len(r) : IsData(r[i], k[2]) => i = j
              /\ \A i \in 1..Len(r) : r[i].type = "abort" => j < i
<1> DEFINE keys == FT!SetToSeq(K)
           X == [n \in DOMAIN keys |-> FT!Packet(keys[n])]
<1>0. /\ IsFiniteSet(K) /\ \A k \in K : k = <<a, k[2]>>
      /\ x \in {<<>>, <<FT!Abort(SV_Client)>>} /\ y \in {<<>>, <<FT!Reject(SV_Client)>>}
      /\ r = X \o x \o y
  BY DEF Packed
<1>1. /\ IsQueue(keys) /\ Len(keys) \in Nat /\ DOMAIN keys = 1..Len(keys)
      /\ \A i \in DOMAIN keys : keys[i] \in K
      /\ \A k \in K : \E i \in DOMAIN keys : keys[i] = k
      /\ \A i, j \in DOMAIN keys : keys[i] = keys[j] => i = j
  BY <1>0, Enumerated
<1> HIDE DEF keys
<1>2. IsQueue(X) /\ Len(X) = Len(keys) /\ \A i \in 1..Len(keys) : X[i] = FT!Packet(keys[i])
  BY <1>1, QueueMade
<1>3. r = X \o x \o y
  BY <1>0
<1> HIDE DEF X
<1>4. IsQueue(X) /\ IsQueue(x) /\ IsQueue(y)
  BY <1>0, <1>2, ShortQueues
<1>12. /\ Len(X) = Len(keys) /\ Len(keys) \in Nat
       /\ Len(x) = 0 \/ (Len(x) = 1 /\ x[1] = FT!Abort(SV_Client) /\ x # <<>>)
       /\ Len(y) = 0 \/ (Len(y) = 1 /\ y[1] = FT!Reject(SV_Client) /\ y # <<>>)
  BY <1>0, <1>1, <1>2, ShortQueues
<1>5. /\ IsQueue(X \o x) /\ Len(X \o x) = Len(X) + Len(x)
      /\ \A i \in 1..Len(X) : (X \o x)[i] = X[i]
      /\ \A i \in (Len(X) + 1)..(Len(X) + Len(x)) : (X \o x)[i] = x[i - Len(X)]
  BY <1>4, QueueConcat
<1> DEFINE Xx == X \o x
<1>13. IsQueue(Xx) /\ r = Xx \o y
  BY <1>3, <1>5
<1> HIDE DEF Xx
<1>14. /\ IsQueue(r) /\ Len(r) = Len(Xx) + Len(y)
       /\ \A i \in 1..Len(Xx) : r[i] = Xx[i]
       /\ \A i \in (Len(Xx) + 1)..(Len(Xx) + Len(y)) : r[i] = y[i - Len(Xx)]
  <2>1. /\ IsQueue(Xx \o y) /\ Len(Xx \o y) = Len(Xx) + Len(y)
        /\ \A i \in 1..Len(Xx) : (Xx \o y)[i] = Xx[i]
        /\ \A i \in (Len(Xx) + 1)..(Len(Xx) + Len(y)) : (Xx \o y)[i] = y[i - Len(Xx)]
    BY <1>4, <1>13, QueueConcat
  <2> QED
    BY <1>13, <2>1
<1>6. /\ IsQueue(r) /\ Len(r) = Len(X) + Len(x) + Len(y)
      /\ \A i \in 1..(Len(X) + Len(x)) : r[i] = (X \o x)[i]
      /\ \A i \in (Len(X) + Len(x) + 1)..(Len(X) + Len(x) + Len(y)) : r[i] = y[i - (Len(X) + Len(x))]
  BY <1>5, <1>14 DEF Xx
<1>7. ASSUME NEW i \in 1..Len(r)
      PROVE  \/ i \in 1..Len(keys) /\ r[i] = FT!Packet(keys[i])
             \/ i > Len(keys) /\ r[i] = FT!Abort(SV_Client) /\ x # <<>>
             \/ i > Len(keys) /\ r[i] = FT!Reject(SV_Client) /\ y # <<>>
  <2>1. CASE i \in 1..Len(X)
    <3>1. i \in 1..(Len(X) + Len(x)) /\ i \in 1..Len(keys)
      BY <1>12, <2>1
    <3> QED
      BY <1>2, <1>5, <1>6, <2>1, <3>1
  <2>2. CASE i \in (Len(X) + 1)..(Len(X) + Len(x))
    <3>0. Len(X) \in Nat /\ (Len(x) = 0 \/ Len(x) = 1)
      BY <1>12
    <3>3. ASSUME NEW u \in Nat, NEW v, v = 0 \/ v = 1, i \in (u + 1)..(u + v)
          PROVE  i - u = 1 /\ v = 1 /\ i \in 1..(u + v)
      BY <3>3
    <3>1. i - Len(X) = 1 /\ Len(x) = 1 /\ i \in 1..(Len(X) + Len(x))
      BY <2>2, <3>0, <3>3
    <3>2. r[i] = x[1]
      BY <1>5, <1>6, <2>2, <3>1
    <3> QED
      BY <1>12, <2>2, <3>1, <3>2
  <2>3. CASE i \in (Len(X) + Len(x) + 1)..(Len(X) + Len(x) + Len(y))
    <3>0. /\ Len(X) \in Nat /\ (Len(x) = 0 \/ Len(x) = 1) /\ (Len(y) = 0 \/ Len(y) = 1)
          /\ Len(keys) = Len(X)
      BY <1>12
    <3>3. ASSUME NEW u \in Nat, NEW v, v = 0 \/ v = 1, NEW w, w = 0 \/ w = 1,
                 i \in (u + v + 1)..(u + v + w)
          PROVE  i - (u + v) = 1 /\ w = 1 /\ i > u
      BY <3>3
    <3>1. i - (Len(X) + Len(x)) = 1 /\ Len(y) = 1 /\ i > Len(keys)
      BY <2>3, <3>0, <3>3
    <3>2. r[i] = y[1]
      BY <1>6, <2>3, <3>1
    <3> QED
      BY <1>12, <3>1, <3>2
  <2> QED
    BY <1>6, <1>12, <2>1, <2>2, <2>3
<1>8. /\ FT!Abort(SV_Client).type = "abort" /\ FT!Reject(SV_Client).type = "reject"
      /\ \A k : FT!Packet(k).type = "data" /\ FT!Packet(k).from = k[2]
  BY DEF FT!Abort, FT!Reject, FT!Packet, FT!Data
<1>9. ASSUME NEW i \in 1..Len(r), r[i].type = "data"
      PROVE  i \in 1..Len(keys) /\ r[i] = FT!Packet(keys[i]) /\ r[i].from = keys[i][2]
  BY <1>7, <1>8, <1>9
<1>10. ASSUME NEW i \in 1..Len(r), r[i].type = "data" PROVE <<a, r[i].from>> \in K
  <2>1. keys[i] \in K /\ r[i].from = keys[i][2]
    BY <1>1, <1>9, <1>10
  <2> QED
    BY <1>0, <2>1
<1>11. ASSUME NEW k \in K
       PROVE  \E j \in 1..Len(r) :
                /\ r[j] = FT!Packet(k)
                /\ \A i \in 1..Len(r) : IsData(r[i], k[2]) => i = j
                /\ \A i \in 1..Len(r) : r[i].type = "abort" => j < i
  <2>1. PICK j \in 1..Len(keys) : keys[j] = k
    BY <1>1
  <2>2. j \in 1..Len(r) /\ r[j] = FT!Packet(k)
    <3>1. j \in 1..Len(X) /\ j \in 1..(Len(X) + Len(x)) /\ j \in 1..(Len(X) + Len(x) + Len(y))
      BY <1>12
    <3> QED
      BY <1>2, <1>5, <1>6, <2>1, <3>1
  <2>3. ASSUME NEW i \in 1..Len(r), IsData(r[i], k[2]) PROVE i = j
    <3>1. i \in 1..Len(keys) /\ keys[i][2] = k[2]
      BY <1>9, <2>3 DEF IsData
    <3>2. keys[i] = <<a, k[2]>> /\ k = <<a, k[2]>>
      BY <1>0, <1>1, <3>1
    <3> QED
      BY <1>1, <2>1, <3>1, <3>2
  <2>4. ASSUME NEW i \in 1..Len(r), r[i].type = "abort" PROVE j < i
    <3>1. i > Len(keys)
      BY <1>7, <1>8, <2>4
    <3> QED
      BY <1>12, <3>1
  <2> QED
    BY <2>2, <2>3, <2>4
<1>15. ASSUME NEW i \in 1..Len(r)
       PROVE  \/ r[i].type = "data"
              \/ r[i] = FT!Abort(SV_Client) /\ x # <<>>
              \/ r[i].type = "reject" /\ y # <<>>
  BY <1>7, <1>8
<1> QED
  BY <1>6, <1>10, <1>11, <1>15

(* Which transfers send in a frame, and what a destination is sent in it.  *)
Sending == {k \in DOMAIN m_transfers : k[1] \in connected /\ Len(toClient[k[1]]) < MaxPackets}
InFrame(a, r, done, late) ==
  /\ IsQueue(r) /\ (a \notin connected \cap playing => r = <<>>)
  /\ \A i \in 1..Len(r) :
       \/ r[i].type = "data" /\ <<a, r[i].from>> \in Sending
       \/ r[i] = FT!Abort(SV_Client) /\ <<a, SV_Client>> \in done
       \/ r[i].type = "reject" /\ a \in late
  /\ a \in connected \cap playing =>
       \A k \in Sending : k[1] = a =>
         \E j \in 1..Len(r) :
           /\ r[j] = FT!Packet(k)
           /\ \A i \in 1..Len(r) : IsData(r[i], k[2]) => i = j
           /\ \A i \in 1..Len(r) : r[i].type = "abort" => j < i

(* What a frame of the server does.                                        *)
LEMMA FrameEffect ==
  ASSUME Sound, NEW late, FT!UpdateServer(late)
  PROVE  \E done \in FT!Ends(Sending) :
           /\ done \subseteq Sending /\ DOMAIN toClient' = Clients
           /\ \A a \in Clients : \E r : toClient'[a] = toClient[a] \o r /\ InFrame(a, r, done, late)
           /\ m_transfers' =
                [k \in {j \in DOMAIN m_transfers : j[1] \in connected} \ done |->
                   [m_transfers[k] EXCEPT !.at = IF k \in Sending THEN FT!At(k) ELSE @]]
           /\ m_receivers' =
                [c \in DOMAIN m_receivers \ late |-> [m_receivers[c] EXCEPT !.read = FALSE]]
<1> DEFINE there == DOMAIN m_transfers \ {k \in DOMAIN m_transfers : k[1] \notin connected}
           sending == {k \in there : Len(toClient[k[1]]) < MaxPackets}
<1>1. sending = Sending /\ there = {j \in DOMAIN m_transfers : j[1] \in connected}
  BY DEF Sending
<1> DEFINE X(a) == LET keys == FT!SetToSeq({k \in sending : k[1] = a}) IN
                   [n \in DOMAIN keys |-> FT!Packet(keys[n])]
           Y(a, done) == FT!Farewell(a, done)
           Z(a, all) == IF a \in late THEN FT!RejectUnlessComplete(a, a \in all) ELSE <<>>
<1>2. PICK done \in FT!Ends(sending), all \in SUBSET late :
        /\ toClient' = [a \in Clients |->
             toClient[a] \o FT!Delivered(a, X(a) \o Y(a, done) \o Z(a, all))]
        /\ m_transfers' =
             [k \in there \ done |->
               [m_transfers[k] EXCEPT !.at = IF k \in sending THEN FT!At(k) ELSE @]]
        /\ m_receivers' =
             [c \in DOMAIN m_receivers \ late |-> [m_receivers[c] EXCEPT !.read = FALSE]]
  BY DEF FT!UpdateServer, FT!Update
<1>3. done \in FT!Ends(Sending) /\ done \subseteq Sending
  BY <1>1, <1>2 DEF FT!Ends
<1>4. ASSUME NEW a \in Clients
      PROVE  \E r : toClient'[a] = toClient[a] \o r /\ InFrame(a, r, done, late)
  <2> DEFINE K == {k \in Sending : k[1] = a}
             x == Y(a, done)
             y == Z(a, all)
             r == FT!Delivered(a, X(a) \o x \o y)
  <2>1. toClient'[a] = toClient[a] \o r
    BY <1>2
  <2>2. IsFiniteSet(K)
    <3>1. K \subseteq DOMAIN m_transfers /\ IsFiniteSet(DOMAIN m_transfers)
      BY DEF Sending, Sound, ServerSound
    <3> QED
      BY <3>1, FS_Subset
  <2>3. \A k \in K : k = <<a, k[2]>>
    <3>1. \A k \in DOMAIN m_transfers : k = <<k[1], k[2]>>
      BY DEF Sound, ServerSound
    <3> QED
      BY <3>1 DEF Sending
  <2>4. x \in {<<>>, <<FT!Abort(SV_Client)>>} /\ (x # <<>> => <<a, SV_Client>> \in done)
    BY DEF FT!Farewell
  <2>5. y \in {<<>>, <<FT!Reject(SV_Client)>>} /\ (y # <<>> => a \in late)
    BY DEF FT!RejectUnlessComplete
  <2>6. X(a) = [n \in DOMAIN FT!SetToSeq(K) |-> FT!Packet(FT!SetToSeq(K)[n])]
    BY <1>1
  <2>7. CASE a \notin connected \cap playing
    <3>1. r = <<>>
      BY <2>7 DEF FT!Delivered
    <3>2. IsQueue(<<>>) /\ Len(<<>>) = 0
      BY ShortQueues
    <3> HIDE DEF r
    <3>3. InFrame(a, r, done, late)
      BY <2>7, <3>1, <3>2 DEF InFrame
    <3> QED
      BY <2>1, <3>3
  <2>8. CASE a \in connected \cap playing
    <3>1. r = X(a) \o x \o y
      BY <2>8 DEF FT!Delivered
    <3> HIDE DEF K, x, y, r, X, Y, Z
    <3>2. Packed(a, K, x, y, r)
      BY <2>2, <2>3, <2>4, <2>5, <2>6, <3>1 DEF Packed
    <3>3. /\ IsQueue(r)
          /\ \A i \in 1..Len(r) : \/ r[i].type = "data"
                                  \/ r[i] = FT!Abort(SV_Client) /\ x # <<>>
                                  \/ r[i].type = "reject" /\ y # <<>>
          /\ \A i \in 1..Len(r) : r[i].type = "data" => <<a, r[i].from>> \in K
          /\ \A k \in K : \E j \in 1..Len(r) :
               /\ r[j] = FT!Packet(k)
               /\ \A i \in 1..Len(r) : IsData(r[i], k[2]) => i = j
               /\ \A i \in 1..Len(r) : r[i].type = "abort" => j < i
      BY <3>2, FrameSent
    <3>4. InFrame(a, r, done, late)
      BY <2>4, <2>5, <2>8, <3>3 DEF InFrame, K
    <3> QED
      BY <2>1, <3>4
  <2> QED
    BY <2>7, <2>8
<1>5. DOMAIN toClient' = Clients
  BY <1>2
<1> HIDE DEF X, Y, Z, there, sending
<1> QED
  BY <1>1, <1>2, <1>3, <1>4, <1>5

(* The server's frame changes receivers and ends transfers.                *)
LEMMA SoundFrame ==
  ASSUME Sound, NEW late, FT!UpdateServer(late)
  PROVE  Sound'
<1>0. UNCHANGED <<connected, playing, toServer, m_screenshot_proxies, making, uploading, receiving, buffer, files>>
  BY DEF FT!UpdateServer, FT!client
<1>1. PICK done \in FT!Ends(Sending) :
        /\ done \subseteq Sending /\ DOMAIN toClient' = Clients
        /\ \A a \in Clients : \E r : toClient'[a] = toClient[a] \o r /\ InFrame(a, r, done, late)
        /\ m_transfers' =
             [k \in {j \in DOMAIN m_transfers : j[1] \in connected} \ done |->
                [m_transfers[k] EXCEPT !.at = IF k \in Sending THEN FT!At(k) ELSE @]]
        /\ m_receivers' =
             [c \in DOMAIN m_receivers \ late |-> [m_receivers[c] EXCEPT !.read = FALSE]]
  BY FrameEffect
<1>2. ClientsSound'
  BY <1>0 DEF Sound, ClientsSound, FilesSound, IsReceiving
<1>3. LinksSound' /\ GoneSilent'
  <2>1. ASSUME NEW a \in Clients
        PROVE  /\ IsQueue(toClient'[a])
               /\ a \notin connected \cap playing => toClient'[a] = toClient[a]
    <3>1. PICK r : toClient'[a] = toClient[a] \o r /\ InFrame(a, r, done, late)
      BY <1>1
    <3>2. IsQueue(toClient[a]) /\ IsQueue(r) /\ (a \notin connected \cap playing => r = <<>>)
      BY <3>1 DEF Sound, LinksSound, InFrame
    <3>3. IsQueue(toClient[a] \o r) /\ toClient[a] \o <<>> = toClient[a]
      BY <3>2, QueueConcat, QueueNothing
    <3> QED
      BY <3>1, <3>2, <3>3
  <2> QED
    BY <1>0, <1>1, <2>1 DEF Sound, LinksSound, GoneSilent
<1>4. /\ DOMAIN m_receivers' \subseteq DOMAIN m_receivers
      /\ \A c \in DOMAIN m_receivers' :
           IsReceiver(m_receivers'[c]) /\ m_receivers'[c].proxy = m_receivers[c].proxy
  <2>1. DOMAIN m_receivers' \subseteq DOMAIN m_receivers
    BY <1>1
  <2>2. ASSUME NEW c \in DOMAIN m_receivers'
        PROVE  IsReceiver(m_receivers'[c]) /\ m_receivers'[c].proxy = m_receivers[c].proxy
    <3>1. m_receivers'[c] = [m_receivers[c] EXCEPT !.read = FALSE]
      BY <1>1
    <3>2. IsReceiver(m_receivers[c])
      BY <2>1 DEF Sound, ServerSound
    <3> QED
      BY <3>1, <3>2 DEF IsReceiver
  <2> QED
    BY <2>1, <2>2
<1>5. /\ DOMAIN m_transfers' \subseteq DOMAIN m_transfers
      /\ \A k \in DOMAIN m_transfers' :
           IsTransfer(m_transfers'[k]) /\ m_transfers'[k].proxy = m_transfers[k].proxy
  <2>1. DOMAIN m_transfers' \subseteq DOMAIN m_transfers
    BY <1>1
  <2>2. ASSUME NEW k \in DOMAIN m_transfers'
        PROVE IsTransfer(m_transfers'[k]) /\ m_transfers'[k].proxy = m_transfers[k].proxy
    <3>1. IsTransfer(m_transfers[k])
      BY <2>1 DEF Sound, ServerSound
    <3>2. \E n : m_transfers'[k] = [m_transfers[k] EXCEPT !.at = n]
      BY <1>1
    <3> QED
      BY <3>1, <3>2 DEF IsTransfer
  <2> QED
    BY <2>1, <2>2
<1>6. IsFiniteSet(DOMAIN m_transfers')
  BY <1>5, FS_Subset DEF Sound, ServerSound
<1>7. ServerSound'
  BY <1>0, <1>4, <1>5, <1>6 DEF Sound, ServerSound, Serves, PassesOn
<1> QED
  BY <1>2, <1>3, <1>7 DEF Sound

(* What a client does does not concern the server's records.               *)
LEMMA ServerRests ==
  ASSUME ServerSound, UNCHANGED <<m_screenshot_proxies, m_receivers, m_transfers>>
  PROVE  ServerSound'
BY DEF ServerSound, Serves, PassesOn

(* The record of a client's receiver that is made.                         *)
LEMMA ReceivingMade ==
  ASSUME NEW v, NEW z, NEW b \in BOOLEAN, NEW d
  PROVE  IsReceiving([content |-> v, size |-> z, read |-> b, quiet |-> d])
BY DEF IsReceiving

(* What a client receives from is changed for one of them at most.         *)
LEMMA ReceivingChanged ==
  ASSUME ClientsSound, NEW c \in Clients, NEW src, NEW g,
         receiving' = [receiving EXCEPT ![c] = g], DOMAIN g \subseteq DOMAIN receiving[c] \cup {src},
         \A x \in DOMAIN g : IsReceiving(g[x])
  PROVE  /\ DOMAIN receiving' = Clients
         /\ \A a \in Clients : a # c => receiving'[a] = receiving[a]
         /\ receiving'[c] = g
         /\ \A a \in Clients : IsFiniteSet(DOMAIN receiving'[a])
         /\ \A a \in Clients : \A x \in DOMAIN receiving'[a] : IsReceiving(receiving'[a][x])
<1>1. /\ DOMAIN receiving' = Clients /\ receiving'[c] = g
      /\ \A a \in Clients : a # c => receiving'[a] = receiving[a]
  BY DEF ClientsSound
<1>2. IsFiniteSet(DOMAIN g)
  <2>1. IsFiniteSet(DOMAIN receiving[c] \cup {src})
    BY FS_AddElement DEF ClientsSound
  <2> QED
    BY <2>1, FS_Subset
<1> QED
  BY <1>1, <1>2 DEF ClientsSound

(* A message is handled by a client: what he receives from afterwards.     *)
ReceivesLess(c, src) == receiving' = [receiving EXCEPT ![c] = FT!Without(@, {src})]
ReceivesMore(c, src, d) == receiving' = [receiving EXCEPT ![c] =
  FT!Inserted(@, src, [content |-> <<>>, size |-> FT!Junk, read |-> TRUE, quiet |-> d])]
ReceivesOn(c, src, v, z, b) == receiving' = [receiving EXCEPT ![c][src] =
  [content |-> v, size |-> z, read |-> b, quiet |-> receiving[c][src].quiet]]

(* The receivers of the clients after any of these changes.                *)
LEMMA ReceivingHandled ==
  ASSUME ClientsSound, NEW c \in Clients, NEW src,
         \/ UNCHANGED receiving
         \/ ReceivesLess(c, src)
         \/ \E d : ReceivesMore(c, src, d)
         \/ /\ src \in DOMAIN receiving[c]
            /\ \E v, z : \E b \in BOOLEAN : ReceivesOn(c, src, v, z, b)
  PROVE  /\ DOMAIN receiving' = Clients
         /\ \A a \in Clients : a # c => receiving'[a] = receiving[a]
         /\ \A a \in Clients : IsFiniteSet(DOMAIN receiving'[a])
         /\ \A a \in Clients : \A x \in DOMAIN receiving'[a] : IsReceiving(receiving'[a][x])
<1>1. CASE UNCHANGED receiving
  BY <1>1 DEF ClientsSound
<1>2. CASE ReceivesLess(c, src)
  <2> DEFINE g == FT!Without(receiving[c], {src})
  <2>1. receiving' = [receiving EXCEPT ![c] = g]
    BY <1>2 DEF ReceivesLess
  <2>2. DOMAIN g \subseteq DOMAIN receiving[c] \cup {src} /\ \A x \in DOMAIN g : IsReceiving(g[x])
    BY DEF ClientsSound, FT!Without, FT!Restrict
  <2> HIDE DEF g
  <2> QED
    BY <2>1, <2>2, ReceivingChanged
<1>3. CASE \E d : ReceivesMore(c, src, d)
  <2>0. PICK d : ReceivesMore(c, src, d)
    BY <1>3
  <2> DEFINE r == [content |-> <<>>, size |-> FT!Junk, read |-> TRUE, quiet |-> d]
             g == FT!Inserted(receiving[c], src, r)
  <2>1. receiving' = [receiving EXCEPT ![c] = g]
    BY <2>0 DEF ReceivesMore
  <2>3. IsReceiving(r)
    BY ReceivingMade
  <2> HIDE DEF r
  <2>2. DOMAIN g \subseteq DOMAIN receiving[c] \cup {src} /\ \A x \in DOMAIN g : IsReceiving(g[x])
    BY <2>3 DEF ClientsSound, FT!Inserted
  <2> HIDE DEF g
  <2> QED
    BY <2>1, <2>2, ReceivingChanged
<1>4. CASE /\ src \in DOMAIN receiving[c]
           /\ \E v, z : \E b \in BOOLEAN : ReceivesOn(c, src, v, z, b)
  <2>0. PICK v, z : \E b \in BOOLEAN : ReceivesOn(c, src, v, z, b)
    BY <1>4
  <2>4. PICK b \in BOOLEAN : ReceivesOn(c, src, v, z, b)
    BY <2>0
  <2> DEFINE r == [content |-> v, size |-> z, read |-> b, quiet |-> receiving[c][src].quiet]
             g == [receiving[c] EXCEPT ![src] = r]
  <2>1. receiving' = [receiving EXCEPT ![c] = g]
    BY <2>4 DEF ReceivesOn
  <2>3. IsReceiving(r)
    BY <2>4, ReceivingMade
  <2> HIDE DEF r
  <2>2. DOMAIN g \subseteq DOMAIN receiving[c] \cup {src} /\ \A x \in DOMAIN g : IsReceiving(g[x])
    BY <2>3 DEF ClientsSound
  <2> HIDE DEF g
  <2> QED
    BY <2>1, <2>2, ReceivingChanged
<1> QED
  BY <1>1, <1>2, <1>3, <1>4

(* What a client answers.                                                  *)
Answers(c, s) ==
  /\ DOMAIN toServer' = Clients /\ IsQueue(s) /\ toServer'[c] = toServer[c] \o s
  /\ \A a \in Clients : IsQueue(toServer'[a]) /\ (a # c => toServer'[a] = toServer[a])

(* Both an answer and none are answers.                                    *)
LEMMA AnswerGiven ==
  ASSUME LinksSound, NEW c \in Clients
  PROVE  /\ UNCHANGED toServer => Answers(c, <<>>)
         /\ \A s : IsQueue(s) /\ FT!Answer(c, s) => Answers(c, s)
<1>1. ASSUME UNCHANGED toServer PROVE Answers(c, <<>>)
  BY <1>1, QueueNothing, ShortQueues DEF LinksSound, Answers
<1>2. ASSUME NEW s, IsQueue(s), FT!Answer(c, s) PROVE Answers(c, s)
  BY <1>2, Answered DEF Answers
<1> QED
  BY <1>1, <1>2

(* A client's program handles a message: which it is, and what it does.    *)
LEMMA ReceiveEffect ==
  ASSUME Sound, NEW c \in Clients, FT!ClientReceive(c)
  PROVE  /\ c \in connected \cap playing /\ toClient[c] # <<>>
         /\ toClient' = [toClient EXCEPT ![c] = Tail(@)]
         /\ UNCHANGED <<connected, playing, m_screenshot_proxies, m_receivers, m_transfers, buffer, files>>
         /\ \/ /\ Head(toClient[c]).type = "request" /\ making' = making \cup {c}
               /\ UNCHANGED uploading
            \/ /\ Head(toClient[c]).type \in {"response", "logo", "data", "abort"}
               /\ UNCHANGED <<making, uploading>>
            \/ /\ Head(toClient[c]).type = "reject" /\ UNCHANGED making
               /\ uploading' = [uploading EXCEPT ![c] = FT!NoUpload]
         /\ \E s : Answers(c, s) /\ \A i \in DOMAIN s : s[i].type # "data"
         /\ \E src :
              \/ UNCHANGED receiving
              \/ ReceivesLess(c, src)
              \/ \E d : ReceivesMore(c, src, d)
              \/ /\ src \in DOMAIN receiving[c]
                 /\ \E v, z : \E b \in BOOLEAN : ReceivesOn(c, src, v, z, b)
<1> DEFINE m == Head(toClient[c])
           Calm == \E s : Answers(c, s) /\ \A i \in DOMAIN s : s[i].type # "data"
           Got(src) == \/ UNCHANGED receiving
                       \/ ReceivesLess(c, src)
                       \/ \E d : ReceivesMore(c, src, d)
                       \/ /\ src \in DOMAIN receiving[c]
                          /\ \E v, z : \E b \in BOOLEAN : ReceivesOn(c, src, v, z, b)
<1>0. LinksSound
  BY DEF Sound
<1>1. /\ c \in connected \cap playing /\ toClient[c] # <<>>
      /\ toClient' = [toClient EXCEPT ![c] = Tail(@)]
      /\ UNCHANGED <<connected, playing, m_screenshot_proxies, m_receivers, m_transfers, buffer, files>>
  BY DEF FT!ClientReceive, FT!server
<1>2. ASSUME UNCHANGED toServer PROVE Calm
  <2>1. Answers(c, <<>>)
    BY <1>0, <1>2, AnswerGiven
  <2>2. \A i \in DOMAIN <<>> : <<>>[i].type # "data"
    OBVIOUS
  <2> QED
    BY <2>1, <2>2
<1>3. ASSUME NEW x, x.type # "data", FT!Answer(c, <<x>>) PROVE Calm
  <2>1. IsQueue(<<x>>) /\ <<x>>[1] = x /\ DOMAIN <<x>> = 1..1
    BY ShortQueues
  <2>2. Answers(c, <<x>>)
    BY <1>0, <1>3, <2>1, AnswerGiven
  <2>3. \A i \in DOMAIN <<x>> : <<x>>[i].type # "data"
    BY <1>3, <2>1
  <2> QED
    BY <2>2, <2>3
<1>4. ASSUME FT!Answer(c, <<>>) PROVE Calm
  <2>1. Answers(c, <<>>)
    BY <1>0, <1>4, AnswerGiven, ShortQueues
  <2>2. \A i \in DOMAIN <<>> : <<>>[i].type # "data"
    OBVIOUS
  <2> QED
    BY <2>1, <2>2
<1>5. \A src : FT!Reject(src).type = "reject" /\ FT!Abort(src).type = "abort"
  BY DEF FT!Reject, FT!Abort
<1>6. ASSUME NEW src, NEW complete, FT!StopReceiving(c, src, complete) PROVE Calm /\ Got(src)
  <2>1. FT!Answer(c, <<>>) \/ FT!Answer(c, <<FT!Reject(src)>>)
    BY <1>6 DEF FT!StopReceiving
  <2>2. Calm
    BY <1>3, <1>4, <1>5, <2>1
  <2> HIDE DEF Calm
  <2> QED
    BY <1>6, <2>2 DEF FT!StopReceiving, ReceivesLess
<1>7. CASE m.type = "request" /\ making' = making \cup {c} /\ UNCHANGED <<toServer, uploading, receiving>>
  BY <1>1, <1>2, <1>7
<1>8. ASSUME NEW src, NEW d, m.type \in {"response", "logo"}, FT!StartReceiving(c, src, d)
      PROVE  /\ m.type \in {"response", "logo", "data", "abort"} /\ UNCHANGED <<making, uploading>>
             /\ Calm /\ Got(src)
  <2>1. Calm
    BY <1>2, <1>8 DEF FT!StartReceiving
  <2> HIDE DEF Calm
  <2> QED
    BY <1>8, <2>1 DEF FT!StartReceiving, ReceivesMore
<1>9. ASSUME m.type = "data", FT!ClientOnData(c, m) PROVE Calm /\ Got(m.from)
  <2>1. CASE m.from \notin DOMAIN receiving[c]
    <3>1. Calm
      BY <1>3, <1>5, <1>9, <2>1 DEF FT!ClientOnData
    <3> HIDE DEF Calm
    <3> QED
      BY <1>9, <2>1, <3>1 DEF FT!ClientOnData
  <2>2. CASE m.from \in DOMAIN receiving[c]
    <3> DEFINE r == receiving[c][m.from]
    <3>1. \/ FT!StopReceiving(c, m.from, TRUE)
          \/ /\ UNCHANGED toServer
             /\ ReceivesOn(c, m.from, FT!Written(r.content, m), FT!SizeRead(r.content, r.size, m),
                           r.read \/ ~FT!Ignored(r.content, m))
      BY <1>9, <2>2 DEF FT!ClientOnData, ReceivesOn
    <3>2. (r.read \/ ~FT!Ignored(r.content, m)) \in BOOLEAN
      BY <2>2 DEF Sound, ClientsSound, IsReceiving
    <3>3. CASE UNCHANGED toServer
      <4>1. Calm
        BY <1>2, <3>3
      <4> HIDE DEF Calm
      <4>2. CASE FT!StopReceiving(c, m.from, TRUE)
        BY <1>6, <4>2 DEF Calm
      <4> QED
        BY <2>2, <3>1, <3>2, <4>1, <4>2
    <3> QED
      BY <1>6, <3>1, <3>3
  <2> QED
    BY <2>1, <2>2
<1>10. ASSUME FT!ClientOnAbort(c, m.from) PROVE Calm /\ Got(m.from)
  <2>1. CASE UNCHANGED <<toServer, receiving>>
    <3>1. Calm
      BY <1>2, <2>1
    <3> HIDE DEF Calm
    <3> QED
      BY <2>1, <3>1
  <2> QED
    BY <1>6, <1>10, <2>1 DEF FT!ClientOnAbort
<1>11. ASSUME FT!ClientOnReject(c), UNCHANGED receiving
       PROVE  /\ uploading' = [uploading EXCEPT ![c] = FT!NoUpload]
              /\ Calm /\ Got(SV_Client)
  <2>1. uploading' = [uploading EXCEPT ![c] = FT!NoUpload]
    <3>1. CASE uploading[c] # FT!NoUpload
      BY <1>11, <3>1 DEF FT!ClientOnReject
    <3>2. CASE uploading[c] = FT!NoUpload
      BY <1>11, <3>2 DEF FT!ClientOnReject, Sound, ClientsSound
    <3> QED
      BY <3>1, <3>2
  <2>2. Calm
    BY <1>2, <1>3, <1>5, <1>11 DEF FT!ClientOnReject
  <2> HIDE DEF Calm
  <2> QED
    BY <1>11, <2>1, <2>2
<1> HIDE DEF Calm, Got
<1>12. /\ \/ /\ m.type = "request" /\ making' = making \cup {c} /\ UNCHANGED uploading
          \/ /\ m.type \in {"response", "logo", "data", "abort"} /\ UNCHANGED <<making, uploading>>
          \/ /\ m.type = "reject" /\ UNCHANGED making
             /\ uploading' = [uploading EXCEPT ![c] = FT!NoUpload]
       /\ Calm /\ \E src : Got(src)
  <2>1. CASE /\ m.type = "request" /\ making' = making \cup {c} /\ got' = FT!Nothing
             /\ UNCHANGED <<toServer, uploading, receiving>>
    BY <1>2, <2>1 DEF Got
  <2>2. CASE m.type = "response" /\ FT!StartReceiving(c, m.from, m.quiet)
    BY <1>8, <2>2
  <2>3. CASE m.type = "logo" /\ FT!StartReceiving(c, SV_Client, TRUE)
    <3>1. PICK d : d = TRUE
      OBVIOUS
    <3>2. m.type \in {"response", "logo"} /\ FT!StartReceiving(c, SV_Client, d)
      BY <2>3, <3>1
    <3> QED
      BY <1>8, <3>2
  <2>4. CASE m.type = "data" /\ FT!ClientOnData(c, m) /\ UNCHANGED <<making, uploading>>
    BY <1>9, <2>4
  <2>5. CASE m.type = "abort" /\ FT!ClientOnAbort(c, m.from) /\ UNCHANGED <<making, uploading>>
    BY <1>10, <2>5
  <2>6. CASE m.type = "reject" /\ FT!ClientOnReject(c) /\ UNCHANGED <<making, receiving>>
    BY <1>11, <2>6
  <2> QED
    BY <2>1, <2>2, <2>3, <2>4, <2>5, <2>6 DEF FT!ClientReceive
<1> QED
  BY <1>1, <1>12 DEF Calm, Got

(* A client handles a message.                                             *)
LEMMA SoundReceive ==
  ASSUME Sound, NEW c \in Clients, FT!ClientReceive(c)
  PROVE  Sound'
<1>1. /\ c \in connected \cap playing /\ toClient[c] # <<>>
      /\ toClient' = [toClient EXCEPT ![c] = Tail(@)]
      /\ UNCHANGED <<connected, playing, m_screenshot_proxies, m_receivers, m_transfers, buffer, files>>
      /\ making' \subseteq making \cup {c}
      /\ uploading' = uploading \/ uploading' = [uploading EXCEPT ![c] = FT!NoUpload]
  BY ReceiveEffect
<1>2. PICK s : Answers(c, s)
  BY ReceiveEffect
<1>3. /\ DOMAIN receiving' = Clients
      /\ \A a \in Clients : a # c => receiving'[a] = receiving[a]
      /\ \A a \in Clients : IsFiniteSet(DOMAIN receiving'[a])
      /\ \A a \in Clients : \A x \in DOMAIN receiving'[a] : IsReceiving(receiving'[a][x])
  <2>1. PICK src : \/ UNCHANGED receiving
                   \/ ReceivesLess(c, src)
                   \/ \E d : ReceivesMore(c, src, d)
                   \/ /\ src \in DOMAIN receiving[c]
                      /\ \E v, z : \E b \in BOOLEAN : ReceivesOn(c, src, v, z, b)
    BY ReceiveEffect
  <2> QED
    BY <2>1, ReceivingHandled DEF Sound
<1>4. IsQueue(Tail(toClient[c]))
  BY <1>1, QueueTail DEF Sound, LinksSound
<1>5. LinksSound'
  BY <1>1, <1>2, <1>4 DEF Sound, LinksSound, Answers
<1>6. ClientsSound'
  <2>1. uploading' \in [Clients -> [at : Nat, size : Nat]]
    <3>1. FT!NoUpload \in [at : Nat, size : Nat] /\ uploading \in [Clients -> [at : Nat, size : Nat]]
      BY DEF Sound, ClientsSound, FT!NoUpload
    <3> QED
      BY <1>1, <3>1
  <2>2. FilesSound'
    BY <1>1 DEF Sound, ClientsSound, FilesSound
  <2>3. \A a \in Clients : \A x \in DOMAIN receiving'[a] : IsReceiving(receiving[a][x])'
    BY <1>3 DEF IsReceiving
  <2> QED
    BY <1>1, <1>3, <2>1, <2>2, <2>3 DEF Sound, ClientsSound
<1>7. GoneSilent'
  <2>1. \A d \in Clients \ playing : uploading'[d] = FT!NoUpload /\ d \notin making'
    BY <1>1 DEF Sound, GoneSilent, ClientsSound
  <2>2. \A a \in Clients : a \notin connected \cap playing =>
          a # c /\ toClient'[a] = toClient[a] /\ receiving'[a] = receiving[a]
    BY <1>1, <1>3 DEF Sound, LinksSound
  <2> QED
    BY <1>1, <2>1, <2>2 DEF Sound, GoneSilent, FT!NoUpload
<1> QED
  BY <1>1, <1>5, <1>6, <1>7, ServerRests DEF Sound

(* What has been made.                                                     *)
LEMMA MadeEffect ==
  ASSUME Sound, NEW c \in Clients, FT!SendCollectedData(c)
  PROVE  \E n \in 1..2 :
           /\ files' = Append(files, [owner |-> c, size |-> n]) /\ FilesSound'
           /\ Len(files) \in Nat /\ DOMAIN files = 1..Len(files)
           /\ DOMAIN files' = 1..(Len(files) + 1)
           /\ \A k \in DOMAIN files : files'[k] = files[k]
           /\ files'[Len(files) + 1] = [owner |-> c, size |-> n]
           /\ uploading' = [uploading EXCEPT ![c] =
                IF @ = FT!NoUpload THEN [at |-> 0, size |-> n] ELSE @]
           /\ buffer' = [buffer EXCEPT ![c] = Len(files) + 1]
<1> DEFINE F == [owner : Clients, size : 1..2]
<1>1. PICK n \in 1..2 :
        /\ files' = Append(files, [owner |-> c, size |-> n])
        /\ uploading' = [uploading EXCEPT ![c] = IF @ = FT!NoUpload THEN [at |-> 0, size |-> n] ELSE @]
  BY DEF FT!SendCollectedData
<1> DEFINE f == [owner |-> c, size |-> n]
<1>2. files \in Seq(F) /\ f \in F /\ files' = Append(files, f)
  BY <1>1 DEF Sound, ClientsSound, FilesSound
<1> HIDE DEF F, f
<1>3. /\ files' \in Seq(F) /\ Len(files) \in Nat /\ DOMAIN files = 1..Len(files)
      /\ Len(files') = Len(files) + 1 /\ DOMAIN files' = 1..(Len(files) + 1)
      /\ \A k \in DOMAIN files : files'[k] = files[k]
      /\ files'[Len(files) + 1] = f
  BY <1>2
<1>4. buffer' = [buffer EXCEPT ![c] = Len(files) + 1]
  BY <1>3 DEF FT!SendCollectedData
<1> QED
  BY <1>1, <1>3, <1>4 DEF F, f, FilesSound

(* A file has been made.                                                   *)
LEMMA SoundMade ==
  ASSUME Sound, NEW c \in Clients, FT!SendCollectedData(c)
  PROVE  Sound'
<1>1. /\ c \in making /\ making' = making \ {c}
      /\ UNCHANGED <<connected, playing, toServer, toClient, m_screenshot_proxies, m_receivers,
                     m_transfers, receiving>>
  BY DEF FT!SendCollectedData, FT!net, FT!server
<1>2. PICK n \in 1..2 :
        /\ FilesSound' /\ DOMAIN buffer' = DOMAIN buffer
        /\ uploading' = [uploading EXCEPT ![c] =
             IF @ = FT!NoUpload THEN [at |-> 0, size |-> n] ELSE @]
  BY MadeEffect
<1>3. ClientsSound'
  BY <1>1, <1>2 DEF Sound, ClientsSound, IsReceiving
<1>4. LinksSound'
  BY <1>1 DEF Sound, LinksSound
<1>5. GoneSilent'
  BY <1>1, <1>2 DEF Sound, GoneSilent, ClientsSound, FT!NoUpload
<1> QED
  BY <1>1, <1>3, <1>4, <1>5, ServerRests DEF Sound

(* The frame of a client.                                                  *)
LEMMA SendEffect ==
  ASSUME Sound, NEW c \in Clients, NEW late, FT!ClientSend(c, late)
  PROVE  /\ \E s : /\ Answers(c, FT!Piece(c) \o s) /\ IsQueue(s)
                   /\ \A i \in DOMAIN s : s[i].type = "reject"
         /\ IsQueue(FT!Piece(c))
<1>1. PICK all \in SUBSET late :
        FT!Answer(c, FT!Piece(c) \o FT!SetToSeq({FT!Reject(src) : src \in late \ all}))
  BY DEF FT!ClientSend
<1> DEFINE S == {FT!Reject(src) : src \in late \ all}
           s == FT!SetToSeq(S)
<1>2. IsFiniteSet(late \ all)
  <2>1. late \ all \subseteq DOMAIN receiving[c]
    BY DEF FT!ClientSend, FT!Waiting
  <2> QED
    BY <2>1, FS_Subset DEF Sound, ClientsSound
<1>3. IsFiniteSet(S)
  <2> DEFINE f == [src \in late \ all |-> FT!Reject(src)]
  <2>1. f \in Surjection(late \ all, S)
    BY DEF Surjection
  <2> HIDE DEF f, S
  <2> QED
    BY <1>2, <2>1, FS_Surjection
<1>4. \A x \in S : x.type = "reject"
  BY DEF FT!Reject
<1> HIDE DEF S
<1>5. IsQueue(s) /\ \A i \in DOMAIN s : s[i].type = "reject"
  BY <1>3, <1>4, Enumerated
<1>6. IsQueue(FT!Piece(c))
  BY ShortQueues DEF FT!Piece
<1>7. FT!Answer(c, FT!Piece(c) \o s)
  BY <1>1 DEF S
<1> HIDE DEF s
<1>8. Answers(c, FT!Piece(c) \o s)
  BY <1>5, <1>6, <1>7, QueueConcat, AnswerGiven DEF Sound
<1> QED
  BY <1>5, <1>6, <1>8

(* The frame of a client.                                                  *)
LEMMA SoundSend ==
  ASSUME Sound, NEW c \in Clients, NEW late, FT!ClientSend(c, late)
  PROVE  Sound'
<1>1. /\ c \in playing
      /\ UNCHANGED <<connected, playing, toClient, m_screenshot_proxies, m_receivers, m_transfers,
                     making, buffer, files>>
      /\ receiving' = [receiving EXCEPT ![c] =
           [src \in DOMAIN @ \ late |-> [@[src] EXCEPT !.read = FALSE]]]
      /\ uploading' = [uploading EXCEPT ![c] =
           CASE ~FT!Sends(c) -> @
             [] FT!Sends(c) -> IF @.at + 1 = @.size THEN FT!NoUpload ELSE [@ EXCEPT !.at = @ + 1]]
  BY DEF FT!ClientSend, FT!server
<1>2. PICK s : Answers(c, s)
  BY SendEffect
<1>3. LinksSound'
  BY <1>1, <1>2 DEF Sound, LinksSound, Answers
<1>4. /\ DOMAIN receiving' = Clients
      /\ \A a \in Clients : a # c => receiving'[a] = receiving[a]
      /\ \A a \in Clients : IsFiniteSet(DOMAIN receiving'[a])
      /\ \A a \in Clients : \A x \in DOMAIN receiving'[a] : IsReceiving(receiving'[a][x])
  <2> DEFINE g == [src \in DOMAIN receiving[c] \ late |-> [receiving[c][src] EXCEPT !.read = FALSE]]
  <2>1. receiving' = [receiving EXCEPT ![c] = g]
    BY <1>1
  <2>2. \A x \in DOMAIN g : IsReceiving(g[x])
    <3>1. \A x \in DOMAIN g : IsReceiving(receiving[c][x]) /\ g[x] = [receiving[c][x] EXCEPT !.read = FALSE]
      BY DEF Sound, ClientsSound
    <3>2. \A r : IsReceiving(r) => IsReceiving([r EXCEPT !.read = FALSE])
      BY DEF IsReceiving
    <3> HIDE DEF g
    <3> QED
      BY <3>1, <3>2
  <2>3. DOMAIN g \subseteq DOMAIN receiving[c] \cup {SV_Client}
    OBVIOUS
  <2> HIDE DEF g
  <2> QED
    BY <2>1, <2>2, <2>3, ReceivingChanged DEF Sound
<1>5. uploading' \in [Clients -> [at : Nat, size : Nat]]
  <2> DEFINE u == uploading[c]
             v == CASE ~FT!Sends(c) -> u
                    [] FT!Sends(c) -> IF u.at + 1 = u.size THEN FT!NoUpload ELSE [u EXCEPT !.at = @ + 1]
  <2>1. uploading \in [Clients -> [at : Nat, size : Nat]] /\ u \in [at : Nat, size : Nat]
    BY DEF Sound, ClientsSound
  <2>2. v \in [at : Nat, size : Nat]
    <3>1. FT!NoUpload \in [at : Nat, size : Nat] /\ [u EXCEPT !.at = @ + 1] \in [at : Nat, size : Nat]
      BY <2>1 DEF FT!NoUpload
    <3> QED
      BY <2>1, <3>1
  <2>3. uploading' = [uploading EXCEPT ![c] = v]
    BY <1>1
  <2> HIDE DEF v
  <2> QED
    BY <2>1, <2>2, <2>3
<1>6. ClientsSound'
  <2>1. \A a \in Clients : \A x \in DOMAIN receiving'[a] : IsReceiving(receiving[a][x])'
    BY <1>4 DEF IsReceiving
  <2> QED
    BY <1>1, <1>4, <1>5, <2>1 DEF Sound, ClientsSound, FilesSound
<1>7. GoneSilent'
  <2>1. \A d \in Clients \ playing : uploading'[d] = uploading[d]
    <3>1. \A d \in Clients : d # c => uploading'[d] = uploading[d]
      BY <1>1 DEF Sound, ClientsSound
    <3> QED
      BY <1>1, <3>1
  <2>2. \A a \in Clients : a \notin connected \cap playing => DOMAIN receiving'[a] = {}
    <3>1. \A a \in Clients : DOMAIN receiving'[a] \subseteq DOMAIN receiving[a]
      BY <1>1 DEF Sound, ClientsSound
    <3> QED
      BY <3>1 DEF Sound, GoneSilent
  <2> QED
    BY <1>1, <2>1, <2>2 DEF Sound, GoneSilent, FT!NoUpload
<1> QED
  BY <1>1, <1>3, <1>6, <1>7, ServerRests DEF Sound

(* A client who leaves sends no more data.                                 *)
LEMMA LeaveEffect ==
  ASSUME Sound, NEW c \in Clients, FT!Leave(c)
  PROVE  \E s : Answers(c, s) /\ IsQueue(s) /\ \A i \in DOMAIN s : s[i].type # "data"
<1>1. PICK all \in SUBSET DOMAIN receiving[c] :
        FT!Answer(c, (IF uploading[c] = FT!NoUpload THEN <<>> ELSE <<FT!Abort(c)>>)
                     \o FT!SetToSeq({FT!Reject(src) : src \in DOMAIN receiving[c] \ all}))
  BY DEF FT!Leave
<1> DEFINE D == DOMAIN receiving[c] \ all
           S == {FT!Reject(src) : src \in D}
           s == FT!SetToSeq(S)
           x == IF uploading[c] = FT!NoUpload THEN <<>> ELSE <<FT!Abort(c)>>
<1>2. IsFiniteSet(D)
  BY FS_Subset DEF Sound, ClientsSound
<1>3. IsFiniteSet(S)
  <2> DEFINE f == [src \in D |-> FT!Reject(src)]
  <2>1. f \in Surjection(D, S)
    BY DEF Surjection
  <2> HIDE DEF f, S, D
  <2> QED
    BY <1>2, <2>1, FS_Surjection
<1>4. \A y \in S : y.type = "reject"
  BY DEF FT!Reject
<1>5. FT!Answer(c, x \o s)
  BY <1>1
<1> HIDE DEF D, S
<1>6. IsQueue(s) /\ \A i \in DOMAIN s : s[i].type = "reject"
  BY <1>3, <1>4, Enumerated
<1>7. IsQueue(x) /\ \A i \in DOMAIN x : x[i].type # "data"
  <2>1. /\ IsQueue(<<FT!Abort(c)>>) /\ Len(<<FT!Abort(c)>>) = 1 /\ <<FT!Abort(c)>>[1] = FT!Abort(c)
        /\ IsQueue(<<>>) /\ FT!Abort(c).type = "abort"
    BY ShortQueues DEF FT!Abort
  <2>2. /\ \A i \in DOMAIN <<FT!Abort(c)>> : <<FT!Abort(c)>>[i].type # "data"
        /\ \A i \in DOMAIN <<>> : <<>>[i].type # "data"
    BY <2>1
  <2> QED
    BY <2>1, <2>2
<1> HIDE DEF s, x
<1>8. IsQueue(x \o s) /\ \A i \in DOMAIN (x \o s) : (x \o s)[i].type # "data"
  <2>1. /\ IsQueue(x \o s) /\ Len(x \o s) = Len(x) + Len(s)
        /\ \A i \in 1..Len(x) : (x \o s)[i] = x[i]
        /\ \A i \in (Len(x) + 1)..(Len(x) + Len(s)) : (x \o s)[i] = s[i - Len(x)]
    BY <1>6, <1>7, QueueConcat
  <2>2. /\ Len(x) \in Nat /\ Len(s) \in Nat /\ DOMAIN (x \o s) = 1..(Len(x) + Len(s))
        /\ DOMAIN x = 1..Len(x) /\ DOMAIN s = 1..Len(s)
    BY <1>6, <1>7, <2>1, QueueShape
  <2>3. ASSUME NEW i \in DOMAIN (x \o s) PROVE (x \o s)[i].type # "data"
    <3>1. CASE i \in 1..Len(x)
      BY <1>7, <2>1, <2>2, <3>1
    <3>2. CASE i \in (Len(x) + 1)..(Len(x) + Len(s))
      <4>1. i - Len(x) \in DOMAIN s
        BY <2>2, <3>2
      <4>2. (x \o s)[i].type = "reject"
        BY <1>6, <2>1, <3>2, <4>1
      <4> QED
        BY <4>2
    <3> QED
      BY <2>2, <2>3, <3>1, <3>2
  <2> QED
    BY <2>1, <2>3
<1>9. Answers(c, x \o s)
  BY <1>5, <1>8, AnswerGiven DEF Sound
<1> QED
  BY <1>8, <1>9

(* A client leaves.                                                        *)
LEMMA SoundLeave ==
  ASSUME Sound, NEW c \in Clients, FT!Leave(c)
  PROVE  Sound'
<1>1. /\ c \in connected \cap playing /\ playing' = playing \ {c} /\ making' = making \ {c}
      /\ toClient' = [toClient EXCEPT ![c] = <<>>]
      /\ uploading' = [uploading EXCEPT ![c] = FT!NoUpload]
      /\ receiving' = [receiving EXCEPT ![c] = <<>>] /\ DOMAIN buffer' = DOMAIN buffer
      /\ UNCHANGED <<connected, m_screenshot_proxies, m_receivers, m_transfers, files>>
  BY DEF FT!Leave, FT!server
<1>2. PICK s : Answers(c, s)
  BY LeaveEffect
<1>3. LinksSound'
  BY <1>1, <1>2, ShortQueues DEF Sound, LinksSound, Answers
<1>4. ClientsSound'
  <2>1. uploading' \in [Clients -> [at : Nat, size : Nat]]
    <3>1. FT!NoUpload \in [at : Nat, size : Nat] /\ uploading \in [Clients -> [at : Nat, size : Nat]]
      BY DEF Sound, ClientsSound, FT!NoUpload
    <3> QED
      BY <1>1, <3>1
  <2>2. /\ DOMAIN receiving' = Clients
        /\ \A a \in Clients : a # c => receiving'[a] = receiving[a]
        /\ DOMAIN receiving'[c] = {}
    BY <1>1 DEF Sound, ClientsSound
  <2>3. \A a \in Clients : IsFiniteSet(DOMAIN receiving'[a])
    BY <2>2, FS_EmptySet DEF Sound, ClientsSound
  <2>4. \A a \in Clients : \A x \in DOMAIN receiving'[a] : IsReceiving(receiving[a][x])'
    BY <2>2 DEF Sound, ClientsSound, IsReceiving
  <2>5. FilesSound'
    BY <1>1 DEF Sound, ClientsSound, FilesSound
  <2> QED
    BY <1>1, <2>1, <2>2, <2>3, <2>4, <2>5 DEF Sound, ClientsSound
<1>5. GoneSilent'
  BY <1>1 DEF Sound, GoneSilent, LinksSound, ClientsSound, FT!NoUpload
<1> QED
  BY <1>1, <1>3, <1>4, <1>5, ServerRests DEF Sound

(* The server destroys who has left.                                       *)
LEMMA SoundDestroy ==
  ASSUME Sound, NEW c \in Clients, FT!client_Destroy(c)
  PROVE  Sound'
<1>1. /\ c \in connected \ playing /\ connected' = connected \ {c}
      /\ toServer' = [toServer EXCEPT ![c] = <<>>]
      /\ UNCHANGED <<playing, toClient, making, uploading, receiving, buffer, files,
                     m_screenshot_proxies, m_receivers, m_transfers>>
  BY DEF FT!client_Destroy, FT!server, FT!client
<1>2. LinksSound'
  BY <1>1, ShortQueues DEF Sound, LinksSound
<1>3. ClientsSound'
  BY <1>1 DEF Sound, ClientsSound, FilesSound, IsReceiving
<1>4. GoneSilent'
  BY <1>1 DEF Sound, GoneSilent, FT!NoUpload
<1> QED
  BY <1>1, <1>2, <1>3, <1>4, ServerRests DEF Sound

(* The server handles a message of a client.                               *)
LEMMA MessageTaken ==
  ASSUME Sound, NEW c \in Clients, FT!ServerReceive(c)
  PROVE  /\ c \in connected /\ toServer[c] # <<>>
         /\ DOMAIN toServer' = Clients /\ toServer'[c] = Tail(toServer[c])
         /\ \A a \in Clients : IsQueue(toServer'[a]) /\ (a # c => toServer'[a] = toServer[a])
         /\ UNCHANGED <<connected, playing, making, uploading, receiving, buffer, files>>
         /\ LET m == Head(toServer[c]) IN
            \/ m.type = "data" /\ FT!OnData(c, m)
            \/ m.type = "abort" /\ FT!OnAbort(c)
            \/ m.type = "reject" /\ FT!OnReject(c, m.from)
<1>1. /\ c \in connected /\ toServer[c] # <<>> /\ toServer' = [toServer EXCEPT ![c] = Tail(@)]
      /\ UNCHANGED <<connected, playing, making, uploading, receiving, buffer, files>>
  BY DEF FT!ServerReceive, FT!client
<1>2. IsQueue(Tail(toServer[c]))
  BY <1>1, QueueTail DEF Sound, LinksSound
<1>3. /\ DOMAIN toServer' = Clients /\ toServer'[c] = Tail(toServer[c])
      /\ \A a \in Clients : IsQueue(toServer'[a]) /\ (a # c => toServer'[a] = toServer[a])
  BY <1>1, <1>2 DEF Sound, LinksSound
<1>4. LET m == Head(toServer[c]) IN
      \/ m.type = "data" /\ FT!OnData(c, m)
      \/ m.type = "abort" /\ FT!OnAbort(c)
      \/ m.type = "reject" /\ FT!OnReject(c, m.from)
  BY DEF FT!ServerReceive
<1> QED
  BY <1>1, <1>3, <1>4

(* What stops a transfer or a receiver at the server.                      *)
LEMMA StopEffect ==
  ASSUME NEW c, NEW src, FT!OnAbort(c) \/ FT!OnReject(c, src)
  PROVE  /\ UNCHANGED m_screenshot_proxies
         /\ \E x : IsQueue(x) /\ (FT!SendTo(c, x) \/ UNCHANGED toClient)
         /\ \/ UNCHANGED <<m_receivers, m_transfers>>
            \/ UNCHANGED m_transfers /\ \E K : m_receivers' = FT!Without(m_receivers, K)
            \/ UNCHANGED m_receivers /\ \E K : m_transfers' = FT!Without(m_transfers, K)
<1>1. ASSUME FT!OnAbort(c)
      PROVE  \/ UNCHANGED toClient \/ FT!SendTo(c, <<>>) \/ FT!SendTo(c, <<FT!Reject(SV_Client)>>)
  <2>1. CASE UNCHANGED toClient
    BY <2>1
  <2>2. CASE \E complete \in FT!CompleteAtServer(c) : FT!SendTo(c, FT!RejectUnlessComplete(c, complete))
    BY <2>2 DEF FT!RejectUnlessComplete
  <2> QED
    BY <1>1, <2>1, <2>2 DEF FT!OnAbort
<1>2. ASSUME FT!OnReject(c, src)
      PROVE  UNCHANGED toClient \/ FT!SendTo(c, <<FT!Abort(src)>>)
  BY <1>2 DEF FT!OnReject
<1>3. \E x : IsQueue(x) /\ (FT!SendTo(c, x) \/ UNCHANGED toClient)
  BY <1>1, <1>2, ShortQueues
<1>4. /\ UNCHANGED m_screenshot_proxies
      /\ \/ UNCHANGED <<m_receivers, m_transfers>>
         \/ UNCHANGED m_transfers /\ \E K : m_receivers' = FT!Without(m_receivers, K)
         \/ UNCHANGED m_receivers /\ \E K : m_transfers' = FT!Without(m_transfers, K)
  BY DEF FT!OnAbort, FT!OnReject
<1> QED
  BY <1>3, <1>4

(* The server handles a message.                                           *)
LEMMA SoundMessage ==
  ASSUME Sound, NEW c \in Clients, FT!ServerReceive(c)
  PROVE  Sound'
<1> DEFINE m == Head(toServer[c])
<1>1. /\ DOMAIN toServer' = Clients /\ \A a \in Clients : IsQueue(toServer'[a])
      /\ UNCHANGED <<connected, playing, making, uploading, receiving, buffer, files>>
      /\ FT!OnData(c, m) \/ FT!OnAbort(c) \/ FT!OnReject(c, m.from)
  BY MessageTaken
<1> HIDE DEF m
<1>2. CASE FT!OnData(c, m)
  BY <1>1, <1>2, SoundData
<1>3. CASE FT!OnAbort(c) \/ FT!OnReject(c, m.from)
  <2>1. /\ UNCHANGED m_screenshot_proxies
        /\ \/ UNCHANGED <<m_receivers, m_transfers>>
           \/ UNCHANGED m_transfers /\ \E K : m_receivers' = FT!Without(m_receivers, K)
           \/ UNCHANGED m_receivers /\ \E K : m_transfers' = FT!Without(m_transfers, K)
    BY <1>3, StopEffect
  <2>2. PICK x : IsQueue(x) /\ (FT!SendTo(c, x) \/ UNCHANGED toClient)
    BY <1>3, StopEffect
  <2> QED
    BY <1>1, <2>1, <2>2, SoundStop
<1> QED
  BY <1>1, <1>2, <1>3

(* Every step keeps all this.                                              *)
LEMMA SoundStep == ASSUME Sound, [FT!Next]_FT!vars PROVE Sound'
<1>1. CASE UNCHANGED FT!vars
  BY <1>1 DEF FT!vars, FT!net, FT!server, FT!client, Sound, LinksSound, ClientsSound, FilesSound,
    IsReceiving, ServerSound, Serves, PassesOn, GoneSilent, FT!NoUpload
<1>2. CASE \E a \in Admins, c \in Clients : FT!MakeScreenshot(a, c)
  BY <1>2, SoundRequest
<1>3. ASSUME NEW c \in Clients, FT!SendServerInfoToClient(c) PROVE Sound'
  BY <1>3, SoundJoin
<1>4. ASSUME NEW c \in Clients, FT!ServerReceive(c) PROVE Sound'
  BY <1>4, SoundMessage
<1>5. ASSUME NEW c \in Clients, FT!ClientReceive(c) PROVE Sound'
  BY <1>5, SoundReceive
<1>6. ASSUME NEW c \in Clients, FT!SendCollectedData(c) PROVE Sound'
  BY <1>6, SoundMade
<1>7. ASSUME NEW c \in Clients, NEW late, FT!ClientSend(c, late) PROVE Sound'
  BY <1>7, SoundSend
<1>8. ASSUME NEW c \in Clients, FT!Leave(c) PROVE Sound'
  BY <1>8, SoundLeave
<1>9. ASSUME NEW c \in Clients, FT!client_Destroy(c) PROVE Sound'
  BY <1>9, SoundDestroy
<1>10. ASSUME NEW late, FT!UpdateServer(late) PROVE Sound'
  BY <1>10, SoundFrame
<1> QED
  BY <1>1, <1>2, <1>3, <1>4, <1>5, <1>6, <1>7, <1>8, <1>9, <1>10 DEF FT!Next

(* The files of a source; what has been made remains.                      *)
FileOf(f, src) == f \in Made /\ IF src = SV_Client THEN f = Info ELSE f # Info /\ files[f].owner = src
FilesKept ==
  \A f \in Made : f \in Made' /\ SizeOf(f)' = SizeOf(f) /\ (f # Info => files'[f] = files[f])

(* Nothing has been made.                                                  *)
LEMMA FilesRemain == UNCHANGED files => FilesKept
BY DEF FilesKept, Made, SizeOf

(* What is made comes after what was.                                      *)
LEMMA MoreFiles ==
  ASSUME Sound, NEW c \in Clients, FT!SendCollectedData(c)
  PROVE  FilesKept
<1>1. \A k \in DOMAIN files : k \in DOMAIN files' /\ files'[k] = files[k]
  <2>1. PICK n \in 1..2 : /\ Len(files) \in Nat /\ DOMAIN files = 1..Len(files)
                          /\ DOMAIN files' = 1..(Len(files) + 1)
                          /\ \A k \in DOMAIN files : files'[k] = files[k]
    BY MadeEffect
  <2> QED
    BY <2>1
<1> QED
  BY <1>1 DEF FilesKept, Made, SizeOf

(* A file remains its owner's, and as long as it was.                      *)
LEMMA FileRemains ==
  ASSUME FilesKept, NEW f, NEW src, FileOf(f, src)
  PROVE  FileOf(f, src)' /\ f \in Made /\ f \in Made' /\ SizeOf(f)' = SizeOf(f)
BY DEF FileOf, FilesKept

FileAt(p) == m_screenshot_proxies[p].file

(* A client has been asked for a file and has not begun to send it.        *)
Coming(c) ==
  /\ FileAt(m_receivers[c].proxy) = <<>> /\ uploading[c] = FT!NoUpload
  /\ \A i \in DOMAIN toServer[c] : toServer[c][i].type # "data"
  /\ \A i, j \in DOMAIN toClient[c] :
       toClient[c][i].type = "request" => c \notin making /\ (toClient[c][j].type = "request" => i = j)

(* The server has l pieces of the file f, the others up to n are on their  *)
(* way, and the rest is still in the client's buffer.                      *)
Under(c, f, l, n) ==
  /\ FileOf(f, c) /\ FileAt(m_receivers[c].proxy) = Part(f, l)
  /\ l > 0 => m_receivers[c].size = SizeOf(f)
  /\ Pieces(toServer[c], 0, Len(toServer[c]), c, f, SizeOf(f), l, n)
  /\ c \notin making /\ \A i \in DOMAIN toClient[c] : toClient[c][i].type # "request"
  /\ IF uploading[c] = FT!NoUpload THEN n = SizeOf(f) \/ c \notin playing
     ELSE buffer[c] = f /\ uploading[c] = [at |-> n, size |-> SizeOf(f)] /\ n < SizeOf(f)

Upload(c) ==
  /\ m_screenshot_proxies[m_receivers[c].proxy].first <=> FileAt(m_receivers[c].proxy) = <<>>
  /\ \A i \in DOMAIN toClient[c] : toClient[c][i].type # "reject"
  /\ \/ Coming(c)
     \/ \E f \in Made : \E l \in 0..(SizeOf(f) - 1) : \E n \in l..SizeOf(f) : Under(c, f, l, n)

DataOwned ==
  \A c \in Clients : \A i \in DOMAIN toServer[c] :
    toServer[c][i].type = "data" => toServer[c][i].from = c /\ toServer[c][i].pieces # <<>>
Uploads == \A c \in DOMAIN m_receivers : m_receivers[c].quiet => Upload(c)

(* How a queue of messages to a client changes while he is not asked and   *)
(* not told to stop: h messages are taken, and others are appended.        *)
Unasked(c) ==
  \E h \in {0, 1} : \A i \in DOMAIN toClient'[c] :
    toClient'[c][i].type \in {"request", "reject"} =>
      i + h \in DOMAIN toClient[c] /\ toClient'[c][i] = toClient[c][i + h]

(* What happens to the messages to a client without asking him.            *)
LEMMA UnaskedWhen ==
  ASSUME Sound, NEW c \in Clients,
         \/ toClient'[c] = toClient[c]
         \/ toClient[c] # <<>> /\ toClient'[c] = Tail(toClient[c])
         \/ \E r : /\ toClient'[c] = toClient[c] \o r /\ IsQueue(r)
                   /\ \A i \in 1..Len(r) : r[i].type \notin {"request", "reject"}
  PROVE  Unasked(c)
<1>0. IsQueue(toClient[c])
  BY DEF Sound, LinksSound
<1>1. CASE toClient'[c] = toClient[c]
  <2>1. \A i \in DOMAIN toClient'[c] : i + 0 \in DOMAIN toClient[c] /\ toClient'[c][i] = toClient[c][i + 0]
    <3>1. DOMAIN toClient[c] \subseteq Nat
      BY <1>0, QueueShape
    <3> QED
      BY <1>1, <3>1
  <2> QED
    BY <2>1 DEF Unasked
<1>2. CASE toClient[c] # <<>> /\ toClient'[c] = Tail(toClient[c])
  <2>1. /\ DOMAIN toClient'[c] = 1..(Len(toClient[c]) - 1)
        /\ \A i \in 1..(Len(toClient[c]) - 1) : toClient'[c][i] = toClient[c][i + 1]
        /\ Len(toClient[c]) \in Nat /\ DOMAIN toClient[c] = 1..Len(toClient[c])
    BY <1>0, <1>2, QueueTail, QueueShape
  <2>2. \A i \in DOMAIN toClient'[c] : i + 1 \in DOMAIN toClient[c] /\ toClient'[c][i] = toClient[c][i + 1]
    BY <2>1
  <2> QED
    BY <2>2 DEF Unasked
<1>3. CASE \E r : /\ toClient'[c] = toClient[c] \o r /\ IsQueue(r)
                  /\ \A i \in 1..Len(r) : r[i].type \notin {"request", "reject"}
  <2>1. PICK r : /\ toClient'[c] = toClient[c] \o r /\ IsQueue(r)
                 /\ \A i \in 1..Len(r) : r[i].type \notin {"request", "reject"}
    BY <1>3
  <2>2. /\ IsQueue(toClient[c] \o r) /\ Len(toClient[c] \o r) = Len(toClient[c]) + Len(r)
        /\ \A i \in 1..Len(toClient[c]) : (toClient[c] \o r)[i] = toClient[c][i]
        /\ \A i \in (Len(toClient[c]) + 1)..(Len(toClient[c]) + Len(r)) :
             (toClient[c] \o r)[i] = r[i - Len(toClient[c])]
    BY <1>0, <2>1, QueueConcat
  <2>3. /\ Len(toClient[c]) \in Nat /\ Len(r) \in Nat /\ DOMAIN toClient[c] = 1..Len(toClient[c])
        /\ DOMAIN toClient'[c] = 1..(Len(toClient[c]) + Len(r))
    BY <1>0, <2>1, <2>2, QueueShape
  <2>4. ASSUME NEW i \in DOMAIN toClient'[c], toClient'[c][i].type \in {"request", "reject"}
        PROVE  i + 0 \in DOMAIN toClient[c] /\ toClient'[c][i] = toClient[c][i + 0]
    <3>1. CASE i \in 1..Len(toClient[c])
      BY <2>1, <2>2, <2>3, <3>1
    <3>2. CASE i \notin 1..Len(toClient[c])
      <4>1. i \in (Len(toClient[c]) + 1)..(Len(toClient[c]) + Len(r)) /\ i - Len(toClient[c]) \in 1..Len(r)
        BY <2>3, <3>2
      <4>2. toClient'[c][i] = r[i - Len(toClient[c])]
        BY <2>1, <2>2, <4>1
      <4> QED
        BY <2>1, <2>4, <4>1, <4>2
    <3> QED
      BY <3>1, <3>2
  <2> QED
    BY <2>4 DEF Unasked
<1> QED
  BY <1>1, <1>2, <1>3

(* The queue of a client's messages while he sends nothing of a file and    *)
(* nothing of one is handled.                                              *)
Unsent(c) ==
  \/ \E s : /\ toServer'[c] = toServer[c] \o s /\ IsQueue(s)
           /\ \A i \in DOMAIN s : s[i].type # "data"
  \/ toServer[c] # <<>> /\ toServer[c][1].type # "data" /\ toServer'[c] = Tail(toServer[c])

(* Nothing happens to the messages of a client.                            *)
LEMMA UnsentWhen ==
  ASSUME Sound, NEW c \in Clients, toServer'[c] = toServer[c]
  PROVE  Unsent(c)
<1>1. toServer'[c] = toServer[c] \o <<>>
  BY QueueNothing DEF Sound, LinksSound
<1>2. IsQueue(<<>>) /\ \A i \in DOMAIN <<>> : <<>>[i].type # "data"
  BY ShortQueues
<1> QED
  BY <1>1, <1>2 DEF Unsent

(* The pieces that are under way remain.                                   *)
LEMMA UnsentQueue ==
  ASSUME Sound, NEW c \in Clients, Unsent(c)
  PROVE  /\ (\A i \in DOMAIN toServer[c] : toServer[c][i].type # "data") =>
              \A i \in DOMAIN toServer'[c] : toServer'[c][i].type # "data"
         /\ \A f, z : \A l \in Nat, n \in Nat :
              Pieces(toServer[c], 0, Len(toServer[c]), c, f, z, l, n) =>
              Pieces(toServer'[c], 0, Len(toServer'[c]), c, f, z, l, n)
<1> DEFINE q == toServer[c]
<1>0. IsQueue(q) /\ Len(q) \in Nat /\ DOMAIN q = 1..Len(q)
  BY QueueShape DEF Sound, LinksSound
<1>1. CASE q # <<>> /\ q[1].type # "data" /\ toServer'[c] = Tail(q)
  <2>1. /\ IsQueue(Tail(q)) /\ Len(q) \in Nat \ {0} /\ Len(Tail(q)) = Len(q) - 1
        /\ \A i \in 1..(Len(q) - 1) : Tail(q)[i] = q[i + 1]
    BY <1>0, <1>1, QueueTail
  <2>2. DOMAIN Tail(q) = 1..(Len(q) - 1)
    BY <2>1, QueueShape
  <2>3. ASSUME \A i \in DOMAIN q : q[i].type # "data", NEW i \in DOMAIN Tail(q)
        PROVE  Tail(q)[i].type # "data"
    <3>1. i + 1 \in DOMAIN q /\ i \in 1..(Len(q) - 1)
      BY <1>0, <2>1, <2>2
    <3> QED
      BY <2>1, <2>3, <3>1
  <2>4. ASSUME NEW f, NEW z, NEW l \in Nat, NEW n \in Nat, Pieces(q, 0, Len(q), c, f, z, l, n)
        PROVE  Pieces(Tail(q), 0, Len(q) - 1, c, f, z, l, n)
    <3>1. Pieces(q, 1, Len(q), c, f, z, l, n)
      BY <1>1, <2>1, <2>4, PiecesSkipped DEF IsData
    <3>2. \A i \in (1 + 1)..Len(q) : Tail(q)[i - 1] = q[i]
      <4> TAKE i \in (1 + 1)..Len(q)
      <4>1. i - 1 \in 1..(Len(q) - 1) /\ (i - 1) + 1 = i
        BY <2>1
      <4> QED
        BY <2>1, <4>1
    <3>3. 1 \in Nat \ {0} /\ 1 - 1 = 0 /\ Len(q) \in Nat
      BY <1>0
    <3> HIDE DEF q
    <3>4. Pieces(Tail(q), 1 - 1, Len(q) - 1, c, f, z, l, n)
      BY <3>1, <3>2, <3>3, PiecesShifted
    <3> QED
      BY <3>3, <3>4
  <2> QED
    BY <1>1, <2>1, <2>3, <2>4
<1>2. CASE \E s : /\ toServer'[c] = q \o s /\ IsQueue(s)
                  /\ \A i \in DOMAIN s : s[i].type # "data"
  <2>1. PICK s : toServer'[c] = q \o s /\ IsQueue(s) /\ \A i \in DOMAIN s : s[i].type # "data"
    BY <1>2
  <2> DEFINE w == q \o s
  <2>2. /\ IsQueue(w) /\ Len(w) = Len(q) + Len(s)
        /\ \A i \in 1..Len(q) : w[i] = q[i]
        /\ \A i \in (Len(q) + 1)..(Len(q) + Len(s)) : w[i] = s[i - Len(q)]
    BY <1>0, <2>1, QueueConcat
  <2> HIDE DEF w
  <2>3. /\ Len(s) \in Nat /\ DOMAIN s = 1..Len(s) /\ DOMAIN w = 1..(Len(q) + Len(s))
    BY <2>1, <2>2, QueueShape
  <2>4. \A i \in (Len(q) + 1)..(Len(q) + Len(s)) : w[i].type # "data"
    <3> TAKE i \in (Len(q) + 1)..(Len(q) + Len(s))
    <3>1. i - Len(q) \in 1..Len(s)
      BY <1>0, <2>3
    <3> QED
      BY <2>1, <2>2, <2>3, <3>1
  <2>5. ASSUME \A i \in DOMAIN q : q[i].type # "data", NEW i \in DOMAIN w
        PROVE  w[i].type # "data"
    <3>1. i \in 1..Len(q) \/ i \in (Len(q) + 1)..(Len(q) + Len(s))
      BY <1>0, <2>3
    <3> QED
      BY <1>0, <2>2, <2>4, <2>5, <3>1
  <2>6. ASSUME NEW f, NEW z, NEW l \in Nat, NEW n \in Nat, Pieces(q, 0, Len(q), c, f, z, l, n)
        PROVE  Pieces(w, 0, Len(w), c, f, z, l, n)
    <3>1. \A i \in (0 + 1)..Len(q) : w[i] = q[i]
      BY <1>0, <2>2
    <3>2. \A i \in (Len(q) + 1)..(Len(q) + Len(s)) :
            IsData(w[i], c) => w[i].pieces = <<>> /\ w[i].size = 0
      BY <2>4 DEF IsData
    <3>3. Len(q) + Len(s) \in Nat /\ 0 <= Len(q) /\ Len(q) <= Len(q) + Len(s) /\ 0 \in Nat
      BY <1>0, <2>3
    <3> HIDE DEF q
    <3>4. Pieces(w, 0, Len(q), c, f, z, l, n)
      BY <1>0, <2>6, <3>1, <3>3, PiecesKept
    <3>5. Pieces(w, 0, Len(q) + Len(s), c, f, z, l, n)
      BY <1>0, <3>2, <3>3, <3>4, PiecesRest
    <3> QED
      BY <2>2, <3>5
  <2> QED
    BY <2>1, <2>5, <2>6 DEF w
<1> QED
  BY <1>1, <1>2 DEF Unsent

(* A transfer that this step does not concern.                             *)
UploadRests(c) ==
  /\ m_receivers'[c].proxy = m_receivers[c].proxy /\ m_receivers'[c].size = m_receivers[c].size
  /\ LET p == m_receivers[c].proxy IN
     /\ m_screenshot_proxies'[p].file = m_screenshot_proxies[p].file
     /\ m_screenshot_proxies'[p].first = m_screenshot_proxies[p].first
  /\ Unsent(c) /\ Unasked(c) /\ FilesKept
  /\ \/ uploading'[c] = uploading[c] /\ buffer'[c] = buffer[c]
     \/ uploading'[c] = FT!NoUpload /\ c \notin playing'
  /\ c \in making' => c \in making
  /\ c \in playing' => c \in playing

(* An upload goes on when nothing of it is touched.                        *)
LEMMA UploadKept ==
  ASSUME Sound, Sound', NEW c \in Clients, Upload(c), UploadRests(c)
  PROVE  Upload(c)'
<1> DEFINE p == m_receivers[c].proxy
<1>2. PICK h \in {0, 1} : \A i \in DOMAIN toClient'[c] :
        toClient'[c][i].type \in {"request", "reject"} =>
          i + h \in DOMAIN toClient[c] /\ toClient'[c][i] = toClient[c][i + h]
  BY DEF UploadRests, Unasked
<1>6. FileAt(m_receivers[c].proxy)' = FileAt(p) /\ m_receivers'[c].size = m_receivers[c].size
  BY DEF UploadRests, FileAt
<1>7. m_screenshot_proxies'[m_receivers'[c].proxy].first <=> FileAt(m_receivers[c].proxy)' = <<>>
  BY <1>6 DEF Upload, UploadRests
<1>8. \A i \in DOMAIN toClient'[c] : toClient'[c][i].type # "reject"
  BY <1>2 DEF Upload
<1>9. ASSUME Coming(c) PROVE Coming(c)'
  <2>1. \A i \in DOMAIN toServer'[c] : toServer'[c][i].type # "data"
    BY <1>9, UnsentQueue DEF Coming, UploadRests
  <2>2. \A i, j \in DOMAIN toClient'[c] : toClient'[c][i].type = "request" =>
          c \notin making' /\ (toClient'[c][j].type = "request" => i = j)
    <3> TAKE i, j \in DOMAIN toClient'[c]
    <3> HAVE toClient'[c][i].type = "request"
    <3>1. i + h \in DOMAIN toClient[c] /\ toClient[c][i + h].type = "request"
      BY <1>2
    <3>2. c \notin making'
      BY <1>9, <3>1 DEF Coming, UploadRests
    <3>3. ASSUME toClient'[c][j].type = "request" PROVE i = j
      <4>1. j + h \in DOMAIN toClient[c] /\ toClient[c][j + h].type = "request"
        BY <1>2, <3>3
      <4>2. i + h = j + h
        BY <1>9, <3>1, <4>1 DEF Coming
      <4>3. i \in Int /\ j \in Int
        BY QueueShape DEF Sound, LinksSound
      <4> QED
        BY <4>2, <4>3
    <3> QED
      BY <3>2, <3>3
  <2>3. uploading'[c] = FT!NoUpload /\ FT!NoUpload' = FT!NoUpload
    BY <1>9 DEF Coming, UploadRests, FT!NoUpload
  <2> QED
    BY <1>6, <1>9, <2>1, <2>2, <2>3 DEF Coming
<1>10. ASSUME NEW f \in Made, NEW l \in 0..(SizeOf(f) - 1), NEW n \in l..SizeOf(f), Under(c, f, l, n)
       PROVE  /\ f \in Made' /\ SizeOf(f)' = SizeOf(f) /\ Under(c, f, l, n)'
  <2>1. FileOf(f, c)' /\ f \in Made' /\ SizeOf(f)' = SizeOf(f)
    BY <1>10, FileRemains DEF Under, UploadRests
  <2>3. Pieces(toServer[c], 0, Len(toServer[c]), c, f, SizeOf(f), l, n)'
    <3>1. l \in Nat /\ n \in Nat
      BY FileSizes DEF Sound, ClientsSound
    <3>2. Pieces(toServer[c], 0, Len(toServer[c]), c, f, SizeOf(f), l, n)
      BY <1>10 DEF Under
    <3>3. Pieces(toServer'[c], 0, Len(toServer'[c]), c, f, SizeOf(f), l, n)
      BY <3>1, <3>2, UnsentQueue DEF UploadRests
    <3> QED
      BY <2>1, <3>3
  <2>4. \A i \in DOMAIN toClient'[c] : toClient'[c][i].type # "request"
    BY <1>2, <1>10 DEF Under
  <2>5. FT!NoUpload' = FT!NoUpload
    BY DEF FT!NoUpload
  <2> QED
    BY <1>6, <1>10, <2>1, <2>3, <2>4, <2>5 DEF Under, UploadRests
<1> QED
  BY <1>7, <1>8, <1>9, <1>10 DEF Upload

(* All uploads, of which a step concerns at most one.                      *)
LEMMA UploadsKept ==
  ASSUME Sound, Sound', Uploads,
         \A d \in DOMAIN m_receivers' : m_receivers'[d].quiet =>
           \/ d \in DOMAIN m_receivers /\ m_receivers[d].quiet /\ (Upload(d) => UploadRests(d))
           \/ Upload(d)'
  PROVE  Uploads'
<1> SUFFICES ASSUME NEW d \in DOMAIN m_receivers', m_receivers'[d].quiet PROVE Upload(d)'
  BY DEF Uploads
<1>1. CASE d \in DOMAIN m_receivers /\ m_receivers[d].quiet /\ (Upload(d) => UploadRests(d))
  <2>1. Upload(d) /\ d \in Clients
    BY <1>1 DEF Uploads, Sound, ServerSound
  <2> QED
    BY <1>1, <2>1, UploadKept
<1> QED
  BY <1>1

(* Nothing comes to be sent.                                               *)
LEMMA DataOwnedKept ==
  ASSUME Sound, DataOwned, NEW c \in Clients, NEW s, IsQueue(s), toServer'[c] = toServer[c] \o s,
         \A i \in DOMAIN s : s[i].type = "data" => s[i].from = c /\ s[i].pieces # <<>>,
         \A a \in Clients : a # c => toServer'[a] = toServer[a]
  PROVE  DataOwned'
<1>1. IsQueue(toServer[c])
  BY DEF Sound, LinksSound
<1>2. /\ IsQueue(toServer[c] \o s) /\ Len(toServer[c] \o s) = Len(toServer[c]) + Len(s)
      /\ \A i \in 1..Len(toServer[c]) : (toServer[c] \o s)[i] = toServer[c][i]
      /\ \A i \in (Len(toServer[c]) + 1)..(Len(toServer[c]) + Len(s)) :
           (toServer[c] \o s)[i] = s[i - Len(toServer[c])]
  BY <1>1, QueueConcat
<1>3. /\ Len(toServer[c]) \in Nat /\ DOMAIN toServer[c] = 1..Len(toServer[c])
      /\ Len(s) \in Nat /\ DOMAIN s = 1..Len(s)
      /\ DOMAIN toServer'[c] = 1..(Len(toServer[c]) + Len(s))
  BY <1>1, <1>2, QueueShape
<1>4. ASSUME NEW i \in DOMAIN toServer'[c], toServer'[c][i].type = "data"
      PROVE  toServer'[c][i].from = c /\ toServer'[c][i].pieces # <<>>
  <2>1. CASE i \in 1..Len(toServer[c])
    BY <1>2, <1>3, <1>4, <2>1 DEF DataOwned
  <2>2. CASE i \notin 1..Len(toServer[c])
    <3>1. i \in (Len(toServer[c]) + 1)..(Len(toServer[c]) + Len(s)) /\ i - Len(toServer[c]) \in 1..Len(s)
      BY <1>3, <2>2
    <3> QED
      BY <1>2, <1>3, <1>4, <3>1
  <2> QED
    BY <2>1, <2>2
<1>5. ASSUME NEW a \in Clients, NEW i \in DOMAIN toServer'[a], toServer'[a][i].type = "data"
      PROVE  toServer'[a][i].from = a /\ toServer'[a][i].pieces # <<>>
  <2>1. CASE a = c
    <3>1. i \in DOMAIN toServer'[c] /\ toServer'[c][i].type = "data"
      BY <1>5, <2>1
    <3> QED
      BY <1>4, <2>1, <3>1
  <2>2. CASE a # c
    BY <1>5, <2>2 DEF DataOwned
  <2> QED
    BY <2>1, <2>2
<1> QED
  BY <1>5 DEF DataOwned

(* A message of a client is taken, or all of them are.                     *)
LEMMA DataOwnedLess ==
  ASSUME Sound, DataOwned, NEW c \in Clients,
         toServer'[c] = <<>> \/ (toServer[c] # <<>> /\ toServer'[c] = Tail(toServer[c])),
         \A a \in Clients : a # c => toServer'[a] = toServer[a]
  PROVE  DataOwned'
<1>1. ASSUME toServer[c] # <<>>, toServer'[c] = Tail(toServer[c]), NEW i \in DOMAIN toServer'[c]
      PROVE  \E j \in DOMAIN toServer[c] : toServer'[c][i] = toServer[c][j]
  <2>1. IsQueue(toServer[c])
    BY DEF Sound, LinksSound
  <2>2. /\ IsQueue(toServer'[c]) /\ Len(toServer[c]) \in Nat \ {0} /\ Len(toServer'[c]) = Len(toServer[c]) - 1
        /\ \A k \in 1..(Len(toServer[c]) - 1) : toServer'[c][k] = toServer[c][k + 1]
    BY <1>1, <2>1, QueueTail
  <2>3. DOMAIN toServer'[c] = 1..(Len(toServer[c]) - 1) /\ DOMAIN toServer[c] = 1..Len(toServer[c])
    BY <2>1, <2>2, QueueShape
  <2>4. i + 1 \in DOMAIN toServer[c] /\ toServer'[c][i] = toServer[c][i + 1]
    BY <2>2, <2>3
  <2> QED
    BY <2>4
<1> QED
  BY <1>1 DEF DataOwned

UploadInv == DataOwned /\ Uploads

(* A request begins an upload, quietly if nothing is under way.            *)
LEMMA UploadsRequest ==
  ASSUME Sound, Sound', UploadInv, NEW a \in Admins, NEW c \in Clients, FT!MakeScreenshot(a, c)
  PROVE  UploadInv'
<1>0. /\ UNCHANGED <<connected, playing, toServer, m_transfers, making, uploading, receiving, buffer, files>>
  BY DEF FT!MakeScreenshot, FT!client
<1>1. DataOwned'
  BY <1>0 DEF UploadInv, DataOwned
<1>2. FilesKept
  BY <1>0, FilesRemain
<1>3. CASE UNCHANGED <<m_screenshot_proxies, m_receivers, toClient>>
  <2>1. \A d \in DOMAIN m_receivers : UploadRests(d)
    <3> TAKE d \in DOMAIN m_receivers
    <3>1. d \in Clients
      BY DEF Sound, ServerSound
    <3> QED
      BY <1>0, <1>2, <1>3, <3>1, UnsentWhen, UnaskedWhen DEF UploadRests
  <2>2. Uploads'
    BY <1>3, <2>1, UploadsKept DEF UploadInv
  <2> QED
    BY <1>1, <2>2 DEF UploadInv
<1>4. CASE \E p \in 1..Proxies : ~FT!is_active(p) /\ FT!make_screenshot(p, a, c)
  <2>1. PICK p \in 1..Proxies : ~FT!is_active(p) /\ FT!make_screenshot(p, a, c)
    BY <1>4
  <2>2. \A d \in DOMAIN m_receivers : m_receivers[d].proxy # p /\ m_receivers[d].proxy \in 1..Proxies
    BY <2>1, InactiveServes DEF Sound, ServerSound, IsReceiver
  <2>3. \A q \in 1..Proxies : q # p => m_screenshot_proxies'[q] = m_screenshot_proxies[q]
    BY <2>1 DEF FT!make_screenshot, Sound, ServerSound
  <2>4. /\ DOMAIN m_receivers \subseteq DOMAIN m_receivers'
        /\ \A d \in DOMAIN m_receivers : m_receivers'[d] = m_receivers[d]
    BY <2>1 DEF FT!make_screenshot, FT!Inserted
  <2>5. ASSUME NEW d \in DOMAIN m_receivers PROVE toClient'[d] = toClient[d] /\ UploadRests(d)
    <3>1. d \in Clients
      BY DEF Sound, ServerSound
    <3>2. toClient'[d] = toClient[d]
      BY <2>1, <3>1 DEF FT!make_screenshot, FT!SendTo, Sound, LinksSound
    <3>3. m_screenshot_proxies'[m_receivers[d].proxy] = m_screenshot_proxies[m_receivers[d].proxy]
      BY <2>2, <2>3
    <3> QED
      BY <1>0, <1>2, <2>4, <3>1, <3>2, <3>3, UnsentWhen, UnaskedWhen DEF UploadRests
  <2>6. ASSUME NEW d \in DOMAIN m_receivers', d \notin DOMAIN m_receivers, m_receivers'[d].quiet
        PROVE  Upload(d)'
    <3>1. ~(c \notin connected \/ c \in DOMAIN m_receivers)
      BY <2>1, <2>6 DEF FT!make_screenshot
    <3> DEFINE r == [proxy |-> p, size |-> FT!Junk, read |-> TRUE, quiet |-> FT!Quiet(c)]
    <3>2. /\ FT!SendTo(c, <<[type |-> "request"]>>)
          /\ m_screenshot_proxies' = [m_screenshot_proxies EXCEPT
               ![p] = [admin |-> a, cheater |-> c, file |-> <<>>, first |-> TRUE]]
          /\ m_receivers' = FT!Inserted(m_receivers, c, r)
      BY <2>1, <3>1 DEF FT!make_screenshot, FT!Cleared
    <3>3. d = c /\ m_receivers'[c] = r
      BY <2>6, <3>2 DEF FT!Inserted
    <3>4. FT!Quiet(c) /\ m_receivers'[c].proxy = p
      BY <2>6, <3>3
    <3>5. /\ m_screenshot_proxies'[p].file = <<>> /\ m_screenshot_proxies'[p].first = TRUE
      BY <3>2 DEF Sound, ServerSound
    <3> HIDE DEF r
    <3>6. /\ IsQueue(toClient[c]) /\ IsQueue(<<[type |-> "request"]>>) /\ IsQueue(<<>>)
          /\ Len(<<[type |-> "request"]>>) = 1 /\ Len(<<>>) = 0
      BY ShortQueues DEF Sound, LinksSound
    <3>7. PICK x : /\ toClient'[c] = toClient[c] \o x /\ IsQueue(x)
                   /\ Len(x) = 0 \/ (Len(x) = 1 /\ x = <<[type |-> "request"]>>)
      BY <3>2, <3>6 DEF FT!SendTo, FT!Delivered, Sound, LinksSound
    <3>8. /\ IsQueue(toClient'[c]) /\ Len(toClient'[c]) = Len(toClient[c]) + Len(x)
          /\ \A i \in 1..Len(toClient[c]) : toClient'[c][i] = toClient[c][i]
      BY <3>6, <3>7, QueueConcat
    <3>9. /\ Len(toClient[c]) \in Nat /\ DOMAIN toClient[c] = 1..Len(toClient[c])
          /\ DOMAIN toClient'[c] = 1..(Len(toClient[c]) + Len(x))
      BY <3>6, <3>8, QueueShape
    <3>10. /\ c \notin making /\ uploading[c] = FT!NoUpload
           /\ \A k \in DOMAIN toServer[c] : toServer[c][k].type # "data"
           /\ \A k \in DOMAIN toClient[c] : toClient[c][k].type \notin {"request", "reject"}
      BY <3>4 DEF FT!Quiet
    <3>11. \A k \in DOMAIN toClient'[c] :
             \/ toClient'[c][k].type \notin {"request", "reject"}
             \/ k = Len(toClient[c]) + 1 /\ toClient'[c][k].type = "request"
      <4> TAKE k \in DOMAIN toClient'[c]
      <4>1. CASE k \in 1..Len(toClient[c])
        BY <3>8, <3>9, <3>10, <4>1
      <4>2. CASE k \notin 1..Len(toClient[c])
        <5>1. k = Len(toClient[c]) + 1 /\ Len(x) = 1
          BY <3>7, <3>9, <4>2, SMTT(40)
        <5>2. x = <<[type |-> "request"]>>
          BY <3>7, <5>1
        <5> QED
          BY <3>6, <3>7, <5>1, <5>2, QueueConcat, ShortQueues
      <4> QED
        BY <4>1, <4>2
    <3>12. Coming(c)'
      <4>1. FT!NoUpload' = FT!NoUpload
        BY DEF FT!NoUpload
      <4> QED
        BY <1>0, <3>4, <3>5, <3>10, <3>11, <4>1 DEF Coming, FileAt
    <3> QED
      BY <3>3, <3>4, <3>5, <3>11, <3>12 DEF Upload, FileAt
  <2>7. Uploads'
    BY <2>4, <2>5, <2>6, UploadsKept DEF UploadInv
  <2> QED
    BY <1>1, <2>7 DEF UploadInv
<1> QED
  BY <1>3, <1>4 DEF FT!MakeScreenshot

(* A client joins: no upload is concerned.                                 *)
LEMMA UploadsJoin ==
  ASSUME Sound, Sound', UploadInv, NEW c \in Clients, FT!SendServerInfoToClient(c)
  PROVE  UploadInv'
<1>0. /\ UNCHANGED <<playing, toServer, m_screenshot_proxies, m_receivers, making, uploading,
                     receiving, buffer, files>>
      /\ c \notin connected
  BY DEF FT!SendServerInfoToClient, FT!client
<1>1. DataOwned' /\ FilesKept
  BY <1>0, FilesRemain DEF UploadInv, DataOwned
<1>2. UNCHANGED toClient \/ toClient' = [toClient EXCEPT ![c] = Append(@, [type |-> "logo"])]
  BY DEF FT!SendServerInfoToClient
<1>3. ASSUME NEW d \in Clients PROVE Unasked(d)
  <2>1. CASE toClient'[d] = toClient[d]
    BY <2>1, UnaskedWhen
  <2>2. CASE toClient'[d] # toClient[d]
    <3>1. d = c /\ toClient[c] = <<>> /\ toClient'[c] = Append(toClient[c], [type |-> "logo"])
      BY <1>0, <1>2, <2>2 DEF Sound, LinksSound, GoneSilent
    <3>2. toClient'[c] = <<[type |-> "logo"]>>
      BY <3>1
    <3>3. \A i \in DOMAIN toClient'[c] : toClient'[c][i].type = "logo"
      BY <3>2
    <3> QED
      BY <3>1, <3>3 DEF Unasked
  <2> QED
    BY <2>1, <2>2
<1>4. \A d \in DOMAIN m_receivers : UploadRests(d)
  <2> TAKE d \in DOMAIN m_receivers
  <2>1. d \in Clients
    BY DEF Sound, ServerSound
  <2> QED
    BY <1>0, <1>1, <1>3, <2>1, UnsentWhen DEF UploadRests
<1>5. Uploads'
  BY <1>0, <1>4, UploadsKept DEF UploadInv
<1> QED
  BY <1>1, <1>5 DEF UploadInv

(* A packet of a file comes to the server: the next piece.                 *)
LEMMA PieceCame ==
  ASSUME Sound, UploadInv, NEW c \in DOMAIN m_receivers, m_receivers[c].quiet,
         toServer[c] # <<>>, Head(toServer[c]).type = "data"
  PROVE  \E f \in Made : \E l \in 0..(SizeOf(f) - 1) : \E n \in l..SizeOf(f) :
           /\ Under(c, f, l, n) /\ l < n
           /\ IsPiece(Head(toServer[c]), c, f, SizeOf(f), l + 1)
           /\ Pieces(Tail(toServer[c]), 0, Len(Tail(toServer[c])), c, f, SizeOf(f), l + 1, n)
<1> DEFINE q == toServer[c]
<1>1. c \in Clients /\ IsQueue(q) /\ Upload(c)
  BY DEF Sound, LinksSound, ServerSound, UploadInv, Uploads
<1>2. /\ IsQueue(Tail(q)) /\ Len(q) \in Nat \ {0} /\ Len(Tail(q)) = Len(q) - 1
      /\ \A i \in 1..(Len(q) - 1) : Tail(q)[i] = q[i + 1]
      /\ Head(q) = q[1] /\ DOMAIN q = 1..Len(q)
  BY <1>1, QueueTail, QueueShape
<1>3. 1 \in DOMAIN q /\ q[1].type = "data" /\ q[1].from = c /\ q[1].pieces # <<>>
  BY <1>1, <1>2 DEF UploadInv, DataOwned
<1>4. PICK f \in Made : \E l \in 0..(SizeOf(f) - 1) : \E n \in l..SizeOf(f) : Under(c, f, l, n)
  BY <1>1, <1>3 DEF Upload, Coming
<1>5. PICK l \in 0..(SizeOf(f) - 1) : \E n \in l..SizeOf(f) : Under(c, f, l, n)
  BY <1>4
<1>6. PICK n \in l..SizeOf(f) : Under(c, f, l, n)
  BY <1>5
<1>7. l \in Nat /\ n \in Nat /\ SizeOf(f) \in Nat
  BY FileSizes DEF Sound, ClientsSound
<1>8. Pieces(q, 0, Len(q), c, f, SizeOf(f), l, n)
  BY <1>6 DEF Under
<1>9. l < n /\ IsPiece(q[1], c, f, SizeOf(f), l + 1)
  BY <1>2, <1>3, <1>7, <1>8, NextPiece DEF IsData
<1>10. Pieces(q, 1, Len(q), c, f, SizeOf(f), l + 1, n)
  BY <1>2, <1>7, <1>8, <1>9, PiecesTaken
<1>11. \A i \in (1 + 1)..Len(q) : Tail(q)[i - 1] = q[i]
  <2> TAKE i \in (1 + 1)..Len(q)
  <2>1. i - 1 \in 1..(Len(q) - 1) /\ (i - 1) + 1 = i
    BY <1>2
  <2> QED
    BY <1>2, <2>1
<1>12. 1 \in Nat \ {0} /\ 1 - 1 = 0 /\ Len(q) \in Nat /\ l + 1 \in Nat
  BY <1>2, <1>7
<1> HIDE DEF q
<1>13. Pieces(Tail(q), 1 - 1, Len(q) - 1, c, f, SizeOf(f), l + 1, n)
  BY <1>7, <1>10, <1>11, <1>12, PiecesShifted
<1>14. Pieces(Tail(q), 0, Len(Tail(q)), c, f, SizeOf(f), l + 1, n)
  BY <1>2, <1>12, <1>13
<1> QED
  BY <1>2, <1>6, <1>9, <1>14 DEF q

(* What of the proxies is of others than the one who sends.                *)
LEMMA OthersProxy ==
  ASSUME Sound, NEW c \in DOMAIN m_receivers, NEW d \in DOMAIN m_receivers, d # c
  PROVE  m_receivers[d].proxy # m_receivers[c].proxy
BY DEF Sound, ServerSound, Serves

(* A packet comes to the server.                                           *)
LEMMA UploadsData ==
  ASSUME Sound, Sound', UploadInv, NEW c \in Clients, FT!ServerReceive(c),
         Head(toServer[c]).type = "data", FT!OnData(c, Head(toServer[c]))
  PROVE  UploadInv' /\ Received'
<1> DEFINE m == Head(toServer[c])
<1>1. /\ c \in connected /\ toServer[c] # <<>> /\ toServer'[c] = Tail(toServer[c])
      /\ \A d \in Clients : d # c => toServer'[d] = toServer[d]
      /\ UNCHANGED <<connected, playing, making, uploading, receiving, buffer, files>>
      /\ FT!OnData(c, m)
  BY MessageTaken
<1> HIDE DEF m
<1>2. DataOwned'
  BY <1>1, DataOwnedLess DEF UploadInv
<1>3. FilesKept
  BY <1>1, FilesRemain
<1>4. ASSUME NEW a \in Clients, NEW x, FT!SendTo(a, <<x>>), x.type \notin {"request", "reject"},
             NEW d \in Clients
      PROVE  Unasked(d)
  <2>1. IsQueue(<<x>>) /\ Len(<<x>>) = 1 /\ <<x>>[1] = x /\ IsQueue(<<>>) /\ Len(<<>>) = 0
    BY ShortQueues
  <2>2. \A i \in 1..Len(<<x>>) : <<x>>[i].type \notin {"request", "reject"}
    BY <1>4, <2>1
  <2>3. \/ toClient'[d] = toClient[d]
        \/ toClient'[d] = toClient[d] \o <<x>>
    BY <1>4, <2>1, SentTo DEF Sound
  <2> QED
    BY <2>1, <2>2, <2>3, UnaskedWhen
<1>5. CASE c \notin DOMAIN m_receivers
  <2>1. /\ FT!SendTo(c, <<FT!Reject(SV_Client)>>) /\ got' = FT!Nothing
        /\ UNCHANGED <<m_screenshot_proxies, m_receivers, m_transfers>>
    BY <1>1, <1>5 DEF FT!OnData
  <2>2. \A d \in Clients : d # c => toClient'[d] = toClient[d]
    BY <2>1, SentTo, ShortQueues DEF Sound
  <2>3. \A d \in DOMAIN m_receivers : UploadRests(d)
    <3> TAKE d \in DOMAIN m_receivers
    <3>1. d \in Clients /\ d # c
      BY <1>5 DEF Sound, ServerSound
    <3> QED
      BY <1>1, <1>3, <2>1, <2>2, <3>1, UnsentWhen, UnaskedWhen DEF UploadRests
  <2>4. Uploads'
    BY <2>1, <2>3, UploadsKept DEF UploadInv
  <2>5. Received'
    BY <2>1 DEF Received, FT!Nothing, Nothing
  <2> QED
    BY <1>2, <2>4, <2>5 DEF UploadInv
<1>6. CASE c \in DOMAIN m_receivers
  <2> DEFINE r == m_receivers[c]
             s == m_screenshot_proxies[r.proxy]
             content == FT!Written(s.file, m)
             size == FT!SizeRead(s.file, r.size, m)
  <2>1. /\ IsReceiver(r) /\ r.proxy \in 1..Proxies /\ IsProxy(s)
        /\ s.cheater = c /\ s.admin \in Clients
    BY <1>6 DEF Sound, ServerSound, IsReceiver, Serves
  <2>2. /\ m_screenshot_proxies' = [m_screenshot_proxies EXCEPT
             ![r.proxy] = [s EXCEPT !.file = content, !.first = FALSE]]
        /\ FT!Forwards(r.proxy, size, r.quiet)
        /\ \E complete \in FT!receive_packet(s.file, r.size, m) :
             IF complete
             THEN /\ m_receivers' = FT!Without(m_receivers, {c})
                  /\ got' = IF r.quiet THEN [from |-> c, content |-> content] ELSE FT!Nothing
             ELSE /\ \E b : m_receivers' = [m_receivers EXCEPT ![c] = [r EXCEPT !.size = size, !.read = b]]
                  /\ got' = FT!Nothing
    <3>1. m_screenshot_proxies' = [m_screenshot_proxies EXCEPT
             ![r.proxy].file = content, ![r.proxy].first = FALSE]
      BY <1>1, <1>6 DEF FT!OnData
    <3>2. m_screenshot_proxies' = [m_screenshot_proxies EXCEPT
             ![r.proxy] = [s EXCEPT !.file = content, !.first = FALSE]]
      BY <2>1, <3>1 DEF Sound, ServerSound
    <3>3. FT!Forwards(r.proxy, size, r.quiet)
      BY <1>1, <1>6 DEF FT!OnData
    <3>4. PICK complete \in FT!receive_packet(s.file, r.size, m) :
             IF complete
             THEN /\ m_receivers' = FT!Without(m_receivers, {c})
                  /\ got' = IF r.quiet THEN [from |-> c, content |-> content] ELSE FT!Nothing
             ELSE /\ m_receivers' = [m_receivers EXCEPT ![c].size = size,
                                                        ![c].read = @ \/ ~FT!Ignored(s.file, m)]
                  /\ got' = FT!Nothing
      BY <1>1, <1>6 DEF FT!OnData
    <3>5. [m_receivers EXCEPT ![c].size = size, ![c].read = @ \/ ~FT!Ignored(s.file, m)]
            = [m_receivers EXCEPT ![c] = [r EXCEPT !.size = size, !.read = r.read \/ ~FT!Ignored(s.file, m)]]
      BY <1>6, <2>1 DEF Sound, ServerSound, IsReceiver
    <3> HIDE DEF r, s, content, size
    <3> QED
      BY <3>2, <3>3, <3>4, <3>5
  <2> HIDE DEF content, size
  <2>3. \A p \in 1..Proxies : p # r.proxy => m_screenshot_proxies'[p] = m_screenshot_proxies[p]
    BY <2>2 DEF Sound, ServerSound
  <2>4. m_screenshot_proxies'[r.proxy].file = content /\ m_screenshot_proxies'[r.proxy].first = FALSE
    <3> DEFINE x == [s EXCEPT !.file = content, !.first = FALSE]
    <3>1. x.file = content /\ x.first = FALSE
      BY <2>1 DEF IsProxy
    <3>2. m_screenshot_proxies' = [m_screenshot_proxies EXCEPT ![r.proxy] = x]
      BY <2>2
    <3> HIDE DEF x
    <3> QED
      BY <2>1, <3>1, <3>2 DEF Sound, ServerSound
  <2>5. /\ DOMAIN m_receivers' \subseteq DOMAIN m_receivers
        /\ \A d \in DOMAIN m_receivers' : d # c => m_receivers'[d] = m_receivers[d]
    BY <2>2 DEF FT!Without, FT!Restrict
  <2>6. ASSUME NEW d \in Clients PROVE Unasked(d)
    <3>1. CASE UNCHANGED toClient
      BY <3>1, UnaskedWhen
    <3>2. CASE ~UNCHANGED toClient
      <4>1. PICK b : FT!SendTo(s.admin, <<[type |-> "response", from |-> s.cheater, quiet |-> b]>>)
        BY <2>2, <3>2 DEF FT!Forwards
      <4> DEFINE x == [type |-> "response", from |-> s.cheater, quiet |-> b]
      <4>2. x.type \notin {"request", "reject"} /\ FT!SendTo(s.admin, <<x>>)
        BY <4>1
      <4> HIDE DEF x
      <4> QED
        BY <1>4, <2>1, <4>2
    <3> QED
      BY <3>1, <3>2
  <2>7. ASSUME NEW d \in DOMAIN m_receivers', d # c
        PROVE  d \in DOMAIN m_receivers /\ m_receivers'[d] = m_receivers[d] /\ UploadRests(d)
    <3>1. d \in DOMAIN m_receivers /\ m_receivers'[d] = m_receivers[d] /\ d \in Clients
      BY <2>5, <2>7 DEF Sound, ServerSound
    <3>2. m_receivers[d].proxy # r.proxy /\ m_receivers[d].proxy \in 1..Proxies
      BY <1>6, <2>7, <3>1, OthersProxy DEF Sound, ServerSound, IsReceiver
    <3>3. m_screenshot_proxies'[m_receivers[d].proxy] = m_screenshot_proxies[m_receivers[d].proxy]
      BY <2>3, <3>2
    <3> QED
      BY <1>1, <1>3, <2>6, <2>7, <3>1, <3>3, UnsentWhen DEF UploadRests
  <2>8. CASE ~r.quiet
    <3>1. c \in DOMAIN m_receivers' => m_receivers'[c].quiet = r.quiet
      <4>1. \A z, b : [r EXCEPT !.size = z, !.read = b].quiet = r.quiet
        BY <2>1 DEF IsReceiver
      <4>2. CASE m_receivers' = FT!Without(m_receivers, {c})
        BY <4>2 DEF FT!Without, FT!Restrict
      <4>3. CASE \E b : m_receivers' = [m_receivers EXCEPT ![c] = [r EXCEPT !.size = size, !.read = b]]
        <5>1. PICK b : m_receivers' = [m_receivers EXCEPT ![c] = [r EXCEPT !.size = size, !.read = b]]
          BY <4>3
        <5> DEFINE x == [r EXCEPT !.size = size, !.read = b]
        <5>2. x.quiet = r.quiet /\ m_receivers' = [m_receivers EXCEPT ![c] = x]
          BY <4>1, <5>1
        <5> HIDE DEF x
        <5> QED
          BY <1>6, <5>2
      <4> QED
        BY <2>2, <4>2, <4>3
    <3>2. Uploads'
      BY <2>7, <2>8, <3>1, UploadsKept DEF UploadInv
    <3>3. got' = FT!Nothing
      BY <2>2, <2>8
    <3> QED
      BY <1>2, <3>2, <3>3 DEF UploadInv, Received, FT!Nothing, Nothing
  <2>9. CASE r.quiet
    <3>1. PICK f \in Made : \E l \in 0..(SizeOf(f) - 1) : \E n \in l..SizeOf(f) :
           /\ Under(c, f, l, n) /\ l < n
           /\ IsPiece(m, c, f, SizeOf(f), l + 1)
           /\ Pieces(toServer'[c], 0, Len(toServer'[c]), c, f, SizeOf(f), l + 1, n)
      BY <1>1, <1>6, <2>9, PieceCame DEF m
    <3>2. PICK l \in 0..(SizeOf(f) - 1) : \E n \in l..SizeOf(f) :
           /\ Under(c, f, l, n) /\ l < n
           /\ IsPiece(m, c, f, SizeOf(f), l + 1)
           /\ Pieces(toServer'[c], 0, Len(toServer'[c]), c, f, SizeOf(f), l + 1, n)
      BY <3>1
    <3>3. PICK n \in l..SizeOf(f) :
           /\ Under(c, f, l, n) /\ l < n
           /\ IsPiece(m, c, f, SizeOf(f), l + 1)
           /\ Pieces(toServer'[c], 0, Len(toServer'[c]), c, f, SizeOf(f), l + 1, n)
      BY <3>2
    <3>4. SizeOf(f) \in Nat \ {0} /\ l \in Nat /\ n \in Nat /\ FilesSound
      BY FileSizes DEF Sound, ClientsSound
    <3>5. s.file = Part(f, l) /\ (l > 0 => r.size = SizeOf(f)) /\ FileOf(f, c)
      BY <3>3 DEF Under, FileAt
    <3>6. /\ content = Part(f, l + 1) /\ size = SizeOf(f)
          /\ FT!receive_packet(s.file, r.size, m) = {l + 1 = SizeOf(f)}
      BY <3>3, <3>4, <3>5, PieceReceived DEF content, size
    <3>7. FileOf(f, c)' /\ f \in Made' /\ SizeOf(f)' = SizeOf(f)
      BY <1>3, <3>5, FileRemains
    <3>8. CASE l + 1 = SizeOf(f)
      <4>1. /\ m_receivers' = FT!Without(m_receivers, {c})
            /\ got' = [from |-> c, content |-> content]
        BY <2>2, <2>9, <3>6, <3>8
      <4>2. c \notin DOMAIN m_receivers'
        BY <4>1 DEF FT!Without, FT!Restrict
      <4>3. Uploads'
        BY <2>7, <4>2, UploadsKept DEF UploadInv
      <4>4. content = Whole(f) /\ Whole(f)' = Whole(f)
        BY <3>4, <3>6, <3>7, <3>8, FileSizes DEF Whole
      <4>5. f # Info /\ files[f].owner = c /\ c # SV_Client
        BY <3>5, FileTransferAssumption DEF FileOf
      <4>6. Received'
        BY <1>1, <3>7, <4>1, <4>4, <4>5 DEF Received, Info
      <4> QED
        BY <1>2, <4>3, <4>6 DEF UploadInv
    <3>9. CASE l + 1 # SizeOf(f)
      <4>1. PICK b : m_receivers' = [m_receivers EXCEPT ![c] = [r EXCEPT !.size = size, !.read = b]]
        BY <2>2, <3>6, <3>9
      <4>0. got' = FT!Nothing
        BY <2>2, <3>6, <3>9
      <4> DEFINE x == [r EXCEPT !.size = size, !.read = b]
      <4>2. x.size = size /\ x.proxy = r.proxy
        BY <2>1 DEF IsReceiver
      <4>3. m_receivers'[c] = x
        BY <1>6, <4>1
      <4> HIDE DEF x
      <4>4. /\ FileAt(m_receivers[c].proxy)' = Part(f, l + 1)
            /\ m_receivers'[c].size = SizeOf(f)
            /\ m_screenshot_proxies'[m_receivers'[c].proxy].first = FALSE
        BY <2>4, <3>6, <4>2, <4>3 DEF FileAt
      <4>5. l + 1 \in 0..(SizeOf(f) - 1) /\ n \in (l + 1)..SizeOf(f) /\ l + 1 # 0
        BY <3>3, <3>4, <3>9
      <4>6. Part(f, l + 1) # <<>>
        <5>1. l + 1 \in Nat
          BY <3>4
        <5> QED
          BY <4>5, <5>1, PartShape
      <4>7. PICK h \in {0, 1} : \A i \in DOMAIN toClient'[c] :
              toClient'[c][i].type \in {"request", "reject"} =>
                i + h \in DOMAIN toClient[c] /\ toClient'[c][i] = toClient[c][i + h]
        BY <2>6 DEF Unasked
      <4>8. Upload(c)
        BY <1>6, <2>9 DEF UploadInv, Uploads
      <4>9. Under(c, f, l + 1, n)'
        <5>1. \A i \in DOMAIN toClient'[c] : toClient'[c][i].type # "request"
          BY <3>3, <4>7 DEF Under
        <5>2. FT!NoUpload' = FT!NoUpload
          BY DEF FT!NoUpload
        <5>3. Pieces(toServer[c], 0, Len(toServer[c]), c, f, SizeOf(f), l + 1, n)'
          BY <3>3, <3>7
        <5> QED
          BY <1>1, <3>3, <3>7, <4>4, <5>1, <5>2, <5>3 DEF Under
      <4>10. \A i \in DOMAIN toClient'[c] : toClient'[c][i].type # "reject"
        BY <4>7, <4>8 DEF Upload
      <4>11. Upload(c)'
        BY <3>7, <4>4, <4>5, <4>6, <4>9, <4>10 DEF Upload
      <4>12. Uploads'
        BY <2>7, <4>11, UploadsKept DEF UploadInv
      <4> QED
        BY <1>2, <4>0, <4>12 DEF UploadInv, Received, FT!Nothing, Nothing
    <3> QED
      BY <3>8, <3>9
  <2> QED
    BY <2>8, <2>9
<1> QED
  BY <1>5, <1>6

(* A client or the server ends something.                                  *)
LEMMA UploadsStop ==
  ASSUME Sound, Sound', UploadInv, NEW c \in Clients, FT!ServerReceive(c), NEW src,
         Head(toServer[c]).type # "data", FT!OnAbort(c) \/ FT!OnReject(c, src)
  PROVE  UploadInv'
<1>1. /\ toServer[c] # <<>> /\ toServer'[c] = Tail(toServer[c])
      /\ \A d \in Clients : d # c => toServer'[d] = toServer[d]
      /\ UNCHANGED <<connected, playing, making, uploading, receiving, buffer, files>>
  BY MessageTaken
<1>2. DataOwned' /\ FilesKept
  BY <1>1, DataOwnedLess, FilesRemain DEF UploadInv
<1>3. UNCHANGED m_screenshot_proxies
  BY DEF FT!OnAbort, FT!OnReject
<1>4. ASSUME NEW d \in DOMAIN m_receivers'
      PROVE  d \in DOMAIN m_receivers /\ m_receivers'[d] = m_receivers[d]
  BY DEF FT!OnAbort, FT!OnReject, FT!Without, FT!Restrict
<1>5. ASSUME NEW d \in DOMAIN m_receivers' PROVE Unasked(d)
  <2>1. d \in Clients
    BY <1>4 DEF Sound, ServerSound
  <2>2. CASE FT!OnAbort(c)
    <3>1. CASE c \in DOMAIN m_receivers
      <4>1. d # c
        BY <2>2, <3>1 DEF FT!OnAbort, FT!Without, FT!Restrict
      <4>2. PICK x : FT!SendTo(c, x)
        BY <2>2, <3>1 DEF FT!OnAbort
      <4>3. toClient'[d] = toClient[d]
        BY <2>1, <4>1, <4>2 DEF FT!SendTo, Sound, LinksSound
      <4> QED
        BY <2>1, <4>3, UnaskedWhen
    <3>2. CASE c \notin DOMAIN m_receivers
      BY <2>1, <2>2, <3>2, UnaskedWhen DEF FT!OnAbort
    <3> QED
      BY <3>1, <3>2
  <2>3. CASE FT!OnReject(c, src)
    <3>1. CASE UNCHANGED toClient
      BY <2>1, <3>1, UnaskedWhen
    <3>2. CASE FT!SendTo(c, <<FT!Abort(src)>>)
      <4>1. IsQueue(<<FT!Abort(src)>>) /\ Len(<<FT!Abort(src)>>) = 1 /\ <<FT!Abort(src)>>[1] = FT!Abort(src)
        BY ShortQueues
      <4>2. \A i \in 1..Len(<<FT!Abort(src)>>) : <<FT!Abort(src)>>[i].type \notin {"request", "reject"}
        BY <4>1 DEF FT!Abort
      <4>3. toClient'[d] = toClient[d] \/ toClient'[d] = toClient[d] \o <<FT!Abort(src)>>
        BY <2>1, <3>2, <4>1, SentTo DEF Sound
      <4> QED
        BY <2>1, <4>1, <4>2, <4>3, UnaskedWhen
    <3> QED
      BY <2>3, <3>1, <3>2 DEF FT!OnReject
  <2> QED
    BY <2>2, <2>3
<1>6. ASSUME NEW d \in Clients PROVE Unsent(d)
  <2>1. CASE d = c
    <3>1. toServer[c][1].type # "data"
      BY <1>1, QueueTail DEF Sound, LinksSound
    <3> QED
      BY <1>1, <2>1, <3>1 DEF Unsent
  <2>2. CASE d # c
    BY <1>1, <2>2, UnsentWhen
  <2> QED
    BY <2>1, <2>2
<1>7. \A d \in DOMAIN m_receivers' : d \in DOMAIN m_receivers /\ m_receivers'[d] = m_receivers[d] /\ UploadRests(d)
  <2> TAKE d \in DOMAIN m_receivers'
  <2>1. d \in DOMAIN m_receivers /\ m_receivers'[d] = m_receivers[d] /\ d \in Clients
    BY <1>4 DEF Sound, ServerSound
  <2> QED
    BY <1>1, <1>2, <1>3, <1>5, <1>6, <2>1 DEF UploadRests
<1>8. Uploads'
  BY <1>7, UploadsKept DEF UploadInv
<1> QED
  BY <1>2, <1>8 DEF UploadInv

(* A client is asked, gets something or is told to stop.                   *)
LEMMA UploadsReceive ==
  ASSUME Sound, Sound', UploadInv, NEW c \in Clients, FT!ClientReceive(c)
  PROVE  UploadInv'
<1> DEFINE m == Head(toClient[c])
<1>1. /\ c \in connected \cap playing /\ toClient[c] # <<>>
      /\ toClient' = [toClient EXCEPT ![c] = Tail(@)]
      /\ UNCHANGED <<connected, playing, m_screenshot_proxies, m_receivers, m_transfers, buffer, files>>
      /\ \/ /\ m.type = "request" /\ making' = making \cup {c} /\ UNCHANGED uploading
         \/ m.type \in {"response", "logo", "data", "abort"} /\ UNCHANGED <<making, uploading>>
         \/ /\ m.type = "reject" /\ UNCHANGED making
            /\ uploading' = [uploading EXCEPT ![c] = FT!NoUpload]
  BY ReceiveEffect
<1>2. PICK s : Answers(c, s) /\ \A i \in DOMAIN s : s[i].type # "data"
  BY ReceiveEffect
<1>3. DataOwned'
  BY <1>2, DataOwnedKept DEF UploadInv, Answers
<1>4. FilesKept
  BY <1>1, FilesRemain
<1>5. /\ toClient'[c] = Tail(toClient[c]) /\ \A d \in Clients : d # c => toClient'[d] = toClient[d]
  BY <1>1 DEF Sound, LinksSound
<1>6. ASSUME NEW d \in Clients PROVE Unasked(d) /\ Unsent(d)
  <2>1. CASE d = c
    <3>1. Unasked(c)
      BY <1>1, <1>5, UnaskedWhen
    <3>2. toServer'[c] = toServer[c] \o s /\ IsQueue(s)
      BY <1>2 DEF Answers
    <3>3. Unsent(c)
      BY <1>2, <3>2 DEF Unsent
    <3> QED
      BY <2>1, <3>1, <3>3
  <2>2. CASE d # c
    BY <1>2, <1>5, <2>2, UnaskedWhen, UnsentWhen DEF Answers
  <2> QED
    BY <2>1, <2>2
<1>7. ASSUME NEW d \in DOMAIN m_receivers, d # c PROVE UploadRests(d)
  <2>1. d \in Clients
    BY DEF Sound, ServerSound
  <2>2. uploading'[d] = uploading[d] /\ (d \in making' => d \in making)
    BY <1>1, <1>7, <2>1 DEF Sound, ClientsSound
  <2> QED
    BY <1>1, <1>4, <1>6, <2>1, <2>2 DEF UploadRests
<1>8. IsQueue(toClient[c])
  BY DEF Sound, LinksSound
<1>9. /\ IsQueue(toClient'[c]) /\ Len(toClient[c]) \in Nat \ {0} /\ Len(toClient'[c]) = Len(toClient[c]) - 1
      /\ \A i \in 1..(Len(toClient[c]) - 1) : toClient'[c][i] = toClient[c][i + 1]
      /\ m = toClient[c][1] /\ DOMAIN toClient[c] = 1..Len(toClient[c])
  <2>1. /\ IsQueue(Tail(toClient[c])) /\ Len(toClient[c]) \in Nat \ {0}
        /\ Len(Tail(toClient[c])) = Len(toClient[c]) - 1
        /\ \A i \in 1..(Len(toClient[c]) - 1) : Tail(toClient[c])[i] = toClient[c][i + 1]
        /\ m = toClient[c][1] /\ DOMAIN toClient[c] = 1..Len(toClient[c])
    BY <1>1, <1>8, QueueTail, QueueShape
  <2> HIDE DEF m
  <2> QED
    BY <1>5, <2>1
<1>10. DOMAIN toClient'[c] = 1..(Len(toClient[c]) - 1)
  BY <1>9, QueueShape
<1> HIDE DEF m
<1>11. ASSUME c \in DOMAIN m_receivers, Upload(c) PROVE Upload(c)' \/ UploadRests(c)
  <2>1. m.type # "reject"
    BY <1>9, <1>11 DEF Upload
  <2>2. CASE m.type = "request"
    <3>1. 1 \in DOMAIN toClient[c]
      BY <1>9
    <3>2. Coming(c)
      BY <1>9, <1>11, <2>2, <3>1 DEF Upload, Under
    <3>3. \A i \in DOMAIN toClient'[c] : toClient'[c][i].type \notin {"request", "reject"}
      <4> TAKE i \in DOMAIN toClient'[c]
      <4>1. i + 1 \in DOMAIN toClient[c] /\ i + 1 # 1 /\ toClient'[c][i] = toClient[c][i + 1]
        BY <1>9, <1>10
      <4>2. toClient[c][i + 1].type # "request"
        BY <1>9, <2>2, <3>1, <3>2, <4>1 DEF Coming
      <4> QED
        BY <1>11, <4>1, <4>2 DEF Upload
    <3>4. \A i \in DOMAIN toServer'[c] : toServer'[c][i].type # "data"
      BY <1>6, <3>2, UnsentQueue DEF Coming
    <3>5. FT!NoUpload' = FT!NoUpload /\ uploading'[c] = uploading[c]
      BY <1>1, <2>2 DEF FT!NoUpload
    <3>6. Coming(c)'
      BY <1>1, <3>2, <3>3, <3>4, <3>5 DEF Coming, FileAt
    <3> QED
      BY <1>1, <1>11, <3>3, <3>6 DEF Upload, FileAt
  <2>3. CASE m.type \in {"response", "logo", "data", "abort"}
    <3>1. UNCHANGED <<making, uploading>>
      BY <1>1, <2>3
    <3> QED
      BY <1>1, <1>4, <1>6, <3>1 DEF UploadRests
  <2> QED
    BY <1>1, <2>1, <2>2, <2>3
<1>12. \A d \in DOMAIN m_receivers' : m_receivers'[d].quiet =>
           \/ d \in DOMAIN m_receivers /\ m_receivers[d].quiet /\ (Upload(d) => UploadRests(d))
           \/ Upload(d)'
  <2> TAKE d \in DOMAIN m_receivers'
  <2> HAVE m_receivers'[d].quiet
  <2>1. d \in DOMAIN m_receivers /\ m_receivers[d].quiet
    BY <1>1
  <2>2. Upload(d)
    BY <2>1 DEF UploadInv, Uploads
  <2> QED
    BY <1>7, <1>11, <2>1, <2>2
<1>13. Uploads'
  BY <1>12, UploadsKept DEF UploadInv
<1> QED
  BY <1>3, <1>13 DEF UploadInv

(* What has been made is put into the buffer.                              *)
LEMMA UploadsMade ==
  ASSUME Sound, Sound', UploadInv, NEW c \in Clients, FT!SendCollectedData(c)
  PROVE  UploadInv'
<1>1. /\ c \in making /\ making' = making \ {c}
      /\ UNCHANGED <<connected, playing, toServer, toClient, m_screenshot_proxies, m_receivers,
                     m_transfers, receiving>>
  BY DEF FT!SendCollectedData, FT!net, FT!server
<1>2. PICK n \in 1..2 :
        /\ Len(files) \in Nat /\ DOMAIN files' = 1..(Len(files) + 1)
        /\ files'[Len(files) + 1] = [owner |-> c, size |-> n]
        /\ uploading' = [uploading EXCEPT ![c] =
             IF @ = FT!NoUpload THEN [at |-> 0, size |-> n] ELSE @]
        /\ buffer' = [buffer EXCEPT ![c] = Len(files) + 1]
  BY MadeEffect
<1>3. FilesKept
  BY MoreFiles
<1>4. DataOwned'
  BY <1>1 DEF UploadInv, DataOwned
<1>5. ASSUME NEW d \in DOMAIN m_receivers, d # c PROVE UploadRests(d)
  <2>1. d \in Clients
    BY DEF Sound, ServerSound
  <2>2. uploading'[d] = uploading[d] /\ buffer'[d] = buffer[d]
    BY <1>2, <1>5, <2>1 DEF Sound, ClientsSound
  <2> QED
    BY <1>1, <1>3, <2>1, <2>2, UnaskedWhen, UnsentWhen DEF UploadRests
<1>6. ASSUME c \in DOMAIN m_receivers, Upload(c) PROVE Upload(c)'
  <2>0. PICK f : f = Len(files) + 1
    OBVIOUS
  <2>1. Coming(c)
    BY <1>1, <1>6 DEF Upload, Under
  <2>2. /\ f \in DOMAIN files' /\ f # Info /\ files'[f].owner = c /\ files'[f].size = n /\ n \in Nat \ {0}
    BY <1>2, <2>0 DEF Info
  <2>3. uploading'[c] = [at |-> 0, size |-> n] /\ buffer'[c] = f
    BY <1>2, <2>0, <2>1 DEF Coming, Sound, ClientsSound
  <2>4. f \in Made' /\ SizeOf(f)' = n /\ FileOf(f, c)'
    <3>1. f \in Made' /\ SizeOf(f)' = n /\ c # SV_Client
      BY <2>2, FileTransferAssumption DEF Made, SizeOf
    <3> QED
      BY <2>2, <3>1 DEF FileOf
  <2>5. FileAt(m_receivers[c].proxy)' = Part(f, 0)
    <3>1. Part(f, 0) = <<>>
      BY PartShape
    <3> QED
      BY <1>1, <2>1, <3>1 DEF Coming, FileAt
  <2>6. Pieces(toServer'[c], 0, Len(toServer'[c]), c, f, n, 0, 0)
    <3>1. \A i \in 1..Len(toServer[c]) : ~IsData(toServer[c][i], c)
      <4>1. DOMAIN toServer[c] = 1..Len(toServer[c])
        BY QueueShape DEF Sound, LinksSound
      <4> QED
        BY <2>1, <4>1 DEF Coming, IsData
    <3> QED
      BY <1>1, <3>1 DEF Pieces, IsPiece
  <2>7. \A i \in DOMAIN toClient'[c] : toClient'[c][i].type # "request"
    BY <1>1, <2>1 DEF Coming
  <2>8. FT!NoUpload' # uploading'[c]
    <3>1. [at |-> 0, size |-> n].size = n /\ [at |-> 0, size |-> 0].size = 0
      OBVIOUS
    <3> QED
      BY <2>2, <2>3, <3>1 DEF FT!NoUpload
  <2>9. Under(c, f, 0, 0)'
    BY <1>1, <2>2, <2>3, <2>4, <2>5, <2>6, <2>7, <2>8 DEF Under
  <2>10. 0 \in 0..(SizeOf(f)' - 1) /\ 0 \in 0..SizeOf(f)'
    BY <2>2, <2>4
  <2> QED
    BY <1>1, <1>6, <2>4, <2>9, <2>10 DEF Upload, FileAt
<1>7. Uploads'
  BY <1>1, <1>5, <1>6, UploadsKept DEF UploadInv, Uploads
<1> QED
  BY <1>4, <1>7 DEF UploadInv

(* The frame of a client, who sends the next piece.                        *)
LEMMA UploadsSend ==
  ASSUME Sound, Sound', UploadInv, NEW c \in Clients, NEW late, FT!ClientSend(c, late)
  PROVE  UploadInv'
<1>1. /\ c \in playing
      /\ UNCHANGED <<connected, playing, toClient, m_screenshot_proxies, m_receivers, m_transfers,
                     making, buffer, files>>
      /\ uploading' = [uploading EXCEPT ![c] =
           CASE ~FT!Sends(c) -> @
             [] FT!Sends(c) -> IF @.at + 1 = @.size THEN FT!NoUpload ELSE [@ EXCEPT !.at = @ + 1]]
  BY DEF FT!ClientSend, FT!server
<1>2. PICK s : /\ Answers(c, FT!Piece(c) \o s) /\ IsQueue(s)
               /\ \A i \in DOMAIN s : s[i].type = "reject"
  BY SendEffect
<1>3. IsQueue(FT!Piece(c)) /\ FilesKept
  BY <1>1, SendEffect, FilesRemain
<1> DEFINE x == FT!Piece(c) \o s
           y == FT!Piece(c)
           q == toServer[c]
<1>4. /\ IsQueue(x) /\ Len(x) = Len(y) + Len(s)
      /\ \A i \in 1..Len(y) : x[i] = y[i]
      /\ \A i \in (Len(y) + 1)..(Len(y) + Len(s)) : x[i] = s[i - Len(y)]
  BY <1>2, <1>3, QueueConcat
<1>5. /\ toServer'[c] = q \o x /\ IsQueue(q)
      /\ \A d \in Clients : d # c => toServer'[d] = toServer[d]
  BY <1>2 DEF Answers, Sound, LinksSound
<1>6. \/ y = <<>> /\ ~FT!Sends(c)
      \/ /\ FT!Sends(c)
         /\ y = <<FT!Data(c, IF uploading[c].at = 0 THEN uploading[c].size ELSE 0,
                          <<<<buffer[c], uploading[c].at + 1>>>>)>>
  BY DEF FT!Piece
<1>7. y = <<>> \/ (Len(y) = 1 /\ y[1].type = "data" /\ y[1].from = c /\ y[1].pieces # <<>>)
  <2>1. \A z, w : <<FT!Data(c, z, <<w>>)>>[1].type = "data" /\ <<FT!Data(c, z, <<w>>)>>[1].from = c
                  /\ <<FT!Data(c, z, <<w>>)>>[1].pieces # <<>>
    BY DEF FT!Data
  <2> QED
    BY <1>6, <2>1, ShortQueues
<1> HIDE DEF x, y
<1>8. Len(y) \in Nat /\ Len(s) \in Nat /\ DOMAIN x = 1..(Len(y) + Len(s)) /\ DOMAIN s = 1..Len(s)
      /\ (y = <<>> <=> Len(y) = 0)
  BY <1>2, <1>3, <1>4, QueueShape DEF y
<1>9. \A i \in DOMAIN x : \/ i = 1 /\ Len(y) = 1 /\ x[i] = y[1]
                          \/ (i # 1 \/ Len(y) = 0) /\ x[i].type = "reject"
  <2> TAKE i \in DOMAIN x
  <2>1. CASE i \in 1..Len(y)
    BY <1>4, <1>7, <1>8, <2>1
  <2>2. CASE i \notin 1..Len(y)
    <3>1. i \in (Len(y) + 1)..(Len(y) + Len(s)) /\ i - Len(y) \in 1..Len(s)
      BY <1>8, <2>2
    <3>2. x[i].type = "reject"
      BY <1>2, <1>4, <1>8, <3>1
    <3>3. i # 1 \/ Len(y) = 0
      BY <1>7, <1>8, <3>1
    <3> QED
      BY <3>2, <3>3
  <2> QED
    BY <2>1, <2>2
<1>10. DataOwned'
  <2>1. \A i \in DOMAIN x : x[i].type = "data" => x[i].from = c /\ x[i].pieces # <<>>
    BY <1>7, <1>8, <1>9
  <2> QED
    BY <1>4, <1>5, <2>1, DataOwnedKept DEF UploadInv
<1>11. ASSUME NEW d \in DOMAIN m_receivers, d # c PROVE UploadRests(d)
  <2>1. d \in Clients
    BY DEF Sound, ServerSound
  <2>2. uploading'[d] = uploading[d]
    BY <1>1, <1>11, <2>1 DEF Sound, ClientsSound
  <2> QED
    BY <1>1, <1>3, <1>5, <1>11, <2>1, <2>2, UnaskedWhen, UnsentWhen DEF UploadRests
<1>12. ASSUME ~FT!Sends(c) PROVE UploadRests(c)
  <2>1. uploading'[c] = uploading[c]
    BY <1>1, <1>12 DEF Sound, ClientsSound
  <2>2. Unsent(c)
    <3>1. \A i \in DOMAIN x : x[i].type # "data"
      BY <1>6, <1>8, <1>9, <1>12 DEF y
    <3> QED
      BY <1>4, <1>5, <3>1 DEF Unsent
  <2> QED
    BY <1>1, <1>3, <2>1, <2>2, UnaskedWhen DEF UploadRests
<1>13. ASSUME FT!Sends(c), c \in DOMAIN m_receivers, Upload(c) PROVE Upload(c)'
  <2>1. uploading[c] # FT!NoUpload
    BY <1>13 DEF FT!Sends
  <2>2. PICK f \in Made : \E l \in 0..(SizeOf(f) - 1) : \E n \in l..SizeOf(f) : Under(c, f, l, n)
    BY <1>13, <2>1 DEF Upload, Coming
  <2>3. PICK l \in 0..(SizeOf(f) - 1) : \E n \in l..SizeOf(f) : Under(c, f, l, n)
    BY <2>2
  <2>4. PICK n \in l..SizeOf(f) : Under(c, f, l, n)
    BY <2>3
  <2>5. SizeOf(f) \in Nat \ {0} /\ l \in Nat /\ n \in Nat
    BY FileSizes DEF Sound, ClientsSound
  <2>6. buffer[c] = f /\ uploading[c] = [at |-> n, size |-> SizeOf(f)] /\ n < SizeOf(f) /\ FileOf(f, c)
        /\ Pieces(q, 0, Len(q), c, f, SizeOf(f), l, n)
    BY <2>1, <2>4 DEF Under
  <2>7. FileOf(f, c)' /\ f \in Made' /\ SizeOf(f)' = SizeOf(f)
    BY <1>3, <2>6, FileRemains
  <2>8. Len(y) = 1 /\ y[1] = FT!Data(c, IF n = 0 THEN SizeOf(f) ELSE 0, <<<<f, n + 1>>>>)
    BY <1>6, <1>13, <2>6, ShortQueues
  <2>9. IsPiece(y[1], c, f, SizeOf(f), n + 1)
    BY <2>5, <2>8 DEF IsPiece, IsData, FT!Data
  <2>10. Pieces(toServer'[c], 0, Len(toServer'[c]), c, f, SizeOf(f), l, n + 1)
    <3> HIDE DEF q
    <3>0. IsQueue(q) /\ IsQueue(x)
      BY <1>4, <1>5
    <3> DEFINE w == q \o x
    <3>1. /\ IsQueue(w) /\ Len(w) = Len(q) + Len(x)
          /\ \A i \in 1..Len(q) : w[i] = q[i]
          /\ \A i \in (Len(q) + 1)..(Len(q) + Len(x)) : w[i] = x[i - Len(q)]
      BY <3>0, QueueConcat
    <3> HIDE DEF w
    <3>2. Len(q) \in Nat /\ Len(x) \in Nat /\ Len(x) = Len(y) + Len(s) /\ Len(w) \in Nat
      BY <1>4, <1>5, <1>8, <3>1, QueueShape
    <3> DEFINE u == Len(q)
               v == Len(x)
    <3>3. u \in Nat /\ v \in Nat /\ v >= 1 /\ Len(w) = u + v
      BY <1>8, <2>8, <3>1, <3>2
    <3>4. \A i \in (0 + 1)..u : w[i] = q[i]
      BY <3>1
    <3>5. IsPiece(w[u + 1], c, f, SizeOf(f), n + 1)
      <4>1. u + 1 \in (u + 1)..(u + v) /\ (u + 1) - u = 1
        BY <3>3
      <4>2. w[u + 1] = x[1]
        BY <3>1, <4>1
      <4>3. x[1] = y[1]
        BY <1>4, <2>8
      <4> QED
        BY <2>9, <4>2, <4>3
    <3>6. \A i \in (u + 1)..(u + v) : i # u + 1 => ~IsData(w[i], c)
      <4> TAKE i \in (u + 1)..(u + v)
      <4> HAVE i # u + 1
      <4>1. i - u \in 1..v /\ i - u # 1 /\ w[i] = x[i - u]
        BY <3>1, <3>3
      <4>2. DOMAIN x = 1..v
        BY <1>4, QueueShape
      <4>3. x[i - u].type = "reject"
        BY <1>9, <2>8, <4>1, <4>2
      <4> QED
        BY <4>1, <4>3 DEF IsData
    <3> HIDE DEF u, v, q
    <3>7. Pieces(w, 0, u, c, f, SizeOf(f), l, n)
      <4>1. Pieces(q, 0, u, c, f, SizeOf(f), l, n)
        BY <2>6 DEF u
      <4> QED
        BY <2>5, <3>3, <3>4, <4>1, PiecesKept
    <3>8. 0 \in Nat /\ u + 1 \in Nat /\ u + v \in Nat /\ 0 <= u /\ u < u + 1 /\ u + 1 <= u + v /\ l <= n
      BY <2>4, <2>5, <3>3
    <3>9. Pieces(w, 0, u + v, c, f, SizeOf(f), l, n + 1)
      BY <2>5, <3>3, <3>5, <3>6, <3>7, <3>8, PiecesNext
    <3> QED
      BY <1>5, <3>3, <3>9 DEF w
  <2>11. uploading'[c] = IF n + 1 = SizeOf(f) THEN FT!NoUpload ELSE [at |-> n + 1, size |-> SizeOf(f)]
    <3> DEFINE u == uploading[c]
               v == CASE ~FT!Sends(c) -> u
                      [] FT!Sends(c) -> IF u.at + 1 = u.size THEN FT!NoUpload ELSE [u EXCEPT !.at = @ + 1]
               z == IF u.at + 1 = u.size THEN FT!NoUpload ELSE [u EXCEPT !.at = u.at + 1]
    <3>3. uploading' = [uploading EXCEPT ![c] = v]
      BY <1>1
    <3>4. v = z
      BY <1>13
    <3> HIDE DEF v
    <3>5. uploading'[c] = z
      BY <3>3, <3>4 DEF Sound, ClientsSound
    <3>2. u.at = n /\ u.size = SizeOf(f) /\ [u EXCEPT !.at = u.at + 1] = [at |-> n + 1, size |-> SizeOf(f)]
      BY <2>6
    <3> HIDE DEF u
    <3> QED
      BY <3>2, <3>5
  <2>12. n + 1 = SizeOf(f) \/ (n + 1 < SizeOf(f) /\ uploading'[c] # FT!NoUpload)
    <3>1. n + 1 # SizeOf(f) => [at |-> n + 1, size |-> SizeOf(f)] # [at |-> 0, size |-> 0]
      <4>1. [at |-> n + 1, size |-> SizeOf(f)].size = SizeOf(f) /\ [at |-> 0, size |-> 0].size = 0
        OBVIOUS
      <4> QED
        BY <2>5, <4>1
    <3> QED
      BY <2>5, <2>6, <2>11, <3>1 DEF FT!NoUpload
  <2>13. Under(c, f, l, n + 1)'
    <3>1. FT!NoUpload' = FT!NoUpload
      BY DEF FT!NoUpload
    <3>2. Pieces(toServer[c], 0, Len(toServer[c]), c, f, SizeOf(f), l, n + 1)'
      BY <2>7, <2>10
    <3>3. FileAt(m_receivers[c].proxy)' = Part(f, l) /\ (l > 0 => m_receivers'[c].size = SizeOf(f)')
      BY <1>1, <2>4, <2>7 DEF Under, FileAt
    <3>4. c \notin making' /\ \A i \in DOMAIN toClient'[c] : toClient'[c][i].type # "request"
      BY <1>1, <2>4 DEF Under
    <3>5. IF uploading'[c] = FT!NoUpload THEN n + 1 = SizeOf(f)
          ELSE buffer'[c] = f /\ uploading'[c] = [at |-> n + 1, size |-> SizeOf(f)] /\ n + 1 < SizeOf(f)
      BY <1>1, <2>6, <2>11, <2>12
    <3> QED
      BY <2>7, <3>1, <3>2, <3>3, <3>4, <3>5 DEF Under
  <2>14. l \in 0..(SizeOf(f)' - 1) /\ n + 1 \in l..SizeOf(f)'
    BY <2>4, <2>5, <2>6, <2>7
  <2> QED
    BY <1>1, <1>13, <2>7, <2>13, <2>14 DEF Upload, FileAt
<1>14. Uploads'
  BY <1>1, <1>11, <1>12, <1>13, UploadsKept DEF UploadInv, Uploads
<1> QED
  BY <1>10, <1>14 DEF UploadInv

(* A client leaves: what he sends is aborted.                              *)
LEMMA UploadsLeave ==
  ASSUME Sound, Sound', UploadInv, NEW c \in Clients, FT!Leave(c)
  PROVE  UploadInv'
<1>1. /\ c \in connected \cap playing /\ playing' = playing \ {c} /\ making' = making \ {c}
      /\ toClient' = [toClient EXCEPT ![c] = <<>>]
      /\ uploading' = [uploading EXCEPT ![c] = FT!NoUpload]
      /\ buffer' = [buffer EXCEPT ![c] = FT!NoFile]
      /\ UNCHANGED <<connected, m_screenshot_proxies, m_receivers, m_transfers, files>>
  BY DEF FT!Leave, FT!server
<1>2. PICK s : Answers(c, s) /\ \A i \in DOMAIN s : s[i].type # "data"
  BY LeaveEffect
<1>3. DataOwned'
  BY <1>2, DataOwnedKept DEF UploadInv, Answers
<1>4. ASSUME NEW d \in DOMAIN m_receivers PROVE UploadRests(d)
  <2>1. d \in Clients
    BY DEF Sound, ServerSound
  <2>2. CASE d = c
    <3>1. toServer'[c] = toServer[c] \o s /\ IsQueue(s)
      BY <1>2 DEF Answers
    <3>2. Unsent(c)
      BY <1>2, <3>1 DEF Unsent
    <3>3. toClient'[c] = <<>>
      BY <1>1 DEF Sound, LinksSound
    <3>4. Unasked(c)
      BY <3>3 DEF Unasked
    <3>5. uploading'[c] = FT!NoUpload /\ c \notin playing'
      BY <1>1 DEF Sound, ClientsSound
    <3> QED
      BY <1>1, <2>2, <3>2, <3>4, <3>5, FilesRemain DEF UploadRests
  <2>3. CASE d # c
    <3>1. toServer'[d] = toServer[d] /\ toClient'[d] = toClient[d]
      BY <1>1, <1>2, <2>1, <2>3 DEF Answers, Sound, LinksSound
    <3>2. uploading'[d] = uploading[d] /\ buffer'[d] = buffer[d]
      BY <1>1, <2>1, <2>3 DEF Sound, ClientsSound
    <3> QED
      BY <1>1, <2>1, <3>1, <3>2, UnaskedWhen, UnsentWhen, FilesRemain DEF UploadRests
  <2> QED
    BY <2>2, <2>3
<1>5. Uploads'
  BY <1>1, <1>4, UploadsKept DEF UploadInv
<1> QED
  BY <1>3, <1>5 DEF UploadInv

(* The server destroys who has left: nothing of him comes any more.        *)
LEMMA UploadsDestroy ==
  ASSUME Sound, Sound', UploadInv, NEW c \in Clients, FT!client_Destroy(c)
  PROVE  UploadInv'
<1>1. /\ c \in connected \ playing /\ connected' = connected \ {c}
      /\ toServer' = [toServer EXCEPT ![c] = <<>>]
      /\ UNCHANGED <<playing, toClient, making, uploading, receiving, buffer, files,
                     m_screenshot_proxies, m_receivers, m_transfers>>
  BY DEF FT!client_Destroy, FT!server, FT!client
<1>2. toServer'[c] = <<>> /\ \A d \in Clients : d # c => toServer'[d] = toServer[d]
  BY <1>1 DEF Sound, LinksSound
<1>3. DataOwned'
  BY <1>2, DataOwnedLess DEF UploadInv
<1>4. FilesKept
  BY <1>1, FilesRemain
<1>5. ASSUME NEW d \in DOMAIN m_receivers, d # c PROVE UploadRests(d)
  <2>1. d \in Clients
    BY DEF Sound, ServerSound
  <2> QED
    BY <1>1, <1>2, <1>4, <1>5, <2>1, UnaskedWhen, UnsentWhen DEF UploadRests
<1>6. ASSUME c \in DOMAIN m_receivers, Upload(c) PROVE Upload(c)'
  <2>1. FT!NoUpload' = FT!NoUpload /\ uploading'[c] = FT!NoUpload
    BY <1>1 DEF FT!NoUpload, Sound, GoneSilent
  <2>2. CASE Coming(c)
    <3>1. Coming(c)'
      BY <1>1, <1>2, <2>1, <2>2 DEF Coming, FileAt
    <3> QED
      BY <1>1, <1>6, <3>1 DEF Upload, FileAt
  <2>3. CASE \E f \in Made : \E l \in 0..(SizeOf(f) - 1) : \E n \in l..SizeOf(f) : Under(c, f, l, n)
    <3>1. PICK f \in Made : \E l \in 0..(SizeOf(f) - 1) : \E n \in l..SizeOf(f) : Under(c, f, l, n)
      BY <2>3
    <3>2. PICK l \in 0..(SizeOf(f) - 1) : \E n \in l..SizeOf(f) : Under(c, f, l, n)
      BY <3>1
    <3>3. PICK n \in l..SizeOf(f) : Under(c, f, l, n)
      BY <3>2
    <3>4. FileOf(f, c)' /\ f \in Made' /\ SizeOf(f)' = SizeOf(f) /\ l \in Nat /\ SizeOf(f) \in Nat
      BY <1>4, <3>3, FileRemains, FileSizes DEF Under, Sound, ClientsSound
    <3>5. Pieces(toServer'[c], 0, Len(toServer'[c]), c, f, SizeOf(f), l, l)
      <4>1. (l + 1)..l = {} /\ (0 + 1)..Len(<<>>) = {}
        BY <3>4, ShortQueues
      <4> QED
        BY <1>2, <4>1 DEF Pieces
    <3>6. Under(c, f, l, l)'
      BY <1>1, <2>1, <3>3, <3>4, <3>5 DEF Under, FileAt
    <3>7. l \in 0..(SizeOf(f)' - 1) /\ l \in l..SizeOf(f)'
      BY <3>2, <3>4
    <3> QED
      BY <1>1, <1>6, <3>4, <3>6, <3>7 DEF Upload, FileAt
  <2> QED
    BY <1>6, <2>2, <2>3 DEF Upload
<1>7. Uploads'
  BY <1>1, <1>5, <1>6, UploadsKept DEF UploadInv, Uploads
<1> QED
  BY <1>3, <1>7 DEF UploadInv

(* The frame of the server: those who are told to stop have no receiver.   *)
LEMMA UploadsFrame ==
  ASSUME Sound, Sound', UploadInv, NEW late, FT!UpdateServer(late)
  PROVE  UploadInv'
<1>0. UNCHANGED <<connected, playing, toServer, m_screenshot_proxies, making, uploading, receiving, buffer, files>>
  BY DEF FT!UpdateServer, FT!client
<1>1. PICK done :
        /\ \A a \in Clients : \E r : toClient'[a] = toClient[a] \o r /\ InFrame(a, r, done, late)
        /\ m_receivers' =
             [c \in DOMAIN m_receivers \ late |-> [m_receivers[c] EXCEPT !.read = FALSE]]
  BY FrameEffect
<1>2. DataOwned' /\ FilesKept
  BY <1>0, FilesRemain DEF UploadInv, DataOwned
<1>3. ASSUME NEW d \in DOMAIN m_receivers'
      PROVE  d \in DOMAIN m_receivers /\ (m_receivers'[d].quiet => m_receivers[d].quiet) /\ UploadRests(d)
  <2>1. d \in DOMAIN m_receivers /\ d \notin late /\ d \in Clients /\ IsReceiver(m_receivers[d])
    BY <1>1 DEF Sound, ServerSound
  <2>2. /\ m_receivers'[d].quiet = m_receivers[d].quiet /\ m_receivers'[d].proxy = m_receivers[d].proxy
        /\ m_receivers'[d].size = m_receivers[d].size
    BY <1>1, <2>1 DEF IsReceiver
  <2>3. PICK r : toClient'[d] = toClient[d] \o r /\ InFrame(d, r, done, late)
    BY <1>1, <2>1
  <2>4. IsQueue(r) /\ \A i \in 1..Len(r) : r[i].type \notin {"request", "reject"}
    <3>1. FT!Abort(SV_Client).type = "abort"
      BY DEF FT!Abort
    <3> QED
      BY <2>1, <2>3, <3>1 DEF InFrame
  <2>5. Unasked(d)
    BY <2>1, <2>3, <2>4, UnaskedWhen
  <2> QED
    BY <1>0, <1>2, <2>1, <2>2, <2>5, UnsentWhen DEF UploadRests
<1>4. Uploads'
  BY <1>3, UploadsKept DEF UploadInv
<1> QED
  BY <1>2, <1>4 DEF UploadInv

(* Pieces that no abort interrupts.                                        *)
Run(q, b, e, src, f, s, l, n) ==
  (\A i \in (b + 1)..e : ~IsAbort(q[i], src)) /\ Pieces(q, b, e, src, f, s, l, n)

(* What comes after the run does not matter to it.                         *)
LEMMA RunAppended ==
  ASSUME NEW q, NEW r, IsQueue(q), IsQueue(r), NEW b \in Nat, NEW e \in b..Len(q),
         NEW src, NEW f, NEW s, NEW l \in Nat, NEW n \in Nat, Run(q, b, e, src, f, s, l, n)
  PROVE  Run(q \o r, b, e, src, f, s, l, n)
<1> DEFINE w == q \o r
<1>1. Len(q) \in Nat /\ \A i \in 1..Len(q) : w[i] = q[i]
  BY QueueConcat, QueueShape
<1> HIDE DEF w
<1>2. \A i \in (b + 1)..e : w[i] = q[i]
  BY <1>1
<1>3. e \in Nat
  BY <1>1
<1>4. Pieces(w, b, e, src, f, s, l, n)
  BY <1>2, <1>3, PiecesKept DEF Run
<1> QED
  BY <1>2, <1>4 DEF Run, w

(* A run goes on over messages of others.                                  *)
LEMMA RunExtended ==
  ASSUME NEW q, NEW r, IsQueue(q), IsQueue(r), NEW b \in 0..Len(q),
         NEW src, NEW f, NEW s, NEW l \in Nat, NEW n \in Nat, Run(q, b, Len(q), src, f, s, l, n),
         \A i \in 1..Len(r) : ~IsData(r[i], src) /\ ~IsAbort(r[i], src)
  PROVE  Run(q \o r, b, Len(q) + Len(r), src, f, s, l, n)
<1> DEFINE w == q \o r
           u == Len(q)
           v == Len(r)
<1>1. /\ u \in Nat /\ v \in Nat /\ b \in Nat /\ b <= u /\ u <= u + v
      /\ \A i \in 1..u : w[i] = q[i]
      /\ \A i \in (u + 1)..(u + v) : w[i] = r[i - u]
  BY QueueConcat, QueueShape
<1>2. Run(w, b, u, src, f, s, l, n)
  BY <1>1, RunAppended
<1>3. \A i \in 1..v : ~IsData(r[i], src) /\ ~IsAbort(r[i], src)
  OBVIOUS
<1> HIDE DEF w, u, v
<1>4. \A i \in (u + 1)..(u + v) : ~IsData(w[i], src) /\ ~IsAbort(w[i], src)
  <2> TAKE i \in (u + 1)..(u + v)
  <2>1. i - u \in 1..v
    BY <1>1
  <2>2. w[i] = r[i - u]
    BY <1>1
  <2> QED
    BY <1>3, <2>1, <2>2
<1>5. \A i \in (b + 1)..(u + v) : i \in (b + 1)..u \/ i \in (u + 1)..(u + v)
  BY <1>1
<1>6. u + v \in Nat
  BY <1>1
<1>7. Pieces(w, b, u + v, src, f, s, l, n)
  BY <1>1, <1>2, <1>4, <1>6, PiecesRest DEF Run
<1>8. Run(w, b, u + v, src, f, s, l, n)
  BY <1>2, <1>4, <1>5, <1>7 DEF Run
<1> QED
  BY <1>8 DEF w, u, v

(* One packet of src is among what is appended.                            *)
LEMMA RunFed ==
  ASSUME NEW q, NEW r, IsQueue(q), IsQueue(r), NEW b \in 0..Len(q),
         NEW src, NEW f, NEW s, NEW l \in Nat, NEW n \in Nat, l <= n,
         Run(q, b, Len(q), src, f, s, l, n),
         NEW j \in 1..Len(r), NEW e \in j..Len(r),
         \A i \in 1..Len(r) : IsData(r[i], src) => i = j,
         \A i \in 1..e : ~IsAbort(r[i], src)
  PROVE  /\ (r[j].pieces = <<>> /\ r[j].size = 0) => Run(q \o r, b, Len(q) + e, src, f, s, l, n)
         /\ IsPiece(r[j], src, f, s, n + 1) => Run(q \o r, b, Len(q) + e, src, f, s, l, n + 1)
<1> DEFINE w == q \o r
           u == Len(q)
           v == Len(r)
<1>1. /\ u \in Nat /\ v \in Nat /\ b \in Nat /\ b <= u
      /\ \A i \in 1..u : w[i] = q[i]
      /\ \A i \in (u + 1)..(u + v) : w[i] = r[i - u]
  BY QueueConcat, QueueShape
<1>2. Run(w, b, u, src, f, s, l, n)
  BY <1>1, RunAppended
<1>3. /\ j \in 1..v /\ e \in j..v
      /\ \A i \in 1..v : IsData(r[i], src) => i = j
  OBVIOUS
<1> HIDE DEF w, u, v
<1>4. \A i \in (u + 1)..(u + e) : i - u \in 1..v /\ i - u \in 1..e /\ w[i] = r[i - u]
  <2> TAKE i \in (u + 1)..(u + e)
  <2>1. i - u \in 1..v /\ i - u \in 1..e /\ i \in (u + 1)..(u + v)
    BY <1>1, <1>3
  <2> QED
    BY <1>1, <2>1
<1>5. \A i \in (b + 1)..(u + e) : i \in (b + 1)..u \/ i \in (u + 1)..(u + e)
  BY <1>1, <1>3
<1>6. \A i \in (b + 1)..(u + e) : ~IsAbort(w[i], src)
  BY <1>2, <1>4, <1>5 DEF Run
<1>7. \A i \in (u + 1)..(u + e) : i # u + j => ~IsData(w[i], src)
  <2> TAKE i \in (u + 1)..(u + e)
  <2> HAVE i # u + j
  <2>1. i - u # j
    BY <1>1, <1>3
  <2> QED
    BY <1>3, <1>4, <2>1
<1>8. u + j \in (u + 1)..(u + e) /\ w[u + j] = r[j]
  <2>1. u + j \in (u + 1)..(u + e) /\ (u + j) - u = j
    BY <1>1, <1>3
  <2> QED
    BY <1>4, <2>1
<1>9. /\ u + j \in Nat /\ u + e \in Nat /\ u < u + j /\ u + j <= u + e /\ u <= u + e
  BY <1>1, <1>3
<1>10. Pieces(w, b, u, src, f, s, l, n)
  BY <1>2 DEF Run
<1>11. ASSUME r[j].pieces = <<>>, r[j].size = 0 PROVE Run(w, b, u + e, src, f, s, l, n)
  <2>1. \A i \in (u + 1)..(u + e) : IsData(w[i], src) => w[i].pieces = <<>> /\ w[i].size = 0
    BY <1>7, <1>8, <1>11
  <2>2. Pieces(w, b, u + e, src, f, s, l, n)
    BY <1>1, <1>9, <1>10, <2>1, PiecesRest
  <2> QED
    BY <1>6, <2>2 DEF Run
<1>12. ASSUME IsPiece(r[j], src, f, s, n + 1) PROVE Run(w, b, u + e, src, f, s, l, n + 1)
  <2>1. IsPiece(w[u + j], src, f, s, n + 1)
    BY <1>8, <1>12
  <2>2. Pieces(w, b, u + e, src, f, s, l, n + 1)
    BY <1>1, <1>7, <1>9, <1>10, <2>1, PiecesNext
  <2> QED
    BY <1>6, <2>2 DEF Run
<1> QED
  BY <1>11, <1>12 DEF w, u

(* The first message is taken: it is before the run, it brings nothing of  *)
(* it, or it brings the next piece.                                        *)
LEMMA RunShifted ==
  ASSUME NEW q, IsQueue(q), q # <<>>, NEW b \in Nat \ {0}, NEW e \in b..Len(q),
         NEW src, NEW f, NEW s, NEW l \in Nat, NEW n \in Nat, Run(q, b, e, src, f, s, l, n)
  PROVE  Run(Tail(q), b - 1, e - 1, src, f, s, l, n)
<1> DEFINE w == Tail(q)
           u == Len(q)
<1>1. u \in Nat \ {0} /\ \A i \in 1..(u - 1) : w[i] = q[i + 1]
  BY QueueTail
<1>0. e \in b..u
  OBVIOUS
<1> HIDE DEF w, u
<1>2. \A i \in (b + 1)..e : i - 1 \in 1..(u - 1) /\ (i - 1) + 1 = i
  BY <1>0, <1>1
<1>3. \A i \in (b + 1)..e : w[i - 1] = q[i]
  BY <1>1, <1>2
<1>4. e \in Nat
  BY <1>0, <1>1
<1>5. Pieces(w, b - 1, e - 1, src, f, s, l, n)
  BY <1>3, <1>4, PiecesShifted DEF Run
<1>6. \A i \in (b - 1 + 1)..(e - 1) : i + 1 \in (b + 1)..e /\ (i + 1) - 1 = i
  BY <1>4
<1>7. \A i \in (b - 1 + 1)..(e - 1) : ~IsAbort(w[i], src)
  <2> TAKE i \in (b - 1 + 1)..(e - 1)
  <2>1. w[i] = q[i + 1] /\ i + 1 \in (b + 1)..e
    BY <1>3, <1>6
  <2> QED
    BY <2>1 DEF Run
<1>8. Run(w, b - 1, e - 1, src, f, s, l, n)
  BY <1>5, <1>7 DEF Run
<1> QED
  BY <1>8 DEF w

(* The first message, which carries no piece of the run, is taken.         *)
LEMMA RunSkipped ==
  ASSUME NEW q, IsQueue(q), q # <<>>, NEW e \in 1..Len(q),
         NEW src, NEW f, NEW s, NEW l \in Nat, NEW n \in Nat, Run(q, 0, e, src, f, s, l, n),
         IsData(q[1], src) => q[1].pieces = <<>>
  PROVE  Run(Tail(q), 0, e - 1, src, f, s, l, n)
<1>1. e \in Nat \ {0} /\ 1 \in Nat \ {0} /\ 1 - 1 = 0
  BY QueueShape
<1>2. \A i \in (1 + 1)..e : i \in (0 + 1)..e
  OBVIOUS
<1>3. Run(q, 1, e, src, f, s, l, n)
  BY <1>1, <1>2, PiecesSkipped DEF Run
<1>4. Run(Tail(q), 1 - 1, e - 1, src, f, s, l, n)
  BY <1>1, <1>3, RunShifted
<1> QED
  BY <1>1, <1>4

(* The first message, with the next piece of the run, is taken.            *)
LEMMA RunTaken ==
  ASSUME NEW q, IsQueue(q), q # <<>>, NEW e \in 1..Len(q),
         NEW src, NEW f, NEW s, NEW l \in Nat, NEW n \in Nat, Run(q, 0, e, src, f, s, l, n),
         l < n, IsPiece(q[1], src, f, s, l + 1)
  PROVE  Run(Tail(q), 0, e - 1, src, f, s, l + 1, n)
<1>1. e \in Nat \ {0} /\ 1 \in Nat \ {0} /\ 1 - 1 = 0 /\ l + 1 \in Nat
  BY QueueShape
<1>2. \A i \in (1 + 1)..e : i \in (0 + 1)..e
  OBVIOUS
<1>3. Run(q, 1, e, src, f, s, l + 1, n)
  BY <1>1, <1>2, PiecesTaken DEF Run
<1>4. Run(Tail(q), 1 - 1, e - 1, src, f, s, l + 1, n)
  BY <1>1, <1>3, RunShifted
<1> QED
  BY <1>1, <1>4

(* The server passes the file f of src on to a, and has sent n pieces.     *)
Fed(a, src, f, n) ==
  /\ <<a, src>> \in DOMAIN m_transfers
  /\ m_transfers[<<a, src>>].at = n /\ m_transfers[<<a, src>>].size = SizeOf(f)
  /\ src # SV_Client =>
       LET p == m_transfers[<<a, src>>].proxy IN
       /\ \E l \in 1..SizeOf(f) : n <= l /\ FileAt(p) = Part(f, l)
       /\ src \in DOMAIN m_receivers /\ m_receivers[src].proxy = p => m_receivers[src].quiet

(* After b messages a gets the pieces of f after l, until they break off.  *)
Stream(a, src, b, f, l) ==
  \E n \in l..SizeOf(f) : \E e \in b..Len(toClient[a]) :
    /\ Run(toClient[a], b, e, src, f, SizeOf(f), l, n)
    /\ \/ e = Len(toClient[a]) /\ Fed(a, src, f, n)
       \/ n = SizeOf(f)
       \/ e < Len(toClient[a]) /\ IsAbort(toClient[a][e + 1], src)

(* A file that a is about to receive, and one that he receives.            *)
Opening(a, src) ==
  \A i \in DOMAIN toClient[a] : Opens(toClient[a][i], src) =>
    /\ src \notin DOMAIN receiving[a]
    /\ \A j \in 1..(i - 1) : ~Own(toClient[a][j], src)
    /\ \E f \in Made : FileOf(f, src) /\ Stream(a, src, i, f, 0)

Getting(a, src) ==
  src \in DOMAIN receiving[a] /\ receiving[a][src].quiet =>
    \E f \in Made : FileOf(f, src) /\ \E l \in 0..(SizeOf(f) - 1) :
      /\ receiving[a][src].content = Part(f, l)
      /\ l > 0 => receiving[a][src].size = SizeOf(f)
      /\ Stream(a, src, 0, f, l)

Download(a, src) == Opening(a, src) /\ Getting(a, src)
Downloads == \A a \in Clients : \A src : Download(a, src)

(* What may be kept by a step.                                             *)
StreamsKept(a, src) ==
  \A f \in Made : FileOf(f, src) => \A b \in 0..Len(toClient[a]), l \in 0..SizeOf(f) :
    Stream(a, src, b, f, l) => Stream(a, src, b, f, l)'
FedKept(a, src) ==
  \A f \in Made : FileOf(f, src) => \A n \in Nat : Fed(a, src, f, n) => Fed(a, src, f, n)'
GetsKept(a, src) ==
  src \in DOMAIN receiving'[a] =>
    /\ src \in DOMAIN receiving[a] /\ receiving'[a][src].content = receiving[a][src].content
    /\ receiving'[a][src].size = receiving[a][src].size
    /\ receiving'[a][src].quiet = receiving[a][src].quiet

(* What is appended to a queue.                                            *)
Grows(a, r) == toClient'[a] = toClient[a] \o r /\ IsQueue(r)

(* Nothing is sent.                                                        *)
LEMMA GrowsWhen ==
  ASSUME Sound, NEW a \in Clients, toClient'[a] = toClient[a]
  PROVE  Grows(a, <<>>)
BY QueueNothing, ShortQueues DEF Grows, Sound, LinksSound

(* The messages when some have been appended.                              *)
LEMMA GrownQueue ==
  ASSUME Sound, NEW a \in Clients, NEW r, Grows(a, r)
  PROVE  /\ IsQueue(toClient[a]) /\ Len(toClient[a]) \in Nat /\ DOMAIN toClient[a] = 1..Len(toClient[a])
         /\ Len(r) \in Nat /\ DOMAIN r = 1..Len(r)
         /\ IsQueue(toClient'[a]) /\ Len(toClient'[a]) = Len(toClient[a]) + Len(r)
         /\ DOMAIN toClient'[a] = 1..(Len(toClient[a]) + Len(r))
         /\ \A i \in 1..Len(toClient[a]) : toClient'[a][i] = toClient[a][i]
         /\ \A i \in 1..Len(r) : toClient'[a][Len(toClient[a]) + i] = r[i]
         /\ \A i \in (Len(toClient[a]) + 1)..(Len(toClient[a]) + Len(r)) :
              i - Len(toClient[a]) \in 1..Len(r) /\ toClient'[a][i] = r[i - Len(toClient[a])]
<1> DEFINE q == toClient[a]
           w == q \o r
<1>0. IsQueue(q) /\ IsQueue(r) /\ toClient'[a] = w
  BY DEF Grows, Sound, LinksSound
<1> HIDE DEF q
<1>1. /\ IsQueue(w) /\ Len(w) = Len(q) + Len(r)
      /\ \A i \in 1..Len(q) : w[i] = q[i]
      /\ \A i \in 1..Len(r) : w[Len(q) + i] = r[i]
      /\ \A i \in (Len(q) + 1)..(Len(q) + Len(r)) : w[i] = r[i - Len(q)]
  BY <1>0, QueueConcat
<1> HIDE DEF w
<1>2. /\ Len(q) \in Nat /\ DOMAIN q = 1..Len(q) /\ Len(r) \in Nat /\ DOMAIN r = 1..Len(r)
      /\ DOMAIN w = 1..(Len(q) + Len(r))
  BY <1>0, <1>1, QueueShape
<1>3. \A i \in (Len(q) + 1)..(Len(q) + Len(r)) : i - Len(q) \in 1..Len(r)
  BY <1>2
<1> QED
  BY <1>0, <1>1, <1>2, <1>3 DEF q

(* What is not fed any more stays as it is.                                *)
LEMMA StreamGrows ==
  ASSUME Sound, FilesKept, NEW a \in Clients, NEW src, NEW f \in Made, FileOf(f, src),
         NEW r, Grows(a, r), NEW b \in 0..Len(toClient[a]), NEW l \in 0..SizeOf(f),
         Stream(a, src, b, f, l),
         \A n \in l..SizeOf(f) :
           Fed(a, src, f, n) /\ Run(toClient[a], b, Len(toClient[a]), src, f, SizeOf(f), l, n)
             => Stream(a, src, b, f, l)'
  PROVE  Stream(a, src, b, f, l)'
<1> DEFINE q == toClient[a]
<1>1. PICK n \in l..SizeOf(f) : \E e \in b..Len(q) :
        /\ Run(q, b, e, src, f, SizeOf(f), l, n)
        /\ \/ e = Len(q) /\ Fed(a, src, f, n)
           \/ n = SizeOf(f)
           \/ e < Len(q) /\ IsAbort(q[e + 1], src)
  BY DEF Stream
<1>2. PICK e \in b..Len(q) :
        /\ Run(q, b, e, src, f, SizeOf(f), l, n)
        /\ \/ e = Len(q) /\ Fed(a, src, f, n)
           \/ n = SizeOf(f)
           \/ e < Len(q) /\ IsAbort(q[e + 1], src)
  BY <1>1
<1>3. CASE e = Len(q) /\ Fed(a, src, f, n)
  BY <1>1, <1>2, <1>3
<1>4. CASE n = SizeOf(f) \/ (e < Len(q) /\ IsAbort(q[e + 1], src))
  <2>1. SizeOf(f)' = SizeOf(f) /\ SizeOf(f) \in Nat
    BY FileRemains, FileSizes DEF Sound, ClientsSound
  <2>2. /\ IsQueue(q) /\ Len(q) \in Nat /\ IsQueue(r) /\ toClient'[a] = q \o r
        /\ Len(r) \in Nat /\ Len(toClient'[a]) = Len(q) + Len(r)
        /\ \A i \in 1..Len(q) : toClient'[a][i] = q[i]
    BY GrownQueue DEF Grows
  <2> HIDE DEF q
  <2>0. l \in Nat /\ n \in Nat /\ b \in Nat
    BY <2>1
  <2>3. Run(toClient'[a], b, e, src, f, SizeOf(f), l, n)
    BY <1>2, <2>0, <2>2, RunAppended
  <2>4. e \in b..Len(toClient'[a]) /\ e \in Nat
    BY <2>0, <2>2
  <2>5. e < Len(q) => e < Len(toClient'[a]) /\ toClient'[a][e + 1] = q[e + 1]
    <3>1. e < Len(q) => e + 1 \in 1..Len(q) /\ e < Len(q) + Len(r)
      BY <2>2, <2>4
    <3> QED
      BY <2>2, <3>1
  <2>6. /\ n \in l..SizeOf(f)' /\ Run(toClient'[a], b, e, src, f, SizeOf(f)', l, n)
        /\ \/ n = SizeOf(f)'
           \/ e < Len(toClient'[a]) /\ IsAbort(toClient'[a][e + 1], src)
    BY <1>4, <2>1, <2>3, <2>5
  <2> QED
    BY <2>4, <2>6 DEF Stream
<1> QED
  BY <1>2, <1>3, <1>4

(* Messages are appended that do not concern src.                          *)
LEMMA StreamAside ==
  ASSUME Sound, FilesKept, NEW a \in Clients, NEW src, NEW r, Grows(a, r), FedKept(a, src),
         \A i \in 1..Len(r) : ~IsData(r[i], src) /\ ~IsAbort(r[i], src)
  PROVE  StreamsKept(a, src)
<1> SUFFICES ASSUME NEW f \in Made, FileOf(f, src), NEW b \in 0..Len(toClient[a]),
                    NEW l \in 0..SizeOf(f), Stream(a, src, b, f, l)
             PROVE  Stream(a, src, b, f, l)'
  BY DEF StreamsKept
<1>1. SizeOf(f)' = SizeOf(f) /\ SizeOf(f) \in Nat /\ l \in Nat
  BY FileRemains, FileSizes DEF Sound, ClientsSound
<1> DEFINE q == toClient[a]
<1>2. /\ IsQueue(q) /\ IsQueue(r) /\ Len(q) \in Nat /\ Len(r) \in Nat
      /\ toClient'[a] = q \o r /\ Len(toClient'[a]) = Len(q) + Len(r)
  BY GrownQueue DEF Grows
<1>3. ASSUME NEW n \in l..SizeOf(f), Fed(a, src, f, n), Run(q, b, Len(q), src, f, SizeOf(f), l, n)
      PROVE  Stream(a, src, b, f, l)'
  <2>1. n \in Nat /\ n \in l..SizeOf(f)'
    BY <1>1
  <2>2. Run(toClient'[a], b, Len(toClient'[a]), src, f, SizeOf(f)', l, n)
    <3>1. b \in 0..Len(q)
      OBVIOUS
    <3>2. Run(q \o r, b, Len(q) + Len(r), src, f, SizeOf(f), l, n)
      BY <1>1, <1>2, <1>3, <2>1, <3>1, RunExtended
    <3> QED
      BY <1>1, <1>2, <3>2
  <2>3. Fed(a, src, f, n)'
    BY <1>3, <2>1 DEF FedKept
  <2>4. Len(toClient'[a]) \in b..Len(toClient'[a])
    BY <1>2
  <2> QED
    BY <2>1, <2>2, <2>3, <2>4 DEF Stream
<1> QED
  BY <1>3, StreamGrows

(* The transfer is aborted.                                                *)
LEMMA StreamAborted ==
  ASSUME Sound, FilesKept, NEW a \in Clients, NEW src, Grows(a, <<FT!Abort(src)>>)
  PROVE  StreamsKept(a, src)
<1> SUFFICES ASSUME NEW f \in Made, FileOf(f, src), NEW b \in 0..Len(toClient[a]),
                    NEW l \in 0..SizeOf(f), Stream(a, src, b, f, l)
             PROVE  Stream(a, src, b, f, l)'
  BY DEF StreamsKept
<1>1. SizeOf(f)' = SizeOf(f) /\ SizeOf(f) \in Nat /\ l \in Nat
  BY FileRemains, FileSizes DEF Sound, ClientsSound
<1> DEFINE q == toClient[a]
           r == <<FT!Abort(src)>>
<1>2. /\ IsQueue(q) /\ IsQueue(r) /\ Len(q) \in Nat /\ Len(r) = 1 /\ r[1] = FT!Abort(src)
      /\ toClient'[a] = q \o r /\ Len(toClient'[a]) = Len(q) + Len(r)
      /\ \A i \in 1..Len(r) : toClient'[a][Len(q) + i] = r[i]
  BY GrownQueue, ShortQueues, ZenonT(60) DEF Grows
<1> HIDE DEF r
<1>3. ASSUME NEW n \in l..SizeOf(f), Run(q, b, Len(q), src, f, SizeOf(f), l, n)
      PROVE  Stream(a, src, b, f, l)'
  <2>1. n \in Nat /\ n \in l..SizeOf(f)' /\ b \in Nat
    BY <1>1
  <2>2. Run(toClient'[a], b, Len(q), src, f, SizeOf(f)', l, n)
    <3>1. Len(q) \in b..Len(q)
      BY <1>2
    <3>2. Run(q \o r, b, Len(q), src, f, SizeOf(f), l, n)
      BY <1>1, <1>2, <1>3, <2>1, <3>1, RunAppended
    <3> QED
      BY <1>1, <1>2, <3>2
  <2>3. Len(q) < Len(toClient'[a]) /\ IsAbort(toClient'[a][Len(q) + 1], src)
    <3>1. toClient'[a][Len(q) + 1] = FT!Abort(src)
      BY <1>2
    <3> QED
      BY <1>2, <3>1 DEF IsAbort, FT!Abort
  <2>4. Len(q) \in b..Len(toClient'[a])
    BY <1>2
  <2> QED
    BY <2>1, <2>2, <2>3, <2>4 DEF Stream
<1>4. Grows(a, r)
  BY DEF r
<1> QED
  BY <1>3, <1>4, StreamGrows

(* Nothing of src begins.                                                  *)
LEMMA DownloadKept ==
  ASSUME Sound, FilesKept, NEW a \in Clients, NEW src, NEW r, Grows(a, r),
         \A i \in 1..Len(r) : ~Opens(r[i], src),
         StreamsKept(a, src), GetsKept(a, src), Download(a, src)
  PROVE  Download(a, src)'
<1>1. /\ Len(toClient[a]) \in Nat /\ DOMAIN toClient[a] = 1..Len(toClient[a]) /\ Len(r) \in Nat
      /\ DOMAIN toClient'[a] = 1..(Len(toClient[a]) + Len(r))
      /\ \A i \in 1..Len(toClient[a]) : toClient'[a][i] = toClient[a][i]
      /\ \A i \in (Len(toClient[a]) + 1)..(Len(toClient[a]) + Len(r)) :
           i - Len(toClient[a]) \in 1..Len(r) /\ toClient'[a][i] = r[i - Len(toClient[a])]
  BY GrownQueue
<1>2. \A f \in Made : SizeOf(f) \in Nat \ {0}
  BY FileSizes DEF Sound, ClientsSound
<1>3. ASSUME NEW i \in DOMAIN toClient'[a], Opens(toClient'[a][i], src)
      PROVE  /\ src \notin DOMAIN receiving'[a]
             /\ \A j \in 1..(i - 1) : ~Own(toClient'[a][j], src)
             /\ \E f \in Made' : FileOf(f, src)' /\ Stream(a, src, i, f, 0)'
  <2>1. i \in 1..Len(toClient[a]) /\ Opens(toClient[a][i], src)
    <3>1. i \in 1..Len(toClient[a]) \/ i \in (Len(toClient[a]) + 1)..(Len(toClient[a]) + Len(r))
      BY <1>1
    <3> QED
      BY <1>1, <1>3, <3>1
  <2>2. /\ src \notin DOMAIN receiving[a]
        /\ \A j \in 1..(i - 1) : ~Own(toClient[a][j], src)
    BY <1>1, <2>1 DEF Download, Opening
  <2>3. PICK f \in Made : FileOf(f, src) /\ Stream(a, src, i, f, 0)
    BY <1>1, <2>1 DEF Download, Opening
  <2>4. i \in 0..Len(toClient[a]) /\ 0 \in 0..SizeOf(f)
    BY <1>1, <1>2, <2>1
  <2>5. Stream(a, src, i, f, 0)' /\ FileOf(f, src)' /\ f \in Made'
    BY <2>3, <2>4, FileRemains DEF StreamsKept
  <2>6. \A j \in 1..(i - 1) : toClient'[a][j] = toClient[a][j]
    BY <1>1, <2>1
  <2> QED
    BY <2>2, <2>5, <2>6 DEF GetsKept
<1>4. ASSUME src \in DOMAIN receiving'[a], receiving'[a][src].quiet
      PROVE  \E f \in Made' : FileOf(f, src)' /\ \E l \in 0..(SizeOf(f)' - 1) :
               /\ receiving'[a][src].content = Part(f, l)
               /\ l > 0 => receiving'[a][src].size = SizeOf(f)'
               /\ Stream(a, src, 0, f, l)'
  <2>1. /\ src \in DOMAIN receiving[a] /\ receiving[a][src].quiet
        /\ receiving'[a][src].content = receiving[a][src].content
        /\ receiving'[a][src].size = receiving[a][src].size
    BY <1>4 DEF GetsKept
  <2>2. PICK f \in Made : FileOf(f, src) /\ \E l \in 0..(SizeOf(f) - 1) :
          /\ receiving[a][src].content = Part(f, l)
          /\ l > 0 => receiving[a][src].size = SizeOf(f)
          /\ Stream(a, src, 0, f, l)
    BY <2>1 DEF Download, Getting
  <2>3. PICK l \in 0..(SizeOf(f) - 1) :
          /\ receiving[a][src].content = Part(f, l)
          /\ l > 0 => receiving[a][src].size = SizeOf(f)
          /\ Stream(a, src, 0, f, l)
    BY <2>2
  <2>4. 0 \in 0..Len(toClient[a]) /\ l \in 0..SizeOf(f)
    BY <1>1, <1>2
  <2>5. FileOf(f, src)' /\ f \in Made' /\ SizeOf(f)' = SizeOf(f)
    BY <2>2, FileRemains
  <2>6. Stream(a, src, 0, f, l)'
    BY <2>2, <2>3, <2>4 DEF StreamsKept
  <2> QED
    BY <2>1, <2>3, <2>5, <2>6
<1>5. Opening(a, src)'
  BY <1>3 DEF Opening
<1>6. Getting(a, src)'
  BY <1>4 DEF Getting
<1> QED
  BY <1>5, <1>6 DEF Download

(* A transfer that this step does not concern.                             *)
TransferRests(a, src) ==
  LET k == <<a, src>> IN
  k \in DOMAIN m_transfers =>
    /\ k \in DOMAIN m_transfers' /\ m_transfers'[k] = m_transfers[k]
    /\ src # SV_Client =>
         LET p == m_transfers[k].proxy IN
         /\ FileAt(p)' = FileAt(p)
         /\ src \in DOMAIN m_receivers' /\ m_receivers'[src].proxy = p =>
              /\ src \in DOMAIN m_receivers /\ m_receivers[src].proxy = p
              /\ m_receivers[src].quiet => m_receivers'[src].quiet

(* What feeds a transfer is not touched.                                   *)
LEMMA FedRests ==
  ASSUME FilesKept, NEW a, NEW src, TransferRests(a, src)
  PROVE  FedKept(a, src)
<1> SUFFICES ASSUME NEW f \in Made, FileOf(f, src), NEW n \in Nat, Fed(a, src, f, n)
             PROVE  Fed(a, src, f, n)'
  BY DEF FedKept
<1>1. SizeOf(f)' = SizeOf(f)
  BY FileRemains
<1>2. /\ <<a, src>> \in DOMAIN m_transfers' /\ m_transfers'[<<a, src>>] = m_transfers[<<a, src>>]
  BY DEF Fed, TransferRests
<1>3. ASSUME src # SV_Client
      PROVE  LET p == m_transfers[<<a, src>>].proxy IN
             /\ \E l \in 1..SizeOf(f)' : n <= l /\ FileAt(p)' = Part(f, l)
             /\ src \in DOMAIN m_receivers' /\ m_receivers'[src].proxy = p => m_receivers'[src].quiet
  BY <1>1, <1>3 DEF Fed, TransferRests
<1> QED
  BY <1>1, <1>2, <1>3 DEF Fed, FileAt

(* Neither do the messages that are sent concern it.                       *)
LEMMA DownloadRests ==
  ASSUME Sound, FilesKept, NEW a \in Clients, NEW src, NEW r, Grows(a, r),
         \A i \in 1..Len(r) : ~Own(r[i], src),
         TransferRests(a, src), GetsKept(a, src), Download(a, src)
  PROVE  Download(a, src)'
<1>1. FedKept(a, src)
  BY FedRests
<1>2. \A i \in 1..Len(r) : ~IsData(r[i], src) /\ ~IsAbort(r[i], src) /\ ~Opens(r[i], src)
  BY DEF Own, IsData, IsAbort, Opens
<1>3. StreamsKept(a, src)
  BY <1>1, <1>2, StreamAside
<1> QED
  BY <1>2, <1>3, DownloadKept

(* Who has no message and no receiver downloads nothing.                   *)
LEMMA DownloadNone ==
  ASSUME NEW a, NEW src, toClient'[a] = <<>>, src \notin DOMAIN receiving'[a]
  PROVE  Download(a, src)'
<1>1. DOMAIN toClient'[a] = {}
  OBVIOUS
<1> QED
  BY <1>1 DEF Download, Opening, Getting

(* One message that does not concern src.                                  *)
LEMMA OneAside ==
  ASSUME NEW x, NEW src, ~Own(x, src)
  PROVE  \A i \in 1..Len(<<x>>) : ~Own(<<x>>[i], src)
<1>1. Len(<<x>>) = 1 /\ <<x>>[1] = x
  BY ShortQueues
<1> QED
  BY <1>1

(* One message is sent to one client, if he is there.                      *)
LEMMA SentGrows ==
  ASSUME Sound, NEW c \in Clients, NEW x, FT!SendTo(c, <<x>>), NEW a \in Clients
  PROVE  Grows(a, <<>>) \/ (a = c /\ Grows(a, <<x>>))
<1>1. IsQueue(<<x>>)
  BY ShortQueues
<1>2. CASE a = c /\ c \in connected \cap playing
  BY <1>1, <1>2, SentTo DEF Grows, Sound
<1>3. CASE ~(a = c /\ c \in connected \cap playing)
  BY <1>1, <1>3, SentTo, GrowsWhen DEF Sound
<1> QED
  BY <1>2, <1>3

NothingOwn == \A i \in 1..Len(<<>>) : FALSE

(* An empty queue has no message of anybody.                               *)
LEMMA NoneOwn == NothingOwn
BY ShortQueues DEF NothingOwn

(* A request asks the client; no administrator is sent anything.           *)
LEMMA DownloadsRequest ==
  ASSUME Sound, Downloads, NEW adm \in Admins, NEW c \in Clients, FT!MakeScreenshot(adm, c)
  PROVE  Downloads'
<1>0. /\ UNCHANGED <<connected, playing, toServer, m_transfers, making, uploading, receiving, buffer, files>>
  BY DEF FT!MakeScreenshot, FT!client
<1>1. FilesKept
  BY <1>0, FilesRemain
<1> SUFFICES ASSUME NEW a \in Clients, NEW src PROVE Download(a, src)'
  BY DEF Downloads
<1>2. GetsKept(a, src) /\ Download(a, src)
  BY <1>0 DEF GetsKept, Downloads
<1>3. TransferRests(a, src)
  <2>1. CASE UNCHANGED <<m_screenshot_proxies, m_receivers>>
    BY <1>0, <2>1 DEF TransferRests, FileAt
  <2>2. CASE \E p \in 1..Proxies : ~FT!is_active(p) /\ FT!make_screenshot(p, adm, c)
    <3>1. PICK p \in 1..Proxies : ~FT!is_active(p) /\ FT!make_screenshot(p, adm, c)
      BY <2>2
    <3>2. \A k \in DOMAIN m_transfers : k[2] # SV_Client =>
            m_transfers[k].proxy # p /\ m_transfers[k].proxy \in 1..Proxies
      BY <3>1, InactiveServes DEF Sound, ServerSound, PassesOn
    <3>3. \A q \in 1..Proxies : q # p => m_screenshot_proxies'[q] = m_screenshot_proxies[q]
      BY <3>1 DEF FT!make_screenshot, Sound, ServerSound
    <3>4. \A d \in DOMAIN m_receivers' :
            \/ d \in DOMAIN m_receivers /\ m_receivers'[d] = m_receivers[d]
            \/ m_receivers'[d].proxy = p
      <4>1. CASE UNCHANGED m_receivers
        BY <4>1
      <4>2. CASE ~UNCHANGED m_receivers
        <5> DEFINE x == [proxy |-> p, size |-> FT!Junk, read |-> TRUE, quiet |-> FT!Quiet(c)]
        <5>1. m_receivers' = FT!Inserted(m_receivers, c, x)
          BY <3>1, <4>2 DEF FT!make_screenshot
        <5>2. x.proxy = p
          OBVIOUS
        <5> HIDE DEF x
        <5> QED
          BY <5>1, <5>2 DEF FT!Inserted
      <4> QED
        BY <4>1, <4>2
    <3>5. <<a, src>>[2] = src
      OBVIOUS
    <3> QED
      BY <1>0, <3>2, <3>3, <3>4, <3>5 DEF TransferRests, FileAt
  <2> QED
    BY <2>1, <2>2 DEF FT!MakeScreenshot
<1>4. CASE toClient'[a] = toClient[a]
  BY <1>1, <1>2, <1>3, <1>4, GrowsWhen, NoneOwn, DownloadRests DEF NothingOwn
<1>5. CASE FT!SendTo(c, <<[type |-> "request"]>>)
  <2> DEFINE x == [type |-> "request"]
  <2>1. ~Own(x, src)
    BY DEF Own
  <2> HIDE DEF x
  <2>2. Grows(a, <<>>) \/ Grows(a, <<x>>)
    BY <1>5, SentGrows DEF x
  <2>3. \A i \in 1..Len(<<x>>) : ~Own(<<x>>[i], src)
    BY <2>1, OneAside
  <2>4. CASE Grows(a, <<>>)
    BY <1>1, <1>2, <1>3, <2>4, NoneOwn, DownloadRests DEF NothingOwn
  <2>5. CASE Grows(a, <<x>>)
    BY <1>1, <1>2, <1>3, <2>3, <2>5, DownloadRests
  <2> QED
    BY <2>2, <2>4, <2>5
<1> QED
  BY <1>4, <1>5 DEF FT!MakeScreenshot, FT!make_screenshot

(* The logo is sent once.                                                  *)
LogoOnce ==
  \A k \in DOMAIN m_transfers : k[2] = SV_Client => k[1] \in connected \/ k[1] \notin playing

(* A client joins: the transfer of the logo begins.                        *)
LEMMA DownloadsJoin ==
  ASSUME Sound, Downloads, LogoOnce, NEW c \in Clients, FT!SendServerInfoToClient(c)
  PROVE  Downloads'
<1>0. /\ UNCHANGED <<playing, toServer, m_screenshot_proxies, m_receivers, making, uploading,
                     receiving, buffer, files>>
      /\ c \notin connected /\ c \in playing
  BY DEF FT!SendServerInfoToClient, FT!client
<1>1. FilesKept
  BY <1>0, FilesRemain
<1>2. /\ toClient[c] = <<>> /\ DOMAIN receiving[c] = {} /\ <<c, SV_Client>> \notin DOMAIN m_transfers
  BY <1>0 DEF Sound, GoneSilent, LogoOnce
<1> SUFFICES ASSUME NEW a \in Clients, NEW src PROVE Download(a, src)'
  BY DEF Downloads
<1>3. GetsKept(a, src) /\ Download(a, src)
  BY <1>0 DEF GetsKept, Downloads
<1>4. CASE UNCHANGED <<m_transfers, toClient>>
  <2>1. TransferRests(a, src)
    BY <1>0, <1>4 DEF TransferRests, FileAt
  <2> QED
    BY <1>1, <1>3, <1>4, <2>1, GrowsWhen, NoneOwn, DownloadRests DEF NothingOwn
<1>5. CASE /\ toClient' = [toClient EXCEPT ![c] = Append(@, [type |-> "logo"])]
           /\ m_transfers' = FT!Inserted(m_transfers, <<c, SV_Client>>,
                               [proxy |-> 0, at |-> 0, size |-> FT!SizeOf(FT!Info)])
  <2> DEFINE x == [type |-> "logo"]
             t == [proxy |-> 0, at |-> 0, size |-> FT!SizeOf(FT!Info)]
  <2>0. t.at = 0 /\ t.size = SizeOf(Info) /\ SizeOf(Info) = 2
    BY SameFiles DEF SizeOf
  <2>1. /\ \A j \in DOMAIN m_transfers : j \in DOMAIN m_transfers' /\ m_transfers'[j] = m_transfers[j]
        /\ <<c, SV_Client>> \in DOMAIN m_transfers' /\ m_transfers'[<<c, SV_Client>>] = t
    <3>1. m_transfers' = FT!Inserted(m_transfers, <<c, SV_Client>>, t)
      BY <1>5
    <3> HIDE DEF t
    <3> QED
      BY <1>2, <3>1 DEF FT!Inserted
  <2> HIDE DEF t
  <2>2. TransferRests(a, src)
    BY <1>0, <2>1 DEF TransferRests, FileAt
  <2>3. toClient'[c] = <<x>> /\ (a # c => toClient'[a] = toClient[a])
    <3>1. toClient'[c] = Append(<<>>, x)
      BY <1>2, <1>5 DEF Sound, LinksSound
    <3> QED
      BY <1>5, <3>1 DEF Sound, LinksSound
  <2>4. x.type = "logo"
    OBVIOUS
  <2> HIDE DEF x
  <2>5. CASE a # c
    BY <1>1, <1>3, <2>2, <2>3, <2>5, GrowsWhen, NoneOwn, DownloadRests DEF NothingOwn
  <2>6. CASE a = c /\ src # SV_Client
    <3>1. Grows(a, <<x>>)
      <4>1. <<>> \o <<x>> = <<x>>
        OBVIOUS
      <4> QED
        BY <1>2, <2>3, <2>6, <4>1, ShortQueues DEF Grows
    <3>2. ~Own(x, src)
      BY <2>4, <2>6 DEF Own
    <3> QED
      BY <1>1, <1>3, <2>2, <3>1, <3>2, OneAside, DownloadRests
  <2>7. CASE a = c /\ src = SV_Client
    <3>1. /\ Len(toClient'[a]) = 1 /\ DOMAIN toClient'[a] = {1} /\ SV_Client \notin DOMAIN receiving'[a]
      <4>1. Len(<<x>>) = 1 /\ DOMAIN <<x>> = {1}
        OBVIOUS
      <4> QED
        BY <1>0, <1>2, <2>3, <2>7, <4>1
    <3>2. Info \in Made' /\ FileOf(Info, SV_Client)' /\ SizeOf(Info)' = 2
      BY DEF Made, FileOf, SizeOf
    <3>3. Stream(a, SV_Client, 1, Info, 0)'
      <4>1. Run(toClient'[a], 1, 1, SV_Client, Info, SizeOf(Info)', 0, 0)
        <5>1. (1 + 1)..1 = {} /\ (0 + 1)..0 = {}
          OBVIOUS
        <5> QED
          BY <5>1 DEF Run, Pieces
      <4>2. Fed(a, SV_Client, Info, 0)'
        BY <2>0, <2>1, <2>7, <3>2 DEF Fed
      <4>3. 0 \in 0..SizeOf(Info)' /\ 1 \in 1..Len(toClient'[a])
        BY <3>1, <3>2
      <4> QED
        BY <3>1, <4>1, <4>2, <4>3 DEF Stream
    <3>4. Opening(a, SV_Client)'
      <4>1. 1..(1 - 1) = {}
        OBVIOUS
      <4> QED
        BY <3>1, <3>2, <3>3, <4>1 DEF Opening
    <3>5. Getting(a, SV_Client)'
      BY <3>1 DEF Getting
    <3> QED
      BY <2>7, <3>4, <3>5 DEF Download
  <2> QED
    BY <2>5, <2>6, <2>7
<1> QED
  BY <1>4, <1>5 DEF FT!SendServerInfoToClient

(* One message that is none of src is sent, or nothing.                    *)
LEMMA DownloadAside ==
  ASSUME Sound, FilesKept, NEW a \in Clients, NEW src, TransferRests(a, src), GetsKept(a, src),
         Download(a, src),
         Grows(a, <<>>) \/ \E x : Grows(a, <<x>>) /\ ~Own(x, src)
  PROVE  Download(a, src)'
<1>1. CASE Grows(a, <<>>)
  BY <1>1, NoneOwn, DownloadRests DEF NothingOwn
<1>2. CASE \E x : Grows(a, <<x>>) /\ ~Own(x, src)
  <2>1. PICK x : Grows(a, <<x>>) /\ ~Own(x, src)
    BY <1>2
  <2> QED
    BY <2>1, OneAside, DownloadRests
<1> QED
  BY <1>1, <1>2

(* A client or the server ends something.                                  *)
LEMMA DownloadsAbort ==
  ASSUME Sound, Downloads, NEW c \in Clients, FT!OnAbort(c), UNCHANGED <<receiving, files>>
  PROVE  Downloads'
<1>1. FilesKept
  BY FilesRemain
<1> SUFFICES ASSUME NEW a \in Clients, NEW src PROVE Download(a, src)'
  BY DEF Downloads
<1>2. GetsKept(a, src) /\ Download(a, src)
  BY DEF GetsKept, Downloads
<1>3. TransferRests(a, src)
  <2>1. UNCHANGED <<m_screenshot_proxies, m_transfers>>
    BY DEF FT!OnAbort
  <2>2. \A d \in DOMAIN m_receivers' : d \in DOMAIN m_receivers /\ m_receivers'[d] = m_receivers[d]
    BY DEF FT!OnAbort, FT!Without, FT!Restrict
  <2> QED
    BY <2>1, <2>2 DEF TransferRests, FileAt
<1>4. Grows(a, <<>>) \/ \E x : Grows(a, <<x>>) /\ ~Own(x, src)
  <2>1. CASE UNCHANGED toClient
    BY <2>1, GrowsWhen
  <2>2. CASE FT!SendTo(c, <<>>)
    <3>1. IsQueue(<<>>) /\ toClient[c] \o <<>> = toClient[c]
      BY ShortQueues, QueueNothing DEF Sound, LinksSound
    <3>2. toClient'[a] = toClient[a]
      BY <2>2, <3>1, SentTo DEF Sound
    <3> QED
      BY <3>2, GrowsWhen
  <2>3. CASE FT!SendTo(c, <<FT!Reject(SV_Client)>>)
    <3>1. ~Own(FT!Reject(SV_Client), src)
      BY DEF Own, FT!Reject
    <3>2. Grows(a, <<>>) \/ Grows(a, <<FT!Reject(SV_Client)>>)
      BY <2>3, SentGrows
    <3> QED
      BY <3>1, <3>2
  <2> QED
    BY <2>1, <2>2, <2>3 DEF FT!OnAbort, FT!RejectUnlessComplete
<1> QED
  BY <1>1, <1>2, <1>3, <1>4, DownloadAside

(* A transfer that is rejected is aborted.                                 *)
LEMMA DownloadsReject ==
  ASSUME Sound, Downloads, NEW c \in Clients, NEW s, FT!OnReject(c, s),
         UNCHANGED <<connected, playing, receiving, files>>
  PROVE  Downloads'
<1>1. FilesKept
  BY FilesRemain
<1> SUFFICES ASSUME NEW a \in Clients, NEW src PROVE Download(a, src)'
  BY DEF Downloads
<1>2. GetsKept(a, src) /\ Download(a, src)
  BY DEF GetsKept, Downloads
<1>3. UNCHANGED <<m_screenshot_proxies, m_receivers>>
  BY DEF FT!OnReject
<1>4. CASE <<c, s>> \notin DOMAIN m_transfers
  <2>1. UNCHANGED <<toClient, m_transfers>>
    BY <1>4 DEF FT!OnReject
  <2>2. TransferRests(a, src) /\ Grows(a, <<>>)
    BY <1>3, <2>1, GrowsWhen DEF TransferRests, FileAt
  <2> QED
    BY <1>1, <1>2, <2>2, DownloadAside
<1>5. CASE <<c, s>> \in DOMAIN m_transfers
  <2>1. FT!SendTo(c, <<FT!Abort(s)>>) /\ m_transfers' = FT!Without(m_transfers, {<<c, s>>})
    BY <1>5 DEF FT!OnReject
  <2>2. CASE a = c /\ src = s
    <3>1. CASE c \in connected \cap playing
      <4>1. Grows(a, <<FT!Abort(src)>>)
        BY <2>1, <2>2, <3>1, ShortQueues, SentTo DEF Grows, Sound
      <4>2. \A i \in 1..Len(<<FT!Abort(src)>>) : ~Opens(<<FT!Abort(src)>>[i], src)
        <5>1. ~Opens(FT!Abort(src), src)
          BY DEF Opens, FT!Abort
        <5>2. Len(<<FT!Abort(src)>>) = 1 /\ <<FT!Abort(src)>>[1] = FT!Abort(src)
          BY ShortQueues
        <5> QED
          BY <5>1, <5>2
      <4>3. StreamsKept(a, src)
        BY <1>1, <4>1, StreamAborted
      <4> QED
        BY <1>1, <1>2, <4>1, <4>2, <4>3, DownloadKept
    <3>2. CASE c \notin connected \cap playing
      <4>1. toClient'[a] = <<>> /\ src \notin DOMAIN receiving'[a]
        BY <2>1, <2>2, <3>2, ShortQueues, SentTo DEF Sound, GoneSilent
      <4> QED
        BY <4>1, DownloadNone
    <3> QED
      BY <3>1, <3>2
  <2>3. CASE ~(a = c /\ src = s)
    <3>1. <<a, src>> # <<c, s>>
      <4>1. <<a, src>>[1] = a /\ <<c, s>>[1] = c /\ <<a, src>>[2] = src /\ <<c, s>>[2] = s
        OBVIOUS
      <4> QED
        BY <2>3, <4>1
    <3>2. TransferRests(a, src)
      <4> DEFINE k == <<a, src>>
      <4>1. k \in DOMAIN m_transfers => k \in DOMAIN m_transfers' /\ m_transfers'[k] = m_transfers[k]
        BY <2>1, <3>1 DEF FT!Without, FT!Restrict
      <4> QED
        BY <1>3, <4>1 DEF TransferRests, FileAt
    <3>3. Grows(a, <<>>) \/ (a = c /\ Grows(a, <<FT!Abort(s)>>))
      BY <2>1, SentGrows
    <3>4. src # s => ~Own(FT!Abort(s), src)
      BY DEF Own, FT!Abort
    <3> QED
      BY <1>1, <1>2, <2>3, <3>2, <3>3, <3>4, DownloadAside
  <2> QED
    BY <2>2, <2>3
<1> QED
  BY <1>4, <1>5

(* What has been made is put into the buffer.                              *)
LEMMA DownloadsMade ==
  ASSUME Sound, Downloads, NEW c \in Clients, FT!SendCollectedData(c)
  PROVE  Downloads'
<1>1. FilesKept
  BY MoreFiles
<1>2. UNCHANGED <<toClient, m_screenshot_proxies, m_receivers, m_transfers, receiving>>
  BY DEF FT!SendCollectedData, FT!net, FT!server
<1> SUFFICES ASSUME NEW a \in Clients, NEW src PROVE Download(a, src)'
  BY DEF Downloads
<1>3. TransferRests(a, src) /\ GetsKept(a, src) /\ Download(a, src) /\ Grows(a, <<>>)
  BY <1>2, GrowsWhen DEF TransferRests, FileAt, GetsKept, Downloads
<1> QED
  BY <1>1, <1>3, DownloadAside

(* The frame of a client.                                                  *)
LEMMA DownloadsSend ==
  ASSUME Sound, Downloads, NEW c \in Clients, NEW late, FT!ClientSend(c, late)
  PROVE  Downloads'
<1>1. UNCHANGED <<toClient, m_screenshot_proxies, m_receivers, m_transfers, files>>
  BY DEF FT!ClientSend, FT!server
<1>2. FilesKept
  BY <1>1, FilesRemain
<1> SUFFICES ASSUME NEW a \in Clients, NEW src PROVE Download(a, src)'
  BY DEF Downloads
<1>3. GetsKept(a, src)
  <2>1. receiving' = [receiving EXCEPT ![c] =
          [x \in DOMAIN receiving[c] \ late |-> [receiving[c][x] EXCEPT !.read = FALSE]]]
    BY DEF FT!ClientSend
  <2> DEFINE g == [x \in DOMAIN receiving[c] \ late |-> [receiving[c][x] EXCEPT !.read = FALSE]]
  <2>2. \A x \in DOMAIN g : /\ x \in DOMAIN receiving[c] /\ g[x].content = receiving[c][x].content
                            /\ g[x].size = receiving[c][x].size /\ g[x].quiet = receiving[c][x].quiet
    BY DEF Sound, ClientsSound, IsReceiving
  <2>3. receiving' = [receiving EXCEPT ![c] = g]
    BY <2>1
  <2> HIDE DEF g
  <2>4. receiving'[c] = g /\ \A d \in Clients : d # c => receiving'[d] = receiving[d]
    BY <2>3 DEF Sound, ClientsSound
  <2> QED
    BY <2>2, <2>4 DEF GetsKept
<1>4. TransferRests(a, src) /\ Download(a, src) /\ Grows(a, <<>>)
  BY <1>1, GrowsWhen DEF TransferRests, FileAt, Downloads
<1> QED
  BY <1>2, <1>3, <1>4, DownloadAside

(* A client leaves: what he uploads is aborted.                            *)
LEMMA DownloadsLeave ==
  ASSUME Sound, Downloads, NEW c \in Clients, FT!Leave(c)
  PROVE  Downloads'
<1>1. /\ toClient' = [toClient EXCEPT ![c] = <<>>] /\ receiving' = [receiving EXCEPT ![c] = <<>>]
      /\ UNCHANGED <<m_screenshot_proxies, m_receivers, m_transfers, files>>
  BY DEF FT!Leave, FT!server
<1>2. FilesKept
  BY <1>1, FilesRemain
<1> SUFFICES ASSUME NEW a \in Clients, NEW src PROVE Download(a, src)'
  BY DEF Downloads
<1>3. CASE a = c
  <2>1. toClient'[a] = <<>> /\ src \notin DOMAIN receiving'[a]
    BY <1>1, <1>3 DEF Sound, LinksSound, ClientsSound
  <2> QED
    BY <2>1, DownloadNone
<1>4. CASE a # c
  <2>1. toClient'[a] = toClient[a] /\ receiving'[a] = receiving[a]
    BY <1>1, <1>4 DEF Sound, LinksSound, ClientsSound
  <2>2. TransferRests(a, src) /\ GetsKept(a, src) /\ Download(a, src) /\ Grows(a, <<>>)
    BY <1>1, <2>1, GrowsWhen DEF TransferRests, FileAt, GetsKept, Downloads
  <2> QED
    BY <1>2, <2>2, DownloadAside
<1> QED
  BY <1>3, <1>4

(* The server destroys who has left: his messages are erased.              *)
LEMMA DownloadsDestroy ==
  ASSUME Sound, Downloads, NEW c \in Clients, FT!client_Destroy(c)
  PROVE  Downloads'
<1>1. UNCHANGED <<toClient, receiving, files, m_screenshot_proxies, m_receivers, m_transfers>>
  BY DEF FT!client_Destroy, FT!server, FT!client
<1>2. FilesKept
  BY <1>1, FilesRemain
<1> SUFFICES ASSUME NEW a \in Clients, NEW src PROVE Download(a, src)'
  BY DEF Downloads
<1>3. TransferRests(a, src) /\ GetsKept(a, src) /\ Download(a, src) /\ Grows(a, <<>>)
  BY <1>1, GrowsWhen DEF TransferRests, FileAt, GetsKept, Downloads
<1> QED
  BY <1>2, <1>3, DownloadAside

(* The first message is taken from a queue.                                *)
Taken(a) == toClient[a] # <<>> /\ toClient'[a] = Tail(toClient[a])

(* The messages when the first has been taken.                             *)
LEMMA TakenQueue ==
  ASSUME Sound, NEW a \in Clients, Taken(a)
  PROVE  /\ IsQueue(toClient[a]) /\ Len(toClient[a]) \in Nat \ {0}
         /\ DOMAIN toClient[a] = 1..Len(toClient[a])
         /\ Len(toClient'[a]) = Len(toClient[a]) - 1
         /\ DOMAIN toClient'[a] = 1..(Len(toClient[a]) - 1)
         /\ \A i \in 1..(Len(toClient[a]) - 1) : toClient'[a][i] = toClient[a][i + 1]
         /\ Head(toClient[a]) = toClient[a][1]
<1>1. IsQueue(toClient[a]) /\ toClient[a] # <<>> /\ toClient'[a] = Tail(toClient[a])
  BY DEF Taken, Sound, LinksSound
<1>2. /\ IsQueue(Tail(toClient[a])) /\ Len(toClient[a]) \in Nat \ {0}
      /\ Len(Tail(toClient[a])) = Len(toClient[a]) - 1
      /\ \A i \in 1..(Len(toClient[a]) - 1) : Tail(toClient[a])[i] = toClient[a][i + 1]
      /\ Head(toClient[a]) = toClient[a][1]
  BY <1>1, QueueTail
<1>3. DOMAIN toClient[a] = 1..Len(toClient[a]) /\ DOMAIN Tail(toClient[a]) = 1..Len(Tail(toClient[a]))
  BY <1>1, <1>2, QueueShape
<1> QED
  BY <1>1, <1>2, <1>3

(* What streams to a client when he takes his first message.               *)
LEMMA StreamShifts ==
  ASSUME Sound, FilesKept, NEW a \in Clients, NEW src, NEW f \in Made, FileOf(f, src), Taken(a),
         FedKept(a, src), NEW l \in Nat, NEW n \in l..SizeOf(f),
         NEW e \in 1..Len(toClient[a]), NEW b \in 0..(e - 1),
         Run(Tail(toClient[a]), b, e - 1, src, f, SizeOf(f), l, n),
         \/ e = Len(toClient[a]) /\ Fed(a, src, f, n)
         \/ n = SizeOf(f)
         \/ e < Len(toClient[a]) /\ IsAbort(toClient[a][e + 1], src)
  PROVE  Stream(a, src, b, f, l)'
<1>1. SizeOf(f)' = SizeOf(f) /\ SizeOf(f) \in Nat
  BY FileRemains, FileSizes DEF Sound, ClientsSound
<1>2. /\ Len(toClient[a]) \in Nat \ {0} /\ Len(toClient'[a]) = Len(toClient[a]) - 1
      /\ \A i \in 1..(Len(toClient[a]) - 1) : toClient'[a][i] = toClient[a][i + 1]
      /\ toClient'[a] = Tail(toClient[a])
  BY TakenQueue DEF Taken
<1>3. e - 1 \in b..Len(toClient'[a]) /\ n \in l..SizeOf(f)' /\ n \in Nat
  BY <1>1, <1>2
<1>4. Run(toClient'[a], b, e - 1, src, f, SizeOf(f)', l, n)
  BY <1>1, <1>2
<1>5. \/ e - 1 = Len(toClient'[a]) /\ Fed(a, src, f, n)'
      \/ n = SizeOf(f)'
      \/ e - 1 < Len(toClient'[a]) /\ IsAbort(toClient'[a][e - 1 + 1], src)
  <2>1. CASE e = Len(toClient[a]) /\ Fed(a, src, f, n)
    <3>1. Fed(a, src, f, n)'
      BY <1>3, <2>1 DEF FedKept
    <3> QED
      BY <1>2, <2>1, <3>1
  <2>2. CASE n = SizeOf(f)
    BY <1>1, <2>2
  <2>3. CASE e < Len(toClient[a]) /\ IsAbort(toClient[a][e + 1], src)
    <3>1. e \in 1..(Len(toClient[a]) - 1) /\ e - 1 + 1 = e /\ e - 1 < Len(toClient'[a])
      BY <1>2, <2>3
    <3>2. toClient'[a][e] = toClient[a][e + 1]
      BY <1>2, <3>1
    <3> QED
      BY <2>3, <3>1, <3>2
  <2> QED
    BY <2>1, <2>2, <2>3
<1> QED
  BY <1>3, <1>4, <1>5 DEF Stream

(* The message is before the stream.                                       *)
LEMMA StreamNearer ==
  ASSUME Sound, FilesKept, NEW a \in Clients, NEW src, NEW f \in Made, FileOf(f, src), Taken(a),
         FedKept(a, src), NEW l \in Nat, NEW b \in 1..Len(toClient[a]), Stream(a, src, b, f, l)
  PROVE  Stream(a, src, b - 1, f, l)'
<1>0. SizeOf(f) \in Nat /\ IsQueue(toClient[a]) /\ toClient[a] # <<>> /\ b \in Nat \ {0}
      /\ Len(toClient[a]) \in Nat
  BY FileSizes, TakenQueue DEF Sound, ClientsSound, Taken
<1>1. PICK n \in l..SizeOf(f), e \in b..Len(toClient[a]) :
        /\ Run(toClient[a], b, e, src, f, SizeOf(f), l, n)
        /\ \/ e = Len(toClient[a]) /\ Fed(a, src, f, n)
           \/ n = SizeOf(f)
           \/ e < Len(toClient[a]) /\ IsAbort(toClient[a][e + 1], src)
  BY DEF Stream
<1>2. n \in Nat /\ e \in 1..Len(toClient[a]) /\ b - 1 \in 0..(e - 1)
  BY <1>0
<1>3. Run(Tail(toClient[a]), b - 1, e - 1, src, f, SizeOf(f), l, n)
  BY <1>0, <1>1, <1>2, RunShifted
<1> QED
  BY <1>1, <1>2, <1>3, StreamShifts

(* A stream that is not at its end has a message yet.                      *)
LEMMA StreamGoesOn ==
  ASSUME Sound, NEW a \in Clients, NEW src, NEW f \in Made, Taken(a),
         NEW l \in 0..(SizeOf(f) - 1), ~IsAbort(toClient[a][1], src), Stream(a, src, 0, f, l)
  PROVE  \E n \in l..SizeOf(f) : \E e \in 1..Len(toClient[a]) :
           /\ Run(toClient[a], 0, e, src, f, SizeOf(f), l, n)
           /\ \/ e = Len(toClient[a]) /\ Fed(a, src, f, n)
              \/ n = SizeOf(f)
              \/ e < Len(toClient[a]) /\ IsAbort(toClient[a][e + 1], src)
<1>0. SizeOf(f) \in Nat /\ l \in Nat /\ Len(toClient[a]) \in Nat \ {0}
  BY FileSizes, TakenQueue DEF Sound, ClientsSound
<1>1. PICK n \in l..SizeOf(f), e \in 0..Len(toClient[a]) :
        /\ Run(toClient[a], 0, e, src, f, SizeOf(f), l, n)
        /\ \/ e = Len(toClient[a]) /\ Fed(a, src, f, n)
           \/ n = SizeOf(f)
           \/ e < Len(toClient[a]) /\ IsAbort(toClient[a][e + 1], src)
  BY DEF Stream
<1>2. ASSUME e = 0 PROVE FALSE
  <2>1. n = SizeOf(f) /\ l + 1 \in (l + 1)..n
    BY <1>0, <1>1, <1>2
  <2>2. \E i \in (0 + 1)..0 : IsPiece(toClient[a][i], src, f, SizeOf(f), l + 1)
    BY <1>1, <1>2, <2>1 DEF Run, Pieces
  <2> QED
    BY <2>2
<1>3. e \in 1..Len(toClient[a])
  BY <1>0, <1>2
<1> QED
  BY <1>1, <1>3

(* The message brings nothing of the stream.                               *)
LEMMA StreamPassed ==
  ASSUME Sound, FilesKept, NEW a \in Clients, NEW src, NEW f \in Made, FileOf(f, src), Taken(a),
         FedKept(a, src), NEW l \in 0..(SizeOf(f) - 1), Stream(a, src, 0, f, l),
         ~IsAbort(toClient[a][1], src), IsData(toClient[a][1], src) => toClient[a][1].pieces = <<>>
  PROVE  Stream(a, src, 0, f, l)'
<1>0. /\ SizeOf(f) \in Nat /\ l \in Nat /\ IsQueue(toClient[a]) /\ toClient[a] # <<>>
      /\ Len(toClient[a]) \in Nat
  BY FileSizes, TakenQueue DEF Sound, ClientsSound, Taken
<1>1. PICK n \in l..SizeOf(f), e \in 1..Len(toClient[a]) :
        /\ Run(toClient[a], 0, e, src, f, SizeOf(f), l, n)
        /\ \/ e = Len(toClient[a]) /\ Fed(a, src, f, n)
           \/ n = SizeOf(f)
           \/ e < Len(toClient[a]) /\ IsAbort(toClient[a][e + 1], src)
  BY StreamGoesOn
<1>2. n \in Nat /\ 0 \in 0..(e - 1)
  BY <1>0
<1>3. Run(Tail(toClient[a]), 0, e - 1, src, f, SizeOf(f), l, n)
  BY <1>0, <1>1, <1>2, RunSkipped
<1> QED
  BY <1>0, <1>1, <1>2, <1>3, StreamShifts

(* The message brings the next piece.                                      *)
LEMMA StreamTaken ==
  ASSUME Sound, FilesKept, NEW a \in Clients, NEW src, NEW f \in Made, FileOf(f, src), Taken(a),
         FedKept(a, src), NEW l \in 0..(SizeOf(f) - 1), Stream(a, src, 0, f, l),
         IsData(toClient[a][1], src), ~(toClient[a][1].pieces = <<>> /\ toClient[a][1].size = 0)
  PROVE  Stream(a, src, 0, f, l + 1)' /\ IsPiece(toClient[a][1], src, f, SizeOf(f), l + 1)
<1>0. /\ SizeOf(f) \in Nat /\ l \in Nat /\ IsQueue(toClient[a]) /\ toClient[a] # <<>>
      /\ Len(toClient[a]) \in Nat /\ ~IsAbort(toClient[a][1], src)
  BY FileSizes, TakenQueue DEF Sound, ClientsSound, Taken, IsData, IsAbort
<1>1. PICK n \in l..SizeOf(f), e \in 1..Len(toClient[a]) :
        /\ Run(toClient[a], 0, e, src, f, SizeOf(f), l, n)
        /\ \/ e = Len(toClient[a]) /\ Fed(a, src, f, n)
           \/ n = SizeOf(f)
           \/ e < Len(toClient[a]) /\ IsAbort(toClient[a][e + 1], src)
  BY <1>0, StreamGoesOn
<1>2. n \in Nat /\ 0 \in 0..(e - 1) /\ e \in Nat \ {0} /\ l + 1 \in Nat
  BY <1>0
<1>3. l < n /\ IsPiece(toClient[a][1], src, f, SizeOf(f), l + 1)
  BY <1>0, <1>1, <1>2, NextPiece DEF Run
<1>4. Run(Tail(toClient[a]), 0, e - 1, src, f, SizeOf(f), l + 1, n)
  BY <1>0, <1>1, <1>2, <1>3, RunTaken
<1>5. n \in (l + 1)..SizeOf(f)
  BY <1>0, <1>3
<1> QED
  BY <1>1, <1>2, <1>3, <1>4, <1>5, StreamShifts
-----------------------------------------------------------------------------
(* What begins stays, unless the message is what begins.                   *)
LEMMA OpeningNearer ==
  ASSUME Sound, FilesKept, NEW a \in Clients, NEW src, Taken(a), FedKept(a, src), Opening(a, src),
         ~Own(toClient[a][1], src) => (src \in DOMAIN receiving'[a] => src \in DOMAIN receiving[a])
  PROVE  Opening(a, src)'
<1>1. /\ Len(toClient[a]) \in Nat \ {0} /\ DOMAIN toClient[a] = 1..Len(toClient[a])
      /\ DOMAIN toClient'[a] = 1..(Len(toClient[a]) - 1)
      /\ \A i \in 1..(Len(toClient[a]) - 1) : toClient'[a][i] = toClient[a][i + 1]
  BY TakenQueue
<1>2. ASSUME NEW i \in DOMAIN toClient'[a], Opens(toClient'[a][i], src)
      PROVE  /\ src \notin DOMAIN receiving'[a]
             /\ \A j \in 1..(i - 1) : ~Own(toClient'[a][j], src)
             /\ \E f \in Made' : FileOf(f, src)' /\ Stream(a, src, i, f, 0)'
  <2>1. i + 1 \in DOMAIN toClient[a] /\ Opens(toClient[a][i + 1], src) /\ i \in Nat \ {0}
    BY <1>1, <1>2
  <2>2. /\ src \notin DOMAIN receiving[a]
        /\ \A j \in 1..(i + 1 - 1) : ~Own(toClient[a][j], src)
        /\ \E f \in Made : FileOf(f, src) /\ Stream(a, src, i + 1, f, 0)
    BY <2>1 DEF Opening
  <2>3. src \notin DOMAIN receiving'[a]
    <3>1. 1 \in 1..(i + 1 - 1)
      BY <2>1
    <3> QED
      BY <2>2, <3>1
  <2>4. \A j \in 1..(i - 1) : ~Own(toClient'[a][j], src)
    <3> TAKE j \in 1..(i - 1)
    <3>1. j + 1 \in 1..(i + 1 - 1) /\ j \in 1..(Len(toClient[a]) - 1)
      BY <1>1, <2>1
    <3> QED
      BY <1>1, <2>2, <3>1
  <2>5. PICK f \in Made : FileOf(f, src) /\ Stream(a, src, i + 1, f, 0)
    BY <2>2
  <2>6. i + 1 \in 1..Len(toClient[a]) /\ 0 \in Nat /\ (i + 1) - 1 = i
    BY <1>1, <2>1
  <2>7. Stream(a, src, (i + 1) - 1, f, 0)'
    BY <2>5, <2>6, StreamNearer
  <2>8. Stream(a, src, i, f, 0)'
    BY <2>6, <2>7
  <2>9. FileOf(f, src)' /\ f \in Made'
    BY <2>5, FileRemains
  <2> QED
    BY <2>3, <2>4, <2>8, <2>9
<1> QED
  BY <1>2 DEF Opening

(* What is received goes on.                                               *)
LEMMA GettingPassed ==
  ASSUME Sound, FilesKept, NEW a \in Clients, NEW src, Taken(a), FedKept(a, src), Getting(a, src),
         GetsKept(a, src), ~IsAbort(toClient[a][1], src), ~IsData(toClient[a][1], src)
  PROVE  Getting(a, src)'
<1> SUFFICES ASSUME src \in DOMAIN receiving'[a], receiving'[a][src].quiet
             PROVE  \E f \in Made' : FileOf(f, src)' /\ \E l \in 0..(SizeOf(f)' - 1) :
                      /\ receiving'[a][src].content = Part(f, l)
                      /\ l > 0 => receiving'[a][src].size = SizeOf(f)'
                      /\ Stream(a, src, 0, f, l)'
  BY DEF Getting
<1>1. /\ src \in DOMAIN receiving[a] /\ receiving[a][src].quiet
      /\ receiving'[a][src].content = receiving[a][src].content
      /\ receiving'[a][src].size = receiving[a][src].size
  BY DEF GetsKept
<1>2. PICK f \in Made : FileOf(f, src) /\ \E l \in 0..(SizeOf(f) - 1) :
        /\ receiving[a][src].content = Part(f, l)
        /\ l > 0 => receiving[a][src].size = SizeOf(f)
        /\ Stream(a, src, 0, f, l)
  BY <1>1 DEF Getting
<1>3. PICK l \in 0..(SizeOf(f) - 1) :
        /\ receiving[a][src].content = Part(f, l)
        /\ l > 0 => receiving[a][src].size = SizeOf(f)
        /\ Stream(a, src, 0, f, l)
  BY <1>2
<1>4. Stream(a, src, 0, f, l)'
  BY <1>2, <1>3, StreamPassed
<1>5. FileOf(f, src)' /\ f \in Made' /\ SizeOf(f)' = SizeOf(f)
  BY <1>2, FileRemains
<1> QED
  BY <1>1, <1>3, <1>4, <1>5

(* A file begins to be received.                                           *)
LEMMA GettingBegins ==
  ASSUME Sound, FilesKept, NEW a \in Clients, NEW src, Taken(a), FedKept(a, src), Opening(a, src),
         receiving'[a][src].content = <<>>,
         receiving'[a][src].quiet => Opens(toClient[a][1], src)
  PROVE  Getting(a, src)'
<1> SUFFICES ASSUME src \in DOMAIN receiving'[a], receiving'[a][src].quiet
             PROVE  \E f \in Made' : FileOf(f, src)' /\ \E l \in 0..(SizeOf(f)' - 1) :
                      /\ receiving'[a][src].content = Part(f, l)
                      /\ l > 0 => receiving'[a][src].size = SizeOf(f)'
                      /\ Stream(a, src, 0, f, l)'
  BY DEF Getting
<1>1. 1 \in DOMAIN toClient[a] /\ 1 \in 1..Len(toClient[a]) /\ 0 \in Nat /\ 1 - 1 = 0
  BY TakenQueue
<1>2. PICK f \in Made : FileOf(f, src) /\ Stream(a, src, 1, f, 0)
  BY <1>1 DEF Opening
<1>3. FileOf(f, src)' /\ f \in Made' /\ SizeOf(f)' = SizeOf(f) /\ SizeOf(f) \in Nat \ {0}
  BY <1>2, FileRemains, FileSizes DEF Sound, ClientsSound
<1>4. Stream(a, src, 1 - 1, f, 0)'
  BY <1>1, <1>2, StreamNearer
<1>5. Part(f, 0) = <<>>
  BY <1>1, PartShape
<1>6. 0 \in 0..(SizeOf(f)' - 1)
  BY <1>3
<1> QED
  BY <1>1, <1>3, <1>4, <1>5, <1>6

(* A packet of a file comes to the one who gets it.                        *)
LEMMA PacketCame ==
  ASSUME Sound, FilesKept, NEW a \in Clients, NEW src, Taken(a), FedKept(a, src), Getting(a, src),
         src \in DOMAIN receiving[a], receiving[a][src].quiet, IsData(toClient[a][1], src)
  PROVE  \E f \in Made : FileOf(f, src) /\ \E l \in 0..SizeOf(f) :
           /\ FT!Written(receiving[a][src].content, toClient[a][1]) = Part(f, l)
           /\ FT!receive_packet(receiving[a][src].content, receiving[a][src].size, toClient[a][1])
                = {l = SizeOf(f)}
           /\ l # SizeOf(f) =>
                /\ l > 0 => FT!SizeRead(receiving[a][src].content, receiving[a][src].size,
                                        toClient[a][1]) = SizeOf(f)
                /\ Stream(a, src, 0, f, l)'
<1>1. PICK f \in Made : FileOf(f, src) /\ \E l \in 0..(SizeOf(f) - 1) :
        /\ receiving[a][src].content = Part(f, l)
        /\ l > 0 => receiving[a][src].size = SizeOf(f)
        /\ Stream(a, src, 0, f, l)
  BY DEF Getting
<1>2. PICK l \in 0..(SizeOf(f) - 1) :
        /\ receiving[a][src].content = Part(f, l)
        /\ l > 0 => receiving[a][src].size = SizeOf(f)
        /\ Stream(a, src, 0, f, l)
  BY <1>1
<1> DEFINE m == toClient[a][1]
           z == receiving[a][src].size
<1>3. /\ FilesSound /\ SizeOf(f) \in Nat \ {0} /\ l \in Nat /\ (l > 0 => z = SizeOf(f))
      /\ receiving[a][src].content = Part(f, l)
  BY <1>2, FileSizes DEF Sound, ClientsSound
<1>4. CASE m.pieces = <<>> /\ m.size = 0
  <2>1. ~IsAbort(m, src)
    BY DEF IsData, IsAbort
  <2>2. Stream(a, src, 0, f, l)'
    BY <1>1, <1>2, <1>4, <2>1, StreamPassed
  <2>3. l \in 0..SizeOf(f) /\ l # SizeOf(f)
    BY <1>3
  <2> HIDE DEF m, z
  <2>4. /\ FT!Written(Part(f, l), m) = Part(f, l)
        /\ l > 0 => FT!SizeRead(Part(f, l), z, m) = SizeOf(f)
        /\ FT!receive_packet(Part(f, l), z, m) = {FALSE}
    <3>1. m.pieces = <<>> /\ m.size = 0
      BY <1>4
    <3>2. FilesSound /\ (l > 0 => z = SizeOf(f))
      BY <1>3
    <3> QED
      BY <3>1, <3>2, NothingReceived, ZenonT(60)
  <2>5. {FALSE} = {l = SizeOf(f)}
    BY <2>3
  <2> QED
    BY <1>1, <1>3, <2>2, <2>3, <2>4, <2>5 DEF m, z
<1>5. CASE ~(m.pieces = <<>> /\ m.size = 0)
  <2>1. Stream(a, src, 0, f, l + 1)' /\ IsPiece(m, src, f, SizeOf(f), l + 1)
    BY <1>1, <1>2, <1>5, StreamTaken
  <2>2. l + 1 \in 0..SizeOf(f)
    BY <1>3
  <2> HIDE DEF m, z
  <2>3. /\ FT!Written(Part(f, l), m) = Part(f, l + 1)
        /\ FT!SizeRead(Part(f, l), z, m) = SizeOf(f)
        /\ FT!receive_packet(Part(f, l), z, m) = {l + 1 = SizeOf(f)}
    BY <1>3, <2>1, PieceReceived
  <2> QED
    BY <1>1, <1>3, <2>1, <2>2, <2>3 DEF m, z
<1> QED
  BY <1>4, <1>5

(* A client handles a message: a packet of a file, and all others.         *)
LEMMA DownloadsPacket ==
  ASSUME Sound, FilesKept, Downloads, NEW c \in Clients, Taken(c),
         NEW src, FedKept(c, src), IsData(toClient[c][1], src),
         FT!ClientOnData(c, toClient[c][1])
  PROVE  Getting(c, src)' /\ Received' /\ (src \in DOMAIN receiving'[c] => src \in DOMAIN receiving[c])
         /\ \A d \in Clients : \A x : d # c \/ x # src => GetsKept(d, x)
<1> DEFINE m == toClient[c][1]
           r == receiving[c][src]
           content == FT!Written(r.content, m)
           size == FT!SizeRead(r.content, r.size, m)
<1>0. m.from = src /\ Getting(c, src)
  BY DEF IsData, Downloads, Download
<1>1. CASE src \notin DOMAIN receiving[c]
  <2>1. got' = FT!Nothing /\ UNCHANGED receiving
    BY <1>0, <1>1 DEF FT!ClientOnData
  <2> QED
    BY <1>1, <2>1 DEF Getting, GetsKept, Received, FT!Nothing, Nothing
<1>2. CASE src \in DOMAIN receiving[c]
  <2>1. PICK complete \in FT!receive_packet(r.content, r.size, m) :
          IF complete
          THEN /\ ReceivesLess(c, src)
               /\ got' = IF r.quiet THEN [from |-> src, content |-> content] ELSE FT!Nothing
          ELSE /\ \E b : ReceivesOn(c, src, content, size, b)
               /\ got' = FT!Nothing
    BY <1>0, <1>2 DEF FT!ClientOnData, FT!StopReceiving, ReceivesLess, ReceivesOn
  <2>3. ASSUME NEW b, ReceivesOn(c, src, content, size, b)
        PROVE  /\ receiving'[c][src].content = content /\ receiving'[c][src].size = size
               /\ receiving'[c][src].quiet = r.quiet
               /\ \A d \in Clients : \A x : d # c \/ x # src => GetsKept(d, x)
    <3> DEFINE n == [content |-> content, size |-> size, read |-> b, quiet |-> r.quiet]
               g == [receiving[c] EXCEPT ![src] = n]
    <3>1. n.content = content /\ n.size = size /\ n.quiet = r.quiet
      OBVIOUS
    <3>2. receiving' = [receiving EXCEPT ![c] = g]
      BY <2>3 DEF ReceivesOn, Sound, ClientsSound
    <3> HIDE DEF n
    <3>3. g[src] = n /\ DOMAIN g = DOMAIN receiving[c] /\ \A x : x # src => g[x] = receiving[c][x]
      BY <1>2
    <3> HIDE DEF g
    <3>4. receiving'[c] = g /\ \A d \in Clients : d # c => receiving'[d] = receiving[d]
      BY <3>2 DEF Sound, ClientsSound
    <3> QED
      BY <3>1, <3>3, <3>4 DEF GetsKept
  <2>4. src \in DOMAIN receiving'[c] => src \in DOMAIN receiving[c]
    BY <1>2
  <2>5. \A d \in Clients : \A x : d # c \/ x # src => GetsKept(d, x)
    <3>1. CASE ReceivesLess(c, src)
      <4> DEFINE g == FT!Without(receiving[c], {src})
      <4>1. /\ DOMAIN g = DOMAIN receiving[c] \ {src} /\ \A x \in DOMAIN g : g[x] = receiving[c][x]
        BY DEF FT!Without, FT!Restrict
      <4>2. receiving' = [receiving EXCEPT ![c] = g]
        BY <3>1 DEF ReceivesLess
      <4> HIDE DEF g
      <4>3. receiving'[c] = g /\ \A d \in Clients : d # c => receiving'[d] = receiving[d]
        BY <4>2 DEF Sound, ClientsSound
      <4> QED
        BY <4>1, <4>3 DEF GetsKept
    <3>2. CASE \E b : ReceivesOn(c, src, content, size, b)
      BY <2>3, <3>2
    <3> QED
      BY <2>1, <3>1, <3>2
  <2>6. ReceivesLess(c, src) => src \notin DOMAIN receiving'[c]
    BY DEF ReceivesLess, Sound, ClientsSound, FT!Without, FT!Restrict
  <2>7. CASE ~r.quiet
    <3>1. got' = FT!Nothing
      BY <2>1, <2>7
    <3>2. src \in DOMAIN receiving'[c] => ~receiving'[c][src].quiet
      BY <2>1, <2>3, <2>6, <2>7
    <3> QED
      BY <2>4, <2>5, <3>1, <3>2 DEF Getting, Received, FT!Nothing, Nothing
  <2>8. CASE r.quiet
    <3>1. PICK f \in Made : FileOf(f, src) /\ \E l \in 0..SizeOf(f) :
            /\ content = Part(f, l)
            /\ FT!receive_packet(r.content, r.size, m) = {l = SizeOf(f)}
            /\ l # SizeOf(f) => (l > 0 => size = SizeOf(f)) /\ Stream(c, src, 0, f, l)'
      BY <1>0, <1>2, <2>8, PacketCame
    <3>2. PICK l \in 0..SizeOf(f) :
            /\ content = Part(f, l)
            /\ FT!receive_packet(r.content, r.size, m) = {l = SizeOf(f)}
            /\ l # SizeOf(f) => (l > 0 => size = SizeOf(f)) /\ Stream(c, src, 0, f, l)'
      BY <3>1
    <3>3. FileOf(f, src)' /\ f \in Made' /\ SizeOf(f)' = SizeOf(f) /\ SizeOf(f) \in Nat \ {0}
      BY <3>1, FileRemains, FileSizes DEF Sound, ClientsSound
    <3> HIDE DEF content, size
    <3>4. CASE l = SizeOf(f)
      <4>1. ReceivesLess(c, src) /\ got' = [from |-> src, content |-> content]
        BY <2>1, <2>8, <3>2, <3>4
      <4>2. content = Whole(f) /\ Whole(f)' = Whole(f)
        BY <3>2, <3>3, <3>4, FileSizes DEF Whole, Sound, ClientsSound
      <4>3. src = IF f = Info THEN SV_Client ELSE files'[f].owner
        BY <3>1, <3>3 DEF FileOf, FilesKept
      <4>4. Received'
        BY <3>3, <4>1, <4>2, <4>3 DEF Received, Info
      <4> QED
        BY <2>4, <2>5, <2>6, <4>1, <4>4 DEF Getting
    <3>5. CASE l # SizeOf(f)
      <4>1. got' = FT!Nothing /\ \E b : ReceivesOn(c, src, content, size, b)
        BY <2>1, <3>2, <3>5
      <4>2. receiving'[c][src].content = content /\ receiving'[c][src].size = size
        BY <2>3, <4>1
      <4>3. l \in 0..(SizeOf(f)' - 1)
        BY <3>3, <3>5
      <4>4. Getting(c, src)'
        BY <3>2, <3>3, <3>5, <4>2, <4>3 DEF Getting
      <4> QED
        BY <2>4, <2>5, <4>1, <4>4 DEF Received, FT!Nothing, Nothing
    <3> QED
      BY <3>4, <3>5
  <2> QED
    BY <2>7, <2>8
<1> QED
  BY <1>1, <1>2

(* What a message that is no packet does to what is received from src.     *)
MessageEffect(c, m, src) ==
  \/ GetsKept(c, src) /\ ~IsAbort(m, src)
  \/ src \notin DOMAIN receiving'[c]
  \/ /\ Own(m, src) /\ receiving'[c][src].content = <<>>
     /\ receiving'[c][src].quiet => Opens(m, src)

(* He takes a message that carries no data of this download.               *)
LEMMA DownloadPassed ==
  ASSUME Sound, FilesKept, NEW c \in Clients, NEW src, Taken(c), FedKept(c, src), Download(c, src),
         ~IsData(toClient[c][1], src), MessageEffect(c, toClient[c][1], src)
  PROVE  Download(c, src)'
<1>1. Opening(c, src)'
  <2>1. ~Own(toClient[c][1], src) => (src \in DOMAIN receiving'[c] => src \in DOMAIN receiving[c])
    BY DEF MessageEffect, GetsKept
  <2> QED
    BY <2>1, OpeningNearer DEF Download
<1>2. Getting(c, src)'
  <2>1. CASE GetsKept(c, src) /\ ~IsAbort(toClient[c][1], src)
    BY <2>1, GettingPassed DEF Download
  <2>2. CASE src \notin DOMAIN receiving'[c]
    BY <2>2 DEF Getting
  <2>3. CASE /\ receiving'[c][src].content = <<>>
             /\ receiving'[c][src].quiet => Opens(toClient[c][1], src)
    BY <2>3, GettingBegins DEF Download
  <2> QED
    BY <2>1, <2>2, <2>3 DEF MessageEffect
<1> QED
  BY <1>1, <1>2 DEF Download

(* A client begins or ends to receive from s.                              *)
LEMMA MoreReceived ==
  ASSUME Sound, NEW c \in Clients, NEW m, NEW s, NEW d, ReceivesMore(c, s, d), NEW src,
         ~IsAbort(m, src), Own(m, s), d => Opens(m, s)
  PROVE  MessageEffect(c, m, src)
<1> DEFINE v == [content |-> <<>>, size |-> FT!Junk, read |-> TRUE, quiet |-> d]
           g == FT!Inserted(receiving[c], s, v)
<1>1. receiving' = [receiving EXCEPT ![c] = g]
  BY DEF ReceivesMore
<1>2. v.content = <<>> /\ v.quiet = d
  OBVIOUS
<1> HIDE DEF v
<1>3. /\ DOMAIN g = DOMAIN receiving[c] \cup {s}
      /\ \A x \in DOMAIN g : g[x] = IF x \in DOMAIN receiving[c] THEN receiving[c][x] ELSE v
  BY DEF FT!Inserted
<1> HIDE DEF g
<1>4. receiving'[c] = g
  BY <1>1 DEF Sound, ClientsSound
<1>5. CASE src \in DOMAIN receiving[c] \/ src # s
  BY <1>3, <1>4, <1>5 DEF MessageEffect, GetsKept
<1>6. CASE src \notin DOMAIN receiving[c] /\ src = s
  <2>1. receiving'[c][src] = v
    BY <1>3, <1>4, <1>6
  <2> QED
    BY <1>2, <1>6, <2>1 DEF MessageEffect
<1> QED
  BY <1>5, <1>6

(* A receiver ends.                                                        *)
LEMMA LessReceived ==
  ASSUME Sound, NEW c \in Clients, NEW m, NEW s, ReceivesLess(c, s), NEW src,
         IsAbort(m, src) => src = s
  PROVE  MessageEffect(c, m, src)
<1> DEFINE g == FT!Without(receiving[c], {s})
<1>1. receiving' = [receiving EXCEPT ![c] = g]
  BY DEF ReceivesLess
<1>2. DOMAIN g = DOMAIN receiving[c] \ {s} /\ \A x \in DOMAIN g : g[x] = receiving[c][x]
  BY DEF FT!Without, FT!Restrict
<1> HIDE DEF g
<1>3. receiving'[c] = g
  BY <1>1 DEF Sound, ClientsSound
<1>4. CASE src = s
  BY <1>2, <1>3, <1>4 DEF MessageEffect
<1>5. CASE src # s
  <2>1. GetsKept(c, src)
    BY <1>2, <1>3, <1>5 DEF GetsKept
  <2> QED
    BY <1>5, <2>1 DEF MessageEffect
<1> QED
  BY <1>4, <1>5

(* A client gets a message.                                                *)
LEMMA DownloadsReceive ==
  ASSUME Sound, Downloads, NEW c \in Clients, FT!ClientReceive(c)
  PROVE  Downloads' /\ Received'
<1> DEFINE m == Head(toClient[c])
<1>1. /\ toClient[c] # <<>> /\ toClient' = [toClient EXCEPT ![c] = Tail(@)]
      /\ UNCHANGED <<m_screenshot_proxies, m_receivers, m_transfers, files>>
  BY ReceiveEffect
<1>2. FilesKept
  BY <1>1, FilesRemain
<1>3. Taken(c) /\ \A a \in Clients : a # c => toClient'[a] = toClient[a]
  BY <1>1 DEF Taken, Sound, LinksSound
<1>4. m = toClient[c][1]
  BY <1>3, TakenQueue
<1>5. ASSUME NEW a, NEW src PROVE TransferRests(a, src) /\ FedKept(a, src)
  <2>1. TransferRests(a, src)
    BY <1>1 DEF TransferRests, FileAt
  <2> QED
    BY <1>2, <2>1, FedRests
<1>6. \A a \in Clients : a # c => receiving'[a] = receiving[a]
  <2>1. PICK src : \/ UNCHANGED receiving
                   \/ ReceivesLess(c, src)
                   \/ \E d : ReceivesMore(c, src, d)
                   \/ /\ src \in DOMAIN receiving[c]
                      /\ \E v, z : \E b \in BOOLEAN : ReceivesOn(c, src, v, z, b)
    BY ReceiveEffect
  <2> QED
    BY <2>1, ReceivingHandled DEF Sound
<1>7. ASSUME NEW a \in Clients, a # c, NEW src PROVE Download(a, src)'
  <2>1. GetsKept(a, src) /\ Download(a, src) /\ Grows(a, <<>>)
    BY <1>3, <1>6, <1>7, GrowsWhen DEF GetsKept, Downloads
  <2> QED
    BY <1>2, <1>5, <2>1, DownloadAside
<1>8. CASE m.type = "data"
  <2>1. PICK s : s = m.from
    OBVIOUS
  <2>2. IsData(toClient[c][1], s) /\ FT!ClientOnData(c, toClient[c][1])
    BY <1>4, <1>8, <2>1 DEF FT!ClientReceive, IsData
  <2>3. /\ Getting(c, s)' /\ Received' /\ (s \in DOMAIN receiving'[c] => s \in DOMAIN receiving[c])
        /\ \A d \in Clients : \A x : d # c \/ x # s => GetsKept(d, x)
    BY <1>2, <1>3, <1>5, <2>2, DownloadsPacket
  <2>4. ASSUME NEW src PROVE Download(c, src)'
    <3>1. CASE src = s
      <4>1. Opening(c, s)'
        BY <1>2, <1>3, <1>5, <2>3, OpeningNearer DEF Downloads, Download
      <4> QED
        BY <2>3, <3>1, <4>1 DEF Download
    <3>2. CASE src # s
      <4>1. GetsKept(c, src) /\ ~IsData(toClient[c][1], src) /\ ~IsAbort(toClient[c][1], src)
        BY <2>2, <2>3, <3>2 DEF IsData, IsAbort
      <4> QED
        BY <1>2, <1>3, <1>5, <4>1, DownloadPassed DEF Downloads, MessageEffect
    <3> QED
      BY <3>1, <3>2
  <2> QED
    BY <1>7, <2>3, <2>4 DEF Downloads
<1>9. CASE m.type # "data"
  <2>1. got' = FT!Nothing
    BY <1>9 DEF FT!ClientReceive, FT!StartReceiving, FT!ClientOnAbort, FT!ClientOnReject
  <2>2. ASSUME NEW src PROVE MessageEffect(c, m, src)
    <3>1. CASE UNCHANGED receiving /\ m.type # "abort"
      BY <3>1 DEF MessageEffect, GetsKept, IsAbort
    <3>2. CASE m.type = "response" /\ FT!StartReceiving(c, m.from, m.quiet)
      <4>1. PICK s, d : s = m.from /\ d = m.quiet
        OBVIOUS
      <4>2. ReceivesMore(c, s, d)
        BY <3>2, <4>1 DEF ReceivesMore, FT!StartReceiving
      <4>3. ~IsAbort(m, src) /\ Own(m, s) /\ (d => Opens(m, s))
        BY <3>2, <4>1 DEF IsAbort, Own, Opens
      <4> QED
        BY <4>2, <4>3, MoreReceived
    <3>3. CASE m.type = "logo" /\ FT!StartReceiving(c, SV_Client, TRUE)
      <4>1. ReceivesMore(c, SV_Client, TRUE)
        BY <3>3 DEF ReceivesMore, FT!StartReceiving
      <4>2. ~IsAbort(m, src) /\ Own(m, SV_Client) /\ (TRUE => Opens(m, SV_Client))
        BY <3>3 DEF IsAbort, Own, Opens
      <4> QED
        BY <4>1, <4>2, MoreReceived
    <3>4. CASE m.type = "abort" /\ FT!ClientOnAbort(c, m.from)
      <4>1. PICK s : s = m.from
        OBVIOUS
      <4>2. IsAbort(m, src) => src = s
        BY <4>1 DEF IsAbort
      <4>3. CASE s \in DOMAIN receiving[c]
        <5>1. ReceivesLess(c, s)
          BY <3>4, <4>1, <4>3 DEF FT!ClientOnAbort, FT!StopReceiving, ReceivesLess
        <5> QED
          BY <4>2, <5>1, LessReceived
      <4>4. CASE s \notin DOMAIN receiving[c]
        <5>1. UNCHANGED receiving
          BY <3>4, <4>1, <4>4 DEF FT!ClientOnAbort
        <5> QED
          BY <4>2, <4>4, <5>1 DEF MessageEffect, GetsKept
      <4> QED
        BY <4>3, <4>4
    <3> QED
      BY <1>9, <3>1, <3>2, <3>3, <3>4 DEF FT!ClientReceive
  <2>3. ASSUME NEW src PROVE Download(c, src)'
    <3>1. ~IsData(toClient[c][1], src) /\ MessageEffect(c, toClient[c][1], src)
      BY <1>4, <1>9, <2>2 DEF IsData
    <3> QED
      BY <1>2, <1>3, <1>5, <3>1, DownloadPassed DEF Downloads
  <2> QED
    BY <1>7, <2>1, <2>3 DEF Downloads, Received, FT!Nothing, Nothing
<1> QED
  BY <1>8, <1>9

(* What does not begin or end anything of src is sent, or nothing.         *)
LEMMA DownloadGoesOn ==
  ASSUME Sound, FilesKept, NEW a \in Clients, NEW src, FedKept(a, src), GetsKept(a, src),
         Download(a, src),
         \/ Grows(a, <<>>)
         \/ \E x : Grows(a, <<x>>) /\ ~IsData(x, src) /\ ~IsAbort(x, src) /\ ~Opens(x, src)
  PROVE  Download(a, src)'
<1>1. CASE Grows(a, <<>>)
  <2>1. \A i \in 1..Len(<<>>) :
          ~IsData(<<>>[i], src) /\ ~IsAbort(<<>>[i], src) /\ ~Opens(<<>>[i], src)
    BY NoneOwn DEF NothingOwn
  <2>2. StreamsKept(a, src)
    BY <1>1, <2>1, StreamAside
  <2> QED
    BY <1>1, <2>1, <2>2, DownloadKept
<1>2. CASE \E x : Grows(a, <<x>>) /\ ~IsData(x, src) /\ ~IsAbort(x, src) /\ ~Opens(x, src)
  <2>1. PICK x : Grows(a, <<x>>) /\ ~IsData(x, src) /\ ~IsAbort(x, src) /\ ~Opens(x, src)
    BY <1>2
  <2>2. Len(<<x>>) = 1 /\ <<x>>[1] = x
    BY ShortQueues
  <2>3. \A i \in 1..Len(<<x>>) :
          ~IsData(<<x>>[i], src) /\ ~IsAbort(<<x>>[i], src) /\ ~Opens(<<x>>[i], src)
    BY <2>1, <2>2
  <2>4. StreamsKept(a, src)
    BY <2>1, <2>3, StreamAside
  <2> QED
    BY <2>1, <2>3, <2>4, DownloadKept
<1> QED
  BY <1>1, <1>2

(* What a packet changes of the server's records.                          *)
LEMMA DataEffect ==
  ASSUME Sound, NEW c \in DOMAIN m_receivers, NEW m, FT!OnData(c, m)
  PROVE  LET r == m_receivers[c]
             s == m_screenshot_proxies[r.proxy] IN
         /\ r.proxy \in 1..Proxies /\ s.cheater = c /\ s.admin \in Clients
         /\ m_screenshot_proxies'[r.proxy].file = FT!Written(s.file, m)
         /\ \A p \in 1..Proxies : p # r.proxy => m_screenshot_proxies'[p] = m_screenshot_proxies[p]
         /\ \A d \in DOMAIN m_receivers' :
              /\ d \in DOMAIN m_receivers /\ m_receivers'[d].proxy = m_receivers[d].proxy
              /\ m_receivers'[d].quiet = m_receivers[d].quiet
         /\ FT!Forwards(r.proxy, FT!SizeRead(s.file, r.size, m), r.quiet)
<1> DEFINE r == m_receivers[c]
           s == m_screenshot_proxies[r.proxy]
           content == FT!Written(s.file, m)
           size == FT!SizeRead(s.file, r.size, m)
<1>1. /\ IsReceiver(r) /\ r.proxy \in 1..Proxies /\ IsProxy(s)
      /\ s.cheater = c /\ s.admin \in Clients
  BY DEF Sound, ServerSound, IsReceiver, Serves
<1>2. m_screenshot_proxies' = [m_screenshot_proxies EXCEPT
        ![r.proxy].file = content, ![r.proxy].first = FALSE]
  BY DEF FT!OnData
<1>3. FT!Forwards(r.proxy, size, r.quiet)
  BY DEF FT!OnData
<1>4. \/ m_receivers' = FT!Without(m_receivers, {c})
      \/ \E b : m_receivers' = [m_receivers EXCEPT ![c].size = size, ![c].read = b]
  <2>1. \/ m_receivers' = FT!Without(m_receivers, {c})
        \/ m_receivers' = [m_receivers EXCEPT ![c].size = size,
                                             ![c].read = @ \/ ~FT!Ignored(s.file, m)]
    BY DEF FT!OnData
  <2>2. [m_receivers EXCEPT ![c].size = size, ![c].read = @ \/ ~FT!Ignored(s.file, m)]
          = [m_receivers EXCEPT ![c].size = size, ![c].read = r.read \/ ~FT!Ignored(s.file, m)]
    BY <1>1 DEF Sound, ServerSound, IsReceiver
  <2> HIDE DEF r, s, content, size
  <2> QED
    BY <2>1, <2>2
<1> HIDE DEF content, size
<1>5. /\ m_screenshot_proxies'[r.proxy].file = content
      /\ \A p \in 1..Proxies : p # r.proxy => m_screenshot_proxies'[p] = m_screenshot_proxies[p]
  <2> DEFINE x == [s EXCEPT !.file = content, !.first = FALSE]
  <2>1. x.file = content
    BY <1>1 DEF IsProxy
  <2>2. m_screenshot_proxies' = [m_screenshot_proxies EXCEPT ![r.proxy] = x]
    BY <1>1, <1>2 DEF Sound, ServerSound
  <2> HIDE DEF x
  <2> QED
    BY <1>1, <2>1, <2>2 DEF Sound, ServerSound
<1>6. ASSUME NEW d \in DOMAIN m_receivers'
      PROVE  /\ d \in DOMAIN m_receivers /\ m_receivers'[d].proxy = m_receivers[d].proxy
             /\ m_receivers'[d].quiet = m_receivers[d].quiet
  <2>1. CASE m_receivers' = FT!Without(m_receivers, {c})
    BY <2>1 DEF FT!Without, FT!Restrict
  <2>2. CASE \E b : m_receivers' = [m_receivers EXCEPT ![c].size = size, ![c].read = b]
    <3>1. PICK b : m_receivers' = [m_receivers EXCEPT ![c].size = size, ![c].read = b]
      BY <2>2
    <3> DEFINE x == [r EXCEPT !.size = size, !.read = b]
    <3>2. x.proxy = r.proxy /\ x.quiet = r.quiet
      BY <1>1 DEF IsReceiver
    <3>3. m_receivers' = [m_receivers EXCEPT ![c] = x]
      BY <3>1
    <3> HIDE DEF x
    <3>4. d \in DOMAIN m_receivers /\ (d # c => m_receivers'[d] = m_receivers[d])
          /\ (d = c => m_receivers'[d] = x)
      BY <3>3
    <3> QED
      BY <3>2, <3>4
  <2> QED
    BY <1>4, <2>1, <2>2
<1> QED
  BY <1>1, <1>3, <1>5, <1>6 DEF content, size

(* What has come of a file is passed on, the next piece too.               *)
LEMMA DataFed ==
  ASSUME Sound, UploadInv, FilesKept, NEW c \in DOMAIN m_receivers, toServer[c] # <<>>,
         Head(toServer[c]).type = "data", FT!OnData(c, Head(toServer[c])),
         NEW a \in Clients, NEW src
  PROVE  FedKept(a, src)
<1> DEFINE m == Head(toServer[c])
<1>1. PICK r : r = m_receivers[c]
  OBVIOUS
<1>2. PICK s : s = m_screenshot_proxies[r.proxy]
  OBVIOUS
<1>3. /\ r.proxy \in 1..Proxies /\ s.cheater = c /\ s.admin \in Clients
      /\ m_screenshot_proxies'[r.proxy].file = FT!Written(s.file, m)
      /\ \A p \in 1..Proxies : p # r.proxy => m_screenshot_proxies'[p] = m_screenshot_proxies[p]
      /\ \A d \in DOMAIN m_receivers' :
           /\ d \in DOMAIN m_receivers /\ m_receivers'[d].proxy = m_receivers[d].proxy
           /\ m_receivers'[d].quiet = m_receivers[d].quiet
      /\ FT!Forwards(r.proxy, FT!SizeRead(s.file, r.size, m), r.quiet)
  BY <1>1, <1>2, DataEffect
<1>4. \A k \in DOMAIN m_transfers : k \in DOMAIN m_transfers' /\ m_transfers'[k] = m_transfers[k]
  BY <1>3 DEF FT!Forwards, FT!Inserted
<1> SUFFICES ASSUME NEW f \in Made, FileOf(f, src), NEW n \in Nat, Fed(a, src, f, n)
             PROVE  Fed(a, src, f, n)'
  BY DEF FedKept
<1>5. SizeOf(f)' = SizeOf(f) /\ SizeOf(f) \in Nat \ {0} /\ FilesSound
  BY FileRemains, FileSizes DEF Sound, ClientsSound
<1>6. PICK t : t = m_transfers[<<a, src>>]
  OBVIOUS
<1>7. /\ <<a, src>> \in DOMAIN m_transfers' /\ m_transfers'[<<a, src>>] = t
      /\ <<a, src>> \in DOMAIN m_transfers /\ t.at = n /\ t.size = SizeOf(f)
  BY <1>4, <1>6 DEF Fed
<1>8. ASSUME src # SV_Client
      PROVE  /\ \E l \in 1..SizeOf(f) : n <= l /\ m_screenshot_proxies'[t.proxy].file = Part(f, l)
             /\ src \in DOMAIN m_receivers' /\ m_receivers'[src].proxy = t.proxy => m_receivers'[src].quiet
  <2>1. PICK l \in 1..SizeOf(f) : n <= l /\ m_screenshot_proxies[t.proxy].file = Part(f, l)
    BY <1>6, <1>8 DEF Fed, FileAt
  <2>2. src \in DOMAIN m_receivers' /\ m_receivers'[src].proxy = t.proxy => m_receivers'[src].quiet
    BY <1>3, <1>6, <1>8 DEF Fed
  <2>3. t.proxy \in 1..Proxies
    <3>1. <<a, src>>[2] = src
      OBVIOUS
    <3> QED
      BY <1>6, <1>7, <1>8, <3>1 DEF Sound, ServerSound, PassesOn
  <2>4. CASE t.proxy # r.proxy
    BY <1>3, <2>1, <2>2, <2>3, <2>4
  <2>5. CASE t.proxy = r.proxy
    <3>1. src = c
      <4>1. <<a, src>>[2] = src
        OBVIOUS
      <4> QED
        BY <1>2, <1>3, <1>6, <1>7, <1>8, <2>5, <4>1 DEF Sound, ServerSound, PassesOn
    <3>2. m_receivers[c].quiet
      BY <1>1, <1>6, <1>8, <2>5, <3>1 DEF Fed
    <3>3. PICK g \in Made : \E h \in 0..(SizeOf(g) - 1) : \E u \in h..SizeOf(g) :
            Under(c, g, h, u) /\ h < u /\ IsPiece(m, c, g, SizeOf(g), h + 1)
      BY <3>2, PieceCame
    <3>4. PICK h \in 0..(SizeOf(g) - 1) : \E u \in h..SizeOf(g) :
            Under(c, g, h, u) /\ h < u /\ IsPiece(m, c, g, SizeOf(g), h + 1)
      BY <3>3
    <3>5. s.file = Part(g, h) /\ (h > 0 => r.size = SizeOf(g)) /\ IsPiece(m, c, g, SizeOf(g), h + 1)
      BY <1>1, <1>2, <3>4 DEF Under, FileAt
    <3>6. s.file = Part(f, l) /\ l \in Nat /\ h \in Nat /\ l # 0
      BY <1>2, <1>5, <2>1, <2>5
    <3>7. f = g /\ l = h
      <4>1. Part(f, l) = Part(g, h)
        BY <3>5, <3>6
      <4>2. l \in Nat /\ h \in Nat /\ l # 0
        BY <3>6
      <4> QED
        BY <4>1, <4>2, PartsDiffer
    <3> HIDE DEF m
    <3>8. FT!Written(s.file, m) = Part(f, l + 1)
      BY <1>5, <3>4, <3>5, <3>7, PieceReceived
    <3>9. l + 1 \in 1..SizeOf(f) /\ n <= l + 1
      BY <1>5, <2>1, <3>4, <3>7
    <3>10. m_screenshot_proxies'[t.proxy].file = Part(f, l + 1)
      BY <1>3, <2>5, <3>8 DEF m
    <3> QED
      BY <2>2, <3>9, <3>10
  <2> QED
    BY <2>4, <2>5
<1> QED
  BY <1>5, <1>7, <1>8 DEF Fed, FileAt

(* A response that begins: nothing of the client's is before it, and his   *)
(* file is passed on from its beginning.                                   *)
LEMMA DownloadBegins ==
  ASSUME Sound, NEW a \in Clients, NEW c \in Clients, NEW x, Grows(a, <<x>>),
         x.type = "response", UNCHANGED receiving, c \notin DOMAIN receiving[a],
         \A i \in DOMAIN toClient[a] :
           toClient[a][i].type \in {"data", "abort", "response"} => toClient[a][i].from # c,
         NEW f, FileOf(f, c)', SizeOf(f)' \in Nat, Fed(a, c, f, 0)'
  PROVE  Download(a, c)'
<1>0. c # SV_Client
  BY FileTransferAssumption
<1>1. /\ Len(toClient[a]) \in Nat /\ DOMAIN toClient[a] = 1..Len(toClient[a]) /\ Len(<<x>>) = 1
      /\ Len(toClient'[a]) = Len(toClient[a]) + Len(<<x>>)
      /\ DOMAIN toClient'[a] = 1..(Len(toClient[a]) + Len(<<x>>))
      /\ \A i \in 1..Len(toClient[a]) : toClient'[a][i] = toClient[a][i]
  BY GrownQueue, ShortQueues
<1>7. PICK u : u = Len(toClient[a])
  OBVIOUS
<1>2. /\ u \in Nat /\ Len(toClient'[a]) = u + 1 /\ DOMAIN toClient'[a] = 1..(u + 1)
      /\ \A i \in 1..u : ~Own(toClient'[a][i], c)
  BY <1>0, <1>1, <1>7 DEF Own
<1>3. Stream(a, c, u + 1, f, 0)'
  <2>1. (u + 1 + 1)..(u + 1) = {} /\ (0 + 1)..0 = {}
    BY <1>2
  <2>2. Run(toClient'[a], u + 1, u + 1, c, f, SizeOf(f)', 0, 0)
    BY <2>1 DEF Run, Pieces
  <2>3. 0 \in 0..SizeOf(f)' /\ u + 1 \in (u + 1)..Len(toClient'[a])
    BY <1>2
  <2> QED
    BY <1>2, <2>2, <2>3 DEF Stream
<1>4. ASSUME NEW i \in DOMAIN toClient'[a], Opens(toClient'[a][i], c)
      PROVE  /\ c \notin DOMAIN receiving'[a]
             /\ \A j \in 1..(i - 1) : ~Own(toClient'[a][j], c)
             /\ \E g \in Made' : FileOf(g, c)' /\ Stream(a, c, i, g, 0)'
  <2>1. Own(toClient'[a][i], c)
    BY <1>4 DEF Opens, Own
  <2>2. i = u + 1 /\ i - 1 = u
    BY <1>2, <2>1
  <2>3. f \in Made'
    BY DEF FileOf
  <2> QED
    BY <1>2, <1>3, <2>2, <2>3
<1>5. Opening(a, c)'
  BY <1>4 DEF Opening
<1>6. Getting(a, c)'
  BY DEF Getting
<1> QED
  BY <1>5, <1>6 DEF Download

(* A packet of a file comes to the server.                                 *)
LEMMA DownloadsData ==
  ASSUME Sound, UploadInv, Downloads, NEW c \in Clients, FT!ServerReceive(c),
         Head(toServer[c]).type = "data", FT!OnData(c, Head(toServer[c]))
  PROVE  Downloads'
<1> DEFINE m == Head(toServer[c])
<1>1. toServer[c] # <<>> /\ UNCHANGED <<connected, playing, receiving, files>>
  BY MessageTaken
<1>2. FilesKept
  BY <1>1, FilesRemain
<1> SUFFICES ASSUME NEW a \in Clients, NEW src PROVE Download(a, src)'
  BY DEF Downloads
<1>3. GetsKept(a, src) /\ Download(a, src)
  BY <1>1 DEF GetsKept, Downloads
<1>4. CASE c \notin DOMAIN m_receivers
  <2>1. /\ FT!SendTo(c, <<FT!Reject(SV_Client)>>)
        /\ UNCHANGED <<m_screenshot_proxies, m_receivers, m_transfers>>
    BY <1>4 DEF FT!OnData
  <2>2. TransferRests(a, src) /\ ~Own(FT!Reject(SV_Client), src)
    BY <2>1 DEF TransferRests, FileAt, Own, FT!Reject
  <2>3. Grows(a, <<>>) \/ Grows(a, <<FT!Reject(SV_Client)>>)
    BY <2>1, SentGrows
  <2> QED
    BY <1>2, <1>3, <2>2, <2>3, DownloadAside
<1>5. CASE c \in DOMAIN m_receivers
  <2>1. PICK r : r = m_receivers[c]
    OBVIOUS
  <2>2. PICK s : s = m_screenshot_proxies[r.proxy]
    OBVIOUS
  <2>3. /\ r.proxy \in 1..Proxies /\ s.cheater = c /\ s.admin \in Clients
        /\ m_screenshot_proxies'[r.proxy].file = FT!Written(s.file, m)
        /\ \A d \in DOMAIN m_receivers' :
             /\ d \in DOMAIN m_receivers /\ m_receivers'[d].proxy = m_receivers[d].proxy
             /\ m_receivers'[d].quiet = m_receivers[d].quiet
        /\ FT!Forwards(r.proxy, FT!SizeRead(s.file, r.size, m), r.quiet)
    BY <1>5, <2>1, <2>2, DataEffect
  <2>4. FedKept(a, src)
    BY <1>1, <1>2, <1>5, DataFed
  <2> HIDE DEF m
  <2>5. CASE UNCHANGED toClient
    BY <1>2, <1>3, <2>4, <2>5, GrowsWhen, DownloadGoesOn
  <2>6. CASE ~UNCHANGED toClient
    <3> DEFINE key == <<s.admin, c>>
               t == [proxy |-> r.proxy, at |-> 0, size |-> FT!SizeRead(s.file, r.size, m)]
    <3>1. PICK d :
            /\ d <=> /\ r.quiet /\ key \notin DOMAIN m_transfers /\ c \notin DOMAIN receiving[s.admin]
                     /\ \A i \in DOMAIN toClient[s.admin] :
                          toClient[s.admin][i].type \in {"data", "abort", "response"} =>
                            toClient[s.admin][i].from # c
            /\ m_transfers' = FT!Inserted(m_transfers, key, t)
            /\ FT!SendTo(s.admin, <<[type |-> "response", from |-> c, quiet |-> d]>>)
            /\ s.first
      BY <2>2, <2>3, <2>6 DEF FT!Forwards
    <3>2. PICK x : x = [type |-> "response", from |-> c, quiet |-> d]
      OBVIOUS
    <3>3. x.type = "response" /\ x.from = c /\ x.quiet = d /\ FT!SendTo(s.admin, <<x>>)
      BY <3>1, <3>2
    <3>4. Grows(a, <<>>) \/ (a = s.admin /\ Grows(a, <<x>>))
      BY <2>3, <3>3, SentGrows
    <3>5. CASE Grows(a, <<>>)
      BY <1>2, <1>3, <2>4, <3>5, DownloadGoesOn
    <3>6. CASE a = s.admin /\ Grows(a, <<x>>)
      <4>1. CASE ~(d /\ src = c)
        <5>1. ~IsData(x, src) /\ ~IsAbort(x, src) /\ ~Opens(x, src)
          BY <3>3, <4>1 DEF IsData, IsAbort, Opens
        <5> QED
          BY <1>2, <1>3, <2>4, <3>6, <5>1, DownloadGoesOn
      <4>2. CASE d /\ src = c
        <5>1. r.quiet /\ key \notin DOMAIN m_transfers
          BY <3>1, <4>2
        <5>2. PICK f \in Made : \E l \in 0..(SizeOf(f) - 1) : \E n \in l..SizeOf(f) :
                Under(c, f, l, n) /\ l < n /\ IsPiece(m, c, f, SizeOf(f), l + 1)
          BY <1>1, <1>5, <2>1, <5>1, PieceCame DEF m
        <5>3. PICK l \in 0..(SizeOf(f) - 1) : \E n \in l..SizeOf(f) :
                Under(c, f, l, n) /\ l < n /\ IsPiece(m, c, f, SizeOf(f), l + 1)
          BY <5>2
        <5>4. /\ s.file = Part(f, l) /\ (l > 0 => r.size = SizeOf(f)) /\ FileOf(f, c)
              /\ IsPiece(m, c, f, SizeOf(f), l + 1)
          BY <2>1, <2>2, <5>3 DEF Under, FileAt
        <5>5. /\ FileOf(f, c)' /\ SizeOf(f)' = SizeOf(f) /\ SizeOf(f) \in Nat \ {0} /\ l \in Nat
              /\ FilesSound
          BY <1>2, <5>4, FileRemains, FileSizes DEF Sound, ClientsSound
        <5>6. l = 0
          <6>1. Upload(c)
            BY <1>5, <2>1, <5>1 DEF UploadInv, Uploads
          <6>2. s.file = <<>>
            BY <2>1, <2>2, <3>1, <6>1 DEF Upload, FileAt
          <6> QED
            BY <5>4, <5>5, <6>2, PartShape
        <5>7. /\ FT!Written(s.file, m) = Part(f, 1) /\ FT!SizeRead(s.file, r.size, m) = SizeOf(f)
          <6>1. 0 \in 0..(SizeOf(f) - 1) /\ 0 + 1 = 1
            BY <5>5
          <6>2. IsPiece(m, c, f, SizeOf(f), 0 + 1) /\ s.file = Part(f, 0)
            BY <5>4, <5>6
          <6> QED
            BY <5>5, <6>1, <6>2, PieceReceived
        <5>8. /\ t.proxy = r.proxy /\ t.at = 0 /\ t.size = SizeOf(f)
          BY <5>7
        <5> HIDE DEF t
        <5>9. key \in DOMAIN m_transfers' /\ m_transfers'[key] = t
          BY <3>1, <5>1 DEF FT!Inserted
        <5>10. Fed(a, c, f, 0)'
          <6>1. 1 \in 1..SizeOf(f) /\ 0 <= 1
            BY <5>5
          <6>2. c \in DOMAIN m_receivers' => m_receivers'[c].quiet
            BY <2>1, <2>3, <5>1
          <6> QED
            BY <2>3, <3>6, <5>5, <5>7, <5>8, <5>9, <6>1, <6>2 DEF Fed, FileAt
        <5>11. Download(a, c)'
          <6>1. /\ c \notin DOMAIN receiving[a]
                /\ \A i \in DOMAIN toClient[a] :
                     toClient[a][i].type \in {"data", "abort", "response"} => toClient[a][i].from # c
            BY <3>1, <3>6, <4>2
          <6> QED
            BY <1>1, <3>3, <3>6, <5>5, <5>10, <6>1, DownloadBegins
        <5> QED
          BY <4>2, <5>11
      <4> QED
        BY <4>1, <4>2
    <3> QED
      BY <3>4, <3>5, <3>6
  <2> QED
    BY <2>5, <2>6
<1> QED
  BY <1>4, <1>5

(* The packet of a transfer: the next piece, or nothing when it has not    *)
(* come yet, which is never before the first.                              *)
NextPacket(k, src, f, n, u) ==
  /\ FT!At(k) = u
  /\ FT!Complete(SubSeq(FT!Source(k), 1, FT!At(k)), m_transfers[k].size) = {u = SizeOf(f)}
  /\ \/ u = n /\ FT!Packet(k).pieces = <<>> /\ FT!Packet(k).size = 0
     \/ u = n + 1 /\ IsPiece(FT!Packet(k), src, f, SizeOf(f), n + 1)
  /\ src # SV_Client =>
       \E l \in 1..SizeOf(f) : u <= l /\ FileAt(m_transfers[k].proxy) = Part(f, l)

(* It has the next piece of the file, if that has come.                    *)
LEMMA PacketSent ==
  ASSUME Sound, NEW a, NEW src, NEW f \in Made, FileOf(f, src), NEW n \in 0..SizeOf(f),
         Fed(a, src, f, n)
  PROVE  \E u \in n..SizeOf(f) : NextPacket(<<a, src>>, src, f, n, u)
<1> PICK k : k = <<a, src>>
  OBVIOUS
<1>0. /\ FilesSound /\ SizeOf(f) \in Nat \ {0} /\ n \in Nat /\ k[2] = src
      /\ m_transfers[k].at = n /\ m_transfers[k].size = SizeOf(f)
  BY FileSizes DEF Sound, ClientsSound, Fed
<1>1. PICK h \in 1..SizeOf(f) :
        /\ n <= h /\ FT!Source(k) = Part(f, h)
        /\ src # SV_Client => FileAt(m_transfers[k].proxy) = Part(f, h)
  <2>1. CASE src = SV_Client
    <3>1. FT!Source(k) = Part(f, SizeOf(f))
      BY <1>0, <2>1, SameFiles, FileSizes DEF FT!Source, FileOf
    <3> QED
      BY <1>0, <2>1, <3>1
  <2>2. CASE src # SV_Client
    <3>1. \E h \in 1..SizeOf(f) : n <= h /\ FileAt(m_transfers[k].proxy) = Part(f, h)
      BY <2>2 DEF Fed
    <3>2. FT!Source(k) = FileAt(m_transfers[k].proxy)
      BY <1>0, <2>2 DEF FT!Source, FileAt
    <3> QED
      BY <3>1, <3>2
  <2> QED
    BY <2>1, <2>2
<1>2. DOMAIN Part(f, h) = 1..h /\ \A i \in 1..h : Part(f, h)[i] = <<f, i>>
  BY DEF Part
<1>3. CASE n + 1 <= h
  <2>1. FT!Sent(k) = <<<<f, n + 1>>>>
    <3>1. n + 1 \in 1..h
      BY <1>0, <1>3
    <3> QED
      BY <1>0, <1>1, <1>2, <3>1 DEF FT!Sent
  <2>2. FT!At(k) = n + 1
    <3>1. Len(<<<<f, n + 1>>>>) = 1
      OBVIOUS
    <3> QED
      BY <1>0, <2>1, <3>1 DEF FT!At
  <2>3. IsPiece(FT!Packet(k), src, f, SizeOf(f), n + 1)
    <3>1. n + 1 = 1 <=> n = 0
      BY <1>0
    <3> QED
      BY <1>0, <2>1, <3>1 DEF IsPiece, IsData, FT!Packet, FT!Data
  <2>4. n + 1 \in n..SizeOf(f) /\ n + 1 \in 0..h /\ n + 1 \in 0..SizeOf(f) /\ h \in Nat
    BY <1>0, <1>3
  <2>5. SubSeq(FT!Source(k), 1, FT!At(k)) = Part(f, n + 1)
    BY <1>1, <2>2, <2>4, PartOfPart
  <2>6. FT!Complete(Part(f, n + 1), SizeOf(f)) = {n + 1 = SizeOf(f)}
    BY <1>0, <2>4, PartComplete
  <2> QED
    BY <1>0, <1>1, <1>3, <2>2, <2>3, <2>4, <2>5, <2>6 DEF NextPacket
<1>4. CASE ~(n + 1 <= h)
  <2>0. n = h /\ n # 0 /\ n + 1 \notin 1..h
    BY <1>0, <1>1, <1>4
  <2>1. FT!Sent(k) = <<>>
    BY <1>0, <1>1, <1>2, <2>0 DEF FT!Sent
  <2>2. FT!At(k) = n
    <3>1. Len(<<>>) = 0
      OBVIOUS
    <3> QED
      BY <1>0, <2>1, <3>1 DEF FT!At
  <2>3. FT!Packet(k).pieces = <<>> /\ FT!Packet(k).size = 0
    BY <1>0, <2>0, <2>1 DEF FT!Packet, FT!Data
  <2>4. n \in n..SizeOf(f) /\ n \in 0..h /\ n \in 0..SizeOf(f) /\ h \in Nat
    BY <1>0, <1>1
  <2>5. SubSeq(FT!Source(k), 1, FT!At(k)) = Part(f, n)
    BY <1>1, <2>2, <2>4, PartOfPart
  <2>6. FT!Complete(Part(f, n), SizeOf(f)) = {n = SizeOf(f)}
    BY <1>0, <2>4, PartComplete
  <2> QED
    BY <1>0, <1>1, <2>2, <2>3, <2>4, <2>5, <2>6 DEF NextPacket
<1> QED
  BY <1>3, <1>4

(* What a frame changes of the server's records.                           *)
Framed(done, late) ==
  /\ m_transfers' =
       [k \in {j \in DOMAIN m_transfers : j[1] \in connected} \ done |->
          [m_transfers[k] EXCEPT !.at = IF k \in Sending THEN FT!At(k) ELSE @]]
  /\ m_receivers' =
       [c \in DOMAIN m_receivers \ late |-> [m_receivers[c] EXCEPT !.read = FALSE]]

(* The records after a frame.                                              *)
LEMMA FramedRecords ==
  ASSUME Sound, NEW done, NEW late, Framed(done, late)
  PROVE  /\ \A c \in DOMAIN m_receivers' :
              /\ c \in DOMAIN m_receivers /\ m_receivers'[c].proxy = m_receivers[c].proxy
              /\ m_receivers'[c].quiet = m_receivers[c].quiet
         /\ \A k \in DOMAIN m_transfers' : k \in DOMAIN m_transfers /\ k[1] \in connected
         /\ \A k \in DOMAIN m_transfers : k[1] \in connected /\ k \notin done =>
              /\ k \in DOMAIN m_transfers' /\ m_transfers'[k].proxy = m_transfers[k].proxy
              /\ m_transfers'[k].size = m_transfers[k].size
              /\ m_transfers'[k].at = IF k \in Sending THEN FT!At(k) ELSE m_transfers[k].at
<1>1. ASSUME NEW c \in DOMAIN m_receivers'
      PROVE  /\ c \in DOMAIN m_receivers /\ m_receivers'[c].proxy = m_receivers[c].proxy
             /\ m_receivers'[c].quiet = m_receivers[c].quiet
  <2>1. c \in DOMAIN m_receivers /\ m_receivers'[c] = [m_receivers[c] EXCEPT !.read = FALSE]
    BY DEF Framed
  <2>2. IsReceiver(m_receivers[c])
    BY <2>1 DEF Sound, ServerSound
  <2> QED
    BY <2>1, <2>2 DEF IsReceiver
<1>2. ASSUME NEW k \in DOMAIN m_transfers, k[1] \in connected, k \notin done
      PROVE  /\ k \in DOMAIN m_transfers' /\ m_transfers'[k].proxy = m_transfers[k].proxy
             /\ m_transfers'[k].size = m_transfers[k].size
             /\ m_transfers'[k].at = IF k \in Sending THEN FT!At(k) ELSE m_transfers[k].at
  <2> DEFINE v == IF k \in Sending THEN FT!At(k) ELSE m_transfers[k].at
  <2>1. k \in DOMAIN m_transfers' /\ m_transfers'[k] = [m_transfers[k] EXCEPT !.at = v]
    BY <1>2 DEF Framed
  <2>2. IsTransfer(m_transfers[k])
    BY DEF Sound, ServerSound
  <2> HIDE DEF v
  <2>3. /\ m_transfers'[k].proxy = m_transfers[k].proxy
        /\ m_transfers'[k].size = m_transfers[k].size /\ m_transfers'[k].at = v
    BY <2>1, <2>2 DEF IsTransfer
  <2> QED
    BY <2>1, <2>3 DEF v
<1>3. \A k \in DOMAIN m_transfers' : k \in DOMAIN m_transfers /\ k[1] \in connected
  BY DEF Framed
<1> QED
  BY <1>1, <1>2, <1>3

(* A transfer that sends in a frame feeds the stream with its packet.      *)
LEMMA StreamFed ==
  ASSUME Sound, FilesKept, NEW a \in Clients, a \in connected \cap playing, NEW src,
         NEW k, k = <<a, src>>, k \in Sending, NEW done \in FT!Ends(Sending), NEW late,
         Framed(done, late), UNCHANGED m_screenshot_proxies,
         NEW r, Grows(a, r), InFrame(a, r, done, late)
  PROVE  StreamsKept(a, src)
<1>0. k[1] = a /\ k[2] = src /\ k \in DOMAIN m_transfers
  BY DEF Sending
<1>1. PICK j \in 1..Len(r) :
        /\ r[j] = FT!Packet(k)
        /\ \A i \in 1..Len(r) : IsData(r[i], src) => i = j
        /\ \A i \in 1..Len(r) : r[i].type = "abort" => j < i
  BY <1>0 DEF InFrame
<1> SUFFICES ASSUME NEW f \in Made, FileOf(f, src), NEW b \in 0..Len(toClient[a]),
                    NEW l \in 0..SizeOf(f), Stream(a, src, b, f, l)
             PROVE  Stream(a, src, b, f, l)'
  BY DEF StreamsKept
<1>2. SizeOf(f)' = SizeOf(f) /\ SizeOf(f) \in Nat /\ l \in Nat
  BY FileRemains, FileSizes DEF Sound, ClientsSound
<1>3. PICK q : q = toClient[a]
  OBVIOUS
<1>4. /\ IsQueue(q) /\ IsQueue(r) /\ Len(q) \in Nat /\ Len(r) \in Nat
      /\ toClient'[a] = q \o r /\ Len(toClient'[a]) = Len(q) + Len(r)
      /\ \A i \in 1..Len(r) : toClient'[a][Len(q) + i] = r[i]
  BY <1>3, GrownQueue DEF Grows
<1>5. ASSUME NEW n \in l..SizeOf(f), Fed(a, src, f, n),
             Run(toClient[a], b, Len(toClient[a]), src, f, SizeOf(f), l, n)
      PROVE  Stream(a, src, b, f, l)'
  <2>0. n \in 0..SizeOf(f) /\ n \in Nat /\ l <= n
    BY <1>2
  <2>7. PICK u \in n..SizeOf(f) : NextPacket(k, src, f, n, u)
    BY <1>5, <2>0, PacketSent
  <2>1. /\ FT!At(k) = u
        /\ FT!Complete(SubSeq(FT!Source(k), 1, FT!At(k)), m_transfers[k].size) = {u = SizeOf(f)}
        /\ \/ u = n /\ FT!Packet(k).pieces = <<>> /\ FT!Packet(k).size = 0
           \/ u = n + 1 /\ IsPiece(FT!Packet(k), src, f, SizeOf(f), n + 1)
        /\ src # SV_Client =>
             \E h \in 1..SizeOf(f) : u <= h /\ FileAt(m_transfers[k].proxy) = Part(f, h)
    BY <2>7 DEF NextPacket
  <2>2. k \in done <=> u = SizeOf(f)
    BY <2>1 DEF FT!Ends
  <2>3. u \in l..SizeOf(f) /\ u \in Nat
    BY <1>2, <2>0
  <2>4. ASSUME NEW e \in j..Len(r), \A i \in 1..e : ~IsAbort(r[i], src)
        PROVE  Run(q \o r, b, Len(q) + e, src, f, SizeOf(f), l, u)
    <3>1. b \in 0..Len(q) /\ Run(q, b, Len(q), src, f, SizeOf(f), l, n)
      BY <1>3, <1>5
    <3>2. \A i \in 1..Len(r) : IsData(r[i], src) => i = j
      BY <1>1
    <3>3. /\ (r[j].pieces = <<>> /\ r[j].size = 0) => Run(q \o r, b, Len(q) + e, src, f, SizeOf(f), l, n)
          /\ IsPiece(r[j], src, f, SizeOf(f), n + 1) =>
               Run(q \o r, b, Len(q) + e, src, f, SizeOf(f), l, n + 1)
      BY <1>2, <1>4, <2>0, <2>4, <3>1, <3>2, RunFed
    <3> QED
      BY <1>1, <2>1, <3>3
  <2>5. CASE k \in done
    <3>1. j \in j..Len(r) /\ \A i \in 1..j : ~IsAbort(r[i], src)
      <4>1. \A i \in 1..j : i \in 1..Len(r) /\ ~(j < i)
        BY <1>4
      <4> QED
        BY <1>1, <1>4, <4>1 DEF IsAbort
    <3>2. Run(toClient'[a], b, Len(q) + j, src, f, SizeOf(f)', l, u)
      BY <1>2, <1>4, <2>4, <3>1
    <3>3. Len(q) + j \in b..Len(toClient'[a]) /\ u \in l..SizeOf(f)' /\ u = SizeOf(f)'
      BY <1>2, <1>3, <1>4, <2>2, <2>3, <2>5
    <3> QED
      BY <3>2, <3>3 DEF Stream
  <2>6. CASE k \notin done
    <3>1. Len(r) \in j..Len(r) /\ \A i \in 1..Len(r) : ~IsAbort(r[i], src)
      <4>1. ASSUME NEW i \in 1..Len(r), IsAbort(r[i], src) PROVE FALSE
        <5>1. r[i] = FT!Abort(SV_Client) /\ <<a, SV_Client>> \in done
          BY <4>1 DEF InFrame, IsAbort
        <5>2. src = SV_Client
          BY <4>1, <5>1 DEF IsAbort, FT!Abort
        <5> QED
          BY <2>6, <5>1, <5>2
      <4> QED
        BY <1>4, <4>1
    <3>2. Run(toClient'[a], b, Len(toClient'[a]), src, f, SizeOf(f)', l, u)
      BY <1>2, <1>4, <2>4, <3>1
    <3>3. Len(toClient'[a]) \in b..Len(toClient'[a]) /\ u \in l..SizeOf(f)'
      BY <1>2, <1>3, <1>4, <2>3
    <3>4. PICK t : t = m_transfers[k]
      OBVIOUS
    <3>5. /\ k \in DOMAIN m_transfers' /\ m_transfers'[k].proxy = t.proxy
          /\ m_transfers'[k].size = t.size /\ m_transfers'[k].at = u
          /\ \A c \in DOMAIN m_receivers' :
               /\ c \in DOMAIN m_receivers /\ m_receivers'[c].proxy = m_receivers[c].proxy
               /\ m_receivers'[c].quiet = m_receivers[c].quiet
      BY <1>0, <2>1, <2>6, <3>4, FramedRecords
    <3>6. Fed(a, src, f, u)'
      <4>1. t.size = SizeOf(f)' /\ (src # SV_Client =>
              /\ \E h \in 1..SizeOf(f)' : u <= h /\ m_screenshot_proxies[t.proxy].file = Part(f, h)
              /\ src \in DOMAIN m_receivers /\ m_receivers[src].proxy = t.proxy => m_receivers[src].quiet)
        BY <1>2, <1>5, <2>1, <3>4 DEF Fed, FileAt
      <4> QED
        BY <3>5, <4>1 DEF Fed, FileAt
    <3> QED
      BY <3>2, <3>3, <3>6 DEF Stream
  <2> QED
    BY <2>5, <2>6
<1> QED
  BY <1>5, StreamGrows

(* The frame of the server.                                                *)
LEMMA DownloadsFrame ==
  ASSUME Sound, Downloads, NEW late, FT!UpdateServer(late)
  PROVE  Downloads'
<1>0. UNCHANGED <<connected, playing, toServer, m_screenshot_proxies, receiving, files>>
  BY DEF FT!UpdateServer, FT!client
<1>1. FilesKept
  BY <1>0, FilesRemain
<1>2. PICK done \in FT!Ends(Sending) :
        /\ done \subseteq Sending
        /\ \A a \in Clients : \E r : toClient'[a] = toClient[a] \o r /\ InFrame(a, r, done, late)
        /\ Framed(done, late)
  BY FrameEffect DEF Framed
<1> SUFFICES ASSUME NEW a \in Clients, NEW src PROVE Download(a, src)'
  BY DEF Downloads
<1>3. GetsKept(a, src) /\ Download(a, src)
  BY <1>0 DEF GetsKept, Downloads
<1>4. PICK r : toClient'[a] = toClient[a] \o r /\ InFrame(a, r, done, late)
  BY <1>2
<1>5. Grows(a, r)
  BY <1>4 DEF Grows, InFrame
<1>6. CASE a \notin connected \cap playing
  <2>1. toClient[a] = <<>> /\ DOMAIN receiving[a] = {} /\ r = <<>>
    BY <1>4, <1>6 DEF Sound, GoneSilent, InFrame
  <2>2. toClient'[a] = <<>>
    BY <1>4, <2>1, ShortQueues, QueueNothing
  <2> QED
    BY <1>0, <2>1, <2>2, DownloadNone
<1>7. CASE a \in connected \cap playing
  <2>1. ASSUME NEW i \in 1..Len(r) PROVE ~Opens(r[i], src)
    <3>0. FT!Abort(SV_Client).type = "abort"
      BY DEF FT!Abort
    <3>1. r[i].type \in {"data", "abort", "reject"}
      BY <1>4, <3>0 DEF InFrame
    <3> QED
      BY <3>1 DEF Opens
  <2>2. PICK k : k = <<a, src>>
    OBVIOUS
  <2>3. CASE k \in Sending
    <3>1. StreamsKept(a, src)
      BY <1>0, <1>1, <1>2, <1>4, <1>5, <1>7, <2>2, <2>3, StreamFed
    <3> QED
      BY <1>1, <1>3, <1>5, <2>1, <3>1, DownloadKept
  <2>4. CASE k \notin Sending
    <3>1. k \notin done /\ k[1] = a
      BY <1>2, <2>2, <2>4
    <3>2. FedKept(a, src)
      <4>1. k \in DOMAIN m_transfers =>
              /\ k \in DOMAIN m_transfers' /\ m_transfers'[k].proxy = m_transfers[k].proxy
              /\ m_transfers'[k].size = m_transfers[k].size /\ m_transfers'[k].at = m_transfers[k].at
        BY <1>2, <1>7, <2>4, <3>1, FramedRecords
      <4>2. \A c \in DOMAIN m_receivers' :
              /\ c \in DOMAIN m_receivers /\ m_receivers'[c].proxy = m_receivers[c].proxy
              /\ m_receivers'[c].quiet = m_receivers[c].quiet
        BY <1>2, FramedRecords
      <4>3. \A f : FileOf(f, src) => SizeOf(f)' = SizeOf(f)
        BY <1>1, FileRemains
      <4> QED
        BY <1>0, <2>2, <4>1, <4>2, <4>3 DEF FedKept, Fed, FileAt
    <3>3. \A i \in 1..Len(r) : ~IsData(r[i], src) /\ ~IsAbort(r[i], src)
      <4>1. ASSUME NEW i \in 1..Len(r)
            PROVE  ~IsData(r[i], src) /\ ~IsAbort(r[i], src)
        <5>1. \/ r[i].type = "data" /\ <<a, r[i].from>> \in Sending
              \/ r[i] = FT!Abort(SV_Client) /\ <<a, SV_Client>> \in done
              \/ r[i].type = "reject"
          BY <1>4 DEF InFrame
        <5>2. IsData(r[i], src) => k \in Sending
          BY <2>2, <5>1 DEF IsData, FT!Abort
        <5>3. IsAbort(r[i], src) => k \in done
          BY <2>2, <5>1 DEF IsAbort, FT!Abort
        <5> QED
          BY <2>4, <3>1, <5>2, <5>3
      <4> QED
        BY <4>1
    <3>4. StreamsKept(a, src)
      BY <1>1, <1>5, <3>2, <3>3, StreamAside
    <3> QED
      BY <1>1, <1>3, <1>5, <2>1, <3>4, DownloadKept
  <2> QED
    BY <2>3, <2>4
<1> QED
  BY <1>6, <1>7

(* No transfer of the logo begins but that of a client who joins.          *)
LEMMA LogoKept ==
  ASSUME LogoOnce, playing' \subseteq playing, connected \ connected' \subseteq Clients \ playing,
         \A k \in DOMAIN m_transfers' :
           k[2] = SV_Client => k \in DOMAIN m_transfers \/ k[1] \in connected'
  PROVE  LogoOnce'
BY DEF LogoOnce

(* What the server receives is passed on in the name of the client it      *)
(* comes from: no transfer of the logo begins or ends.                     *)
LEMMA LogosData ==
  ASSUME Sound, NEW c \in Clients, NEW m, FT!OnData(c, m)
  PROVE  \A k : k[2] = SV_Client => (k \in DOMAIN m_transfers' <=> k \in DOMAIN m_transfers)
<1>1. UNCHANGED m_transfers \/ \E a, x, v : x \in Clients /\ m_transfers' = FT!Inserted(m_transfers, <<a, x>>, v)
  <2>1. CASE c \notin DOMAIN m_receivers
    BY <2>1 DEF FT!OnData
  <2>2. CASE c \in DOMAIN m_receivers
    <3>1. PICK s, p, z, d : /\ s = m_screenshot_proxies[p] /\ s.cheater \in Clients
                            /\ FT!Forwards(p, z, d)
      <4>1. /\ m_screenshot_proxies[m_receivers[c].proxy].cheater = c
            /\ FT!Forwards(m_receivers[c].proxy,
                 FT!SizeRead(m_screenshot_proxies[m_receivers[c].proxy].file, m_receivers[c].size, m),
                 m_receivers[c].quiet)
        BY <2>2, DataEffect
      <4> QED
        BY <4>1
    <3> QED
      BY <3>1 DEF FT!Forwards
  <2> QED
    BY <2>1, <2>2
<1>2. CASE UNCHANGED m_transfers
  BY <1>2
<1>3. CASE \E a, x, v : x \in Clients /\ m_transfers' = FT!Inserted(m_transfers, <<a, x>>, v)
  <2>1. PICK a, x, v : x \in Clients /\ m_transfers' = FT!Inserted(m_transfers, <<a, x>>, v)
    BY <1>3
  <2>2. <<a, x>>[2] # SV_Client
    BY <2>1, FileTransferAssumption
  <2> QED
    BY <2>1, <2>2 DEF FT!Inserted
<1> QED
  BY <1>1, <1>2, <1>3


(* What makes all files come whole: the server's and the clients' records   *)
(* are sound, what is uploaded and what is passed on comes in order.        *)
TransferInv == Sound /\ UploadInv /\ Downloads /\ LogoOnce

(* At first nothing is transferred.                                        *)
LEMMA TransferInit == FT!Init => TransferInv /\ Received
<1> SUFFICES ASSUME FT!Init PROVE TransferInv /\ Received
  OBVIOUS
<1>1. Sound
  BY SoundInit
<1>2. /\ DOMAIN m_receivers = {} /\ DOMAIN m_transfers = {} /\ got = FT!Nothing
      /\ \A c \in Clients : DOMAIN toServer[c] = {} /\ DOMAIN toClient[c] = {} /\ DOMAIN receiving[c] = {}
  BY DEF FT!Init
<1>3. UploadInv /\ LogoOnce /\ Received
  BY <1>2 DEF UploadInv, DataOwned, Uploads, LogoOnce, Received, FT!Nothing, Nothing
<1>4. Downloads
  BY <1>2 DEF Downloads, Download, Opening, Getting
<1> QED
  BY <1>1, <1>3, <1>4 DEF TransferInv

(* Nothing has been received completely.                                   *)
LEMMA NothingGot == got' = FT!Nothing => Received'
BY DEF Received, FT!Nothing, Nothing

(* The server handles a message.                                           *)
LEMMA TransferMessage ==
  ASSUME TransferInv, Sound', NEW c \in Clients, FT!ServerReceive(c)
  PROVE  TransferInv' /\ Received'
<1>0. Sound /\ UploadInv /\ Downloads /\ LogoOnce
  BY DEF TransferInv
<1> DEFINE m == Head(toServer[c])
<1>1. /\ toServer[c] # <<>> /\ UNCHANGED <<connected, playing, receiving, files>>
      /\ \/ m.type = "data" /\ FT!OnData(c, m)
         \/ m.type = "abort" /\ FT!OnAbort(c)
         \/ m.type = "reject" /\ FT!OnReject(c, m.from)
  BY <1>0, MessageTaken
<1>2. CASE m.type = "data" /\ FT!OnData(c, m)
  <2>1. UploadInv' /\ Received' /\ Downloads'
    BY <1>0, <1>2, UploadsData, DownloadsData
  <2>2. \A k \in DOMAIN m_transfers' : k[2] = SV_Client => k \in DOMAIN m_transfers
    BY <1>0, <1>2, LogosData
  <2>3. LogoOnce'
    BY <1>0, <1>1, <2>2, LogoKept
  <2> QED
    BY <2>1, <2>3 DEF TransferInv
<1>3. CASE (m.type = "abort" /\ FT!OnAbort(c)) \/ (m.type = "reject" /\ FT!OnReject(c, m.from))
  <2>1. UploadInv'
    BY <1>0, <1>3, UploadsStop
  <2>2. Downloads'
    BY <1>0, <1>1, <1>3, DownloadsAbort, DownloadsReject
  <2>3. got' = FT!Nothing /\ DOMAIN m_transfers' \subseteq DOMAIN m_transfers
    BY <1>3 DEF FT!OnAbort, FT!OnReject, FT!Without, FT!Restrict
  <2>4. LogoOnce'
    BY <1>0, <1>1, <2>3, LogoKept
  <2> QED
    BY <2>1, <2>2, <2>3, <2>4, NothingGot DEF TransferInv
<1> QED
  BY <1>1, <1>2, <1>3

(* The other steps, of which only the last receives something.             *)
LEMMA TransferRequest ==
  ASSUME TransferInv, Sound', NEW a \in Admins, NEW c \in Clients, FT!MakeScreenshot(a, c)
  PROVE  TransferInv' /\ Received'
<1>0. Sound /\ UploadInv /\ Downloads /\ LogoOnce
  BY DEF TransferInv
<1>1. UploadInv' /\ Downloads'
  BY <1>0, UploadsRequest, DownloadsRequest
<1>2. got' = FT!Nothing /\ UNCHANGED <<connected, playing, m_transfers>>
  BY DEF FT!MakeScreenshot
<1> QED
  BY <1>0, <1>1, <1>2, LogoKept, NothingGot DEF TransferInv

(* A client joins.                                                         *)
LEMMA TransferJoin ==
  ASSUME TransferInv, Sound', NEW c \in Clients, FT!SendServerInfoToClient(c)
  PROVE  TransferInv' /\ Received'
<1>0. Sound /\ UploadInv /\ Downloads /\ LogoOnce
  BY DEF TransferInv
<1>1. UploadInv' /\ Downloads'
  BY <1>0, UploadsJoin, DownloadsJoin
<1>2. got' = FT!Nothing /\ UNCHANGED playing /\ connected' = connected \cup {c}
  BY DEF FT!SendServerInfoToClient
<1>3. \A k \in DOMAIN m_transfers' : k \in DOMAIN m_transfers \/ k[1] = c
  BY DEF FT!SendServerInfoToClient, FT!Inserted
<1> QED
  BY <1>0, <1>1, <1>2, <1>3, LogoKept, NothingGot DEF TransferInv

(* The server's frame.                                                     *)
LEMMA TransferFrame ==
  ASSUME TransferInv, Sound', NEW late, FT!UpdateServer(late)
  PROVE  TransferInv' /\ Received'
<1>0. Sound /\ UploadInv /\ Downloads /\ LogoOnce
  BY DEF TransferInv
<1>1. UploadInv' /\ Downloads'
  BY <1>0, UploadsFrame, DownloadsFrame
<1>2. got' = FT!Nothing /\ UNCHANGED <<connected, playing>>
  BY DEF FT!UpdateServer, FT!Update
<1>3. DOMAIN m_transfers' \subseteq DOMAIN m_transfers
  BY DEF FT!UpdateServer, FT!Update
<1> QED
  BY <1>0, <1>1, <1>2, <1>3, LogoKept, NothingGot DEF TransferInv

(* The steps of a client that receive nothing.                             *)
LEMMA TransferClient ==
  ASSUME TransferInv, Sound', NEW c \in Clients,
         \/ FT!SendCollectedData(c) \/ FT!Leave(c) \/ FT!client_Destroy(c)
         \/ \E late : FT!ClientSend(c, late)
  PROVE  TransferInv' /\ Received'
<1>0. Sound /\ UploadInv /\ Downloads /\ LogoOnce
  BY DEF TransferInv
<1>1. UploadInv' /\ Downloads'
  BY <1>0, UploadsMade, DownloadsMade, UploadsSend, DownloadsSend, UploadsLeave, DownloadsLeave,
     UploadsDestroy, DownloadsDestroy
<1>2. /\ got' = FT!Nothing /\ UNCHANGED m_transfers
      /\ playing' \subseteq playing /\ connected \ connected' \subseteq Clients \ playing
  BY DEF FT!SendCollectedData, FT!Leave, FT!client_Destroy, FT!ClientSend, FT!net, FT!server
<1> QED
  BY <1>0, <1>1, <1>2, LogoKept, NothingGot DEF TransferInv

(* A client handles a message, the last of a file perhaps.                 *)
LEMMA TransferReceive ==
  ASSUME TransferInv, Sound', NEW c \in Clients, FT!ClientReceive(c)
  PROVE  TransferInv' /\ Received'
<1>0. Sound /\ UploadInv /\ Downloads /\ LogoOnce
  BY DEF TransferInv
<1>1. UploadInv' /\ Downloads' /\ Received'
  BY <1>0, UploadsReceive, DownloadsReceive
<1>2. UNCHANGED <<m_transfers, connected, playing>>
  BY DEF FT!ClientReceive, FT!server
<1> QED
  BY <1>0, <1>1, <1>2, LogoKept DEF TransferInv

(* Every step of the server and of the clients.                            *)
LEMMA TransferStep ==
  ASSUME TransferInv, Received, [FT!Next]_FT!vars
  PROVE  TransferInv' /\ Received'
<1>0. Sound'
  BY SoundStep DEF TransferInv
<1>1. CASE UNCHANGED FT!vars
  <2>1. UNCHANGED <<connected, playing, toServer, toClient, m_screenshot_proxies, m_receivers,
                    m_transfers, making, uploading, receiving, files, buffer, got>>
    BY <1>1 DEF FT!vars, FT!net, FT!server, FT!client
  <2>2. Received'
    BY <2>1 DEF Received, Made, Whole, SizeOf, Nothing, Info
  <2>3. UploadInv'
    <3>1. DataOwned' /\ FilesKept
      BY <2>1, FilesRemain DEF TransferInv, UploadInv, DataOwned
    <3>2. \A d \in DOMAIN m_receivers : UploadRests(d)
      <4> TAKE d \in DOMAIN m_receivers
      <4>1. d \in Clients /\ Sound
        BY DEF TransferInv, Sound, ServerSound
      <4>2. Unasked(d) /\ Unsent(d)
        BY <2>1, <4>1, UnaskedWhen, UnsentWhen
      <4> QED
        BY <2>1, <3>1, <4>2 DEF UploadRests
    <3>3. Uploads'
      BY <1>0, <2>1, <3>2, UploadsKept DEF TransferInv, UploadInv
    <3> QED
      BY <3>1, <3>3 DEF UploadInv
  <2>4. Downloads'
    <3> SUFFICES ASSUME NEW a \in Clients, NEW src PROVE Download(a, src)'
      BY DEF Downloads
    <3>1. /\ TransferRests(a, src) /\ GetsKept(a, src) /\ Download(a, src) /\ Grows(a, <<>>)
          /\ Sound /\ FilesKept
      BY <2>1, FilesRemain, GrowsWhen DEF TransferInv, TransferRests, FileAt, GetsKept, Downloads
    <3> QED
      BY <3>1, DownloadAside
  <2>5. LogoOnce'
    BY <2>1 DEF TransferInv, LogoOnce
  <2> QED
    BY <1>0, <2>2, <2>3, <2>4, <2>5 DEF TransferInv
<1>2. CASE \E a \in Admins, c \in Clients : FT!MakeScreenshot(a, c)
  BY <1>0, <1>2, TransferRequest
<1>3. ASSUME NEW c \in Clients, FT!SendServerInfoToClient(c) PROVE TransferInv' /\ Received'
  BY <1>0, <1>3, TransferJoin
<1>4. ASSUME NEW c \in Clients, FT!ServerReceive(c) PROVE TransferInv' /\ Received'
  BY <1>0, <1>4, TransferMessage
<1>5. ASSUME NEW c \in Clients, FT!ClientReceive(c) PROVE TransferInv' /\ Received'
  BY <1>0, <1>5, TransferReceive
<1>6. ASSUME NEW c \in Clients,
             \/ FT!SendCollectedData(c) \/ FT!Leave(c) \/ FT!client_Destroy(c)
             \/ \E late : FT!ClientSend(c, late)
      PROVE TransferInv' /\ Received'
  BY <1>0, <1>6, TransferClient
<1>7. ASSUME NEW late, FT!UpdateServer(late) PROVE TransferInv' /\ Received'
  BY <1>0, <1>7, TransferFrame
<1> QED
  BY <1>1, <1>2, <1>3, <1>4, <1>5, <1>6, <1>7 DEF FT!Next

(* What is received completely is one whole file of the one it comes from, *)
(* whoever leaves, aborts, rejects or asks again meanwhile, for any number  *)
(* of clients, administrators, proxies and packets under way.              *)
THEOREM ReceivesWholeFiles == FT!Spec => []Received
<1>1. FT!Init => TransferInv /\ Received
  BY TransferInit
<1>2. TransferInv /\ Received /\ [FT!Next]_FT!vars => (TransferInv /\ Received)'
  BY TransferStep
<1> QED
  BY <1>1, <1>2, PTL DEF FT!Spec
-----------------------------------------------------------------------------
(* What a client who joins is told.                                        *)
Told == configured \in [Clients -> Nat] /\ ConfiguredOnce

(* What happens to transfers in the name of clients, not of the server.    *)
LEMMA ToldAside ==
  ASSUME Told, UNCHANGED <<connected, configured>>,
         \A c \in Clients : <<c, SV_Client>> \in DOMAIN m_transfers'
                              <=> <<c, SV_Client>> \in DOMAIN m_transfers
  PROVE  Told'
BY FileTransferAssumption DEF Told, ConfiguredOnce

(* A client joins: the logo is sent, or there is none and he is told.      *)
LEMMA ToldJoin ==
  ASSUME Told, LogoOnce, NEW c \in Clients, FT!SendServerInfoToClient(c)
  PROVE  Told'
<1>1. /\ c \in Joining \ connected /\ c \in playing /\ configured[c] = 0
      /\ connected' = connected \cup {c}
  BY DEF FT!SendServerInfoToClient
<1>2. <<c, SV_Client>> \notin DOMAIN m_transfers
  <2>1. <<c, SV_Client>>[1] = c /\ <<c, SV_Client>>[2] = SV_Client
    OBVIOUS
  <2> QED
    BY <1>1, <2>1 DEF LogoOnce
<1>3. CASE configured' = [configured EXCEPT ![c] = 1] /\ UNCHANGED m_transfers
  BY <1>1, <1>2, <1>3 DEF Told, ConfiguredOnce
<1>4. CASE /\ DOMAIN m_transfers' = DOMAIN m_transfers \cup {<<c, SV_Client>>}
           /\ UNCHANGED configured
  BY <1>1, <1>4 DEF Told, ConfiguredOnce
<1> QED
  BY <1>3, <1>4 DEF FT!SendServerInfoToClient, FT!Inserted

(* A transfer that is rejected, or ends, or whose destination has gone: if *)
(* it is that of the logo the client, if he is there, is told now.         *)
LEMMA ToldEnd ==
  ASSUME Told, NEW K, UNCHANGED connected, K \subseteq DOMAIN m_transfers,
         DOMAIN m_transfers' = DOMAIN m_transfers \ K, configured' = FT!Finishes(K)
  PROVE  Told'
<1>1. configured' \in [Clients -> Nat]
  BY DEF Told, FT!Finishes
<1>2. ASSUME NEW c \in Joining \cap connected
      PROVE  configured'[c] = IF <<c, SV_Client>> \in DOMAIN m_transfers' THEN 0 ELSE 1
  <2>1. c \in Clients /\ configured[c] = IF <<c, SV_Client>> \in DOMAIN m_transfers THEN 0 ELSE 1
    BY FileTransferAssumption DEF Told, ConfiguredOnce
  <2>2. configured'[c] = configured[c] + IF <<c, SV_Client>> \in K THEN 1 ELSE 0
    BY <2>1 DEF FT!Finishes
  <2> QED
    BY <2>1, <2>2
<1> QED
  BY <1>1, <1>2 DEF Told, ConfiguredOnce

(* The server handles a message: only a reject ends a transfer.            *)
LEMMA ToldMessage ==
  ASSUME Told, Sound, NEW c \in Clients, FT!ServerReceive(c)
  PROVE  Told'
<1> DEFINE m == Head(toServer[c])
<1>1. /\ UNCHANGED connected
      /\ \/ FT!OnData(c, m) /\ UNCHANGED configured
         \/ FT!OnAbort(c) /\ UNCHANGED configured
         \/ FT!OnReject(c, m.from)
  BY DEF FT!ServerReceive
<1> HIDE DEF m
<1>2. CASE FT!OnData(c, m) /\ UNCHANGED configured
  <2>1. \A a \in Clients : <<a, SV_Client>> \in DOMAIN m_transfers'
                             <=> <<a, SV_Client>> \in DOMAIN m_transfers
    <3>1. \A a \in Clients : <<a, SV_Client>>[2] = SV_Client
      OBVIOUS
    <3> QED
      BY <1>2, <3>1, LogosData
  <2> QED
    BY <1>1, <1>2, <2>1, ToldAside
<1>3. CASE FT!OnAbort(c) /\ UNCHANGED configured
  BY <1>1, <1>3, ToldAside DEF FT!OnAbort
<1>4. CASE FT!OnReject(c, m.from)
  <2>1. CASE <<c, m.from>> \in DOMAIN m_transfers
    BY <1>1, <1>4, <2>1, ToldEnd DEF FT!OnReject, FT!Rejected, FT!Without, FT!Restrict
  <2>2. CASE <<c, m.from>> \notin DOMAIN m_transfers
    BY <1>1, <1>4, <2>2, ToldAside DEF FT!OnReject
  <2> QED
    BY <2>1, <2>2
<1> QED
  BY <1>1, <1>2, <1>3, <1>4

(* The server's frame, in which transfers end.                             *)
LEMMA ToldFrame == ASSUME Told, NEW late, FT!UpdateServer(late) PROVE Told'
<1> DEFINE gone == {k \in DOMAIN m_transfers : k[1] \notin connected}
           there == DOMAIN m_transfers \ gone
           sending == {k \in there : Len(toClient[k[1]]) < MaxPackets}
<1>1. UNCHANGED connected
  BY DEF FT!UpdateServer
<1>2. PICK done \in FT!Ends(sending) :
        /\ m_transfers' = [k \in there \ done |->
             [m_transfers[k] EXCEPT !.at = IF k \in sending THEN FT!At(k) ELSE @]]
        /\ configured' = FT!Finishes(done \cup gone)
  BY DEF FT!UpdateServer, FT!Update
<1>3. done \cup gone \subseteq DOMAIN m_transfers
  BY DEF FT!Ends
<1>4. DOMAIN m_transfers' = DOMAIN m_transfers \ (done \cup gone)
  BY <1>2
<1> QED
  BY <1>1, <1>2, <1>3, <1>4, ToldEnd

(* What is told in every step.                                             *)
LEMMA ToldStep == ASSUME TransferInv, Told, [FT!Next]_FT!vars PROVE Told'
<1>0. Sound /\ LogoOnce
  BY DEF TransferInv
<1>1. CASE UNCHANGED FT!vars
  BY <1>1, ToldAside DEF FT!vars, FT!net, FT!server
<1>2. CASE \E a \in Admins, c \in Clients : FT!MakeScreenshot(a, c)
  BY <1>2, ToldAside DEF FT!MakeScreenshot
<1>3. ASSUME NEW c \in Clients, FT!SendServerInfoToClient(c) PROVE Told'
  BY <1>0, <1>3, ToldJoin
<1>4. ASSUME NEW c \in Clients, FT!ServerReceive(c) PROVE Told'
  BY <1>0, <1>4, ToldMessage
<1>5. ASSUME NEW c \in Clients, FT!ClientReceive(c) \/ FT!SendCollectedData(c) PROVE Told'
  BY <1>5, ToldAside DEF FT!ClientReceive, FT!SendCollectedData, FT!server, FT!net
<1>6. ASSUME NEW c \in Clients, NEW late, FT!ClientSend(c, late) PROVE Told'
  BY <1>6, ToldAside DEF FT!ClientSend, FT!server
<1>7. ASSUME NEW c \in Clients, FT!Leave(c) PROVE Told'
  BY <1>7, ToldAside DEF FT!Leave, FT!server
<1>8. ASSUME NEW c \in Clients, FT!client_Destroy(c) PROVE Told'
  <2>1. connected' \subseteq connected /\ UNCHANGED <<m_transfers, configured>>
    BY <1>8 DEF FT!client_Destroy, FT!server
  <2> QED
    BY <2>1 DEF Told, ConfiguredOnce
<1>9. ASSUME NEW late, FT!UpdateServer(late) PROVE Told'
  BY <1>9, ToldFrame
<1> QED
  BY <1>1, <1>2, <1>3, <1>4, <1>5, <1>6, <1>7, <1>8, <1>9 DEF FT!Next

(* Whoever joins is told that the configuration is finished once, when the *)
(* transfer of the logo has ended, however it has (upload_server_info_-     *)
(* callback).                                                              *)
THEOREM ToldOnce == FT!Spec => []ConfiguredOnce
<1>1. FT!Init => TransferInv /\ Received /\ Told
  <2>1. FT!Init => Told
    BY FileTransferAssumption DEF FT!Init, Told, ConfiguredOnce
  <2> QED
    BY <2>1, TransferInit
<1>2. /\ TransferInv /\ Received /\ Told /\ [FT!Next]_FT!vars
      => (TransferInv /\ Received /\ Told)'
  BY TransferStep, ToldStep
<1>3. Told => ConfiguredOnce
  BY DEF Told
<1> QED
  BY <1>1, <1>2, <1>3, PTL DEF FT!Spec
=============================================================================
