----------------------------- MODULE BannedList -----------------------------
(***************************************************************************)
(* The list of banned addresses (BaseServer): a vector in memory and a     *)
(* file that is written after each change.  A server is started, runs,     *)
(* is stopped or crashes, and is started again.  The network thread, which *)
(* lets connections in, reads the list as it is at that time.              *)
(*                                                                         *)
(* A save is one step (a crash while the file is written is left out).     *)
(* The time is in hours.                                                   *)
(***************************************************************************)
EXTENDS Integers

CONSTANTS
  Addresses,     \* one player each
  BanTimes,      \* for how long an administrator bans
  Shifts,        \* what a reload may add to a ban (see Load)
  MaxTime, MaxStarts  \* bounds of the clock and of the number of starts

ASSUME BansAssumption ==
  /\ BanTimes \subseteq Nat \ {0} /\ Shifts \subseteq -1..1 /\ Shifts # {}
  /\ MaxTime \in Nat /\ MaxStarts \in Nat

VARIABLES
  server,           \* listening: connections are let in before the list is loaded;
                    \* failed: it cannot listen, and has not loaded the list
  BannedAddresses,
  file,             \* banned_list_ip.ltx
  connection,       \* of each address
  time,
  starts,
  ordered,          \* until when the administrator has banned an address, or 0
  reloads,          \* how often the ban has been loaded since
  overwritten,      \* a server that has not loaded the file has written it
  slipped           \* let in before the ban

history == <<ordered, reloads, overwritten, slipped>>
vars == <<server, BannedAddresses, file, connection, time, starts, history>>

Bans == [HAddr : Addresses, BanTime : Int]
Listed(bans) == {b.HAddr : b \in bans}

TypeOK ==
  /\ server \in {"down", "listening", "up", "failed"}
  /\ BannedAddresses \subseteq Bans /\ file \subseteq Bans
  /\ \A bans \in {BannedAddresses, file} : \A b, c \in bans : b.HAddr = c.HAddr => b = c
  /\ connection \in [Addresses -> {"none", "accepted", "registered"}]
  /\ time \in Nat /\ starts \in Nat
  /\ ordered \in [Addresses -> Nat] /\ reloads \in [Addresses -> Nat]
  /\ overwritten \in BOOLEAN /\ slipped \subseteq Addresses

Init ==
  /\ server = "down" /\ BannedAddresses = {} /\ file = {}
  /\ connection = [a \in Addresses |-> "none"]
  /\ time = 0 /\ starts = 0
  /\ ordered = [a \in Addresses |-> 0] /\ reloads = [a \in Addresses |-> 0]
  /\ overwritten = FALSE /\ slipped = {}
-----------------------------------------------------------------------------
(* CreateConnection starts the network thread.  When it fails, Connect     *)
(* still returns ErrNoError and the game goes on without the list.         *)
CreateConnection ==
  /\ server = "down" /\ starts < MaxStarts /\ starts' = starts + 1
  /\ server' \in {"listening", "failed"}
  /\ UNCHANGED <<BannedAddresses, file, connection, time, history>>

Runs == server \in {"up", "failed"}

(* Load: the file has local time, and tm_isdst is not initialised, so that *)
(* mktime may take summer time for winter time or the other way round.     *)
BannedList_Load ==
  /\ server = "listening" /\ server' = "up"
  /\ \E s \in [file -> Shifts] :
       BannedAddresses' = {[b EXCEPT !.BanTime = @ + s[b]] : b \in file}
  /\ reloads' = [a \in Addresses |-> IF a \in Listed(file) THEN reloads[a] + 1 ELSE reloads[a]]
  /\ slipped' = {a \in Listed(file) : connection[a] # "none"}
  /\ UNCHANGED <<file, connection, time, starts, ordered, overwritten>>

(* Each change is saved.  Mutant: the list is saved when the server stops. *)
Changed_unsaved(list) == BannedAddresses' = list /\ UNCHANGED <<file, overwritten>>

Save(list) == file' = list /\ overwritten' = (overwritten \/ server = "failed")
Changed(list) == BannedAddresses' = list /\ Save(list)

GetBannedClient(a) == a \in Listed(BannedAddresses)

(* sv_banplayer_ip: BanAddress, DisconnectAddress, of those who are        *)
(* registered.  Who is banned already keeps his ban.  Mutant: nobody is    *)
(* disconnected.                                                           *)
Ban(a, t) ==
  IF GetBannedClient(a) THEN UNCHANGED <<BannedAddresses, file, ordered, reloads, overwritten>>
  ELSE /\ Changed(BannedAddresses \cup {[HAddr |-> a, BanTime |-> time + t]})
       /\ ordered' = [ordered EXCEPT ![a] = time + t]
       /\ reloads' = [reloads EXCEPT ![a] = 0]

BanAddress_stays(a, t) ==
  /\ Runs /\ Ban(a, t)
  /\ slipped' = IF connection[a] = "accepted" THEN slipped \cup {a} ELSE slipped \ {a}
  /\ UNCHANGED <<server, connection, time, starts>>

BanAddress(a, t) ==
  /\ Runs /\ Ban(a, t)
  /\ connection' = [connection EXCEPT ![a] = IF @ = "registered" THEN "none" ELSE @]
  /\ slipped' = IF connection[a] = "accepted" THEN slipped \cup {a} ELSE slipped \ {a}
  /\ UNCHANGED <<server, time, starts>>

Lifted(a) ==
  /\ Changed({b \in BannedAddresses : b.HAddr # a})
  /\ ordered' = [ordered EXCEPT ![a] = 0]

UnBanAddress(a) ==
  /\ Runs /\ GetBannedClient(a) /\ Lifted(a)
  /\ UNCHANGED <<server, connection, time, starts, reloads, slipped>>

(* UpdateBannedList sorts the list and lifts the ban at its end when it is *)
(* over.  Mutants: the list is sorted the other way round; a ban is lifted *)
(* in its last hour.                                                       *)
AtEnd_ascending(b) == \A c \in BannedAddresses : c.BanTime <= b.BanTime

AtEnd(b) == \A c \in BannedAddresses : b.BanTime <= c.BanTime

UpdateBannedList_early ==
  /\ Runs
  /\ \E b \in BannedAddresses : AtEnd(b) /\ b.BanTime <= time /\ Lifted(b.HAddr)
  /\ UNCHANGED <<server, connection, time, starts, reloads, slipped>>

UpdateBannedList ==
  /\ Runs
  /\ \E b \in BannedAddresses : AtEnd(b) /\ b.BanTime < time /\ Lifted(b.HAddr)
  /\ UNCHANGED <<server, connection, time, starts, reloads, slipped>>

Stopped ==
  /\ server' = "down" /\ BannedAddresses' = {}
  /\ connection' = [a \in Addresses |-> "none"] /\ slipped' = {}
  /\ UNCHANGED <<time, starts, ordered, reloads>>

(* Disconnect saves whatever the list is.                                  *)
Disconnect == Runs /\ Stopped /\ Save(BannedAddresses)
Crash == server # "down" /\ Stopped /\ UNCHANGED <<file, overwritten>>

(* The network thread: the list is asked when a connection comes, and      *)
(* never again.                                                            *)
ProcessConnection(a) ==
  /\ server \in {"listening", "up"} /\ connection[a] = "none" /\ ~GetBannedClient(a)
  /\ connection' = [connection EXCEPT ![a] = "accepted"]
  /\ UNCHANGED <<server, BannedAddresses, file, time, starts, history>>

FinishConnection(a) ==
  /\ connection[a] = "accepted" /\ connection' = [connection EXCEPT ![a] = "registered"]
  /\ UNCHANGED <<server, BannedAddresses, file, time, starts, history>>

Leave(a) ==
  /\ connection[a] # "none" /\ connection' = [connection EXCEPT ![a] = "none"]
  /\ slipped' = slipped \ {a}
  /\ UNCHANGED <<server, BannedAddresses, file, time, starts, ordered, reloads, overwritten>>

Tick ==
  /\ time < MaxTime /\ time' = time + 1
  /\ UNCHANGED <<server, BannedAddresses, file, connection, starts, history>>

Next ==
  \/ CreateConnection \/ BannedList_Load \/ UpdateBannedList \/ Disconnect \/ Crash \/ Tick
  \/ \E a \in Addresses :
       \/ \E t \in BanTimes : BanAddress(a, t)
       \/ UnBanAddress(a) \/ ProcessConnection(a) \/ FinishConnection(a) \/ Leave(a)

Spec == Init /\ [][Next]_vars

(* The main thread loops and calls UpdateBannedList every 100 frames.      *)
FairSpec == Spec /\ WF_vars(UpdateBannedList)
-----------------------------------------------------------------------------
(* Who has been banned stays banned, through stops, crashes and new        *)
(* starts, until the ban is lifted, and who has been pardoned stays so:    *)
(* until a server that could not listen, and goes on without the list,     *)
(* writes its own over it.                                                 *)
BansKept ==
  server = "up" /\ ~overwritten => Listed(BannedAddresses) = {a \in Addresses : ordered[a] # 0}

(* The server does not lift a ban before its time, but for the hour that   *)
(* a reload may take from it.                                              *)
NotLiftedEarly ==
  [][UpdateBannedList =>
       \A a \in Addresses : ordered'[a] # ordered[a] => time + reloads[a] > ordered[a]]_vars

(* A ban that is over is lifted, whatever other bans there are.            *)
LiftedInTime ==
  \A a \in Addresses :
    Runs /\ (\E b \in BannedAddresses : b.HAddr = a /\ b.BanTime < time)
      ~> ~Runs \/ ~GetBannedClient(a)

(* sv_banplayer_ip: "Ban Player by IP".  Who is banned does not play,      *)
(* unless he had been let in but not registered when he was banned, or     *)
(* came before the list was loaded.                                        *)
BannedStaysOut ==
  server = "up" =>
    \A a \in Addresses : GetBannedClient(a) /\ connection[a] = "registered" => a \in slipped
=============================================================================
