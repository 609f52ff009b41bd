------------------------------ MODULE Session -------------------------------
(***************************************************************************)
(* What the server promises about the players' connections: each goes      *)
(* through the stages of joining once and in their order, nobody is        *)
(* attached before the server's own client, at most seats connections have *)
(* been let in at any time, and who is gone does not come back (a player   *)
(* who returns has a new connection).                                      *)
(***************************************************************************)
EXTENDS Naturals, FiniteSets

CONSTANTS Clients, Host

VARIABLES
  stage,  \* how far each connection has come
  seats   \* how many may be let in

Inside == {"seated", "registered", "attached", "identified", "accepted", "spawned"}
Members == {c \in Clients : stage[c] \in Inside}

Init == stage = [c \in Clients |-> "outside"]

To(c, from, to) == stage[c] = from /\ stage' = [stage EXCEPT ![c] = to]

Seat(c) == To(c, "outside", "seated") /\ Cardinality(Members) < seats
Refuse(c) == To(c, "outside", "gone")

(* Registering the server's client registers everybody who waits for it.   *)
Register ==
  \E s \in SUBSET Clients :
    /\ \A c \in s : stage[c] = "seated"
    /\ Host \in s \/ stage[Host] \notin {"outside", "seated"}
    /\ stage' = [c \in Clients |-> IF c \in s THEN "registered" ELSE stage[c]]

Attach(c) ==
  /\ c # Host => stage[Host] = "attached"
  /\ To(c, "registered", "attached")

Identify(c) == To(c, "attached", "identified")
Accept(c) == To(c, "identified", "accepted")
Spawn(c) == To(c, "accepted", "spawned")

Leave(c) == stage[c] \in Inside /\ stage' = [stage EXCEPT ![c] = "gone"]

Next ==
  /\ \/ Register
     \/ \E c \in Clients :
          Seat(c) \/ Refuse(c) \/ Attach(c) \/ Identify(c) \/ Accept(c) \/ Spawn(c) \/ Leave(c)
  /\ UNCHANGED seats

Spec == Init /\ [][Next]_<<stage, seats>>
=============================================================================
