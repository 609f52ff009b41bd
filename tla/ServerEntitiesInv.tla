-------------------------- MODULE ServerEntitiesInv --------------------------
(***************************************************************************)
(* The inductive invariant of ServerEntities: the shape of the entity tree *)
(* as a predicate of its four parts, what is known of the players' bags,   *)
(* and what a running handler may rely on.                                 *)
(***************************************************************************)
EXTENDS ServerEntities

(* An entity only ever carries entities of a lower rank, so the tree has   *)
(* no cycle and destroying an entity recursively goes down.                *)
Rank(class) == IF class = "actor" THEN 2 ELSE IF class = "bag" THEN 1 ELSE 0

(* E, K, P and C are the entities, their classes, parents and children.    *)
TreeShape(E, K, P, C) ==
  /\ E \subseteq Ids /\ K \in [Ids -> Classes]
  /\ P \in [Ids -> Ids \cup {InvalidID}] /\ C \in [Ids -> Seq(Ids)]

Placed(E, P, C) ==
  \A i \in E : P[i] # InvalidID => \E k \in 1..Len(C[P[i]]) : C[P[i]][k] = i

Listed(E, K, P, C) ==
  \A i \in Ids : \A k \in 1..Len(C[i]) :
    C[i][k] \in E /\ P[C[i][k]] = i /\ Rank(K[C[i][k]]) < Rank(K[i])

Once(C) == \A i \in Ids : \A j, k \in 1..Len(C[i]) : C[i][j] = C[i][k] => j = k

Unused(E, K, P) == \A i \in Ids \ E : K[i] = "item" /\ P[i] = InvalidID

SpectatorsAlone(K, P) == \A i \in Ids : K[i] = "spectator" => P[i] = InvalidID

BagFirst(K, C) ==
  \A i \in Ids : \A k \in 1..Len(C[i]) : K[C[i][k]] = "bag" => k = 1

Tree(E, K, P, C) ==
  /\ TreeShape(E, K, P, C) /\ Placed(E, P, C) /\ Listed(E, K, P, C)
  /\ Once(C) /\ Unused(E, K, P) /\ SpectatorsAlone(K, P) /\ BagFirst(K, C)

TreeInv == Tree(entities, cls, ID_Parent, children)
-----------------------------------------------------------------------------
(* Bags.                                                                   *)
Filling(b) == call.op = "detach" /\ call.what = b

CarriedBagsEmpty ==
  \A b \in Ids : cls[b] = "bag" /\ ID_Parent[b] # InvalidID =>
                   children[b] = <<>> \/ Filling(b)

DeadDropTheirBag ==
  \A b \in Ids : /\ cls[b] = "bag" /\ ID_Parent[b] # InvalidID
                 /\ ID_Parent[b] \notin alive
                 => b \in dropManual \/ Filling(b)

OnlyBagsDropped == \A b \in dropManual : cls[b] = "bag"

BagInv == CarriedBagsEmpty /\ DeadDropTheirBag /\ OnlyBagsDropped /\ WaitingBags
-----------------------------------------------------------------------------
(* Handlers.                                                               *)
RespawnInv ==
  call.op = "respawn" =>
    /\ cls[call.who] = "actor" /\ call.who \in alive
    /\ \A k \in 1..Len(call.left) : call.left[k] \in {"bag", "item", "tool"}
    /\ call.left[1] = "bag" => children[call.who] = <<>>
    /\ \A k \in 2..Len(call.left) : call.left[k] # "bag"

DetachInv ==
  call.op = "detach" =>
    /\ cls[call.who] = "actor" /\ cls[call.what] = "bag"
    /\ ID_Parent[call.what] = call.who
    /\ call.c = 1 /\ Len(children[call.who]) >= 1
    /\ children[call.who][1] = call.what
    /\ call.keep # InvalidID =>
         cls[call.keep] = "item" /\ ID_Parent[call.keep] = call.who

TouchInv ==
  call.op = "touch" => /\ cls[call.who] = "actor" /\ cls[call.what] = "bag"
                       /\ ID_Parent[call.what] = InvalidID

DestroyInv ==
  call.op = "destroy" =>
    /\ \A k \in 1..Len(call.todo) : \A j \in 1..(k - 1) :
         Rank(cls[call.todo[k]]) < Rank(cls[call.todo[j]])
    /\ \A k \in 1..Len(call.todo) : cls[call.todo[k]] = "actor" =>
         \A b \in Ids : ID_Parent[b] = call.todo[k] => cls[b] # "bag"
    /\ call.who # InvalidID =>
         /\ Len(call.todo) = 1 /\ cls[call.todo[1]] = "bag"
         /\ children[call.todo[1]] = <<>>

CallInv == RespawnInv /\ DetachInv /\ TouchInv /\ DestroyInv

(* The entity tree, the bags and the running handler agree: the invariant  *)
(* from which the consistency of the tree is proved.                       *)
Inv == TypeOK /\ TreeInv /\ BagInv /\ CallInv
-----------------------------------------------------------------------------
(* Players: what PlayedEntities and OwnersKnown rest on.                   *)

(* An entity is owned by the server's client, by a client who is there and *)
(* whose player state names it, or by one whose farewell still waits and    *)
(* names it.                                                               *)
OwnersNameIt ==
  \A i \in entities : owner[i] # SV_Client =>
    IF owner[i] \in connected THEN GameID[owner[i]] = i
    ELSE \E k \in 1..Len(delayed) : delayed[k].client = owner[i] /\ delayed[k].GameID = i

OneFarewell ==
  \A k \in 1..Len(delayed) :
    /\ delayed[k].client \notin connected
    /\ \A j \in 1..Len(delayed) : delayed[j].client = delayed[k].client => j = k

OwnGameIDs ==
  \A c \in connected :
    /\ \A d \in connected : GameID[d] = GameID[c] => d = c
    /\ \A k \in 1..Len(delayed) : delayed[k].GameID # GameID[c]

PlayersInv == PlayedEntities /\ OwnersNameIt /\ OneFarewell /\ OwnGameIDs
=============================================================================
