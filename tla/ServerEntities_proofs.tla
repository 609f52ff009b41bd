------------------------ MODULE ServerEntities_proofs ------------------------
(***************************************************************************)
(* ServerEntities: type correctness; what each change of the entity tree   *)
(* preserves of its shape; the inductive invariant and what follows from   *)
(* it; players and their entities, for any number of ids and clients and   *)
(* whatever the network thread interrupts.  Then IdGenerator, from which   *)
(* the entities get their ids: for every range of ids and every block size *)
(* its arrays hold exactly the ids that are not held, so that it never     *)
(* gives an id that is in use, and ids that were freed come last.          *)
(***************************************************************************)
EXTENDS ServerEntitiesInv, IdGenerator, SequenceLemmas

(* The server thread outside every handler.                                *)
LEMMA IdleCallType == IdleCall \in Calls
<1>1. <<>> \in Seq(Ids) /\ <<>> \in Seq(Classes)
  BY EmptySeq
<1> QED
  BY <1>1 DEF IdleCall, Calls

(* Type correctness, part by part.                                         *)
LEMMA TypeInit == Init => TypeOK
<1> SUFFICES ASSUME Init PROVE TypeOK
  OBVIOUS
<1>1. TreeType
  <2>1. <<>> \in Seq(Ids)
    BY EmptySeq
  <2> QED
    BY <2>1 DEF Init, TreeType, Classes
<1>2. ObjectType
  BY DEF Init, ObjectType
<1>3. PlayerType
  <2>1. /\ <<>> \in Seq(Ids \cup {InvalidID}) /\ Len(<<>>) = 0
        /\ <<>> \in Seq([client : Clients, GameID : Ids \cup {InvalidID}])
    BY EmptySeq
  <2> QED
    BY <2>1, BoundsAssumption DEF Init, PlayerType
<1>4. GameType
  BY EmptySeq DEF Init, GameType
<1>5. CallType
  BY IdleCallType DEF Init, CallType, IdleCall
<1> QED
  BY <1>1, <1>2, <1>3, <1>4, <1>5 DEF TypeOK

(* A generated id is free: not in the map, and not named by the game.      *)
LEMMA GeneratedIDs ==
  ASSUME NEW id \in PerformIDgen(FreeIDs)
  PROVE  id \in Ids /\ id \notin entities /\ id \notin StillNamed
BY GeneratorAssumption DEF FreeIDs

(* Process_spawn.                                                          *)
LEMMA SpawnType ==
  ASSUME TypeOK, NEW id \in Ids, NEW class \in Classes,
         NEW p \in Ids \cup {InvalidID}, NEW c \in Clients \cup {SV_Client},
         Process_spawn(id, class, p, c)
  PROVE  TreeType'
<1>1. \A q \in Ids : Append(children[q], id) \in Seq(Ids)
  BY AppendProperties DEF TypeOK, TreeType
<1> QED
  BY <1>1 DEF Process_spawn, TypeOK, TreeType

(* Perform_transfer.                                                       *)
LEMMA TransferType ==
  ASSUME TypeOK, NEW x \in Ids, NEW f \in Ids, NEW t \in Ids,
         Perform_transfer(x, f, t)
  PROVE  /\ entities' \subseteq Ids /\ cls' \in [Ids -> Classes]
         /\ ID_Parent' \in [Ids -> Ids \cup {InvalidID}]
         /\ children' \in [Ids -> Seq(Ids)]
<1>1. \A q \in Seq(Ids) : Append(q, x) \in Seq(Ids) /\ RemoveFirst(q, x) \in Seq(Ids)
  BY AppendProperties, SeqTypes
<1> QED
  BY <1>1 DEF Perform_transfer, TypeOK, TreeType

(* Process_event_reject.                                                    *)
LEMMA DetachedType ==
  ASSUME TypeOK, NEW x \in Ids
  PROVE  Detached(x) \in [Ids -> Seq(Ids)]
BY SeqTypes DEF Detached, TypeOK, TreeType

(* Process_event_destroy.                                                  *)
LEMMA DestroyType ==
  ASSUME TypeOK, NEW x \in Ids, Destroy_leaf(x)
  PROVE  TreeType' /\ ObjectType' /\ PlayerType'
<1>1. TreeType'
  BY DetachedType DEF Destroy_leaf, TypeOK, TreeType, Classes
<1>2. ObjectType'
  BY DEF Destroy_leaf, TypeOK, ObjectType
<1>3. PlayerType'
  BY DEF Destroy_leaf, TypeOK, PlayerType, NobodyPlays
<1> QED
  BY <1>1, <1>2, <1>3

(* SetGameID keeps at most MaxOldIDs ids.                                  *)
LEMMA RememberType ==
  ASSUME NEW S, NEW old \in Seq(S), NEW i \in S, Len(old) <= MaxOldIDs
  PROVE  Remember(old, i) \in Seq(S) /\ Len(Remember(old, i)) <= MaxOldIDs
<1>1. Len(old) \in Nat
  BY LenProperties
<1>2. CASE Len(old) >= MaxOldIDs
  <2>1. old # <<>>
    BY <1>2, BoundsAssumption, EmptySeq
  <2>2. Tail(old) \in Seq(S) /\ Len(Tail(old)) = Len(old) - 1
    BY <2>1, HeadTailProperties
  <2> QED
    BY <1>1, <1>2, <2>2, AppendProperties, BoundsAssumption DEF Remember
<1>3. CASE ~(Len(old) >= MaxOldIDs)
  BY <1>1, <1>3, AppendProperties, BoundsAssumption DEF Remember
<1> QED
  BY <1>2, <1>3

(* The bag and the default items.                                          *)
LEMMA HandoutType == Handout \in Seq(Classes) /\ Handout # <<>>
<1>1. DefaultItems \in Seq(Classes) /\ <<"bag">> \in Seq(Classes) /\ Len(<<"bag">>) = 1
  BY ItemsAssumption, SeqMonotonic, EmptySeq DEF Classes, ItemClasses
<1> QED
  BY <1>1, ConcatProperties, ConcatEqualIffEmpty, EmptySeq DEF Handout

(* SpawnPlayer starts the handing out.                                     *)
LEMMA SpawnActorType ==
  ASSUME TypeOK, NEW c \in Clients, NEW id \in Ids, SpawnActor(c, id),
         UNCHANGED <<connected, delayed>>
  PROVE  PlayerType' /\ alive' \subseteq Ids /\ call' \in Calls
<1>1. /\ Remember(mOldIDs[c], GameID[c]) \in Seq(Ids \cup {InvalidID})
      /\ Len(Remember(mOldIDs[c], GameID[c])) <= MaxOldIDs
  BY RememberType DEF TypeOK, PlayerType
<1>2. PlayerType'
  BY <1>1 DEF SpawnActor, TypeOK, PlayerType
<1>3. call' \in Calls
  BY IdleCallType, HandoutType DEF SpawnActor, Calls
<1> QED
  BY <1>2, <1>3 DEF SpawnActor, TypeOK, ObjectType

(* std::find, for an element that is there.                                *)
LEMMA IndexType ==
  ASSUME NEW S, NEW s \in Seq(S), NEW x
  PROVE  /\ IndexOf(s, x) \in Nat
         /\ (\E i \in 1..Len(s) : s[i] = x) =>
              IndexOf(s, x) \in 1..Len(s) /\ s[IndexOf(s, x)] = x
<1> DEFINE I == {i \in 1..Len(s) : s[i] = x}
<1>1. IndexOf(s, x) = IF I # {} THEN Min(I) ELSE 0
  BY DEF IndexOf, SelectInSeq
<1>2. I \in SUBSET Nat
  BY LenProperties
<1>3. I # {} => Min(I) \in I
  <2> HIDE DEF I
  <2> QED BY <1>2, MinOfNats
<1> QED
  BY <1>1, <1>3, LenProperties

(* The first child to transfer into the bag.                               *)
LEMMA FirstTransfer ==
  ASSUME TypeOK, call.who \in Ids, ToTransfer # 0
  PROVE  /\ ToTransfer \in 1..Len(children[call.who])
         /\ cls[children[call.who][ToTransfer]] = "item"
         /\ children[call.who][ToTransfer] # call.keep
         /\ children[call.who][ToTransfer] \in Ids
<1> DEFINE I == {i \in 1..Len(children[call.who]) :
                   /\ cls[children[call.who][i]] = "item"
                   /\ children[call.who][i] # call.keep}
<1>1. ToTransfer = IF I # {} THEN Min(I) ELSE 0
  BY DEF ToTransfer, SelectInSeq
<1>2. I \in SUBSET Nat /\ \A i \in I : children[call.who][i] \in Ids
  BY LenProperties, ElementOfSeq DEF TypeOK, TreeType
<1>3. I # {} => Min(I) \in I
  <2> HIDE DEF I
  <2> QED BY <1>2, MinOfNats
<1> QED
  BY <1>1, <1>2, <1>3

(* The first child to destroy.                                             *)
LEMMA FirstDestroy ==
  ASSUME TypeOK, call.who \in Ids, ToDestroy # 0
  PROVE  /\ ToDestroy \in 1..Len(children[call.who])
         /\ cls[children[call.who][ToDestroy]] = "tool"
         /\ children[call.who][ToDestroy] \in Ids
<1> DEFINE I == {i \in 1..Len(children[call.who]) : cls[children[call.who][i]] = "tool"}
<1>1. ToDestroy = IF I # {} THEN Min(I) ELSE 0
  BY DEF ToDestroy, SelectInSeq
<1>2. I \in SUBSET Nat /\ \A i \in I : children[call.who][i] \in Ids
  BY LenProperties, ElementOfSeq DEF TypeOK, TreeType
<1>3. I # {} => Min(I) \in I
  <2> HIDE DEF I
  <2> QED BY <1>2, MinOfNats
<1> QED
  BY <1>1, <1>2, <1>3

(* Update's choice of a corpse.                                            *)
FirstRemovable == SelectInSeq(m_CorpseList, Removable)

(* It is in the list, and out of the map or without children.              *)
LEMMA FirstCorpse ==
  ASSUME TypeOK, FirstRemovable # 0
  PROVE  /\ FirstRemovable \in 1..Len(m_CorpseList)
         /\ m_CorpseList[FirstRemovable] \in Ids
         /\ \/ m_CorpseList[FirstRemovable] \notin entities
            \/ children[m_CorpseList[FirstRemovable]] = <<>>
<1> DEFINE I == {i \in 1..Len(m_CorpseList) : Removable(m_CorpseList[i])}
<1>1. FirstRemovable = IF I # {} THEN Min(I) ELSE 0
  BY DEF FirstRemovable, SelectInSeq
<1>2. I \in SUBSET Nat /\ \A i \in I : m_CorpseList[i] \in Ids
  BY LenProperties, ElementOfSeq DEF TypeOK, GameType
<1>3. I # {} => Min(I) \in I
  <2> HIDE DEF I
  <2> QED BY <1>2, MinOfNats
<1>4. FirstRemovable \in I
  BY <1>1, <1>3
<1> QED
  BY <1>2, <1>4 DEF Removable

(* Every handler keeps the types.                                          *)
LEMMA TypeStep == TypeOK /\ [Next]_vars => TypeOK'
<1> SUFFICES ASSUME TypeOK, [Next]_vars PROVE TypeOK'
  OBVIOUS
<1> USE DEF tree, objects, players, game, Idle, Running
<1>1. ASSUME NEW c \in Clients, OnPlayerConnectFinished(c) PROVE TypeOK'
  <2>1. PICK id \in PerformIDgen(FreeIDs), pooled \in {GameID[c], InvalidID} :
          /\ Process_spawn(id, "spectator", InvalidID, c)
          /\ connected' = connected \cup {c}
          /\ main' = [main EXCEPT ![c] = id]
          /\ GameID' = [GameID EXCEPT ![c] = id]
          /\ mOldIDs' = [mOldIDs EXCEPT ![c] = <<pooled>>]
    BY <1>1 DEF OnPlayerConnectFinished
  <2>2. TreeType'
    BY <2>1, GeneratedIDs, SpawnType DEF Classes
  <2>3. /\ <<pooled>> \in Seq(Ids \cup {InvalidID}) /\ Len(<<pooled>>) = 1
        /\ Len(<<pooled>>) <= MaxOldIDs
    BY <2>1, BoundsAssumption DEF TypeOK, PlayerType
  <2>4. PlayerType'
    BY <1>1, <2>1, <2>3, GeneratedIDs DEF OnPlayerConnectFinished, TypeOK, PlayerType
  <2> QED
    BY <1>1, <2>2, <2>4 DEF OnPlayerConnectFinished, TypeOK, ObjectType, GameType, CallType
<1>2. ASSUME NEW c \in Clients, OnCL_Disconnected(c) PROVE TypeOK'
  <2>1. Append(delayed, [client |-> c, GameID |-> GameID[c]])
          \in Seq([client : Clients, GameID : Ids \cup {InvalidID}])
    BY AppendProperties DEF TypeOK, PlayerType
  <2>2. PlayerType'
    BY <1>2, <2>1, EmptySeq, BoundsAssumption DEF OnCL_Disconnected, TypeOK, PlayerType
  <2> QED
    BY <1>2, <2>2 DEF OnCL_Disconnected, TypeOK, TreeType, ObjectType, GameType, CallType
<1>3. ASSUME NEW c \in Clients, RespawnSpectator(c) PROVE TypeOK'
  <2>1. PICK id \in PerformIDgen(FreeIDs) :
          /\ entities' = (entities \ {main[c]}) \cup {id}
          /\ cls' = [cls EXCEPT ![main[c]] = "item", ![id] = "actor"]
          /\ owner' = [owner EXCEPT ![main[c]] = SV_Client, ![id] = c]
          /\ SpawnActor(c, id)
    BY <1>3 DEF RespawnSpectator
  <2>2. PlayerType' /\ alive' \subseteq Ids /\ call' \in Calls
    BY <1>3, <2>1, GeneratedIDs, SpawnActorType DEF RespawnSpectator
  <2>3. TreeType'
    <3>1. id \in Ids /\ UNCHANGED <<ID_Parent, children>>
      BY <1>3, <2>1, GeneratedIDs DEF RespawnSpectator
    <3>2. cls' \in [Ids -> Classes] /\ owner' \in [Ids -> Clients \cup {SV_Client}]
      BY <2>1, <3>1 DEF TypeOK, TreeType, Classes
    <3> QED
      BY <2>1, <3>1, <3>2 DEF TypeOK, TreeType
  <2>4. CallType'
    BY <1>3, <2>1, <2>2, GeneratedIDs, HandoutType
       DEF RespawnSpectator, SpawnActor, IdleCall, Calls, TypeOK, CallType
  <2>5. GameType'
    BY <1>3, SeqTypes DEF RespawnSpectator, TypeOK, GameType
  <2> QED
    BY <1>3, <2>2, <2>3, <2>4, <2>5 DEF RespawnSpectator, TypeOK, ObjectType
<1>4. ASSUME NEW c \in Clients, RespawnActor(c) PROVE TypeOK'
  <2>1. PICK id \in PerformIDgen(FreeIDs) :
          /\ entities' = entities \cup {id}
          /\ cls' = [cls EXCEPT ![id] = "actor"]
          /\ owner' = [LeftToServer(owner, main[c]) EXCEPT ![id] = c]
          /\ SpawnActor(c, id)
    BY <1>4 DEF RespawnActor
  <2>2. PlayerType' /\ alive' \subseteq Ids /\ call' \in Calls
    BY <1>4, <2>1, GeneratedIDs, SpawnActorType DEF RespawnActor
  <2>3. TreeType'
    <3>1. id \in Ids /\ UNCHANGED <<ID_Parent, children>>
      BY <1>4, <2>1, GeneratedIDs DEF RespawnActor
    <3>2. cls' \in [Ids -> Classes] /\ owner' \in [Ids -> Clients \cup {SV_Client}]
      BY <2>1, <3>1 DEF LeftToServer, TypeOK, TreeType, Classes
    <3> QED
      BY <2>1, <3>1, <3>2 DEF TypeOK, TreeType
  <2>4. CallType'
    BY <1>4, <2>1, <2>2, GeneratedIDs, HandoutType
       DEF RespawnActor, SpawnActor, IdleCall, Calls, TypeOK, CallType
  <2>5. main[c] \in Ids
    BY <1>4 DEF RespawnActor, TypeOK, PlayerType
  <2>6. GameType' /\ ObjectType'
    BY <1>4, <2>2, <2>5, AppendProperties DEF RespawnActor, TypeOK, GameType, ObjectType
  <2> QED
    BY <2>2, <2>3, <2>4, <2>6 DEF TypeOK
<1>5. CASE OnPlayerDisconnect
  <2>1. /\ Head(delayed) \in [client : Clients, GameID : Ids \cup {InvalidID}]
        /\ Tail(delayed) \in Seq([client : Clients, GameID : Ids \cup {InvalidID}])
    BY <1>5, HeadTailProperties DEF OnPlayerDisconnect, TypeOK, PlayerType
  <2>2. PlayerType'
    BY <1>5, <2>1 DEF OnPlayerDisconnect, TypeOK, PlayerType
  <2>3. CASE Head(delayed).GameID \in entities
    <3>1. Append(m_CorpseList, Head(delayed).GameID) \in Seq(Ids)
      BY <2>3, AppendProperties DEF TypeOK, TreeType, GameType
    <3> QED
      BY <1>5, <2>2, <2>3, <3>1
         DEF OnPlayerDisconnect, LeftToServer, TypeOK, TreeType, ObjectType, GameType, CallType
  <2>4. CASE Head(delayed).GameID \notin entities
    BY <1>5, <2>2, <2>4
       DEF OnPlayerDisconnect, TypeOK, TreeType, ObjectType, GameType, CallType
  <2> QED
    BY <2>3, <2>4
<1>6. CASE SpawnItemToActor
  <2>1. /\ call.who \in Ids /\ call.left \in Seq(Classes) /\ call.left # <<>>
        /\ Head(call.left) \in Classes /\ Tail(call.left) \in Seq(Classes)
        /\ Len(call.left) # 1 => Tail(call.left) # <<>>
    <3>1. call.who \in Ids /\ call.left \in Seq(Classes) /\ call.left # <<>>
      BY <1>6 DEF SpawnItemToActor, TypeOK, CallType, Calls
    <3>2. /\ Head(call.left) \in Classes /\ Tail(call.left) \in Seq(Classes)
          /\ Len(Tail(call.left)) = Len(call.left) - 1
      BY <3>1, HeadTailProperties
    <3>3. Len(call.left) # 1 => Len(Tail(call.left)) # 0
      BY <3>1, <3>2, EmptySeq
    <3> QED
      BY <3>1, <3>2, <3>3, LenZero
  <2>2. CASE UNCHANGED <<tree, owner>> /\ call' = IdleCall
    BY <1>6, <2>2, IdleCallType
       DEF SpawnItemToActor, TypeOK, TreeType, ObjectType, PlayerType, GameType, CallType, IdleCall
  <2>3. ASSUME NEW id \in PerformIDgen(FreeIDs),
               Process_spawn(id, Head(call.left), call.who, SV_Client),
               call' = IF Len(call.left) = 1 THEN IdleCall
                       ELSE [call EXCEPT !.left = Tail(@)]
        PROVE  TypeOK'
    <3>1. TreeType'
      BY <2>1, <2>3, GeneratedIDs, SpawnType
    <3>2. call' \in Calls
      BY <2>1, <2>3, IdleCallType DEF TypeOK, CallType, Calls
    <3>3. CallType'
      BY <1>6, <2>1, <2>3, <3>2 DEF SpawnItemToActor, TypeOK, CallType, Calls, IdleCall
    <3> QED
      BY <1>6, <3>1, <3>3
         DEF SpawnItemToActor, TypeOK, ObjectType, PlayerType, GameType
  <2> QED
    BY <1>6, <2>2, <2>3 DEF SpawnItemToActor
<1>7. ASSUME NEW class \in SpawnClasses, NEW p \in Ids \cup {InvalidID},
             SpawnItem(class, p)
      PROVE  TypeOK'
  <2>1. PICK id \in PerformIDgen(FreeIDs) : Process_spawn(id, class, p, SV_Client)
    BY <1>7 DEF SpawnItem
  <2>2. TreeType'
    BY <2>1, GeneratedIDs, SpawnType, ItemsAssumption DEF Classes, ItemClasses
  <2> QED
    BY <1>7, <2>2 DEF SpawnItem, TypeOK, ObjectType, PlayerType, GameType, CallType
<1>8. ASSUME NEW x \in Ids, Die(x) PROVE TypeOK'
  <2>1. DroppedAtDeath(x) \subseteq Ids
    BY ElementOfSeq, LenProperties DEF DroppedAtDeath, ToSet, TypeOK, TreeType
  <2> QED
    BY <1>8, <2>1 DEF Die, TypeOK, TreeType, ObjectType, PlayerType, GameType, CallType
<1>9. ASSUME NEW x \in Ids, RejectItem(x) PROVE TypeOK'
  <2>1. TreeType'
    BY <1>9, DetachedType DEF RejectItem, TypeOK, TreeType
  <2> QED
    BY <1>9, <2>1 DEF RejectItem, TypeOK, ObjectType, PlayerType, GameType, CallType
<1>10. ASSUME NEW x \in Ids, RejectBag(x) PROVE TypeOK'
  <2> DEFINE a == ID_Parent[x]
             c == IndexOf(children[a], x)
  <2>1. a \in Ids /\ children[a] \in Seq(Ids) /\ c \in Nat
    <3>1. a \in Ids /\ children[a] \in Seq(Ids)
      BY <1>10 DEF RejectBag, TypeOK, TreeType
    <3> QED
      BY <3>1, IndexType
  <2>2. CASE get_client(a)
    <3>1. PICK active \in {y \in ToSet(children[a]) : cls[y] = "item"} \cup {InvalidID} :
            call' = [IdleCall EXCEPT !.op = "detach", !.who = a, !.what = x,
                                     !.c = c, !.keep = active]
      BY <1>10, <2>2 DEF RejectBag
    <3>2. active \in Ids \cup {InvalidID}
      BY <2>1, <3>1, ElementOfSeq, LenProperties DEF ToSet
    <3>3. CallType'
      <4> HIDE DEF a, c
      <4>1. call' \in Calls /\ call'.op = "detach" /\ call'.who = a /\ call'.what = x
        BY <2>1, <3>1, <3>2, IdleCallType DEF Calls
      <4> QED
        BY <1>10, <2>1, <4>1 DEF RejectBag, TypeOK, CallType
    <3> QED
      BY <1>10, <2>2, <3>3
         DEF RejectBag, TypeOK, TreeType, ObjectType, PlayerType, GameType
  <2>3. CASE ~get_client(a)
    <3>1. TreeType'
      BY <1>10, <2>3, DetachedType DEF RejectBag, TypeOK, TreeType
    <3> QED
      BY <1>10, <2>3, <3>1
         DEF RejectBag, TypeOK, ObjectType, PlayerType, GameType, CallType
  <2> QED
    BY <2>2, <2>3
<1>11. ASSUME NEW x \in Ids, DestroyObject(x) PROVE TypeOK'
  <2>1. <<x>> \in Seq(Ids) /\ <<x>> # <<>>
    BY EmptySeq
  <2>2. CallType'
    BY <1>11, <2>1, IdleCallType DEF DestroyObject, TypeOK, CallType, Calls, IdleCall
  <2> QED
    BY <1>11, <2>2 DEF DestroyObject, TypeOK, TreeType, ObjectType, PlayerType, GameType
<1>12. ASSUME NEW a \in Ids, NEW x \in Ids, TakeItem(a, x) PROVE TypeOK'
  <2>1. TreeType'
    BY <1>12, AppendProperties DEF TakeItem, TypeOK, TreeType
  <2> QED
    BY <1>12, <2>1 DEF TakeItem, TypeOK, ObjectType, PlayerType, GameType, CallType
<1>13. ASSUME NEW a \in Ids, NEW x \in Ids, TakeBag(a, x) PROVE TypeOK'
  <2>1. CallType'
    BY <1>13, IdleCallType DEF TakeBag, TypeOK, CallType, Calls, IdleCall
  <2> QED
    BY <1>13, <2>1 DEF TakeBag, TypeOK, TreeType, ObjectType, PlayerType, GameType
<1>14. CASE DetachTransfer
  <2>1. call.who \in Ids /\ call.what \in Ids
    BY <1>14 DEF DetachTransfer, TypeOK, CallType
  <2>2. children[call.who][ToTransfer] \in Ids
    BY <1>14, <2>1, FirstTransfer DEF DetachTransfer
  <2>3. TreeType'
    BY <1>14, <2>1, <2>2, TransferType DEF DetachTransfer, TypeOK, TreeType
  <2> QED
    BY <1>14, <2>3 DEF DetachTransfer, TypeOK, ObjectType, PlayerType, GameType, CallType
<1>15. CASE DetachDestroy
  <2>1. call.who \in Ids
    BY <1>15 DEF DetachDestroy, TypeOK, CallType
  <2>2. children[call.who][ToDestroy] \in Ids
    BY <1>15, <2>1, FirstDestroy DEF DetachDestroy
  <2>3. TreeType' /\ ObjectType' /\ PlayerType'
    BY <1>15, <2>2, DestroyType DEF DetachDestroy
  <2> QED
    BY <1>15, <2>3, SeqTypes DEF DetachDestroy, TypeOK, GameType, CallType
<1>16. CASE DetachReject
  <2>1. call.keep \in Ids
    BY <1>16 DEF DetachReject, TypeOK, CallType, Calls
  <2>2. TreeType'
    BY <1>16, <2>1, DetachedType DEF DetachReject, TypeOK, TreeType
  <2>3. CallType'
    BY <1>16 DEF DetachReject, TypeOK, CallType, Calls
  <2> QED
    BY <1>16, <2>2, <2>3 DEF DetachReject, TypeOK, ObjectType, PlayerType, GameType
<1>17. CASE DetachErase
  <2>1. call.who \in Ids /\ call.what \in Ids /\ children[call.who] \in Seq(Ids)
    BY <1>17 DEF DetachErase, TypeOK, CallType, TreeType
  <2>2. CASE call.c \in DOMAIN children[call.who]
    <3>1. RemoveAt(children[call.who], call.c) \in Seq(Ids)
      BY <2>1, <2>2, RemoveAtProperties, LenProperties
    <3>2. TreeType'
      BY <1>17, <2>1, <2>2, <3>1 DEF DetachErase, TypeOK, TreeType
    <3> QED
      BY <1>17, <2>2, <3>2, IdleCallType
         DEF DetachErase, TypeOK, ObjectType, PlayerType, GameType, CallType, IdleCall
  <2>3. CASE call.c \notin DOMAIN children[call.who]
    BY <1>17, <2>3
       DEF DetachErase, TypeOK, TreeType, ObjectType, PlayerType, GameType, CallType
  <2> QED
    BY <2>2, <2>3
<1>18. CASE TouchTransfer
  <2>1. call.who \in Ids /\ call.what \in Ids
    BY <1>18 DEF TouchTransfer, TypeOK, CallType
  <2>2. Last(children[call.what]) \in Ids
    BY <1>18, <2>1, SeqTypes DEF TouchTransfer, TypeOK, TreeType
  <2>3. TreeType'
    BY <1>18, <2>1, <2>2, TransferType DEF TouchTransfer, TypeOK, TreeType
  <2> QED
    BY <1>18, <2>3 DEF TouchTransfer, TypeOK, ObjectType, PlayerType, GameType, CallType
<1>19. CASE TouchDestroy
  <2>1. call.who \in Ids /\ call.what \in Ids
    BY <1>19 DEF TouchDestroy, TypeOK, CallType
  <2>2. <<call.what>> \in Seq(Ids) /\ <<call.what>> # <<>>
    BY <2>1, EmptySeq
  <2>3. CallType'
    BY <1>19, <2>1, <2>2, IdleCallType DEF TouchDestroy, TypeOK, CallType, Calls, IdleCall
  <2> QED
    BY <1>19, <2>3 DEF TouchDestroy, TypeOK, TreeType, ObjectType, PlayerType, GameType
<1>20. CASE DestroyChild
  <2>1. call.todo \in Seq(Ids) /\ call.todo # <<>>
    BY <1>20 DEF DestroyChild, TypeOK, CallType, Calls
  <2>2. Last(call.todo) \in Ids /\ children[Last(call.todo)] \in Seq(Ids)
    BY <2>1, SeqTypes DEF TypeOK, TreeType
  <2>3. Head(children[Last(call.todo)]) \in Ids
    BY <1>20, <2>2, HeadTailProperties DEF DestroyChild
  <2>4. /\ Append(call.todo, Head(children[Last(call.todo)])) \in Seq(Ids)
        /\ Append(call.todo, Head(children[Last(call.todo)])) # <<>>
    BY <2>1, <2>3, AppendProperties
  <2>5. CallType'
    BY <1>20, <2>4 DEF DestroyChild, TypeOK, CallType, Calls
  <2> QED
    BY <1>20, <2>5 DEF DestroyChild, TypeOK, TreeType, ObjectType, PlayerType, GameType
<1>21. CASE DestroyLeaf
  <2>1. call.todo \in Seq(Ids) /\ call.todo # <<>>
    BY <1>21 DEF DestroyLeaf, TypeOK, CallType, Calls
  <2>2. Last(call.todo) \in Ids
    BY <2>1, SeqTypes
  <2>3. TreeType' /\ ObjectType' /\ PlayerType'
    BY <1>21, <2>2, DestroyType DEF DestroyLeaf
  <2>4. Front(call.todo) \in Seq(Ids) /\ (Len(call.todo) # 1 => Front(call.todo) # <<>>)
    BY <2>1, FrontProperties
  <2>5. CallType'
    <3>1. CASE Len(call.todo) = 1
      BY <1>21, <3>1, IdleCallType DEF DestroyLeaf, TypeOK, CallType, IdleCall
    <3>2. CASE Len(call.todo) # 1
      BY <1>21, <2>4, <3>2 DEF DestroyLeaf, TypeOK, CallType, Calls
    <3> QED
      BY <3>1, <3>2
  <2> QED
    BY <1>21, <2>3, <2>5, SeqTypes DEF DestroyLeaf, TypeOK, GameType
<1>22. CASE UpdateCorpses
  <2>1. CallType'
    <3>1. undefined' \in {"no", "entity", "client", "iterator"}
      BY <1>22 DEF UpdateCorpses, FirstRemovable, TypeOK, CallType
    <3>2. call' = IdleCall \/ call' = [IdleCall EXCEPT !.op = "corpses"]
      BY <1>22 DEF UpdateCorpses
    <3> QED
      BY <3>1, <3>2, IdleCallType DEF CallType, Calls, IdleCall
  <2>2. CASE /\ FirstRemovable # 0 /\ m_CorpseList[FirstRemovable] \in entities
             /\ Destroy_leaf(m_CorpseList[FirstRemovable])
             /\ m_CorpseList' = EraseEntry(RemoveFirst(m_CorpseList,
                                  m_CorpseList[FirstRemovable]), FirstRemovable)
    <3>1. TreeType' /\ ObjectType' /\ PlayerType'
      BY <2>2, FirstCorpse, DestroyType
    <3>2. \A list \in Seq(Ids) : EraseEntry(list, FirstRemovable) \in Seq(Ids)
      BY RemoveAtProperties, LenProperties DEF EraseEntry
    <3>3. m_CorpseList' \in Seq(Ids)
      BY <2>2, <3>2, SeqTypes DEF TypeOK, GameType
    <3> QED
      BY <1>22, <2>1, <3>1, <3>3 DEF UpdateCorpses, TypeOK, GameType
  <2>3. CASE /\ FirstRemovable # 0
             /\ m_CorpseList' = RemoveAt(m_CorpseList, FirstRemovable)
             /\ UNCHANGED <<tree, owner, objects, players, undefined>>
    <3>1. m_CorpseList' \in Seq(Ids)
      BY <2>3, FirstCorpse, RemoveAtProperties DEF TypeOK, GameType
    <3> QED
      BY <1>22, <2>1, <2>3, <3>1
         DEF UpdateCorpses, TypeOK, TreeType, ObjectType, PlayerType, GameType
  <2>4. CASE UNCHANGED <<tree, owner, objects, players, m_CorpseList, undefined>>
    BY <1>22, <2>1, <2>4
       DEF UpdateCorpses, TypeOK, TreeType, ObjectType, PlayerType, GameType
  <2> QED
    BY <1>22, <2>2, <2>3, <2>4 DEF UpdateCorpses, FirstRemovable
<1>23. CASE UpdateCorpsesDone
  BY <1>23, IdleCallType
     DEF UpdateCorpsesDone, TypeOK, TreeType, ObjectType, PlayerType, GameType, CallType, IdleCall
<1>24. CASE UpdateToDestroy
  BY <1>24
     DEF UpdateToDestroy, TypeOK, TreeType, ObjectType, PlayerType, GameType, CallType, Classes
<1>25. CASE OnRoundStart
  <2>1. TreeType'
    BY <1>25, EmptySeq DEF OnRoundStart, TypeOK, TreeType, Classes
  <2>2. /\ <<>> \in Seq([client : Clients, GameID : Ids \cup {InvalidID}])
        /\ <<>> \in Seq(Ids)
    BY EmptySeq
  <2>3. PlayerType'
    BY <1>25, <2>2 DEF OnRoundStart, NobodyPlays, TypeOK, PlayerType
  <2>4. GameType'
    BY <1>25, <2>2 DEF OnRoundStart, TypeOK, GameType, TreeType
  <2> QED
    BY <1>25, <2>1, <2>3, <2>4 DEF OnRoundStart, TypeOK, ObjectType, CallType
<1>26. CASE UNCHANGED vars
  BY <1>26 DEF vars, TypeOK, TreeType, ObjectType, PlayerType, GameType, CallType
<1> QED
  BY <1>1, <1>2, <1>3, <1>4, <1>5, <1>6, <1>7, <1>8, <1>9, <1>10, <1>11, <1>12,
     <1>13, <1>14, <1>15, <1>16, <1>17, <1>18, <1>19, <1>20, <1>21, <1>22, <1>23,
     <1>24, <1>25, <1>26 DEF Next

(* In every reachable state every variable has its type: no id, class or   *)
(* list outside its domain appears whatever the handlers do.               *)
THEOREM TypeCorrect == Spec => []TypeOK
<1>1. Init => TypeOK
  BY TypeInit
<1>2. TypeOK /\ [Next]_vars => TypeOK'
  BY TypeStep
<1> QED
  BY <1>1, <1>2, PTL DEF Spec
-----------------------------------------------------------------------------
(* The four changes the handlers make to the entity tree keep its shape:   *)
(* an entity leaves its parent, joins one, enters the map, leaves the map. *)

(* x is taken from its parent.                                             *)
LEMMA DetachTree ==
  ASSUME NEW E, NEW K, NEW P, NEW C, Tree(E, K, P, C),
         NEW x \in Ids, P[x] # InvalidID
  PROVE  Tree(E, K, [P EXCEPT ![x] = InvalidID],
                    [C EXCEPT ![P[x]] = RemoveFirst(@, x)])
<1> DEFINE p == P[x]
           r == RemoveFirst(C[p], x)
           P1 == [P EXCEPT ![x] = InvalidID]
           C1 == [C EXCEPT ![p] = r]
<1>1. /\ E \subseteq Ids /\ K \in [Ids -> Classes]
      /\ P \in [Ids -> Ids \cup {InvalidID}] /\ C \in [Ids -> Seq(Ids)]
      /\ p \in Ids /\ x \in E
  BY DEF Tree, TreeShape, Unused
<1>2. PICK k \in 1..Len(C[p]) : C[p][k] = x
  BY <1>1 DEF Tree, Placed
<1>3. /\ r \in Seq(Ids)
      /\ \A j \in 1..Len(r) : \E m \in 1..Len(C[p]) : r[j] = C[p][m] /\ C[p][m] # x /\ j <= m
      /\ \A m \in 1..Len(C[p]) : C[p][m] # x => \E j \in 1..Len(r) : r[j] = C[p][m]
      /\ \A i, j \in 1..Len(r) : r[i] = r[j] => i = j
  <2> DEFINE s == C[p]
  <2>1. Distinct(s)
    BY <1>1 DEF Tree, Once, Distinct
  <2>2. s \in Seq(Ids) /\ k \in 1..Len(s) /\ s[k] = x /\ r = RemoveFirst(s, x)
    BY <1>1, <1>2
  <2>3. s = C[p]
    OBVIOUS
  <2> HIDE DEF s, r, p
  <2>4. /\ r \in Seq(Ids)
        /\ AllBut(r, s, x) /\ Distinct(r)
    BY <2>1, <2>2, RemovedMembers
  <2> QED
    BY <2>3, <2>4 DEF Distinct, AllBut
<1> HIDE DEF r, p
<1>4. /\ \A i \in Ids : P1[i] = IF i = x THEN InvalidID ELSE P[i]
      /\ \A i \in Ids : C1[i] = IF i = p THEN r ELSE C[i]
  BY <1>1
<1>5. TreeShape(E, K, P1, C1)
  BY <1>1, <1>3 DEF TreeShape
<1> HIDE DEF P1, C1
<1>6. Placed(E, P1, C1)
  <2> SUFFICES ASSUME NEW i \in E, P1[i] # InvalidID
               PROVE  \E m \in 1..Len(C1[P1[i]]) : C1[P1[i]][m] = i
    BY DEF Placed
  <2>1. i # x /\ P1[i] = P[i] /\ P[i] \in Ids
    BY <1>1, <1>4
  <2>2. PICK m \in 1..Len(C[P[i]]) : C[P[i]][m] = i
    BY <2>1 DEF Tree, Placed
  <2>3. CASE P[i] = p
    <3>1. PICK j \in 1..Len(r) : r[j] = i
      BY <1>3, <2>1, <2>2, <2>3, SMTT(40)
    <3> QED
      BY <1>4, <2>1, <2>3, <3>1
  <2>4. CASE P[i] # p
    BY <1>4, <2>1, <2>2, <2>4
  <2> QED
    BY <2>3, <2>4
<1>7. Listed(E, K, P1, C1)
  <2> SUFFICES ASSUME NEW i \in Ids, NEW j \in 1..Len(C1[i])
               PROVE  /\ C1[i][j] \in E /\ P1[C1[i][j]] = i
                      /\ Rank(K[C1[i][j]]) < Rank(K[i])
    BY DEF Listed
  <2>1. PICK m \in 1..Len(C[i]) : C1[i][j] = C[i][m] /\ C[i][m] # x
    <3>1. CASE i = p
      BY <1>3, <1>4, <3>1
    <3>2. CASE i # p
      <4>1. C1[i] = C[i]
        BY <1>4, <3>2
      <4>2. P[C[i][j]] = i
        BY <4>1 DEF Tree, Listed
      <4> QED
        BY <3>2, <4>1, <4>2 DEF p
    <3> QED
      BY <3>1, <3>2
  <2>2. C[i][m] \in E /\ P[C[i][m]] = i /\ Rank(K[C[i][m]]) < Rank(K[i])
    BY DEF Tree, Listed
  <2> QED
    BY <1>1, <1>4, <2>1, <2>2
<1>8. Once(C1)
  <2> SUFFICES ASSUME NEW i \in Ids, NEW j \in 1..Len(C1[i]), NEW k2 \in 1..Len(C1[i]),
                      C1[i][j] = C1[i][k2]
               PROVE  j = k2
    BY DEF Once
  <2>1. CASE i = p
    BY <1>3, <1>4, <2>1
  <2>2. CASE i # p
    BY <1>4, <2>2 DEF Tree, Once
  <2> QED
    BY <2>1, <2>2
<1>9. Unused(E, K, P1) /\ SpectatorsAlone(K, P1)
  BY <1>4 DEF Tree, Unused, SpectatorsAlone
<1>10. BagFirst(K, C1)
  <2> SUFFICES ASSUME NEW i \in Ids, NEW j \in 1..Len(C1[i]), K[C1[i][j]] = "bag"
               PROVE  j = 1
    BY DEF BagFirst
  <2>1. CASE i = p
    <3>1. PICK m \in 1..Len(C[p]) : r[j] = C[p][m] /\ j <= m
      BY <1>3, <1>4, <2>1
    <3>2. m = 1
      <4>1. C1[p] = r /\ p \in Ids
        BY <1>4, <2>1
      <4>2. K[C[p][m]] = "bag"
        BY <2>1, <3>1, <4>1
      <4>3. BagFirst(K, C)
        BY DEF Tree
      <4> QED
        BY <3>1, <4>1, <4>2, <4>3 DEF BagFirst
    <3> QED
      BY <3>1, <3>2
  <2>2. CASE i # p
    BY <1>4, <2>2 DEF Tree, BagFirst
  <2> QED
    BY <2>1, <2>2
<1> QED
  BY <1>5, <1>6, <1>7, <1>8, <1>9, <1>10 DEF Tree, P1, C1, r, p

(* x, without a parent, joins the children of p as the last one.           *)
LEMMA AttachTree ==
  ASSUME NEW E, NEW K, NEW P, NEW C, Tree(E, K, P, C),
         NEW x \in E, P[x] = InvalidID, NEW p \in Ids,
         Rank(K[x]) < Rank(K[p]), K[x] # "spectator",
         K[x] = "bag" => C[p] = <<>>
  PROVE  Tree(E, K, [P EXCEPT ![x] = p], [C EXCEPT ![p] = Append(@, x)])
<1> DEFINE r == Append(C[p], x)
           P1 == [P EXCEPT ![x] = p]
           C1 == [C EXCEPT ![p] = r]
<1>1. /\ E \subseteq Ids /\ K \in [Ids -> Classes] /\ x \in Ids
      /\ P \in [Ids -> Ids \cup {InvalidID}] /\ C \in [Ids -> Seq(Ids)]
      /\ p # InvalidID
  BY NamesAssumption DEF Tree, TreeShape
<1>2. PICK n \in Nat : n = Len(C[p])
  BY <1>1, LenProperties
<1>3. /\ r \in Seq(Ids) /\ Len(r) = n + 1 /\ r[n + 1] = x
      /\ \A j \in 1..n : r[j] = C[p][j]
  BY <1>1, <1>2, AppendProperties
<1> HIDE DEF r
<1>4. /\ \A i \in Ids : P1[i] = IF i = x THEN p ELSE P[i]
      /\ \A i \in Ids : C1[i] = IF i = p THEN r ELSE C[i]
  BY <1>1
<1>5. TreeShape(E, K, P1, C1)
  BY <1>1, <1>3 DEF TreeShape
<1> HIDE DEF P1, C1
<1>6. ASSUME NEW i \in Ids, NEW j \in 1..Len(C[i]) PROVE C[i][j] # x
  BY <1>1, <1>6, NamesAssumption DEF Tree, Listed
<1>7. Placed(E, P1, C1)
  <2> SUFFICES ASSUME NEW i \in E, P1[i] # InvalidID
               PROVE  \E m \in 1..Len(C1[P1[i]]) : C1[P1[i]][m] = i
    BY DEF Placed
  <2>1. CASE i = x
    <3>1. P1[i] = p /\ C1[p] = r
      BY <1>1, <1>4, <2>1
    <3>2. n + 1 \in 1..Len(r) /\ r[n + 1] = i
      BY <1>2, <1>3, <2>1
    <3> QED
      BY <3>1, <3>2
  <2>2. CASE i # x
    <3>1. P1[i] = P[i] /\ P[i] \in Ids
      BY <1>1, <1>4, <2>2
    <3>2. PICK m \in 1..Len(C[P[i]]) : C[P[i]][m] = i
      BY <3>1 DEF Tree, Placed
    <3>3. CASE P[i] = p
      <4>1. m \in 1..(n + 1) /\ r[m] = i
        BY <1>2, <1>3, <3>2, <3>3
      <4> QED
        BY <1>3, <1>4, <3>1, <3>3, <4>1
    <3>4. CASE P[i] # p
      BY <1>4, <3>1, <3>2, <3>4
    <3> QED
      BY <3>3, <3>4
  <2> QED
    BY <2>1, <2>2
<1>8. Listed(E, K, P1, C1)
  <2> SUFFICES ASSUME NEW i \in Ids, NEW j \in 1..Len(C1[i])
               PROVE  /\ C1[i][j] \in E /\ P1[C1[i][j]] = i
                      /\ Rank(K[C1[i][j]]) < Rank(K[i])
    BY DEF Listed
  <2>1. CASE i = p /\ j = n + 1
    BY <1>1, <1>3, <1>4, <2>1
  <2>2. CASE j \in 1..Len(C[i]) /\ C1[i][j] = C[i][j]
    <3>1. C[i][j] \in E /\ P[C[i][j]] = i /\ Rank(K[C[i][j]]) < Rank(K[i])
      BY <2>2 DEF Tree, Listed
    <3> QED
      BY <1>1, <1>4, <1>6, <2>2, <3>1
  <2>3. (i = p /\ j = n + 1) \/ (j \in 1..Len(C[i]) /\ C1[i][j] = C[i][j])
    BY <1>2, <1>3, <1>4
  <2> QED
    BY <2>1, <2>2, <2>3
<1>9. Once(C1)
  <2> SUFFICES ASSUME NEW i \in Ids, NEW j \in 1..Len(C1[i]), NEW k \in 1..Len(C1[i]),
                      C1[i][j] = C1[i][k]
               PROVE  j = k
    BY DEF Once
  <2>1. CASE i = p
    <3>1. j \in 1..(n + 1) /\ k \in 1..(n + 1) /\ r[j] = r[k]
      BY <1>3, <1>4, <2>1
    <3>2. \A m \in 1..n : r[m] # x /\ r[m] = C[p][m]
      BY <1>2, <1>3, <1>6
    <3>3. CASE j \in 1..n /\ k \in 1..n
      BY <1>2, <3>1, <3>2, <3>3 DEF Tree, Once
    <3>4. CASE j = n + 1 \/ k = n + 1
      BY <1>2, <1>3, <3>1, <3>2, <3>4
    <3> QED
      BY <1>2, <3>1, <3>3, <3>4
  <2>2. CASE i # p
    BY <1>4, <2>2 DEF Tree, Once
  <2> QED
    BY <2>1, <2>2
<1>10. Unused(E, K, P1) /\ SpectatorsAlone(K, P1)
  BY <1>1, <1>4 DEF Tree, Unused, SpectatorsAlone
<1>11. BagFirst(K, C1)
  <2> SUFFICES ASSUME NEW i \in Ids, NEW j \in 1..Len(C1[i]), K[C1[i][j]] = "bag"
               PROVE  j = 1
    BY DEF BagFirst
  <2>1. CASE i = p /\ j = n + 1
    <3>1. C[p] = <<>>
      BY <1>3, <1>4, <2>1
    <3>2. n = 0
      BY <1>2, <3>1
    <3> QED
      BY <2>1, <3>2
  <2>2. CASE j \in 1..Len(C[i]) /\ C1[i][j] = C[i][j]
    BY <2>2 DEF Tree, BagFirst
  <2>3. (i = p /\ j = n + 1) \/ (j \in 1..Len(C[i]) /\ C1[i][j] = C[i][j])
    BY <1>2, <1>3, <1>4
  <2> QED
    BY <2>1, <2>2, <2>3
<1> QED
  BY <1>5, <1>7, <1>8, <1>9, <1>10, <1>11 DEF Tree, P1, C1, r

(* An id that is not in use has no children.                               *)
LEMMA UnusedChildless ==
  ASSUME NEW E, NEW K, NEW P, NEW C, Tree(E, K, P, C), NEW x \in Ids,
         Rank(K[x]) = 0
  PROVE  C[x] = <<>>
<1>1. C[x] \in Seq(Ids) /\ Len(C[x]) \in Nat
  BY LenProperties DEF Tree, TreeShape
<1>2. \A k \in 1..Len(C[x]) : Rank(K[C[x][k]]) >= 0
  BY DEF Rank
<1>3. ~(1 \in 1..Len(C[x]))
  BY <1>2 DEF Tree, Listed, Rank
<1> QED
  BY <1>1, <1>3, EmptySeq

(* x enters the map, with any class, on its own.                           *)
LEMMA AddTree ==
  ASSUME NEW E, NEW K, NEW P, NEW C, Tree(E, K, P, C),
         NEW x \in Ids \ E, NEW class \in Classes
  PROVE  Tree(E \cup {x}, [K EXCEPT ![x] = class], P, C)
<1> DEFINE K1 == [K EXCEPT ![x] = class]
<1>1. /\ E \subseteq Ids /\ K \in [Ids -> Classes]
      /\ P \in [Ids -> Ids \cup {InvalidID}] /\ C \in [Ids -> Seq(Ids)]
  BY DEF Tree, TreeShape
<1>2. K[x] = "item" /\ P[x] = InvalidID /\ C[x] = <<>>
  BY UnusedChildless DEF Tree, Unused, Rank
<1>3. \A i \in Ids : K1[i] = IF i = x THEN class ELSE K[i]
  BY <1>1
<1>4. TreeShape(E \cup {x}, K1, P, C)
  BY <1>1 DEF TreeShape
<1> HIDE DEF K1
<1>5. ASSUME NEW i \in Ids, NEW k \in 1..Len(C[i])
      PROVE  i # x /\ C[i][k] # x /\ C[i][k] \in Ids
  <2>1. C[i][k] \in E
    BY <1>5 DEF Tree, Listed
  <2>2. i # x
    BY <1>2, <1>5
  <2> QED
    BY <1>1, <2>1, <2>2
<1>6. Placed(E \cup {x}, P, C)
  BY <1>2 DEF Tree, Placed
<1>7. Listed(E \cup {x}, K1, P, C)
  BY <1>3, <1>5 DEF Tree, Listed
<1>8. Unused(E \cup {x}, K1, P) /\ SpectatorsAlone(K1, P)
  BY <1>2, <1>3 DEF Tree, Unused, SpectatorsAlone
<1>9. BagFirst(K1, C)
  BY <1>3, <1>5 DEF Tree, BagFirst
<1> QED
  BY <1>4, <1>6, <1>7, <1>8, <1>9 DEF Tree, K1

(* The entities of X, without parent and children, leave the map.          *)
LEMMA RemoveTree ==
  ASSUME NEW E, NEW K, NEW P, NEW C, Tree(E, K, P, C), NEW X,
         \A x \in X \cap Ids : P[x] = InvalidID /\ C[x] = <<>>
  PROVE  Tree(E \ X, [i \in Ids |-> IF i \in X THEN "item" ELSE K[i]], P, C)
<1> DEFINE K1 == [i \in Ids |-> IF i \in X THEN "item" ELSE K[i]]
<1>1. /\ E \subseteq Ids /\ K \in [Ids -> Classes]
      /\ P \in [Ids -> Ids \cup {InvalidID}] /\ C \in [Ids -> Seq(Ids)]
  BY DEF Tree, TreeShape
<1>2. \A i \in Ids : K1[i] = IF i \in X THEN "item" ELSE K[i]
  OBVIOUS
<1>3. TreeShape(E \ X, K1, P, C)
  BY <1>1 DEF TreeShape, Classes
<1> HIDE DEF K1
<1>4. ASSUME NEW i \in Ids, NEW k \in 1..Len(C[i])
      PROVE  i \notin X /\ C[i][k] \notin X /\ C[i][k] \in Ids
  <2>1. C[i][k] \in E /\ P[C[i][k]] = i
    BY <1>4 DEF Tree, Listed
  <2>2. i \notin X
    BY <1>4
  <2> QED
    BY <1>1, <2>1, <2>2, NamesAssumption
<1>5. Placed(E \ X, P, C)
  BY DEF Tree, Placed
<1>6. Listed(E \ X, K1, P, C)
  BY <1>2, <1>4 DEF Tree, Listed
<1>7. Unused(E \ X, K1, P) /\ SpectatorsAlone(K1, P)
  BY <1>2 DEF Tree, Unused, SpectatorsAlone
<1>8. BagFirst(K1, C)
  BY <1>2, <1>4 DEF Tree, BagFirst
<1> QED
  BY <1>3, <1>5, <1>6, <1>7, <1>8 DEF Tree, K1
-----------------------------------------------------------------------------
(* The inductive invariant.                                                *)

(* What the shape of the tree says of one entity.                          *)
LEMMA TreeFacts ==
  ASSUME TreeInv
  PROVE  /\ entities \subseteq Ids /\ cls \in [Ids -> Classes]
         /\ ID_Parent \in [Ids -> Ids \cup {InvalidID}]
         /\ children \in [Ids -> Seq(Ids)]
         /\ \A b \in Ids : cls[b] # "item" => b \in entities
         /\ \A b \in Ids : ID_Parent[b] # InvalidID =>
              /\ b \in entities /\ ID_Parent[b] \in Ids
              /\ children[ID_Parent[b]] # <<>>
              /\ Rank(cls[b]) < Rank(cls[ID_Parent[b]])
         /\ \A b \in Ids : Rank(cls[b]) = 0 => children[b] = <<>>
<1>1. /\ entities \subseteq Ids /\ cls \in [Ids -> Classes]
      /\ ID_Parent \in [Ids -> Ids \cup {InvalidID}]
      /\ children \in [Ids -> Seq(Ids)]
      /\ \A b \in Ids : cls[b] # "item" => b \in entities
      /\ \A b \in Ids : ID_Parent[b] # InvalidID => b \in entities
  BY DEF TreeInv, Tree, TreeShape, Unused
<1>2. ASSUME NEW b \in Ids, ID_Parent[b] # InvalidID
      PROVE  /\ ID_Parent[b] \in Ids
             /\ children[ID_Parent[b]] # <<>>
             /\ Rank(cls[b]) < Rank(cls[ID_Parent[b]])
  <2>1. ID_Parent[b] \in Ids /\ b \in entities
    BY <1>1, <1>2
  <2>2. PICK k \in 1..Len(children[ID_Parent[b]]) : children[ID_Parent[b]][k] = b
    BY <1>2, <2>1 DEF TreeInv, Tree, Placed
  <2>3. children[ID_Parent[b]] # <<>>
    BY <2>2
  <2> QED
    BY <2>1, <2>2, <2>3 DEF TreeInv, Tree, Listed
<1>3. \A b \in Ids : Rank(cls[b]) = 0 => children[b] = <<>>
  BY UnusedChildless DEF TreeInv
<1> QED
  BY <1>1, <1>2, <1>3

(* Process_spawn, on the ground or into an actor's hands.                  *)
LEMMA SpawnTree ==
  ASSUME TreeInv, NEW id \in Ids \ entities, NEW class \in Classes,
         NEW p \in Ids \cup {InvalidID}, NEW c, Process_spawn(id, class, p, c),
         p # InvalidID => /\ cls[p] = "actor" /\ class \in {"bag", "item", "tool"}
                          /\ class = "bag" => children[p] = <<>>
  PROVE  TreeInv' /\ children[id] = <<>> /\ ID_Parent[id] = InvalidID /\ p # id
<1> DEFINE K1 == [cls EXCEPT ![id] = class]
<1>1. Tree(entities \cup {id}, K1, ID_Parent, children)
  BY AddTree DEF TreeInv
<1>2. cls[id] = "item" /\ ID_Parent[id] = InvalidID /\ children[id] = <<>> /\ p # id
  BY TreeFacts, NamesAssumption DEF TreeInv, Tree, Unused, Rank
<1>3. CASE p = InvalidID
  <2>1. [ID_Parent EXCEPT ![id] = p] = ID_Parent
    BY <1>2, <1>3, TreeFacts
  <2> QED
    BY <1>1, <1>2, <1>3, <2>1 DEF Process_spawn, TreeInv
<1>4. CASE p # InvalidID
  <2>1. K1[id] = class /\ K1[p] = cls[p] /\ p \in Ids
    BY <1>2, <1>4, TreeFacts
  <2> HIDE DEF K1
  <2>2. Rank(K1[id]) < Rank(K1[p]) /\ K1[id] # "spectator"
    BY <1>4, <2>1 DEF Rank
  <2>3. Tree(entities \cup {id}, K1, [ID_Parent EXCEPT ![id] = p],
             [children EXCEPT ![p] = Append(@, id)])
    BY <1>1, <1>2, <1>4, <2>1, <2>2, AttachTree
  <2> QED
    BY <1>2, <1>4, <2>3 DEF Process_spawn, TreeInv, K1
<1> QED
  BY <1>3, <1>4

(* Process_event_reject.                                                   *)
LEMMA RejectTree ==
  ASSUME TreeInv, NEW x \in Ids, ID_Parent[x] # InvalidID,
         children' = Detached(x), ID_Parent' = [ID_Parent EXCEPT ![x] = InvalidID],
         UNCHANGED <<entities, cls>>
  PROVE  TreeInv'
BY DetachTree DEF TreeInv, Detached

(* Perform_transfer to an entity of a higher rank.                         *)
LEMMA TransferTree ==
  ASSUME TreeInv, NEW x \in Ids, NEW to \in Ids,
         ID_Parent[x] # InvalidID, ID_Parent[x] # to,
         Rank(cls[x]) < Rank(cls[to]), cls[x] \in {"item", "tool"},
         Perform_transfer(x, ID_Parent[x], to)
  PROVE  TreeInv'
<1> DEFINE P1 == [ID_Parent EXCEPT ![x] = InvalidID]
           C1 == [children EXCEPT ![ID_Parent[x]] = RemoveFirst(@, x)]
<1>1. Tree(entities, cls, P1, C1)
  BY DetachTree DEF TreeInv
<1>2. x \in entities /\ P1[x] = InvalidID /\ [P1 EXCEPT ![x] = to] = ID_Parent'
  BY TreeFacts DEF Perform_transfer
<1>3. [C1 EXCEPT ![to] = Append(@, x)] = children'
  BY TreeFacts DEF Perform_transfer
<1> HIDE DEF P1, C1
<1>4. Tree(entities, cls, [P1 EXCEPT ![x] = to], [C1 EXCEPT ![to] = Append(@, x)])
  BY <1>1, <1>2, AttachTree
<1> QED
  BY <1>2, <1>3, <1>4 DEF TreeInv, Perform_transfer

(* entity_Destroy of an entity without children.                           *)
LEMMA DestroyTree ==
  ASSUME TreeInv, NEW x \in Ids, children[x] = <<>>, Destroy_leaf(x)
  PROVE  TreeInv'
<1> DEFINE P1 == [ID_Parent EXCEPT ![x] = InvalidID]
           C1 == Detached(x)
<1>1. Tree(entities, cls, P1, C1) /\ P1[x] = InvalidID /\ C1[x] = <<>>
  <2>1. P1[x] = InvalidID
    BY TreeFacts
  <2>2. CASE ID_Parent[x] = InvalidID
    <3>1. P1 = ID_Parent
      BY <2>2, TreeFacts
    <3> QED
      BY <2>1, <2>2, <3>1 DEF TreeInv, Detached
  <2>3. CASE ID_Parent[x] # InvalidID
    <3>1. ID_Parent[x] # x
      BY <2>3, TreeFacts
    <3>2. C1[x] = <<>>
      BY <2>3, <3>1, TreeFacts DEF Detached
    <3> QED
      BY <2>1, <2>3, <3>2, DetachTree DEF TreeInv, Detached
  <2> QED
    BY <2>2, <2>3
<1> HIDE DEF P1, C1
<1>2. Tree(entities \ {x}, [i \in Ids |-> IF i \in {x} THEN "item" ELSE cls[i]], P1, C1)
  <2>1. \A y \in {x} \cap Ids : P1[y] = InvalidID /\ C1[y] = <<>>
    BY <1>1
  <2> QED
    BY <1>1, <2>1, RemoveTree, Zenon
<1>3. [i \in Ids |-> IF i \in {x} THEN "item" ELSE cls[i]] = [cls EXCEPT ![x] = "item"]
  BY TreeFacts
<1> QED
  BY <1>2, <1>3 DEF Destroy_leaf, TreeInv, P1, C1

(* What is known of the bags, when x leaves its parent ...                 *)
LEMMA RejectBags ==
  ASSUME TypeOK, TreeInv, BagInv, NEW x \in Ids, ID_Parent[x] # InvalidID,
         children' = Detached(x), ID_Parent' = [ID_Parent EXCEPT ![x] = InvalidID],
         UNCHANGED <<entities, cls, alive>>,
         dropManual \ {x} \subseteq dropManual', dropManual' \subseteq dropManual,
         \A b \in Ids \ {x} : Filling(b) => Filling(b)',
         \/ to_destroy' = to_destroy
         \/ to_destroy' = to_destroy \cup {x} /\ cls[x] = "bag" /\ children[x] = <<>>
  PROVE  BagInv'
<1>1. \A b \in Ids : ID_Parent'[b] = IF b = x THEN InvalidID ELSE ID_Parent[b]
  BY TreeFacts
<1>2. \A b \in Ids : children[b] = <<>> => children'[b] = <<>>
  BY TreeFacts DEF Detached
<1>3. CarriedBagsEmpty' /\ DeadDropTheirBag' /\ OnlyBagsDropped'
  BY <1>1, <1>2 DEF BagInv, CarriedBagsEmpty, DeadDropTheirBag, OnlyBagsDropped
<1>4. WaitingBags'
  BY <1>1, <1>2, TreeFacts DEF BagInv, WaitingBags, TypeOK, GameType
<1> QED
  BY <1>3, <1>4 DEF BagInv

(* ... and when x, without children, is destroyed.                         *)
LEMMA DestroyBags ==
  ASSUME TypeOK, TreeInv, BagInv, NEW x \in Ids, children[x] = <<>>, Destroy_leaf(x),
         UNCHANGED to_destroy,
         \A b \in Ids : Filling(b) => Filling(b)'
  PROVE  BagInv'
<1>1. /\ \A b \in Ids : ID_Parent'[b] = IF b = x THEN InvalidID ELSE ID_Parent[b]
      /\ \A b \in Ids : cls'[b] = IF b = x THEN "item" ELSE cls[b]
  BY TreeFacts DEF Destroy_leaf
<1>2. \A b \in Ids : children[b] = <<>> => children'[b] = <<>>
  BY TreeFacts DEF Detached, Destroy_leaf
<1>3. \A b \in Ids : ID_Parent[b] # x
  BY TreeFacts, NamesAssumption
<1>4. CarriedBagsEmpty'
  BY <1>1, <1>2 DEF BagInv, CarriedBagsEmpty
<1>5. DeadDropTheirBag'
  BY <1>1, <1>3 DEF BagInv, DeadDropTheirBag, Destroy_leaf
<1>6. OnlyBagsDropped'
  BY <1>1 DEF BagInv, OnlyBagsDropped, Destroy_leaf, TypeOK, ObjectType
<1>7. WaitingBags'
  BY <1>1, <1>2, TreeFacts DEF BagInv, WaitingBags, Destroy_leaf
<1> QED
  BY <1>4, <1>5, <1>6, <1>7 DEF BagInv

(* The initial state.                                                      *)
LEMMA InvInit == Init => Inv
<1> SUFFICES ASSUME Init PROVE Inv
  OBVIOUS
<1>1. TypeOK
  BY TypeInit
<1>2. TreeInv
  <2>1. TreeShape(entities, cls, ID_Parent, children)
    BY <1>1 DEF TypeOK, TreeType, TreeShape
  <2>2. \A i \in Ids : children[i] = <<>> /\ ID_Parent[i] = InvalidID /\ cls[i] = "item"
    BY DEF Init
  <2>3. \A i \in Ids : Len(children[i]) = 0
    BY <2>2
  <2> QED
    BY <2>1, <2>2, <2>3
       DEF TreeInv, Tree, Placed, Listed, Once, Unused, SpectatorsAlone, BagFirst, Init
<1>3. BagInv
  BY DEF Init, BagInv, CarriedBagsEmpty, DeadDropTheirBag, OnlyBagsDropped, WaitingBags
<1>4. CallInv
  BY DEF Init, IdleCall, CallInv, RespawnInv, DetachInv, TouchInv, DestroyInv
<1> QED
  BY <1>1, <1>2, <1>3, <1>4 DEF Inv
-----------------------------------------------------------------------------
(* Nothing the invariant speaks of changes.                                *)
LEMMA InvUnchanged ==
  ASSUME Inv, TypeOK', UNCHANGED <<tree, alive, dropManual, to_destroy, call>>
  PROVE  Inv'
BY DEF Inv, TreeInv, BagInv, CallInv, tree, CarriedBagsEmpty, DeadDropTheirBag, OnlyBagsDropped,
   WaitingBags, Filling, RespawnInv, DetachInv, TouchInv, DestroyInv

(* A handler other than Process_event_reject's goes on or returns without  *)
(* changing anything else.                                                 *)
LEMMA InvCall ==
  ASSUME Inv, TypeOK', UNCHANGED <<tree, alive, dropManual>>,
         to_destroy' \subseteq to_destroy, call.op # "detach", CallInv'
  PROVE  Inv'
BY DEF Inv, TreeInv, BagInv, tree, CarriedBagsEmpty, DeadDropTheirBag, OnlyBagsDropped,
   WaitingBags, Filling

(* The invariant of a handler that has just returned.                      *)
LEMMA IdleInv == ASSUME call' = IdleCall PROVE CallInv'
BY DEF IdleCall, CallInv, RespawnInv, DetachInv, TouchInv, DestroyInv

(* What is known of the bags, when the new entity id joins p.              *)
LEMMA SpawnBags ==
  ASSUME Inv, NEW id \in PerformIDgen(FreeIDs), NEW class \in Classes,
         NEW p \in Ids \cup {InvalidID}, NEW c, Process_spawn(id, class, p, c),
         p # InvalidID => cls[p] = "actor",
         class = "bag" => p \in alive',
         children[id] = <<>>, p # id, alive \subseteq alive',
         UNCHANGED <<dropManual, to_destroy>>, call.op # "detach"
  PROVE  BagInv'
<1>1. /\ \A b \in Ids : cls'[b] = IF b = id THEN class ELSE cls[b]
      /\ \A b \in Ids : ID_Parent'[b] = IF b = id THEN p ELSE ID_Parent[b]
      /\ \A b \in Ids : b # p => children'[b] = children[b]
  BY GeneratedIDs, TreeFacts DEF Process_spawn, Inv
<1>2. id \notin to_destroy /\ cls[id] = "item"
  BY GeneratedIDs DEF StillNamed, Inv, TreeInv, Tree, Unused
<1>3. CarriedBagsEmpty'
  BY <1>1, GeneratedIDs, NamesAssumption DEF Inv, BagInv, CarriedBagsEmpty, Filling
<1>4. DeadDropTheirBag'
  BY <1>1, GeneratedIDs DEF Inv, BagInv, DeadDropTheirBag, Filling
<1>5. OnlyBagsDropped' /\ WaitingBags'
  BY <1>1, <1>2, GeneratedIDs
     DEF Inv, TypeOK, ObjectType, GameType, BagInv, OnlyBagsDropped, WaitingBags, Process_spawn
<1> QED
  BY <1>3, <1>4, <1>5 DEF BagInv

(* Players.                                                                *)
LEMMA StepConnect ==
  ASSUME Inv, TypeOK', NEW c \in Clients, OnPlayerConnectFinished(c) PROVE Inv'
<1>1. PICK id \in PerformIDgen(FreeIDs) : Process_spawn(id, "spectator", InvalidID, c)
  BY DEF OnPlayerConnectFinished
<1>2. TreeInv' /\ children[id] = <<>> /\ InvalidID # id
  BY <1>1, GeneratedIDs, SpawnTree DEF Inv, Classes
<1>3. UNCHANGED <<call, alive, dropManual, to_destroy>> /\ call = IdleCall
  BY DEF OnPlayerConnectFinished, objects, game, Idle
<1>4. CallInv'
  BY <1>3, IdleInv
<1>5. BagInv'
  BY <1>1, <1>2, <1>3, SpawnBags DEF Classes, IdleCall
<1> QED
  BY <1>2, <1>4, <1>5 DEF Inv

(* A disconnection touches neither the tree nor the running handler.       *)
LEMMA StepDisconnected ==
  ASSUME Inv, TypeOK', NEW c \in Clients, OnCL_Disconnected(c) PROVE Inv'
BY InvUnchanged DEF OnCL_Disconnected, objects, game

(* Nor does the event it leaves behind.                                    *)
LEMMA StepDisconnect == ASSUME Inv, TypeOK', OnPlayerDisconnect PROVE Inv'
BY InvUnchanged DEF OnPlayerDisconnect

(* What a respawned player is still given.                                 *)
LEMMA HandoutContents ==
  /\ \A k \in 1..Len(Handout) : Handout[k] \in {"bag", "item", "tool"}
  /\ \A k \in 2..Len(Handout) : Handout[k] # "bag"
<1>1. /\ <<"bag">> \in Seq(Classes) /\ DefaultItems \in Seq(Classes)
      /\ Len(<<"bag">>) = 1 /\ <<"bag">>[1] = "bag"
  BY ItemsAssumption, SeqMonotonic DEF Classes, ItemClasses
<1>2. PICK n \in Nat : n = Len(DefaultItems)
  BY <1>1, LenProperties
<1>3. /\ Len(Handout) = 1 + n
      /\ \A k \in 1..(1 + n) : Handout[k] = IF k <= 1 THEN <<"bag">>[k] ELSE DefaultItems[k - 1]
  BY <1>1, <1>2, ConcatProperties DEF Handout
<1>4. \A k \in 1..n : DefaultItems[k] \in ItemClasses
  BY <1>2, ItemsAssumption, ElementOfSeq
<1>5. ASSUME NEW k \in 2..(1 + n) PROVE Handout[k] \in ItemClasses
  <2>1. k - 1 \in 1..n /\ ~(k <= 1) /\ k \in 1..(1 + n)
    OBVIOUS
  <2> QED
    BY <1>3, <1>4, <2>1
<1>6. Handout[1] = "bag"
  BY <1>1, <1>3
<1>7. \A k \in 1..(1 + n) : k = 1 \/ k \in 2..(1 + n)
  OBVIOUS
<1> QED
  BY <1>3, <1>5, <1>6, <1>7 DEF ItemClasses

(* The handing out begins.                                                 *)
LEMMA RespawnBegins ==
  ASSUME NEW c, NEW id \in Ids, SpawnActor(c, id), cls'[id] = "actor",
         children'[id] = <<>>
  PROVE  CallInv' /\ alive' = alive \cup {id}
<1>1. call'.op = "respawn" /\ call'.who = id /\ call'.left = Handout
  BY DEF SpawnActor, IdleCall
<1>2. id \in alive' /\ alive' = alive \cup {id}
  BY DEF SpawnActor
<1>3. RespawnInv'
  BY <1>1, <1>2, HandoutContents DEF RespawnInv
<1> QED
  BY <1>1, <1>2, <1>3 DEF CallInv, DetachInv, TouchInv, DestroyInv

(* RespawnPlayer of an actor.                                              *)
LEMMA StepRespawnActor ==
  ASSUME Inv, TypeOK', NEW c \in Clients, RespawnActor(c) PROVE Inv'
<1>1. PICK id \in PerformIDgen(FreeIDs) :
        /\ entities' = entities \cup {id} /\ cls' = [cls EXCEPT ![id] = "actor"]
        /\ SpawnActor(c, id)
  BY DEF RespawnActor
<1>2. UNCHANGED <<ID_Parent, children, dropManual, to_destroy>> /\ call = IdleCall
  BY DEF RespawnActor, Idle
<1>3. id \in Ids \ entities /\ id \notin to_destroy
  BY GeneratedIDs DEF StillNamed
<1>4. TreeInv'
  BY <1>1, <1>2, <1>3, AddTree DEF Inv, TreeInv, Classes
<1>5. cls[id] = "item" /\ children[id] = <<>>
  BY <1>3, TreeFacts DEF Inv, TreeInv, Tree, Unused, Rank
<1>6. \A b \in Ids : cls'[b] = IF b = id THEN "actor" ELSE cls[b]
  BY <1>1, TreeFacts DEF Inv
<1>7. CallInv' /\ alive' = alive \cup {id}
  BY <1>1, <1>2, <1>3, <1>5, <1>6, RespawnBegins
<1>8. CarriedBagsEmpty' /\ DeadDropTheirBag'
  BY <1>2, <1>6, <1>7
     DEF Inv, BagInv, CarriedBagsEmpty, DeadDropTheirBag, Filling, IdleCall
<1>9. OnlyBagsDropped' /\ WaitingBags'
  BY <1>1, <1>2, <1>3, <1>5, <1>6
     DEF Inv, TypeOK, ObjectType, GameType, BagInv, OnlyBagsDropped, WaitingBags
<1> QED
  BY <1>4, <1>7, <1>8, <1>9 DEF Inv, BagInv

(* RespawnPlayer of a spectator.                                           *)
LEMMA StepRespawnSpectator ==
  ASSUME Inv, TypeOK', NEW c \in Clients, RespawnSpectator(c) PROVE Inv'
<1>1. PICK id \in PerformIDgen(FreeIDs) :
        /\ entities' = (entities \ {main[c]}) \cup {id}
        /\ cls' = [cls EXCEPT ![main[c]] = "item", ![id] = "actor"]
        /\ SpawnActor(c, id)
  BY DEF RespawnSpectator
<1>2. UNCHANGED <<ID_Parent, children, dropManual, to_destroy>> /\ call = IdleCall
  BY DEF RespawnSpectator, Idle
<1>3. id \in Ids \ entities /\ id \notin to_destroy
  BY GeneratedIDs DEF StillNamed
<1> DEFINE m == main[c]
<1>4. m \in Ids /\ cls[m] = "spectator" /\ ID_Parent[m] = InvalidID /\ m \in entities
  BY TreeFacts DEF RespawnSpectator, Inv, TypeOK, PlayerType, TreeInv, Tree, SpectatorsAlone
<1>5. children[m] = <<>>
  BY <1>4, TreeFacts DEF Inv, Rank
<1>6. cls[id] = "item" /\ children[id] = <<>>
  BY <1>3, TreeFacts DEF Inv, TreeInv, Tree, Unused, Rank
<1> DEFINE K1 == [i \in Ids |-> IF i \in {m} THEN "item" ELSE cls[i]]
<1>7. Tree(entities \ {m}, K1, ID_Parent, children)
  <2>1. \A y \in {m} \cap Ids : ID_Parent[y] = InvalidID /\ children[y] = <<>>
    BY <1>4, <1>5
  <2> HIDE DEF m
  <2> QED
    BY <2>1, RemoveTree DEF Inv, TreeInv
<1>8. \A b \in Ids : cls'[b] = IF b = id THEN "actor" ELSE IF b = m THEN "item" ELSE cls[b]
  BY <1>1, <1>4, TreeFacts DEF Inv
<1>9. cls' = [K1 EXCEPT ![id] = "actor"]
  BY <1>1, <1>3, <1>4, TreeFacts DEF Inv
<1>10. TreeInv'
  <2> HIDE DEF K1
  <2>1. Tree((entities \ {m}) \cup {id}, [K1 EXCEPT ![id] = "actor"], ID_Parent, children)
    BY <1>3, <1>7, AddTree DEF Classes
  <2> QED
    BY <1>1, <1>2, <1>9, <2>1 DEF TreeInv
<1>11. CallInv' /\ alive' = alive \cup {id}
  BY <1>1, <1>2, <1>3, <1>6, <1>8, RespawnBegins
<1> HIDE DEF m, K1
<1>12. entities' = (entities \ {m}) \cup {id}
  BY <1>1 DEF m
<1>13. CarriedBagsEmpty' /\ DeadDropTheirBag'
  BY <1>2, <1>8, <1>11
     DEF Inv, BagInv, CarriedBagsEmpty, DeadDropTheirBag, Filling, IdleCall
<1>14. OnlyBagsDropped' /\ WaitingBags'
  BY <1>2, <1>3, <1>4, <1>6, <1>8, <1>12
     DEF Inv, TypeOK, ObjectType, GameType, BagInv, OnlyBagsDropped, WaitingBags
<1> QED
  BY <1>10, <1>11, <1>13, <1>14 DEF Inv, BagInv

(* Spawning an item, on the ground or in an actor's hands.                 *)
LEMMA StepSpawnItem ==
  ASSUME Inv, TypeOK', NEW class \in SpawnClasses, NEW p \in Ids \cup {InvalidID},
         SpawnItem(class, p)
  PROVE  Inv'
<1>1. PICK id \in PerformIDgen(FreeIDs) : Process_spawn(id, class, p, SV_Client)
  BY DEF SpawnItem
<1>2. class \in {"item", "tool"} /\ class \in Classes
  BY ItemsAssumption DEF ItemClasses, Classes
<1>3. p # InvalidID => cls[p] = "actor"
  BY DEF SpawnItem, IsActor
<1>4. TreeInv' /\ children[id] = <<>> /\ p # id
  BY <1>1, <1>2, <1>3, GeneratedIDs, SpawnTree DEF Inv
<1>5. UNCHANGED <<call, alive, dropManual, to_destroy>> /\ call = IdleCall
  BY DEF SpawnItem, objects, game, Idle
<1>6. BagInv'
  BY <1>1, <1>2, <1>3, <1>4, <1>5, SpawnBags DEF IdleCall
<1>7. CallInv'
  BY <1>5, IdleInv
<1> QED
  BY <1>4, <1>6, <1>7 DEF Inv

(* The next thing a respawned player is given.                             *)
LEMMA StepSpawnItemToActor ==
  ASSUME Inv, TypeOK', SpawnItemToActor PROVE Inv'
<1> USE DEF objects, game
<1>1. /\ call.op = "respawn" /\ call.who \in Ids /\ call.left \in Seq(Classes)
      /\ call.left # <<>> /\ call \in Calls
  BY DEF SpawnItemToActor, Running, Inv, TypeOK, CallType, Calls
<1>2. RespawnInv
  BY DEF Inv, CallInv
<1>3. PICK n \in Nat : n = Len(call.left) /\ n >= 1
  BY <1>1, EmptySeq
<1>4. /\ Head(call.left) = call.left[1] /\ Head(call.left) \in {"bag", "item", "tool"}
      /\ Head(call.left) = "bag" => children[call.who] = <<>>
      /\ cls[call.who] = "actor" /\ call.who \in alive
  BY <1>1, <1>2, <1>3 DEF RespawnInv
<1>5. CASE \E id \in PerformIDgen(FreeIDs) :
             Process_spawn(id, Head(call.left), call.who, SV_Client)
           /\ call' = IF Len(call.left) = 1 THEN IdleCall ELSE [call EXCEPT !.left = Tail(@)]
  <2>1. PICK id \in PerformIDgen(FreeIDs) :
          Process_spawn(id, Head(call.left), call.who, SV_Client)
    BY <1>5
  <2>2. call' = IF n = 1 THEN IdleCall ELSE [call EXCEPT !.left = Tail(@)]
    BY <1>3, <1>5
  <2>3. UNCHANGED <<alive, dropManual, to_destroy>>
    BY DEF SpawnItemToActor
  <2>4. Head(call.left) \in Classes /\ call.who # InvalidID
    BY <1>1, <1>4, NamesAssumption DEF Classes
  <2>5. TreeInv' /\ children[id] = <<>> /\ call.who # id
    BY <1>1, <1>4, <2>1, <2>4, GeneratedIDs, SpawnTree DEF Inv
  <2>6. BagInv'
    BY <1>1, <1>4, <2>1, <2>3, <2>4, <2>5, SpawnBags
  <2>7. CallInv'
    <3>1. CASE n = 1
      BY <2>2, <3>1, IdleInv
    <3>2. CASE n # 1
      <4>1. /\ call'.op = "respawn" /\ call'.who = call.who
            /\ call'.left = Tail(call.left)
        BY <1>1, <2>2, <3>2 DEF Calls
      <4>2. /\ Len(Tail(call.left)) = n - 1
            /\ \A k \in 1..(n - 1) : Tail(call.left)[k] = call.left[k + 1]
        BY <1>1, <1>3, HeadTailProperties
      <4>3. ASSUME NEW k \in 1..(n - 1)
            PROVE  Tail(call.left)[k] \in {"bag", "item", "tool"} /\ Tail(call.left)[k] # "bag"
        <5>1. k + 1 \in 1..n /\ k + 1 \in 2..n
          OBVIOUS
        <5> QED
          BY <1>1, <1>2, <1>3, <4>2, <5>1 DEF RespawnInv
      <4>4. cls'[call.who] = "actor"
        BY <1>4, <2>1, <2>5, TreeFacts, GeneratedIDs DEF Process_spawn, Inv
      <4>5. n >= 2 /\ 1 \in 1..(n - 1)
        <5>1. \A m \in Nat : m >= 1 /\ m # 1 => m >= 2 /\ 1 \in 1..(m - 1)
          OBVIOUS
        <5> QED
          BY <1>3, <3>2, <5>1
      <4>6. RespawnInv'
        BY <1>4, <2>3, <4>1, <4>2, <4>3, <4>4, <4>5 DEF RespawnInv
      <4> QED
        BY <4>1, <4>6 DEF CallInv, DetachInv, TouchInv, DestroyInv
    <3> QED
      BY <3>1, <3>2
  <2> QED
    BY <2>5, <2>6, <2>7 DEF Inv
<1>6. CASE call' = IdleCall /\ UNCHANGED <<tree, owner>>
  BY <1>1, <1>6, InvCall, IdleInv DEF SpawnItemToActor
<1> QED
  BY <1>5, <1>6 DEF SpawnItemToActor

(* CActor::Die.                                                            *)
LEMMA StepDie == ASSUME Inv, TypeOK', NEW a \in Ids, Die(a) PROVE Inv'
<1>1. /\ cls[a] = "actor" /\ alive' = alive \ {a} /\ call = IdleCall /\ call' = call
      /\ dropManual' = dropManual \cup DroppedAtDeath(a)
      /\ UNCHANGED <<tree, to_destroy>>
  BY DEF Die, Idle, IsActor, game
<1>2. TreeInv' /\ CallInv'
  BY <1>1, IdleInv DEF Inv, TreeInv, tree
<1>3. CarriedBagsEmpty' /\ WaitingBags'
  BY <1>1 DEF Inv, BagInv, CarriedBagsEmpty, WaitingBags, tree, Filling
<1>4. OnlyBagsDropped'
  BY <1>1 DEF Inv, BagInv, OnlyBagsDropped, tree, DroppedAtDeath
<1>5. DeadDropTheirBag'
  <2> SUFFICES ASSUME NEW b \in Ids, cls[b] = "bag", ID_Parent[b] # InvalidID,
                      ID_Parent[b] \notin alive'
               PROVE  b \in dropManual'
    BY <1>1 DEF DeadDropTheirBag, tree
  <2>1. CASE ID_Parent[b] \notin alive
    BY <1>1, <2>1 DEF Inv, BagInv, DeadDropTheirBag, Filling, IdleCall
  <2>2. CASE ID_Parent[b] = a
    <3>1. b \in entities
      BY <2>2, TreeFacts DEF Inv
    <3>2. PICK k \in 1..Len(children[a]) : children[a][k] = b
      BY <2>2, <3>1 DEF Inv, TreeInv, Tree, Placed
    <3>3. b \in ToSet(children[a])
      BY <3>2, TreeFacts DEF ToSet, Inv
    <3> QED
      BY <1>1, <3>3 DEF DroppedAtDeath
  <2> QED
    BY <1>1, <2>1, <2>2
<1> QED
  BY <1>2, <1>3, <1>4, <1>5 DEF Inv, BagInv
-----------------------------------------------------------------------------
(* A child of an entity.                                                   *)
LEMMA ChildFacts ==
  ASSUME TreeInv, NEW a \in Ids, NEW k \in 1..Len(children[a])
  PROVE  /\ children[a][k] \in entities /\ children[a][k] \in Ids
         /\ ID_Parent[children[a][k]] = a
         /\ Rank(cls[children[a][k]]) < Rank(cls[a])
BY DEF TreeInv, Tree, TreeShape, Listed

(* An entity that has a parent is one of its children.                     *)
LEMMA ParentListsIt ==
  ASSUME TreeInv, NEW x \in Ids, ID_Parent[x] # InvalidID
  PROVE  /\ ID_Parent[x] \in Ids
         /\ \E k \in 1..Len(children[ID_Parent[x]]) : children[ID_Parent[x]][k] = x
         /\ x \in ToSet(children[ID_Parent[x]])
<1>1. ID_Parent[x] \in Ids /\ x \in entities
  BY TreeFacts
<1>2. PICK k \in 1..Len(children[ID_Parent[x]]) : children[ID_Parent[x]][k] = x
  BY <1>1 DEF TreeInv, Tree, Placed
<1>3. x \in ToSet(children[ID_Parent[x]])
  BY <1>1, <1>2, TreeFacts DEF ToSet
<1> QED
  BY <1>1, <1>2, <1>3

(* A bag is carried by an actor, as his first child.                       *)
LEMMA CarriedBag ==
  ASSUME TreeInv, NEW b \in Ids, cls[b] = "bag", ID_Parent[b] # InvalidID
  PROVE  /\ ID_Parent[b] \in Ids /\ cls[ID_Parent[b]] = "actor"
         /\ Len(children[ID_Parent[b]]) \in Nat /\ Len(children[ID_Parent[b]]) >= 1
         /\ children[ID_Parent[b]][1] = b
         /\ \A k \in 1..Len(children[ID_Parent[b]]) : children[ID_Parent[b]][k] = b => k = 1
<1>1. /\ ID_Parent[b] \in Ids /\ children[ID_Parent[b]] \in Seq(Ids)
      /\ Rank("bag") < Rank(cls[ID_Parent[b]])
  BY TreeFacts
<1>2. cls[ID_Parent[b]] = "actor"
  BY <1>1 DEF Rank
<1>3. \A k \in 1..Len(children[ID_Parent[b]]) : children[ID_Parent[b]][k] = b => k = 1
  BY <1>1 DEF TreeInv, Tree, BagFirst
<1>4. PICK k \in 1..Len(children[ID_Parent[b]]) : children[ID_Parent[b]][k] = b
  BY ParentListsIt
<1>5. Len(children[ID_Parent[b]]) \in Nat
  BY <1>1, LenProperties
<1> QED
  BY <1>1, <1>2, <1>3, <1>4, <1>5

(* The first child stays first when another one leaves.                    *)
LEMMA FirstStays ==
  ASSUME TreeInv, NEW x \in Ids, ID_Parent[x] # InvalidID,
         children[ID_Parent[x]][1] # x
  PROVE  /\ Len(RemoveFirst(children[ID_Parent[x]], x)) >= 1
         /\ RemoveFirst(children[ID_Parent[x]], x)[1] = children[ID_Parent[x]][1]
<1> DEFINE s == children[ID_Parent[x]]
           r == RemoveFirst(s, x)
<1>1. ID_Parent[x] \in Ids /\ s \in Seq(Ids)
  BY TreeFacts
<1>2. PICK k \in 1..Len(s) : s[k] = x
  BY ParentListsIt
<1>3. Distinct(s)
  BY <1>1 DEF TreeInv, Tree, Once, Distinct
<1>4. r = RemoveFirst(s, x) /\ s[1] # x
  OBVIOUS
<1> HIDE DEF s, r
<1>5. Len(r) >= 1 /\ r[1] = s[1]
  BY <1>1, <1>2, <1>3, <1>4, RemovedMembers
<1> QED
  BY <1>5 DEF s, r

(* Process_event_reject of an item.                                        *)
LEMMA StepRejectItem == ASSUME Inv, TypeOK', NEW x \in Ids, RejectItem(x) PROVE Inv'
<1>1. /\ ID_Parent[x] # InvalidID /\ children' = Detached(x)
      /\ ID_Parent' = [ID_Parent EXCEPT ![x] = InvalidID]
      /\ UNCHANGED <<entities, cls, alive, dropManual, to_destroy, call>>
      /\ call = IdleCall
  BY DEF RejectItem, objects, game, Idle
<1>2. TreeInv'
  BY <1>1, RejectTree DEF Inv
<1>3. BagInv'
  BY <1>1, RejectBags DEF Inv, Filling
<1> QED
  BY <1>1, <1>2, <1>3, IdleInv DEF Inv

(* Process_event_reject of a bag.                                          *)
LEMMA StepRejectBag == ASSUME Inv, TypeOK', NEW b \in Ids, RejectBag(b) PROVE Inv'
<1>1. /\ ID_Parent[b] # InvalidID /\ cls[b] = "bag" /\ dropManual' = dropManual \ {b}
      /\ call = IdleCall /\ UNCHANGED alive
  BY DEF RejectBag, Idle, Inv, BagInv, OnlyBagsDropped
<1> DEFINE a == ID_Parent[b]
<1>2. /\ a \in Ids /\ cls[a] = "actor" /\ Len(children[a]) >= 1 /\ children[a][1] = b
      /\ \A k \in 1..Len(children[a]) : children[a][k] = b => k = 1
  BY <1>1, CarriedBag DEF Inv
<1>3. CASE get_client(a)
  <2>1. PICK active \in {x \in ToSet(children[a]) : cls[x] = "item"} \cup {InvalidID} :
          call' = [IdleCall EXCEPT !.op = "detach", !.who = a, !.what = b,
                                   !.c = IndexOf(children[a], b), !.keep = active]
    BY <1>3 DEF RejectBag
  <2>2. UNCHANGED <<tree, to_destroy>>
    BY <1>3 DEF RejectBag
  <2>3. /\ call'.op = "detach" /\ call'.who = a /\ call'.what = b
        /\ call'.c = IndexOf(children[a], b) /\ call'.keep = active
    BY <2>1 DEF IdleCall
  <2>4. IndexOf(children[a], b) = 1
    <3>1. children[a] \in Seq(Ids) /\ \E k \in 1..Len(children[a]) : children[a][k] = b
      BY <1>1, <1>2, ParentListsIt, TreeFacts DEF Inv
    <3>2. IndexOf(children[a], b) \in 1..Len(children[a])
          /\ children[a][IndexOf(children[a], b)] = b
      BY <3>1, IndexType
    <3> QED
      BY <1>2, <3>2
  <2>5. active # InvalidID => cls[active] = "item" /\ ID_Parent[active] = a
    <3> SUFFICES ASSUME active # InvalidID
                 PROVE  cls[active] = "item" /\ ID_Parent[active] = a
      OBVIOUS
    <3>1. active \in ToSet(children[a]) /\ cls[active] = "item"
      OBVIOUS
    <3>2. PICK k \in 1..Len(children[a]) : children[a][k] = active
      BY <1>2, <3>1, TreeFacts DEF ToSet, Inv
    <3> QED
      BY <1>2, <3>1, <3>2, ChildFacts DEF Inv
  <2> HIDE DEF a
  <2>6. DetachInv'
    BY <1>1, <1>2, <2>2, <2>3, <2>4, <2>5 DEF DetachInv, tree, a
  <2>7. CallInv'
    BY <2>3, <2>6 DEF CallInv, RespawnInv, TouchInv, DestroyInv
  <2>8. TreeInv'
    BY <2>2 DEF Inv, TreeInv, tree
  <2>9. BagInv'
    BY <1>1, <2>2, <2>3
       DEF Inv, BagInv, CarriedBagsEmpty, DeadDropTheirBag, OnlyBagsDropped, WaitingBags,
           Filling, IdleCall, tree
  <2> QED
    BY <2>7, <2>8, <2>9 DEF Inv
<1>4. CASE ~get_client(a)
  <2>1. /\ to_destroy' = to_destroy \cup {b} /\ children' = Detached(b)
        /\ ID_Parent' = [ID_Parent EXCEPT ![b] = InvalidID]
        /\ UNCHANGED <<entities, cls, call>>
    BY <1>4 DEF RejectBag
  <2>2. children[b] = <<>>
    BY <1>1 DEF Inv, BagInv, CarriedBagsEmpty, Filling, IdleCall
  <2>3. TreeInv'
    BY <1>1, <2>1, RejectTree DEF Inv
  <2>4. BagInv'
    BY <1>1, <2>1, <2>2, RejectBags DEF Inv, Filling
  <2> QED
    BY <1>1, <2>1, <2>3, <2>4, IdleInv DEF Inv
<1> QED
  BY <1>3, <1>4

(* GE_DESTROY: Process_event_destroy begins.                               *)
LEMMA StepDestroyObject == ASSUME Inv, TypeOK', NEW x \in Ids, DestroyObject(x) PROVE Inv'
<1>1. /\ call = IdleCall /\ UNCHANGED <<tree, alive, dropManual, to_destroy>>
      /\ call'.op = "destroy" /\ call'.todo = <<x>> /\ call'.who = InvalidID
  BY DEF DestroyObject, objects, game, Idle, IdleCall
<1>2. Len(<<x>>) = 1 /\ <<x>>[1] = x
  OBVIOUS
<1>3. ASSUME NEW b \in Ids, cls[x] = "actor", ID_Parent[b] = x PROVE cls[b] # "bag"
  <2>1. x \notin alive /\ b \notin dropManual
    <3>1. b \in ToSet(children[x])
      BY <1>3, ParentListsIt, NamesAssumption DEF Inv
    <3> QED
      BY <1>3, <3>1 DEF DestroyObject, BagDroppedInTime, ItemClasses
  <2> QED
    BY <1>1, <1>3, <2>1, NamesAssumption
       DEF Inv, BagInv, DeadDropTheirBag, Filling, IdleCall
<1>4. DestroyInv'
  BY <1>1, <1>2, <1>3 DEF DestroyInv, tree
<1>5. CallInv'
  BY <1>1, <1>4 DEF CallInv, RespawnInv, DetachInv, TouchInv
<1> QED
  BY <1>1, <1>5, InvCall DEF IdleCall

(* Process_event_ownership of an item.                                     *)
LEMMA StepTakeItem ==
  ASSUME Inv, TypeOK', NEW a \in Ids, NEW x \in Ids, TakeItem(a, x) PROVE Inv'
<1>1. /\ cls[a] = "actor" /\ x \in entities /\ cls[x] \in {"item", "tool"}
      /\ ID_Parent[x] = InvalidID /\ ID_Parent' = [ID_Parent EXCEPT ![x] = a]
      /\ children' = [children EXCEPT ![a] = Append(@, x)]
      /\ UNCHANGED <<entities, cls, alive, dropManual, to_destroy, call>>
      /\ call = IdleCall
  BY DEF TakeItem, IsActor, ItemClasses, objects, game, Idle
<1>2. Rank(cls[x]) < Rank(cls[a]) /\ cls[x] # "spectator" /\ cls[x] # "bag"
  BY <1>1 DEF Rank
<1>3. TreeInv'
  BY <1>1, <1>2, AttachTree DEF Inv, TreeInv
<1>4. /\ \A b \in Ids : cls[b] = "bag" => ID_Parent'[b] = ID_Parent[b]
      /\ \A b \in Ids : cls[b] = "bag" => children'[b] = children[b]
  BY <1>1, TreeFacts DEF Inv
<1>5. BagInv'
  BY <1>1, <1>4 DEF Inv, BagInv, CarriedBagsEmpty, DeadDropTheirBag, OnlyBagsDropped,
                    WaitingBags, Filling, IdleCall, TypeOK, GameType
<1> QED
  BY <1>1, <1>3, <1>5, IdleInv DEF Inv

(* Process_event_ownership of a bag begins.                                *)
LEMMA StepTakeBag ==
  ASSUME Inv, TypeOK', NEW a \in Ids, NEW b \in Ids, TakeBag(a, b) PROVE Inv'
<1>1. /\ cls[a] = "actor" /\ cls[b] = "bag" /\ ID_Parent[b] = InvalidID
      /\ UNCHANGED <<tree, alive, dropManual, to_destroy>> /\ call = IdleCall
      /\ call'.op = "touch" /\ call'.who = a /\ call'.what = b
  BY DEF TakeBag, IsActor, objects, game, Idle, IdleCall
<1>2. CallInv'
  BY <1>1 DEF CallInv, RespawnInv, DetachInv, TouchInv, DestroyInv, tree
<1> QED
  BY <1>1, <1>2, InvCall DEF IdleCall
-----------------------------------------------------------------------------
(* OnDetachPlayersBag: what every step of it may rely on.                  *)
LEMMA DetachFacts ==
  ASSUME Inv, call.op = "detach"
  PROVE  /\ call.who \in Ids /\ call.what \in Ids /\ call \in Calls /\ DetachInv
         /\ cls[call.who] = "actor" /\ cls[call.what] = "bag"
         /\ ID_Parent[call.what] = call.who /\ call.who # InvalidID
         /\ children[call.who][1] = call.what
BY NamesAssumption DEF Inv, TypeOK, CallType, CallInv, DetachInv

(* It goes on after a step that took the item x from the dead.             *)
LEMMA DetachGoesOn ==
  ASSUME Inv, call.op = "detach", NEW x \in Ids, ID_Parent[x] = call.who,
         cls[x] \in {"item", "tool"},
         call'.op = "detach", call'.who = call.who, call'.what = call.what,
         call'.c = call.c, call'.keep \in {call.keep, InvalidID},
         call'.keep # x,
         children'[call.who] = RemoveFirst(children[call.who], x),
         \A b \in Ids : b # x => cls'[b] = cls[b] /\ ID_Parent'[b] = ID_Parent[b]
  PROVE  CallInv'
<1>1. call.what # x /\ call.who # x
  BY DetachFacts
<1>2. /\ Len(children'[call.who]) >= 1
      /\ children'[call.who][1] = call.what
  BY <1>1, DetachFacts, FirstStays DEF Inv
<1>3. DetachInv'
  BY <1>1, <1>2, DetachFacts DEF DetachInv, Inv, TypeOK, CallType, Calls
<1> QED
  BY <1>3 DEF CallInv, RespawnInv, TouchInv, DestroyInv

(* An item goes into the bag.                                              *)
LEMMA StepDetachTransfer == ASSUME Inv, TypeOK', DetachTransfer PROVE Inv'
<1>1. /\ call.op = "detach" /\ ToTransfer # 0
      /\ Perform_transfer(children[call.who][ToTransfer], call.who, call.what)
      /\ UNCHANGED <<alive, dropManual, to_destroy, call>>
  BY DEF DetachTransfer, Running, objects, game
<1> DEFINE x == children[call.who][ToTransfer]
<1>2. x \in Ids /\ cls[x] = "item" /\ x # call.keep /\ ID_Parent[x] = call.who
  <2>1. /\ ToTransfer \in 1..Len(children[call.who])
        /\ cls[x] = "item" /\ x # call.keep /\ x \in Ids
    BY <1>1, DetachFacts, FirstTransfer DEF Inv
  <2> QED
    BY <1>1, <2>1, DetachFacts, ChildFacts DEF Inv
<1>3. Perform_transfer(x, ID_Parent[x], call.what)
  BY <1>1, <1>2
<1> HIDE DEF x
<1>4. TreeInv'
  <2>1. Rank(cls[x]) < Rank(cls[call.what]) /\ ID_Parent[x] # call.what
    BY <1>1, <1>2, DetachFacts DEF Rank
  <2> QED
    BY <1>1, <1>2, <1>3, <2>1, DetachFacts, TransferTree DEF Inv
<1>5. /\ \A b \in Ids : b # x => ID_Parent'[b] = ID_Parent[b]
      /\ \A b \in Ids : b \notin {call.who, call.what} => children'[b] = children[b]
      /\ children'[call.who] = RemoveFirst(children[call.who], x)
      /\ UNCHANGED <<entities, cls>>
  BY <1>1, <1>2, <1>3, DetachFacts, TreeFacts DEF Perform_transfer, Inv
<1>6. CallInv'
  BY <1>1, <1>2, <1>5, DetachGoesOn
<1>7. BagInv'
  BY <1>1, <1>2, <1>5, DetachFacts
     DEF Inv, BagInv, CarriedBagsEmpty, DeadDropTheirBag, OnlyBagsDropped, WaitingBags,
         Filling, TypeOK, GameType
<1> QED
  BY <1>4, <1>6, <1>7 DEF Inv

(* A tool is destroyed.                                                    *)
LEMMA StepDetachDestroy == ASSUME Inv, TypeOK', DetachDestroy PROVE Inv'
<1>1. /\ call.op = "detach" /\ ToDestroy # 0
      /\ Destroy_leaf(children[call.who][ToDestroy]) /\ UNCHANGED <<to_destroy, call>>
  BY DEF DetachDestroy, Running
<1> DEFINE x == children[call.who][ToDestroy]
<1>2. x \in Ids /\ cls[x] = "tool" /\ ID_Parent[x] = call.who /\ Destroy_leaf(x)
  <2>1. /\ ToDestroy \in 1..Len(children[call.who])
        /\ cls[x] = "tool" /\ x \in Ids
    BY <1>1, DetachFacts, FirstDestroy DEF Inv
  <2> QED
    BY <1>1, <2>1, DetachFacts, ChildFacts DEF Inv
<1> HIDE DEF x
<1>3. children[x] = <<>>
  BY <1>2, TreeFacts DEF Inv, Rank
<1>4. TreeInv'
  BY <1>2, <1>3, DestroyTree DEF Inv
<1>5. BagInv'
  BY <1>1, <1>2, <1>3, DestroyBags DEF Inv, Filling
<1>6. /\ \A b \in Ids : b # x => cls'[b] = cls[b] /\ ID_Parent'[b] = ID_Parent[b]
      /\ children'[call.who] = RemoveFirst(children[call.who], x)
  BY <1>1, <1>2, DetachFacts, TreeFacts DEF Destroy_leaf, Detached, Inv
<1>7. call.keep # x
  BY <1>1, <1>2, DetachFacts, NamesAssumption DEF DetachInv
<1>8. CallInv'
  BY <1>1, <1>2, <1>6, <1>7, DetachGoesOn
<1> QED
  BY <1>4, <1>5, <1>8 DEF Inv

(* The active item falls to the ground.                                    *)
LEMMA StepDetachReject == ASSUME Inv, TypeOK', DetachReject PROVE Inv'
<1>1. /\ call.op = "detach" /\ call.keep # InvalidID
      /\ children' = Detached(call.keep)
      /\ ID_Parent' = [ID_Parent EXCEPT ![call.keep] = InvalidID]
      /\ call' = [call EXCEPT !.keep = InvalidID]
      /\ UNCHANGED <<entities, cls, alive, dropManual, to_destroy>>
  BY DEF DetachReject, Running, objects, game
<1>2. PICK x \in Ids : x = call.keep
  BY <1>1, DetachFacts DEF Calls
<1>3. cls[x] = "item" /\ ID_Parent[x] = call.who
  BY <1>1, <1>2, DetachFacts DEF DetachInv
<1>4. /\ call'.op = "detach" /\ call'.who = call.who /\ call'.what = call.what
      /\ call'.c = call.c /\ call'.keep = InvalidID
  BY <1>1, DetachFacts DEF Calls
<1>5. TreeInv'
  BY <1>1, <1>2, <1>3, DetachFacts, RejectTree DEF Inv
<1>6. BagInv'
  BY <1>1, <1>2, <1>3, <1>4, DetachFacts, RejectBags DEF Inv, Filling
<1>7. /\ \A b \in Ids : b # x => cls'[b] = cls[b] /\ ID_Parent'[b] = ID_Parent[b]
      /\ children'[call.who] = RemoveFirst(children[call.who], x)
  BY <1>1, <1>2, <1>3, DetachFacts, TreeFacts DEF Detached, Inv
<1>8. CallInv'
  BY <1>1, <1>2, <1>3, <1>4, <1>7, NamesAssumption, DetachGoesOn
<1> QED
  BY <1>5, <1>6, <1>8 DEF Inv

(* The bag is taken out of its bearer's children.                          *)
LEMMA StepDetachErase == ASSUME Inv, TypeOK', DetachErase PROVE Inv'
<1>1. /\ call.op = "detach"
      /\ UNCHANGED <<entities, cls, alive, dropManual, to_destroy>>
  BY DEF DetachErase, Running, objects, game
<1>2. CASE /\ children' = [children EXCEPT ![call.who] = RemoveAt(@, call.c)]
           /\ ID_Parent' = [ID_Parent EXCEPT ![call.what] = InvalidID]
           /\ call' = IdleCall
  <2>1. call.c = 1
    BY <1>1, DetachFacts DEF DetachInv
  <2>2. RemoveFirst(children[call.who], call.what) = RemoveAt(children[call.who], 1)
    <3>1. children[call.who] \in Seq(Ids)
      BY <1>1, DetachFacts, TreeFacts DEF Inv
    <3>2. /\ \A k \in 1..Len(children[call.who]) : children[call.who][k] = call.what => k = 1
          /\ \E k \in 1..Len(children[call.who]) : children[call.who][k] = call.what
      BY <1>1, DetachFacts, CarriedBag, ParentListsIt DEF Inv
    <3> QED
      BY <3>1, <3>2, RemoveFirstProperties
  <2>3. children' = Detached(call.what)
    BY <1>1, <1>2, <2>1, <2>2, DetachFacts DEF Detached
  <2>4. TreeInv'
    BY <1>1, <1>2, <2>3, DetachFacts, RejectTree DEF Inv
  <2>5. BagInv'
    BY <1>1, <1>2, <2>3, DetachFacts, RejectBags DEF Inv, Filling
  <2> QED
    BY <1>2, <2>4, <2>5, IdleInv DEF Inv
<1>3. CASE UNCHANGED <<children, ID_Parent, call>>
  BY <1>1, <1>3, InvUnchanged DEF tree
<1> QED
  BY <1>2, <1>3 DEF DetachErase
-----------------------------------------------------------------------------
(* OnTouchPlayersBag: the last item goes to the actor.                     *)
LEMMA StepTouchTransfer == ASSUME Inv, TypeOK', TouchTransfer PROVE Inv'
<1>1. /\ call.op = "touch" /\ children[call.what] # <<>>
      /\ Perform_transfer(Last(children[call.what]), call.what, call.who)
      /\ UNCHANGED <<alive, dropManual, to_destroy, call>>
  BY DEF TouchTransfer, Running, objects, game
<1>2. /\ call.who \in Ids /\ call.what \in Ids
      /\ cls[call.who] = "actor" /\ cls[call.what] = "bag"
      /\ ID_Parent[call.what] = InvalidID
  BY <1>1 DEF Inv, TypeOK, CallType, CallInv, TouchInv
<1>3. PICK n \in Nat : n = Len(children[call.what]) /\ n >= 1
  BY <1>1, <1>2, TreeFacts, EmptySeq DEF Inv
<1> DEFINE x == children[call.what][n]
<1>4. /\ x \in Ids /\ ID_Parent[x] = call.what /\ Rank(cls[x]) < Rank("bag")
  BY <1>2, <1>3, ChildFacts DEF Inv
<1>5. Perform_transfer(x, ID_Parent[x], call.who)
  BY <1>1, <1>3, <1>4 DEF Last
<1> HIDE DEF x
<1>6. cls[x] \in {"item", "tool"}
  <2>1. cls[x] # "spectator"
    BY <1>2, <1>4, NamesAssumption DEF Inv, TreeInv, Tree, SpectatorsAlone
  <2>2. cls[x] \in Classes
    BY <1>4, TreeFacts DEF Inv
  <2> QED
    BY <1>4, <2>1, <2>2 DEF Rank, Classes
<1>7. TreeInv'
  <2>1. Rank(cls[x]) < Rank(cls[call.who]) /\ ID_Parent[x] # call.who /\ ID_Parent[x] # InvalidID
    BY <1>2, <1>4, <1>6, NamesAssumption DEF Rank
  <2> QED
    BY <1>2, <1>4, <1>5, <1>6, <2>1, TransferTree DEF Inv
<1>8. /\ \A b \in Ids : b # x => ID_Parent'[b] = ID_Parent[b]
      /\ \A b \in Ids : b \notin {call.who, call.what} => children'[b] = children[b]
      /\ UNCHANGED <<entities, cls>>
  BY <1>2, <1>4, <1>5, TreeFacts DEF Perform_transfer, Inv
<1>9. CallInv'
  BY <1>1, <1>2, <1>6, <1>8 DEF CallInv, RespawnInv, DetachInv, TouchInv, DestroyInv
<1>10. BagInv'
  BY <1>1, <1>2, <1>6, <1>8
     DEF Inv, BagInv, CarriedBagsEmpty, DeadDropTheirBag, OnlyBagsDropped, WaitingBags,
         Filling, TypeOK, GameType
<1> QED
  BY <1>7, <1>9, <1>10 DEF Inv

(* The empty bag is destroyed.                                             *)
LEMMA StepTouchDestroy == ASSUME Inv, TypeOK', TouchDestroy PROVE Inv'
<1>1. /\ call.op = "touch" /\ children[call.what] = <<>>
      /\ UNCHANGED <<tree, alive, dropManual, to_destroy>>
      /\ call'.op = "destroy" /\ call'.who = call.who /\ call'.todo = <<call.what>>
  BY DEF TouchDestroy, Running, objects, game, IdleCall
<1>2. cls[call.what] = "bag"
  BY <1>1 DEF Inv, CallInv, TouchInv
<1>3. Len(<<call.what>>) = 1 /\ <<call.what>>[1] = call.what
  OBVIOUS
<1>4. DestroyInv'
  BY <1>1, <1>2, <1>3 DEF DestroyInv, tree
<1>5. CallInv'
  BY <1>1, <1>4 DEF CallInv, RespawnInv, DetachInv, TouchInv
<1> QED
  BY <1>1, <1>5, InvCall
-----------------------------------------------------------------------------
(* What is known of the entities being destroyed.                          *)
LEMMA DestroyFacts ==
  ASSUME Inv, call.op = "destroy"
  PROVE  /\ call \in Calls /\ call.todo \in Seq(Ids) /\ DestroyInv
         /\ \E n \in Nat : n = Len(call.todo) /\ n >= 1
         /\ Last(call.todo) = call.todo[Len(call.todo)]
         /\ \A k \in 1..Len(call.todo) : call.todo[k] \in Ids
<1>1. call \in Calls /\ call.todo \in Seq(Ids) /\ call.todo # <<>> /\ DestroyInv
  BY DEF Inv, TypeOK, CallType, Calls, CallInv
<1> QED
  BY <1>1, EmptySeq, ElementOfSeq DEF Last

(* Down to the first child.                                                *)
LEMMA StepDestroyChild == ASSUME Inv, TypeOK', DestroyChild PROVE Inv'
<1>1. /\ call.op = "destroy" /\ children[Last(call.todo)] # <<>>
      /\ call' = [call EXCEPT !.todo = Append(@, Head(children[Last(@)]))]
      /\ UNCHANGED <<tree, alive, dropManual, to_destroy>>
  BY DEF DestroyChild, Running, objects, game
<1>2. PICK n \in Nat : n = Len(call.todo) /\ n >= 1
  BY <1>1, DestroyFacts
<1> DEFINE x == call.todo[n]
           h == Head(children[x])
<1>3. x \in Ids /\ Last(call.todo) = x /\ children[x] # <<>>
  BY <1>1, <1>2, DestroyFacts
<1>4. h \in Ids /\ Rank(cls[h]) < Rank(cls[x])
  <2>1. 1 \in 1..Len(children[x]) /\ h = children[x][1]
    <3>1. children[x] \in Seq(Ids)
      BY <1>3, TreeFacts DEF Inv
    <3> QED
      BY <1>3, <3>1, EmptySeq
  <2> QED
    BY <1>3, <2>1, ChildFacts DEF Inv
<1>5. /\ call'.op = "destroy" /\ call'.who = call.who
      /\ call'.todo = Append(call.todo, h)
  BY <1>1, <1>3, DestroyFacts DEF Calls
<1> HIDE DEF x, h
<1>6. /\ Len(call'.todo) = n + 1 /\ call'.todo[n + 1] = h
      /\ \A k \in 1..n : call'.todo[k] = call.todo[k]
  BY <1>1, <1>2, <1>5, DestroyFacts, AppendProperties
<1>7. x = call.todo[n]
  BY DEF x
<1>8. ASSUME NEW k \in 1..(n + 1), NEW j \in 1..(k - 1)
      PROVE  Rank(cls[call'.todo[k]]) < Rank(cls[call'.todo[j]])
  <2>1. CASE k = n + 1
    <3>1. call'.todo[k] = h /\ call'.todo[j] = call.todo[j] /\ j \in 1..n
      BY <1>6, <2>1
    <3>2. CASE j = n
      BY <1>4, <1>7, <3>1, <3>2
    <3>3. CASE j # n
      <4>1. j \in 1..(n - 1) /\ n \in 1..n
        BY <1>2, <3>1, <3>3
      <4>2. Rank(cls[call.todo[n]]) < Rank(cls[call.todo[j]])
        BY <1>1, <1>2, <4>1, DestroyFacts DEF DestroyInv
      <4> QED
        BY <1>4, <1>7, <3>1, <4>2 DEF Rank
    <3> QED
      BY <3>2, <3>3
  <2>2. CASE k # n + 1
    <3>1. k \in 1..n /\ j \in 1..n /\ j \in 1..(k - 1)
      BY <1>2, <2>2
    <3>2. Rank(cls[call.todo[k]]) < Rank(cls[call.todo[j]])
      BY <1>1, <1>2, <3>1, DestroyFacts DEF DestroyInv
    <3> QED
      BY <1>6, <3>1, <3>2
  <2> QED
    BY <2>1, <2>2
<1>9. ASSUME NEW k \in 1..(n + 1), cls[call'.todo[k]] = "actor", NEW b \in Ids,
             ID_Parent[b] = call'.todo[k]
      PROVE  cls[b] # "bag"
  <2>1. call'.todo[k] # h
    BY <1>4, <1>9 DEF Rank
  <2>2. k \in 1..n /\ call'.todo[k] = call.todo[k]
    BY <1>2, <1>6, <2>1
  <2> QED
    BY <1>1, <1>2, <1>9, <2>2, DestroyFacts DEF DestroyInv
<1>10. call.who = InvalidID
  <2> SUFFICES ASSUME call.who # InvalidID PROVE FALSE
    OBVIOUS
  <2>1. Len(call.todo) = 1 /\ children[call.todo[1]] = <<>>
    BY <1>1, DestroyFacts DEF DestroyInv
  <2> QED
    BY <1>2, <1>3, <1>7, <2>1
<1>11. DestroyInv'
  BY <1>1, <1>5, <1>6, <1>8, <1>9, <1>10 DEF DestroyInv, tree
<1>12. CallInv'
  BY <1>5, <1>11 DEF CallInv, RespawnInv, DetachInv, TouchInv
<1> QED
  BY <1>1, <1>12, InvCall

(* The innermost entity is destroyed.                                      *)
LEMMA StepDestroyLeaf == ASSUME Inv, TypeOK', DestroyLeaf PROVE Inv'
<1>1. /\ call.op = "destroy" /\ children[Last(call.todo)] = <<>>
      /\ Destroy_leaf(Last(call.todo)) /\ UNCHANGED to_destroy
      /\ call' = IF Len(call.todo) = 1 THEN IdleCall ELSE [call EXCEPT !.todo = Front(@)]
  BY DEF DestroyLeaf, Running
<1>2. PICK n \in Nat : n = Len(call.todo) /\ n >= 1
  BY <1>1, DestroyFacts
<1>3. PICK x \in Ids : x = Last(call.todo) /\ x = call.todo[n]
  BY <1>1, <1>2, DestroyFacts
<1>4. TreeInv'
  BY <1>1, <1>3, DestroyTree DEF Inv
<1>5. BagInv'
  BY <1>1, <1>3, DestroyBags DEF Inv, Filling
<1>6. CASE n = 1
  BY <1>1, <1>2, <1>4, <1>5, <1>6, IdleInv DEF Inv
<1>7. CASE n # 1
  <2>1. /\ call'.op = "destroy" /\ call'.who = call.who /\ call'.todo = Front(call.todo)
    BY <1>1, <1>2, <1>7, DestroyFacts DEF Calls
  <2>2. /\ Len(call'.todo) = n - 1
        /\ \A k \in 1..(n - 1) : call'.todo[k] = call.todo[k]
    BY <1>1, <1>2, <2>1, DestroyFacts, FrontProperties, EmptySeq
  <2>3. ASSUME NEW k \in 1..(n - 1)
        PROVE  /\ call'.todo[k] # x /\ cls'[call'.todo[k]] = cls[call.todo[k]]
               /\ call'.todo[k] = call.todo[k] /\ call.todo[k] \in Ids
    <3>1. k \in 1..(n - 1) /\ n \in 1..n /\ k \in 1..n
      BY <1>2
    <3>2. Rank(cls[x]) < Rank(cls[call.todo[k]])
      BY <1>1, <1>2, <1>3, <3>1, DestroyFacts DEF DestroyInv
    <3>3. call.todo[k] # x /\ call.todo[k] \in Ids /\ call'.todo[k] = call.todo[k]
      BY <1>1, <1>2, <2>2, <3>1, <3>2, DestroyFacts DEF Rank
    <3> QED
      BY <1>1, <1>3, <3>3, TreeFacts DEF Destroy_leaf, Inv
  <2>4. call.who = InvalidID
    BY <1>1, <1>2, <1>7, DestroyFacts DEF DestroyInv
  <2>5. ASSUME NEW k \in 1..(n - 1), NEW j \in 1..(k - 1)
        PROVE  Rank(cls'[call'.todo[k]]) < Rank(cls'[call'.todo[j]])
    <3>1. j \in 1..(n - 1) /\ k \in 1..n
      BY <1>2
    <3>2. Rank(cls[call.todo[k]]) < Rank(cls[call.todo[j]])
      BY <1>1, <1>2, <3>1, DestroyFacts DEF DestroyInv
    <3> QED
      BY <2>3, <3>1, <3>2
  <2>6. ASSUME NEW k \in 1..(n - 1), cls'[call'.todo[k]] = "actor", NEW b \in Ids,
               ID_Parent'[b] = call'.todo[k]
        PROVE  cls'[b] # "bag"
    <3>1. cls[call.todo[k]] = "actor" /\ k \in 1..n /\ call.todo[k] \in Ids
          /\ call'.todo[k] = call.todo[k]
      BY <1>2, <2>3, <2>6
    <3>2. CASE b = x
      BY <1>1, <1>3, <3>2, TreeFacts DEF Destroy_leaf, Inv
    <3>3. CASE b # x
      <4>1. ID_Parent[b] = call.todo[k] /\ cls'[b] = cls[b]
        BY <1>1, <1>3, <2>6, <3>1, <3>3, TreeFacts DEF Destroy_leaf, Inv
      <4> QED
        BY <1>1, <1>2, <3>1, <4>1, DestroyFacts DEF DestroyInv
    <3> QED
      BY <3>2, <3>3
  <2>7. DestroyInv'
    BY <2>1, <2>2, <2>4, <2>5, <2>6 DEF DestroyInv
  <2>8. CallInv'
    BY <2>1, <2>7 DEF CallInv, RespawnInv, DetachInv, TouchInv
  <2> QED
    BY <1>4, <1>5, <2>8 DEF Inv
<1> QED
  BY <1>6, <1>7

(* A handler that has no entities to work on.                              *)
LEMMA NothingToDo ==
  ASSUME call'.op \in {"idle", "corpses"} PROVE CallInv'
BY DEF CallInv, RespawnInv, DetachInv, TouchInv, DestroyInv

(* game_sv_mp::Update removes a corpse.                                    *)
LEMMA StepUpdateCorpses == ASSUME Inv, TypeOK', UpdateCorpses PROVE Inv'
<1>1. call.op \in {"idle", "corpses"} /\ UNCHANGED to_destroy
  BY DEF UpdateCorpses, Idle, IdleCall, Running
<1>2. CASE /\ FirstRemovable # 0 /\ m_CorpseList[FirstRemovable] \in entities
           /\ Destroy_leaf(m_CorpseList[FirstRemovable])
           /\ call' = [IdleCall EXCEPT !.op = "corpses"]
  <2>1. PICK x \in Ids : x = m_CorpseList[FirstRemovable] /\ children[x] = <<>>
    BY <1>2, FirstCorpse DEF Inv
  <2>2. TreeInv'
    BY <1>2, <2>1, DestroyTree DEF Inv
  <2>3. BagInv'
    BY <1>1, <1>2, <2>1, DestroyBags DEF Inv, Filling
  <2>4. CallInv'
    BY <1>2, NothingToDo DEF IdleCall
  <2> QED
    BY <2>2, <2>3, <2>4 DEF Inv
<1>3. CASE /\ call' \in {IdleCall, [IdleCall EXCEPT !.op = "corpses"]}
           /\ UNCHANGED <<tree, objects>>
  <2>1. CallInv'
    BY <1>3, NothingToDo DEF IdleCall
  <2> QED
    BY <1>1, <1>3, <2>1, InvCall DEF objects
<1> QED
  BY <1>2, <1>3 DEF UpdateCorpses, FirstRemovable

(* game_sv_mp::Update is done with the corpses.                            *)
LEMMA StepUpdateCorpsesDone == ASSUME Inv, TypeOK', UpdateCorpsesDone PROVE Inv'
<1>1. call.op = "corpses" /\ UNCHANGED <<tree, alive, dropManual, to_destroy>>
      /\ call' = IdleCall
  BY DEF UpdateCorpsesDone, Running, objects, game
<1> QED
  BY <1>1, InvCall, IdleInv

(* Update destroys the bags of to_destroy.                                 *)
LEMMA StepUpdateToDestroy == ASSUME Inv, TypeOK', UpdateToDestroy PROVE Inv'
<1>1. /\ call = IdleCall /\ to_destroy' = {}
      /\ UNCHANGED <<ID_Parent, children, alive, call>>
  BY DEF UpdateToDestroy, Idle
<1>2. CASE /\ to_destroy \subseteq entities
           /\ entities' = entities \ to_destroy
           /\ cls' = [i \in Ids |-> IF i \in to_destroy THEN "item" ELSE cls[i]]
           /\ dropManual' = dropManual \ to_destroy
  <2>1. \A y \in to_destroy \cap Ids : ID_Parent[y] = InvalidID /\ children[y] = <<>>
    BY <1>2 DEF Inv, BagInv, WaitingBags
  <2>2. TreeInv'
    <3>1. Tree(entities, cls, ID_Parent, children)
      BY DEF Inv, TreeInv
    <3>2. Tree(entities \ to_destroy,
               [i \in Ids |-> IF i \in to_destroy THEN "item" ELSE cls[i]],
               ID_Parent, children)
      BY <2>1, <3>1, RemoveTree, Zenon
    <3> QED
      BY <1>1, <1>2, <3>2 DEF TreeInv
  <2>3. BagInv'
    BY <1>1, <1>2
       DEF Inv, TypeOK, ObjectType, BagInv, CarriedBagsEmpty, DeadDropTheirBag,
           OnlyBagsDropped, WaitingBags, Filling
  <2> QED
    BY <1>1, <2>2, <2>3, IdleInv DEF Inv
<1>3. CASE UNCHANGED <<entities, cls, dropManual>>
  <2>1. UNCHANGED tree /\ to_destroy' \subseteq to_destroy /\ call.op # "detach"
    BY <1>1, <1>3 DEF tree, IdleCall
  <2>2. CallInv'
    BY <1>1, IdleInv
  <2> QED
    BY <1>1, <1>3, <2>1, <2>2, InvCall
<1> QED
  BY <1>2, <1>3 DEF UpdateToDestroy

(* A round starts with an empty map.                                       *)
LEMMA StepRoundStart == ASSUME Inv, TypeOK', OnRoundStart PROVE Inv'
<1>1. /\ entities' = {} /\ dropManual' = {}
      /\ \A i \in Ids : children'[i] = <<>> /\ ID_Parent'[i] = InvalidID /\ cls'[i] = "item"
      /\ call' = IdleCall
  BY DEF OnRoundStart, Idle
<1>2. TreeShape(entities, cls, ID_Parent, children)'
  BY DEF TypeOK, TreeType, TreeShape
<1>3. \A i \in Ids : Len(children'[i]) = 0
  BY <1>1
<1>4. TreeInv'
  BY <1>1, <1>2, <1>3
     DEF TreeInv, Tree, Placed, Listed, Once, Unused, SpectatorsAlone, BagFirst
<1>5. BagInv'
  BY <1>1 DEF BagInv, CarriedBagsEmpty, DeadDropTheirBag, OnlyBagsDropped, WaitingBags
<1> QED
  BY <1>1, <1>4, <1>5, IdleInv DEF Inv

(* Every step keeps the invariant.                                         *)
LEMMA InvStep == Inv /\ [Next]_vars => Inv'
<1> SUFFICES ASSUME Inv, [Next]_vars PROVE Inv'
  OBVIOUS
<1>1. TypeOK'
  BY TypeStep DEF Inv
<1>2. ASSUME NEW c \in Clients,
             OnPlayerConnectFinished(c) \/ OnCL_Disconnected(c)
               \/ RespawnSpectator(c) \/ RespawnActor(c)
      PROVE  Inv'
  BY <1>1, <1>2, StepConnect, StepDisconnected, StepRespawnSpectator, StepRespawnActor
<1>3. CASE OnPlayerDisconnect
  BY <1>1, <1>3, StepDisconnect
<1>4. CASE SpawnItemToActor
  BY <1>1, <1>4, StepSpawnItemToActor
<1>5. ASSUME NEW class \in SpawnClasses, NEW p \in Ids \cup {InvalidID}, SpawnItem(class, p)
      PROVE  Inv'
  BY <1>1, <1>5, StepSpawnItem
<1>6. ASSUME NEW x \in Ids, Die(x) \/ RejectItem(x) \/ RejectBag(x) \/ DestroyObject(x)
      PROVE  Inv'
  BY <1>1, <1>6, StepDie, StepRejectItem, StepRejectBag, StepDestroyObject
<1>7. ASSUME NEW a \in Ids, NEW x \in Ids, TakeItem(a, x) \/ TakeBag(a, x) PROVE Inv'
  BY <1>1, <1>7, StepTakeItem, StepTakeBag
<1>8. CASE DetachTransfer \/ DetachDestroy \/ DetachReject \/ DetachErase
  BY <1>1, <1>8, StepDetachTransfer, StepDetachDestroy, StepDetachReject, StepDetachErase
<1>9. CASE TouchTransfer \/ TouchDestroy
  BY <1>1, <1>9, StepTouchTransfer, StepTouchDestroy
<1>10. CASE DestroyChild \/ DestroyLeaf
  BY <1>1, <1>10, StepDestroyChild, StepDestroyLeaf
<1>11. CASE UpdateCorpses \/ UpdateCorpsesDone \/ UpdateToDestroy
  BY <1>1, <1>11, StepUpdateCorpses, StepUpdateCorpsesDone, StepUpdateToDestroy
<1>12. CASE OnRoundStart
  BY <1>1, <1>12, StepRoundStart
<1>13. CASE UNCHANGED vars
  BY <1>1, <1>13, InvUnchanged DEF vars, objects, game
<1> QED
  BY <1>2, <1>3, <1>4, <1>5, <1>6, <1>7, <1>8, <1>9, <1>10, <1>11, <1>12, <1>13 DEF Next
-----------------------------------------------------------------------------
(* The tree, the bags and the running handler agree in every state the     *)
(* server can reach.                                                       *)
THEOREM InvHolds == Spec => []Inv
<1>1. Init => Inv
  BY InvInit
<1>2. Inv /\ [Next]_vars => Inv'
  BY InvStep
<1> QED
  BY <1>1, <1>2, PTL DEF Spec

(* xrServer::verify_entities never fails, for any number of entities and   *)
(* players: every entity is listed once by its parent and by nobody else.  *)
THEOREM EntitiesVerified == Spec => []VerifyEntities
<1>1. ASSUME Inv PROVE VerifyEntities
  <2>1. ASSUME NEW i \in entities, ID_Parent[i] # InvalidID
        PROVE  ID_Parent[i] \in entities /\ i \in ToSet(children[ID_Parent[i]])
    <3>1. i \in Ids /\ Rank(cls[i]) < Rank(cls[ID_Parent[i]]) /\ ID_Parent[i] \in Ids
      BY <1>1, <2>1, TreeFacts DEF Inv
    <3>2. cls[ID_Parent[i]] # "item"
      BY <3>1 DEF Rank
    <3> QED
      BY <1>1, <2>1, <3>1, <3>2, TreeFacts, ParentListsIt DEF Inv
  <2>2. ASSUME NEW i \in entities, NEW x \in ToSet(children[i])
        PROVE  x \in entities /\ ID_Parent[x] = i
    <3>1. i \in Ids
      BY <1>1, TreeFacts DEF Inv
    <3>2. PICK k \in 1..Len(children[i]) : children[i][k] = x
      BY <1>1, <3>1, TreeFacts DEF ToSet, Inv
    <3> QED
      BY <1>1, <3>1, <3>2, ChildFacts DEF Inv
  <2>3. ASSUME NEW i \in entities, NEW j \in DOMAIN children[i], NEW k \in DOMAIN children[i],
               children[i][j] = children[i][k]
        PROVE  j = k
    <3>1. i \in Ids /\ DOMAIN children[i] = 1..Len(children[i])
      BY <1>1, TreeFacts DEF Inv
    <3> QED
      BY <1>1, <2>3, <3>1 DEF Inv, TreeInv, Tree, Once
  <2> QED
    BY <2>1, <2>2, <2>3 DEF VerifyEntities
<1> QED
  BY <1>1, InvHolds, PTL

(* The iterator Process_event_reject keeps while OnDetach removes other    *)
(* children always points at the bag.                                      *)
THEOREM IteratorStaysValid == Spec => []IteratorValid
<1>1. ASSUME Inv PROVE IteratorValid
  <2> SUFFICES ASSUME call.op = "detach"
               PROVE  /\ call.c \in DOMAIN children[call.who]
                      /\ children[call.who][call.c] = call.what
    BY DEF IteratorValid
  <2>1. call.who \in Ids /\ DetachInv
    BY <1>1, DetachFacts
  <2>2. DOMAIN children[call.who] = 1..Len(children[call.who])
        /\ Len(children[call.who]) \in Nat
    BY <1>1, <2>1, TreeFacts, LenProperties DEF Inv
  <2> QED
    BY <2>1, <2>2 DEF DetachInv
<1> QED
  BY <1>1, InvHolds, PTL

(* What Update finds in to_destroy, if it is there, is an empty bag lying  *)
(* on the ground.                                                          *)
THEOREM WaitingBagsAreBags == Spec => []WaitingBags
<1>1. Inv => WaitingBags
  BY DEF Inv, BagInv
<1> QED
  BY <1>1, InvHolds, PTL

-----------------------------------------------------------------------------
(* When OnDetachPlayersBag has nothing left to transfer, destroy or reject, *)
(* the bag is the only child of the dead.                                  *)
LEMMA OnlyTheBagLeft ==
  ASSUME Inv, call.op = "detach", ToTransfer = 0, ToDestroy = 0, call.keep = InvalidID
  PROVE  Len(children[call.who]) = 1
<1> DEFINE s == children[call.who]
           T == {i \in 1..Len(s) : cls[s[i]] = "item" /\ s[i] # call.keep}
           D == {i \in 1..Len(s) : cls[s[i]] = "tool"}
<1>1. T = {}
  <2>1. ToTransfer = IF T # {} THEN Min(T) ELSE 0
    BY DEF ToTransfer, SelectInSeq
  <2>2. T \in SUBSET Nat /\ 0 \notin T
    BY LenProperties
  <2> HIDE DEF T
  <2> QED
    BY <2>1, <2>2, MinOfNats
<1>2. D = {}
  <2>1. ToDestroy = IF D # {} THEN Min(D) ELSE 0
    BY DEF ToDestroy, SelectInSeq
  <2>2. D \in SUBSET Nat /\ 0 \notin D
    BY LenProperties
  <2> HIDE DEF D
  <2> QED
    BY <2>1, <2>2, MinOfNats
<1>3. ASSUME NEW i \in 1..Len(s) PROVE i = 1
  <2>1. s[i] \in Ids /\ ID_Parent[s[i]] = call.who /\ Rank(cls[s[i]]) < Rank("actor")
    BY DetachFacts, ChildFacts DEF Inv
  <2>2. cls[s[i]] \in Classes /\ s[i] # InvalidID /\ cls[s[i]] # "spectator"
    BY <2>1, DetachFacts, TreeFacts, NamesAssumption DEF Inv, TreeInv, Tree, SpectatorsAlone
  <2>3. cls[s[i]] \notin {"item", "tool", "actor"}
    BY <1>1, <1>2, <2>1, <2>2 DEF Rank
  <2>4. cls[s[i]] = "bag"
    BY <2>2, <2>3 DEF Classes
  <2> QED
    BY <2>4, DetachFacts DEF Inv, TreeInv, Tree, BagFirst
<1>4. PICK n \in Nat : n = Len(s) /\ n >= 1
  BY DetachFacts, TreeFacts, LenProperties DEF DetachInv, Inv
<1> HIDE DEF s
<1>5. n \in 1..n
  BY <1>4
<1>6. n = 1
  BY <1>3, <1>4, <1>5
<1> QED
  BY <1>4, <1>6 DEF s

(* A step that ends OnDetachPlayersBag is the erase of the bag.            *)
LEMMA DetachEnds ==
  ASSUME Inv, [Next]_vars, call.op = "detach", call' = IdleCall
  PROVE  /\ ToTransfer = 0 /\ ToDestroy = 0 /\ call.keep = InvalidID
         /\ children' = [children EXCEPT ![call.who] = RemoveAt(@, call.c)]
<1>1. call # IdleCall /\ call.op \notin {"idle", "respawn", "touch", "destroy", "corpses"}
  BY DEF IdleCall
<1>2. ~Idle /\ ~Running("respawn") /\ ~Running("touch") /\ ~Running("destroy")
      /\ ~Running("corpses")
  BY <1>1 DEF Idle, Running
<1>3. call' # call
  BY <1>1
<1>4. ~UNCHANGED vars
  BY <1>3 DEF vars
<1>5. ~DetachTransfer /\ ~DetachDestroy
  BY <1>3 DEF DetachTransfer, DetachDestroy
<1>6. ~DetachReject
  BY DetachFacts DEF DetachReject, IdleCall, Calls
<1>7. \A c \in Clients : ~OnCL_Disconnected(c)
  BY <1>3 DEF OnCL_Disconnected
<1>8. DetachErase
  BY <1>2, <1>4, <1>5, <1>6, <1>7
     DEF Next, OnPlayerConnectFinished, RespawnSpectator, RespawnActor, OnPlayerDisconnect,
         SpawnItemToActor, SpawnItem, Die, RejectItem, RejectBag, DestroyObject, TakeItem,
         TakeBag, TouchTransfer, TouchDestroy, DestroyChild, DestroyLeaf, UpdateCorpses,
         UpdateCorpsesDone, UpdateToDestroy, OnRoundStart
<1> QED
  BY <1>3, <1>8 DEF DetachErase

(* The dead keep nothing once their bag has been dropped.                  *)
THEOREM BodiesEmptied == Spec => BodyEmptied
<1>1. ASSUME Inv, [Next]_vars, call.op = "detach", call' = IdleCall
      PROVE  children'[call.who] = <<>>
  <2>1. Len(children[call.who]) = 1 /\ call.c = 1 /\ call.who \in Ids
        /\ children' = [children EXCEPT ![call.who] = RemoveAt(@, call.c)]
    BY <1>1, DetachEnds, DetachFacts, OnlyTheBagLeft DEF DetachInv
  <2>2. children[call.who] \in Seq(Ids)
    BY <1>1, <2>1, TreeFacts DEF Inv
  <2>3. /\ RemoveAt(children[call.who], 1) \in Seq(Ids)
        /\ Len(RemoveAt(children[call.who], 1)) = 0
    <3>1. 1 \in 1..Len(children[call.who]) /\ Len(children[call.who]) - 1 = 0
      BY <2>1
    <3> QED
      BY <2>2, <3>1, RemoveAtProperties
  <2>4. children'[call.who] = RemoveAt(children[call.who], 1)
    BY <1>1, <2>1, TreeFacts DEF Inv
  <2> QED
    BY <2>3, <2>4, EmptySeq
<1>2. Inv /\ [Next]_vars =>
        [call.op = "detach" /\ call' = IdleCall => children'[call.who] = <<>>]_vars
  BY <1>1
<1> QED
  BY <1>2, InvHolds, PTL DEF Spec, BodyEmptied

(* Filling, emptying and destroying bags loses no item.                    *)
THEOREM NoItemLost == Spec => ItemsSurviveBags
<1>1. ASSUME Inv, [Next]_vars, call.op \in {"detach", "touch", "destroy"},
             call.who # InvalidID, NEW x \in entities, cls[x] = "item"
      PROVE  x \in entities'
  <2>1. ~Idle /\ ~Running("respawn") /\ ~Running("corpses")
    BY <1>1 DEF Idle, IdleCall, Running
  <2>2. CASE DetachDestroy
    <3>1. call.op = "detach" /\ ToDestroy # 0
          /\ entities' = entities \ {children[call.who][ToDestroy]}
      BY <2>2 DEF DetachDestroy, Destroy_leaf, Running
    <3>2. cls[children[call.who][ToDestroy]] = "tool"
      BY <1>1, <3>1, DetachFacts, FirstDestroy DEF Inv
    <3> QED
      BY <1>1, <3>1, <3>2
  <2>3. CASE DestroyLeaf
    <3>1. call.op = "destroy" /\ entities' = entities \ {Last(call.todo)}
      BY <2>3 DEF DestroyLeaf, Destroy_leaf, Running
    <3>2. cls[Last(call.todo)] = "bag"
      BY <1>1, <3>1, DestroyFacts DEF DestroyInv
    <3> QED
      BY <1>1, <3>1, <3>2
  <2>4. CASE UNCHANGED entities
    BY <2>4
  <2>5. DetachDestroy \/ DestroyLeaf \/ UNCHANGED entities
    <3>1. CASE UNCHANGED vars
      BY <3>1 DEF vars, tree
    <3>2. CASE \/ \E c \in Clients : OnCL_Disconnected(c)
               \/ DetachTransfer \/ DetachReject \/ DetachErase
               \/ TouchTransfer \/ TouchDestroy \/ DestroyChild
      BY <3>2 DEF OnCL_Disconnected, DetachTransfer, DetachReject, DetachErase, TouchTransfer,
                  TouchDestroy, DestroyChild, Perform_transfer, tree
    <3> QED
      BY <1>1, <2>1, <3>1, <3>2
         DEF Next, OnPlayerConnectFinished, RespawnSpectator, RespawnActor,
             OnPlayerDisconnect, SpawnItemToActor, SpawnItem, Die, RejectItem, RejectBag,
             DestroyObject, TakeItem, TakeBag, UpdateCorpses, UpdateCorpsesDone,
             UpdateToDestroy, OnRoundStart
  <2> QED
    BY <2>2, <2>3, <2>4, <2>5
<1>2. Inv /\ [Next]_vars =>
        [call.op \in {"detach", "touch", "destroy"} /\ call.who # InvalidID =>
           \A x \in entities : cls[x] = "item" => x \in entities']_vars
  BY <1>1
<1> QED
  BY <1>2, InvHolds, PTL DEF Spec, ItemsSurviveBags
-----------------------------------------------------------------------------
(* Players and their entities: PlayersInv is invariant.                    *)

LEMMA PlayersInit == Init => PlayersInv
<1>1. Len(<<>>) = 0
  OBVIOUS
<1> QED
  BY <1>1 DEF Init, PlayersInv, PlayedEntities, OwnersNameIt, OneFarewell, OwnGameIDs

(* Who plays what survives a step that takes no entity from its owner but  *)
(* by destroying it, and gives none to a client.                           *)
LEMMA EntitiesMove ==
  ASSUME PlayersInv, UNCHANGED <<connected, GameID, delayed>>,
         \A i \in entities' : owner'[i] = SV_Client \/ (i \in entities /\ owner'[i] = owner[i]),
         \A c \in connected : main'[c] # InvalidID =>
           /\ main'[c] = main[c] /\ main[c] \in entities' /\ cls'[main[c]] = cls[main[c]]
           /\ owner'[main[c]] = owner[main[c]]
  PROVE  PlayersInv'
<1>1. PlayedEntities'
  BY DEF PlayersInv, PlayedEntities
<1>2. OwnersNameIt'
  BY DEF PlayersInv, OwnersNameIt
<1>3. OneFarewell' /\ OwnGameIDs'
  BY DEF PlayersInv, OneFarewell, OwnGameIDs
<1> QED
  BY <1>1, <1>2, <1>3 DEF PlayersInv

LEMMA NothingMoves ==
  ASSUME PlayersInv, UNCHANGED <<entities, cls, owner, players>>
  PROVE  PlayersInv'
BY EntitiesMove DEF players, PlayersInv, PlayedEntities

LEMMA LeafMoves ==
  ASSUME PlayersInv, TypeOK, NEW x, Destroy_leaf(x)
  PROVE  PlayersInv'
<1>1. /\ entities' = entities \ {x} /\ cls' = [cls EXCEPT ![x] = "item"]
      /\ owner' = [owner EXCEPT ![x] = SV_Client] /\ main' = NobodyPlays({x})
      /\ UNCHANGED <<connected, GameID, delayed>>
  BY DEF Destroy_leaf
<1>2. \A i \in entities' : i \in entities /\ owner'[i] = owner[i] /\ cls'[i] = cls[i]
  BY <1>1 DEF TypeOK, TreeType
<1>3. ASSUME NEW c \in connected, main'[c] # InvalidID
      PROVE  main'[c] = main[c] /\ main[c] \in entities'
  <2>1. c \in Clients
    BY DEF TypeOK, PlayerType
  <2>2. main'[c] = IF main[c] \in {x} /\ owner[main[c]] = c THEN InvalidID ELSE main[c]
    BY <1>1, <2>1 DEF NobodyPlays
  <2>3. main[c] # InvalidID /\ owner[main[c]] = c /\ main[c] \in entities
    BY <1>3, <2>2 DEF PlayersInv, PlayedEntities
  <2> QED
    BY <1>1, <1>3, <2>2, <2>3
<1> QED
  BY <1>1, <1>2, <1>3, EntitiesMove

LEMMA ItemSpawns ==
  ASSUME PlayersInv, TypeOK, NEW id \in PerformIDgen(FreeIDs), NEW class, NEW p,
         Process_spawn(id, class, p, SV_Client), UNCHANGED players
  PROVE  PlayersInv'
<1>1. id \in Ids /\ id \notin entities
  BY GeneratedIDs
<1>2. \A i \in entities : i # id /\ owner'[i] = owner[i] /\ cls'[i] = cls[i]
  BY <1>1 DEF Process_spawn, TypeOK, TreeType
<1>3. entities' = entities \cup {id} /\ owner'[id] = SV_Client
  BY <1>1 DEF Process_spawn, TypeOK, TreeType
<1> QED
  BY <1>2, <1>3, EntitiesMove DEF players, PlayersInv, PlayedEntities

(* A generated id is nobody's game id and in no farewell.                  *)
LEMMA FreshID ==
  ASSUME TypeOK, NEW id \in PerformIDgen(FreeIDs)
  PROVE  /\ id \in Ids /\ id \notin entities /\ id # InvalidID
         /\ \A c \in connected : GameID[c] # id
         /\ \A k \in 1..Len(delayed) : delayed[k].GameID # id
<1>1. DOMAIN delayed = 1..Len(delayed)
  BY DEF TypeOK, PlayerType
<1> QED
  BY <1>1, GeneratedIDs, NamesAssumption DEF StillNamed

LEMMA StepPlayerConnects ==
  ASSUME PlayersInv, TypeOK, NEW c \in Clients, OnPlayerConnectFinished(c)
  PROVE  PlayersInv'
<1>1. c \notin connected /\ \A k \in 1..Len(delayed) : delayed[k].client # c
  BY DEF OnPlayerConnectFinished, PendingDisconnect, TypeOK, PlayerType
<1>2. PICK id \in PerformIDgen(FreeIDs) :
        /\ Process_spawn(id, "spectator", InvalidID, c)
        /\ connected' = connected \cup {c} /\ delayed' = delayed
        /\ main' = [main EXCEPT ![c] = id] /\ GameID' = [GameID EXCEPT ![c] = id]
  BY DEF OnPlayerConnectFinished
<1>3. /\ entities' = entities \cup {id}
      /\ cls' = [cls EXCEPT ![id] = "spectator"] /\ owner' = [owner EXCEPT ![id] = c]
  BY <1>2 DEF Process_spawn
<1>4. /\ id \in Ids /\ id \notin entities /\ id # InvalidID
      /\ \A d \in connected : GameID[d] # id
      /\ \A k \in 1..Len(delayed) : delayed[k].GameID # id
  BY FreshID
<1>5. /\ owner'[id] = c /\ cls'[id] = "spectator"
      /\ \A i \in entities : owner'[i] = owner[i] /\ cls'[i] = cls[i]
      /\ main'[c] = id /\ GameID'[c] = id
      /\ \A d \in connected : main'[d] = main[d] /\ GameID'[d] = GameID[d]
  BY <1>1, <1>2, <1>3, <1>4 DEF TypeOK, TreeType, PlayerType
<1>6. PlayedEntities'
  BY <1>2, <1>3, <1>5 DEF PlayersInv, PlayedEntities
<1>7. OwnersNameIt'
  <2>1. ASSUME NEW i \in entities, owner[i] # SV_Client PROVE owner[i] # c
    BY <1>1, <2>1 DEF PlayersInv, OwnersNameIt
  <2> QED
    BY <1>2, <1>3, <1>5, <2>1 DEF PlayersInv, OwnersNameIt
<1>8. OneFarewell'
  BY <1>1, <1>2 DEF PlayersInv, OneFarewell
<1>9. OwnGameIDs'
  BY <1>2, <1>4, <1>5 DEF PlayersInv, OwnGameIDs
<1> QED
  BY <1>6, <1>7, <1>8, <1>9 DEF PlayersInv

LEMMA StepPlayerGone ==
  ASSUME PlayersInv, TypeOK, NEW c \in Clients, OnCL_Disconnected(c)
  PROVE  PlayersInv'
<1> DEFINE farewell == [client |-> c, GameID |-> GameID[c]]
           n == Len(delayed)
<1>1. /\ c \in connected /\ connected' = connected \ {c} /\ delayed' = Append(delayed, farewell)
      /\ UNCHANGED <<entities, cls, owner, main, GameID>>
  BY DEF OnCL_Disconnected, tree
<1>2. farewell.client = c /\ farewell.GameID = GameID[c]
  OBVIOUS
<1>3. delayed \in Seq([client : Clients, GameID : Ids \cup {InvalidID}]) /\ n \in Nat
      /\ farewell \in [client : Clients, GameID : Ids \cup {InvalidID}]
  BY DEF TypeOK, PlayerType
<1> HIDE DEF farewell
<1>4. /\ Len(delayed') = n + 1 /\ delayed'[n + 1] = farewell
      /\ \A k \in 1..n : delayed'[k] = delayed[k] /\ k \in 1..(n + 1)
  BY <1>1, <1>3
<1>4a. \A k \in 1..(n + 1) : k = n + 1 \/ k \in 1..n
  BY <1>3
<1>4b. n + 1 \in 1..(n + 1)
  BY <1>3
<1> HIDE DEF n
<1>5. PlayedEntities'
  BY <1>1 DEF PlayersInv, PlayedEntities
<1>6. OwnersNameIt'
  <2> SUFFICES ASSUME NEW i \in entities', owner'[i] # SV_Client
               PROVE  IF owner'[i] \in connected' THEN GameID'[owner'[i]] = i
                      ELSE \E k \in 1..(n + 1) : /\ delayed'[k].client = owner'[i]
                                                 /\ delayed'[k].GameID = i
    BY <1>4 DEF OwnersNameIt
  <2>1. CASE owner[i] = c
    <3>1. GameID[c] = i
      BY <1>1, <2>1 DEF PlayersInv, OwnersNameIt
    <3> QED
      BY <1>1, <1>2, <1>4, <1>4b, <2>1, <3>1
  <2>2. CASE owner[i] # c
    BY <1>1, <1>4, <2>2 DEF PlayersInv, OwnersNameIt, n
  <2> QED
    BY <2>1, <2>2
<1>7. OneFarewell'
  <2>1. \A k \in 1..n : delayed[k].client # c
    BY <1>1 DEF PlayersInv, OneFarewell, n
  <2>2. \A k \in 1..n : /\ delayed[k].client \notin connected
                        /\ \A j \in 1..n : delayed[j].client = delayed[k].client => j = k
    BY DEF PlayersInv, OneFarewell, n
  <2>3. ASSUME NEW k \in 1..(n + 1)
        PROVE  /\ delayed'[k].client \notin connected'
               /\ \A j \in 1..(n + 1) : delayed'[j].client = delayed'[k].client => j = k
    BY <1>1, <1>2, <1>4, <1>4a, <2>1, <2>2
  <2> QED
    BY <1>4, <2>3 DEF OneFarewell
<1>8. OwnGameIDs'
  <2>1. \A d \in connected : \A k \in 1..n : delayed[k].GameID # GameID[d]
    BY DEF PlayersInv, OwnGameIDs, n
  <2>2. \A d \in connected' : d \in connected /\ GameID[d] # GameID[c]
    BY <1>1 DEF PlayersInv, OwnGameIDs
  <2>3. \A d \in connected' : \A k \in 1..(n + 1) : delayed'[k].GameID # GameID'[d]
    BY <1>1, <1>2, <1>4, <1>4a, <2>1, <2>2
  <2> QED
    BY <1>1, <1>4, <2>2, <2>3 DEF PlayersInv, OwnGameIDs
<1> QED
  BY <1>5, <1>6, <1>7, <1>8 DEF PlayersInv

LEMMA StepFarewell ==
  ASSUME PlayersInv, TypeOK, OnPlayerDisconnect
  PROVE  PlayersInv'
<1> DEFINE n == Len(delayed)
           client == delayed[1].client
           body == delayed[1].GameID
<1>1. /\ delayed \in Seq([client : Clients, GameID : Ids \cup {InvalidID}]) /\ delayed # <<>>
      /\ delayed' = Tail(delayed)
  BY DEF OnPlayerDisconnect, TypeOK, PlayerType
<1>2. /\ n \in Nat /\ n >= 1 /\ Len(delayed') = n - 1 /\ Head(delayed) = delayed[1]
      /\ \A k \in 1..(n - 1) : delayed'[k] = delayed[k + 1]
  BY <1>1
<1>3. /\ UNCHANGED <<entities, cls, connected, GameID>>
      /\ main' = [main EXCEPT ![client] = InvalidID]
      /\ owner' = IF body \in entities THEN [owner EXCEPT ![body] = SV_Client] ELSE owner
  BY <1>2 DEF OnPlayerDisconnect, LeftToServer, tree
<1>4. /\ client \notin connected /\ \A c \in connected : GameID[c] # body
      /\ \A k \in 1..n : delayed[k].client = client => k = 1
  BY <1>2 DEF PlayersInv, OneFarewell, OwnGameIDs
<1> HIDE DEF client, body
<1>5. PlayedEntities'
  <2>1. ASSUME NEW c \in connected, main[c] # InvalidID
        PROVE  main'[c] = main[c] /\ owner'[main[c]] = owner[main[c]]
    <3>1. c \in Clients /\ main[c] \in entities /\ GameID[c] = main[c] /\ main[c] # body
      BY <1>4, <2>1 DEF PlayersInv, PlayedEntities, TypeOK, PlayerType
    <3> QED
      BY <1>3, <1>4, <3>1 DEF TypeOK, TreeType, PlayerType
  <2>2. \A c \in connected : c \in Clients /\ c # client
    BY <1>4 DEF TypeOK, PlayerType
  <2>3. \A c \in connected : main'[c] = main[c]
    BY <1>3, <2>2 DEF TypeOK, PlayerType
  <2> QED
    BY <1>3, <2>1, <2>3 DEF PlayersInv, PlayedEntities
<1>6. OwnersNameIt'
  <2> SUFFICES ASSUME NEW i \in entities, owner'[i] # SV_Client
               PROVE  IF owner'[i] \in connected THEN GameID[owner'[i]] = i
                      ELSE \E k \in 1..(n - 1) : /\ delayed'[k].client = owner'[i]
                                                 /\ delayed'[k].GameID = i
    BY <1>2, <1>3 DEF OwnersNameIt
  <2>1. owner'[i] = owner[i] /\ i # body
    BY <1>3 DEF TypeOK, TreeType
  <2>2. CASE owner[i] \in connected
    BY <2>1, <2>2 DEF PlayersInv, OwnersNameIt
  <2>3. CASE owner[i] \notin connected
    <3>1. PICK k \in 1..n : delayed[k].client = owner[i] /\ delayed[k].GameID = i
      BY <2>1, <2>3 DEF PlayersInv, OwnersNameIt
    <3>2. k # 1
      BY <2>1, <3>1 DEF body
    <3>3. k - 1 \in 1..(n - 1) /\ delayed'[k - 1] = delayed[k]
      BY <1>2, <3>2
    <3> QED
      BY <2>1, <2>3, <3>1, <3>3
  <2> QED
    BY <2>2, <2>3
<1>7. \A k \in 1..(n - 1) : k + 1 \in 1..n /\ k \in Nat
  BY <1>2
<1>8. OneFarewell'
  <2>1. ASSUME NEW k \in 1..(n - 1)
        PROVE  /\ delayed'[k].client \notin connected
               /\ \A j \in 1..(n - 1) : delayed'[j].client = delayed'[k].client => j = k
    <3>1. delayed[k + 1].client \notin connected
      BY <1>7 DEF PlayersInv, OneFarewell
    <3>2. ASSUME NEW j \in 1..(n - 1), delayed[j + 1].client = delayed[k + 1].client PROVE j = k
      <4>1. j + 1 = k + 1
        BY <1>7, <3>2 DEF PlayersInv, OneFarewell
      <4> QED
        BY <1>7, <4>1
    <3> QED
      BY <1>2, <3>1, <3>2
  <2> QED
    BY <1>2, <1>3, <2>1 DEF OneFarewell
<1>9. OwnGameIDs'
  <2>1. \A c \in connected : \A k \in 1..(n - 1) : delayed'[k].GameID # GameID[c]
    BY <1>2, <1>7 DEF PlayersInv, OwnGameIDs
  <2> QED
    BY <1>2, <1>3, <2>1 DEF PlayersInv, OwnGameIDs
<1> QED
  BY <1>5, <1>6, <1>8, <1>9 DEF PlayersInv

(* A respawn: c plays a new actor, and what he played is the server's, or  *)
(* gone.                                                                   *)
LEMMA Respawned ==
  ASSUME PlayersInv, TypeOK, NEW c \in connected, main[c] # InvalidID,
         NEW id \in PerformIDgen(FreeIDs),
         main' = [main EXCEPT ![c] = id], GameID' = [GameID EXCEPT ![c] = id],
         UNCHANGED <<connected, delayed>>,
         entities' \in {entities \cup {id}, (entities \ {main[c]}) \cup {id}},
         owner' = [owner EXCEPT ![main[c]] = SV_Client, ![id] = c],
         cls'[id] = "actor", \A i \in entities \ {main[c]} : cls'[i] = cls[i]
  PROVE  PlayersInv'
<1>1. /\ id \in Ids /\ id \notin entities /\ id # InvalidID
      /\ \A d \in connected : GameID[d] # id
      /\ \A k \in 1..Len(delayed) : delayed[k].GameID # id
  BY FreshID
<1>2. /\ main[c] \in entities /\ main[c] # id /\ owner[main[c]] = c /\ GameID[c] = main[c]
      /\ c \in Clients /\ connected \subseteq Clients
  BY <1>1 DEF PlayersInv, PlayedEntities, TypeOK, PlayerType
<1>3. /\ owner'[id] = c /\ owner'[main[c]] = SV_Client
      /\ \A i \in entities \ {main[c]} : i # id /\ owner'[i] = owner[i]
  BY <1>1, <1>2 DEF TypeOK, TreeType
<1>4. /\ main'[c] = id /\ GameID'[c] = id
      /\ \A d \in connected \ {c} : main'[d] = main[d] /\ GameID'[d] = GameID[d]
  BY <1>2 DEF TypeOK, PlayerType
<1>5. PlayedEntities'
  <2>1. ASSUME NEW d \in connected \ {c}, main[d] # InvalidID
        PROVE  main[d] \in entities \ {main[c]}
    BY <1>2, <2>1 DEF PlayersInv, PlayedEntities
  <2>2. ASSUME NEW d \in connected \ {c}, main[d] # InvalidID
        PROVE  /\ main[d] \in entities' /\ cls'[main[d]] \in {"actor", "spectator"}
               /\ owner'[main[d]] = d /\ GameID'[d] = main[d]
    BY <1>3, <1>4, <2>1, <2>2, ZenonT(60) DEF PlayersInv, PlayedEntities
  <2>3. id \in entities'
    OBVIOUS
  <2>4. \A d \in connected : main'[d] # InvalidID =>
          /\ main'[d] \in entities' /\ cls'[main'[d]] \in {"actor", "spectator"}
          /\ owner'[main'[d]] = d /\ GameID'[d] = main'[d]
    <3> SUFFICES ASSUME NEW d \in connected, main'[d] # InvalidID
                 PROVE  /\ main'[d] \in entities' /\ cls'[main'[d]] \in {"actor", "spectator"}
                        /\ owner'[main'[d]] = d /\ GameID'[d] = main'[d]
      OBVIOUS
    <3>1. CASE d = c
      BY <1>3, <1>4, <2>3, <3>1
    <3>2. CASE d # c
      <4>1. main'[d] = main[d]
        BY <1>4, <3>2
      <4> QED
        BY <2>2, <3>2, <4>1
    <3> QED
      BY <3>1, <3>2
  <2>5. connected' = connected
    OBVIOUS
  <2> QED
    BY <2>4, <2>5 DEF PlayedEntities
<1>6. OwnersNameIt'
  <2>1. ASSUME NEW i \in entities', owner'[i] # SV_Client, i # id
        PROVE  i \in entities \ {main[c]} /\ owner'[i] = owner[i] /\ owner[i] # c
    <3>1. i \in entities \ {main[c]} /\ owner'[i] = owner[i]
      BY <1>3, <2>1
    <3> QED
      BY <1>2, <2>1, <3>1, NamesAssumption DEF PlayersInv, OwnersNameIt
  <2> SUFFICES ASSUME NEW i \in entities', owner'[i] # SV_Client
               PROVE  IF owner'[i] \in connected THEN GameID'[owner'[i]] = i
                      ELSE \E k \in 1..Len(delayed) : /\ delayed[k].client = owner'[i]
                                                       /\ delayed[k].GameID = i
    BY DEF OwnersNameIt
  <2>2. CASE i = id
    BY <1>3, <1>4, <2>2
  <2>3. CASE i # id
    <3>1. i \in entities /\ owner'[i] = owner[i] /\ owner[i] # c /\ owner[i] # SV_Client
      BY <2>1, <2>3
    <3>2. IF owner[i] \in connected THEN GameID[owner[i]] = i
          ELSE \E k \in 1..Len(delayed) : delayed[k].client = owner[i] /\ delayed[k].GameID = i
      BY <3>1 DEF PlayersInv, OwnersNameIt
    <3>3. owner[i] \in connected => GameID'[owner[i]] = GameID[owner[i]]
      BY <1>4, <3>1
    <3> QED
      BY <3>1, <3>2, <3>3
  <2> QED
    BY <2>2, <2>3
<1>7. OneFarewell'
  BY DEF PlayersInv, OneFarewell
<1>8. OwnGameIDs'
  BY <1>1, <1>4 DEF PlayersInv, OwnGameIDs
<1> QED
  BY <1>5, <1>6, <1>7, <1>8 DEF PlayersInv

LEMMA StepRespawns ==
  ASSUME PlayersInv, TypeOK, NEW c \in Clients, RespawnSpectator(c) \/ RespawnActor(c)
  PROVE  PlayersInv'
<1>1. c \in connected /\ main[c] # InvalidID /\ main[c] \in entities /\ main[c] \in Ids
  BY DEF RespawnSpectator, RespawnActor, PlayersInv, PlayedEntities, TypeOK, TreeType
<1>2. CASE RespawnSpectator(c)
  <2>1. PICK id \in PerformIDgen(FreeIDs) :
          /\ entities' = (entities \ {main[c]}) \cup {id}
          /\ cls' = [cls EXCEPT ![main[c]] = "item", ![id] = "actor"]
          /\ owner' = [owner EXCEPT ![main[c]] = SV_Client, ![id] = c]
          /\ main' = [main EXCEPT ![c] = id] /\ GameID' = [GameID EXCEPT ![c] = id]
    BY <1>2 DEF RespawnSpectator, SpawnActor
  <2>2. UNCHANGED <<connected, delayed>>
    BY <1>2 DEF RespawnSpectator
  <2>3. cls'[id] = "actor" /\ \A i \in entities \ {main[c]} : cls'[i] = cls[i]
    BY <2>1, FreshID DEF TypeOK, TreeType
  <2> QED
    BY <1>1, <2>1, <2>2, <2>3, Respawned
<1>3. CASE RespawnActor(c)
  <2>1. PICK id \in PerformIDgen(FreeIDs) :
          /\ entities' = entities \cup {id}
          /\ cls' = [cls EXCEPT ![id] = "actor"]
          /\ owner' = [LeftToServer(owner, main[c]) EXCEPT ![id] = c]
          /\ main' = [main EXCEPT ![c] = id] /\ GameID' = [GameID EXCEPT ![c] = id]
    BY <1>3 DEF RespawnActor, SpawnActor
  <2>2. UNCHANGED <<connected, delayed>>
    BY <1>3 DEF RespawnActor
  <2>3. cls'[id] = "actor" /\ \A i \in entities \ {main[c]} : cls'[i] = cls[i]
    BY <2>1, FreshID DEF TypeOK, TreeType
  <2>4. owner' = [owner EXCEPT ![main[c]] = SV_Client, ![id] = c]
    BY <2>1 DEF LeftToServer
  <2> QED
    BY <1>1, <2>1, <2>2, <2>3, <2>4, Respawned
<1> QED
  BY <1>2, <1>3

LEMMA StepPlayersRound == ASSUME PlayersInv, TypeOK, OnRoundStart PROVE PlayersInv'
<1>1. /\ entities' = {} /\ delayed' = <<>> /\ Len(<<>>) = 0 /\ connected' = connected
      /\ main' = NobodyPlays(entities)
      /\ GameID' = [c \in Clients |-> IF c \in connected THEN GameID[c] ELSE InvalidID]
  BY DEF OnRoundStart
<1>2. \A c \in connected : main'[c] = InvalidID /\ GameID'[c] = GameID[c]
  BY <1>1 DEF NobodyPlays, PlayersInv, PlayedEntities, TypeOK, PlayerType
<1> QED
  BY <1>1, <1>2 DEF PlayersInv, PlayedEntities, OwnersNameIt, OneFarewell, OwnGameIDs

LEMMA StepBagsDestroyed == ASSUME PlayersInv, Inv, UpdateToDestroy PROVE PlayersInv'
<1>1. CASE to_destroy \subseteq entities
  <2>1. /\ entities' = entities \ to_destroy /\ UNCHANGED <<owner, players>>
        /\ cls' = [i \in Ids |-> IF i \in to_destroy THEN "item" ELSE cls[i]]
    BY <1>1 DEF UpdateToDestroy
  <2>2. \A b \in to_destroy : cls[b] = "bag"
    BY <1>1 DEF Inv, BagInv, WaitingBags
  <2>3. \A c \in connected : main[c] # InvalidID =>
          main[c] \in entities' /\ cls'[main[c]] = cls[main[c]]
    BY <2>1, <2>2 DEF PlayersInv, PlayedEntities, Inv, TypeOK, TreeType
  <2> QED
    BY <2>1, <2>3, EntitiesMove DEF players
<1>2. CASE ~(to_destroy \subseteq entities)
  BY <1>2, NothingMoves DEF UpdateToDestroy
<1> QED
  BY <1>1, <1>2

LEMMA PlayersStep == ASSUME PlayersInv, Inv, [Next]_vars PROVE PlayersInv'
<1>0. TypeOK
  BY DEF Inv
<1>1. CASE UNCHANGED vars
  BY <1>1, NothingMoves DEF vars, tree
<1>2. ASSUME NEW c \in Clients,
             \/ OnPlayerConnectFinished(c) \/ OnCL_Disconnected(c)
             \/ RespawnSpectator(c) \/ RespawnActor(c)
      PROVE  PlayersInv'
  BY <1>0, <1>2, StepPlayerConnects, StepPlayerGone, StepRespawns
<1>3. CASE OnPlayerDisconnect \/ OnRoundStart \/ UpdateToDestroy
  BY <1>0, <1>3, StepFarewell, StepPlayersRound, StepBagsDestroyed
<1>4. CASE SpawnItemToActor
  <2>1. \/ \E id \in PerformIDgen(FreeIDs) :
             Process_spawn(id, Head(call.left), call.who, SV_Client)
        \/ UNCHANGED <<tree, owner>>
    BY <1>4 DEF SpawnItemToActor
  <2>2. UNCHANGED players
    BY <1>4 DEF SpawnItemToActor
  <2> QED
    BY <1>0, <2>1, <2>2, ItemSpawns, NothingMoves DEF tree
<1>5. ASSUME NEW class \in SpawnClasses, NEW p \in Ids \cup {InvalidID}, SpawnItem(class, p)
      PROVE  PlayersInv'
  BY <1>0, <1>5, ItemSpawns DEF SpawnItem
<1>6. ASSUME NEW x \in Ids, Die(x) \/ RejectItem(x) \/ RejectBag(x) \/ DestroyObject(x)
      PROVE  PlayersInv'
  <2>1. UNCHANGED <<entities, cls, owner, players>>
    BY <1>6 DEF Die, RejectItem, RejectBag, DestroyObject, tree
  <2> QED
    BY <2>1, NothingMoves
<1>7. ASSUME NEW a \in Ids, NEW x \in Ids, TakeItem(a, x) \/ TakeBag(a, x) PROVE PlayersInv'
  BY <1>7, NothingMoves DEF TakeItem, TakeBag, tree
<1>8. CASE \/ DetachTransfer \/ DetachReject \/ DetachErase \/ TouchTransfer \/ TouchDestroy
           \/ DestroyChild \/ UpdateCorpsesDone
  BY <1>8, NothingMoves
     DEF DetachTransfer, DetachReject, DetachErase, TouchTransfer, TouchDestroy, DestroyChild,
         UpdateCorpsesDone, Perform_transfer, tree
<1>9. CASE DetachDestroy \/ DestroyLeaf
  BY <1>0, <1>9, LeafMoves DEF DetachDestroy, DestroyLeaf
<1>10. CASE UpdateCorpses
  <2>1. \/ \E x : Destroy_leaf(x)
        \/ UNCHANGED <<tree, owner, players>>
    BY <1>10 DEF UpdateCorpses
  <2> QED
    BY <1>0, <2>1, LeafMoves, NothingMoves DEF tree
<1> QED
  BY <1>1, <1>2, <1>3, <1>4, <1>5, <1>6, <1>7, <1>8, <1>9, <1>10 DEF Next

LEMMA PlayersHold == Spec => []PlayersInv
<1>1. Init => PlayersInv
  BY PlayersInit
<1>2. PlayersInv /\ Inv /\ [Next]_vars => PlayersInv'
  BY PlayersStep
<1> QED
  BY <1>1, <1>2, InvHolds, PTL DEF Spec

(* The entity a connected client plays exists, is an actor or spectator of  *)
(* his, and is the one his player state names.                             *)
THEOREM PlayersPlayTheirOwn == Spec => []PlayedEntities
<1>1. PlayersInv => PlayedEntities
  BY DEF PlayersInv
<1> QED
  BY <1>1, PlayersHold, PTL

(* An entity's owner is the server's client, a connected client, or one    *)
(* whose farewell the server thread has still to handle.                   *)
THEOREM OwnersAreKnown == Spec => []OwnersKnown
<1>1. TypeOK /\ PlayersInv => OwnersKnown
  <2> SUFFICES ASSUME TypeOK, PlayersInv, NEW i \in entities, owner[i] # SV_Client,
                      owner[i] \notin connected
               PROVE  \E k \in DOMAIN delayed : owner[i] = delayed[k].client
    BY DEF OwnersKnown
  <2>1. DOMAIN delayed = 1..Len(delayed)
    BY DEF TypeOK, PlayerType
  <2> QED
    BY <2>1 DEF PlayersInv, OwnersNameIt
<1> QED
  BY <1>1, PlayersHold, TypeCorrect, PTL
-----------------------------------------------------------------------------
(* The generator of ids.  Numbers as blocks and places.                    *)
LEMMA Division == ASSUME NEW n \in Nat, NEW d \in Nat \ {0}
  PROVE n \div d \in Nat /\ n % d \in 0..d-1 /\ n = (n \div d) * d + (n % d)
OBVIOUS

LEMMA DivisionUnique == ASSUME NEW d \in Nat \ {0}, NEW b \in Nat, NEW c \in 0..d-1
  PROVE (b * d + c) \div d = b /\ (b * d + c) % d = c
OBVIOUS

LEMMA TimesMonotone == ASSUME NEW d \in Nat, NEW a \in Nat, NEW b \in Nat, a <= b
  PROVE a * d <= b * d /\ a * d \in Nat /\ b * d \in Nat
OBVIOUS

LEMMA NextMultiple == ASSUME NEW d \in Nat, NEW a \in Nat
  PROVE (a + 1) * d = a * d + d /\ a * d \in Nat
OBVIOUS

LEMMA QuotientMonotone ==
  ASSUME NEW d \in Nat \ {0}, NEW q \in Nat, NEW Q \in Nat, NEW r \in 0..d-1, NEW R \in 0..d-1,
         q * d + r <= Q * d + R
  PROVE q <= Q
<1>1. SUFFICES ASSUME Q + 1 <= q PROVE FALSE
  OBVIOUS
<1>2. (Q + 1) * d <= q * d /\ q * d \in Nat
  BY <1>1, TimesMonotone
<1>3. (Q + 1) * d = Q * d + d /\ Q * d \in Nat
  BY NextMultiple
<1> QED
  BY <1>2, <1>3

LEMMA BlockCount == m_tBlockCount \in Nat \ {0} /\ Blocks \subseteq Nat
<1>1. tMaxValue - tMinValue \in Nat /\ tBlockSize \in Nat \ {0}
  BY RangeAssumption
<1>2. (tMaxValue - tMinValue) \div tBlockSize \in Nat
  BY <1>1, Division
<1> QED
  BY <1>2 DEF m_tBlockCount, Blocks

(* The place and the block of an id, and the way back.                     *)
LEMMA ValueOf == ASSUME NEW v \in Values
  PROVE /\ tfGetBlockByValue(v) \in Blocks /\ Place(v) \in Places
        /\ Value(tfGetBlockByValue(v), Place(v)) = v
<1> DEFINE n == v - tMinValue
           m == tMaxValue - tMinValue
           q == n \div tBlockSize
           r == n % tBlockSize
           Q == m \div tBlockSize
           R == m % tBlockSize
<1>1. n \in Nat /\ m \in Nat /\ n <= m /\ tBlockSize \in Nat \ {0} /\ tMinValue \in Nat /\ v \in Nat
  BY RangeAssumption DEF Values
<1>2. q \in Nat /\ r \in 0..tBlockSize - 1 /\ n = q * tBlockSize + r
  BY <1>1, Division
<1>3. Q \in Nat /\ R \in 0..tBlockSize - 1 /\ m = Q * tBlockSize + R
  BY <1>1, Division
<1>4. q <= Q
  BY <1>1, <1>2, <1>3, QuotientMonotone
<1>5. tfGetBlockByValue(v) = q /\ Place(v) = r /\ m_tBlockCount = Q + 1
  BY DEF tfGetBlockByValue, Place, m_tBlockCount
<1>6. q \in Blocks /\ r \in Places
  BY <1>2, <1>3, <1>4, <1>5 DEF Blocks, Places
<1>7. Value(q, r) = v
  <2>1. q * tBlockSize \in Nat
    BY <1>1, <1>2
  <2> QED
    BY <2>1, <1>1, <1>2 DEF Value
<1> QED
  BY <1>5, <1>6, <1>7

LEMMA OfValue == ASSUME NEW b \in Blocks, NEW p \in Places
  PROVE tfGetBlockByValue(Value(b, p)) = b /\ Place(Value(b, p)) = p
<1>1. b \in Nat /\ tBlockSize \in Nat \ {0} /\ tMinValue \in Nat /\ p \in 0..tBlockSize - 1
  BY BlockCount, RangeAssumption DEF Places
<1>2. b * tBlockSize \in Nat
  BY <1>1
<1>3. Value(b, p) - tMinValue = b * tBlockSize + p
  BY <1>1, <1>2 DEF Value
<1> QED
  BY <1>1, <1>3, DivisionUnique DEF tfGetBlockByValue, Place

(* The inductive invariant.                                                *)
Sound == \A b \in Blocks : \A k \in 0..m_tCount[b] - 1 : Value(b, m_tpIDs[b][k]) \in Values \ held
Complete ==
  \A v \in Values \ held : \E k \in 0..m_tCount[tfGetBlockByValue(v)] - 1 :
    m_tpIDs[tfGetBlockByValue(v)][k] = Place(v)
Clock ==
  /\ now # 0
  /\ \A b \in Blocks : m_tTimeID[b] = 0 <=> \A v \in freed : tfGetBlockByValue(v) # b
NonEmpty == {b \in Blocks : m_tCount[b] # 0}
Counted == m_available_count = Cardinality(NonEmpty)

IInv == GeneratorTyped /\ EachOnce /\ Sound /\ Complete /\ Clock /\ Counted

LEMMA FiniteBlocks ==
  /\ IsFiniteSet(Blocks) /\ IsFiniteSet(NonEmpty) /\ Cardinality(NonEmpty) \in Nat
  /\ Cardinality(Blocks) = m_tBlockCount
<1>1. IsFiniteSet(Blocks) /\ Cardinality(Blocks) = m_tBlockCount
  BY BlockCount, FS_Interval DEF Blocks
<1>2. NonEmpty \in SUBSET Blocks
  BY DEF NonEmpty
<1> QED
  BY <1>1, <1>2, FS_Subset, FS_CardinalityType

(* Blocks are filled by the constructor.                                   *)
LEMMA InBlockBound == ASSUME NEW b \in Blocks
  PROVE /\ InBlock(b) \in 1..tBlockSize
        /\ \A p \in 0..InBlock(b) - 1 : Value(b, p) \in Values
        /\ \A v \in Values : tfGetBlockByValue(v) = b => Place(v) < InBlock(b)
<1> DEFINE m == tMaxValue - tMinValue
           Q == m \div tBlockSize
           R == m % tBlockSize
<1>1. m \in Nat /\ tBlockSize \in Nat \ {0} /\ tMinValue \in Nat /\ tMaxValue \in Nat /\ b \in Nat
  BY RangeAssumption, BlockCount
<1>2. Q \in Nat /\ R \in 0..tBlockSize - 1 /\ m = Q * tBlockSize + R /\ Q * tBlockSize \in Nat
  <2>1. Q \in Nat /\ R \in 0..tBlockSize - 1 /\ m = Q * tBlockSize + R
    BY <1>1, Division
  <2> QED
    BY <2>1, <1>1, NextMultiple
<1>3. m_tBlockCount = Q + 1 /\ b <= Q
  BY <1>1, <1>2 DEF Blocks, m_tBlockCount
<1>4. CASE b < Q
  <2>1. InBlock(b) = tBlockSize
    BY <1>2, <1>3, <1>4 DEF InBlock
  <2>2. (b + 1) * tBlockSize <= Q * tBlockSize /\ (b + 1) * tBlockSize = b * tBlockSize + tBlockSize
        /\ b * tBlockSize \in Nat
    BY <1>1, <1>2, <1>4, TimesMonotone, NextMultiple
  <2>3. ASSUME NEW p \in 0..tBlockSize - 1 PROVE Value(b, p) \in Values
    BY <1>1, <1>2, <2>2 DEF Value, Values
  <2>4. \A v \in Values : Place(v) < tBlockSize
    BY ValueOf, <1>1 DEF Places
  <2> QED
    BY <2>1, <2>3, <2>4, <1>1
<1>5. CASE b = Q
  <2>1. InBlock(b) = R + 1
    BY <1>1, <1>2, <1>3, <1>5 DEF InBlock
  <2>2. ASSUME NEW p \in 0..R PROVE Value(b, p) \in Values
    BY <1>1, <1>2, <1>5 DEF Value, Values
  <2>3. ASSUME NEW v \in Values, tfGetBlockByValue(v) = b PROVE Place(v) <= R
    <3>1. Value(b, Place(v)) = v /\ Place(v) \in Places
      BY <2>3, ValueOf
    <3> QED
      BY <3>1, <1>1, <1>2, <1>5 DEF Value, Values, Places
  <2>4. R \in Nat /\ \A v \in Values : Place(v) \in Nat
    BY <1>1, <1>2, ValueOf DEF Places
  <2> QED
    BY <2>1, <2>2, <2>3, <2>4, <1>1, <1>2
<1>6. b < Q \/ b = Q
  BY <1>1, <1>2, <1>3
<1> QED
  BY <1>4, <1>5, <1>6

LEMMA InitInv == GeneratorInit => IInv
<1> SUFFICES ASSUME GeneratorInit PROVE IInv
  OBVIOUS
<1>1. GeneratorTyped
  <2>1. \A b \in Blocks : InBlock(b) \in 0..tBlockSize
    BY InBlockBound, RangeAssumption
  <2>2. \A b \in Blocks : \A k \in Places :
          (IF k < InBlock(b) THEN InBlock(b) - 1 - k ELSE 0) \in Places
    BY <2>1, RangeAssumption DEF Places
  <2>3. m_tpIDs \in [Blocks -> [Places -> Places]]
    BY <2>2 DEF GeneratorInit
  <2> QED
    BY <2>1, <2>3, BlockCount DEF GeneratorInit, GeneratorTyped
<1>2. \A b \in Blocks : m_tCount[b] = InBlock(b)
                        /\ \A k \in 0..m_tCount[b] - 1 : m_tpIDs[b][k] = InBlock(b) - 1 - k
  BY InBlockBound, RangeAssumption DEF GeneratorInit, Places
<1>3. EachOnce
  BY <1>2, InBlockBound, RangeAssumption DEF EachOnce
<1>4. Sound
  <2>1. ASSUME NEW b \in Blocks, NEW k \in 0..m_tCount[b] - 1
        PROVE InBlock(b) - 1 - k \in 0..InBlock(b) - 1
    BY <1>2, InBlockBound, RangeAssumption
  <2> QED
    BY <2>1, <1>2, InBlockBound DEF Sound, GeneratorInit
<1>5. Complete
  <2> SUFFICES ASSUME NEW v \in Values
               PROVE \E k \in 0..m_tCount[tfGetBlockByValue(v)] - 1 :
                       m_tpIDs[tfGetBlockByValue(v)][k] = Place(v)
    BY DEF Complete
  <2> DEFINE b == tfGetBlockByValue(v)
             k == InBlock(b) - 1 - Place(v)
  <2>1. b \in Blocks /\ Place(v) \in Nat /\ Place(v) < InBlock(b) /\ InBlock(b) \in Nat
    BY ValueOf, InBlockBound, RangeAssumption DEF Places
  <2>2. k \in 0..InBlock(b) - 1 /\ InBlock(b) - 1 - k = Place(v)
    BY <2>1
  <2> QED
    BY <1>2, <2>1, <2>2
<1>6. Clock
  BY DEF GeneratorInit, Clock
<1>7. Counted
  <2>1. NonEmpty = Blocks
    BY <1>2, InBlockBound, RangeAssumption DEF NonEmpty
  <2> QED
    BY <2>1, FiniteBlocks DEF Counted, GeneratorInit
<1> QED
  BY <1>1, <1>3, <1>4, <1>5, <1>6, <1>7 DEF IInv

(* An id is taken out of its block: the last place of the array fills its  *)
(* place, which changes nothing when it is the last itself.                *)
LEMMA TakenInv ==
  ASSUME IInv, NEW b \in Blocks, NEW k \in 0..m_tCount[b] - 1, NEW v, v = Value(b, m_tpIDs[b][k]),
         m_tpIDs' = [m_tpIDs EXCEPT ![b][k] = m_tpIDs[b][m_tCount[b] - 1]], TakenFrom(b, v)
  PROVE IInv' /\ v \in Values \ held
<1> DEFINE n == m_tCount[b]
           old(j) == IF j = k THEN n - 1 ELSE j
<1>1. /\ n \in 0..tBlockSize /\ k \in 0..n - 1 /\ n - 1 \in Nat /\ tBlockSize \in Nat
      /\ 0..n - 1 \subseteq Places /\ v \in Values \ held
  <2>1. n \in 0..tBlockSize /\ tBlockSize \in Nat
    BY RangeAssumption DEF IInv, GeneratorTyped
  <2>2. v \in Values \ held
    BY DEF IInv, Sound
  <2>3. k \in 0..n - 1 /\ n - 1 \in Nat
    BY <2>1
  <2>4. 0..n - 1 \subseteq 0..tBlockSize - 1
    BY <2>1
  <2> QED
    BY <2>1, <2>2, <2>3, <2>4 DEF Places
<1>2. /\ m_tCount' = [m_tCount EXCEPT ![b] = n - 1] /\ m_tCount'[b] = n - 1
      /\ \A c \in Blocks \ {b} : m_tCount'[c] = m_tCount[c] /\ m_tpIDs'[c] = m_tpIDs[c]
      /\ \A j \in 0..n - 2 : old(j) \in 0..n - 1 /\ old(j) # k /\ m_tpIDs'[b][j] = m_tpIDs[b][old(j)]
  BY <1>1 DEF IInv, GeneratorTyped, TakenFrom
<1>3. GeneratorTyped'
  BY <1>1, <1>2 DEF IInv, GeneratorTyped, TakenFrom
<1>4. EachOnce'
  <2> SUFFICES ASSUME NEW c \in Blocks, NEW i \in 0..m_tCount'[c] - 1, NEW j \in 0..m_tCount'[c] - 1,
                      m_tpIDs'[c][i] = m_tpIDs'[c][j]
               PROVE i = j
    BY DEF EachOnce
  <2>1. CASE c # b
    BY <1>2, <2>1 DEF IInv, EachOnce
  <2>2. CASE c = b
    <3>1. i \in 0..n - 2 /\ j \in 0..n - 2
      BY <1>1, <1>2, <2>2
    <3>2. old(i) = old(j)
      BY <1>2, <2>2, <3>1 DEF IInv, EachOnce
    <3> QED
      BY <3>1, <3>2, <1>1
  <2> QED
    BY <2>1, <2>2
<1>5. Sound'
  <2> SUFFICES ASSUME NEW c \in Blocks, NEW j \in 0..m_tCount'[c] - 1
               PROVE Value(c, m_tpIDs'[c][j]) \in Values \ (held \cup {v})
    BY DEF Sound, TakenFrom
  <2>1. CASE c # b
    <3>1. m_tpIDs'[c][j] = m_tpIDs[c][j] /\ j \in 0..m_tCount[c] - 1 /\ j \in Places
      BY <1>2, <2>1, <1>1 DEF IInv, GeneratorTyped, Places
    <3>2. m_tpIDs[c][j] \in Places /\ m_tpIDs[b][k] \in Places
      BY <3>1, <1>1 DEF IInv, GeneratorTyped
    <3>3. Value(c, m_tpIDs[c][j]) # v
      BY <3>2, <2>1, OfValue
    <3> QED
      BY <3>1, <3>3 DEF IInv, Sound
  <2>2. CASE c = b
    <3>1. j \in 0..n - 2
      BY <1>1, <1>2, <2>2
    <3>2. m_tpIDs[b][old(j)] \in Places /\ m_tpIDs[b][k] \in Places /\ m_tpIDs[b][old(j)] # m_tpIDs[b][k]
      BY <3>1, <1>1, <1>2 DEF IInv, GeneratorTyped, EachOnce
    <3>3. Value(b, m_tpIDs[b][old(j)]) # v
      BY <3>2, OfValue
    <3> QED
      BY <3>1, <3>3, <1>2, <2>2 DEF IInv, Sound
  <2> QED
    BY <2>1, <2>2
<1>6. Complete'
  <2> SUFFICES ASSUME NEW u \in Values \ held, u # v
               PROVE \E j \in 0..m_tCount'[tfGetBlockByValue(u)] - 1 :
                       m_tpIDs'[tfGetBlockByValue(u)][j] = Place(u)
    BY DEF Complete, TakenFrom
  <2> DEFINE c == tfGetBlockByValue(u)
  <2>1. PICK j \in 0..m_tCount[c] - 1 : m_tpIDs[c][j] = Place(u)
    BY DEF IInv, Complete
  <2>2. c \in Blocks /\ Value(c, Place(u)) = u
    BY ValueOf
  <2>3. CASE c # b
    BY <1>2, <2>1, <2>2, <2>3
  <2>4. CASE c = b
    <3>1. j # k /\ j \in 0..n - 1
      BY <2>1, <2>2, <2>4
    <3>2. CASE j = n - 1
      <4>1. k \in 0..m_tCount'[b] - 1 /\ old(k) = j /\ k \in 0..n - 2
        BY <3>1, <3>2, <1>1, <1>2
      <4> QED
        BY <4>1, <1>2, <2>1, <2>4
    <3>3. CASE j # n - 1
      <4>1. j \in 0..m_tCount'[b] - 1 /\ old(j) = j /\ j \in 0..n - 2
        BY <3>1, <3>3, <1>1, <1>2
      <4> QED
        BY <4>1, <1>2, <2>1, <2>4
    <3> QED
      BY <3>2, <3>3
  <2> QED
    BY <2>3, <2>4
<1>7. Clock'
  BY DEF IInv, Clock, TakenFrom
<1>8. Counted'
  <2>1. CASE n = 1
    <3>1. NonEmpty' = NonEmpty \ {b} /\ b \in NonEmpty
      BY <1>1, <1>2, <2>1 DEF NonEmpty
    <3>2. Cardinality(NonEmpty') = Cardinality(NonEmpty) - 1
      BY <3>1, FiniteBlocks, FS_RemoveElement
    <3> QED
      BY <3>2, <2>1 DEF IInv, Counted, TakenFrom
  <2>2. CASE n # 1
    <3>1. NonEmpty' = NonEmpty
      BY <1>1, <1>2, <2>2 DEF NonEmpty
    <3> QED
      BY <3>1, <2>2 DEF IInv, Counted, TakenFrom
  <2> QED
    BY <2>1, <2>2
<1> QED
  BY <1>1, <1>3, <1>4, <1>5, <1>6, <1>7, <1>8 DEF IInv

LEMMA GetInv == ASSUME IInv, Get
  PROVE IInv' /\ \E v \in Values \ held : held' = held \cup {v} /\ result' = v
<1>1. PICK b \in Blocks : /\ m_tCount[b] # 0
                         /\ TakenFrom(b, Value(b, m_tpIDs[b][m_tCount[b] - 1]))
  BY DEF Get
<1> DEFINE k == m_tCount[b] - 1
<1>2. k \in 0..m_tCount[b] - 1
  BY <1>1, RangeAssumption DEF IInv, GeneratorTyped
<1>3. m_tpIDs' = [m_tpIDs EXCEPT ![b][k] = m_tpIDs[b][m_tCount[b] - 1]]
  BY <1>2 DEF Get, IInv, GeneratorTyped
<1>4. IInv' /\ Value(b, m_tpIDs[b][k]) \in Values \ held
  BY <1>1, <1>2, <1>3, TakenInv
<1> QED
  BY <1>1, <1>4 DEF TakenFrom

LEMMA GetThisInv == ASSUME IInv, NEW v \in Values, GetThis(v)
  PROVE IInv' /\ v \in Values \ held /\ held' = held \cup {v} /\ result' = v
<1> DEFINE b == tfGetBlockByValue(v)
<1>1. PICK k \in 0..m_tCount[b] - 1 :
        /\ m_tpIDs[b][k] = Place(v)
        /\ m_tpIDs' = [m_tpIDs EXCEPT ![b][k] = m_tpIDs[b][m_tCount[b] - 1]]
        /\ TakenFrom(b, v)
  BY DEF GetThis
<1>2. b \in Blocks /\ v = Value(b, m_tpIDs[b][k])
  BY <1>1, ValueOf
<1>3. IInv' /\ v \in Values \ held
  BY <1>1, <1>2, TakenInv
<1> QED
  BY <1>1, <1>3 DEF TakenFrom

(* A block with an id that is held has room: its array holds other places. *)
LEMMA Room == ASSUME IInv, NEW v \in held
  PROVE /\ v \in Values /\ m_tCount[tfGetBlockByValue(v)] \in 0..tBlockSize - 1
        /\ \A k \in 0..m_tCount[tfGetBlockByValue(v)] - 1 :
             m_tpIDs[tfGetBlockByValue(v)][k] # Place(v)
<1> DEFINE b == tfGetBlockByValue(v)
           p == Place(v)
           n == m_tCount[b]
<1>1. v \in Values /\ b \in Blocks /\ p \in Places /\ Value(b, p) = v /\ n \in 0..tBlockSize
  BY ValueOf DEF IInv, GeneratorTyped
<1>2. \A k \in 0..n - 1 : m_tpIDs[b][k] # p
  BY <1>1 DEF IInv, Sound
<1>3. n # tBlockSize
  <2>1. SUFFICES ASSUME n = tBlockSize PROVE FALSE
    OBVIOUS
  <2> DEFINE f == m_tpIDs[b]
  <2>2. f \in [Places -> Places \ {p}] /\ \A i, j \in Places : f[i] = f[j] => i = j
    BY <1>1, <1>2, <2>1 DEF IInv, GeneratorTyped, EachOnce, Places
  <2>3. f \in Injection(Places, Places \ {p})
    BY <2>2 DEF Injection, IsInjective
  <2>4. IsFiniteSet(Places) /\ Cardinality(Places) \in Nat
    BY RangeAssumption, FS_Interval, FS_CardinalityType DEF Places
  <2>5. IsFiniteSet(Places \ {p}) /\ Cardinality(Places \ {p}) = Cardinality(Places) - 1
    BY <2>4, <1>1, FS_RemoveElement
  <2>6. Cardinality(Places) <= Cardinality(Places \ {p})
    BY <2>3, <2>4, <2>5, FS_Injection
  <2> QED
    BY <2>4, <2>5, <2>6
<1> QED
  BY <1>1, <1>2, <1>3, RangeAssumption

LEMMA FreeInv == ASSUME IInv, NEW v \in Values, vfFreeID(v)
  PROVE IInv' /\ v \in held /\ held' = held \ {v} /\ result' = result
<1> DEFINE b == tfGetBlockByValue(v)
           n == m_tCount[b]
<1>1. v \in held /\ held' = held \ {v} /\ freed' = freed \cup {v} /\ UNCHANGED <<now, result>>
  BY DEF vfFreeID
<1>2. /\ b \in Blocks /\ Place(v) \in Places /\ Value(b, Place(v)) = v
      /\ n \in 0..tBlockSize - 1 /\ n \in Places /\ tBlockSize \in Nat
      /\ \A k \in 0..n - 1 : m_tpIDs[b][k] # Place(v)
  BY <1>1, Room, ValueOf, RangeAssumption DEF Places
<1>3. /\ m_tCount' = [m_tCount EXCEPT ![b] = n + 1] /\ m_tCount'[b] = n + 1
      /\ m_tpIDs' = [m_tpIDs EXCEPT ![b][n] = Place(v)] /\ m_tpIDs'[b][n] = Place(v)
      /\ \A j \in 0..n - 1 : m_tpIDs'[b][j] = m_tpIDs[b][j]
      /\ m_tTimeID' = [m_tTimeID EXCEPT ![b] = now] /\ m_tTimeID'[b] = now
      /\ \A c \in Blocks \ {b} : /\ m_tCount'[c] = m_tCount[c] /\ m_tpIDs'[c] = m_tpIDs[c]
                                /\ m_tTimeID'[c] = m_tTimeID[c]
  BY <1>2 DEF IInv, GeneratorTyped, vfFreeID
<1>4. GeneratorTyped'
  <2>1. m_available_count' \in Int
    BY DEF IInv, GeneratorTyped, vfFreeID
  <2> QED
    BY <1>1, <1>2, <1>3, <2>1 DEF IInv, GeneratorTyped
<1>5. EachOnce'
  <2> SUFFICES ASSUME NEW c \in Blocks, NEW i \in 0..m_tCount'[c] - 1, NEW j \in 0..m_tCount'[c] - 1,
                      m_tpIDs'[c][i] = m_tpIDs'[c][j]
               PROVE i = j
    BY DEF EachOnce
  <2>1. CASE c # b
    BY <1>3, <2>1 DEF IInv, EachOnce
  <2>2. CASE c = b
    <3>1. (i = n \/ i \in 0..n - 1) /\ (j = n \/ j \in 0..n - 1)
      BY <1>2, <1>3, <2>2
    <3>2. CASE i \in 0..n - 1 /\ j \in 0..n - 1
      BY <1>3, <2>2, <3>2 DEF IInv, EachOnce
    <3> QED
      BY <3>1, <3>2, <1>2, <1>3, <2>2
  <2> QED
    BY <2>1, <2>2
<1>6. Sound'
  <2> SUFFICES ASSUME NEW c \in Blocks, NEW j \in 0..m_tCount'[c] - 1
               PROVE Value(c, m_tpIDs'[c][j]) \in Values \ (held \ {v})
    BY <1>1 DEF Sound
  <2>1. CASE c # b
    BY <1>3, <2>1 DEF IInv, Sound
  <2>2. CASE c = b
    <3>1. j = n \/ j \in 0..n - 1
      BY <1>2, <1>3, <2>2
    <3> QED
      BY <3>1, <1>2, <1>3, <2>2 DEF IInv, Sound
  <2> QED
    BY <2>1, <2>2
<1>7. Complete'
  <2> SUFFICES ASSUME NEW u \in Values \ (held \ {v})
               PROVE \E j \in 0..m_tCount'[tfGetBlockByValue(u)] - 1 :
                       m_tpIDs'[tfGetBlockByValue(u)][j] = Place(u)
    BY <1>1 DEF Complete
  <2> DEFINE c == tfGetBlockByValue(u)
  <2>1. CASE u = v
    BY <1>2, <1>3, <2>1
  <2>2. CASE u # v
    <3>1. PICK j \in 0..m_tCount[c] - 1 : m_tpIDs[c][j] = Place(u)
      BY <2>2 DEF IInv, Complete
    <3>2. c \in Blocks
      BY ValueOf
    <3> QED
      BY <3>1, <3>2, <1>2, <1>3
  <2> QED
    BY <2>1, <2>2
<1>8. Clock'
  BY <1>1, <1>3 DEF IInv, Clock
<1>9. Counted'
  <2>1. CASE n = 0
    <3>1. NonEmpty' = NonEmpty \cup {b} /\ b \notin NonEmpty
      BY <1>2, <1>3, <2>1 DEF NonEmpty
    <3>2. Cardinality(NonEmpty') = Cardinality(NonEmpty) + 1
      BY <3>1, FiniteBlocks, FS_AddElement
    <3> QED
      BY <3>2, <2>1 DEF IInv, Counted, vfFreeID
  <2>2. CASE n # 0
    <3>1. NonEmpty' = NonEmpty
      BY <1>2, <1>3, <2>2 DEF NonEmpty
    <3> QED
      BY <3>1, <2>2 DEF IInv, Counted, vfFreeID
  <2> QED
    BY <2>1, <2>2
<1> QED
  BY <1>1, <1>4, <1>5, <1>6, <1>7, <1>8, <1>9 DEF IInv

LEMMA NextInv == ASSUME IInv, [GeneratorNext]_generator PROVE IInv'
<1>1. CASE Get
  BY <1>1, GetInv
<1>2. ASSUME NEW v \in Values, GetThis(v) PROVE IInv'
  BY <1>2, GetThisInv
<1>3. ASSUME NEW v \in Values, vfFreeID(v) PROVE IInv'
  BY <1>3, FreeInv
<1>4. CASE Tick
  <2>1. now' \in Nat \ {0} /\ UNCHANGED <<blocks, held, freed, result>>
    BY <1>4 DEF Tick, IInv, GeneratorTyped
  <2> QED
    BY <2>1 DEF IInv, GeneratorTyped, EachOnce, Sound, Complete, Clock, Counted, NonEmpty, blocks
<1>5. CASE UNCHANGED generator
  BY <1>5 DEF IInv, GeneratorTyped, EachOnce, Sound, Complete, Clock, Counted, NonEmpty, generator, blocks
<1> QED
  BY <1>1, <1>2, <1>3, <1>4, <1>5 DEF GeneratorNext

LEMMA Invariance == GeneratorSpec => []IInv
<1> QED
  BY InitInv, NextInv, PTL DEF GeneratorSpec

(* Every block keeps at most tBlockSize places, each of them one of its    *)
(* own, and what is given is an id of the range.                           *)
THEOREM GeneratorTypeCorrect == GeneratorSpec => []GeneratorTyped
<1>1. IInv => GeneratorTyped
  BY DEF IInv
<1> QED
  BY <1>1, Invariance, PTL

(* The arrays hold exactly the ids that are not held, each once.           *)
LEMMA FreeIdsAre == IInv => FreeIds = Values \ held /\ held \subseteq Values
<1> SUFFICES ASSUME IInv PROVE FreeIds = Values \ held /\ held \subseteq Values
  OBVIOUS
<1>1. FreeIds \subseteq Values \ held
  BY DEF IInv, Sound, FreeIds, FreeIn
<1>2. ASSUME NEW v \in Values \ held PROVE v \in FreeIds
  <2> DEFINE b == tfGetBlockByValue(v)
  <2>1. PICK k \in 0..m_tCount[b] - 1 : m_tpIDs[b][k] = Place(v)
    BY DEF IInv, Complete
  <2>2. b \in Blocks /\ v = Value(b, m_tpIDs[b][k])
    BY <2>1, ValueOf
  <2> QED
    BY <2>1, <2>2 DEF FreeIds, FreeIn
<1> QED
  BY <1>1, <1>2 DEF IInv, GeneratorTyped

(* Whatever is taken and given back, the ids in the pool are those that    *)
(* nobody holds, each once.                                                *)
THEOREM PoolIsExact == GeneratorSpec => []PoolExact
<1>1. IInv => PoolExact
  BY FreeIdsAre DEF IInv, PoolExact
<1> QED
  BY <1>1, Invariance, PTL

(* "Not enough IDs" means that every id is held; otherwise the block that  *)
(* is chosen has an id.                                                    *)
THEOREM AvailableWhenFree == GeneratorSpec => []AvailableIff
<1>1. ASSUME IInv PROVE AvailableIff
  <2>1. m_available_count = 0 <=> NonEmpty = {}
    BY <1>1, FiniteBlocks, FS_EmptySet DEF IInv, Counted
  <2>2. \A b \in Blocks : FreeIn(b) # {} <=> m_tCount[b] # 0
    <3>1. \A b \in Blocks : m_tCount[b] \in Nat
      BY <1>1, RangeAssumption DEF IInv, GeneratorTyped
    <3>2. ASSUME NEW b \in Blocks, m_tCount[b] # 0 PROVE Value(b, m_tpIDs[b][0]) \in FreeIn(b)
      BY <3>1, <3>2 DEF FreeIn
    <3> QED
      BY <3>1, <3>2 DEF FreeIn
  <2>3. FreeIds = {} <=> NonEmpty = {}
    BY <2>2 DEF FreeIds, NonEmpty
  <2>4. ASSUME FreeIds # {}, NEW b \in Blocks, MinElement(b) PROVE m_tCount[b] # 0
    BY <2>3, <2>4 DEF NonEmpty, MinElement, Before
  <2> QED
    BY <2>1, <2>3, <2>4 DEF AvailableIff
<1> QED
  BY <1>1, Invariance, PTL

(* The generator keeps its promise: the id it gives is not in use.         *)
THEOREM IdsAreUnused == GeneratorSpec => GivesUnusedIds
<1>1. GeneratorInit => G!Init
  <2>1. GeneratorInit => IInv /\ held = {} /\ result \notin Values
    BY InitInv, RangeAssumption DEF GeneratorInit, Values
  <2> QED
    BY <2>1, FreeIdsAre DEF G!Init
<1>0. (IInv => FreeIds = Values \ held /\ held \subseteq Values)'
  BY FreeIdsAre, PTL
<1>2. ASSUME IInv, [GeneratorNext]_generator PROVE [G!Next]_<<Values \ FreeIds, result>>
  <2>1. IInv' /\ Values \ FreeIds = held /\ (Values \ FreeIds)' = held' /\ held \subseteq Values
    <3>1. IInv'
      BY <1>2, NextInv
    <3>2. FreeIds' = Values \ held' /\ held' \subseteq Values
      BY <1>0, <3>1
    <3> QED
      BY <1>2, <3>1, <3>2, FreeIdsAre
  <2>2. CASE Get
    <3>1. \E v \in Values \ held : held' = held \cup {v} /\ result' = v
      BY <1>2, <2>2, GetInv
    <3> QED
      BY <2>1, <3>1 DEF G!Next, G!Get
  <2>3. ASSUME NEW v \in Values, GetThis(v) PROVE G!Get
    <3>1. v \in Values \ held /\ held' = held \cup {v} /\ result' = v
      BY <1>2, <2>3, GetThisInv
    <3> QED
      BY <2>1, <3>1 DEF G!Get
  <2>4. ASSUME NEW v \in Values, vfFreeID(v) PROVE G!Free
    <3>1. v \in held /\ held' = held \ {v} /\ result' = result
      BY <1>2, <2>4, FreeInv
    <3> QED
      BY <2>1, <3>1 DEF G!Free
  <2>5. CASE Tick \/ UNCHANGED generator
    BY <2>1, <2>5 DEF Tick, generator
  <2> QED
    BY <1>2, <2>2, <2>3, <2>4, <2>5 DEF GeneratorNext, G!Next
<1> QED
  BY <1>1, <1>2, Invariance, PTL DEF GeneratorSpec, GivesUnusedIds, G!Spec

(* Values that were freed before come after blocks whose ids never were.      *)
THEOREM FreshIdsFirst == GeneratorSpec => FreshFirst
<1>1. ASSUME IInv, NEW b \in Blocks, Untouched(b), Get PROVE result' \notin freed
  <2>1. PICK c \in Blocks :
          /\ MinElement(c) /\ m_tCount[c] # 0
          /\ TakenFrom(c, Value(c, m_tpIDs[c][m_tCount[c] - 1]))
    BY <1>1 DEF Get
  <2>2. m_tTimeID[b] = 0 /\ m_tCount[b] # 0
    BY <1>1 DEF Untouched, IInv, Clock
  <2>3. m_tTimeID[c] = 0
    BY <1>1, <2>1, <2>2 DEF MinElement, Before, IInv, GeneratorTyped
  <2>4. m_tpIDs[c][m_tCount[c] - 1] \in Places
    <3>1. m_tCount[c] \in 0..tBlockSize /\ tBlockSize \in Nat
      BY <1>1, RangeAssumption DEF IInv, GeneratorTyped
    <3>2. m_tCount[c] - 1 \in Places
      BY <3>1, <2>1 DEF Places
    <3> QED
      BY <1>1, <3>2 DEF IInv, GeneratorTyped
  <2>5. tfGetBlockByValue(result') = c
    BY <2>1, <2>4, OfValue DEF TakenFrom
  <2> QED
    BY <1>1, <2>3, <2>5 DEF IInv, Clock
<1>2. IInv /\ [GeneratorNext]_generator => [(\E b \in Blocks : Untouched(b)) /\ Get => result' \notin freed]_generator
  BY <1>1
<1> QED
  BY <1>2, Invariance, PTL DEF GeneratorSpec, FreshFirst
=============================================================================
