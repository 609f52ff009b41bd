-------------------------- MODULE MCServerEntities --------------------------
(* Small instances of ServerEntities.                                      *)
EXTENDS ServerEntitiesInv, TLC

(* The generator may return any id that is free.                           *)
AnyFree(S) == S

OneItem == <<"item">>
ItemAndTool == <<"item", "tool">>

(* Ids and players are interchangeable.                                    *)
IdSymmetry == Permutations(Ids) \cup Permutations(Clients)
=============================================================================
