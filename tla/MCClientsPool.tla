---------------------------- MODULE MCClientsPool ---------------------------
(* Small instances of ClientsPool.  Players are interchangeable.           *)
EXTENDS ClientsPool, TLC

PlayerSymmetry == Permutations(Players)
=============================================================================
