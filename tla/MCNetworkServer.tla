-------------------------- MODULE MCNetworkServer ---------------------------
(* Small instances of NetworkServer.                                       *)
EXTENDS NetworkServer
=============================================================================
