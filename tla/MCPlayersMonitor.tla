--------------------------- MODULE MCPlayersMonitor -------------------------
(* Small instances of PlayersMonitor.                                      *)
EXTENDS PlayersMonitor
=============================================================================
