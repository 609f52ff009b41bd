------------------------- MODULE MCGameEventQueue ---------------------------
(* Small instances of GameEventQueue.                                      *)
EXTENDS GameEventQueue
=============================================================================
