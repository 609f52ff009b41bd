------------------------- MODULE MCWorldReplication -------------------------
(* Instances of WorldReplication for TLC.  The ids are model values; no    *)
(* symmetry is used, because the order in which the things of one pack or  *)
(* snapshot follow one another is a fixed one (SetToSeq).                  *)
EXTENDS WorldReplication
=============================================================================
