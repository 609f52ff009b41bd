--------------------------- MODULE MCIdGenerator ----------------------------
(* Small instances of IdGenerator.                                         *)
EXTENDS IdGenerator
=============================================================================
