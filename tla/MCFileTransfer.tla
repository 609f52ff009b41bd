--------------------------- MODULE MCFileTransfer ---------------------------
(* A small instance of FileTransfer.                                       *)
EXTENDS FileTransfer
=============================================================================
