------------------------- MODULE MCSocketNamespace -------------------------
(* Small instances of SocketNamespace for TLC.                              *)
EXTENDS SocketNamespace, TLC
=============================================================================
