---------------------------- MODULE MCSocketTcp ---------------------------
(* SocketTcp on small blocks.                                               *)
EXTENDS SocketTcp
===========================================================================
