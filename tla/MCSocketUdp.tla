---------------------------- MODULE MCSocketUdp ---------------------------
(* SocketUdp on small blocks.                                               *)
EXTENDS SocketUdp
===========================================================================
