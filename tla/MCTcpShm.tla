------------------------------ MODULE MCTcpShm -----------------------------
(* TcpShm on small regions.                                                 *)
EXTENDS TcpShm
===========================================================================
