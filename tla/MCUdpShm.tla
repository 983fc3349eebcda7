------------------------------ MODULE MCUdpShm -----------------------------
(* UdpShm on small regions.                                                 *)
EXTENDS UdpShm
===========================================================================
