---------------------------- MODULE MCUsernet ----------------------------
(* Usernet on small regions.                                                *)
EXTENDS Usernet
===========================================================================
