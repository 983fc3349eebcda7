------------------------------- MODULE MCUio ------------------------------
(* Uio on a region of one cell: what is shown of larger ones for ShmGuard   *)
(* holds here by refinement.                                                *)
EXTENDS Uio
===========================================================================
