---------------------------- MODULE MCShmGuard ----------------------------
(* ShmGuard on small regions.                                               *)
EXTENDS ShmGuard

(* -c takes whatever atoi() makes of its argument, so also what is no count.*)
MCCounts == {-1, 0, 1, 2, 3}
===========================================================================
