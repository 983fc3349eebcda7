---------------------------- MODULE MCShmLayout ---------------------------
(* ShmLayout on a device of a few bytes, with an int that is too small for  *)
(* some of the products, as 32 bits are for some regions of a large device. *)
EXTENDS ShmLayout

MCIndices == {-2, -1, 0, 1, 2, 4}
===========================================================================
