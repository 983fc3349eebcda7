--------------------------- MODULE MCBenchmarks ---------------------------
(* Benchmarks with a coarse clock and small words.                          *)
EXTENDS Benchmarks

MCCounts == {-1, 1, 3}
===========================================================================
