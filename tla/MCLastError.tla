---------------------------- MODULE MCLastError -----------------------------
(* An instance of LastError for TLC. *)
EXTENDS LastError, TLC

Symmetry == Permutations(Threads) \cup Permutations(Bufs)
=============================================================================
