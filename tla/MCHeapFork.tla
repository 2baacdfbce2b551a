----------------------------- MODULE MCHeapFork -----------------------------
(***************************************************************************)
(* Instances of HeapFork for TLC.                                          *)
(***************************************************************************)
EXTENDS HeapFork, TLC

ForkSymmetry == Permutations(Forks)

=============================================================================
