----------------------------- MODULE MCCiRuntime ----------------------------
(* CiRuntime on small instances.                                            *)
EXTENDS CiRuntime, TLC

Symmetry == Permutations(Run) \cup Permutations(Key)
=============================================================================
