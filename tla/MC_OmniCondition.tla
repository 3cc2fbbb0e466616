-------------------------- MODULE MC_OmniCondition --------------------------
(* Small instances of OmniCondition for TLC. *)
EXTENDS OmniCondition, TLC

CONSTANTS t1, t2, t3

Symmetry == Permutations(Threads)
=============================================================================
