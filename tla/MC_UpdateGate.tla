---------------------------- MODULE MC_UpdateGate ----------------------------
(* Small instances of UpdateGate for TLC. *)
EXTENDS UpdateGate, TLC

CONSTANTS c1, c2, desktop

Symmetry == Permutations(Clients)
=============================================================================
