---------------------------- MODULE MC_VncServer ----------------------------
(* Small instances of VncServer for TLC. *)
EXTENDS VncServer, TLC

CONSTANTS c1, c2, c3, main, pipe, desk

Symmetry == Permutations(Clients) \union Permutations(Controllers)
=============================================================================
