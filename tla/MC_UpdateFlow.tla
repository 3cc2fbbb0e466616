---------------------------- MODULE MC_UpdateFlow ----------------------------
(* Small instances of UpdateFlow for TLC. *)
EXTENDS UpdateFlow

CONSTANTS a, b
=============================================================================
