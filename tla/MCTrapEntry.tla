---------------------------- MODULE MCTrapEntry ----------------------------
(* Instances of TrapEntry for TLC. *)
EXTENDS TrapEntry
=============================================================================
