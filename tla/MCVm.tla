------------------------------- MODULE MCVm --------------------------------
(* Instances of Vm for TLC. *)
EXTENDS Vm, TLC

CONSTANTS h1, h2, f1, f2, v1, v2, v3

MCProts == {{}, {"R", "W"}}
MCSymmetry == Permutations(Harts) \cup Permutations(Regions)
=============================================================================
