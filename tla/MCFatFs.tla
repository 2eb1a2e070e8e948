------------------------------ MODULE MCFatFs ------------------------------
(* Instances of FatFs for TLC: the names are alike, and so are the versions. *)
EXTENDS FatFs

CONSTANTS f, g, v1, v2
Alike == Permutations(Name) \cup Permutations(Versions)
=============================================================================
