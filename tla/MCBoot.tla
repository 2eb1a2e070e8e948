------------------------------- MODULE MCBoot -------------------------------
(* Instances of Boot for TLC: one hart more than the monitor serves. *)
EXTENDS Boot
=============================================================================
