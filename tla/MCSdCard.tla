------------------------------ MODULE MCSdCard ------------------------------
(* Instances of SdCard for TLC. *)
EXTENDS SdCard

\* One kind of content on the card to start with.
CONSTANT Blank
BlankInit == Init /\ media = [s \in Sector |-> Blank]
BlankSpec == BlankInit /\ [][Next]_vars
BlankLiveSpec == BlankSpec /\ WF_vars(Driver)
=============================================================================
