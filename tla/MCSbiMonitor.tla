---------------------------- MODULE MCSbiMonitor ----------------------------
(* Instances of SbiMonitor for TLC.  No action tells two messages apart, and *)
(* the safety properties do not either, so the messages are symmetric.       *)
EXTENDS SbiMonitor, TLC

MsgSymmetry == Permutations(Msg)
FirstHart == {0}
AllRequests == Dev \X Cmd
ConsoleRequests == {<<"bcd", "READ">>, <<"bcd", "WRITE">>}
=============================================================================
