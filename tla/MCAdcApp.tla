-------------------------------- MODULE MCAdcApp --------------------------------
(* Values for the constants of AdcApp. *)
EXTENDS AdcApp, TLC

CONSTANTS p1, p2, f1, f2

OneProc == {p1}
TwoProcs == {p1, p2}
OneFile == {f1}
TwoFiles == {f1, f2}
AppCommands == {"INIT", "START"}
=============================================================================
