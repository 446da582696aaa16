------------------------------ MODULE MCAdcDriver ------------------------------
(* Values for the constants of AdcDriver. *)
EXTENDS AdcDriver, TLC

CONSTANTS p1, p2, f1, f2

MCProc == {p1, p2}
MCFile == {f1, f2}
OneNonBlocking == {f2}
AllCommands == {"INIT", "START", "STOP", "OTHER"}
AppCommands == {"INIT", "START"}
=============================================================================
