---------------------------- MODULE MCLedRegisters ----------------------------
(* Values for the constants of LedRegisters. *)
EXTENDS LedRegisters, TLC

CONSTANTS p1, p2

TwoProcs    == {p1, p2}
OneBankEach == (p1 :> {1, 3, 4}) @@ (p2 :> {2})
=============================================================================
