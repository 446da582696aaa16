------------------------------ MODULE MCDriverUse ------------------------------
(* Values for the constants of DriverUse. *)
EXTENDS DriverUse, TLC

CONSTANTS i1, i2, u1, u2

TwoInst == {i1, i2}
TwoUsers == {u1, u2}
AllKinds == Driver
SwapUsers == Permutations(TwoUsers)
=============================================================================
