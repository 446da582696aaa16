------------------------------ MODULE MCI2cSystem ------------------------------
(* Values for the constants of I2cSystem. *)
EXTENDS I2cSystem, TLC

CONSTANTS p1, p2, mpu, other

TwoProcs == {p1, p2}
TwoNodes == {mpu, other}
AllKinds == Kind
Swap == Permutations(TwoProcs)

(* The sensor as the board names it, or by its id, beside a child without  *)
(* a usable address; and beside a second device that driver B takes.       *)
Child(reg, of) == [reg |-> reg, of |-> of]
OnBoard(m, o)  == [n \in TwoNodes |-> IF n = mpu THEN m ELSE o]

Board == OnBoard(Child("valid", "fs4412-mpu6050"), Child("invalid", "mpu6050"))
ById  == OnBoard(Child("valid", "mpu6050"), Child("too big", "mpu6050"))
Pair  == OnBoard(Child("valid", "inv,mpu6050"),
                 Child("valid", "fs4412-mpu6050"))

SomeTrees   == {Board, ById, Pair}
SomeModules ==
    [t \in SomeTrees |-> IF t = ById THEN {"A", "bare"} ELSE {"A", "B"}]
=============================================================================
