-------------------------------- MODULE Mpu6050 --------------------------------
(***************************************************************************)
(* Reading the temperature of an MPU6050: through driver A                 *)
(* (i2c/driver/slave_driver), driver B (i2c-mpu6050-driver), or from user  *)
(* space through /dev/i2c-5 (i2c/driver/app_driver, the program that wakes *)
(* the sensor and "my_" one, which does not), each with its program.       *)
(*                                                                         *)
(* The value is two registers, 0x42 and 0x41, each got by a transfer of    *)
(* its own. The adapter runs one transfer at a time; between two the       *)
(* sensor may update and other callers may transfer. A byte is named by    *)
(* the number of the measurement it belongs to; 0 is what the registers    *)
(* hold before the first.                                                  *)
(***************************************************************************)
EXTENDS Naturals

CONSTANTS
    Proc,       \* the programs
    Variants,   \* the kinds of program there may be
    LastMeasurement,    \* the sensor stops there (a bound of the runs)
    Garbage     \* a byte that was not read from the sensor

Kind == {"A", "B", "user", "my"}
None == "none"  \* a program that is not running

ASSUME VariantsAssumption == Variants \subseteq Kind
ASSUME MeasurementAssumption == LastMeasurement \in Nat
ASSUME GarbageAssumption == Garbage \notin Nat

VARIABLES
    variant,    \* each program's kind while it runs
    awake,      \* the sensor measures
    measured,   \* the number of the last measurement
    pc,         \* where each program is
    low, high,  \* the two bytes it has
    start,      \* the last measurement when it asked
    failed,     \* a transfer of this request has failed
    unwoken,    \* the transfer that was to wake the sensor has failed
    ret         \* what the last request returned: "ok", "error", "residue"

chip    == <<awake, measured>>
request == <<low, high, start, failed, ret>>
mpuVars == <<variant, chip, pc, request, unwoken>>

Step == {"closed", "wake", "idle", "low", "high", "done"}
Byte == Nat \cup {Garbage}

MpuTypeOK ==
    /\ variant \in [Proc -> Variants \cup {None}]
    /\ awake \in BOOLEAN
    /\ measured \in 0 .. LastMeasurement
    /\ pc \in [Proc -> Step]
    /\ low \in [Proc -> Byte]
    /\ high \in [Proc -> Byte]
    /\ start \in [Proc -> Nat]
    /\ failed \in [Proc -> BOOLEAN]
    /\ unwoken \in [Proc -> BOOLEAN]
    /\ ret \in [Proc -> {"ok", "error", "residue"}]

MpuInit ==
    /\ variant = [p \in Proc |-> None]
    /\ awake = FALSE /\ measured = 0
    /\ pc = [p \in Proc |-> "closed"]
    /\ low = [p \in Proc |-> Garbage]
    /\ high = [p \in Proc |-> Garbage]
    /\ start = [p \in Proc |-> 0]
    /\ failed = [p \in Proc |-> FALSE]
    /\ unwoken = [p \in Proc |-> FALSE]
    /\ ret = [p \in Proc |-> "ok"]

-----------------------------------------------------------------------------
Goto(p, step) == pc' = [pc EXCEPT ![p] = step]

(* A's open and the "user" program write 0 to register 0x6B; B's open and  *)
(* the "my" program do not.                                                *)
Wakers == {"A", "user"}

Open(p, kind) ==
    /\ pc[p] = "closed"
    /\ variant' = [variant EXCEPT ![p] = kind]
    /\ Goto(p, IF kind \in Wakers THEN "wake" ELSE "idle")
    /\ UNCHANGED <<chip, request, unwoken>>

(* mpu6050_write_register: nobody looks at its result. *)
Wake(p, ok) ==
    /\ pc[p] = "wake"
    /\ awake' = (awake \/ ok)
    /\ unwoken' = [unwoken EXCEPT ![p] = ~ok]
    /\ Goto(p, "idle")
    /\ UNCHANGED <<variant, measured, request>>

(* MPU6050_GET_TEMP, or the body of the user-space loop. *)
Ask(p) ==
    /\ pc[p] = "idle"
    /\ start' = [start EXCEPT ![p] = measured]
    /\ Goto(p, "low")
    /\ UNCHANGED <<variant, chip, low, high, failed, unwoken, ret>>

(* It reads through a driver. *)
Driven(p) == variant[p] \in {"A", "B"}

(* The end of a request: copy_to_user (the user programs have the bytes    *)
(* already). If it faults A returns -EFAULT, B the bytes it did not copy.  *)
Return(p, copied) ==
    /\ Goto(p, "done")
    /\ ret' = [ret EXCEPT ![p] = IF copied THEN "ok"
                                 ELSE IF variant[p] = "A" THEN "error"
                                 ELSE "residue"]

(* Mutant: B tests only the first of its two transfers. *)
ReadFailsOnce(p, copied) ==
    /\ pc[p] \in {"low", "high"} /\ (copied \/ Driven(p))
    /\ failed' = [failed EXCEPT ![p] = TRUE]
    /\ \/ variant[p] = "B" /\ pc[p] = "low" /\ Goto(p, "done")
          /\ ret' = [ret EXCEPT ![p] = "error"]
       \/ variant[p] # "B" /\ pc[p] = "low" /\ Goto(p, "high") /\ UNCHANGED ret
       \/ pc[p] = "high" /\ Return(p, copied)
    /\ UNCHANGED <<variant, chip, low, high, start, unwoken>>

(* A transfer fails, and only B gives up. A's errno becomes a byte, the    *)
(* user programs take whatever is in a register or in their buffer.        *)
ReadFails(p, copied) ==
    /\ pc[p] \in {"low", "high"} /\ (copied \/ Driven(p))
    /\ failed' = [failed EXCEPT ![p] = TRUE]
    /\ \/ variant[p] = "B" /\ Goto(p, "done")
          /\ ret' = [ret EXCEPT ![p] = "error"]
       \/ variant[p] # "B" /\ pc[p] = "low" /\ Goto(p, "high") /\ UNCHANGED ret
       \/ variant[p] # "B" /\ pc[p] = "high" /\ Return(p, copied)
    /\ UNCHANGED <<variant, chip, low, high, start, unwoken>>

(* Mutant: the low bytes of all callers are one static buffer. *)
ReadLowShared(p) ==
    /\ pc[p] = "low"
    /\ low' = [q \in Proc |-> measured]
    /\ Goto(p, "high")
    /\ UNCHANGED <<variant, chip, high, start, failed, unwoken, ret>>

(* Mutant: the byte is read into a signed char. *)
ReadLowSigned(p) ==
    /\ pc[p] = "low"
    /\ low' = [low EXCEPT ![p] = 0 - measured]
    /\ Goto(p, "high")
    /\ UNCHANGED <<variant, chip, high, start, failed, unwoken, ret>>

ReadLow(p) ==
    /\ pc[p] = "low"
    /\ low' = [low EXCEPT ![p] = measured]
    /\ Goto(p, "high")
    /\ UNCHANGED <<variant, chip, high, start, failed, unwoken, ret>>

ReadHigh(p, copied) ==
    /\ pc[p] = "high" /\ (copied \/ Driven(p))
    /\ high' = [high EXCEPT ![p] = measured]
    /\ Return(p, copied)
    /\ UNCHANGED <<variant, chip, low, start, failed, unwoken>>

(* The buffers are locals: between requests they hold garbage. *)
Forget(p) ==
    /\ low' = [low EXCEPT ![p] = Garbage]
    /\ high' = [high EXCEPT ![p] = Garbage]
    /\ start' = [start EXCEPT ![p] = 0]
    /\ failed' = [failed EXCEPT ![p] = FALSE]
    /\ ret' = [ret EXCEPT ![p] = "ok"]

(* The program prints what it got and asks again. *)
Show(p) ==
    /\ pc[p] = "done" /\ ret[p] # "error"
    /\ Forget(p)
    /\ Goto(p, "idle")
    /\ UNCHANGED <<variant, chip, unwoken>>

(* Transfers and calls of a driver are not interrupted. *)
Interruptible(p) == pc[p] \in {"idle", "done"} \/ variant[p] \in {"user", "my"}

(* Mutant: release puts the sensor back to sleep. *)
ExitSleeps(p) ==
    /\ Interruptible(p)
    /\ Forget(p)
    /\ variant' = [variant EXCEPT ![p] = None]
    /\ unwoken' = [unwoken EXCEPT ![p] = FALSE]
    /\ Goto(p, "closed")
    /\ awake' = FALSE /\ UNCHANGED measured

(* A negative result ends it, or it is killed. *)
Exit(p) ==
    /\ Interruptible(p)
    /\ Forget(p)
    /\ variant' = [variant EXCEPT ![p] = None]
    /\ unwoken' = [unwoken EXCEPT ![p] = FALSE]
    /\ Goto(p, "closed")
    /\ UNCHANGED chip

(* The sensor writes both registers at once. *)
Measure ==
    /\ awake /\ measured < LastMeasurement
    /\ measured' = measured + 1
    /\ UNCHANGED <<variant, awake, pc, request, unwoken>>

ProcStep(p) ==
    \/ Ask(p) \/ ReadLow(p) \/ Show(p) \/ Exit(p)
    \/ \E ok \in BOOLEAN : Wake(p, ok) \/ ReadFails(p, ok) \/ ReadHigh(p, ok)

ProcOpen(p) == \E kind \in Variants : Open(p, kind)

MpuNext == Measure \/ \E p \in Proc : ProcOpen(p) \/ ProcStep(p)

MpuSpec == MpuInit /\ [][MpuNext]_mpuVars

-----------------------------------------------------------------------------
(* Properties.                                                             *)

(* A temperature whose transfers all succeeded is made of measurements     *)
(* current while it was being asked for, the low byte's no later than the  *)
(* high byte's, whatever other callers transfer in between (the ioctl      *)
(* functions of both drivers, main of the user programs).                  *)
RegularReading ==
    \A p \in Proc : pc[p] = "done" /\ ~failed[p] =>
        /\ low[p] \in Nat /\ high[p] \in Nat
        /\ start[p] <= low[p] /\ low[p] <= high[p] /\ high[p] <= measured

(* Whoever is to wake the sensor before reading finds it awake, unless the *)
(* write failed: no other program's open, exit or failure puts it back     *)
(* (open of driver A, main of mpu6050_app.c).                              *)
AwakeWhenRead ==
    \A p \in Proc :
        variant[p] \in Wakers /\ pc[p] # "wake" /\ ~unwoken[p] => awake

(* A request that succeeds had no transfer fail (the tests after each      *)
(* read_register of driver B; those of driver A are never true).           *)
Answered(p) == pc[p] = "done" /\ ret[p] = "ok"
NoErrorLost == \A p \in Proc : variant[p] = "B" /\ Answered(p) => ~failed[p]
=============================================================================
