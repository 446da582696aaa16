------------------------------- MODULE I2cSystem -------------------------------
(***************************************************************************)
(* The MPU6050 programs on the I2C bus: they open /dev/i2c-5 once the      *)
(* adapter has been added, or the device file of a driver that is bound.   *)
(* Each step is a step of I2cBus or one of Mpu6050.                        *)
(*                                                                         *)
(* Not followed: programs whose transfers do not go to the sensor. Those   *)
(* that open the node driver A leaves behind when it is unloaded use freed *)
(* memory (DriverUse has them, TooLate), those that open driver B's file   *)
(* in the middle of its probe a client not yet stored (TooEarly there),    *)
(* and those that open it when another device has it address that one.     *)
(***************************************************************************)
EXTENDS I2cBus, Mpu6050

CONSTANT Sensor     \* the sensor's node

ASSUME SensorAssumption == Sensor \in Node

sysVars == <<busVars, mpuVars>>

SysInit == BusInit /\ MpuInit

(* A's ioctl sends to the sensor's address whichever its device is, B's to *)
(* that of the client.                                                     *)
Reaches(d) ==
    /\ \E n \in Node : HasFile(d, n)
    /\ d = "B" => client = Sensor

(* The device file each kind of program opens, if it leads to the sensor.  *)
FileLeads(kind) ==
    IF kind \in {"A", "B"} THEN Reaches(kind) ELSE adapter = "done"

SysOpen(p) ==
    /\ \E kind \in Variants : FileLeads(kind) /\ Open(p, kind)
    /\ UNCHANGED busVars

SysProcStep(p) == ProcStep(p) /\ UNCHANGED busVars

(* The file operations' owner: a module with an open file is not unloaded. *)
PinnedUnload(d) ==
    /\ \A p \in Proc : variant[p] # d
    /\ UnloadDriver(d)

SysBusStep ==
    /\ \/ AdapterStep
       \/ \E d \in DriverId : LoadStep(d) \/ PinnedUnload(d)
    /\ UNCHANGED mpuVars

SysMeasure == Measure /\ UNCHANGED busVars

SysNext == SysBusStep \/ SysMeasure \/ \E p \in Proc : SysOpen(p) \/ SysProcStep(p)

SysSpec == SysInit /\ [][SysNext]_sysVars

-----------------------------------------------------------------------------
(* Properties.                                                             *)

(* The static mpu6050_client of driver B serves whichever program has the  *)
(* file open: until the last close it is the device whose probe made the   *)
(* file, though the driver is tried with other devices meanwhile and may   *)
(* be asked to go (mpu6050_probe, the owner of the file operations).       *)
FileHasClient ==
    \A p \in Proc : variant[p] = "B" => client = Sensor /\ HasFile("B", client)
=============================================================================
