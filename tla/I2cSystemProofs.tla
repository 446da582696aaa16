--------------------------- MODULE I2cSystemProofs ---------------------------
(***************************************************************************)
(* The composition of bus and programs implements both, so that what is    *)
(* proved of each holds of it, and the client that driver B keeps in a     *)
(* static pointer is the sensor for whoever has its file open, for any     *)
(* device trees, drivers and programs.                                     *)
(***************************************************************************)
EXTENDS I2cSystem, I2cBusProofs, Mpu6050Proofs

LEMMA SysStep == [SysNext]_sysVars => [BusNext]_busVars /\ [MpuNext]_mpuVars
<1> SUFFICES ASSUME [SysNext]_sysVars
             PROVE  [BusNext]_busVars /\ [MpuNext]_mpuVars
  OBVIOUS
<1>1. CASE SysBusStep
  BY <1>1 DEF SysBusStep, PinnedUnload, BusNext
<1>2. CASE SysMeasure
  BY <1>2 DEF SysMeasure, MpuNext
<1>3. ASSUME NEW p \in Proc, SysOpen(p) \/ SysProcStep(p)
      PROVE  [BusNext]_busVars /\ [MpuNext]_mpuVars
  BY <1>3 DEF SysOpen, SysProcStep, MpuNext, ProcOpen
<1>4. CASE UNCHANGED sysVars
  BY <1>4 DEF sysVars
<1> QED
  BY <1>1, <1>2, <1>3, <1>4 DEF SysNext

(* Every behaviour of the composition is one of the programs ...           *)
THEOREM ImplementsMpu == SysSpec => MpuSpec
  BY SysStep, PTL DEF SysSpec, SysInit, MpuSpec

(* ... and one of the bus: neither can do in the other's company what it   *)
(* could not do alone (unload of a pinned module only waits).              *)
THEOREM ImplementsBus == SysSpec => BusSpec
  BY SysStep, PTL DEF SysSpec, SysInit, BusSpec

-----------------------------------------------------------------------------
(* No step of the bus takes a device file away that a program has open.    *)
LEMMA TryKeepsFile ==
    ASSUME BusTypeOK, NEW d \in DriverId, NEW n \in Node, NEW v \in Verdict,
           Try(d, n, v), HasFile("B", Sensor)
    PROVE  HasFile("B", Sensor)'
<1>1. /\ \A m \in Node : m # n \/ bound[n] # Nobody => bound'[m] = bound[m]
      /\ bound'[n] # bound[n] => hollow' \in {hollow, hollow \cup {n}}
      /\ bound'[n] = bound[n] => hollow' = hollow
  BY TryChanges
<1> QED
  BY <1>1, SensorAssumption, NobodyAssumption DEF HasFile, DriverId

LEMMA BusKeepsFile ==
    ASSUME BusTypeOK, SysBusStep, NEW p \in Proc, variant[p] = "B",
           HasFile("B", Sensor)
    PROVE  HasFile("B", Sensor)'
<1>1. ASSUME UNCHANGED bindVars PROVE HasFile("B", Sensor)'
  BY <1>1 DEF HasFile, bindVars
<1>3. ASSUME NEW d \in DriverId, PinnedUnload(d) PROVE HasFile("B", Sensor)'
  BY <1>3, SensorAssumption DEF PinnedUnload, UnloadDriver, Unregister, HasFile
<1>4. ASSUME AdapterStep PROVE HasFile("B", Sensor)'
  <2>1. ASSUME NEW d \in DriverId, NEW v \in Verdict, AttachDriver(d, v)
        PROVE  HasFile("B", Sensor)'
    BY <2>1, TryKeepsFile DEF AttachDriver, BusTypeOK
  <2> QED
    BY <1>1, <1>4, <2>1
       DEF AdapterStep, AddAdapter, AttachEnd, ScanEnd, SkipNode, NewDevice,
           NewDeviceFails
<1>5. ASSUME NEW d \in DriverId, LoadStep(d) PROVE HasFile("B", Sensor)'
  <2>1. ASSUME NEW n \in Node, NEW v \in Verdict, AttachDevice(d, n, v)
        PROVE  HasFile("B", Sensor)'
    BY <2>1, TryKeepsFile DEF AttachDevice
  <2> QED
    BY <1>1, <1>5, <2>1 DEF LoadStep, LoadDriver, LoadEnd
<1> QED
  BY <1>3, <1>4, <1>5 DEF SysBusStep

(* As long as a program has driver B's file open, the static client is the *)
(* sensor the file was made for: no probe of another device overwrites it  *)
(* (mpu6050_probe stores it last) and no unload resets it (the owner of    *)
(* the file operations).                                                   *)
THEOREM FileSafe == SysSpec => []FileHasClient
<1> DEFINE SensorHasFile ==
        \A p \in Proc : variant[p] = "B" => HasFile("B", Sensor)
<1>1. SysInit => SensorHasFile
  BY DEF SysInit, MpuInit, None
<1>2. ASSUME SensorHasFile, BusIInv, MpuTypeOK, [SysNext]_sysVars
      PROVE  SensorHasFile'
  <2>1. CASE SysBusStep
    <3>1. variant' = variant /\ BusTypeOK
      BY <1>2, <2>1 DEF SysBusStep, mpuVars, BusIInv
    <3> QED
      BY <1>2, <2>1, <3>1, BusKeepsFile
  <2>2. ASSUME NEW p \in Proc, SysOpen(p) PROVE SensorHasFile'
    <3>1. PICK k \in Variants : FileLeads(k) /\ Open(p, k)
      BY <2>2 DEF SysOpen
    <3>2. variant' = [variant EXCEPT ![p] = k] /\ UNCHANGED <<bound, hollow>>
      BY <2>2, <3>1 DEF SysOpen, Open, busVars, bindVars
    <3>3. k = "B" => HasFile("B", Sensor)
      BY <1>2, <3>1 DEF FileLeads, Reaches, BusIInv, ClientStored
    <3> QED
      BY <1>2, <3>2, <3>3 DEF HasFile, MpuTypeOK
  <2>3. ASSUME UNCHANGED busVars, \A q \in Proc : variant'[q] \in {variant[q], None}
        PROVE  SensorHasFile'
    BY <1>2, <2>3 DEF HasFile, busVars, bindVars, None
  <2>4. ASSUME NEW p \in Proc, SysProcStep(p) PROVE SensorHasFile'
    <3>1. \A q \in Proc : variant'[q] \in {variant[q], None}
      BY <1>2, <2>4
         DEF SysProcStep, ProcStep, Ask, ReadLow, Show, Exit, Wake, ReadFails,
             ReadHigh, MpuTypeOK
    <3> QED
      BY <2>3, <2>4, <3>1 DEF SysProcStep
  <2>5. CASE SysMeasure \/ UNCHANGED sysVars
    BY <2>3, <2>5 DEF SysMeasure, Measure, sysVars, mpuVars
  <2> QED
    BY <1>2, <2>1, <2>2, <2>4, <2>5 DEF SysNext
<1>3. SensorHasFile /\ BusIInv => FileHasClient
  BY SensorAssumption DEF FileHasClient, BusIInv, ClientStored
<1>4. SysSpec => []BusIInv
  BY ImplementsBus, BusInvariantHolds, PTL
<1>5. SysSpec => []MpuTypeOK
  BY ImplementsMpu, MpuTypeCorrect, PTL
<1> QED
  BY <1>1, <1>2, <1>3, <1>4, <1>5, PTL DEF SysSpec

(* What is proved of the bus alone and of the programs alone holds of the  *)
(* whole: on a bus whose drivers come and go (of_i2c_register_devices,     *)
(* i2c_device_match, i2c_device_probe) every usable child is served, nobody*)
(* waits for a driver that is there and every binding is right, and a      *)
(* temperature asked of either driver is regular if its transfers          *)
(* succeeded, from an awake sensor, and driver B hides no failed transfer. *)
THEOREM SystemKeepsPromises ==
    SysSpec => /\ []ChildrenServed
               /\ []NobodyMissed
               /\ []BoundRightly
               /\ []RegularReading
               /\ []AwakeWhenRead
               /\ []NoErrorLost
  BY ImplementsMpu, ImplementsBus, ChildrenSafe, MatchSafe, BindingSafe,
     ReadingSafe, AwakeSafe, ErrorSafe

=============================================================================
