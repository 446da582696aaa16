---------------------------- MODULE Mpu6050Proofs ----------------------------
(***************************************************************************)
(* The properties of Mpu6050, for any set of programs of any kinds, and    *)
(* however often the sensor measures.                                      *)
(***************************************************************************)
EXTENDS Mpu6050, TLAPS

(* Where a program is says whether it runs, and whether it has woken the   *)
(* sensor.                                                                 *)
Running(p) ==
    /\ (variant[p] = None) <=> (pc[p] = "closed")
    /\ pc[p] = "wake" => variant[p] \in Wakers
    /\ variant[p] \in Wakers /\ pc[p] # "wake" /\ ~unwoken[p] => awake

(* What is known of a request at each step of it.                          *)
Requesting(p) ==
    /\ pc[p] \in {"low", "high", "done"} => start[p] <= measured
    /\ pc[p] \notin {"high", "done"} => ~failed[p]
    /\ pc[p] \in {"high", "done"} /\ ~failed[p] =>
          low[p] \in Nat /\ start[p] <= low[p] /\ low[p] <= measured
    /\ pc[p] = "done" /\ ~failed[p] =>
          high[p] \in Nat /\ low[p] <= high[p] /\ high[p] <= measured
    /\ variant[p] = "B" /\ pc[p] = "high" => ~failed[p]
    /\ variant[p] = "B" /\ pc[p] = "done" /\ ret[p] = "ok" => ~failed[p]

MpuIInv ==
    /\ MpuTypeOK
    /\ \A p \in Proc : Running(p)
    /\ \A p \in Proc : Requesting(p)

-----------------------------------------------------------------------------
LEMMA MpuInitHolds == MpuInit => MpuIInv
<1> SUFFICES ASSUME MpuInit PROVE MpuIInv
  OBVIOUS
<1> USE DEF MpuInit
<1>1. MpuTypeOK
  <2>0. awake \in BOOLEAN
    OBVIOUS
  <2>1. measured \in 0 .. LastMeasurement
    BY MeasurementAssumption
  <2>2. variant \in [Proc -> Variants \cup {None}] /\ pc \in [Proc -> Step]
    BY DEF Step
  <2>3. low \in [Proc -> Byte] /\ high \in [Proc -> Byte]
    BY DEF Byte
  <2>4. start \in [Proc -> Nat] /\ ret \in [Proc -> {"ok", "error", "residue"}]
    OBVIOUS
  <2>5. failed \in [Proc -> BOOLEAN] /\ unwoken \in [Proc -> BOOLEAN]
    OBVIOUS
  <2> QED
    BY <2>0, <2>1, <2>2, <2>3, <2>4, <2>5 DEF MpuTypeOK
<1>2. ASSUME NEW p \in Proc PROVE Running(p)
  BY DEF Running, None, Wakers
<1>3. ASSUME NEW p \in Proc PROVE Requesting(p)
  BY DEF Requesting
<1> QED
  BY <1>1, <1>2, <1>3 DEF MpuIInv

(* The types are kept by every step. *)
LEMMA MpuTypeKept == MpuTypeOK /\ [MpuNext]_mpuVars => MpuTypeOK'
<1> USE VariantsAssumption, MeasurementAssumption, GarbageAssumption
    DEF MpuTypeOK, Step, Byte, chip, request, Goto
<1> SUFFICES ASSUME MpuTypeOK, [MpuNext]_mpuVars PROVE MpuTypeOK'
  OBVIOUS
<1>1. CASE Measure
  BY <1>1 DEF Measure
<1>2. ASSUME NEW p \in Proc, NEW kind \in Variants, Open(p, kind)
      PROVE MpuTypeOK'
  BY <1>2 DEF Open
<1>3. ASSUME NEW p \in Proc, NEW ok \in BOOLEAN, Wake(p, ok)
      PROVE MpuTypeOK'
  BY <1>3 DEF Wake
<1>4. ASSUME NEW p \in Proc, Ask(p) PROVE MpuTypeOK'
  BY <1>4 DEF Ask
<1>5. ASSUME NEW p \in Proc, NEW ok \in BOOLEAN, ReadFails(p, ok)
      PROVE MpuTypeOK'
  BY <1>5 DEF ReadFails, Return
<1>6. ASSUME NEW p \in Proc, ReadLow(p) PROVE MpuTypeOK'
  BY <1>6 DEF ReadLow
<1>7. ASSUME NEW p \in Proc, NEW ok \in BOOLEAN, ReadHigh(p, ok)
      PROVE MpuTypeOK'
  BY <1>7 DEF ReadHigh, Return
<1>8. ASSUME NEW p \in Proc, Show(p) PROVE MpuTypeOK'
  BY <1>8 DEF Show, Forget
<1>9. ASSUME NEW p \in Proc, Exit(p) PROVE MpuTypeOK'
  BY <1>9 DEF Exit, Forget
<1>10. CASE UNCHANGED mpuVars
  BY <1>10 DEF mpuVars
<1> QED
  BY <1>1, <1>2, <1>3, <1>4, <1>5, <1>6, <1>7, <1>8, <1>9, <1>10
     DEF MpuNext, ProcOpen, ProcStep

(* No step of another program disturbs what is known of a program: its own *)
(* variables stay, the sensor stays awake and only measures on.            *)
LEMMA OthersKeep ==
    ASSUME MpuTypeOK, MpuTypeOK', NEW q \in Proc, Running(q), Requesting(q),
           UNCHANGED <<variant[q], pc[q], low[q], high[q], start[q],
                       failed[q], unwoken[q], ret[q]>>,
           awake => awake', measured <= measured'
    PROVE  Running(q)' /\ Requesting(q)'
<1>1. measured \in Nat /\ measured' \in Nat /\ start[q] \in Nat
  BY MeasurementAssumption DEF MpuTypeOK
<1> QED
  BY <1>1 DEF Running, Requesting, Wakers

LEMMA MpuStepKept == MpuIInv /\ [MpuNext]_mpuVars => MpuIInv'
<1> SUFFICES ASSUME MpuIInv, [MpuNext]_mpuVars PROVE MpuIInv'
  OBVIOUS
<1>0. MpuTypeOK /\ MpuTypeOK'
  BY MpuTypeKept DEF MpuIInv
<1> USE <1>0
<1>r. \A q \in Proc : Running(q) /\ Requesting(q)
  BY DEF MpuIInv
<1>q. SUFFICES ASSUME NEW q \in Proc PROVE Running(q)' /\ Requesting(q)'
  BY DEF MpuIInv
<1>t. /\ measured \in Nat /\ awake \in BOOLEAN
      /\ start[q] \in Nat /\ Garbage \notin Nat
      /\ failed[q] \in BOOLEAN /\ unwoken[q] \in BOOLEAN
      /\ variant[q] \in Kind \cup {None}
  BY VariantsAssumption, MeasurementAssumption, GarbageAssumption
     DEF MpuTypeOK
<1>1. CASE Measure
  BY <1>1, <1>r, <1>t, OthersKeep DEF Measure, request
<1>2. ASSUME NEW p \in Proc, NEW kind \in Variants, Open(p, kind)
      PROVE Running(q)' /\ Requesting(q)'
  <2>1. CASE q # p
    BY <1>2, <1>r, <1>t, <2>1, OthersKeep
       DEF Open, Goto, chip, request, MpuTypeOK
  <2>2. CASE q = p
    BY <1>2, <1>r, <1>t, <2>2, VariantsAssumption
       DEF Open, Goto, chip, request, MpuTypeOK, Running, Requesting, Kind,
           None, Wakers
  <2> QED BY <2>1, <2>2
<1>3. ASSUME NEW p \in Proc, NEW ok \in BOOLEAN, Wake(p, ok)
      PROVE Running(q)' /\ Requesting(q)'
  <2>1. CASE q # p
    BY <1>3, <1>r, <1>t, <2>1, OthersKeep
       DEF Wake, Goto, request, MpuTypeOK
  <2>2. CASE q = p
    BY <1>3, <1>r, <1>t, <2>2
       DEF Wake, Goto, request, MpuTypeOK, Running, Requesting
  <2> QED BY <2>1, <2>2
<1>4. ASSUME NEW p \in Proc, Ask(p) PROVE Running(q)' /\ Requesting(q)'
  <2>1. CASE q # p
    BY <1>4, <1>r, <1>t, <2>1, OthersKeep DEF Ask, Goto, chip, MpuTypeOK
  <2>2. CASE q = p
    BY <1>4, <1>r, <1>t, <2>2
       DEF Ask, Goto, chip, MpuTypeOK, Running, Requesting
  <2> QED BY <2>1, <2>2
<1>5. ASSUME NEW p \in Proc, NEW ok \in BOOLEAN, ReadFails(p, ok)
      PROVE Running(q)' /\ Requesting(q)'
  <2>1. CASE q # p
    <3>1. UNCHANGED <<variant[q], pc[q], low[q], high[q], start[q],
                      failed[q], unwoken[q], ret[q]>>
      BY <1>5, <2>1 DEF ReadFails, Return, Goto, MpuTypeOK
    <3>2. UNCHANGED <<awake, measured>>
      BY <1>5 DEF ReadFails, chip
    <3> QED
      BY <3>1, <3>2, <1>r, <1>t, OthersKeep
  <2>2. CASE q = p
    BY <1>5, <1>r, <1>t, <2>2
       DEF ReadFails, Return, Goto, chip, MpuTypeOK, Running, Requesting
  <2> QED BY <2>1, <2>2
<1>6. ASSUME NEW p \in Proc, ReadLow(p)
      PROVE Running(q)' /\ Requesting(q)'
  <2>1. CASE q # p
    BY <1>6, <1>r, <1>t, <2>1, OthersKeep DEF ReadLow, Goto, chip, MpuTypeOK
  <2>2. CASE q = p
    BY <1>6, <1>r, <1>t, <2>2
       DEF ReadLow, Goto, chip, MpuTypeOK, Running, Requesting
  <2> QED BY <2>1, <2>2
<1>7. ASSUME NEW p \in Proc, NEW ok \in BOOLEAN, ReadHigh(p, ok)
      PROVE Running(q)' /\ Requesting(q)'
  <2>1. CASE q # p
    BY <1>7, <1>r, <1>t, <2>1, OthersKeep
       DEF ReadHigh, Return, Goto, chip, MpuTypeOK
  <2>2. CASE q = p
    BY <1>7, <1>r, <1>t, <2>2
       DEF ReadHigh, Return, Goto, chip, MpuTypeOK, Running, Requesting
  <2> QED BY <2>1, <2>2
<1>8. ASSUME NEW p \in Proc, Show(p) PROVE Running(q)' /\ Requesting(q)'
  <2>1. CASE q # p
    <3>1. UNCHANGED <<variant[q], pc[q], low[q], high[q], start[q],
                      failed[q], unwoken[q], ret[q]>>
      BY <1>8, <2>1 DEF Show, Forget, Goto, MpuTypeOK
    <3>2. UNCHANGED <<awake, measured>>
      BY <1>8 DEF Show, chip
    <3> QED
      BY <3>1, <3>2, <1>r, <1>t, OthersKeep
  <2>2. CASE q = p
    BY <1>8, <1>r, <1>t, <2>2
       DEF Show, Forget, Goto, chip, MpuTypeOK, Running, Requesting
  <2> QED BY <2>1, <2>2
<1>9. ASSUME NEW p \in Proc, Exit(p) PROVE Running(q)' /\ Requesting(q)'
  <2>1. CASE q # p
    <3>1. UNCHANGED <<variant[q], pc[q], low[q], high[q], start[q],
                      failed[q], unwoken[q], ret[q]>>
      BY <1>9, <2>1 DEF Exit, Forget, Goto, MpuTypeOK
    <3>2. UNCHANGED <<awake, measured>>
      BY <1>9 DEF Exit, chip
    <3> QED
      BY <3>1, <3>2, <1>r, <1>t, OthersKeep
  <2>2. CASE q = p
    BY <1>9, <1>r, <1>t, <2>2
       DEF Exit, Forget, Goto, chip, MpuTypeOK, Running, Requesting, None,
           Wakers
  <2> QED BY <2>1, <2>2
<1>10. CASE UNCHANGED mpuVars
  BY <1>10, <1>r, <1>t, OthersKeep DEF mpuVars, chip, request
<1> QED
  BY <1>1, <1>2, <1>3, <1>4, <1>5, <1>6, <1>7, <1>8, <1>9, <1>10
     DEF MpuNext, ProcOpen, ProcStep

LEMMA MpuInvariantHolds == MpuSpec => []MpuIInv
  BY MpuInitHolds, MpuStepKept, PTL DEF MpuSpec

-----------------------------------------------------------------------------
(* Theorems.                                                               *)

(* The types of the sensor's and the programs' state. *)
THEOREM MpuTypeCorrect == MpuSpec => []MpuTypeOK
<1>1. MpuIInv => MpuTypeOK
  BY DEF MpuIInv
<1> QED
  BY <1>1, MpuInvariantHolds, PTL

(* A temperature whose transfers succeeded is made of measurements current *)
(* while it was asked for, in order, whatever the other programs transfer  *)
(* (the ioctl functions of both drivers, main of the user programs).       *)
THEOREM ReadingSafe == MpuSpec => []RegularReading
<1>1. MpuIInv => RegularReading
  BY DEF MpuIInv, Requesting, RegularReading
<1> QED
  BY <1>1, MpuInvariantHolds, PTL

(* No program puts the sensor back to sleep under one that has woken it    *)
(* (open of driver A, main of mpu6050_app.c).                              *)
THEOREM AwakeSafe == MpuSpec => []AwakeWhenRead
<1>1. MpuIInv => AwakeWhenRead
  BY DEF MpuIInv, Running, AwakeWhenRead
<1> QED
  BY <1>1, MpuInvariantHolds, PTL

(* Driver B answers no request one of whose transfers failed (the tests    *)
(* after each read_register).                                              *)
THEOREM ErrorSafe == MpuSpec => []NoErrorLost
<1>1. MpuIInv => NoErrorLost
  BY DEF MpuIInv, Requesting, NoErrorLost, Answered
<1> QED
  BY <1>1, MpuInvariantHolds, PTL
=============================================================================
