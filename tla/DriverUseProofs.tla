---------------------------- MODULE DriverUseProofs ----------------------------
(***************************************************************************)
(* The drivers in use, for any number of programs and of instances of any  *)
(* of the drivers.                                                         *)
(***************************************************************************)
EXTENDS DriverUse, DriverLifecycleProofs

(* The steps of DriverUse that probe or remove are those of DriverLifecycle,*)
(* its other steps leave the lifecycle alone.                              *)
LEMMA LifecycleStep ==
    ASSUME [UseNext]_useVars
    PROVE  \/ \E i \in Inst : InstStep(i) /\ (ProbeStep(i) \/ GiveBackStep(i)
                                              \/ RemoveStep(i))
           \/ UNCHANGED vars
  BY DEF UseNext, useVars, ProbeStep, GiveBackStep, RemoveStep, InstStep, Press,
         EnterHandler, KeyInterrupt, Ring, Close, SwitchOops, Switch, Open,
         OpenMap, Map, OpenTest, OpenInit

(* Drivers in use are probed and removed as DriverLifecycle says: programs, *)
(* presses and handlers take no step of theirs and leave none out.         *)
THEOREM ImplementsLifecycle == UseSpec => Spec
<1>1. UseInit => Init
  BY DEF UseInit
<1>2. [UseNext]_useVars => [Next]_vars
  BY LifecycleStep DEF Next
<1> QED
  BY <1>1, <1>2, PTL DEF UseSpec, Spec

LEMMA LifecycleHolds == UseSpec => []IInv
  BY ImplementsLifecycle, InvariantHolds, PTL

-----------------------------------------------------------------------------
(* A driver whose node a program has open is bound with all it wants, or   *)
(* the program came too early or too late; the node stays. When a probe    *)
(* unwinds that has made its node it is the ADC's, which forgets it. A     *)
(* press is remembered for an interrupt that is requested.                 *)
Serving(i) ==
    /\ kind[i] \in HasFile /\ state[i]["device"] = "held"
    /\ \/ phase[i] = "bound" /\ HasUpTo(i, Len(Probe[kind[i]]))
       \/ TooEarly(i) \/ TooLate(i)

FilesServed == \A u \in User : file[u] # Nobody => Serving(file[u])

NodeForgotten(i) ==
    phase[i] = "unwinding" /\ kind[i] \in HasFile /\ state[i]["device"] = "held" =>
        kind[i] = "adc" /\ "device" \notin Elems(todo[i])

NodesForgotten == \A i \in Inst : NodeForgotten(i)

(* A program in the middle of led_device_open holds a platform LED's file.  *)
Opening ==
    \A u \in User : step[u] # "idle" => file[u] # Nobody /\ KindOf(u) = "platform_led"

Signalled == owed \cup latched \cup running

PressesKept == \A i \in Signalled : state[i]["irq"] = "held"

KeysOnly == \A i \in Signalled : kind[i] \in HasKey

UseInv ==
    /\ UseTypeOK
    /\ FilesServed
    /\ NodesForgotten
    /\ Opening
    /\ NullComesFromOthers
    /\ PressesKept
    /\ KeysOnly
    /\ GpioLedGoesDark
    /\ PressIsRung

(* The device node is the last thing a probe gets that can fail, but for   *)
(* the ADC's, whose error path for the clock does not give the node back.  *)
LEMMA NodeComesLast ==
    ASSUME NEW d \in HasFile, NEW n \in DOMAIN Probe[d], NEW m \in 1 .. n - 1,
           Probe[d][m].gets = "device"
    PROVE  /\ d \in {"adc", "platform_led", "mpu_b"}
           /\ Probe[d][n].returns # {} =>
                 d = "adc" /\ "device" \notin Elems(Probe[d][n].undo)
<1> DEFINE At(T, k) == T[k].gets = "device"
<1> USE DEF Step, Set
<1>1. CASE d = "adc"
  <2>1. Len(AdcSteps) = 11 /\ DOMAIN AdcSteps = 1 .. 11
        /\ \A k \in 1 .. 11 : At(AdcSteps, k) => k = 9
    BY DEF AdcSteps
  <2>2. AdcSteps[10].undo = <<"map", "parent", "mem">> /\ AdcSteps[11].returns = {}
    BY DEF AdcSteps
  <2>3. Probe[d] = AdcSteps
    BY <1>1 DEF Probe
  <2>4. m = 9 /\ n \in {10, 11}
    BY <2>1, <2>3
  <2>5. "device" \notin Elems(<<"map", "parent", "mem">>)
    BY DEF Elems
  <2> QED
    BY <1>1, <2>2, <2>3, <2>4, <2>5
<1>2. CASE d = "platform_led"
  <2>1. DOMAIN PlatformLedSteps = 1 .. 8 /\ PlatformLedSteps[8].returns = {}
        /\ \A k \in 1 .. 8 : At(PlatformLedSteps, k) => k = 7
    BY DEF PlatformLedSteps
  <2>2. Probe[d] = PlatformLedSteps
    BY <1>2 DEF Probe
  <2>3. n = 8
    BY <2>1, <2>2
  <2> QED
    BY <1>2, <2>1, <2>2, <2>3
<1>3. CASE d = "mpu_b"
  <2>1. DOMAIN MpuBSteps = 1 .. 5 /\ MpuBSteps[5].returns = {}
        /\ \A k \in 1 .. 5 : At(MpuBSteps, k) => k = 4
    BY DEF MpuBSteps
  <2>2. Probe[d] = MpuBSteps
    BY <1>3 DEF Probe
  <2>3. n = 5
    BY <2>1, <2>2
  <2> QED
    BY <1>3, <2>1, <2>2, <2>3
<1>4. CASE d \in {"led", "gpio_led", "mpu_a"}
  <2>1. /\ DOMAIN LedSteps = 1 .. 5 /\ \A k \in 1 .. 5 : At(LedSteps, k) => k = 5
        /\ DOMAIN MpuASteps = 1 .. 6 /\ \A k \in 1 .. 6 : At(MpuASteps, k) => k = 6
    BY DEF LedSteps, MpuASteps
  <2>2. /\ DOMAIN GpioLedSteps = 1 .. 7
        /\ \A k \in 1 .. 7 : At(GpioLedSteps, k) => k = 7
    BY DEF GpioLedSteps, GpioLedLadder
  <2>3. Probe[d] \in {LedSteps, GpioLedSteps, MpuASteps}
    BY <1>4 DEF Probe
  <2> QED
    BY <2>1, <2>2, <2>3
<1> QED
  BY <1>1, <1>2, <1>3, <1>4 DEF HasFile

LEMMA UseInitHolds == UseInit => UseInv
<1> SUFFICES ASSUME UseInit PROVE UseInv
  OBVIOUS
<1>1. IInv
  BY InitHolds DEF UseInit
<1>2. UseTypeOK
  BY <1>1 DEF UseInit, UseTypeOK, IInv
<1>3. FilesServed /\ PressesKept /\ KeysOnly /\ PressIsRung
  BY DEF UseInit, FilesServed, PressesKept, KeysOnly, Signalled, PressIsRung
<1>5. NodesForgotten /\ Opening /\ NullComesFromOthers
  BY DEF UseInit, Init, NodesForgotten, NodeForgotten, Opening, NullComesFromOthers
<1>4. GpioLedGoesDark
  BY DEF UseInit, GpioLedGoesDark, NoName
<1> QED
  BY <1>2, <1>3, <1>4, <1>5 DEF UseInv

-----------------------------------------------------------------------------
(* Steps.                                                                  *)

LEMMA KindFixedInst ==
    ASSUME NEW i \in Inst, InstStep(i) PROVE kind' = kind
  BY DEF InstStep, StartProbe, Acquire, Fail, GiveBack, ReturnFailed, StartRemove,
     EndRemove

LEMMA KindFixed ==
    ASSUME [UseNext]_useVars PROVE kind' = kind
  BY LifecycleStep, KindFixedInst DEF vars

(* A file is opened of a driver that has its node, and a lifecycle step    *)
(* moves no file.                                                          *)
LEMMA FileStep ==
    ASSUME UseTypeOK, [UseNext]_useVars, NEW u \in User
    PROVE  \/ file'[u] = file[u]
           \/ file'[u] = Nobody
           \/ file'[u] \in Inst /\ UNCHANGED vars /\ Openable(file'[u])
<1> USE DEF SetFile, UseTypeOK, fileVars
<1>1. CASE UNCHANGED file
  BY <1>1
<1>2. ASSUME NEW w \in User, NEW i \in Inst, Open(w, i) \/ OpenMap(w, i)
      PROVE  \/ file'[u] = file[u]
             \/ file'[u] = i /\ UNCHANGED vars /\ Openable(i)
  BY <1>2 DEF Open, OpenMap, Map
<1>3. ASSUME NEW w \in User, Close(w) \/ SwitchOops(w) \/ OpenTest(w)
      PROVE  file'[u] = file[u] \/ file'[u] = Nobody
  BY <1>3 DEF Close, SwitchOops, OpenTest
<1>4. \/ UNCHANGED file
      \/ \E w \in User : Close(w) \/ SwitchOops(w) \/ OpenTest(w)
      \/ \E w \in User, i \in Inst : Open(w, i) \/ OpenMap(w, i)
  BY DEF UseNext, useVars, ProbeStep, GiveBackStep, RemoveStep, Press,
         EnterHandler, KeyInterrupt, Ring, Switch, OpenInit
<1> QED
  BY <1>1, <1>2, <1>3, <1>4

LEMMA UseTypeKept ==
    ASSUME UseTypeOK, TypeOK', [UseNext]_useVars PROVE UseTypeOK'
<1> USE DEF UseTypeOK, SetFile, Goto, fileVars, keyVars
<1>1. CASE UNCHANGED useVars
  BY <1>1 DEF useVars
<1>2. ASSUME NEW i \in Inst, ProbeStep(i) \/ GiveBackStep(i) \/ RemoveStep(i)
      PROVE  UseTypeOK'
  BY <1>2 DEF ProbeStep, GiveBackStep, RemoveStep
<1>3. ASSUME NEW i \in Inst, Press(i) \/ EnterHandler(i) \/ KeyInterrupt(i)
      PROVE  UseTypeOK'
  BY <1>3 DEF Press, EnterHandler, KeyInterrupt, HasKey
<1>4. ASSUME NEW k \in HasKey, Ring(k) PROVE UseTypeOK'
  BY <1>4 DEF Ring
<1>5. ASSUME NEW u \in User, Close(u) \/ SwitchOops(u) PROVE UseTypeOK'
  BY <1>5 DEF Close, SwitchOops
<1>6. ASSUME NEW u \in User, NEW on \in BOOLEAN, Switch(u, on) PROVE UseTypeOK'
  BY <1>6 DEF Switch
<1>7. ASSUME NEW u \in User, NEW i \in Inst, Open(u, i) PROVE UseTypeOK'
  BY <1>7 DEF Open
<1>8. ASSUME NEW u \in User, NEW i \in Inst, OpenMap(u, i) PROVE UseTypeOK'
  BY <1>8 DEF OpenMap, Map
<1>9. ASSUME NEW u \in User, OpenTest(u) \/ OpenInit(u) PROVE UseTypeOK'
  BY <1>9 DEF OpenTest, OpenInit
<1> QED
  BY <1>1, <1>2, <1>3, <1>4, <1>5, <1>6, <1>7, <1>8, <1>9 DEF UseNext

(* A node that can be opened is served, or opened too early or too late.   *)
LEMMA OpenableServes ==
    ASSUME IInv, NodesForgotten, NEW i \in Inst, Openable(i) PROVE Serving(i)
<1>1. kind[i] \in HasFile /\ state[i]["device"] = "held" /\ phase[i] # "removing"
  BY DEF Openable
<1>2. "device" \in Held(i) /\ Accounted(i) /\ phase[i] \in Phase
  BY <1>1 DEF Held, Owned, IInv, TypeOK
<1>3. CASE phase[i] = "bound"
  BY <1>1, <1>2, <1>3 DEF Accounted, Serving
<1>4. CASE phase[i] = "probing"
  <2>1. PICK m \in 1 .. at[i] - 1 : Probe[kind[i]][m].gets = "device"
    BY <1>2, <1>4 DEF Accounted
  <2>2. at[i] \in DOMAIN Probe[kind[i]]
    BY <1>2, <1>4, CurrentStep DEF Accounted, IInv
  <2>3. TooEarly(i)
    BY <1>1, <1>4, <2>1, <2>2, NodeComesLast DEF TooEarly
  <2> QED
    BY <1>1, <2>3 DEF Serving
<1>5. CASE phase[i] \in {"absent", "failed", "unwinding", "oops"}
  <2>1. TooLate(i)
    BY <1>1, <1>2, <1>5
    DEF Accounted, LeftByFailure, LeftByRemove, NodesForgotten, NodeForgotten, TooLate
  <2> QED
    BY <1>1, <2>1 DEF Serving
<1> QED
  BY <1>1, <1>2, <1>3, <1>4, <1>5 DEF Phase

(* A probe that fails after it has made its node leaves the node alone.    *)
LEMMA ForgottenKept ==
    ASSUME IInv, NodesForgotten, NEW i \in Inst, InstStep(i)
    PROVE  NodeForgotten(i)'
<1> DEFINE Steps == Probe[kind[i]]
<1> SUFFICES ASSUME phase'[i] = "unwinding", kind'[i] \in HasFile,
                    state'[i]["device"] = "held"
             PROVE  kind[i] = "adc" /\ "device" \notin Elems(todo'[i])
  BY KindFixedInst DEF NodeForgotten
<1>0. /\ TypeOK /\ Accounted(i) /\ kind' = kind /\ "device" \in Thing
  BY KindFixedInst DEF IInv, Thing, Owned
<1>1. CASE Fail(i)
  <2>1. /\ phase[i] = "probing" /\ todo'[i] = Current(i).undo /\ state' = state
        /\ Current(i).returns # {}
    BY <1>0, <1>1 DEF Fail, TypeOK
  <2>2. at[i] \in DOMAIN Steps /\ Current(i) = Steps[at[i]]
    BY <1>0, <2>1, CurrentStep DEF Accounted, Current
  <2>3. PICK m \in 1 .. at[i] - 1 : Steps[m].gets = "device"
    BY <1>0, <2>1 DEF Accounted, Held, Owned
  <2> QED
    BY <1>0, <2>1, <2>2, <2>3, NodeComesLast
<1>2. CASE GiveBack(i)
  <2>1. /\ phase[i] = "unwinding" /\ todo[i] \in Seq(Thing) /\ todo[i] # <<>>
        /\ todo'[i] = Tail(todo[i])
    BY <1>0, <1>2 DEF GiveBack, TypeOK
  <2>2. state[i]["device"] = "held"
    <3>1. ~StartProbe(i) /\ ~Acquire(i)
      BY <2>1 DEF StartProbe, Acquire
    <3> QED
      BY <1>0, <3>1, HoldingChanges
  <2>3. Elems(todo'[i]) \subseteq Elems(todo[i])
    BY <2>1, TailShifts DEF Elems
  <2> QED
    BY <1>0, <2>1, <2>2, <2>3 DEF NodesForgotten, NodeForgotten
<1>3. CASE StartProbe(i) \/ Acquire(i) \/ ReturnFailed(i) \/ StartRemove(i) \/ EndRemove(i)
  <2>1. phase'[i] \in {"probing", "bound", "failed", "oops", "removing", "absent"}
    BY <1>0, <1>3
    DEF StartProbe, Acquire, ReturnFailed, StartRemove, EndRemove, GoPhase, TypeOK
  <2> QED
    BY <2>1
<1> QED
  BY <1>1, <1>2, <1>3 DEF InstStep

LEMMA NodesForgottenKept ==
    ASSUME IInv, NodesForgotten, [UseNext]_useVars PROVE NodesForgotten'
<1>1. CASE UNCHANGED vars
  BY <1>1 DEF vars, NodesForgotten, NodeForgotten
<1>2. ASSUME NEW i \in Inst, InstStep(i), NEW j \in Inst PROVE NodeForgotten(j)'
  <2>1. CASE j = i
    BY <1>2, <2>1, ForgottenKept
  <2>2. CASE j # i
    <3>1. UNCHANGED <<kind[j], phase[j], todo[j], state[j]>>
      BY <1>2, <2>2, OthersAlone DEF IInv
    <3> QED
      BY <3>1 DEF NodesForgotten, NodeForgotten
  <2> QED
    BY <2>1, <2>2
<1> QED
  BY <1>1, <1>2, LifecycleStep DEF NodesForgotten

(* Of the steps of a driver with an open node only the end of its probe    *)
(* and the ADC's way to failure come about.                                *)
LEMMA ServingKept ==
    ASSUME IInv, IInv', NodesForgotten, NEW i \in Inst, Serving(i),
           ProbeStep(i) \/ GiveBackStep(i)
    PROVE  Serving(i)'
<1>i. InstStep(i)
  BY DEF ProbeStep, GiveBackStep, InstStep
<1> DEFINE Steps == Probe[kind[i]]
<1>0. /\ TypeOK /\ Accounted(i) /\ Accounted(i)' /\ kind' = kind
      /\ "device" \in Thing /\ "device" \in Held(i)
      /\ kind[i] \in HasFile /\ state[i]["device"] = "held"
  BY <1>i, KindFixedInst DEF IInv, Thing, Owned, Serving, Held
<1>1. CASE Acquire(i)
  <2>1. phase[i] = "probing" /\ phase'[i] \in {"probing", "bound"}
    BY <1>0, <1>1 DEF Acquire, GoPhase, TypeOK
  <2>2. TooEarly(i)
    BY <2>1 DEF Serving, TooLate
  <2>3. state'[i]["device"] = "held"
    <3>1. ~StartProbe(i) /\ ~GiveBack(i)
      BY <2>1 DEF StartProbe, GiveBack
    <3> QED
      BY <1>0, <3>1, <1>i, HoldingChanges
  <2>4. Held(i)' # {}
    BY <1>0, <2>3 DEF Held, Owned
  <2>5. phase'[i] = "bound" => HasUpTo(i, Len(Probe[kind[i]]))'
    BY <1>0, <2>4 DEF Accounted
  <2> QED
    BY <1>0, <2>1, <2>2, <2>3, <2>5 DEF Serving, TooEarly
<1>2. CASE Fail(i)
  <2>1. /\ phase[i] = "probing" /\ phase'[i] = "unwinding" /\ state' = state
        /\ Current(i).returns # {}
    BY <1>0, <1>2 DEF Fail, GoPhase, TypeOK
  <2>2. at[i] \in DOMAIN Steps /\ Current(i) = Steps[at[i]]
    BY <1>0, <2>1, CurrentStep DEF Accounted, Current
  <2>3. PICK m \in 1 .. at[i] - 1 : Steps[m].gets = "device"
    BY <1>0, <2>1 DEF Accounted
  <2>4. kind[i] = "adc"
    BY <1>0, <2>1, <2>2, <2>3, NodeComesLast
  <2> QED
    BY <1>0, <2>1, <2>4 DEF Serving, TooLate
<1>3. CASE GiveBack(i)
  <2>1. phase[i] = "unwinding" /\ phase' = phase
    BY <1>3 DEF GiveBack, Serving, TooEarly, TooLate
  <2>2. kind[i] = "adc" /\ "device" \notin Elems(todo[i])
    BY <1>0, <2>1 DEF NodesForgotten, NodeForgotten
  <2>3. Head(todo[i]) \in Elems(todo[i])
    <3>1. todo[i] \in Seq(Thing) /\ todo[i] # <<>>
      BY <1>0, <1>3 DEF GiveBack, TypeOK
    <3> QED
      BY <3>1, TailShifts DEF Elems
  <2>4. state'[i]["device"] = "held"
    <3>1. ~StartProbe(i)
      BY <2>1 DEF StartProbe
    <3> QED
      BY <1>0, <2>2, <2>3, <3>1, <1>i, HoldingChanges
  <2> QED
    BY <1>0, <2>1, <2>2, <2>4 DEF Serving, TooLate
<1>4. CASE ReturnFailed(i)
  <2>1. phase[i] = "unwinding" /\ state' = state
    BY <1>4 DEF ReturnFailed
  <2>2. kind[i] = "adc" /\ verdict[i] = "error"
    BY <1>0, <2>1 DEF Serving, TooEarly, TooLate, Accounted
  <2>3. phase'[i] = "failed"
    BY <1>0, <1>4, <2>2 DEF ReturnFailed, GoPhase, TypeOK
  <2> QED
    BY <1>0, <2>1, <2>2, <2>3 DEF Serving, TooLate
<1>5. ~StartProbe(i) /\ ~EndRemove(i)
  BY <1>0 DEF StartProbe, EndRemove, Serving, TooEarly, TooLate
<1> QED
  BY <1>1, <1>2, <1>3, <1>4, <1>5 DEF ProbeStep, GiveBackStep

LEMMA FilesServedKept ==
    ASSUME IInv, IInv', UseTypeOK, NodesForgotten, FilesServed, [UseNext]_useVars
    PROVE  FilesServed'
<1> SUFFICES ASSUME NEW u \in User, file'[u] # Nobody
             PROVE  Serving(file[u])'
  BY DEF FilesServed
<1> USE DEF Serving, HasUpTo, TooEarly, TooLate
<1>1. CASE UNCHANGED vars
  <2>1. UNCHANGED <<kind, phase, state>>
    BY <1>1 DEF vars
  <2>2. Serving(file'[u])
    <3>1. CASE file'[u] = file[u]
      BY <3>1 DEF FilesServed
    <3>2. CASE file'[u] # file[u]
      <4> HIDE DEF Serving
      <4> QED
        BY <3>2, FileStep, OpenableServes
    <3> QED
      BY <3>1, <3>2
  <2> QED
    BY <2>1, <2>2
<1>2. ASSUME NEW i \in Inst, InstStep(i),
             ProbeStep(i) \/ GiveBackStep(i) \/ RemoveStep(i)
      PROVE  Serving(file[u])'
  <2>1. file' = file /\ file[u] \in Inst /\ Serving(file[u])
    BY <1>2 DEF ProbeStep, GiveBackStep, RemoveStep, fileVars, FilesServed, UseTypeOK
  <2>2. CASE file[u] # i
    <3>1. UNCHANGED <<kind[file[u]], phase[file[u]], state[file[u]]>>
      BY <1>2, <2>1, <2>2, OthersAlone DEF IInv
    <3> QED
      BY <2>1, <3>1
  <2>3. CASE file[u] = i
    <3>1. ~RemoveStep(i)
      BY <2>1, <2>3 DEF RemoveStep, KindOf, FilesServed
    <3> HIDE DEF Serving
    <3> QED
      BY <1>2, <2>1, <2>3, <3>1, ServingKept
  <2> QED
    BY <2>2, <2>3
<1> QED
  BY <1>1, <1>2, LifecycleStep

(* What changes files, steps and mappings.                                 *)
LEMMA FileSteps ==
    ASSUME [UseNext]_useVars
    PROVE  \/ UNCHANGED <<file, step, mapping, mapper>>
           \/ \E w \in User : Close(w) \/ SwitchOops(w) \/ OpenTest(w) \/ OpenInit(w)
           \/ \E w \in User, i \in Inst : Open(w, i) \/ OpenMap(w, i)
  BY DEF UseNext, useVars, fileVars, ProbeStep, GiveBackStep, RemoveStep, Press,
         EnterHandler, KeyInterrupt, Ring, Switch

LEMMA OpeningKept ==
    ASSUME UseTypeOK, Opening, [UseNext]_useVars PROVE Opening'
<1> SUFFICES ASSUME NEW u \in User, step'[u] # "idle"
             PROVE  file'[u] # Nobody /\ kind[file'[u]] = "platform_led"
  BY KindFixed DEF Opening, KindOf
<1> USE DEF UseTypeOK, SetFile, Goto, Opening, KindOf
<1>1. CASE UNCHANGED <<file, step, mapping, mapper>>
  BY <1>1
<1>2. ASSUME NEW w \in User, Close(w) \/ SwitchOops(w)
      PROVE  file'[u] # Nobody /\ kind[file'[u]] = "platform_led"
  BY <1>2 DEF Close, SwitchOops, Idle
<1>3. ASSUME NEW w \in User, OpenTest(w) \/ OpenInit(w)
      PROVE  file'[u] # Nobody /\ kind[file'[u]] = "platform_led"
  BY <1>3 DEF OpenTest, OpenInit
<1>4. ASSUME NEW w \in User, NEW i \in Inst, Open(w, i) \/ OpenMap(w, i)
      PROVE  file'[u] # Nobody /\ kind[file'[u]] = "platform_led"
  BY <1>4, NobodyAssumption DEF Open, OpenMap, Map
<1> QED
  BY <1>1, <1>2, <1>3, <1>4, FileSteps

(* A mapping goes to none by an open, which then is the mapper; it tests    *)
(* what it finds before it goes on.                                        *)
LEMMA NullKept ==
    ASSUME UseTypeOK, Opening, NullComesFromOthers, [UseNext]_useVars
    PROVE  NullComesFromOthers'
<1> SUFFICES ASSUME NEW u \in User, file'[u] # Nobody,
                    kind[file'[u]] = "platform_led", step'[u] # "test",
                    mapping'[file'[u]] = "none"
             PROVE  mapper'[file'[u]] # u
  BY KindFixed DEF NullComesFromOthers, KindOf
<1> USE DEF UseTypeOK, SetFile, Goto, KindOf
<1>o. /\ file[u] # Nobody => file[u] \in Inst
      /\ file[u] # Nobody /\ kind[file[u]] = "platform_led" /\ step[u] # "test"
         /\ mapping[file[u]] = "none" => mapper[file[u]] # u
  BY DEF NullComesFromOthers
<1>1. CASE UNCHANGED <<file, step, mapping, mapper>>
  BY <1>1, <1>o
<1>2. ASSUME NEW w \in User, Close(w) \/ SwitchOops(w)
      PROVE  mapper'[file'[u]] # u
  BY <1>2, <1>o DEF Close, SwitchOops
<1>3. ASSUME NEW w \in User, OpenTest(w) PROVE mapper'[file'[u]] # u
  <2>1. CASE w = u
    BY <1>3, <2>1 DEF OpenTest
  <2>2. CASE w # u
    <3>1. file'[u] = file[u] /\ step'[u] = step[u] /\ UNCHANGED <<mapping, mapper>>
      BY <1>3, <2>2 DEF OpenTest
    <3> QED
      BY <1>o, <3>1
  <2> QED
    BY <2>1, <2>2
<1>4. ASSUME NEW w \in User, OpenInit(w) PROVE mapper'[file'[u]] # u
  <2>1. file' = file /\ UNCHANGED <<mapping, mapper>> /\ step[u] # "test"
    BY <1>4 DEF OpenInit
  <2> QED
    BY <1>o, <2>1
<1>5. ASSUME NEW w \in User, NEW i \in Inst, Open(w, i) PROVE mapper'[file'[u]] # u
  BY <1>5, <1>o DEF Open
<1>6. ASSUME NEW w \in User, NEW i \in Inst, OpenMap(w, i)
      PROVE  mapper'[file'[u]] # u
  <2>1. w # u /\ file'[u] = file[u] /\ step'[u] = step[u]
    BY <1>6 DEF OpenMap, Map
  <2>2. CASE file[u] = i
    BY <1>6, <2>1, <2>2 DEF OpenMap, Map
  <2>3. CASE file[u] # i
    <3>1. mapping'[file[u]] = mapping[file[u]] /\ mapper'[file[u]] = mapper[file[u]]
      BY <1>6, <2>1, <2>3, <1>o DEF OpenMap, Map
    <3> QED
      BY <1>o, <2>1, <3>1
  <2> QED
    BY <2>2, <2>3
<1> QED
  BY <1>1, <1>2, <1>3, <1>4, <1>5, <1>6, FileSteps

LEMMA DarkKept ==
    ASSUME UseTypeOK, Opening, GpioLedGoesDark, [UseNext]_useVars
    PROVE  GpioLedGoesDark'
<1> DEFINE Holds(u) == file[u] # Nobody /\ KindOf(u) = "gpio_led"
<1> USE DEF UseTypeOK, SetFile, fileVars, KindOf
<1>k. kind' = kind
  BY KindFixed
<1>1. CASE UNCHANGED <<file, lighter>>
  BY <1>1, <1>k DEF GpioLedGoesDark
<1>2. ASSUME NEW w \in User, NEW i \in Inst, Open(w, i) \/ OpenMap(w, i)
      PROVE  GpioLedGoesDark'
  <2>1. lighter' = lighter /\ \A u \in User : file[u] # Nobody => file'[u] = file[u]
    BY <1>2 DEF Open, OpenMap, Map
  <2> QED
    BY <1>k, <2>1 DEF GpioLedGoesDark
<1>3. ASSUME NEW w \in User, SwitchOops(w) PROVE GpioLedGoesDark'
  <2>1. lighter' = lighter /\ \A u \in User : Holds(u) => file'[u] = file[u]
    BY <1>3 DEF SwitchOops
  <2> QED
    BY <1>k, <2>1 DEF GpioLedGoesDark
<1>4. ASSUME NEW w \in User, Close(w) PROVE GpioLedGoesDark'
  <2>1. CASE KindOf(w) = "gpio_led"
    BY <1>4, <2>1 DEF Close, GpioLedGoesDark, NoName
  <2>2. CASE KindOf(w) # "gpio_led"
    <3>1. lighter' = lighter /\ \A u \in User : Holds(u) => file'[u] = file[u]
      BY <1>4, <2>2 DEF Close
    <3> QED
      BY <1>k, <3>1 DEF GpioLedGoesDark
  <2> QED
    BY <2>1, <2>2
<1>5. ASSUME NEW w \in User, NEW on \in BOOLEAN, Switch(w, on)
      PROVE  GpioLedGoesDark'
  <2>1. file' = file /\ file[w] # Nobody /\ lighter' \in {KindOf(w), NoName}
    BY <1>5 DEF Switch, Idle
  <2> QED
    BY <1>k, <2>1 DEF GpioLedGoesDark, NoName
<1>6. ASSUME NEW w \in User, OpenTest(w) PROVE GpioLedGoesDark'
  <2>1. lighter' = lighter /\ \A u \in User : Holds(u) => file'[u] = file[u]
    BY <1>6 DEF OpenTest, Opening
  <2> QED
    BY <1>k, <2>1 DEF GpioLedGoesDark
<1>7. \/ UNCHANGED <<file, lighter>>
      \/ \E w \in User : \/ Close(w) \/ SwitchOops(w) \/ OpenTest(w)
                         \/ \E on \in BOOLEAN : Switch(w, on)
      \/ \E w \in User, i \in Inst : Open(w, i) \/ OpenMap(w, i)
  BY DEF UseNext, useVars, ProbeStep, GiveBackStep, RemoveStep, Press,
         EnterHandler, KeyInterrupt, Ring, OpenInit
<1> QED
  BY <1>1, <1>2, <1>3, <1>4, <1>5, <1>6, <1>7

LEMMA PressesKeptKept ==
    ASSUME IInv, UseTypeOK, PressesKept, [UseNext]_useVars
    PROVE  PressesKept'
<1> USE DEF keyVars, Signalled
<1> SUFFICES ASSUME NEW j \in Signalled' PROVE state'[j]["irq"] = "held"
  BY DEF PressesKept
<1>1. ASSUME NEW i \in Inst, Press(i) PROVE state'[j]["irq"] = "held"
  BY <1>1 DEF Press, PressesKept, vars
<1>2. ASSUME NEW i \in Inst, InstStep(i),
             ProbeStep(i) \/ GiveBackStep(i) \/ RemoveStep(i)
      PROVE  state'[j]["irq"] = "held"
  <2>1. j \in Signalled /\ j \in Inst /\ state[j]["irq"] = "held"
    BY <1>2 DEF ProbeStep, GiveBackStep, RemoveStep, PressesKept, UseTypeOK
  <2>2. CASE j # i
    BY <1>2, <2>1, <2>2, OthersAlone DEF IInv
  <2>3. CASE j = i
    <3>0. state[i] \in [Thing -> {"none", "held", "freed"}] /\ "irq" \in Held(i)
          /\ state \in [Inst -> [Thing -> {"none", "held", "freed"}]] /\ "irq" \in Thing
      BY <2>1, <2>3 DEF IInv, TypeOK, Held, Owned, Thing
    <3>1. CASE UNCHANGED state
      BY <2>1, <3>1
    <3>2. CASE StartProbe(i)
      BY <3>0, <3>2 DEF StartProbe
    <3>3. CASE Acquire(i)
      BY <2>1, <2>3, <3>0, <3>3 DEF Acquire, Mark
    <3>4. CASE GiveBackStep(i)
      <4>1. Head(todo[i]) # "irq"
        BY <2>1, <2>3, <3>4 DEF GiveBackStep
      <4> QED
        BY <2>1, <2>3, <3>0, <3>4, <4>1 DEF GiveBackStep, GiveBack, Mark
    <3> QED
      BY <1>2, <3>1, <3>2, <3>3, <3>4
      DEF ProbeStep, RemoveStep, Fail, ReturnFailed, EndRemove, StartRemove
  <2> QED
    BY <2>2, <2>3
<1>3. CASE UNCHANGED vars /\ Signalled' \subseteq Signalled
  BY <1>3 DEF PressesKept, vars
<1>4. \/ \E i \in Inst : Press(i)
      \/ \E i \in Inst : InstStep(i) /\ (ProbeStep(i) \/ GiveBackStep(i) \/ RemoveStep(i))
      \/ UNCHANGED vars /\ Signalled' \subseteq Signalled
  BY DEF UseNext, useVars, ProbeStep, GiveBackStep, RemoveStep, InstStep,
         EnterHandler, KeyInterrupt, Ring, Close, SwitchOops, Switch, Open,
         OpenMap, Map, OpenTest, OpenInit
<1> QED
  BY <1>1, <1>2, <1>3, <1>4

LEMMA KeysOnlyKept ==
    ASSUME KeysOnly, [UseNext]_useVars PROVE KeysOnly'
<1>1. Signalled' \subseteq Signalled \cup {i \in Inst : kind[i] \in HasKey}
  BY DEF UseNext, useVars, keyVars, ProbeStep, GiveBackStep, RemoveStep, Press,
         EnterHandler, KeyInterrupt, Ring, Close, SwitchOops, Switch, Open,
         OpenMap, Map, OpenTest, OpenInit, Signalled
<1> QED
  BY <1>1, KindFixed DEF KeysOnly

(* The bottom half is initialised before the interrupt is requested.       *)
LEMMA BottomHalfFirst ==
    ASSUME NEW n \in 1 .. Len(KeySteps), KeySteps[n].gets = "bottom_half"
    PROVE  \A m \in 1 .. n - 1 : KeySteps[m].gets # "irq"
<1>1. /\ Len(KeySteps) = 3 /\ KeySteps[1].gets = "res"
      /\ KeySteps[2].gets = "bottom_half" /\ KeySteps[3].gets = "irq"
  BY DEF KeySteps, Step, Set
<1> QED
  BY <1>1

LEMMA PressIsRungKept ==
    ASSUME IInv, UseTypeOK, PressesKept, PressIsRung, [UseNext]_useVars
    PROVE  PressIsRung'
<1> DEFINE Only(i) == \A j \in Inst \ {i} : kind[j] # kind[i]
           Kept(i) == i \in latched \cup running \/ kind[i] \in pending
<1> USE DEF keyVars
<1>k. kind' = kind
  BY KindFixed
<1> SUFFICES ASSUME NEW i \in owed', Only(i)
             PROVE  i \in latched' \cup running' \/ kind[i] \in pending'
  BY <1>k DEF PressIsRung
<1>0. i \in owed => Kept(i)
  BY DEF PressIsRung
<1>1. CASE UNCHANGED keyVars
  BY <1>0, <1>1
<1>2. ASSUME NEW j \in Inst, Acquire(j), ProbeStep(j), owed' = owed,
             latched' = latched, running' = running,
             pending' \in {pending, pending \ Reinitialised(j)}
      PROVE  i \in latched' \cup running' \/ kind[i] \in pending'
  <2>1. CASE kind[i] \notin Reinitialised(j)
    BY <1>0, <1>2, <2>1
  <2>2. CASE kind[i] \in Reinitialised(j)
    <3>1. kind[i] = "key" /\ kind[j] = "key" /\ Current(j).gets = "bottom_half"
      BY <2>2 DEF Reinitialised
    <3>2. j = i
      BY <3>1
    <3>3. i \in Inst /\ "irq" \in Held(i)
      BY <1>2, <3>2 DEF PressesKept, Signalled, Held, Owned
    <3>4. at[i] <= Len(Probe[kind[i]]) /\ phase[i] = "probing"
      BY <1>2, <3>2, <3>3 DEF IInv, Accounted, Acquire
    <3>5. Probe[kind[i]] = KeySteps /\ at[i] \in 1 .. Len(KeySteps)
      BY <3>1, <3>3, <3>4, CurrentStep DEF IInv, Probe
    <3>6. \E m \in 1 .. at[i] - 1 : KeySteps[m].gets = "irq"
      BY <3>3, <3>4, <3>5 DEF IInv, Accounted
    <3>7. KeySteps[at[i]].gets = "bottom_half"
      BY <3>1, <3>2, <3>5 DEF Current
    <3> QED
      BY <3>5, <3>6, <3>7, BottomHalfFirst
  <2> QED
    BY <2>1, <2>2
<1>3. ASSUME NEW j \in Inst, GiveBackStep(j)
      PROVE  i \in latched' \cup running' \/ kind[i] \in pending'
  BY <1>0, <1>3 DEF GiveBackStep
<1>4. ASSUME NEW j \in Inst, Press(j) \/ EnterHandler(j)
      PROVE  i \in latched' \cup running' \/ kind[i] \in pending'
  BY <1>0, <1>4 DEF Press, EnterHandler
<1>5. ASSUME NEW j \in Inst, KeyInterrupt(j)
      PROVE  i \in latched' \cup running' \/ kind[i] \in pending'
  BY <1>0, <1>5 DEF KeyInterrupt
<1>6. ASSUME NEW k \in HasKey, Ring(k)
      PROVE  i \in latched' \cup running' \/ kind[i] \in pending'
  BY <1>0, <1>6 DEF Ring
<1>7. \/ UNCHANGED keyVars
      \/ \E j \in Inst : /\ Acquire(j) /\ ProbeStep(j) /\ owed' = owed
                         /\ latched' = latched /\ running' = running
                         /\ pending' \in {pending, pending \ Reinitialised(j)}
      \/ \E j \in Inst : GiveBackStep(j) \/ Press(j) \/ EnterHandler(j) \/ KeyInterrupt(j)
      \/ \E k \in HasKey : Ring(k)
  BY DEF UseNext, useVars, ProbeStep, RemoveStep, Close, SwitchOops, Switch,
         Open, OpenMap, Map, OpenTest, OpenInit
<1> QED
  BY <1>1, <1>2, <1>3, <1>4, <1>5, <1>6, <1>7

LEMMA UseInvHolds == UseSpec => []UseInv
<1>1. IInv /\ IInv' /\ UseInv /\ [UseNext]_useVars => UseInv'
  <2> SUFFICES ASSUME IInv, IInv', UseInv, [UseNext]_useVars PROVE UseInv'
    OBVIOUS
  <2>1. UseTypeOK'
    BY UseTypeKept DEF IInv, UseInv
  <2>2. FilesServed' /\ NodesForgotten'
    BY FilesServedKept, NodesForgottenKept DEF UseInv
  <2>6. Opening' /\ NullComesFromOthers'
    BY OpeningKept, NullKept DEF UseInv
  <2>3. PressesKept' /\ PressIsRung'
    BY PressesKeptKept, PressIsRungKept DEF UseInv
  <2>5. KeysOnly'
    BY KeysOnlyKept DEF UseInv
  <2>4. GpioLedGoesDark'
    BY DarkKept DEF UseInv
  <2> QED
    BY <2>1, <2>2, <2>3, <2>4, <2>5, <2>6 DEF UseInv
<1> QED
  BY <1>1, UseInitHolds, LifecycleHolds, PTL DEF UseSpec

-----------------------------------------------------------------------------
(* Files, interrupts, bottom halves and the lifecycle keep their types.    *)
THEOREM UseTypeCorrect == UseSpec => []UseTypeOK
<1>1. UseInv => UseTypeOK
  BY DEF UseInv
<1> QED
  BY <1>1, UseInvHolds, PTL

(* Programs, files and interrupts do not disturb the lifecycle: what the   *)
(* error labels and removes guarantee, they guarantee of drivers in use.   *)
THEOREM UseLeavesNothing ==
    UseSpec => [](/\ FailureFreesAll /\ RemoveFreesAll /\ BoundIsComplete
                  /\ NoStrayRelease /\ LiveIsReady)
  BY ImplementsLifecycle, FailureSafe, RemoveSafe, BindingComplete, ReleaseSafe,
     LiveSafe, PTL

(* From open to close the driver of an open file is bound and has all that  *)
(* the file operations use of what probe got, however often rmmod is tried *)
(* (the owner of the file operations); but for the files opened too early  *)
(* or too late.                                                            *)
THEOREM OpenFileSafe == UseSpec => []OpenFileIsServed
<1>1. IInv /\ UseInv => OpenFileIsServed
  <2> SUFFICES ASSUME IInv, UseInv, NEW u \in User, file[u] # Nobody,
                      ~TooEarly(file[u]), ~TooLate(file[u])
               PROVE  /\ phase[file[u]] = "bound"
                      /\ \A t \in Needs[KindOf(u)] : state[file[u]][t] = "held"
    BY DEF OpenFileIsServed
  <2>1. Serving(file[u])
    BY DEF UseInv, FilesServed
  <2>2. phase[file[u]] = "bound" /\ HasUpTo(file[u], Len(Probe[kind[file[u]]]))
    BY <2>1 DEF Serving
  <2>3. KindOf(u) \in EarlyPublishers \cup {"led", "gpio_led"}
    BY <2>1 DEF Serving, KindOf, HasFile, EarlyPublishers
  <2>4. ASSUME NEW t \in Needs[KindOf(u)] PROVE state[file[u]][t] = "held"
    <3>1. PICK n \in 1 .. Len(Probe[KindOf(u)]) : Probe[KindOf(u)][n].gets = t
      BY <2>3, NeedsAreGot
    <3> QED
      BY <2>2, <3>1 DEF HasUpTo, KindOf
  <2> QED
    BY <2>2, <2>4
<1> QED
  BY <1>1, LifecycleHolds, UseInvHolds, PTL

(* However the opens of a platform LED overlap, no program goes on past     *)
(* its own failed ioremap (led_device_open).                               *)
THEOREM NullSafe == UseSpec => []NullComesFromOthers
<1>1. UseInv => NullComesFromOthers
  BY DEF UseInv
<1> QED
  BY <1>1, UseInvHolds, PTL

(* The LED is not left on by the GPIO driver when its last file is closed,  *)
(* whatever the drivers that share the pin did (exynos_led_release).       *)
THEOREM LedGoesDark == UseSpec => []GpioLedGoesDark
<1>1. UseInv => GpioLedGoesDark
  BY DEF UseInv
<1> QED
  BY <1>1, UseInvHolds, PTL

(* A ring follows the last press, with any number of key devices of which  *)
(* one has the tasklet or work to itself (key_interrupt).                  *)
THEOREM PressSafe == UseSpec => []PressIsRung
<1>1. UseInv => PressIsRung
  BY DEF UseInv
<1> QED
  BY <1>1, UseInvHolds, PTL

(* No handler runs before its bottom half is initialised or after the      *)
(* interrupt is given back, with any number of key devices (probe,         *)
(* key_interrupt, free_irq).                                               *)
THEOREM HandlerSafe == UseSpec => []HandlerIsServed
<1>1. LiveIsReady /\ UseInv => HandlerIsServed
  <2> SUFFICES ASSUME LiveIsReady, UseInv, NEW i \in running
               PROVE  \A t \in Needs[kind[i]] \cup {"irq"} : state[i][t] = "held"
    BY DEF HandlerIsServed
  <2>1. state[i]["irq"] = "held" /\ i \in Inst
    BY DEF UseInv, PressesKept, Signalled, UseTypeOK
  <2>2. kind[i] \in HasKey
    BY DEF UseInv, KeysOnly, Signalled
  <2> QED
    BY <2>1, <2>2 DEF LiveIsReady, HasKey, EarlyPublishers
<1> QED
  BY <1>1, UseLeavesNothing, UseInvHolds, PTL
=============================================================================
