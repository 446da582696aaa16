------------------------- MODULE DriverLifecycleProofs -------------------------
(***************************************************************************)
(* What failed probes and removes leave behind, for any number of          *)
(* instances of any of the drivers.                                        *)
(***************************************************************************)
EXTENDS DriverLifecycle, SequenceTheorems, TLAPS

Elems(s) == {s[k] : k \in DOMAIN s}

StepRecord == [gets : Thing, undo : Seq(Thing),
               returns : SUBSET {"error", "ok", "oops"}]

(* A step's undo list has all that the steps before it have got, the       *)
(* remove list all that a probe gets, but for what is left.                *)
CoversAt(T, n, leaves) ==
    T[n].returns # {} =>
        \A m \in 1 .. n - 1 :
            T[m].gets \in Owned => T[m].gets \in Elems(T[n].undo) \cup leaves

UndoCovers(T, leaves) == \A n \in DOMAIN T : CoversAt(T, n, leaves)

RemoveCovers(T, R, leaves) ==
    \A n \in DOMAIN T :
        T[n].gets \in Owned => T[n].gets \in Elems(R) \cup leaves

-----------------------------------------------------------------------------
(* The tables.                                                             *)

LEMMA ProbeTypes ==
    ASSUME NEW d \in Driver
    PROVE  Probe[d] \in Seq(StepRecord) /\ Probe[d] # <<>>
<1> USE DEF Step, Set, StepRecord, Thing, Owned, Fact, Error, Success, Oops
<1>1. AdcSteps \in Seq(StepRecord) /\ AdcSteps # <<>>
  BY SMTT(60) DEF AdcSteps
<1>2. LedSteps \in Seq(StepRecord) /\ LedSteps # <<>>
  BY SMTT(60) DEF LedSteps
<1>3. PlatformLedSteps \in Seq(StepRecord) /\ PlatformLedSteps # <<>>
  BY SMTT(60) DEF PlatformLedSteps
<1>4. GpioLedSteps \in Seq(StepRecord) /\ GpioLedSteps # <<>>
  BY SMTT(60) DEF GpioLedSteps, GpioLedLadder
<1>5. MpuASteps \in Seq(StepRecord) /\ MpuASteps # <<>>
  BY SMTT(60) DEF MpuASteps
<1>6. MpuBSteps \in Seq(StepRecord) /\ MpuBSteps # <<>>
  BY SMTT(60) DEF MpuBSteps
<1>7. KeySteps \in Seq(StepRecord) /\ KeySteps # <<>>
  BY SMTT(60) DEF KeySteps
<1>8. KeyPlainSteps \in Seq(StepRecord) /\ KeyPlainSteps # <<>>
  BY SMTT(60) DEF KeyPlainSteps
<1>9. S3cSteps \in Seq(StepRecord) /\ S3cSteps # <<>>
  BY SMTT(60) DEF S3cSteps
<1>10. Probe[d] \in {AdcSteps, LedSteps, PlatformLedSteps, GpioLedSteps,
                     MpuASteps, MpuBSteps, KeySteps, KeyPlainSteps, S3cSteps}
  BY DEF Driver, Probe
<1> QED
  BY <1>1, <1>2, <1>3, <1>4, <1>5, <1>6, <1>7, <1>8, <1>9, <1>10

LEMMA RemoveTypes == ASSUME NEW d \in Removable PROVE Remove[d] \in Seq(Thing)
<1>1. /\ AdcRemove \in Seq(Thing) /\ LedExit \in Seq(Thing)
      /\ PlatformLedRemove \in Seq(Thing) /\ GpioLedRemove \in Seq(Thing)
  BY DEF AdcRemove, LedExit, PlatformLedRemove, GpioLedRemove, Thing, Owned
<1>2. /\ MpuARemove \in Seq(Thing) /\ MpuBRemove \in Seq(Thing)
      /\ KeyRemove \in Seq(Thing)
  BY DEF MpuARemove, MpuBRemove, KeyRemove, Thing, Owned
<1>3. Remove[d] \in {AdcRemove, LedExit, PlatformLedRemove, GpioLedRemove,
                     MpuARemove, MpuBRemove, KeyRemove}
  BY DEF Removable, Driver, Remove
<1> QED
  BY <1>1, <1>2, <1>3

(* Every driver gives back all it does not leave, on every error path.     *)
LEMMA UndoTables ==
    ASSUME NEW d \in Driver PROVE UndoCovers(Probe[d], LeftByFailure(d))
<1> USE DEF Step, Set, CoversAt, Elems, Owned
<1>1. UndoCovers(LedSteps, {})
  <2> USE DEF LedSteps
  <2>0. DOMAIN LedSteps = 1 .. 5
    OBVIOUS
  <2>1. CoversAt(LedSteps, 1, {})
    OBVIOUS
  <2>2. CoversAt(LedSteps, 2, {})
    OBVIOUS
  <2>3. CoversAt(LedSteps, 3, {})
    OBVIOUS
  <2>4. CoversAt(LedSteps, 4, {})
    OBVIOUS
  <2>5. CoversAt(LedSteps, 5, {})
    OBVIOUS
  <2> HIDE DEF LedSteps, CoversAt
  <2> QED
    BY <2>0, <2>1, <2>2, <2>3, <2>4, <2>5 DEF UndoCovers
<1>2. UndoCovers(PlatformLedSteps, {})
  <2> USE DEF PlatformLedSteps
  <2>0. DOMAIN PlatformLedSteps = 1 .. 8
    OBVIOUS
  <2>1. CoversAt(PlatformLedSteps, 1, {})
    OBVIOUS
  <2>2. CoversAt(PlatformLedSteps, 2, {})
    OBVIOUS
  <2>3. CoversAt(PlatformLedSteps, 3, {})
    OBVIOUS
  <2>4. CoversAt(PlatformLedSteps, 4, {})
    OBVIOUS
  <2>5. CoversAt(PlatformLedSteps, 5, {})
    OBVIOUS
  <2>6. CoversAt(PlatformLedSteps, 6, {})
    OBVIOUS
  <2>7. CoversAt(PlatformLedSteps, 7, {})
    OBVIOUS
  <2>8. CoversAt(PlatformLedSteps, 8, {})
    OBVIOUS
  <2> HIDE DEF PlatformLedSteps, CoversAt
  <2> QED
    BY <2>0, <2>1, <2>2, <2>3, <2>4, <2>5, <2>6, <2>7, <2>8
    DEF UndoCovers
<1>3. UndoCovers(GpioLedSteps, {})
  <2> USE DEF GpioLedSteps, GpioLedLadder
  <2>0. DOMAIN GpioLedSteps = 1 .. 7
    OBVIOUS
  <2>1. CoversAt(GpioLedSteps, 1, {})
    OBVIOUS
  <2>2. CoversAt(GpioLedSteps, 2, {})
    OBVIOUS
  <2>3. CoversAt(GpioLedSteps, 3, {})
    OBVIOUS
  <2>4. CoversAt(GpioLedSteps, 4, {})
    OBVIOUS
  <2>5. CoversAt(GpioLedSteps, 5, {})
    OBVIOUS
  <2>6. CoversAt(GpioLedSteps, 6, {})
    OBVIOUS
  <2>7. CoversAt(GpioLedSteps, 7, {})
    OBVIOUS
  <2> HIDE DEF GpioLedSteps, GpioLedLadder, CoversAt
  <2> QED
    BY <2>0, <2>1, <2>2, <2>3, <2>4, <2>5, <2>6, <2>7
    DEF UndoCovers
<1>4. UndoCovers(MpuASteps, {})
  <2> USE DEF MpuASteps
  <2>0. DOMAIN MpuASteps = 1 .. 6
    OBVIOUS
  <2>1. CoversAt(MpuASteps, 1, {})
    OBVIOUS
  <2>2. CoversAt(MpuASteps, 2, {})
    OBVIOUS
  <2>3. CoversAt(MpuASteps, 3, {})
    OBVIOUS
  <2>4. CoversAt(MpuASteps, 4, {})
    OBVIOUS
  <2>5. CoversAt(MpuASteps, 5, {})
    OBVIOUS
  <2>6. CoversAt(MpuASteps, 6, {})
    OBVIOUS
  <2> HIDE DEF MpuASteps, CoversAt
  <2> QED
    BY <2>0, <2>1, <2>2, <2>3, <2>4, <2>5, <2>6 DEF UndoCovers
<1>5. UndoCovers(MpuBSteps, {})
  <2> USE DEF MpuBSteps
  <2>0. DOMAIN MpuBSteps = 1 .. 5
    OBVIOUS
  <2>1. CoversAt(MpuBSteps, 1, {})
    OBVIOUS
  <2>2. CoversAt(MpuBSteps, 2, {})
    OBVIOUS
  <2>3. CoversAt(MpuBSteps, 3, {})
    OBVIOUS
  <2>4. CoversAt(MpuBSteps, 4, {})
    OBVIOUS
  <2>5. CoversAt(MpuBSteps, 5, {})
    OBVIOUS
  <2> HIDE DEF MpuBSteps, CoversAt
  <2> QED
    BY <2>0, <2>1, <2>2, <2>3, <2>4, <2>5 DEF UndoCovers
<1>6. UndoCovers(KeySteps, {})
  <2> USE DEF KeySteps
  <2>0. DOMAIN KeySteps = 1 .. 3
    OBVIOUS
  <2>1. CoversAt(KeySteps, 1, {})
    OBVIOUS
  <2>2. CoversAt(KeySteps, 2, {})
    OBVIOUS
  <2>3. CoversAt(KeySteps, 3, {})
    OBVIOUS
  <2> HIDE DEF KeySteps, CoversAt
  <2> QED
    BY <2>0, <2>1, <2>2, <2>3 DEF UndoCovers
<1>7. UndoCovers(KeyPlainSteps, {})
  <2> USE DEF KeyPlainSteps
  <2>0. DOMAIN KeyPlainSteps = 1 .. 2
    OBVIOUS
  <2>1. CoversAt(KeyPlainSteps, 1, {})
    OBVIOUS
  <2>2. CoversAt(KeyPlainSteps, 2, {})
    OBVIOUS
  <2> HIDE DEF KeyPlainSteps, CoversAt
  <2> QED
    BY <2>0, <2>1, <2>2 DEF UndoCovers
<1>8. UndoCovers(S3cSteps, {})
  <2> USE DEF S3cSteps
  <2>0. DOMAIN S3cSteps = 1 .. 11
    OBVIOUS
  <2>1. CoversAt(S3cSteps, 1, {})
    OBVIOUS
  <2>2. CoversAt(S3cSteps, 2, {})
    OBVIOUS
  <2>3. CoversAt(S3cSteps, 3, {})
    OBVIOUS
  <2>4. CoversAt(S3cSteps, 4, {})
    OBVIOUS
  <2>5. CoversAt(S3cSteps, 5, {})
    OBVIOUS
  <2>6. CoversAt(S3cSteps, 6, {})
    OBVIOUS
  <2>7. CoversAt(S3cSteps, 7, {})
    OBVIOUS
  <2>8. CoversAt(S3cSteps, 8, {})
    OBVIOUS
  <2>9. CoversAt(S3cSteps, 9, {})
    OBVIOUS
  <2>10. CoversAt(S3cSteps, 10, {})
    OBVIOUS
  <2>11. CoversAt(S3cSteps, 11, {})
    OBVIOUS
  <2> HIDE DEF S3cSteps, CoversAt
  <2> QED
    BY <2>0, <2>1, <2>2, <2>3, <2>4, <2>5, <2>6, <2>7, <2>8,
       <2>9, <2>10, <2>11 DEF UndoCovers
<1> DEFINE left == {"region", "number", "cdev", "class", "device"}
<1>9. UndoCovers(AdcSteps, left)
  <2> USE DEF AdcSteps
  <2>0. DOMAIN AdcSteps = 1 .. 11
    OBVIOUS
  <2>1. CoversAt(AdcSteps, 1, left)
    OBVIOUS
  <2>2. CoversAt(AdcSteps, 2, left)
    OBVIOUS
  <2>3. CoversAt(AdcSteps, 3, left)
    OBVIOUS
  <2>4. CoversAt(AdcSteps, 4, left)
    OBVIOUS
  <2>5. CoversAt(AdcSteps, 5, left)
    OBVIOUS
  <2>6. CoversAt(AdcSteps, 6, left)
    OBVIOUS
  <2>7. CoversAt(AdcSteps, 7, left)
    OBVIOUS
  <2>8. CoversAt(AdcSteps, 8, left)
    OBVIOUS
  <2>9. CoversAt(AdcSteps, 9, left)
    OBVIOUS
  <2>10. CoversAt(AdcSteps, 10, left)
    OBVIOUS
  <2>11. CoversAt(AdcSteps, 11, left)
    OBVIOUS
  <2> HIDE DEF AdcSteps, CoversAt, left
  <2> QED
    BY <2>0, <2>1, <2>2, <2>3, <2>4, <2>5, <2>6, <2>7,
       <2>8, <2>9, <2>10, <2>11 DEF UndoCovers
<1>10. CASE d = "adc"
  BY <1>9, <1>10 DEF Probe, LeftByFailure
<1>11. CASE d # "adc"
  <2>1. Probe[d] \in {LedSteps, PlatformLedSteps, GpioLedSteps, MpuASteps,
                      MpuBSteps, KeySteps, KeyPlainSteps, S3cSteps}
    BY <1>11 DEF Driver, Probe
  <2>2. LeftByFailure(d) = {}
    BY <1>11 DEF LeftByFailure
  <2> QED
    BY <1>1, <1>2, <1>3, <1>4, <1>5, <1>6, <1>7, <1>8, <2>1, <2>2
<1> QED
  BY <1>10, <1>11

(* Every remove gives back all it does not leave.                          *)
LEMMA RemoveTables ==
    ASSUME NEW d \in Removable
    PROVE  RemoveCovers(Probe[d], Remove[d], LeftByRemove(d))
<1> USE DEF Step, Set, RemoveCovers, Elems, Owned
<1>1. RemoveCovers(LedSteps, LedExit, {})
  BY SMTT(60) DEF LedSteps, LedExit
<1>2. RemoveCovers(PlatformLedSteps, PlatformLedRemove, {})
  BY SMTT(60) DEF PlatformLedSteps, PlatformLedRemove
<1>3. RemoveCovers(GpioLedSteps, GpioLedRemove, {})
  BY SMTT(60) DEF GpioLedSteps, GpioLedLadder, GpioLedRemove
<1>4. RemoveCovers(MpuBSteps, MpuBRemove, {})
  BY SMTT(60) DEF MpuBSteps, MpuBRemove
<1>5. /\ RemoveCovers(KeySteps, KeyRemove, {})
      /\ RemoveCovers(KeyPlainSteps, KeyRemove, {})
  BY SMTT(60) DEF KeySteps, KeyPlainSteps, KeyRemove
<1>6. RemoveCovers(AdcSteps, AdcRemove, {"region", "clk"})
  BY SMTT(60) DEF AdcSteps, AdcRemove
<1>7. RemoveCovers(MpuASteps, MpuARemove, {"number", "cdev", "class", "device"})
  BY SMTT(60) DEF MpuASteps, MpuARemove
<1> HIDE DEF RemoveCovers
<1> QED
  BY <1>1, <1>2, <1>3, <1>4, <1>5, <1>6, <1>7
  DEF Removable, Driver, Probe, Remove, LeftByRemove

-----------------------------------------------------------------------------
(* What else the tables say: what is undone was done, and is undone once,  *)
(* but for the stray releases; and the order of what the late drivers do.  *)

Once(L, k) == \A l \in DOMAIN L : l # k => L[l] # L[k]

(* The undo list of step n names what the steps before it got, or ignores. *)
SoundAt(T, n, stray) ==
    T[n].returns # {} =>
        \A k \in DOMAIN T[n].undo :
            \/ T[n].undo[k] \in stray
            \/ /\ Once(T[n].undo, k)
               /\ \/ \E m \in 1 .. n - 1 : T[m].gets = T[n].undo[k]
                  \/ /\ T[n].undo[k] \in Tolerated
                     /\ \A m \in 1 .. n - 1 : T[m].gets # T[n].undo[k]

LEMMA SoundUndo ==
    ASSUME NEW d \in Driver
    PROVE  \A n \in DOMAIN Probe[d] : SoundAt(Probe[d], n, StrayOf(d))
<1> DEFINE Sound(T, x) == \A n \in DOMAIN T : SoundAt(T, n, x)
<1> USE DEF Step, Set, SoundAt, Once, Tolerated
<1>1. Sound(AdcSteps, {"mem", "parent"})
  <2> USE DEF AdcSteps
  <2>0. DOMAIN AdcSteps = 1 .. 11
    OBVIOUS
  <2>1. SoundAt(AdcSteps, 1, {"mem", "parent"})
    OBVIOUS
  <2>2. SoundAt(AdcSteps, 2, {"mem", "parent"})
    OBVIOUS
  <2>3. SoundAt(AdcSteps, 3, {"mem", "parent"})
    OBVIOUS
  <2>4. SoundAt(AdcSteps, 4, {"mem", "parent"})
    OBVIOUS
  <2>5. SoundAt(AdcSteps, 5, {"mem", "parent"})
    OBVIOUS
  <2>6. SoundAt(AdcSteps, 6, {"mem", "parent"})
    OBVIOUS
  <2>7. SoundAt(AdcSteps, 7, {"mem", "parent"})
    OBVIOUS
  <2>8. SoundAt(AdcSteps, 8, {"mem", "parent"})
    OBVIOUS
  <2>9. SoundAt(AdcSteps, 9, {"mem", "parent"})
    OBVIOUS
  <2>10. SoundAt(AdcSteps, 10, {"mem", "parent"})
    OBVIOUS
  <2>11. SoundAt(AdcSteps, 11, {"mem", "parent"})
    OBVIOUS
  <2> HIDE DEF AdcSteps, SoundAt
  <2> QED
    BY <2>0, <2>1, <2>2, <2>3, <2>4, <2>5, <2>6, <2>7, <2>8, <2>9, <2>10, <2>11
<1>2. Sound(LedSteps, {"number"})
  <2> USE DEF LedSteps
  <2>0. DOMAIN LedSteps = 1 .. 5
    OBVIOUS
  <2>1. SoundAt(LedSteps, 1, {"number"})
    OBVIOUS
  <2>2. SoundAt(LedSteps, 2, {"number"})
    OBVIOUS
  <2>3. SoundAt(LedSteps, 3, {"number"})
    OBVIOUS
  <2>4. SoundAt(LedSteps, 4, {"number"})
    OBVIOUS
  <2>5. SoundAt(LedSteps, 5, {"number"})
    OBVIOUS
  <2> HIDE DEF LedSteps, SoundAt
  <2> QED
    BY <2>0, <2>1, <2>2, <2>3, <2>4, <2>5
<1>3. Sound(PlatformLedSteps, {"number"})
  <2> USE DEF PlatformLedSteps
  <2>0. DOMAIN PlatformLedSteps = 1 .. 8
    OBVIOUS
  <2>1. SoundAt(PlatformLedSteps, 1, {"number"})
    OBVIOUS
  <2>2. SoundAt(PlatformLedSteps, 2, {"number"})
    OBVIOUS
  <2>3. SoundAt(PlatformLedSteps, 3, {"number"})
    OBVIOUS
  <2>4. SoundAt(PlatformLedSteps, 4, {"number"})
    OBVIOUS
  <2>5. SoundAt(PlatformLedSteps, 5, {"number"})
    OBVIOUS
  <2>6. SoundAt(PlatformLedSteps, 6, {"number"})
    OBVIOUS
  <2>7. SoundAt(PlatformLedSteps, 7, {"number"})
    OBVIOUS
  <2>8. SoundAt(PlatformLedSteps, 8, {"number"})
    OBVIOUS
  <2> HIDE DEF PlatformLedSteps, SoundAt
  <2> QED
    BY <2>0, <2>1, <2>2, <2>3, <2>4, <2>5, <2>6, <2>7, <2>8
<1>4. Sound(GpioLedSteps, {})
  <2> USE DEF GpioLedSteps, GpioLedLadder
  <2>0. DOMAIN GpioLedSteps = 1 .. 7
    OBVIOUS
  <2>1. SoundAt(GpioLedSteps, 1, {})
    OBVIOUS
  <2>2. SoundAt(GpioLedSteps, 2, {})
    OBVIOUS
  <2>3. SoundAt(GpioLedSteps, 3, {})
    OBVIOUS
  <2>4. SoundAt(GpioLedSteps, 4, {})
    OBVIOUS
  <2>5. SoundAt(GpioLedSteps, 5, {})
    OBVIOUS
  <2>6. SoundAt(GpioLedSteps, 6, {})
    OBVIOUS
  <2>7. SoundAt(GpioLedSteps, 7, {})
    <3>1. GpioLedSteps[7].undo = <<"class", "cdev", "number", "gpio", "mem">>
      OBVIOUS
    <3>2. /\ GpioLedSteps[1].gets = "mem" /\ GpioLedSteps[3].gets = "gpio"
          /\ GpioLedSteps[4].gets = "number" /\ GpioLedSteps[5].gets = "cdev"
          /\ GpioLedSteps[6].gets = "class"
      OBVIOUS
    <3> HIDE DEF GpioLedSteps, GpioLedLadder
    <3> QED
      BY <3>1, <3>2
  <2> HIDE DEF GpioLedSteps, GpioLedLadder, SoundAt
  <2> QED
    BY <2>0, <2>1, <2>2, <2>3, <2>4, <2>5, <2>6, <2>7
<1>5. Sound(MpuASteps, {})
  <2> USE DEF MpuASteps
  <2>0. DOMAIN MpuASteps = 1 .. 6
    OBVIOUS
  <2>1. SoundAt(MpuASteps, 1, {})
    OBVIOUS
  <2>2. SoundAt(MpuASteps, 2, {})
    OBVIOUS
  <2>3. SoundAt(MpuASteps, 3, {})
    OBVIOUS
  <2>4. SoundAt(MpuASteps, 4, {})
    OBVIOUS
  <2>5. SoundAt(MpuASteps, 5, {})
    OBVIOUS
  <2>6. SoundAt(MpuASteps, 6, {})
    OBVIOUS
  <2> HIDE DEF MpuASteps, SoundAt
  <2> QED
    BY <2>0, <2>1, <2>2, <2>3, <2>4, <2>5, <2>6
<1>6. Sound(MpuBSteps, {})
  <2> USE DEF MpuBSteps
  <2>0. DOMAIN MpuBSteps = 1 .. 5
    OBVIOUS
  <2>1. SoundAt(MpuBSteps, 1, {})
    OBVIOUS
  <2>2. SoundAt(MpuBSteps, 2, {})
    OBVIOUS
  <2>3. SoundAt(MpuBSteps, 3, {})
    OBVIOUS
  <2>4. SoundAt(MpuBSteps, 4, {})
    OBVIOUS
  <2>5. SoundAt(MpuBSteps, 5, {})
    OBVIOUS
  <2> HIDE DEF MpuBSteps, SoundAt
  <2> QED
    BY <2>0, <2>1, <2>2, <2>3, <2>4, <2>5
<1>7. Sound(KeySteps, {})
  <2> USE DEF KeySteps
  <2>0. DOMAIN KeySteps = 1 .. 3
    OBVIOUS
  <2>1. SoundAt(KeySteps, 1, {})
    OBVIOUS
  <2>2. SoundAt(KeySteps, 2, {})
    OBVIOUS
  <2>3. SoundAt(KeySteps, 3, {})
    OBVIOUS
  <2> HIDE DEF KeySteps, SoundAt
  <2> QED
    BY <2>0, <2>1, <2>2, <2>3
<1>8. Sound(KeyPlainSteps, {})
  <2> USE DEF KeyPlainSteps
  <2>0. DOMAIN KeyPlainSteps = 1 .. 2
    OBVIOUS
  <2>1. SoundAt(KeyPlainSteps, 1, {})
    OBVIOUS
  <2>2. SoundAt(KeyPlainSteps, 2, {})
    OBVIOUS
  <2> HIDE DEF KeyPlainSteps, SoundAt
  <2> QED
    BY <2>0, <2>1, <2>2
<1>9. Sound(S3cSteps, {"cpufreq"})
  <2> USE DEF S3cSteps
  <2>0. DOMAIN S3cSteps = 1 .. 11
    OBVIOUS
  <2>1. SoundAt(S3cSteps, 1, {"cpufreq"})
    OBVIOUS
  <2>2. SoundAt(S3cSteps, 2, {"cpufreq"})
    OBVIOUS
  <2>3. SoundAt(S3cSteps, 3, {"cpufreq"})
    OBVIOUS
  <2>4. SoundAt(S3cSteps, 4, {"cpufreq"})
    OBVIOUS
  <2>5. SoundAt(S3cSteps, 5, {"cpufreq"})
    OBVIOUS
  <2>6. SoundAt(S3cSteps, 6, {"cpufreq"})
    OBVIOUS
  <2>7. SoundAt(S3cSteps, 7, {"cpufreq"})
    OBVIOUS
  <2>8. SoundAt(S3cSteps, 8, {"cpufreq"})
    OBVIOUS
  <2>9. SoundAt(S3cSteps, 9, {"cpufreq"})
    OBVIOUS
  <2>10. SoundAt(S3cSteps, 10, {"cpufreq"})
    OBVIOUS
  <2>11. SoundAt(S3cSteps, 11, {"cpufreq"})
    OBVIOUS
  <2> HIDE DEF S3cSteps, SoundAt
  <2> QED
    BY <2>0, <2>1, <2>2, <2>3, <2>4, <2>5, <2>6, <2>7, <2>8, <2>9, <2>10, <2>11
<1> HIDE DEF Sound, SoundAt
<1>10. Sound(Probe[d], StrayOf(d))
  BY <1>1, <1>2, <1>3, <1>4, <1>5, <1>6, <1>7, <1>8, <1>9
  DEF Driver, Probe, StrayOf
<1> QED
  BY <1>10 DEF Sound

(* The remove functions undo what a whole probe has done.                  *)
LEMMA SoundRemove ==
    ASSUME NEW d \in Removable
    PROVE  \A k \in DOMAIN Remove[d] :
               \/ Remove[d][k] \in StrayOf(d)
               \/ /\ Once(Remove[d], k)
                  /\ \E m \in 1 .. Len(Probe[d]) : Probe[d][m].gets = Remove[d][k]
<1> DEFINE Sound(L, T, x) ==
        \A k \in DOMAIN L :
            \/ L[k] \in x
            \/ Once(L, k) /\ \E m \in 1 .. Len(T) : T[m].gets = L[k]
<1> USE DEF Step, Set, Once
<1>1. Sound(AdcRemove, AdcSteps, {"mem", "parent"})
  BY DEF AdcRemove, AdcSteps
<1>2. Sound(LedExit, LedSteps, {"number"})
  BY DEF LedExit, LedSteps
<1>3. Sound(PlatformLedRemove, PlatformLedSteps, {"number"})
  BY DEF PlatformLedRemove, PlatformLedSteps
<1>4. Sound(GpioLedRemove, GpioLedSteps, {})
  BY DEF GpioLedRemove, GpioLedSteps, GpioLedLadder
<1>5. Sound(MpuARemove, MpuASteps, {})
  BY DEF MpuARemove, MpuASteps
<1>6. Sound(MpuBRemove, MpuBSteps, {})
  BY DEF MpuBRemove, MpuBSteps
<1>7. Sound(KeyRemove, KeySteps, {}) /\ Sound(KeyRemove, KeyPlainSteps, {})
  BY DEF KeyRemove, KeySteps, KeyPlainSteps
<1> HIDE DEF Sound
<1>8. Sound(Remove[d], Probe[d], StrayOf(d))
  BY <1>1, <1>2, <1>3, <1>4, <1>5, <1>6, <1>7
  DEF Probe, Remove, Removable, Driver, StrayOf
<1> QED
  BY <1>8 DEF Sound

(* What makes a driver's entry points reachable. *)
Publisher == {"cdev", "irq", "adapter"}

(* When T publishes the driver, all it needs has been got.                 *)
NeedsFirst(T, need) ==
    \A n \in DOMAIN T : T[n].gets \in Publisher =>
        \A t \in need : \E m \in 1 .. n - 1 : T[m].gets = t

(* Before L gives back what is needed, it takes back whatever the first n  *)
(* steps of T have published.                                              *)
TakenBackFirst(L, T, n, need) ==
    \A k \in DOMAIN L : L[k] \in need =>
        \A m \in 1 .. n : T[m].gets \in Publisher =>
            \E l \in 1 .. k - 1 : L[l] = T[m].gets

UndoneLater(T, n, need) ==
    T[n].returns # {} => TakenBackFirst(T[n].undo, T, n - 1, need)

Late == Driver \ EarlyPublishers

LEMMA LateDrivers == Late = {"led", "gpio_led", "key", "key_plain", "s3c2410"}
  BY DEF Late, Driver, EarlyPublishers

(* The late drivers publish themselves last in probe.                      *)
LEMMA PublishedLast ==
    ASSUME NEW d \in Late PROVE NeedsFirst(Probe[d], Needs[d])
<1> USE DEF Step, Set, NeedsFirst, Publisher
<1>1. NeedsFirst(LedSteps, {"mem"})
  BY SMTT(60) DEF LedSteps
<1>2. NeedsFirst(GpioLedSteps, {"mem", "gpio"})
  BY SMTT(60) DEF GpioLedSteps, GpioLedLadder
<1>3. NeedsFirst(KeySteps, {"bottom_half"}) /\ NeedsFirst(KeyPlainSteps, {})
  BY SMTT(60) DEF KeySteps, KeyPlainSteps
<1>4. NeedsFirst(S3cSteps, {"mem", "clk", "map", "init"})
  BY SMTT(60) DEF S3cSteps
<1> HIDE DEF NeedsFirst
<1> QED
  BY <1>1, <1>2, <1>3, <1>4, LateDrivers DEF Probe, Needs

(* and withdraw first, on every error path                                 *)
LEMMA WithdrawnFirst ==
    ASSUME NEW d \in Late
    PROVE  \A n \in DOMAIN Probe[d] : UndoneLater(Probe[d], n, Needs[d])
<1> DEFINE Ordered(T, need) == \A n \in DOMAIN T : UndoneLater(T, n, need)
<1> USE DEF Step, Set, UndoneLater, TakenBackFirst, Publisher
<1>1. Ordered(LedSteps, {"mem"})
  <2> USE DEF LedSteps
  <2>0. DOMAIN LedSteps = 1 .. 5
    OBVIOUS
  <2>1. UndoneLater(LedSteps, 1, {"mem"})
    OBVIOUS
  <2>2. UndoneLater(LedSteps, 2, {"mem"})
    OBVIOUS
  <2>3. UndoneLater(LedSteps, 3, {"mem"})
    OBVIOUS
  <2>4. UndoneLater(LedSteps, 4, {"mem"})
    OBVIOUS
  <2>5. UndoneLater(LedSteps, 5, {"mem"})
    OBVIOUS
  <2> HIDE DEF LedSteps, UndoneLater
  <2> QED
    BY <2>0, <2>1, <2>2, <2>3, <2>4, <2>5
<1>2. Ordered(GpioLedSteps, {"mem", "gpio"})
  <2> USE DEF GpioLedSteps, GpioLedLadder
  <2>0. DOMAIN GpioLedSteps = 1 .. 7
    OBVIOUS
  <2>1. UndoneLater(GpioLedSteps, 1, {"mem", "gpio"})
    OBVIOUS
  <2>2. UndoneLater(GpioLedSteps, 2, {"mem", "gpio"})
    OBVIOUS
  <2>3. UndoneLater(GpioLedSteps, 3, {"mem", "gpio"})
    OBVIOUS
  <2>4. UndoneLater(GpioLedSteps, 4, {"mem", "gpio"})
    OBVIOUS
  <2>5. UndoneLater(GpioLedSteps, 5, {"mem", "gpio"})
    OBVIOUS
  <2>6. UndoneLater(GpioLedSteps, 6, {"mem", "gpio"})
    OBVIOUS
  <2>7. UndoneLater(GpioLedSteps, 7, {"mem", "gpio"})
    <3>1. GpioLedSteps[7].undo = <<"class", "cdev", "number", "gpio", "mem">>
      OBVIOUS
    <3>2. \A m \in 1 .. 6 : GpioLedSteps[m].gets \in Publisher
                               => GpioLedSteps[m].gets = "cdev"
      OBVIOUS
    <3> HIDE DEF GpioLedSteps, GpioLedLadder
    <3> QED
      BY <3>1, <3>2
  <2> HIDE DEF GpioLedSteps, GpioLedLadder, UndoneLater
  <2> QED
    BY <2>0, <2>1, <2>2, <2>3, <2>4, <2>5, <2>6, <2>7
<1>3. Ordered(KeySteps, {"bottom_half"}) /\ Ordered(KeyPlainSteps, {})
  BY DEF KeySteps, KeyPlainSteps
<1>4. Ordered(S3cSteps, {"mem", "clk", "map", "init"})
  <2> USE DEF S3cSteps
  <2>0. DOMAIN S3cSteps = 1 .. 11
    OBVIOUS
  <2>1. UndoneLater(S3cSteps, 1, {"mem", "clk", "map", "init"})
    OBVIOUS
  <2>2. UndoneLater(S3cSteps, 2, {"mem", "clk", "map", "init"})
    OBVIOUS
  <2>3. UndoneLater(S3cSteps, 3, {"mem", "clk", "map", "init"})
    OBVIOUS
  <2>4. UndoneLater(S3cSteps, 4, {"mem", "clk", "map", "init"})
    OBVIOUS
  <2>5. UndoneLater(S3cSteps, 5, {"mem", "clk", "map", "init"})
    OBVIOUS
  <2>6. UndoneLater(S3cSteps, 6, {"mem", "clk", "map", "init"})
    OBVIOUS
  <2>7. UndoneLater(S3cSteps, 7, {"mem", "clk", "map", "init"})
    OBVIOUS
  <2>8. UndoneLater(S3cSteps, 8, {"mem", "clk", "map", "init"})
    OBVIOUS
  <2>9. UndoneLater(S3cSteps, 9, {"mem", "clk", "map", "init"})
    OBVIOUS
  <2>10. UndoneLater(S3cSteps, 10, {"mem", "clk", "map", "init"})
    OBVIOUS
  <2>11. UndoneLater(S3cSteps, 11, {"mem", "clk", "map", "init"})
    OBVIOUS
  <2> HIDE DEF S3cSteps, UndoneLater
  <2> QED
    BY <2>0, <2>1, <2>2, <2>3, <2>4, <2>5, <2>6, <2>7, <2>8, <2>9,
       <2>10, <2>11
<1> HIDE DEF Ordered
<1>5. Ordered(Probe[d], Needs[d])
  BY <1>1, <1>2, <1>3, <1>4, LateDrivers DEF Probe, Needs
<1> QED
  BY <1>5 DEF Ordered

(* and in remove.                                                          *)
LEMMA RemovedFirst ==
    ASSUME NEW d \in Late \cap Removable
    PROVE  TakenBackFirst(Remove[d], Probe[d], Len(Probe[d]), Needs[d])
<1> DEFINE Ordered(L, T, need) == TakenBackFirst(L, T, Len(T), need)
<1> USE DEF Step, Set, TakenBackFirst, Publisher
<1>1. Ordered(LedExit, LedSteps, {"mem"})
  BY SMTT(60) DEF LedExit, LedSteps
<1>2. Ordered(GpioLedRemove, GpioLedSteps, {"mem", "gpio"})
  BY SMTT(60) DEF GpioLedRemove, GpioLedSteps, GpioLedLadder
<1>3. Ordered(KeyRemove, KeySteps, {"bottom_half"}) /\ Ordered(KeyRemove, KeyPlainSteps, {})
  BY SMTT(60) DEF KeyRemove, KeySteps, KeyPlainSteps
<1> HIDE DEF TakenBackFirst, Ordered
<1>4. Ordered(Remove[d], Probe[d], Needs[d])
  BY <1>1, <1>2, <1>3, LateDrivers DEF Probe, Remove, Needs, Removable, Driver
<1> QED
  BY <1>4 DEF Ordered

(* Of a driver with a file, what its operations need its probe gets.       *)
LEMMA NeedsAreGot ==
    ASSUME NEW d \in EarlyPublishers \cup {"led", "gpio_led"}
    PROVE  \A t \in Needs[d] : \E n \in 1 .. Len(Probe[d]) : Probe[d][n].gets = t
<1> DEFINE Gets(T, ts) == \A t \in ts : \E n \in 1 .. Len(T) : T[n].gets = t
<1> USE DEF Step, Set
<1>1. Gets(AdcSteps, {"mem", "map", "waitq", "clk"})
  <2>1. Len(AdcSteps) = 11 /\ AdcSteps[1].gets = "mem" /\ AdcSteps[5].gets = "map"
        /\ AdcSteps[10].gets = "clk" /\ AdcSteps[11].gets = "waitq"
    BY DEF AdcSteps
  <2> QED
    BY <2>1
<1>2. Gets(LedSteps, {"mem"})
  <2>1. Len(LedSteps) = 5 /\ LedSteps[1].gets = "mem"
    BY DEF LedSteps
  <2> QED
    BY <2>1
<1>3. Gets(PlatformLedSteps, {"mem", "fields"})
  <2>1. Len(PlatformLedSteps) = 8 /\ PlatformLedSteps[3].gets = "mem"
        /\ PlatformLedSteps[8].gets = "fields"
    BY DEF PlatformLedSteps
  <2> QED
    BY <2>1
<1>4. Gets(GpioLedSteps, {"mem", "gpio"})
  <2>1. Len(GpioLedSteps) = 7 /\ GpioLedSteps[1].gets = "mem"
        /\ GpioLedSteps[3].gets = "gpio"
    BY DEF GpioLedSteps, GpioLedLadder
  <2> QED
    BY <2>1
<1>5. Gets(MpuASteps, {"mem", "client"})
  <2>1. Len(MpuASteps) = 6 /\ MpuASteps[1].gets = "mem"
        /\ MpuASteps[2].gets = "client"
    BY DEF MpuASteps
  <2> QED
    BY <2>1
<1>6. Gets(MpuBSteps, {"client"})
  <2>1. Len(MpuBSteps) = 5 /\ MpuBSteps[5].gets = "client"
    BY DEF MpuBSteps
  <2> QED
    BY <2>1
<1> HIDE DEF Gets
<1>7. Gets(Probe[d], Needs[d])
  BY <1>1, <1>2, <1>3, <1>4, <1>5, <1>6 DEF Probe, Needs, EarlyPublishers
<1> QED
  BY <1>7 DEF Gets

-----------------------------------------------------------------------------
(* Drivers none of whose error paths returns 0.                            *)
Honest(d) == d \notin Misreporting

(* The instance has what the first n steps of its probe get.               *)
HasUpTo(i, n) == \A m \in 1 .. n : state[i][Probe[kind[i]][m].gets] = "held"

(* The invariant: what an instance holds is what its probe has got so far, *)
(* or is on the list of what it is still to give back. A driver is bound   *)
(* with all it wants or, if its probe failed and yet returned 0, nothing.  *)
Accounted(i) ==
    /\ phase[i] = "probing" =>
          /\ at[i] <= Len(Probe[kind[i]])
          /\ \A t \in Held(i) : \E m \in 1 .. at[i] - 1 :
                Probe[kind[i]][m].gets = t
          /\ HasUpTo(i, at[i] - 1)
    /\ phase[i] = "bound" =>
          \A t \in Held(i) : \E m \in DOMAIN Probe[kind[i]] :
              Probe[kind[i]][m].gets = t
    /\ phase[i] = "bound" =>
          \/ HasUpTo(i, Len(Probe[kind[i]]))
          \/ ~Honest(kind[i]) /\ Held(i) = {}
    /\ phase[i] = "unwinding" /\ Honest(kind[i]) => verdict[i] # "ok"
    /\ phase[i] = "unwinding" =>
          Held(i) \subseteq Elems(todo[i]) \cup LeftByFailure(kind[i])
    /\ phase[i] = "unwinding" /\ kind[i] = "adc" => verdict[i] = "error"
    /\ phase[i] = "removing" =>
          Held(i) \subseteq Elems(todo[i]) \cup LeftByRemove(kind[i])
    /\ phase[i] = "failed" => Held(i) \subseteq LeftByFailure(kind[i])
    /\ phase[i] = "absent" => Held(i) \subseteq LeftByRemove(kind[i])
    /\ phase[i] = "oops" => Held(i) = {}

IInv == TypeOK /\ \A i \in Inst : Accounted(i)

-----------------------------------------------------------------------------
LEMMA HeadAndTail ==
    ASSUME NEW s \in Seq(Thing), s # <<>>
    PROVE  /\ Head(s) \in Thing /\ Tail(s) \in Seq(Thing)
           /\ Elems(s) \subseteq {Head(s)} \cup Elems(Tail(s))
<1>1. Head(s) \in Thing /\ Tail(s) \in Seq(Thing)
  OBVIOUS
<1>2. Len(Tail(s)) = Len(s) - 1 /\ \A k \in 1 .. Len(Tail(s)) : Tail(s)[k] = s[k + 1]
  OBVIOUS
<1>3. ASSUME NEW k \in DOMAIN s PROVE s[k] \in {Head(s)} \cup Elems(Tail(s))
  <2>1. CASE k = 1
    BY <2>1
  <2>2. CASE k # 1
    <3>1. k - 1 \in DOMAIN Tail(s) /\ Tail(s)[k - 1] = s[k]
      BY <1>1, <1>2, <1>3, <2>2
    <3> QED
      BY <3>1 DEF Elems
  <2> QED
    BY <2>1, <2>2
<1> QED
  BY <1>1, <1>3 DEF Elems

LEMMA CurrentStep ==
    ASSUME TypeOK, NEW i \in Inst, at[i] <= Len(Probe[kind[i]])
    PROVE  /\ Current(i) \in StepRecord
           /\ DOMAIN Probe[kind[i]] = 1 .. Len(Probe[kind[i]])
           /\ at[i] \in DOMAIN Probe[kind[i]]
<1>1. kind[i] \in Driver
  BY KindsAssumption DEF TypeOK
<1>2. Probe[kind[i]] \in Seq(StepRecord)
  BY <1>1, ProbeTypes
<1> QED
  BY <1>2 DEF TypeOK, Current

LEMMA InitHolds == Init => IInv
<1> SUFFICES ASSUME Init PROVE IInv
  OBVIOUS
<1>1. \A i \in Inst : 1 \in 1 .. Len(Probe[kind[i]]) + 1
  BY ProbeTypes, KindsAssumption DEF Init
<1>2. TypeOK
  <2>1. kind \in [Inst -> Kinds] /\ phase \in [Inst -> Phase]
    BY DEF Init, Phase
  <2>2. at \in [Inst -> Nat] /\ \A i \in Inst : at[i] = 1
    BY DEF Init
  <2>3. todo \in [Inst -> Seq(Thing)]
    BY DEF Init
  <2>4. /\ verdict \in [Inst -> {"error", "ok", "oops"}]
        /\ state \in [Inst -> [Thing -> {"none", "held", "freed"}]]
        /\ owner \in [Names -> Inst \cup {Nobody}]
    BY DEF Init, Nothing
  <2> QED
    BY <1>1, <2>1, <2>2, <2>3, <2>4 DEF TypeOK
<1>3. ASSUME NEW i \in Inst PROVE Accounted(i)
  BY <1>3 DEF Init, Accounted, Held, Nothing, Owned, Thing
<1> QED
  BY <1>2, <1>3 DEF IInv

(* Each step leaves the other instances' variables alone.                  *)
LEMMA OthersAlone ==
    ASSUME TypeOK, NEW i \in Inst, InstStep(i), NEW j \in Inst \ {i}
    PROVE  UNCHANGED <<kind[j], phase[j], at[j], todo[j], verdict[j], state[j]>>
  BY DEF InstStep, StartProbe, Acquire, Fail, GiveBack, ReturnFailed,
         StartRemove, EndRemove, GoPhase, Mark, TypeOK

LEMMA TypeKept ==
    ASSUME IInv, NEW i \in Inst, InstStep(i) PROVE TypeOK'
<1> USE DEF TypeOK, GoPhase, Mark, Phase
<1>0. TypeOK /\ Accounted(i) /\ kind[i] \in Driver
  BY KindsAssumption DEF IInv
<1>r. \A t, w : w \in Inst \cup {Nobody} =>
          (Register(i, t, w) => owner' \in [Names -> Inst \cup {Nobody}])
  BY <1>0 DEF Register
<1>s. \A j \in Inst : 1 \in 1 .. Len(Probe[kind[j]]) + 1
  BY <1>0, ProbeTypes, KindsAssumption
<1>1. CASE StartProbe(i)
  BY <1>0, <1>1, <1>s DEF StartProbe, Nothing
<1>2. CASE Acquire(i)
  <2>1. at[i] <= Len(Probe[kind[i]]) /\ Current(i) \in StepRecord
    BY <1>0, <1>2, CurrentStep DEF Acquire, Accounted
  <2>2. Current(i).gets \in Thing
    BY <2>1 DEF StepRecord
  <2>3. /\ state' \in [Inst -> [Thing -> {"none", "held", "freed"}]]
        /\ owner' \in [Names -> Inst \cup {Nobody}]
    BY <1>0, <1>2, <1>r, <2>2 DEF Acquire
  <2>4. at' \in [Inst -> Nat]
    BY <1>0, <1>2 DEF Acquire
  <2>5. \A j \in Inst : at'[j] \in 1 .. Len(Probe[kind[j]]) + 1
    <3>1. Len(Probe[kind[i]]) \in Nat
      BY <1>0, ProbeTypes
    <3> QED
      BY <1>0, <1>2, <2>1, <3>1 DEF Acquire
  <2>6. phase' \in [Inst -> Phase]
    BY <1>0, <1>2 DEF Acquire
  <2> QED
    BY <1>0, <1>2, <2>3, <2>4, <2>5, <2>6 DEF Acquire
<1>3. CASE Fail(i)
  <2>1. Current(i) \in StepRecord
    BY <1>0, <1>3, CurrentStep DEF Fail, Accounted
  <2> QED
    BY <1>0, <1>3, <2>1 DEF Fail, StepRecord
<1>4. CASE GiveBack(i)
  <2>1. Head(todo[i]) \in Thing /\ Tail(todo[i]) \in Seq(Thing)
    BY <1>0, <1>4, HeadAndTail DEF GiveBack
  <2>2. owner' \in [Names -> Inst \cup {Nobody}]
    BY <1>0, <1>4, <1>r DEF GiveBack
  <2> QED
    BY <1>0, <1>4, <2>1, <2>2 DEF GiveBack
<1>5. CASE ReturnFailed(i)
  BY <1>0, <1>5 DEF ReturnFailed
<1>6. CASE StartRemove(i)
  BY <1>0, <1>6, RemoveTypes DEF StartRemove
<1>7. CASE EndRemove(i)
  BY <1>0, <1>7 DEF EndRemove
<1> QED
  BY <1>1, <1>2, <1>3, <1>4, <1>5, <1>6, <1>7 DEF InstStep

(* The ADC's probe never reports a failure as a success.                   *)
LEMMA AdcReportsErrors ==
    \A n \in DOMAIN Probe["adc"] : Probe["adc"][n].returns \subseteq {"error"}
<1>1. \A n \in DOMAIN AdcSteps : AdcSteps[n].returns \subseteq {"error"}
  BY SMTT(60) DEF AdcSteps, Step, Set, Error
<1> QED
  BY <1>1 DEF Probe

(* Nor do those of the drivers called honest.                              *)
LEMMA HonestTables ==
    ASSUME NEW d \in Driver, Honest(d)
    PROVE  \A n \in DOMAIN Probe[d] : "ok" \notin Probe[d][n].returns
<1> DEFINE Reports(T) == \A n \in DOMAIN T : "ok" \notin T[n].returns
<1> USE DEF Step, Set, Error, Oops
<1>1. Reports(AdcSteps)
  BY SMTT(60) DEF AdcSteps
<1>2. Reports(PlatformLedSteps)
  BY SMTT(60) DEF PlatformLedSteps
<1>3. Reports(GpioLedSteps)
  BY SMTT(60) DEF GpioLedSteps, GpioLedLadder
<1>4. Reports(MpuASteps)
  BY SMTT(60) DEF MpuASteps
<1>5. Reports(KeySteps) /\ Reports(KeyPlainSteps)
  BY SMTT(60) DEF KeySteps, KeyPlainSteps
<1>6. Probe[d] \in {AdcSteps, PlatformLedSteps, GpioLedSteps, MpuASteps,
                    KeySteps, KeyPlainSteps}
  BY DEF Driver, Probe, Honest, Misreporting
<1> HIDE DEF Reports
<1>7. Reports(Probe[d])
  BY <1>1, <1>2, <1>3, <1>4, <1>5, <1>6
<1> QED
  BY <1>7 DEF Reports

(* The step's own instance.                                                *)
LEMMA AccountKept ==
    ASSUME IInv, NEW i \in Inst, InstStep(i) PROVE Accounted(i)'
<1> DEFINE Steps == Probe[kind[i]]
<1>0. /\ TypeOK /\ Accounted(i) /\ kind[i] \in Driver
      /\ Steps \in Seq(StepRecord) /\ Len(Steps) \in Nat /\ Steps # <<>>
      /\ DOMAIN Steps = 1 .. Len(Steps)
  BY KindsAssumption, ProbeTypes DEF IInv, TypeOK
<1>e. Elems(<<>>) = {}
  BY DEF Elems
<1>h. Held(i)' = {t \in Owned : state'[i][t] = "held"}
  BY DEF Held
<1>1. CASE StartProbe(i)
  <2>1. phase'[i] = "probing" /\ at'[i] = 1 /\ kind' = kind
    BY <1>0, <1>1 DEF StartProbe, GoPhase, TypeOK
  <2>2. Held(i)' = {}
    BY <1>0, <1>1, <1>h DEF StartProbe, Nothing, TypeOK, Owned, Thing
  <2>3. 1 <= Len(Steps)
    BY <1>0
  <2> QED
    BY <2>1, <2>2, <2>3 DEF Accounted, HasUpTo
<1>2. CASE Acquire(i)
  <2> DEFINE t0 == Current(i).gets
  <2>1. /\ phase[i] = "probing" /\ kind' = kind /\ at'[i] = at[i] + 1
        /\ at[i] \in Nat /\ at[i] \in 1 .. Len(Steps) /\ Current(i) = Steps[at[i]]
    BY <1>0, <1>2, CurrentStep DEF Acquire, Accounted, TypeOK, Current
  <2>2. /\ at[i] = Len(Steps) => phase'[i] = "bound"
        /\ at[i] # Len(Steps) => phase'[i] = "probing"
    BY <1>0, <1>2, <2>1 DEF Acquire, GoPhase, TypeOK
  <2>3. Held(i)' \subseteq Held(i) \cup {t0}
    <3> HIDE DEF t0
    <3>1. state' = [state EXCEPT ![i][t0] = "held"]
      BY <1>2 DEF Acquire, Mark, t0
    <3> QED
      BY <1>0, <1>h, <3>1 DEF Held, TypeOK, Owned, Thing
  <2>4. ASSUME NEW t \in Held(i)' PROVE \E m \in 1 .. at[i] : Steps[m].gets = t
    <3>1. CASE t = t0
      BY <2>1, <3>1
    <3>2. CASE t # t0
      <4>1. PICK m \in 1 .. at[i] - 1 : Steps[m].gets = t
        BY <1>0, <2>1, <2>3, <2>4, <3>2 DEF Accounted
      <4> QED
        BY <2>1, <4>1
    <3> QED
      BY <3>1, <3>2
  <2>7. HasUpTo(i, at[i] - 1)'
    <3>1. HasUpTo(i, at[i] - 1)
      BY <1>0, <2>1 DEF Accounted
    <3>0. \A m \in 1 .. Len(Steps) : Steps[m].gets \in Thing
      <4>1. \A m \in 1 .. Len(Steps) : Steps[m] \in StepRecord
        BY <1>0
      <4> QED
        BY <4>1 DEF StepRecord
    <3>2. t0 \in Thing
      BY <2>1, <3>0
    <3>3. \A m \in 1 .. at[i] : m = at[i] \/ m \in 1 .. at[i] - 1
      BY <2>1
    <3> HIDE DEF t0
    <3>4. state'[i] = [state[i] EXCEPT ![t0] = "held"]
      BY <1>0, <1>2 DEF Acquire, Mark, TypeOK, t0
    <3>5. ASSUME NEW m \in 1 .. at[i] PROVE state'[i][Steps[m].gets] = "held"
      <4>1. CASE Steps[m].gets = t0
        BY <1>0, <3>2, <3>4, <4>1 DEF TypeOK
      <4>2. CASE Steps[m].gets # t0
        <5>1. m \in 1 .. at[i] - 1
          BY <2>1, <3>3, <4>2 DEF t0
        <5>2. state[i][Steps[m].gets] = "held" /\ Steps[m].gets \in Thing
          BY <2>1, <3>0, <3>1, <5>1 DEF HasUpTo
        <5> QED
          BY <1>0, <3>4, <4>2, <5>2 DEF TypeOK
      <4> QED
        BY <4>1, <4>2
    <3>6. at'[i] - 1 = at[i]
      BY <2>1
    <3> QED
      BY <2>1, <3>5, <3>6 DEF HasUpTo
  <2>5. CASE at[i] = Len(Steps)
    BY <1>0, <2>1, <2>2, <2>4, <2>5, <2>7 DEF Accounted, HasUpTo
  <2>6. CASE at[i] # Len(Steps)
    <3>1. at'[i] <= Len(Steps) /\ at'[i] - 1 = at[i]
      BY <1>0, <2>1, <2>6
    <3> QED
      BY <2>1, <2>2, <2>4, <2>6, <2>7, <3>1 DEF Accounted, HasUpTo
  <2> QED
    BY <2>5, <2>6
<1>3. CASE Fail(i)
  <2>1. /\ phase[i] = "probing" /\ phase'[i] = "unwinding"
        /\ kind' = kind /\ Held(i)' = Held(i)
        /\ todo'[i] = Current(i).undo
    BY <1>0, <1>3 DEF Fail, GoPhase, TypeOK, Held
  <2>2. at[i] \in DOMAIN Steps /\ Current(i) = Steps[at[i]]
    BY <1>0, <2>1, CurrentStep DEF Accounted, Current
  <2>3. Held(i)' \subseteq Elems(todo'[i]) \cup LeftByFailure(kind[i])
    <3>1. CoversAt(Steps, at[i], LeftByFailure(kind[i]))
      BY <1>0, <2>2, UndoTables DEF UndoCovers
    <3>2. Current(i).returns # {}
      BY <1>3 DEF Fail
    <3>3. \A t \in Held(i) : t \in Owned /\ \E m \in 1 .. at[i] - 1 : Steps[m].gets = t
      BY <1>0, <2>1 DEF Accounted, Held
    <3> QED
      BY <2>1, <2>2, <3>1, <3>2, <3>3 DEF CoversAt
  <2>4. ASSUME kind[i] = "adc" PROVE verdict'[i] = "error"
    <3>1. Current(i).returns \subseteq {"error"}
      BY <2>2, <2>4, AdcReportsErrors
    <3> QED
      BY <1>0, <1>3, <3>1 DEF Fail, TypeOK
  <2>5. ASSUME Honest(kind[i]) PROVE verdict'[i] # "ok"
    <3>1. "ok" \notin Current(i).returns
      BY <1>0, <2>2, <2>5, HonestTables
    <3> QED
      BY <1>0, <1>3, <3>1 DEF Fail, TypeOK
  <2> QED
    BY <2>1, <2>3, <2>4, <2>5 DEF Accounted
<1>4. CASE GiveBack(i)
  <2> DEFINE t0 == Head(todo[i])
  <2>1. /\ phase[i] \in {"unwinding", "removing"} /\ todo[i] # <<>>
        /\ phase' = phase /\ kind' = kind /\ verdict' = verdict
        /\ todo[i] \in Seq(Thing) /\ todo'[i] = Tail(todo[i])
    BY <1>0, <1>4 DEF GiveBack, TypeOK
  <2>2. Elems(todo[i]) \subseteq {t0} \cup Elems(todo'[i])
    BY <2>1, HeadAndTail
  <2>3. Held(i)' \subseteq Held(i) \ {t0}
    <3> HIDE DEF t0
    <3>1. state' = [state EXCEPT ![i][t0] = "freed"]
      BY <1>4 DEF GiveBack, Mark, t0
    <3> QED
      BY <1>0, <1>h, <3>1 DEF Held, TypeOK, Owned, Thing
  <2> HIDE DEF t0
  <2> QED
    BY <1>0, <2>1, <2>2, <2>3 DEF Accounted
<1>5. CASE ReturnFailed(i)
  <2>1. /\ phase[i] = "unwinding" /\ todo[i] = <<>>
        /\ kind' = kind /\ Held(i)' = Held(i)
    BY <1>5 DEF ReturnFailed, Held
  <2>2. phase'[i] \in {"failed", "bound", "oops"}
        /\ (verdict[i] = "error" => phase'[i] = "failed")
        /\ (phase'[i] = "bound" => verdict[i] = "ok")
    BY <1>0, <1>5 DEF ReturnFailed, GoPhase, TypeOK
  <2>3. Held(i)' \subseteq LeftByFailure(kind[i])
    BY <1>0, <1>e, <2>1 DEF Accounted
  <2>4. CASE kind[i] = "adc"
    BY <1>0, <2>1, <2>2, <2>3, <2>4 DEF Accounted
  <2>5. CASE kind[i] # "adc"
    <3>1. Held(i)' = {}
      BY <2>3, <2>5 DEF LeftByFailure
    <3> QED
      BY <1>0, <2>1, <2>2, <2>3, <2>5, <3>1 DEF Accounted
  <2> QED
    BY <2>4, <2>5
<1>6. CASE StartRemove(i)
  <2>1. /\ phase[i] = "bound" /\ phase'[i] = "removing" /\ kind[i] \in Removable
        /\ kind' = kind /\ Held(i)' = Held(i) /\ todo'[i] = Remove[kind[i]]
    BY <1>0, <1>6 DEF StartRemove, GoPhase, TypeOK, Held
  <2>2. Held(i)' \subseteq Elems(todo'[i]) \cup LeftByRemove(kind[i])
    <3>1. RemoveCovers(Steps, Remove[kind[i]], LeftByRemove(kind[i]))
      BY <2>1, RemoveTables
    <3>2. \A t \in Held(i) : t \in Owned /\ \E m \in DOMAIN Steps : Steps[m].gets = t
      BY <1>0, <2>1 DEF Accounted, Held
    <3> QED
      BY <2>1, <3>1, <3>2 DEF RemoveCovers
  <2> QED
    BY <2>1, <2>2 DEF Accounted
<1>7. CASE EndRemove(i)
  <2>1. /\ phase[i] = "removing" /\ phase'[i] = "absent" /\ todo[i] = <<>>
        /\ kind' = kind /\ Held(i)' = Held(i)
    BY <1>0, <1>7 DEF EndRemove, GoPhase, TypeOK, Held
  <2> QED
    BY <1>0, <1>e, <2>1 DEF Accounted
<1> QED
  BY <1>1, <1>2, <1>3, <1>4, <1>5, <1>6, <1>7 DEF InstStep

LEMMA StepKept == IInv /\ [Next]_vars => IInv'
<1> SUFFICES ASSUME IInv, [Next]_vars PROVE IInv'
  OBVIOUS
<1>1. CASE Next
  <2>1. PICK i \in Inst : InstStep(i)
    BY <1>1 DEF Next
  <2>2. TypeOK' /\ Accounted(i)'
    BY <2>1, TypeKept, AccountKept
  <2>3. ASSUME NEW j \in Inst \ {i} PROVE Accounted(j)'
    <3>1. UNCHANGED <<kind[j], phase[j], at[j], todo[j], verdict[j], state[j]>>
      BY <2>1, OthersAlone DEF IInv
    <3>2. Accounted(j)
      BY DEF IInv
    <3>3. Held(j)' = Held(j)
      BY <3>1 DEF Held
    <3> QED
      BY <3>1, <3>2, <3>3 DEF Accounted, HasUpTo
  <2> QED
    BY <2>2, <2>3 DEF IInv
<1>2. CASE UNCHANGED vars
  <2>1. TypeOK'
    BY <1>2 DEF vars, IInv, TypeOK
  <2>2. ASSUME NEW i \in Inst PROVE Accounted(i)'
    <3>1. Accounted(i) /\ Held(i)' = Held(i)
      BY <1>2 DEF vars, IInv, Held
    <3> QED
      BY <1>2, <3>1 DEF vars, Accounted, HasUpTo
  <2> QED
    BY <2>1, <2>2 DEF IInv
<1> QED
  BY <1>1, <1>2

LEMMA InvariantHolds == Spec => []IInv
  BY InitHolds, StepKept, PTL DEF Spec

-----------------------------------------------------------------------------
(* How things are given back. All on the list of a driver is held, and     *)
(* once, but for what its functions tolerate and the stray ones. A late    *)
(* driver that is published has what it needs, and no need is on its list  *)
(* before what is still published.                                         *)
Releasing(i) == phase[i] \in {"unwinding", "removing"}

NotFreed(i) == phase[i] = "probing" => \A t \in Thing : state[i][t] # "freed"

SoundEntry(i, k) ==
    \/ todo[i][k] \in StrayOf(kind[i])
    \/ /\ Once(todo[i], k)
       /\ \/ state[i][todo[i][k]] = "held"
          \/ state[i][todo[i][k]] = "none" /\ todo[i][k] \in Tolerated

ListIsSound(i) ==
    Releasing(i) /\ ~Hollow(i) => \A k \in DOMAIN todo[i] : SoundEntry(i, k)

ReadyIfLive(i) ==
    kind[i] \in Late =>
        \A p \in Publisher : state[i][p] = "held" =>
            \A t \in Needs[kind[i]] : state[i][t] = "held"

WithdrawsFirst(i) ==
    Releasing(i) /\ kind[i] \in Late =>
        \A k \in DOMAIN todo[i] : todo[i][k] \in Needs[kind[i]] =>
            \A p \in Publisher : state[i][p] = "held" =>
                \E l \in 1 .. k - 1 : todo[i][l] = p

Orderly(i) ==
    NotFreed(i) /\ ListIsSound(i) /\ ReadyIfLive(i) /\ WithdrawsFirst(i)

OrderInv == IInv /\ \A i \in Inst : Orderly(i)

LEMMA TailShifts ==
    ASSUME NEW s \in Seq(Thing), s # <<>>
    PROVE  /\ 1 \in DOMAIN s /\ Head(s) = s[1]
           /\ DOMAIN Tail(s) = 1 .. Len(s) - 1
           /\ \A k \in DOMAIN Tail(s) :
                k \in Nat \ {0} /\ k + 1 \in DOMAIN s /\ Tail(s)[k] = s[k + 1]
<1>1. Len(s) \in Nat \ {0} /\ DOMAIN s = 1 .. Len(s)
  OBVIOUS
<1>2. Len(Tail(s)) = Len(s) - 1 /\ DOMAIN Tail(s) = 1 .. Len(Tail(s))
  OBVIOUS
<1> QED
  BY <1>1, <1>2

(* What an instance holds of the things its driver publishes.              *)
LEMMA HoldingChanges ==
    ASSUME IInv, NEW i \in Inst, InstStep(i), NEW t \in Thing
    PROVE  \/ state'[i][t] = state[i][t]
           \/ StartProbe(i) /\ state'[i][t] = "none"
           \/ Acquire(i) /\ t = Current(i).gets /\ state'[i][t] = "held"
           \/ GiveBack(i) /\ t = Head(todo[i]) /\ state'[i][t] = "freed"
  BY DEF IInv, TypeOK, InstStep, StartProbe, Acquire, Fail, GiveBack, ReturnFailed,
         StartRemove, EndRemove, Mark, Nothing

LEMMA PublisherIsThing ==
    /\ Publisher \subseteq Owned /\ Owned \subseteq Thing
    /\ \A d \in Driver : Needs[d] \subseteq Thing
  BY DEF Publisher, Owned, Fact, Thing, Driver, Needs

(* A probe frees nothing before it fails.                                  *)
LEMMA NotFreedKept ==
    ASSUME IInv, NEW i \in Inst, Orderly(i), InstStep(i) PROVE NotFreed(i)'
<1> SUFFICES ASSUME phase'[i] = "probing", NEW t \in Thing
             PROVE  state'[i][t] # "freed"
  BY DEF NotFreed
<1>1. phase[i] = "probing" \/ StartProbe(i)
  BY DEF IInv, TypeOK, InstStep, StartProbe, Acquire, Fail, GiveBack, ReturnFailed,
         StartRemove, EndRemove, GoPhase
<1>2. ~StartProbe(i) => ~GiveBack(i) /\ state[i][t] # "freed"
  BY <1>1 DEF GiveBack, Orderly, NotFreed
<1>3. StartProbe(i) => state'[i][t] = "none"
  BY DEF StartProbe, Nothing, IInv, TypeOK
<1> QED
  BY <1>2, <1>3, HoldingChanges

(* Failing hands over a list of what was got, remove one of all there is.  *)
LEMMA ListSoundKept ==
    ASSUME IInv, NEW i \in Inst, Orderly(i), InstStep(i) PROVE ListIsSound(i)'
<1> DEFINE Steps == Probe[kind[i]]
<1> SUFFICES ASSUME Releasing(i)', ~Hollow(i)', NEW k \in DOMAIN todo'[i]
             PROVE  SoundEntry(i, k)'
  BY DEF ListIsSound
<1>0. /\ TypeOK /\ Accounted(i) /\ kind' = kind
      /\ kind[i] \in Driver /\ Steps \in Seq(StepRecord)
  BY KindsAssumption, ProbeTypes
  DEF IInv, TypeOK, InstStep, StartProbe, Acquire, Fail, GiveBack, ReturnFailed,
      StartRemove, EndRemove
<1>1. CASE Fail(i)
  <2>1. /\ phase[i] = "probing" /\ todo'[i] = Current(i).undo /\ state' = state
        /\ Current(i).returns # {}
    BY <1>0, <1>1 DEF Fail, TypeOK
  <2>2. /\ at[i] \in DOMAIN Steps /\ Current(i) = Steps[at[i]]
        /\ Current(i).undo \in Seq(Thing)
    BY <1>0, <2>1, CurrentStep DEF Accounted, Current, StepRecord
  <2>3. \/ todo'[i][k] \in StrayOf(kind[i])
        \/ /\ Once(todo'[i], k)
           /\ \/ \E m \in 1 .. at[i] - 1 : Steps[m].gets = todo'[i][k]
              \/ /\ todo'[i][k] \in Tolerated
                 /\ \A m \in 1 .. at[i] - 1 : Steps[m].gets # todo'[i][k]
    BY <1>0, <2>1, <2>2, SoundUndo DEF SoundAt
  <2>4. \A m \in 1 .. at[i] - 1 : state[i][Steps[m].gets] = "held"
    BY <1>0, <2>1 DEF Accounted, HasUpTo
  <2>5. ASSUME todo'[i][k] \in Tolerated,
               \A m \in 1 .. at[i] - 1 : Steps[m].gets # todo'[i][k]
        PROVE  state[i][todo'[i][k]] = "none"
    <3>1. todo'[i][k] \in Owned /\ todo'[i][k] \in Thing
      BY <2>5 DEF Tolerated, Owned, Thing
    <3>2. state[i][todo'[i][k]] # "held"
      BY <1>0, <2>1, <2>5, <3>1 DEF Accounted, Held
    <3>3. state[i][todo'[i][k]] # "freed"
      BY <2>1, <3>1 DEF Orderly, NotFreed
    <3> QED
      BY <1>0, <3>1, <3>2, <3>3 DEF TypeOK
  <2> QED
    BY <1>0, <2>1, <2>3, <2>4, <2>5 DEF SoundEntry
<1>2. CASE StartRemove(i)
  <2>1. /\ phase[i] = "bound" /\ phase'[i] = "removing" /\ state' = state
        /\ todo'[i] = Remove[kind[i]] /\ kind[i] \in Removable
    BY <1>0, <1>2 DEF StartRemove, GoPhase, TypeOK
  <2>2. \A m \in 1 .. Len(Steps) : state[i][Steps[m].gets] = "held"
    BY <1>0, <2>1 DEF Accounted, HasUpTo, Honest, Hollow, Held
  <2> QED
    BY <1>0, <2>1, <2>2, SoundRemove DEF SoundEntry
<1>3. CASE GiveBack(i)
  <2>1. /\ Releasing(i) /\ todo[i] \in Seq(Thing) /\ todo[i] # <<>>
        /\ todo'[i] = Tail(todo[i]) /\ phase' = phase
    BY <1>0, <1>3 DEF GiveBack, TypeOK, Releasing
  <2>2. ~StartProbe(i) /\ ~Acquire(i)
    BY <2>1 DEF StartProbe, Acquire, Releasing
  <2>3. ~Hollow(i)
    <3>1. Held(i)' \subseteq Held(i)
      BY <2>2, HoldingChanges, PublisherIsThing DEF Held
    <3> QED
      BY <1>0, <2>1, <3>1 DEF Hollow
  <2>4. /\ k \in Nat \ {0} /\ k + 1 \in DOMAIN todo[i]
        /\ todo'[i][k] = todo[i][k + 1] /\ todo'[i][k] \in Thing
        /\ 1 \in DOMAIN todo[i] /\ Head(todo[i]) = todo[i][1]
        /\ \A l \in DOMAIN todo'[i] : l \in Nat /\ l + 1 \in DOMAIN todo[i]
                                       /\ todo'[i][l] = todo[i][l + 1]
    BY <2>1, TailShifts
  <2>5. SoundEntry(i, k + 1)
    BY <2>1, <2>3, <2>4 DEF Orderly, ListIsSound
  <2>6. CASE todo[i][k + 1] \in StrayOf(kind[i])
    BY <1>0, <2>4, <2>6 DEF SoundEntry
  <2>7. CASE todo[i][k + 1] \notin StrayOf(kind[i])
    <3>1. Once(todo[i], k + 1) /\ todo'[i][k] # Head(todo[i])
      BY <2>4, <2>5, <2>7 DEF SoundEntry, Once
    <3>2. Once(todo'[i], k)
      BY <2>4, <3>1 DEF Once
    <3>3. state'[i][todo'[i][k]] = state[i][todo[i][k + 1]]
      BY <2>2, <2>4, <3>1, HoldingChanges
    <3> QED
      BY <2>4, <2>5, <2>7, <3>2, <3>3 DEF SoundEntry
  <2> QED
    BY <2>6, <2>7
<1>4. CASE StartProbe(i) \/ Acquire(i) \/ ReturnFailed(i) \/ EndRemove(i)
  <2>1. phase'[i] \in {"probing", "bound", "failed", "oops", "absent"}
    BY <1>0, <1>4 DEF StartProbe, Acquire, ReturnFailed, EndRemove, GoPhase, TypeOK
  <2> QED
    BY <2>1 DEF Releasing
<1> QED
  BY <1>1, <1>2, <1>3, <1>4 DEF InstStep

(* A publisher is got when all needs are there; a need is given back when  *)
(* no publisher is left.                                                   *)
LEMMA ReadyKept ==
    ASSUME IInv, NEW i \in Inst, Orderly(i), InstStep(i) PROVE ReadyIfLive(i)'
<1> DEFINE Steps == Probe[kind[i]]
<1> SUFFICES ASSUME kind'[i] \in Late, NEW p \in Publisher, state'[i][p] = "held",
                    NEW t \in Needs[kind'[i]]
             PROVE  state'[i][t] = "held"
  BY DEF ReadyIfLive
<1>0. /\ TypeOK /\ Accounted(i) /\ kind' = kind /\ kind[i] \in Late
      /\ kind[i] \in Driver /\ t \in Thing /\ p \in Thing
  BY KindsAssumption, PublisherIsThing
  DEF IInv, TypeOK, InstStep, StartProbe, Acquire, Fail, GiveBack, ReturnFailed,
      StartRemove, EndRemove
<1>1. ~StartProbe(i)
  BY <1>0 DEF StartProbe, Nothing, TypeOK
<1>2. CASE state[i][p] = "held"
  <2>1. state[i][t] = "held"
    BY <1>0, <1>2 DEF Orderly, ReadyIfLive
  <2>2. ~(GiveBack(i) /\ t = Head(todo[i]))
    <3> SUFFICES ASSUME GiveBack(i), t = Head(todo[i]) PROVE FALSE
      OBVIOUS
    <3>1. Releasing(i) /\ todo[i] \in Seq(Thing) /\ todo[i] # <<>>
      BY <1>0 DEF GiveBack, TypeOK, Releasing
    <3>2. 1 \in DOMAIN todo[i] /\ todo[i][1] = t
      BY <3>1, TailShifts
    <3>3. \E l \in 1 .. 1 - 1 : todo[i][l] = p
      BY <1>0, <1>2, <3>1, <3>2 DEF Orderly, WithdrawsFirst
    <3> QED
      BY <3>3
  <2> QED
    BY <1>0, <1>1, <2>1, <2>2, HoldingChanges
<1>3. CASE state[i][p] # "held"
  <2>1. Acquire(i) /\ p = Current(i).gets
    BY <1>0, <1>1, <1>3, HoldingChanges
  <2>2. /\ phase[i] = "probing" /\ at[i] \in DOMAIN Steps
        /\ Current(i) = Steps[at[i]]
    BY <1>0, <2>1, CurrentStep DEF Acquire, Accounted, Current
  <2>3. PICK m \in 1 .. at[i] - 1 : Steps[m].gets = t
    BY <1>0, <2>1, <2>2, PublishedLast DEF NeedsFirst
  <2>4. state[i][t] = "held"
    BY <1>0, <2>2, <2>3 DEF Accounted, HasUpTo
  <2>5. ~GiveBack(i)
    BY <2>2 DEF GiveBack
  <2> QED
    BY <1>0, <1>1, <2>4, <2>5, HoldingChanges
<1> QED
  BY <1>2, <1>3

(* What is published is on the list before what it needs.                  *)
LEMMA WithdrawsKept ==
    ASSUME IInv, NEW i \in Inst, Orderly(i), InstStep(i) PROVE WithdrawsFirst(i)'
<1> DEFINE Steps == Probe[kind[i]]
<1> SUFFICES ASSUME Releasing(i)', kind'[i] \in Late,
                    NEW k \in DOMAIN todo'[i], todo'[i][k] \in Needs[kind'[i]],
                    NEW p \in Publisher, state'[i][p] = "held"
             PROVE  \E l \in 1 .. k - 1 : todo'[i][l] = p
  BY DEF WithdrawsFirst
<1>0. /\ TypeOK /\ Accounted(i) /\ kind' = kind /\ kind[i] \in Late
      /\ kind[i] \in Driver /\ p \in Thing /\ p \in Owned
      /\ Steps \in Seq(StepRecord)
  BY KindsAssumption, PublisherIsThing, ProbeTypes
  DEF IInv, TypeOK, InstStep, StartProbe, Acquire, Fail, GiveBack, ReturnFailed,
      StartRemove, EndRemove
<1>1. CASE Fail(i)
  <2>1. /\ phase[i] = "probing" /\ todo'[i] = Current(i).undo /\ state' = state
        /\ Current(i).returns # {}
    BY <1>0, <1>1 DEF Fail, TypeOK
  <2>2. at[i] \in DOMAIN Steps /\ Current(i) = Steps[at[i]]
    BY <1>0, <2>1, CurrentStep DEF Accounted, Current
  <2>3. TakenBackFirst(todo'[i], Steps, at[i] - 1, Needs[kind[i]])
    BY <1>0, <2>1, <2>2, WithdrawnFirst DEF UndoneLater
  <2>4. PICK m \in 1 .. at[i] - 1 : Steps[m].gets = p
    BY <1>0, <2>1 DEF Accounted, Held
  <2> QED
    BY <1>0, <2>3, <2>4 DEF TakenBackFirst
<1>2. CASE StartRemove(i)
  <2>1. /\ phase[i] = "bound" /\ todo'[i] = Remove[kind[i]] /\ state' = state
        /\ kind[i] \in Late \cap Removable
    BY <1>0, <1>2 DEF StartRemove, TypeOK
  <2>2. TakenBackFirst(todo'[i], Steps, Len(Steps), Needs[kind[i]])
    BY <1>0, <2>1, RemovedFirst
  <2>3. PICK m \in 1 .. Len(Steps) : Steps[m].gets = p
    <3>1. DOMAIN Steps = 1 .. Len(Steps)
      BY <1>0
    <3> QED
      BY <1>0, <2>1, <3>1 DEF Accounted, Held
  <2> QED
    BY <1>0, <2>2, <2>3 DEF TakenBackFirst
<1>3. CASE GiveBack(i)
  <2>1. /\ Releasing(i) /\ todo[i] \in Seq(Thing) /\ todo[i] # <<>>
        /\ todo'[i] = Tail(todo[i])
    BY <1>0, <1>3 DEF GiveBack, TypeOK, Releasing
  <2>2. state[i][p] = "held" /\ p # Head(todo[i])
    <3>1. ~StartProbe(i) /\ ~Acquire(i)
      BY <2>1 DEF StartProbe, Acquire, Releasing
    <3>2. Head(todo[i]) = p => state'[i][p] = "freed"
      BY <1>0, <1>3 DEF GiveBack, Mark, TypeOK
    <3> QED
      BY <1>0, <3>1, <3>2, HoldingChanges
  <2>3. /\ k \in Nat \ {0} /\ k + 1 \in DOMAIN todo[i]
        /\ todo'[i][k] = todo[i][k + 1]
        /\ Head(todo[i]) = todo[i][1] /\ DOMAIN todo'[i] = 1 .. Len(todo[i]) - 1
    BY <2>1, TailShifts
  <2>4. PICK l \in 1 .. (k + 1) - 1 : todo[i][l] = p
    BY <1>0, <2>1, <2>2, <2>3 DEF Orderly, WithdrawsFirst
  <2>5. l # 1 /\ l - 1 \in 1 .. k - 1
    BY <2>2, <2>3, <2>4
  <2>6. l - 1 \in DOMAIN todo'[i]
    BY <2>1, <2>3, <2>5
  <2>7. todo'[i][l - 1] = p
    <3>1. todo'[i][l - 1] = todo[i][(l - 1) + 1]
      BY <2>1, <2>6, TailShifts
    <3> QED
      BY <2>3, <2>4, <3>1
  <2> QED
    BY <2>5, <2>7
<1>4. CASE StartProbe(i) \/ Acquire(i) \/ ReturnFailed(i) \/ EndRemove(i)
  <2>1. phase'[i] \in {"probing", "bound", "failed", "oops", "absent"}
    BY <1>0, <1>4 DEF StartProbe, Acquire, ReturnFailed, EndRemove, GoPhase, TypeOK
  <2> QED
    BY <2>1 DEF Releasing
<1> QED
  BY <1>1, <1>2, <1>3, <1>4 DEF InstStep

LEMMA OrderStepKept == OrderInv /\ IInv' /\ [Next]_vars => OrderInv'
<1> SUFFICES ASSUME OrderInv, IInv', [Next]_vars PROVE OrderInv'
  OBVIOUS
<1>0. IInv /\ \A i \in Inst : Orderly(i)
  BY DEF OrderInv
<1>1. CASE Next
  <2>1. PICK i \in Inst : InstStep(i)
    BY <1>1 DEF Next
  <2>2. Orderly(i)'
    BY <1>0, <2>1, NotFreedKept, ListSoundKept, ReadyKept, WithdrawsKept DEF Orderly
  <2>3. ASSUME NEW j \in Inst \ {i} PROVE Orderly(j)'
    <3>1. UNCHANGED <<kind[j], phase[j], at[j], todo[j], verdict[j], state[j]>>
      BY <1>0, <2>1, OthersAlone DEF IInv
    <3> QED
      BY <1>0, <3>1
      DEF Orderly, NotFreed, ListIsSound, SoundEntry, Hollow, Held, ReadyIfLive,
          WithdrawsFirst, Releasing
  <2> QED
    BY <2>2, <2>3 DEF OrderInv
<1>2. CASE UNCHANGED vars
  BY <1>0, <1>2
  DEF vars, OrderInv, Orderly, NotFreed, ListIsSound, SoundEntry, Hollow, Held,
      ReadyIfLive, WithdrawsFirst, Releasing, IInv, TypeOK, Accounted, HasUpTo
<1> QED
  BY <1>1, <1>2

LEMMA OrderHolds == Spec => []OrderInv
<1>1. Init => OrderInv
  <2> SUFFICES ASSUME Init, NEW i \in Inst PROVE Orderly(i)
    BY InitHolds DEF OrderInv
  <2>1. phase[i] = "absent" /\ \A t \in Thing : state[i][t] = "none"
    BY DEF Init, Nothing
  <2> QED
    BY <2>1, PublisherIsThing
    DEF Orderly, NotFreed, ListIsSound, ReadyIfLive, WithdrawsFirst, Releasing
<1> QED
  BY <1>1, OrderStepKept, InvariantHolds, PTL DEF Spec

-----------------------------------------------------------------------------
(* An instance is always at a step its probe has, and has given back or    *)
(* still lists only things there are (the probe and remove functions).     *)
THEOREM LifecycleTypeCorrect == Spec => []TypeOK
<1>1. IInv => TypeOK
  BY DEF IInv
<1> QED
  BY <1>1, InvariantHolds, PTL

(* A failed probe leaves nothing behind, at whichever step it failed and   *)
(* whatever the other instances did meanwhile: the error labels, with what *)
(* exactly the ADC's leaves.                                               *)
THEOREM FailureSafe == Spec => []FailureFreesAll
<1>1. IInv => FailureFreesAll
  BY DEF IInv, Accounted, FailureFreesAll
<1> QED
  BY <1>1, InvariantHolds, PTL

(* Nothing is left after remove: the remove and exit functions, with what  *)
(* exactly the ADC's and driver A's leave.                                 *)
THEOREM RemoveSafe == Spec => []RemoveFreesAll
<1>1. IInv => RemoveFreesAll
  BY DEF IInv, Accounted, RemoveFreesAll
<1> QED
  BY <1>1, InvariantHolds, PTL

(* A driver is bound only with all its probe was to get: no error path     *)
(* returns 0, or else the path has given everything back (the error        *)
(* labels).                                                                *)
THEOREM BindingComplete == Spec => []BoundIsComplete
<1>1. IInv => BoundIsComplete
  <2> SUFFICES ASSUME IInv, NEW i \in Inst, phase[i] = "bound",
                      ~(kind[i] \in Misreporting /\ Held(i) = {}),
                      NEW n \in DOMAIN Probe[kind[i]]
               PROVE  state[i][Probe[kind[i]][n].gets] = "held"
    BY DEF BoundIsComplete
  <2>1. HasUpTo(i, Len(Probe[kind[i]]))
    BY DEF IInv, Accounted, Honest
  <2>2. kind[i] \in Driver
    BY KindsAssumption DEF IInv, TypeOK
  <2>3. n \in 1 .. Len(Probe[kind[i]])
    BY <2>2, ProbeTypes
  <2> QED
    BY <2>1, <2>3 DEF HasUpTo
<1> QED
  BY <1>1, InvariantHolds, PTL

(* Whichever step failed, no error label and no remove gives back what was *)
(* not got, or twice, but for the four things StrayOf names and the remove *)
(* of a driver that holds nothing.                                         *)
THEOREM ReleaseSafe == Spec => []NoStrayRelease
<1>1. OrderInv => NoStrayRelease
  <2> SUFFICES ASSUME OrderInv, NEW i \in Inst, Releasing(i), todo[i] # <<>>,
                      ~Hollow(i), Head(todo[i]) \notin StrayOf(kind[i])
               PROVE  \/ state[i][Head(todo[i])] = "held"
                      \/ /\ state[i][Head(todo[i])] = "none"
                         /\ Head(todo[i]) \in Tolerated
    BY DEF NoStrayRelease, Releasing
  <2>1. todo[i] \in Seq(Thing)
    BY DEF OrderInv, IInv, TypeOK
  <2>2. 1 \in DOMAIN todo[i] /\ Head(todo[i]) = todo[i][1]
    BY <2>1, TailShifts
  <2> QED
    BY <2>2 DEF OrderInv, Orderly, ListIsSound, SoundEntry
<1> QED
  BY <1>1, OrderHolds, PTL

(* The drivers that publish themselves last are ready whenever they can be *)
(* called: while they are probed, unwound and removed as well; every other *)
(* driver is while it is bound (the order of the calls in their probe,     *)
(* init, remove and exit functions).                                       *)
THEOREM LiveSafe == Spec => []LiveIsReady
<1>1. OrderInv => LiveIsReady
  <2> SUFFICES ASSUME OrderInv, NEW i \in Inst,
                      NEW p \in Publisher, state[i][p] = "held",
                      kind[i] \in EarlyPublishers => phase[i] = "bound",
                      NEW t \in Needs[kind[i]]
               PROVE  state[i][t] = "held"
    BY DEF LiveIsReady, Publisher
  <2>0. kind[i] \in Driver
    BY KindsAssumption DEF OrderInv, IInv, TypeOK
  <2>1. CASE kind[i] \in Late
    BY <2>1 DEF OrderInv, Orderly, ReadyIfLive
  <2>2. CASE kind[i] \in EarlyPublishers
    <3>1. p \in Held(i)
      BY PublisherIsThing DEF Held
    <3>2. HasUpTo(i, Len(Probe[kind[i]]))
      BY <2>2, <3>1 DEF OrderInv, IInv, Accounted
    <3> QED
      BY <2>2, <3>2, NeedsAreGot DEF HasUpTo
  <2> QED
    BY <2>0, <2>1, <2>2 DEF Late
<1> QED
  BY <1>1, OrderHolds, PTL
=============================================================================
