--------------------------- MODULE AdcDriverProofs ---------------------------
(***************************************************************************)
(* Proofs about AdcDriver, for every set of processes and files, both      *)
(* versions of the driver, every set of ioctl commands, with and without   *)
(* fork. Each invariant is proved on top of the ones before it:            *)
(*                                                                         *)
(*   TypeOK          alone;                                                *)
(*   NoLostWakeup    on TypeOK;                                            *)
(*   SessionInv      on TypeOK; it holds ExclusiveSession and what makes   *)
(*                   it inductive, SoleHolder;                             *)
(*   ClockBalanced   on SessionInv;                                        *)
(*   StartInv        on SessionInv; from it the action property            *)
(*                   ConfigSticky;                                         *)
(*   HandlerInv      on TypeOK; with SessionInv it gives HandlerInSession. *)
(***************************************************************************)
EXTENDS AdcDriver, FiniteSetTheorems, TLAPS

-----------------------------------------------------------------------------
LEMMA DeadType == Dead \in CON
  BY DEF Dead, CON

(* The variables keep their types under every step of adc_driver.c.        *)
LEMMA TypeInit == Init => TypeOK
  <1> SUFFICES ASSUME Init PROVE TypeOK
    OBVIOUS
  <1>1. 0 \in Sample
    BY SampleAssumption DEF Sample
  <1>2. pc \in [Proc -> Step]
    BY DEF Init, Step
  <1>3. reg_val \in [Proc -> CON]
    BY DEF Init, CON, Dead
  <1>4. QED
    BY <1>1, <1>2, <1>3 DEF Init, TypeOK

LEMMA TypeNext == TypeOK /\ [Next]_vars => TypeOK'
  <1> SUFFICES ASSUME TypeOK, [Next]_vars PROVE TypeOK'
    OBVIOUS
  <1> USE SampleAssumption, FileAssumption
     DEF TypeOK, shared, kernel, con, adc, process

  <1>1. ASSUME NEW p \in Proc, OpenForget(p) PROVE TypeOK'
    BY <1>1
       DEF OpenForget, Goto, InUser, HasFile, FreeFiles, Step, NoSample, CON, Dead
  <1>2. ASSUME NEW p \in Proc, ReadPoll(p) PROVE TypeOK'
    BY <1>2 DEF ReadPoll, InUser, HasFile, Goto, Step, NoSample, CON, Dead
  <1>3. ASSUME NEW p \in Proc, ReadWait(p) PROVE TypeOK'
    BY <1>3 DEF ReadWait, InUser, HasFile, Goto, Step, NoSample, CON, Dead
  <1>4. ASSUME NEW p \in Proc, IoctlInit(p) PROVE TypeOK'
    BY <1>4
       DEF IoctlInit, Issues, InUser, HasFile, Goto, Step, NoSample, CON, Dead
  <1>5. ASSUME NEW p \in Proc, IoctlStart(p) PROVE TypeOK'
    BY <1>5
       DEF IoctlStart, Issues, InUser, HasFile, Goto, Step, NoSample, CON, Dead
  <1>6. ASSUME NEW p \in Proc, IoctlStop(p) PROVE TypeOK'
    BY <1>6
       DEF IoctlStop, Issues, InUser, HasFile, ClkDisable, Return, Goto, Step, NoSample, CON, Dead
  <1>7. ASSUME NEW p \in Proc, IoctlUnknown(p) PROVE TypeOK'
    BY <1>7
       DEF IoctlUnknown, Issues, InUser, HasFile, Return, Goto, Step, NoSample, CON, Dead
  <1>8. ASSUME NEW p \in Proc, Close(p) PROVE TypeOK'
    <2>1. pc' \in [Proc -> Step] /\ ret' \in [Proc -> {"ok", "error"}]
      BY <1>8 DEF Close, Return, Goto, Step
    <2>2. reg_val' \in [Proc -> CON]
      BY <1>8, DeadType DEF Close, Return, Goto
    <2>3. QED BY <1>8, <2>1, <2>2 DEF Close
  <1>9. ASSUME NEW p \in Proc, OpenRequestIrq(p) PROVE TypeOK'
    BY <1>9 DEF OpenRequestIrq, Goto, Step, NoSample, CON, Dead
  <1>10. ASSUME NEW p \in Proc, OpenFail(p) PROVE TypeOK'
    BY <1>10 DEF OpenFail, Return, Goto, Step, NoSample, CON, Dead
  <1>11. ASSUME NEW p \in Proc, OpenEnableClk(p) PROVE TypeOK'
    BY <1>11 DEF OpenEnableClk, Return, Goto, Step, NoSample, CON, Dead
  <1>12. ASSUME NEW p \in Proc, ReadFlag(p) PROVE TypeOK'
    <2>1. pc' \in [Proc -> Step] /\ ret' \in [Proc -> {"ok", "error"}]
      BY <1>12 DEF ReadFlag, Return, Goto, Step
    <2>2. reg_val' \in [Proc -> CON]
      BY <1>12, DeadType DEF ReadFlag, Return, Goto
    <2>3. QED BY <1>12, <2>1, <2>2 DEF ReadFlag
  <1>13. ASSUME NEW p \in Proc, ReadPrepare(p) PROVE TypeOK'
    BY <1>13 DEF ReadPrepare, Goto, Step, NoSample, CON, Dead
  <1>14. ASSUME NEW p \in Proc, ReadRecheck(p) PROVE TypeOK'
    BY <1>14 DEF ReadRecheck, Goto, Step, NoSample, CON, Dead
  <1>15. ASSUME NEW p \in Proc, ReadWoken(p) PROVE TypeOK'
    BY <1>15 DEF ReadWoken, Goto, Step, NoSample, CON, Dead
  <1>16. ASSUME NEW p \in Proc, ReadSignalled(p) PROVE TypeOK'
    <2>1. pc' \in [Proc -> Step] /\ ret' \in [Proc -> {"ok", "error"}]
      BY <1>16 DEF ReadSignalled, Return, Goto, Step
    <2>2. reg_val' \in [Proc -> CON]
      BY <1>16, DeadType DEF ReadSignalled, Return, Goto
    <2>3. QED BY <1>16, <2>1, <2>2 DEF ReadSignalled
  <1>17. ASSUME NEW p \in Proc, ReadCopy(p) PROVE TypeOK'
    BY <1>17 DEF ReadCopy, Goto, Step, NoSample, CON, Dead
  <1>18. ASSUME NEW p \in Proc, ReadFault(p) PROVE TypeOK'
    BY <1>18 DEF ReadFault, Return, Goto, Step, NoSample, CON, Dead
  <1>19. ASSUME NEW p \in Proc, ReadReset(p) PROVE TypeOK'
    BY <1>19 DEF ReadReset, Return, Goto, Step, NoSample, CON, Dead
  <1>20. ASSUME NEW p \in Proc, IoctlInitMux(p) PROVE TypeOK'
    BY <1>20 DEF IoctlInitMux, Return, Goto, Step, NoSample, CON, Dead
  <1>21. ASSUME NEW p \in Proc, IoctlStartWrite(p) PROVE TypeOK'
    BY <1>21 DEF IoctlStartWrite, Return, Goto, Step, NoSample, CON, Dead
  <1>22. ASSUME NEW p \in Proc, ReleaseFreeIrq(p) PROVE TypeOK'
    BY <1>22 DEF ReleaseFreeIrq, Goto, Step, NoSample, CON, Dead
  <1>23. ASSUME NEW p \in Proc, ReleaseSyncIrq(p) PROVE TypeOK'
    BY <1>23 DEF ReleaseSyncIrq, Goto, Step, NoSample, CON, Dead
  <1>24. ASSUME NEW p \in Proc, ReleaseDisableClk(p) PROVE TypeOK'
    BY <1>24
       DEF ReleaseDisableClk, ClkDisable, Return, Goto, Step, NoSample, CON, Dead
  <1>25. ASSUME NEW p \in Proc, NEW q \in Proc, Fork(p, q) PROVE TypeOK'
    BY <1>25 DEF Fork, InUser, HasFile, Step, NoSample, CON, Dead
  <1>26. CASE IsrClear
    BY <1>26 DEF IsrClear, Step, NoSample, CON, Dead
  <1>27. CASE IsrStore
    BY <1>27 DEF IsrStore, Step, NoSample, CON, Dead
  <1>28. CASE IsrWake
    BY <1>28 DEF IsrWake, Step, NoSample, CON, Dead
  <1>29. CASE Finish
    BY <1>29 DEF Finish, Step, NoSample, CON, Dead
  <1>30. CASE UNCHANGED vars
    BY <1>30 DEF vars, Step, NoSample, CON, Dead
  <1>31. QED
    BY <1>1, <1>2, <1>3, <1>4, <1>5, <1>6, <1>7, <1>8, <1>9, <1>10, <1>11, <1>12, <1>13, <1>14, <1>15, <1>16, <1>17, <1>18, <1>19, <1>20, <1>21, <1>22, <1>23, <1>24, <1>25, <1>26, <1>27, <1>28, <1>29, <1>30
    DEF Next, Call, InCall, OpenStep, ReadStep, IoctlStep, ReleaseStep, Isr

(* Type correctness of the driver's state (adc_driver.c, all of it).       *)
THEOREM TypeCorrect == Spec => []TypeOK
  <1>1. QED BY TypeInit, TypeNext, PTL DEF Spec

-----------------------------------------------------------------------------
(* Only the handler makes the wait condition true, and it does so on its   *)
(* way to wake_up; a reader falls asleep only when it found it false.      *)
LEMMA WakeupInit == Init => NoLostWakeup
  BY DEF Init, NoLostWakeup

LEMMA WakeupNext == TypeOK /\ NoLostWakeup /\ [Next]_vars => NoLostWakeup'
  <1> SUFFICES ASSUME TypeOK, NoLostWakeup, [Next]_vars PROVE NoLostWakeup'
    OBVIOUS
  <1> USE
     DEF TypeOK, NoLostWakeup, Ready, WaitCond1, WaitCond2, shared, kernel,
              con, adc, process
  <1>1. ASSUME NEW p \in Proc, OpenForget(p) PROVE NoLostWakeup'
    BY <1>1 DEF OpenForget, Goto, InUser, HasFile, FreeFiles, NoSample
  <1>2. ASSUME NEW p \in Proc, ReadPoll(p) PROVE NoLostWakeup'
    BY <1>2 DEF ReadPoll, InUser, HasFile, Goto
  <1>3. ASSUME NEW p \in Proc, ReadWait(p) PROVE NoLostWakeup'
    BY <1>3 DEF ReadWait, InUser, HasFile, Goto
  <1>4. ASSUME NEW p \in Proc, IoctlInit(p) PROVE NoLostWakeup'
    BY <1>4 DEF IoctlInit, Issues, InUser, HasFile, Goto
  <1>5. ASSUME NEW p \in Proc, IoctlStart(p) PROVE NoLostWakeup'
    BY <1>5 DEF IoctlStart, Issues, InUser, HasFile, Goto
  <1>6. ASSUME NEW p \in Proc, IoctlStop(p) PROVE NoLostWakeup'
    BY <1>6 DEF IoctlStop, Issues, InUser, HasFile, ClkDisable, Return, Goto
  <1>7. ASSUME NEW p \in Proc, IoctlUnknown(p) PROVE NoLostWakeup'
    BY <1>7 DEF IoctlUnknown, Issues, InUser, HasFile, Return, Goto
  <1>8. ASSUME NEW p \in Proc, Close(p) PROVE NoLostWakeup'
    BY <1>8 DEF Close, InUser, HasFile, Goto, Return
  <1>9. ASSUME NEW p \in Proc, OpenRequestIrq(p) PROVE NoLostWakeup'
    BY <1>9 DEF OpenRequestIrq, Goto
  <1>10. ASSUME NEW p \in Proc, OpenFail(p) PROVE NoLostWakeup'
    BY <1>10 DEF OpenFail, Return, Goto
  <1>11. ASSUME NEW p \in Proc, OpenEnableClk(p) PROVE NoLostWakeup'
    BY <1>11 DEF OpenEnableClk, Return, Goto
  <1>12. ASSUME NEW p \in Proc, ReadFlag(p) PROVE NoLostWakeup'
    BY <1>12 DEF ReadFlag, Return, Goto
  <1>13. ASSUME NEW p \in Proc, ReadPrepare(p) PROVE NoLostWakeup'
    BY <1>13 DEF ReadPrepare, Goto
  <1>14. ASSUME NEW p \in Proc, ReadRecheck(p) PROVE NoLostWakeup'
    BY <1>14 DEF ReadRecheck, Goto
  <1>15. ASSUME NEW p \in Proc, ReadWoken(p) PROVE NoLostWakeup'
    BY <1>15 DEF ReadWoken, Goto
  <1>16. ASSUME NEW p \in Proc, ReadSignalled(p) PROVE NoLostWakeup'
    BY <1>16 DEF ReadSignalled, Return, Goto
  <1>17. ASSUME NEW p \in Proc, ReadCopy(p) PROVE NoLostWakeup'
    BY <1>17 DEF ReadCopy, Goto
  <1>18. ASSUME NEW p \in Proc, ReadFault(p) PROVE NoLostWakeup'
    BY <1>18 DEF ReadFault, Return, Goto
  <1>19. ASSUME NEW p \in Proc, ReadReset(p) PROVE NoLostWakeup'
    BY <1>19 DEF ReadReset, Return, Goto, NoSample
  <1>20. ASSUME NEW p \in Proc, IoctlInitMux(p) PROVE NoLostWakeup'
    BY <1>20 DEF IoctlInitMux, Return, Goto
  <1>21. ASSUME NEW p \in Proc, IoctlStartWrite(p) PROVE NoLostWakeup'
    BY <1>21 DEF IoctlStartWrite, Return, Goto
  <1>22. ASSUME NEW p \in Proc, ReleaseFreeIrq(p) PROVE NoLostWakeup'
    BY <1>22 DEF ReleaseFreeIrq, Goto
  <1>23. ASSUME NEW p \in Proc, ReleaseSyncIrq(p) PROVE NoLostWakeup'
    BY <1>23 DEF ReleaseSyncIrq, Goto
  <1>24. ASSUME NEW p \in Proc, ReleaseDisableClk(p) PROVE NoLostWakeup'
    BY <1>24 DEF ReleaseDisableClk, ClkDisable, Return, Goto
  <1>25. ASSUME NEW p \in Proc, NEW q \in Proc, Fork(p, q) PROVE NoLostWakeup'
    BY <1>25 DEF Fork, InUser, HasFile
  <1>26. CASE IsrClear
    BY <1>26 DEF IsrClear
  <1>27. CASE IsrStore
    BY <1>27 DEF IsrStore
  <1>28. CASE IsrWake
    BY <1>28 DEF IsrWake
  <1>29. CASE Finish
    BY <1>29 DEF Finish
  <1>30. CASE UNCHANGED vars
    BY <1>30 DEF vars
  <1>31. QED
    BY <1>1, <1>2, <1>3, <1>4, <1>5, <1>6, <1>7, <1>8, <1>9, <1>10, <1>11, <1>12, <1>13, <1>14, <1>15, <1>16, <1>17, <1>18, <1>19, <1>20, <1>21, <1>22, <1>23, <1>24, <1>25, <1>26, <1>27, <1>28, <1>29, <1>30
    DEF Next, Call, InCall, OpenStep, ReadStep, IoctlStep, ReleaseStep, Isr

(* A reader is never left asleep on the queue with its condition true: the *)
(* handler is then still to call wake_up (adc_handler, adc_read).          *)
THEOREM WakeupSafe == Spec => []NoLostWakeup
  <1>1. QED BY TypeCorrect, WakeupInit, WakeupNext, PTL DEF Spec

-----------------------------------------------------------------------------
(* A process inside a system call keeps its file.                          *)
InCallHasFile == \A p \in Proc : ~InUser(p) => HasFile(p)

(* Nobody shares the file of a process that is opening or releasing it.    *)
SoleHolder ==
    \A p, q \in Proc :
        /\ pc[p] \in {"open_irq", "open_clk", "release_irq", "release_sync",
                      "release_clk"}
        /\ fd[q] = fd[p]
        => q = p

(* ExclusiveSession is not inductive: that the process which frees the     *)
(* line is the last of its session needs SoleHolder.                       *)
SessionInv == InCallHasFile /\ SoleHolder /\ ExclusiveSession

LEMMA SessionInit == Init => SessionInv
  BY DEF Init, SessionInv, InCallHasFile, SoleHolder, ExclusiveSession, HasIrq,
         InUser, HasFile

LEMMA SessionNext == TypeOK /\ SessionInv /\ [Next]_vars => SessionInv'
  <1> SUFFICES ASSUME TypeOK, SessionInv, [Next]_vars PROVE SessionInv'
    OBVIOUS
  <1> USE FileAssumption DEF TypeOK, SessionInv, InCallHasFile, SoleHolder,
          ExclusiveSession, HasIrq, InUser, HasFile, shared, kernel, con, adc,
          process
  <1>1. ASSUME NEW p \in Proc, OpenForget(p) PROVE SessionInv'
    BY <1>1 DEF OpenForget, Goto, InUser, HasFile, FreeFiles, Holders
  <1>2. ASSUME NEW p \in Proc, ReadPoll(p) PROVE SessionInv'
    BY <1>2 DEF ReadPoll, InUser, HasFile, Goto
  <1>3. ASSUME NEW p \in Proc, ReadWait(p) PROVE SessionInv'
    BY <1>3 DEF ReadWait, InUser, HasFile, Goto
  <1>4. ASSUME NEW p \in Proc, IoctlInit(p) PROVE SessionInv'
    BY <1>4 DEF IoctlInit, Issues, InUser, HasFile, Goto
  <1>5. ASSUME NEW p \in Proc, IoctlStart(p) PROVE SessionInv'
    BY <1>5 DEF IoctlStart, Issues, InUser, HasFile, Goto
  <1>6. ASSUME NEW p \in Proc, IoctlStop(p) PROVE SessionInv'
    BY <1>6 DEF IoctlStop, Issues, InUser, HasFile, ClkDisable, Return, Goto
  <1>7. ASSUME NEW p \in Proc, IoctlUnknown(p) PROVE SessionInv'
    BY <1>7 DEF IoctlUnknown, Issues, InUser, HasFile, Return, Goto
  <1>8. ASSUME NEW p \in Proc, Close(p) PROVE SessionInv'
    BY <1>8 DEF Close, InUser, HasFile, Goto, Return, Holders
  <1>9. ASSUME NEW p \in Proc, OpenRequestIrq(p) PROVE SessionInv'
    BY <1>9 DEF OpenRequestIrq, Goto
  <1>10. ASSUME NEW p \in Proc, OpenFail(p) PROVE SessionInv'
    BY <1>10 DEF OpenFail, Return, Goto
  <1>11. ASSUME NEW p \in Proc, OpenEnableClk(p) PROVE SessionInv'
    BY <1>11 DEF OpenEnableClk, Return, Goto
  <1>12. ASSUME NEW p \in Proc, ReadFlag(p) PROVE SessionInv'
    BY <1>12 DEF ReadFlag, Return, Goto
  <1>13. ASSUME NEW p \in Proc, ReadPrepare(p) PROVE SessionInv'
    BY <1>13 DEF ReadPrepare, Goto
  <1>14. ASSUME NEW p \in Proc, ReadRecheck(p) PROVE SessionInv'
    BY <1>14 DEF ReadRecheck, Goto
  <1>15. ASSUME NEW p \in Proc, ReadWoken(p) PROVE SessionInv'
    BY <1>15 DEF ReadWoken, Goto
  <1>16. ASSUME NEW p \in Proc, ReadSignalled(p) PROVE SessionInv'
    BY <1>16 DEF ReadSignalled, Return, Goto
  <1>17. ASSUME NEW p \in Proc, ReadCopy(p) PROVE SessionInv'
    BY <1>17 DEF ReadCopy, Goto
  <1>18. ASSUME NEW p \in Proc, ReadFault(p) PROVE SessionInv'
    BY <1>18 DEF ReadFault, Return, Goto
  <1>19. ASSUME NEW p \in Proc, ReadReset(p) PROVE SessionInv'
    BY <1>19 DEF ReadReset, Return, Goto
  <1>20. ASSUME NEW p \in Proc, IoctlInitMux(p) PROVE SessionInv'
    BY <1>20 DEF IoctlInitMux, Return, Goto
  <1>21. ASSUME NEW p \in Proc, IoctlStartWrite(p) PROVE SessionInv'
    BY <1>21 DEF IoctlStartWrite, Return, Goto
  <1>22. ASSUME NEW p \in Proc, ReleaseFreeIrq(p) PROVE SessionInv'
    BY <1>22 DEF ReleaseFreeIrq, Goto
  <1>23. ASSUME NEW p \in Proc, ReleaseSyncIrq(p) PROVE SessionInv'
    BY <1>23 DEF ReleaseSyncIrq, Goto
  <1>24. ASSUME NEW p \in Proc, ReleaseDisableClk(p) PROVE SessionInv'
    BY <1>24 DEF ReleaseDisableClk, ClkDisable, Return, Goto
  <1>25. ASSUME NEW p \in Proc, NEW q \in Proc, Fork(p, q) PROVE SessionInv'
    BY <1>25 DEF Fork, InUser, HasFile
  <1>26. CASE IsrClear
    BY <1>26 DEF IsrClear
  <1>27. CASE IsrStore
    BY <1>27 DEF IsrStore
  <1>28. CASE IsrWake
    BY <1>28 DEF IsrWake
  <1>29. CASE Finish
    BY <1>29 DEF Finish
  <1>30. CASE UNCHANGED vars
    BY <1>30 DEF vars
  <1>31. QED
    BY <1>1, <1>2, <1>3, <1>4, <1>5, <1>6, <1>7, <1>8, <1>9, <1>10, <1>11, <1>12, <1>13, <1>14, <1>15, <1>16, <1>17, <1>18, <1>19, <1>20, <1>21, <1>22, <1>23, <1>24, <1>25, <1>26, <1>27, <1>28, <1>29, <1>30
    DEF Next, Call, InCall, OpenStep, ReadStep, IoctlStep, ReleaseStep, Isr

(* The interrupt line is registered exactly while a session is on, and     *)
(* there is one session at a time (adc_open, adc_release).                 *)
THEOREM SessionSafe == Spec => []ExclusiveSession
  <1>1. SessionInv => ExclusiveSession
    BY DEF SessionInv
  <1>2. QED BY <1>1, TypeCorrect, SessionInit, SessionNext, PTL DEF Spec

-----------------------------------------------------------------------------
(* The clock. Every step but the one that enables it and the last of       *)
(* release leaves the set of enabled files as it is.                       *)

LEMMA EnabledFinite == IsFiniteSet(EnabledFiles)
  BY FileAssumption, FS_Subset DEF EnabledFiles

LEMMA OneMore ==
    ASSUME NEW S, IsFiniteSet(S), NEW x, x \notin S
    PROVE  Cardinality(S \cup {x}) = Cardinality(S) + 1
  BY FS_AddElement

LEMMA OneLess ==
    ASSUME NEW S, IsFiniteSet(S), NEW x \in S
    PROVE  Cardinality(S \ {x}) = Cardinality(S) - 1
  BY FS_RemoveElement

LEMMA ClockInit == Init => ClockBalanced
  <1> SUFFICES ASSUME Init PROVE ClockBalanced
    OBVIOUS
  <1>1. EnabledFiles = {}
    BY FileAssumption DEF Init, EnabledFiles, Holders
  <1>2. QED BY <1>1, FS_EmptySet DEF Init, ClockBalanced

LEMMA ClockNext ==
    ASSUME TypeOK, SessionInv, ClockBalanced, [Next]_vars
    PROVE  ClockBalanced'
  <1> USE FileAssumption DEF TypeOK, SessionInv, InCallHasFile, SoleHolder,
          InUser, HasFile, Holders, ClockBalanced, shared, kernel, con, adc, process
  <1>1. ASSUME NEW p \in Proc, OpenForget(p) PROVE ClockBalanced'
    <2>1. EnabledFiles' = EnabledFiles /\ clk' = clk
      BY <1>1 DEF OpenForget, Goto, FreeFiles, EnabledFiles
    <2>2. QED BY <2>1
  <1>2. ASSUME NEW p \in Proc, ReadPoll(p) PROVE ClockBalanced'
    <2>1. EnabledFiles' = EnabledFiles /\ clk' = clk
      BY <1>2 DEF ReadPoll, Goto, EnabledFiles
    <2>2. QED BY <2>1
  <1>3. ASSUME NEW p \in Proc, ReadWait(p) PROVE ClockBalanced'
    <2>1. EnabledFiles' = EnabledFiles /\ clk' = clk
      BY <1>3 DEF ReadWait, Goto, EnabledFiles
    <2>2. QED BY <2>1
  <1>4. ASSUME NEW p \in Proc, IoctlInit(p) PROVE ClockBalanced'
    <2>1. EnabledFiles' = EnabledFiles /\ clk' = clk
      BY <1>4 DEF IoctlInit, Issues, Goto, EnabledFiles
    <2>2. QED BY <2>1
  <1>5. ASSUME NEW p \in Proc, IoctlStart(p) PROVE ClockBalanced'
    <2>1. EnabledFiles' = EnabledFiles /\ clk' = clk
      BY <1>5 DEF IoctlStart, Issues, Goto, EnabledFiles
    <2>2. QED BY <2>1
  <1>6. ASSUME NEW p \in Proc, IoctlStop(p) PROVE ClockBalanced'
    <2>1. EnabledFiles' = EnabledFiles /\ clk' <= clk /\ "STOP" \in Command
      BY <1>6 DEF IoctlStop, Issues, ClkDisable, Return, Goto, EnabledFiles
    <2>2. Cardinality(EnabledFiles) \in Nat /\ clk' \in Nat
      BY <1>6, EnabledFinite, FS_CardinalityType DEF IoctlStop, ClkDisable
    <2>3. QED BY <2>1, <2>2
  <1>7. ASSUME NEW p \in Proc, IoctlUnknown(p) PROVE ClockBalanced'
    <2>1. EnabledFiles' = EnabledFiles /\ clk' = clk
      BY <1>7 DEF IoctlUnknown, Issues, Return, Goto, EnabledFiles
    <2>2. QED BY <2>1
  <1>8. ASSUME NEW p \in Proc, Close(p) PROVE ClockBalanced'
    <2>1. EnabledFiles' = EnabledFiles /\ clk' = clk
      BY <1>8 DEF Close, Goto, Return, EnabledFiles
    <2>2. QED BY <2>1
  <1>9. ASSUME NEW p \in Proc, OpenRequestIrq(p) PROVE ClockBalanced'
    <2>1. EnabledFiles' = EnabledFiles /\ clk' = clk
      BY <1>9 DEF OpenRequestIrq, Goto, EnabledFiles
    <2>2. QED BY <2>1
  <1>10. ASSUME NEW p \in Proc, OpenFail(p) PROVE ClockBalanced'
    <2>1. EnabledFiles' = EnabledFiles /\ clk' = clk
      BY <1>10 DEF OpenFail, Return, Goto, EnabledFiles
    <2>2. QED BY <2>1
  <1>11. ASSUME NEW p \in Proc, OpenEnableClk(p) PROVE ClockBalanced'
    <2>1. fd[p] \in File /\ fd[p] \notin EnabledFiles
      BY <1>11 DEF OpenEnableClk, EnabledFiles
    <2>2. EnabledFiles' = EnabledFiles \cup {fd[p]} /\ clk' = clk + 1
      BY <1>11, <2>1 DEF OpenEnableClk, Return, Goto, EnabledFiles
    <2>3. Cardinality(EnabledFiles) \in Nat
      BY EnabledFinite, FS_CardinalityType
    <2>4. Cardinality(EnabledFiles \cup {fd[p]}) = Cardinality(EnabledFiles) + 1
      BY <2>1, EnabledFinite, OneMore
    <2>5. QED BY <2>2, <2>3, <2>4
  <1>12. ASSUME NEW p \in Proc, ReadFlag(p) PROVE ClockBalanced'
    <2>1. EnabledFiles' = EnabledFiles /\ clk' = clk
      BY <1>12 DEF ReadFlag, Return, Goto, EnabledFiles
    <2>2. QED BY <2>1
  <1>13. ASSUME NEW p \in Proc, ReadPrepare(p) PROVE ClockBalanced'
    <2>1. EnabledFiles' = EnabledFiles /\ clk' = clk
      BY <1>13 DEF ReadPrepare, Goto, EnabledFiles
    <2>2. QED BY <2>1
  <1>14. ASSUME NEW p \in Proc, ReadRecheck(p) PROVE ClockBalanced'
    <2>1. EnabledFiles' = EnabledFiles /\ clk' = clk
      BY <1>14 DEF ReadRecheck, Goto, EnabledFiles
    <2>2. QED BY <2>1
  <1>15. ASSUME NEW p \in Proc, ReadWoken(p) PROVE ClockBalanced'
    <2>1. EnabledFiles' = EnabledFiles /\ clk' = clk
      BY <1>15 DEF ReadWoken, Goto, EnabledFiles
    <2>2. QED BY <2>1
  <1>16. ASSUME NEW p \in Proc, ReadSignalled(p) PROVE ClockBalanced'
    <2>1. EnabledFiles' = EnabledFiles /\ clk' = clk
      BY <1>16 DEF ReadSignalled, Return, Goto, EnabledFiles
    <2>2. QED BY <2>1
  <1>17. ASSUME NEW p \in Proc, ReadCopy(p) PROVE ClockBalanced'
    <2>1. EnabledFiles' = EnabledFiles /\ clk' = clk
      BY <1>17 DEF ReadCopy, Goto, EnabledFiles
    <2>2. QED BY <2>1
  <1>18. ASSUME NEW p \in Proc, ReadFault(p) PROVE ClockBalanced'
    <2>1. EnabledFiles' = EnabledFiles /\ clk' = clk
      BY <1>18 DEF ReadFault, Return, Goto, EnabledFiles
    <2>2. QED BY <2>1
  <1>19. ASSUME NEW p \in Proc, ReadReset(p) PROVE ClockBalanced'
    <2>1. EnabledFiles' = EnabledFiles /\ clk' = clk
      BY <1>19 DEF ReadReset, Return, Goto, EnabledFiles
    <2>2. QED BY <2>1
  <1>20. ASSUME NEW p \in Proc, IoctlInitMux(p) PROVE ClockBalanced'
    <2>1. EnabledFiles' = EnabledFiles /\ clk' = clk
      BY <1>20 DEF IoctlInitMux, Return, Goto, EnabledFiles
    <2>2. QED BY <2>1
  <1>21. ASSUME NEW p \in Proc, IoctlStartWrite(p) PROVE ClockBalanced'
    <2>1. EnabledFiles' = EnabledFiles /\ clk' = clk
      BY <1>21 DEF IoctlStartWrite, Return, Goto, EnabledFiles
    <2>2. QED BY <2>1
  <1>22. ASSUME NEW p \in Proc, ReleaseFreeIrq(p) PROVE ClockBalanced'
    <2>1. EnabledFiles' = EnabledFiles /\ clk' = clk
      BY <1>22 DEF ReleaseFreeIrq, Goto, EnabledFiles
    <2>2. QED BY <2>1
  <1>23. ASSUME NEW p \in Proc, ReleaseSyncIrq(p) PROVE ClockBalanced'
    <2>1. EnabledFiles' = EnabledFiles /\ clk' = clk
      BY <1>23 DEF ReleaseSyncIrq, Goto, EnabledFiles
    <2>2. QED BY <2>1
  <1>24. ASSUME NEW p \in Proc, ReleaseDisableClk(p) PROVE ClockBalanced'
    <2>1. fd[p] \in EnabledFiles
      BY <1>24 DEF ReleaseDisableClk, EnabledFiles
    <2>2. Cardinality(EnabledFiles) \in Nat /\ Cardinality(EnabledFiles) > 0
      BY <2>1, EnabledFinite, FS_EmptySet, FS_CardinalityType
    <2>3. clk' = IF clk = 0 THEN 0 ELSE clk - 1
      BY <1>24, <2>2 DEF ReleaseDisableClk, ClkDisable
    <2>4. EnabledFiles' = EnabledFiles \ {fd[p]}
      BY <1>24, <2>1 DEF ReleaseDisableClk, Return, Goto, EnabledFiles
    <2>5. Cardinality(EnabledFiles \ {fd[p]}) = Cardinality(EnabledFiles) - 1
      BY <2>1, EnabledFinite, OneLess
    <2>6. QED BY <2>2, <2>3, <2>4, <2>5
  <1>25. ASSUME NEW p \in Proc, NEW q \in Proc, Fork(p, q) PROVE ClockBalanced'
    <2>1. EnabledFiles' = EnabledFiles /\ clk' = clk
      BY <1>25 DEF Fork, EnabledFiles
    <2>2. QED BY <2>1
  <1>26. CASE IsrClear
    <2>1. EnabledFiles' = EnabledFiles /\ clk' = clk
      BY <1>26 DEF IsrClear, EnabledFiles
    <2>2. QED BY <2>1
  <1>27. CASE IsrStore
    <2>1. EnabledFiles' = EnabledFiles /\ clk' = clk
      BY <1>27 DEF IsrStore, EnabledFiles
    <2>2. QED BY <2>1
  <1>28. CASE IsrWake
    <2>1. EnabledFiles' = EnabledFiles /\ clk' = clk
      BY <1>28 DEF IsrWake, EnabledFiles
    <2>2. QED BY <2>1
  <1>29. CASE Finish
    <2>1. EnabledFiles' = EnabledFiles /\ clk' = clk
      BY <1>29 DEF Finish, EnabledFiles
    <2>2. QED BY <2>1
  <1>30. CASE UNCHANGED vars
    BY <1>30 DEF vars, EnabledFiles
  <1>31. QED
    BY <1>1, <1>2, <1>3, <1>4, <1>5, <1>6, <1>7, <1>8, <1>9, <1>10, <1>11, <1>12, <1>13, <1>14, <1>15, <1>16, <1>17, <1>18, <1>19, <1>20, <1>21, <1>22, <1>23, <1>24, <1>25, <1>26, <1>27, <1>28, <1>29, <1>30
    DEF Next, Call, InCall, OpenStep, ReadStep, IoctlStep, ReleaseStep, Isr

(* The clock's count follows the open files: never above their number, and *)
(* at it while STOP is not used, so that no close leaves the clock on and  *)
(* no release takes it from the next session (adc_open, adc_release).      *)
THEOREM ClockSafe == Spec => []ClockBalanced
  <1>1. TypeOK /\ SessionInv /\ ClockBalanced /\ [Next]_vars => ClockBalanced'
    BY ClockNext
  <1>2. QED
    BY <1>1, ClockInit, TypeCorrect, SessionInit, SessionNext, PTL DEF Spec

-----------------------------------------------------------------------------
(* START's read-modify-write. Without fork a file has one holder, so the   *)
(* word a START has read is still what ADC_CON holds when it writes.       *)
OneHolder == \A p, q \in Proc : HasFile(p) /\ fd[p] = fd[q] => p = q

StartInv ==
    ~MayFork =>
        /\ OneHolder
        /\ \A p \in Proc : pc[p] = "start_write" => reg_val[p].config = config

LEMMA StartInit == Init => StartInv
  BY DEF Init, StartInv, OneHolder, HasFile

LEMMA StartNext ==
    TypeOK /\ SessionInv /\ StartInv /\ [Next]_vars => StartInv'
  <1> SUFFICES ASSUME TypeOK, SessionInv, StartInv, ~MayFork, [Next]_vars
               PROVE  StartInv'
    BY DEF StartInv
  <1> USE FileAssumption DEF TypeOK, SessionInv, InCallHasFile, SoleHolder,
          ExclusiveSession, HasIrq, InUser, HasFile, StartInv, OneHolder,
          shared, kernel, con, adc, process
  <1>1. ASSUME NEW p \in Proc, OpenForget(p) PROVE StartInv'
    BY <1>1 DEF OpenForget, Goto, InUser, HasFile, FreeFiles, Holders
  <1>2. ASSUME NEW p \in Proc, ReadPoll(p) PROVE StartInv'
    BY <1>2 DEF ReadPoll, InUser, HasFile, Goto
  <1>3. ASSUME NEW p \in Proc, ReadWait(p) PROVE StartInv'
    BY <1>3 DEF ReadWait, InUser, HasFile, Goto
  <1>4. ASSUME NEW p \in Proc, IoctlInit(p) PROVE StartInv'
    BY <1>4 DEF IoctlInit, Issues, InUser, HasFile, Goto
  <1>5. ASSUME NEW p \in Proc, IoctlStart(p) PROVE StartInv'
    BY <1>5 DEF IoctlStart, Issues, InUser, HasFile, Goto
  <1>6. ASSUME NEW p \in Proc, IoctlStop(p) PROVE StartInv'
    BY <1>6 DEF IoctlStop, Issues, InUser, HasFile, ClkDisable, Return, Goto
  <1>7. ASSUME NEW p \in Proc, IoctlUnknown(p) PROVE StartInv'
    BY <1>7 DEF IoctlUnknown, Issues, InUser, HasFile, Return, Goto
  <1>8. ASSUME NEW p \in Proc, Close(p) PROVE StartInv'
    BY <1>8 DEF Close, InUser, HasFile, Goto, Return, Holders
  <1>9. ASSUME NEW p \in Proc, OpenRequestIrq(p) PROVE StartInv'
    BY <1>9 DEF OpenRequestIrq, Goto
  <1>10. ASSUME NEW p \in Proc, OpenFail(p) PROVE StartInv'
    BY <1>10 DEF OpenFail, Return, Goto
  <1>11. ASSUME NEW p \in Proc, OpenEnableClk(p) PROVE StartInv'
    BY <1>11 DEF OpenEnableClk, Return, Goto
  <1>12. ASSUME NEW p \in Proc, ReadFlag(p) PROVE StartInv'
    BY <1>12 DEF ReadFlag, Return, Goto
  <1>13. ASSUME NEW p \in Proc, ReadPrepare(p) PROVE StartInv'
    BY <1>13 DEF ReadPrepare, Goto
  <1>14. ASSUME NEW p \in Proc, ReadRecheck(p) PROVE StartInv'
    BY <1>14 DEF ReadRecheck, Goto
  <1>15. ASSUME NEW p \in Proc, ReadWoken(p) PROVE StartInv'
    BY <1>15 DEF ReadWoken, Goto
  <1>16. ASSUME NEW p \in Proc, ReadSignalled(p) PROVE StartInv'
    BY <1>16 DEF ReadSignalled, Return, Goto
  <1>17. ASSUME NEW p \in Proc, ReadCopy(p) PROVE StartInv'
    BY <1>17 DEF ReadCopy, Goto
  <1>18. ASSUME NEW p \in Proc, ReadFault(p) PROVE StartInv'
    BY <1>18 DEF ReadFault, Return, Goto
  <1>19. ASSUME NEW p \in Proc, ReadReset(p) PROVE StartInv'
    BY <1>19 DEF ReadReset, Return, Goto
  <1>20. ASSUME NEW p \in Proc, IoctlInitMux(p) PROVE StartInv'
    BY <1>20 DEF IoctlInitMux, Return, Goto
  <1>21. ASSUME NEW p \in Proc, IoctlStartWrite(p) PROVE StartInv'
    BY <1>21 DEF IoctlStartWrite, Return, Goto
  <1>22. ASSUME NEW p \in Proc, ReleaseFreeIrq(p) PROVE StartInv'
    BY <1>22 DEF ReleaseFreeIrq, Goto
  <1>23. ASSUME NEW p \in Proc, ReleaseSyncIrq(p) PROVE StartInv'
    BY <1>23 DEF ReleaseSyncIrq, Goto
  <1>24. ASSUME NEW p \in Proc, ReleaseDisableClk(p) PROVE StartInv'
    BY <1>24 DEF ReleaseDisableClk, ClkDisable, Return, Goto
  <1>25. ASSUME NEW p \in Proc, NEW q \in Proc, Fork(p, q) PROVE StartInv'
    BY <1>25 DEF Fork, InUser, HasFile
  <1>26. CASE IsrClear
    BY <1>26 DEF IsrClear
  <1>27. CASE IsrStore
    BY <1>27 DEF IsrStore
  <1>28. CASE IsrWake
    BY <1>28 DEF IsrWake
  <1>29. CASE Finish
    BY <1>29 DEF Finish
  <1>30. CASE UNCHANGED vars
    BY <1>30 DEF vars
  <1>31. QED
    BY <1>1, <1>2, <1>3, <1>4, <1>5, <1>6, <1>7, <1>8, <1>9, <1>10, <1>11, <1>12, <1>13, <1>14, <1>15, <1>16, <1>17, <1>18, <1>19, <1>20, <1>21, <1>22, <1>23, <1>24, <1>25, <1>26, <1>27, <1>28, <1>29, <1>30
    DEF Next, Call, InCall, OpenStep, ReadStep, IoctlStep, ReleaseStep, Isr

(* Without fork no START undoes the configuration an INIT wrote            *)
(* (adc_unlocked_ioctl).                                                   *)
THEOREM ConfigSafe == Spec => ConfigSticky
  <1>1. StartInv /\ [Next]_vars => [~MayFork /\ config => config']_config
    <2> SUFFICES ASSUME StartInv, [Next]_vars, ~MayFork, config PROVE config'
      OBVIOUS
    <2> USE DEF shared, kernel, con, adc, process
    <2>1. ASSUME NEW p \in Proc, Call(p) PROVE config'
      BY <2>1 DEF Call, OpenForget, ReadPoll, ReadWait, IoctlInit, IoctlStart,
         IoctlStop, IoctlUnknown, Close, Fork
    <2>2. ASSUME NEW p \in Proc, IoctlStartWrite(p) PROVE config'
      BY <2>2 DEF IoctlStartWrite, StartInv
    <2>3. ASSUME NEW p \in Proc, InCall(p), ~IoctlStartWrite(p) PROVE config'
      BY <2>3 DEF InCall, OpenStep, OpenRequestIrq, OpenFail, OpenEnableClk,
         ReadStep, ReadFlag, ReadPrepare, ReadRecheck, ReadWoken,
         ReadSignalled, ReadCopy, ReadFault, ReadReset, IoctlStep,
         IoctlInitMux, ReleaseStep, ReleaseFreeIrq, ReleaseSyncIrq,
         ReleaseDisableClk
    <2>4. CASE Isr \/ Finish \/ UNCHANGED vars
      BY <2>4 DEF Isr, IsrClear, IsrStore, IsrWake, Finish, vars
    <2>5. QED BY <2>1, <2>2, <2>3, <2>4 DEF Next
  <1>2. QED
    BY <1>1, TypeCorrect, SessionInit, SessionNext, StartInit, StartNext, PTL
    DEF Spec, ConfigSticky


-----------------------------------------------------------------------------
(* The handler and the queue. A handler that runs while the line is free   *)
(* is waited for; who is on the queue is at the steps that take it off.    *)
HandlerInv ==
    /\ isr # "idle" => irqHeld \/ \E p \in Proc : pc[p] = "release_sync"
    /\ \A p \in waitq : pc[p] \in {"read_recheck", "read_asleep"}

LEMMA HandlerNext == TypeOK /\ HandlerInv /\ [Next]_vars => HandlerInv'
  <1> SUFFICES ASSUME TypeOK, HandlerInv, [Next]_vars PROVE HandlerInv'
    OBVIOUS
  <1> USE DEF TypeOK, HandlerInv, InUser, Goto, Return, shared, kernel, con, adc,
          process
  <1>1. ASSUME NEW p \in Proc, Call(p) PROVE HandlerInv'
    BY <1>1 DEF Call, OpenForget, ReadPoll, ReadWait, IoctlInit, IoctlStart,
       IoctlStop, IoctlUnknown, Close, Fork, Issues
  <1>2. ASSUME NEW p \in Proc, OpenStep(p) \/ IoctlStep(p) PROVE HandlerInv'
    BY <1>2 DEF OpenStep, OpenRequestIrq, OpenFail, OpenEnableClk, IoctlStep,
       IoctlInitMux, IoctlStartWrite
  <1>3. ASSUME NEW p \in Proc, ReadStep(p) PROVE HandlerInv'
    BY <1>3 DEF ReadStep, ReadFlag, ReadPrepare, ReadRecheck, ReadWoken,
       ReadSignalled, ReadCopy, ReadFault, ReadReset
  <1>4. ASSUME NEW p \in Proc, ReleaseStep(p) PROVE HandlerInv'
    BY <1>4 DEF ReleaseStep, ReleaseFreeIrq, ReleaseSyncIrq, ReleaseDisableClk
  <1>5. CASE Isr \/ Finish \/ UNCHANGED vars
    BY <1>5 DEF Isr, IsrClear, IsrStore, IsrWake, Finish, vars
  <1>6. QED
    BY <1>1, <1>2, <1>3, <1>4, <1>5 DEF Next, InCall

LEMMA HandlerHolds == Spec => [](SessionInv /\ HandlerInv)
  <1>1. Init => HandlerInv
    BY DEF Init, HandlerInv
  <1>2. QED
    BY <1>1, HandlerNext, TypeCorrect, SessionInit, SessionNext, PTL DEF Spec

(* The interrupt handler runs only in a session: whoever closes the device *)
(* while a conversion is on, whichever other opens follow (adc_release).   *)
THEOREM HandlerSafe == Spec => []HandlerInSession
  <1>1. SessionInv /\ HandlerInv => HandlerInSession
    BY DEF SessionInv, HandlerInv, HandlerInSession, ExclusiveSession, HasIrq,
       InCallHasFile, InUser
  <1>2. QED BY <1>1, HandlerHolds, PTL
=============================================================================
