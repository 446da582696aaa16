----------------------------- MODULE AdcAppProofs -----------------------------
(***************************************************************************)
(* The ADC's test programs and its driver, for any number of programs and  *)
(* files and any samples.                                                  *)
(***************************************************************************)
EXTENDS AdcApp, AdcDriverProofs

(* The programs only make calls the driver of AdcDriver allows any process. *)
LEMMA AppStepIsDriverStep == [AppNext]_allVars => [Next]_vars
<1> SUFFICES ASSUME [AppNext]_allVars PROVE [Next]_vars
  OBVIOUS
<1>1. ASSUME NEW p \in Proc, AppCall(p) PROVE Call(p) \/ UNCHANGED vars
  BY <1>1 DEF AppCall, AppOpen, AppOpenFailed, AppIoctlInit, AppIoctlStart,
     AppRead, AppSkip, AppPrint, AppClose, AppDead, Call
<1>2. ASSUME NEW p \in Proc, AppInCall(p) PROVE InCall(p)
  BY <1>2 DEF AppInCall, InCall, OpenStep, ReadStep
<1>3. ASSUME NEW p \in Proc, AppKill(p) \/ AppRestart(p) PROVE UNCHANGED vars
  BY <1>3 DEF AppKill, AppRestart
<1> QED
  BY <1>1, <1>2, <1>3 DEF AppNext, Next, AppIsr, AppFinish, allVars

(* Whatever is proved of the driver under any calls holds under those the  *)
(* test programs make, killed and started again as they may be.            *)
THEOREM AppIsDriver == AppSpec => Spec
<1>1. AppInit => Init
  BY DEF AppInit
<1> QED
  BY <1>1, AppStepIsDriverStep, PTL DEF AppSpec, Spec

-----------------------------------------------------------------------------
LEMMA AppTypeNext ==
    ASSUME AppTypeOK, TypeOK', [AppNext]_allVars PROVE AppTypeOK'
<1> USE DEF AppTypeOK, AppGoto, AppStep, appVars
<1>1. ASSUME NEW p \in Proc, AppCall(p), ~AppPrint(p) PROVE AppTypeOK'
  BY <1>1 DEF AppCall, AppOpen, AppOpenFailed, AppIoctlInit, AppIoctlStart,
     AppRead, AppSkip, AppClose, AppDead
<1>2. ASSUME NEW p \in Proc, AppPrint(p) PROVE AppTypeOK'
  BY <1>2 DEF AppPrint, TypeOK
<1>3. ASSUME NEW p \in Proc, AppInCall(p) PROVE AppTypeOK'
  BY <1>3 DEF AppInCall
<1>4. ASSUME NEW p \in Proc, AppKill(p) \/ AppRestart(p) PROVE AppTypeOK'
  BY <1>4 DEF AppKill, AppRestart
<1>5. CASE AppIsr \/ AppFinish \/ UNCHANGED allVars
  BY <1>5 DEF AppIsr, AppFinish, allVars
<1> QED
  BY <1>1, <1>2, <1>3, <1>4, <1>5 DEF AppNext

(* The programs and the driver keep their types under every interleaving   *)
(* of calls, kills, restarts and interrupts (main, adc_driver.c).          *)
THEOREM AppTypeCorrect == AppSpec => []AppTypeOK
<1>1. AppInit => AppTypeOK
  BY TypeInit DEF AppInit, AppTypeOK, AppStep
<1>2. AppTypeOK /\ TypeOK' /\ [AppNext]_allVars => AppTypeOK'
  BY AppTypeNext
<1> QED
  BY <1>1, <1>2, AppIsDriver, TypeCorrect, PTL DEF AppSpec

-----------------------------------------------------------------------------
(* INIT comes before START in every program, and no START undoes it: the   *)
(* word it writes back was read after INIT.                                *)
TunedInv ==
    /\ \A p \in Proc : pc[p] = "init_mux" => config
    /\ \A p \in Proc : pc[p] = "start_write" => reg_val[p].config /\ config /\ mux
    /\ \A p \in Proc : app[p] \in {"start", "read", "print"} /\ pc[p] # "init_mux"
                          => config /\ mux
    /\ Tuned

LEMMA TunedNext ==
    ASSUME AppTypeOK, TunedInv, [AppNext]_allVars PROVE TunedInv'
<1> USE DEF AppTypeOK, TypeOK, AppGoto, Goto, Return, At, InUser, TunedInv, Tuned,
            appVars, shared, kernel, con, adc, process
<1>1. ASSUME NEW p \in Proc, AppOpen(p) PROVE TunedInv'
  BY <1>1 DEF AppOpen, OpenForget
<1>2. ASSUME NEW p \in Proc, AppIoctlInit(p) PROVE TunedInv'
  BY <1>2 DEF AppIoctlInit, IoctlInit
<1>3. ASSUME NEW p \in Proc, AppIoctlStart(p) PROVE TunedInv'
  BY <1>3 DEF AppIoctlStart, IoctlStart
<1>4. ASSUME NEW p \in Proc, AppRead(p) PROVE TunedInv'
  BY <1>4 DEF AppRead, ReadPoll, ReadWait
<1>5. ASSUME NEW p \in Proc, AppOpenFailed(p) \/ AppSkip(p) \/ AppPrint(p)
                             \/ AppDead(p) \/ AppKill(p) \/ AppRestart(p)
      PROVE  TunedInv'
  BY <1>5 DEF AppOpenFailed, AppSkip, AppPrint, AppDead, AppKill, AppRestart, vars
<1>6. ASSUME NEW p \in Proc, AppClose(p) PROVE TunedInv'
  BY <1>6 DEF AppClose, Close
<1>7. ASSUME NEW p \in Proc, IoctlStep(p), UNCHANGED appVars PROVE TunedInv'
  BY <1>7 DEF IoctlStep, IoctlInitMux, IoctlStartWrite
<1>8. ASSUME NEW p \in Proc, OpenStep(p) \/ ReleaseStep(p), UNCHANGED appVars
      PROVE  TunedInv'
  BY <1>8 DEF OpenStep, OpenRequestIrq, OpenFail, OpenEnableClk, ReleaseStep,
     ReleaseFreeIrq, ReleaseSyncIrq, ReleaseDisableClk
<1>9. ASSUME NEW p \in Proc, ReadStep(p), UNCHANGED appVars PROVE TunedInv'
  BY <1>9 DEF ReadStep, ReadFlag, ReadPrepare, ReadRecheck, ReadWoken,
     ReadSignalled, ReadCopy, ReadFault, ReadReset
<1>10. CASE AppIsr \/ AppFinish \/ UNCHANGED allVars
  BY <1>10 DEF AppIsr, Isr, IsrClear, IsrStore, IsrWake, AppFinish, Finish,
     allVars, vars
<1> QED
  BY <1>1, <1>2, <1>3, <1>4, <1>5, <1>6, <1>7, <1>8, <1>9, <1>10
  DEF AppNext, AppCall, AppInCall, OpenStep, ReadStep

(* No conversion runs on a converter that is not configured and set to the *)
(* driver's channel, whichever programs are killed, refused and started    *)
(* again (main, adc_unlocked_ioctl).                                       *)
THEOREM TunedSafe == AppSpec => []Tuned
<1>1. AppInit => TunedInv
  BY DEF AppInit, Init, TunedInv, Tuned
<1>2. AppTypeOK /\ TunedInv /\ [AppNext]_allVars => TunedInv'
  BY TunedNext
<1>3. TunedInv => Tuned
  BY DEF TunedInv
<1> QED
  BY <1>1, <1>2, <1>3, AppTypeCorrect, PTL DEF AppSpec

-----------------------------------------------------------------------------
(* Every read blocks: version 1's do, version 2's if no file polls.        *)
Blocks == Version = 1 \/ NonBlocking = {}

(* One program whose reads block: where the sample is at each point        *)
(* of the program's loop. Nothing is under way outside a request; during   *)
(* one the conversion is in exactly one place; the read takes it out.      *)
Nothing == conv = "idle" /\ ~irqPending /\ isr # "store" /\ adc_data = NoSample
Stored  == conv = "idle" /\ ~irqPending /\ isr # "store" /\ adc_data = dat
OnItsWay ==
    /\ adc_data = NoSample
    /\ \/ conv = "busy" /\ ~irqPending /\ isr # "store"
       \/ conv = "idle" /\ irqPending /\ isr # "store"
       \/ conv = "idle" /\ ~irqPending /\ isr = "store"

Between(p) ==
    \/ app[p] \in {"open", "exit"} /\ pc[p] = "user"
    \/ app[p] = "init" /\ pc[p] \in {"user", "open_irq", "open_clk"}
    \/ app[p] = "start" /\ pc[p] \in {"user", "init_mux"}
    \/ app[p] = "read" /\ pc[p] = "start_write"

Waiting(p) ==
    \/ app[p] = "read" /\ pc[p] = "user"
    \/ app[p] = "print" /\ pc[p] \in {"read_prepare", "read_recheck", "read_asleep"}

Loop(p) ==
    \/ Between(p) /\ Nothing
    \/ Waiting(p) /\ (OnItsWay \/ Stored)
    \/ app[p] = "print" /\ pc[p] = "read_copy" /\ Stored
    \/ app[p] = "print" /\ pc[p] = "read_reset" /\ Stored /\ ubuf[p] = dat
    \/ app[p] = "print" /\ pc[p] = "user" /\ Nothing /\ ubuf[p] = dat /\ ret[p] = "ok"

OneProgram == Blocks /\ Proc = {Only} /\ ~MayKill

(* A step keeps the loop, and is a request, the conversion, a delivery or  *)
(* none of them.                                                           *)
AbstractStep == [Abstract!Next]_(Abstract!vars)

LEMMA LoopStep ==
    ASSUME OneProgram, AppTypeOK, Loop(Only), [AppNext]_allVars
    PROVE  Loop(Only)' /\ AbstractStep
<1> DEFINE p == Only
           Goal == Loop(p)' /\ AbstractStep
<1> USE DEF OneProgram, Blocks, AppTypeOK, TypeOK, AppGoto, Goto, Return, At, InUser, Loop,
            Between, Waiting, Nothing, Stored, OnItsWay, Asked, AbstractPhase,
            AbstractStep, Abstract!Next, Abstract!vars, Abstract!Request,
            Abstract!Convert, Abstract!Deliver, Abstract!Sample, Sample,
            appVars, shared, kernel, con, adc, process
<1>0. p \in Proc
  OBVIOUS
<1>1. CASE AppOpen(p) \/ AppIoctlInit(p) \/ AppIoctlStart(p)
  BY <1>0, <1>1 DEF AppOpen, OpenForget, AppIoctlInit, IoctlInit, AppIoctlStart, IoctlStart
<1>2. CASE AppRead(p)
  BY <1>0, <1>2 DEF AppRead, ReadPoll, ReadWait, Polls, Ready, WaitCond1, WaitCond2, NoSample
<1>3. CASE AppOpenFailed(p) \/ AppSkip(p) \/ AppDead(p) \/ AppRestart(p)
  BY <1>0, <1>3 DEF AppOpenFailed, AppSkip, AppDead, AppRestart, vars
<1>4. CASE AppPrint(p)
  BY <1>0, <1>4 DEF AppPrint, vars
<1>5. CASE AppKill(p) \/ AppClose(p)
  BY <1>0, <1>5 DEF AppKill, AppClose
<1>6. CASE (OpenStep(p) \/ ReleaseStep(p)) /\ UNCHANGED appVars
  BY <1>0, <1>6 DEF OpenStep, OpenRequestIrq, OpenFail, OpenEnableClk, ReleaseStep,
     ReleaseFreeIrq, ReleaseSyncIrq, ReleaseDisableClk
<1>7. CASE IoctlInitMux(p) /\ UNCHANGED appVars
  BY <1>0, <1>7 DEF IoctlInitMux
<1>8. CASE IoctlStartWrite(p) /\ UNCHANGED appVars
  BY <1>0, <1>8 DEF IoctlStartWrite
<1>9. CASE (ReadFlag(p) \/ ReadPrepare(p) \/ ReadRecheck(p) \/ ReadWoken(p))
           /\ UNCHANGED appVars
  BY <1>0, <1>9 DEF ReadFlag, ReadPrepare, ReadRecheck, ReadWoken, Ready, WaitCond1,
     WaitCond2, NoSample
<1>10. CASE (ReadCopy(p) \/ ReadReset(p)) /\ UNCHANGED appVars
  BY <1>0, <1>10 DEF ReadCopy, ReadReset
<1>11. CASE AppIsr
  BY <1>0, <1>11 DEF AppIsr, Isr, IsrClear, IsrStore, IsrWake
<1>12. CASE AppFinish
  BY <1>0, <1>12 DEF AppFinish, Finish
<1>13. CASE UNCHANGED allVars
  BY <1>0, <1>13 DEF allVars, vars
<1>14. ~(app[p] = "dying")
  OBVIOUS
<1>15. [AppNext]_allVars => \/ AppCall(p) \/ AppInCall(p) \/ AppKill(p) \/ AppRestart(p)
                            \/ AppIsr \/ AppFinish \/ UNCHANGED allVars
  BY DEF AppNext
<1> HIDE DEF Goal
<1> QED
  BY <1>1, <1>2, <1>3, <1>4, <1>5, <1>6, <1>7, <1>8, <1>9, <1>10, <1>11, <1>12,
     <1>13, <1>14, <1>15
  DEF AppCall, AppInCall, OpenStep, IoctlStep, Goal

LEMMA LoopHolds ==
    ASSUME OneProgram PROVE AppSpec => []Loop(Only)
<1>1. AppInit => Loop(Only)
  BY DEF AppInit, Init, Loop, Between, Nothing, OneProgram
<1>2. AppTypeOK /\ Loop(Only) /\ [AppNext]_allVars => Loop(Only)'
  BY LoopStep
<1> QED
  BY <1>1, <1>2, AppTypeCorrect, PTL DEF AppSpec

(* One program whose reads block takes only the steps of a Sampler:        *)
(* each value printed is the one converted for the request before it, none *)
(* is printed twice or lost (main, adc_read, adc_handler).                 *)
THEOREM SamplerSafe ==
    ASSUME OneProgram
    PROVE  AppSpec => Abstract!Init /\ [][Abstract!Next]_(Abstract!vars)
<1>1. AppInit => Abstract!Init
  BY SampleAssumption
  DEF AppInit, Init, Abstract!Init, AbstractPhase, Asked, OneProgram, Abstract!Sample,
      NoSample, Abstract!NoSample
<1>2. AppTypeOK /\ Loop(Only) /\ [AppNext]_allVars
          => [Abstract!Next]_(Abstract!vars)
  BY LoopStep DEF AbstractStep
<1> QED
  BY <1>1, <1>2, LoopHolds, AppTypeCorrect, PTL DEF AppSpec

(* A program that blocks and is never killed reads the conversion it has   *)
(* started: only what a kill leaves behind (run app_v1_stale) can answer   *)
(* the next START too early (main, adc_read).                              *)
THEOREM AnswerIsOwn ==
    ASSUME OneProgram PROVE AppSpec => []ReadAnswersStart
<1>1. Loop(Only) => ReadAnswersStart
  BY DEF OneProgram, Loop, Between, Waiting, Nothing, Stored, At, InUser,
     ReadAnswersStart
<1> QED
  BY <1>1, LoopHolds, PTL

-----------------------------------------------------------------------------
(* One program whose reads block, killed or not: a read that is past its   *)
(* wait finds a sample, since nobody else takes it or opens the device.    *)
Alone == Blocks /\ Proc = {Only}

MarkerInv ==
    /\ pc[Only] # "read_flag"
    /\ pc[Only] = "read_copy" => adc_data \in Sample
    /\ pc[Only] = "read_reset" => ubuf[Only] \in Sample
    /\ app[Only] = "print" =>
          pc[Only] \in {"user", "read_prepare", "read_recheck", "read_asleep",
                        "read_copy", "read_reset"}
    /\ At(Only, "print") /\ ret[Only] = "ok" => ubuf[Only] \in Sample

LEMMA MarkerNext ==
    ASSUME Alone, AppTypeOK, MarkerInv, [AppNext]_allVars PROVE MarkerInv'
<1> DEFINE p == Only
<1> USE SampleAssumption
    DEF Alone, Blocks, AppTypeOK, TypeOK, AppGoto, Goto, Return, At, InUser,
        MarkerInv, Sample, NoSample, appVars, shared, kernel, con, adc, process
<1>0. p \in Proc
  OBVIOUS
<1>1. CASE AppOpen(p) \/ AppIoctlInit(p) \/ AppIoctlStart(p)
  BY <1>0, <1>1 DEF AppOpen, OpenForget, AppIoctlInit, IoctlInit, AppIoctlStart, IoctlStart
<1>2. CASE AppRead(p)
  BY <1>0, <1>2 DEF AppRead, ReadPoll, ReadWait, Polls, Ready, WaitCond1, WaitCond2
<1>3. CASE AppOpenFailed(p) \/ AppSkip(p) \/ AppPrint(p) \/ AppDead(p)
           \/ AppKill(p) \/ AppRestart(p)
  BY <1>0, <1>3 DEF AppOpenFailed, AppSkip, AppPrint, AppDead, AppKill, AppRestart, vars
<1>4. CASE AppClose(p)
  BY <1>0, <1>4 DEF AppClose, Close
<1>5. CASE (OpenStep(p) \/ ReleaseStep(p) \/ IoctlStep(p)) /\ UNCHANGED appVars
  BY <1>0, <1>5 DEF OpenStep, OpenRequestIrq, OpenFail, OpenEnableClk, ReleaseStep,
     ReleaseFreeIrq, ReleaseSyncIrq, ReleaseDisableClk, IoctlStep, IoctlInitMux,
     IoctlStartWrite
<1>6. CASE (ReadFlag(p) \/ ReadPrepare(p) \/ ReadRecheck(p) \/ ReadWoken(p))
           /\ UNCHANGED appVars
  BY <1>0, <1>6 DEF ReadFlag, ReadPrepare, ReadRecheck, ReadWoken, Ready, WaitCond1,
     WaitCond2
<1>7. CASE app[p] = "dying" /\ ReadSignalled(p) /\ UNCHANGED appVars
  BY <1>0, <1>7 DEF ReadSignalled, Ready, WaitCond1, WaitCond2
<1>8. CASE (ReadCopy(p) \/ ReadReset(p)) /\ UNCHANGED appVars
  BY <1>0, <1>8 DEF ReadCopy, ReadReset
<1>9. CASE AppIsr \/ AppFinish \/ UNCHANGED allVars
  BY <1>0, <1>9 DEF AppIsr, Isr, IsrClear, IsrStore, IsrWake, AppFinish, Finish,
     allVars, vars
<1>10. [AppNext]_allVars => \/ AppCall(p) \/ AppInCall(p) \/ AppKill(p) \/ AppRestart(p)
                            \/ AppIsr \/ AppFinish \/ UNCHANGED allVars
  BY DEF AppNext
<1> QED
  BY <1>1, <1>2, <1>3, <1>4, <1>5, <1>6, <1>7, <1>8, <1>9, <1>10
  DEF AppCall, AppInCall, OpenStep

(* A read that returns success hands out a sample and never the marker, in *)
(* a program that blocks and is the only one, killed and started again at  *)
(* any moment. Each hypothesis is needed: a polling read passes the marker *)
(* on (run app_v2_marker), and a second program's open erases the sample   *)
(* between the wait and the copy, even when it is refused (adc_read,       *)
(* adc_open).                                                              *)
THEOREM ReadIsSampleSafe ==
    ASSUME Alone PROVE AppSpec => []ReadIsSample
<1>1. AppInit => MarkerInv
  BY DEF AppInit, Init, MarkerInv, At, Alone
<1>2. AppTypeOK /\ MarkerInv /\ [AppNext]_allVars => MarkerInv'
  BY MarkerNext
<1>3. MarkerInv => ReadIsSample
  BY DEF MarkerInv, ReadIsSample, Alone
<1> QED
  BY <1>1, <1>2, <1>3, AppTypeCorrect, PTL DEF AppSpec

-----------------------------------------------------------------------------
(* A program that has ended, or not begun, is in no call and has no file.  *)
EndedInv ==
    \A p \in Proc : app[p] \in {"open", "exit"} => InUser(p) /\ ~HasFile(p)

LEMMA EndedNext ==
    ASSUME AppTypeOK, EndedInv, [AppNext]_allVars PROVE EndedInv'
<1> USE DEF AppTypeOK, TypeOK, EndedInv, AppGoto, Goto, Return, At, InUser, HasFile,
            appVars, shared, kernel, con, adc, process
<1>1. ASSUME NEW p \in Proc, AppCall(p), ~AppClose(p) PROVE EndedInv'
  BY <1>1 DEF AppCall, AppOpen, OpenForget, AppOpenFailed, AppIoctlInit, IoctlInit,
     AppIoctlStart, IoctlStart, AppRead, ReadPoll, ReadWait, AppSkip, AppPrint,
     AppDead, vars
<1>2. ASSUME NEW p \in Proc, AppClose(p) \/ AppKill(p) \/ AppRestart(p) PROVE EndedInv'
  BY <1>2 DEF AppClose, Close, AppKill, AppRestart, vars
<1>3. ASSUME NEW p \in Proc, OpenStep(p) \/ IoctlStep(p) \/ ReleaseStep(p),
             UNCHANGED appVars
      PROVE  EndedInv'
  BY <1>3 DEF OpenStep, OpenRequestIrq, OpenFail, OpenEnableClk, IoctlStep,
     IoctlInitMux, IoctlStartWrite, ReleaseStep, ReleaseFreeIrq, ReleaseSyncIrq,
     ReleaseDisableClk
<1>4. ASSUME NEW p \in Proc, ReadStep(p), UNCHANGED appVars PROVE EndedInv'
  BY <1>4 DEF ReadStep, ReadFlag, ReadPrepare, ReadRecheck, ReadWoken,
     ReadSignalled, ReadCopy, ReadFault, ReadReset
<1>5. CASE AppIsr \/ AppFinish \/ UNCHANGED allVars
  BY <1>5 DEF AppIsr, Isr, IsrClear, IsrStore, IsrWake, AppFinish, Finish,
     allVars, vars
<1> QED
  BY <1>1, <1>2, <1>3, <1>4, <1>5 DEF AppNext, AppInCall, OpenStep, ReadStep

(* When the last program has ended, by itself, refused or killed, and with *)
(* a conversion still on, the driver has given back line, clock and queue  *)
(* and its handler has run out: the next open finds what the first one     *)
(* found (adc_release, adc_open).                                          *)
THEOREM QuietSafe == AppSpec => []QuietWhenGone
<1>1. AppInit => EndedInv
  BY DEF AppInit, Init, EndedInv, InUser, HasFile
<1>2. AppTypeOK /\ EndedInv /\ [AppNext]_allVars => EndedInv'
  BY EndedNext
<1>3. /\ TypeOK /\ EndedInv /\ SessionInv /\ HandlerInv /\ ClockBalanced
      => QuietWhenGone
  <2> SUFFICES ASSUME TypeOK, EndedInv, SessionInv, HandlerInv, ClockBalanced,
                      \A p \in Proc : app[p] \in {"open", "exit"}
               PROVE  ~irqHeld /\ isr = "idle" /\ waitq = {} /\ clk = 0
    BY DEF QuietWhenGone
  <2>1. \A p \in Proc : pc[p] = "user" /\ fd[p] = NoFile
    BY DEF EndedInv, InUser, HasFile
  <2>2. ~irqHeld
    BY <2>1 DEF SessionInv, ExclusiveSession, HasIrq, HasFile
  <2>3. isr = "idle" /\ waitq = {}
    BY <2>1, <2>2 DEF HandlerInv, TypeOK
  <2>4. EnabledFiles = {}
    BY <2>1, FileAssumption DEF EnabledFiles, Holders
  <2>5. clk = 0
    BY <2>4, FS_EmptySet DEF ClockBalanced, TypeOK
  <2> QED
    BY <2>2, <2>3, <2>5
<1>4. AppSpec => [](TypeOK /\ SessionInv /\ HandlerInv /\ ClockBalanced)
  BY AppIsDriver, TypeCorrect, HandlerHolds, ClockSafe, PTL
<1> QED
  BY <1>1, <1>2, <1>3, <1>4, AppTypeCorrect, PTL DEF AppSpec

(* The driver's own guarantees, under its test programs: one session at a  *)
(* time, no wake-up lost, no handler out of session, a clock that is off   *)
(* after the last close (adc_open, adc_read, adc_handler, adc_release).    *)
THEOREM DriverKeepsPromises ==
    AppSpec => [](/\ ExclusiveSession /\ NoLostWakeup
                  /\ HandlerInSession /\ ClockBalanced)
  BY AppIsDriver, SessionSafe, WakeupSafe, HandlerSafe, ClockSafe, PTL
=============================================================================
