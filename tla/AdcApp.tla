-------------------------------- MODULE AdcApp --------------------------------
(***************************************************************************)
(* The test programs of the ADC driver, adc/version1/app/test.c and        *)
(* adc/version2/app/test.c, running against it: open, INIT, then for ever  *)
(* START, read, print. Version 2's program opens with O_NONBLOCK (its file *)
(* is in NonBlocking) and skips the print when read fails; version 1's     *)
(* prints whatever its buffer holds. A user may kill a program and starts  *)
(* again one that has ended.                                               *)
(***************************************************************************)
EXTENDS AdcDriver

CONSTANT MayKill
ASSUME KillAssumption == MayKill \in BOOLEAN

VARIABLES
    app,    \* the next call each program makes
    out     \* the last value each program printed
appVars == <<app, out>>
allVars == <<vars, appVars>>

AppStep == {"open", "init", "start", "read", "print", "dying", "exit"}

AppTypeOK ==
    /\ TypeOK
    /\ app \in [Proc -> AppStep]
    /\ out \in [Proc -> Sample \cup {NoSample}]

AppInit ==
    /\ Init
    /\ app = [p \in Proc |-> "open"]
    /\ out = [p \in Proc |-> NoSample]

-----------------------------------------------------------------------------
At(p, step)    == app[p] = step /\ InUser(p)
AppGoto(p, step) == app' = [app EXCEPT ![p] = step]

AppOpen(p) ==
    /\ At(p, "open") /\ OpenForget(p)
    /\ AppGoto(p, "init") /\ UNCHANGED out

(* open failed: exit(EXIT_FAILURE). *)
AppOpenFailed(p) ==
    /\ At(p, "init") /\ ~HasFile(p)
    /\ AppGoto(p, "exit") /\ UNCHANGED <<vars, out>>

AppIoctlInit(p) ==
    /\ At(p, "init") /\ IoctlInit(p)
    /\ AppGoto(p, "start") /\ UNCHANGED out

AppIoctlStart(p) ==
    /\ At(p, "start") /\ IoctlStart(p)
    /\ AppGoto(p, "read") /\ UNCHANGED out

AppRead(p) ==
    /\ At(p, "read") /\ (ReadPoll(p) \/ ReadWait(p))
    /\ AppGoto(p, "print") /\ UNCHANGED out

(* Version 2: n < 0, continue. *)
AppSkip(p) ==
    /\ At(p, "print") /\ Version = 2 /\ ret[p] = "error"
    /\ AppGoto(p, "start") /\ UNCHANGED <<vars, out>>

AppPrint(p) ==
    /\ At(p, "print") /\ (Version = 2 => ret[p] = "ok")
    /\ out' = [out EXCEPT ![p] = ubuf[p]]
    /\ AppGoto(p, "start") /\ UNCHANGED vars

(* A kill: the system call under way returns, then exit closes the file.   *)
AppKill(p) ==
    /\ MayKill /\ app[p] \notin {"dying", "exit"}
    /\ AppGoto(p, "dying") /\ UNCHANGED <<vars, out>>

AppClose(p) == At(p, "dying") /\ Close(p) /\ UNCHANGED appVars

AppDead(p) ==
    /\ At(p, "dying") /\ ~HasFile(p)
    /\ AppGoto(p, "exit") /\ UNCHANGED <<vars, out>>

AppRestart(p) ==
    /\ At(p, "exit")
    /\ AppGoto(p, "open") /\ UNCHANGED <<vars, out>>

AppCall(p) ==
    \/ AppOpen(p) \/ AppOpenFailed(p) \/ AppIoctlInit(p) \/ AppIoctlStart(p)
    \/ AppRead(p) \/ AppSkip(p) \/ AppPrint(p) \/ AppClose(p) \/ AppDead(p)

(* Inside a call. The buffer is a valid local, so copy_to_user does not    *)
(* fail; a free interrupt line is granted; only a kill sends a signal.     *)
AppInCall(p) ==
    /\ \/ OpenRequestIrq(p) \/ OpenEnableClk(p) \/ (irqHeld /\ OpenFail(p))
       \/ IoctlStep(p) \/ ReleaseStep(p)
       \/ ReadFlag(p) \/ ReadPrepare(p) \/ ReadRecheck(p) \/ ReadWoken(p)
       \/ ReadCopy(p) \/ ReadReset(p)
       \/ (app[p] = "dying" /\ ReadSignalled(p))
    /\ UNCHANGED appVars

AppIsr    == Isr /\ UNCHANGED appVars
AppFinish == Finish /\ UNCHANGED appVars

AppNext ==
    \/ \E p \in Proc :
         AppCall(p) \/ AppInCall(p) \/ AppKill(p) \/ AppRestart(p)
    \/ AppIsr \/ AppFinish

(* The scheduler runs every program that can run, the controller delivers  *)
(* a pending interrupt, a clocked converter ends what it started. Nobody   *)
(* has to kill or to restart anything.                                     *)
Fairness ==
    /\ \A p \in Proc : WF_allVars(AppCall(p)) /\ WF_allVars(AppInCall(p))
    /\ WF_allVars(AppIsr) /\ WF_allVars(AppFinish)

AppSpec == AppInit /\ [][AppNext]_allVars /\ Fairness

-----------------------------------------------------------------------------
(* Properties.                                                             *)

(* A conversion runs only on a configured converter and on the driver's    *)
(* channel: no kill, restart or refused open lets a START through before   *)
(* both writes of INIT (adc_unlocked_ioctl, main).                         *)
Tuned == conv = "busy" => config /\ mux

(* What a successful read leaves in the program's buffer is a sample, not  *)
(* the driver's marker for "none" (adc_read, main of both test programs:   *)
(* the value is printed as a voltage).                                     *)
ReadIsSample ==
    \A p \in Proc : At(p, "print") /\ ret[p] = "ok" => ubuf[p] \in Sample

(* When all programs have ended, however they did, nothing of theirs is    *)
(* left in the kernel: the line is free, no handler runs, nobody is on the *)
(* queue, the clock is off (adc_release, and the errors of adc_open).      *)
QuietWhenGone ==
    (\A p \in Proc : app[p] \in {"open", "exit"}) =>
        ~irqHeld /\ isr = "idle" /\ waitq = {} /\ clk = 0

(* A program prints the conversion its own START began, so that conversion *)
(* has ended when the read returns (main: START, then read).               *)
ReadAnswersStart ==
    \A p \in Proc : At(p, "print") /\ ret[p] = "ok" => conv = "idle"

(* A reader that waits is woken and returns (adc_handler: "wake the        *)
(* waiting readers").                                                      *)
ReaderServed ==
    \A p \in Proc : pc[p] = "read_asleep" ~> InUser(p)

Printing(p) == AppPrint(p)

(* Once a program is left alone, nobody killing it and no other one        *)
(* running, it prints for ever, whatever state the others and the kills    *)
(* left the driver, the line and the clock in; should an open be refused,  *)
(* its user starts it again (adc_release, adc_open).                       *)
LeftAlone(p) == app[p] # "dying" /\ \A q \in Proc \ {p} : app[q] = "exit"

RecoversFromKills ==
    \A p \in Proc :
        <>[]LeftAlone(p) /\ []<>(app[p] # "exit")
            => []<><<Printing(p)>>_allVars

-----------------------------------------------------------------------------
(* One program and the version 1 driver are a Sampler: between the write   *)
(* of START and the print there is one conversion, and its value is the    *)
(* one printed.                                                            *)
CONSTANT Only   \* that program

Asked == app[Only] \in {"read", "print"} /\ pc[Only] # "start_write"

AbstractPhase ==
    IF ~Asked THEN "idle" ELSE IF conv = "busy" THEN "converting" ELSE "ready"

Abstract == INSTANCE Sampler WITH
    phase <- AbstractPhase, value <- dat, out <- out[Only]

ImplementsSampler == Abstract!Spec
=============================================================================
