------------------------------- MODULE AdcDriver -------------------------------
(***************************************************************************)
(* The run time of the Exynos4412 ADC character driver, adc_driver.c, in   *)
(* both versions of the repository:                                        *)
(*                                                                         *)
(*   Version 1  adc/version1: every read blocks until a sample is there;   *)
(*   Version 2  adc/version2: files opened with O_NONBLOCK poll instead,   *)
(*              and the wait condition of a blocking read is different.    *)
(*                                                                         *)
(* Processes run on several cores and the interrupt handler on any of      *)
(* them, so every access to the memory the driver shares (adc_data, the    *)
(* wait queue) and to a register of the converter is a step of its own.    *)
(* The driver takes no lock.                                               *)
(***************************************************************************)
EXTENDS Integers, FiniteSets

CONSTANTS
    Proc,           \* the processes that use /dev/exynos4412-adc
    File,           \* the open file descriptions (struct file) there can be
    NoFile,         \* "no descriptor"
    NonBlocking,    \* the files that are opened with O_NONBLOCK
    MaxSample,      \* the largest sample; the hardware's is 0xfff
    Command,        \* the ioctl commands the processes issue
    Version,        \* which adc_driver.c
    MayFork         \* may a process hand its descriptor to a child?

ASSUME FileAssumption == IsFiniteSet(File) /\ NoFile \notin File
ASSUME NonBlockingAssumption == NonBlocking \subseteq File
ASSUME SampleAssumption == MaxSample \in Nat
ASSUME CommandAssumption == Command \subseteq {"INIT", "START", "STOP", "OTHER"}
ASSUME VersionAssumption == Version \in {1, 2}
ASSUME ForkAssumption == MayFork \in BOOLEAN

Sample   == 0 .. MaxSample
NoSample == -1

VARIABLES
    adc_data,   \* padc->adc_data: the last sample, or NoSample
    waitq,      \* the processes on padc->read_event_wait
    irqHeld,    \* a handler is registered for the interrupt line
    clk,        \* enable count of padc->adc_clk
    config,     \* ADC_CON holds the prescaler and resolution INIT writes
    mux,        \* ADC_MUX selects the driver's channel
    conv,       \* is a conversion running?
    ecflg,      \* bit 15 of ADC_CON: the conversion has ended
    dat,        \* ADC_DAT
    irqPending, \* the converter asserts its interrupt
    isr,        \* where adc_handler is
    pc,         \* where each process is: "user", or a step of a system call
    fd,         \* the file each process has open
    reg_val,    \* the local of adc_read and of the ioctl: ADC_CON as read
    ubuf,       \* the int each process reads into
    ret         \* how the last system call of each process returned

shared  == <<adc_data, waitq>>
kernel  == <<irqHeld, clk>>
con     == <<config, mux>>
adc     == <<conv, ecflg, dat, irqPending>>
process == <<pc, fd, reg_val, ubuf, ret>>
vars    == <<shared, kernel, con, adc, isr, process>>

CON == [config : BOOLEAN, ecflg : BOOLEAN]

(* A dead local, so that it does not multiply the states. *)
Dead == [config |-> FALSE, ecflg |-> FALSE]

Step == {"user", "open_irq", "open_clk", "init_mux", "start_write",
         "read_flag", "read_prepare", "read_recheck", "read_asleep",
         "read_copy", "read_reset",
         "release_irq", "release_sync", "release_clk"}

TypeOK ==
    /\ adc_data \in Sample \cup {NoSample}
    /\ waitq \in SUBSET Proc
    /\ irqHeld \in BOOLEAN
    /\ clk \in Nat
    /\ config \in BOOLEAN /\ mux \in BOOLEAN
    /\ conv \in {"idle", "busy"}
    /\ ecflg \in BOOLEAN /\ dat \in Sample /\ irqPending \in BOOLEAN
    /\ isr \in {"idle", "store", "wake"}
    /\ pc \in [Proc -> Step]
    /\ fd \in [Proc -> File \cup {NoFile}]
    /\ reg_val \in [Proc -> CON]
    /\ ubuf \in [Proc -> Sample \cup {NoSample}]
    /\ ret \in [Proc -> {"ok", "error"}]

(* After probe: the device exists, nobody has opened it, the converter is  *)
(* as reset leaves it.                                                     *)
Init ==
    /\ adc_data = NoSample /\ waitq = {}
    /\ irqHeld = FALSE /\ clk = 0
    /\ config = FALSE /\ mux = FALSE
    /\ conv = "idle" /\ ecflg = FALSE /\ dat = 0 /\ irqPending = FALSE
    /\ isr = "idle"
    /\ pc = [p \in Proc |-> "user"]
    /\ fd = [p \in Proc |-> NoFile]
    /\ reg_val = [p \in Proc |-> Dead]
    /\ ubuf = [p \in Proc |-> NoSample]
    /\ ret = [p \in Proc |-> "ok"]

-----------------------------------------------------------------------------
Goto(p, step) == pc' = [pc EXCEPT ![p] = step]

Return(p, result) ==
    /\ Goto(p, "user")
    /\ ret' = [ret EXCEPT ![p] = result]
    /\ reg_val' = [reg_val EXCEPT ![p] = Dead]

InUser(p)    == pc[p] = "user"
HasFile(p)   == fd[p] # NoFile
Holders(f)   == {p \in Proc : fd[p] = f}
FreeFiles    == {f \in File : Holders(f) = {}}

(* Mutant: the marker itself counts as a sample. *)
WaitCondAny == adc_data >= NoSample

(* The condition of wait_event_interruptible in each version. *)
WaitCond1 == adc_data >= 0
WaitCond2 == adc_data > 0
Ready == IF Version = 1 THEN WaitCond1 ELSE WaitCond2

-----------------------------------------------------------------------------
(* adc_open: forget the sample, request the line, enable the clock. The    *)
(* line is not shared, so it is busy while another file has it; it may     *)
(* also be refused for reasons of the kernel's own. A failed open frees    *)
(* the file without calling adc_release.                                   *)

OpenForget(p) ==
    /\ InUser(p) /\ ~HasFile(p)
    /\ \E f \in FreeFiles : fd' = [fd EXCEPT ![p] = f]
    /\ adc_data' = NoSample
    /\ Goto(p, "open_irq")
    /\ UNCHANGED <<waitq, kernel, con, adc, isr, reg_val, ubuf, ret>>

(* Mutant: the line is requested with IRQF_SHARED. *)
OpenRequestIrqShared(p) ==
    /\ pc[p] = "open_irq"
    /\ irqHeld' = TRUE
    /\ Goto(p, "open_clk")
    /\ UNCHANGED <<shared, clk, con, adc, isr, fd, reg_val, ubuf, ret>>

OpenRequestIrq(p) ==
    /\ pc[p] = "open_irq"
    /\ ~irqHeld /\ irqHeld' = TRUE
    /\ Goto(p, "open_clk")
    /\ UNCHANGED <<shared, clk, con, adc, isr, fd, reg_val, ubuf, ret>>

(* Mutant: the error path of open undoes the clk_enable it never reached. *)
OpenFailDisables(p) ==
    /\ pc[p] = "open_irq"
    /\ clk' = IF clk = 0 THEN 0 ELSE clk - 1
    /\ fd' = [fd EXCEPT ![p] = NoFile]
    /\ Return(p, "error")
    /\ UNCHANGED <<shared, irqHeld, con, adc, isr, ubuf>>

OpenFail(p) ==
    /\ pc[p] = "open_irq"
    /\ fd' = [fd EXCEPT ![p] = NoFile]
    /\ Return(p, "error")
    /\ UNCHANGED <<shared, kernel, con, adc, isr, ubuf>>

OpenEnableClk(p) ==
    /\ pc[p] = "open_clk"
    /\ clk' = clk + 1
    /\ Return(p, "ok")
    /\ UNCHANGED <<shared, irqHeld, con, adc, isr, fd, ubuf>>

-----------------------------------------------------------------------------
(* adc_read. A blocking read tests the condition, puts itself on the queue *)
(* and tests again before it sleeps, as wait_event_interruptible does.     *)

Polls(p) == Version = 2 /\ fd[p] \in NonBlocking

ReadPoll(p) ==
    /\ InUser(p) /\ HasFile(p) /\ Polls(p)
    /\ reg_val' = [reg_val EXCEPT ![p] = [config |-> config, ecflg |-> ecflg]]
    /\ Goto(p, "read_flag")
    /\ UNCHANGED <<shared, kernel, con, adc, isr, fd, ubuf, ret>>

(* Mutant: either the flag or the sample missing is EAGAIN. *)
ReadFlagEither(p) ==
    /\ pc[p] = "read_flag"
    /\ IF ~reg_val[p].ecflg \/ adc_data < 0
       THEN Return(p, "error")
       ELSE Goto(p, "read_copy") /\ UNCHANGED <<ret, reg_val>>
    /\ UNCHANGED <<shared, kernel, con, adc, isr, fd, ubuf>>

(* Only when the flag is down *and* no sample is stored is it EAGAIN. *)
ReadFlag(p) ==
    /\ pc[p] = "read_flag"
    /\ IF ~reg_val[p].ecflg /\ adc_data < 0
       THEN Return(p, "error")
       ELSE Goto(p, "read_copy") /\ UNCHANGED <<ret, reg_val>>
    /\ UNCHANGED <<shared, kernel, con, adc, isr, fd, ubuf>>

ReadWait(p) ==
    /\ InUser(p) /\ HasFile(p) /\ ~Polls(p)
    /\ Goto(p, IF Ready THEN "read_copy" ELSE "read_prepare")
    /\ UNCHANGED <<shared, kernel, con, adc, isr, fd, reg_val, ubuf, ret>>

ReadPrepare(p) ==
    /\ pc[p] = "read_prepare"
    /\ waitq' = waitq \cup {p}
    /\ Goto(p, "read_recheck")
    /\ UNCHANGED <<adc_data, kernel, con, adc, isr, fd, reg_val, ubuf, ret>>

ReadRecheck(p) ==
    /\ pc[p] = "read_recheck"
    /\ waitq' = IF Ready THEN waitq \ {p} ELSE waitq
    /\ Goto(p, IF Ready THEN "read_copy" ELSE "read_asleep")
    /\ UNCHANGED <<adc_data, kernel, con, adc, isr, fd, reg_val, ubuf, ret>>

(* wake_up has taken the process off the queue: it loops. *)
ReadWoken(p) ==
    /\ pc[p] = "read_asleep" /\ p \notin waitq
    /\ Goto(p, "read_prepare")
    /\ UNCHANGED <<shared, kernel, con, adc, isr, fd, reg_val, ubuf, ret>>

(* A signal ends the sleep: -ERESTARTSYS, unless the condition holds. *)
ReadSignalled(p) ==
    /\ pc[p] = "read_asleep"
    /\ waitq' = waitq \ {p}
    /\ IF Ready THEN Goto(p, "read_copy") /\ UNCHANGED <<ret, reg_val>>
                ELSE Return(p, "error")
    /\ UNCHANGED <<adc_data, kernel, con, adc, isr, fd, ubuf>>

ReadCopy(p) ==
    /\ pc[p] = "read_copy"
    /\ ubuf' = [ubuf EXCEPT ![p] = adc_data]
    /\ Goto(p, "read_reset")
    /\ UNCHANGED <<shared, kernel, con, adc, isr, fd, reg_val, ret>>

(* copy_to_user fails: -EFAULT, and the sample stays. *)
ReadFault(p) ==
    /\ pc[p] = "read_copy"
    /\ Return(p, "error")
    /\ UNCHANGED <<shared, kernel, con, adc, isr, fd, ubuf>>

(* Mutant: the sample is not taken out. *)
ReadResetForgotten(p) ==
    /\ pc[p] = "read_reset"
    /\ Return(p, "ok")
    /\ UNCHANGED <<shared, kernel, con, adc, isr, fd, ubuf>>

ReadReset(p) ==
    /\ pc[p] = "read_reset"
    /\ adc_data' = NoSample
    /\ Return(p, "ok")
    /\ UNCHANGED <<waitq, kernel, con, adc, isr, fd, ubuf>>

-----------------------------------------------------------------------------
(* adc_unlocked_ioctl. *)

Issues(p, cmd) == cmd \in Command /\ InUser(p) /\ HasFile(p)

IoctlInit(p) ==
    /\ Issues(p, "INIT")
    /\ config' = TRUE
    /\ Goto(p, "init_mux")
    /\ UNCHANGED <<shared, kernel, mux, adc, isr, fd, reg_val, ubuf, ret>>

(* Mutant: the channel is not selected. *)
IoctlInitNoMux(p) ==
    /\ pc[p] = "init_mux"
    /\ Return(p, "ok")
    /\ UNCHANGED <<shared, kernel, con, adc, isr, fd, ubuf>>

IoctlInitMux(p) ==
    /\ pc[p] = "init_mux"
    /\ mux' = TRUE
    /\ Return(p, "ok")
    /\ UNCHANGED <<shared, kernel, config, adc, isr, fd, ubuf>>

(* START reads ADC_CON, sets bit 0 and writes the word back. *)
IoctlStart(p) ==
    /\ Issues(p, "START")
    /\ reg_val' = [reg_val EXCEPT ![p] = [config |-> config, ecflg |-> ecflg]]
    /\ Goto(p, "start_write")
    /\ UNCHANGED <<shared, kernel, con, adc, isr, fd, ubuf, ret>>

IoctlStartWrite(p) ==
    /\ pc[p] = "start_write"
    /\ config' = reg_val[p].config
    /\ conv' = "busy" /\ ecflg' = FALSE
    /\ Return(p, "ok")
    /\ UNCHANGED <<shared, kernel, mux, dat, irqPending, isr, fd, ubuf>>

(* clk_disable of a clock that is off only warns. *)
ClkDisable == clk' = IF clk = 0 THEN 0 ELSE clk - 1

IoctlStop(p) ==
    /\ Issues(p, "STOP")
    /\ ClkDisable
    /\ Return(p, "ok")
    /\ UNCHANGED <<shared, irqHeld, con, adc, isr, fd, ubuf>>

IoctlUnknown(p) ==
    /\ Issues(p, "OTHER")
    /\ Return(p, "error")
    /\ UNCHANGED <<shared, kernel, con, adc, isr, fd, ubuf>>

-----------------------------------------------------------------------------
(* close() and adc_release, which the last close of a file calls: free_irq *)
(* takes the handler off the line, then waits for a running handler; the   *)
(* clock goes last. No converter register is written.                      *)

(* Mutant: adc_release runs at every close, as a flush handler would. *)
CloseEach(p) ==
    /\ InUser(p) /\ HasFile(p)
    /\ Goto(p, "release_irq")
    /\ UNCHANGED <<shared, kernel, con, adc, isr, fd, reg_val, ubuf, ret>>

Close(p) ==
    /\ InUser(p) /\ HasFile(p)
    /\ IF Holders(fd[p]) = {p}
       THEN Goto(p, "release_irq") /\ UNCHANGED <<fd, ret, reg_val>>
       ELSE fd' = [fd EXCEPT ![p] = NoFile] /\ Return(p, "ok")
    /\ UNCHANGED <<shared, kernel, con, adc, isr, ubuf>>

(* Mutant: free_irq is forgotten. *)
ReleaseKeepsIrq(p) ==
    /\ pc[p] = "release_irq"
    /\ Goto(p, "release_sync")
    /\ UNCHANGED <<shared, kernel, con, adc, isr, fd, reg_val, ubuf, ret>>

ReleaseFreeIrq(p) ==
    /\ pc[p] = "release_irq"
    /\ irqHeld' = FALSE
    /\ Goto(p, "release_sync")
    /\ UNCHANGED <<shared, clk, con, adc, isr, fd, reg_val, ubuf, ret>>

ReleaseSyncIrq(p) ==
    /\ pc[p] = "release_sync" /\ isr = "idle"
    /\ Goto(p, "release_clk")
    /\ UNCHANGED <<shared, kernel, con, adc, isr, fd, reg_val, ubuf, ret>>

(* Mutant: the clock is left on. *)
ReleaseKeepsClk(p) ==
    /\ pc[p] = "release_clk"
    /\ fd' = [fd EXCEPT ![p] = NoFile]
    /\ Return(p, "ok")
    /\ UNCHANGED <<shared, kernel, con, adc, isr, ubuf>>

ReleaseDisableClk(p) ==
    /\ pc[p] = "release_clk"
    /\ ClkDisable
    /\ fd' = [fd EXCEPT ![p] = NoFile]
    /\ Return(p, "ok")
    /\ UNCHANGED <<shared, irqHeld, con, adc, isr, ubuf>>

(* fork(): the child q shares p's open file. *)
Fork(p, q) ==
    /\ MayFork
    /\ InUser(p) /\ HasFile(p) /\ InUser(q) /\ ~HasFile(q)
    /\ fd' = [fd EXCEPT ![q] = fd[p]]
    /\ UNCHANGED <<shared, kernel, con, adc, isr, pc, reg_val, ubuf, ret>>

-----------------------------------------------------------------------------
(* adc_handler: clear the interrupt, store the sample, wake the readers.   *)

IsrClear ==
    /\ isr = "idle" /\ irqPending /\ irqHeld
    /\ irqPending' = FALSE
    /\ isr' = "store"
    /\ UNCHANGED <<shared, kernel, con, conv, ecflg, dat, process>>

(* Mutants: the reserved bits of ADC_DAT are not masked off; the handler   *)
(* does not go on to wake_up.                                              *)
IsrStoreUnmasked ==
    /\ isr = "store"
    /\ adc_data' = dat + MaxSample + 1
    /\ isr' = "wake"
    /\ UNCHANGED <<waitq, kernel, con, adc, process>>

IsrStoreNoWake ==
    /\ isr = "store"
    /\ adc_data' = dat
    /\ isr' = "idle"
    /\ UNCHANGED <<waitq, kernel, con, adc, process>>

IsrStore ==
    /\ isr = "store"
    /\ adc_data' = dat
    /\ isr' = "wake"
    /\ UNCHANGED <<waitq, kernel, con, adc, process>>

(* Mutant: one reader only is woken. *)
IsrWakeOne ==
    /\ isr = "wake"
    /\ \E p \in Proc : waitq' = waitq \ {p}
    /\ isr' = "idle"
    /\ UNCHANGED <<adc_data, kernel, con, adc, process>>

IsrWake ==
    /\ isr = "wake"
    /\ waitq' = {}
    /\ isr' = "idle"
    /\ UNCHANGED <<adc_data, kernel, con, adc, process>>

(* The converter: a conversion runs only while the block is clocked; its   *)
(* end raises the flag and the level-triggered interrupt.                  *)
Finish ==
    /\ conv = "busy" /\ clk > 0
    /\ conv' = "idle" /\ ecflg' = TRUE /\ irqPending' = TRUE
    /\ dat' \in Sample
    /\ UNCHANGED <<shared, kernel, con, isr, process>>

-----------------------------------------------------------------------------
OpenStep(p) == OpenRequestIrq(p) \/ OpenFail(p) \/ OpenEnableClk(p)
ReadStep(p) ==
    \/ ReadFlag(p) \/ ReadPrepare(p) \/ ReadRecheck(p) \/ ReadWoken(p)
    \/ ReadSignalled(p) \/ ReadCopy(p) \/ ReadFault(p) \/ ReadReset(p)
IoctlStep(p) == IoctlInitMux(p) \/ IoctlStartWrite(p)
ReleaseStep(p) ==
    ReleaseFreeIrq(p) \/ ReleaseSyncIrq(p) \/ ReleaseDisableClk(p)

Call(p) ==
    \/ OpenForget(p) \/ ReadPoll(p) \/ ReadWait(p) \/ IoctlInit(p)
    \/ IoctlStart(p) \/ IoctlStop(p) \/ IoctlUnknown(p) \/ Close(p)
    \/ \E q \in Proc : Fork(p, q)

InCall(p) == OpenStep(p) \/ ReadStep(p) \/ IoctlStep(p) \/ ReleaseStep(p)

Isr == IsrClear \/ IsrStore \/ IsrWake

Next == (\E p \in Proc : Call(p) \/ InCall(p)) \/ Isr \/ Finish

Spec == Init /\ [][Next]_vars

-----------------------------------------------------------------------------
(* Properties.                                                             *)

(* Does p hold the interrupt line, through its file? *)
HasIrq(p) ==
    HasFile(p) /\ pc[p] \notin {"open_irq", "release_sync", "release_clk"}

(* The line is registered exactly while some process is in a session, and  *)
(* every process in a session came by the same open: a non-shared          *)
(* request_irq is the only mutual exclusion this driver has (adc_open,     *)
(* adc_release).                                                           *)
ExclusiveSession ==
    /\ irqHeld <=> \E p \in Proc : HasIrq(p)
    /\ \A p, q \in Proc : HasIrq(p) /\ HasIrq(q) => fd[p] = fd[q]

(* The handler runs only while somebody has the device open and is not     *)
(* past free_irq: a conversion that ends during or after a close, finds no *)
(* handler that would touch the driver's memory or the converter after     *)
(* the last release (adc_release, adc_handler).                            *)
HandlerInSession ==
    isr # "idle" => \E p \in Proc :
                        HasFile(p) /\ pc[p] \notin {"open_irq", "release_clk"}

(* A reader sleeps on the queue with its condition true only while the     *)
(* handler is about to wake it: storing the sample before wake_up, and     *)
(* queueing before the second test, leave no window (adc_handler,          *)
(* wait_event_interruptible in adc_read).                                  *)
NoLostWakeup ==
    \A p \in Proc :
        pc[p] = "read_asleep" /\ p \in waitq /\ Ready => isr = "wake"

(* The files whose open enabled the clock and whose release has not yet    *)
(* disabled it.                                                            *)
EnabledFiles ==
    {f \in File : \E p \in Holders(f) : pc[p] \notin {"open_irq", "open_clk"}}

(* The clock is never enabled more often than there are open files, so it  *)
(* is off after the last close, and while nobody uses STOP its count is    *)
(* their number: the clk_disable of one session never takes the clock from *)
(* the next one, whatever the order of a close and a new open (adc_open,   *)
(* adc_release).                                                           *)
ClockBalanced ==
    /\ clk <= Cardinality(EnabledFiles)
    /\ "STOP" \notin Command => clk = Cardinality(EnabledFiles)

(* Unless a descriptor is shared by fork, a START never undoes the         *)
(* configuration an INIT wrote between its read and its write of ADC_CON:  *)
(* the read-modify-write has no lock and rests on the exclusive session    *)
(* (adc_unlocked_ioctl).                                                   *)
ConfigSticky == [][~MayFork /\ config => config']_config
=============================================================================
