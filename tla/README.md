# Verification of the fs4412 learning drivers

TLA+ models of the Linux 3.14 drivers under `src/learn_driver`, written for the
fs4412 board (Samsung Exynos4412): what TLC checks on small instances and what
TLAPS proves for every value of the constants. Paths below are relative to
`src/learn_driver`; `V1` and `V2` are `adc/version1|version2/of_adc_driver/adc_driver.c`.

## 1. The system

| Component | State | Operations | Hard about it |
|---|---|---|---|
| ADC driver, V1 and V2 | `adc_data`, a wait queue, the interrupt line, the clock's enable count, converter registers | open, read (V2: also `O_NONBLOCK`), ioctl INIT/START/STOP, release, `adc_handler` | no lock; handler and processes on several cores; sessions that overlap at close |
| ADC programs, `adc/version*/app/test.c` | the loop's position, the buffer | open, INIT, then START and read for ever | killed and restarted at any point |
| LED driver, `led_driver/` | four mapped registers in shared pointers | open (map, set pin modes), ioctl on/off | unlocked read-modify-write of shared registers; mapping failures |
| Platform LED, `platform/` | one structure a device, its mapping | probe, remove, open, ioctl | fixed device number; error labels; every open stores a mapping for all, one that fails stores NULL |
| GPIO LED, `of_gpio_led/` | gpio, cdev, class | probe, remove, open, ioctl, release | release switches off for everybody |
| MPU6050 A, `i2c/driver/slave_driver/` | client, cdev | probe, remove, open (wake sensor), ioctl (temperature) | two transfers for one value; errors lost in an `unsigned char`; empty remove |
| MPU6050 B, `i2c-mpu6050-driver/` | one static client for all devices | probe, remove, ioctl | as A; never wakes the sensor; tried with another device while its file is open |
| I2C programs, `i2c/driver/app_driver/` | a buffer | the same through `/dev/i2c-5` | as A |
| Key interrupt, three variants | a static tasklet or work | probe, handler, bottom half, remove | presses merge; a second probe initialises the same bottom half |
| I2C bus, `i2c/i2c-con/` | devices, drivers, which is bound to which | scan of the controller's node, match, probe, load, unload | two scans that overlap; one bad child; a probe that fails or says 0 |
| device trees, Kbuild output, backups | - | - | data and generated files |

How they interact. A program enters its driver through the file operations; the
converter enters it through the interrupt line, on another core. Programs meet
each other only in the driver's memory, the registers and the kernel objects the
driver holds (line, clock, number, class). The driver core calls probe and
remove; an open file keeps its driver's module. The I2C core gives each sensor its
driver, and the programs of both drivers and of `/dev/i2c-5` share the sensor. What
makes each right:

* ADC: one session at a time; a reader is woken; a reading is the sample of the
  START that asked for it; the clock is off after the last close; what a program
  leaves behind does not disturb the next.
* LEDs: pins are outputs after open; an LED shows what it was last told.
* probe and remove: what fails has given everything back, once, and says so; what
  can be called is ready. Several drivers break this; what exactly they leave, give
  back wrongly or publish too early is part of the properties (section 5).
* open files: an open file's driver is bound, and what its probe got for the file
  operations is held, unless the file was opened before the probe had come to its end
  or on a node that a failure or a remove has left; a program that opens the platform
  LED notices that its own mapping failed; the GPIO LED goes out with its last program.
* MPU6050: a reading is of measurements current while it was asked for; a failed
  transfer is an error; who wakes the sensor finds it awake.
* I2C bus: one bad child costs only itself; no device that a loaded driver would
  take stays without; what is bound matches.
* keys: a ring follows the last press.

## 2. The modules

| Module | Models |
|---|---|
| `AdcDriver` | the run time of V1 and V2 (constant `Version`) with the interrupt, the clock and the converter |
| `AdcApp` | extends it with the test programs: each of their steps is a call of `AdcDriver` conjoined with the program's own change |
| `Sampler` | the abstract specification of program and driver together: request, convert, deliver |
| `LedRegisters` | the run time of `led_driver/led_driver.c` |
| `ProbeTables` | for each of nine drivers, the steps of its probe with the undo list of each failure, its remove, what its entry points need, the names it takes |
| `DriverLifecycle` | the engine that runs those tables for several instances |
| `DriverUse` | extends it with open files, the LED on GPX2_7 and key presses |
| `I2cBus` | the scan of the adapter's node, loading and unloading of drivers, matching and probing |
| `Mpu6050` | reading the temperature through drivers A and B and through `/dev/i2c-5` |
| `I2cSystem` | composes the two: which files exist, which modules are pinned |
| `*Proofs` | TLAPS proofs about the module they are named after |
| `MC*` | values for the constants |

A definition whose comment says *mutant* is a plausible slip in the code next to
the definition it would replace; it shows that a property has something to say.

### AdcDriver

Each access to memory the driver shares or to a register is one action. `pc[p]`
says where a process is in a system call.

| Code | Actions |
|---|---|
| `adc_open` | `OpenForget` (`adc_data = -1`), `OpenRequestIrq`/`OpenFail`, `OpenEnableClk` |
| `adc_read`, blocking | `ReadWait`, then `wait_event_interruptible`: `ReadPrepare`, `ReadRecheck`, `ReadWoken`, `ReadSignalled`; `ReadCopy`/`ReadFault`, `ReadReset` |
| `adc_read`, `O_NONBLOCK` (V2) | `ReadPoll` (reads ADC_CON), `ReadFlag` (tests it and `adc_data`), then as above |
| `adc_unlocked_ioctl` | `IoctlInit`, `IoctlInitMux`; `IoctlStart` (read), `IoctlStartWrite`; `IoctlStop`; `IoctlUnknown` |
| `adc_release` | `Close` (only the last close of a file goes on), `ReleaseFreeIrq`, `ReleaseSyncIrq`, `ReleaseDisableClk` |
| `adc_handler` | `IsrClear`, `IsrStore`, `IsrWake` |
| outside the code | `Finish` (the converter), `Fork` (a shared file) |

Abstractions. A sample is a number of a small range that contains 0; of ADC_CON
only "configured by INIT" and the end-of-conversion flag are kept, of ADC_MUX
whether the channel is selected. The line is level triggered: asserted until the
handler clears it. A conversion advances only while the clock's count is positive.
`clk_disable` at zero warns and changes nothing. `OpenFail` may happen when the line
is free too, because `request_irq` has reasons of its own. The driver is modelled on
one device: `padc` is found by `container_of` and there is one converter node.

### AdcApp and Sampler

`app[p]` is the program's next call, `out[p]` the last value printed. `AppKill` only
marks a program; the call under way ends as a signal makes it end, then the file is
closed. `Sampler` has three phases. The refinement mapping reads the phase off the
program's position and the converter: nothing asked, converting, ready; the
abstract value is ADC_DAT.

### LedRegisters

A register is the set of LEDs whose bits in it are set. `Map` is one `ioremap` with
its store into the shared structure; `InitRead`/`InitWrite` are `led_init`,
`CtlRead`/`CtlWrite` are `led_control_on` and `_off`. An access through NULL is `Oops`,
after which the process is gone.

### ProbeTables, DriverLifecycle, DriverUse

A probe step gets one thing; the table gives what the error label behind it gives
back, in order, and what the function then returns. `Acquire`, `Fail`, `GiveBack`,
`ReturnFailed`, `StartRemove`, `EndRemove` run one call each, so that two instances
interleave between any two calls. The nine drivers are V2's probe (V1's is the
same), `led_driver`, the platform LED, the GPIO LED, MPU6050 A and B, the key drivers
with a bottom half (tasklet and work alike) and without, and the probe of the
S3C2410 I2C controller.

`DriverUse` conjoins to each step of the engine what it means for those who use the
driver:

| Code | Actions |
|---|---|
| a device node | `Openable`: from `device_create` until the device is destroyed |
| open of the other drivers | `Open` |
| `led_device_open` (`led_char.c:75-95`) | `OpenMap` (82, the store of the mapping), `OpenTest` (85), `OpenInit` (91, `led_init` writes through it, or dies) |
| LED ioctls | `Switch`; `SwitchOops` through a mapping that is NULL or wild (`led_char.c:49`) |
| `exynos_led_release`, exit of a program | `Close` |
| `key_interrupt` | `Press` and `EnterHandler` (outside the code), `KeyInterrupt` |
| `key_interrupt_handle` | `Ring` |
| probe | `ProbeStep`: initialising the static bottom half (`Reinitialised`) clears the state of one that may still be listed, so that it may be lost |
| devm release of the interrupt | `GiveBackStep` waits for the handler |
| `.owner` of the file operations | the guard of `RemoveStep` |

A file can be opened in the middle of a probe, and a node that a failed probe of the
ADC driver or the empty remove of driver A has left can be opened too. `mapping` is
"wild" when the platform LED's open comes before `platform/driver/led_driver.c:76`
has stored the registers' address: `ioremap` then maps whatever the structure held.

Simplifications: an instance is not probed again while it still holds something from
an earlier attempt; remove comes with rmmod, so sysfs `unbind` is not modelled, and
the rmmod of a module with two devices is two removes, between which the module's
nodes cannot be opened; a program that died in `open` keeps the module's reference
for good; `gpio_direction_output` of a requested pin succeeds; the excerpt of the
controller's probe leaves out the registration of the frequency notifier that its
label undoes.

### I2cBus, Mpu6050, I2cSystem

The adapter's scan (`AddAdapter`, `SkipNode`, `NewDevice`, `NewDeviceFails`, `ScanEnd`)
registers each child; a new device is tried with the listed drivers
(`AttachDriver`, `AttachEnd`), a new driver with the listed devices (`LoadDriver`,
`AttachDevice`, `LoadEnd`). Both are under way at once. `DeviceMatch` is
`i2c_device_match`, `DeviceProbe` is `i2c_device_probe` with `Outcome` for what the
two probe functions make of a call: bound; refused; or, for B when `class_create`
or `device_create` fails, bound with nothing registered (`hollow`). `Settle` is what
becomes of the device, `client` the static pointer B's probe stores last. `stale` is the class A's empty
remove leaves. `bare` is the driver without an `id_table` that the note at
`i2c/i2c-con/i2c-s3c2410.c:273` is about. The driver core that calls these functions
is external.

In `Mpu6050` each transfer is one action: `Wake`, `ReadLow`, `ReadHigh`, or `ReadFails`;
a byte is named by its measurement's number. `Return` is `copy_to_user` with A's and B's
own results. Two facts about the code that the model keeps: A puts a negative errno
into an `unsigned char`, so its tests (lines 90 and 95) are never true; B never
writes register 0x6B though `i2c/i2c-note.txt` says a driver does so first.
`my_mpu6050_app.c` tests its ioctl the wrong way round (line 53), which for a result
of 2 or -1 changes nothing.

`I2cSystem` conjoins the two. `FileLeads` says when a program's file leads to the
sensor: A's while A is bound (A sends to 0x68 whatever its own device is), B's while B
is bound and its `client` is the sensor, `/dev/i2c-5` once the scan is over. A module with
an open file is not unloaded. Not followed there are programs whose transfers do not
go to the sensor:

* those that open the node A's empty remove leaves (`mpu6050_driver.c:211-215`): device,
  cdev and number stay, the structure behind them is freed. `DriverUse` has that open
  (`TooLate`);
* those that open B's file before `i2c-mpu6050-driver.c:149` has stored the client.
  `DriverUse` has that too (`TooEarly`);
* those that open B's file when another device is its client;
* the unloading of B with a hollow device, which oopses in its remove.

## 3. What the runs check

| Run (`.cfg`) | Instance | Shows |
|---|---|---|
| `MCAdcV2` | V2, 2 processes, one polling and one blocking file, samples 0..1, INIT and START | one session at a time, no lost wake-up, clock and configuration kept, in every interleaving of open, ioctl, read, close, handler and converter |
| `MCAdcFork` | V1, 2 processes that may share a file, every command | a session ends with the last close, every sharer is woken, the handler never runs out of session, no mix of STOPs and closes leaves the clock on |
| `MCAppV1` | one V1 program, samples 0..3 | implements `Sampler`, its liveness included; a read answers the START before it |
| `MCAppV1Kill` | one V1 program, killed at will | no reading is the marker; printing resumes for ever |
| `MCAppV2Two` | two polling V2 programs, kills, refused opens | a conversion runs on a fully configured converter only; when all have ended, line, clock and queue are free; a program left alone prints for ever, refused opens being tried again |
| `MCLedRegisters` | 2 processes on separate banks, failing maps | an LED stays as last told; four pins are outputs after an open |
| `MCDriverUse` | 2 devices of any of the 9 drivers, 2 programs, files opened at any time there is a node; 1,063,923 states | the five properties of probe and remove; an open file's driver is bound with all it got; overlapping opens of the platform LED notice their own failed mapping; a handler has what it needs even in mid-probe; the GPIO LED goes dark; a ring follows the last press |
| `MCI2cSystem` | 2 children in 3 device trees, drivers A, B and `bare`, 2 programs of any of 4 kinds | children are served, no device is missed, what is bound matches; readings are regular, errors are not lost, the sensor stays awake; B's open file keeps its client while B is tried with the other device (1,529,248 states) |

Four runs end in a counterexample. Each contradicts a comment of the code or what
its test program takes for granted:

| Run | What the code does | What is said |
|---|---|---|
| `MCAppV2PollMarker` | V2:98 wants flag *and* sample missing for EAGAIN, so a read before the handler returns -1 as a sample | the program prints any `n >= 0` result as a reading |
| `MCAppV2Zero` | V2:106 waits for `adc_data > 0`: a sample of 0 leaves the reader asleep | "wake the waiting readers" (V2:51) |
| `MCAppV1Hang` | V1:64: an open that `request_irq` refuses has erased the running session's sample | "wake the waiting readers" (V1:50) |
| `MCAppV1Stale` | V1:66: the new session's handler takes the old session's conversion | START "enables the conversion", then read "reads its value" (`adc/version1/app/test.c:27-29`) |

V2's own program polls; the blocking program of `MCAppV2Zero` is V1's run on V2's
driver.

### Bounds, and why they are enough

* Two processes: the driver has one line, one sample and one clock; what a third
  process could add to a race of two, the second can play after the first. The
  wake-up of several readers needs two sleepers (`MCAdcFork`).
* Two files: one leaving and one entering.
* Samples 0..1: the code compares a sample with 0 and -1 only. Where no property
  looks at the value the range is {0}. `MCAppV1` has four values so that a mixed-up
  sample is seen.
* STOP is left out of `MCAdcV2`, so that there the clock's count is the number of open
  files exactly; `MCAdcFork` has it and checks that the count is never above. The count is bounded by the number of opens, so no counter needs a cap.
* Two processes in `MCLedRegisters`: one undoes the other's write of the shared
  bank. The proof covers any number.
* Two instances in `MCDriverUse`, of every pair of drivers: names are taken in pairs,
  and a static bottom half is shared by two. Two programs: one that stays and one
  that goes, or two opens of one platform LED that overlap.
* Two nodes in `MCI2cSystem`, in three trees: the sensor as the board names it beside
  a child without an address; the sensor by its id, with `bare` loadable; two
  devices that drivers A and B compete for. One measurement (`LastMeasurement = 1`) separates
  "before" from "after" for each of the two bytes. The proofs assume none of this.

No state constraint is used; the state spaces are finite as they are. Symmetry is
used over the programs of `MCDriverUse` and `MCI2cSystem`: they are interchangeable
and both runs check invariants only. Deadlock is checked except where the system
really stops: when all have died or leak (`MCLedRegisters`, `MCDriverUse`), when the last
measurement is made and a hollow device holds B (`MCI2cSystem`), and in `MCAppV2Zero` and
`MCAppV1Hang`, whose finding is that a program hangs.

### Fairness

Only `AppSpec` states any, weak throughout. `AppCall` and `AppInCall` of every
program: the scheduler runs what can run, and what a program's loop waits for outside
the driver ends: both sleep for one second a turn (`adc/version1/app/test.c:33`,
`adc/version2/app/test.c:38`).
`AppIsr`: the controller delivers an asserted interrupt to a registered handler,
and the handler cannot be held up. `AppFinish`: a clocked converter finishes what it
began. Nothing is assumed of kills, of restarts (a user need not start a program
again) or of refusals beyond the driver's own, and a sleeping reader is not fair
unless it has been woken: that is what is checked. The other modules state safety
only: nobody has to load a driver, press a key or open a file.

## 4. What is proved

`tlapm` checks these for every set of processes, files, devices and nodes and both
versions.

| Theorem | Says |
|---|---|
| `AdcDriverProofs!TypeCorrect` | `[]TypeOK` |
| `AdcDriverProofs!WakeupSafe` | `[]NoLostWakeup` |
| `AdcDriverProofs!SessionSafe` | `[]ExclusiveSession` |
| `AdcDriverProofs!ClockSafe` | `[]ClockBalanced` |
| `AdcDriverProofs!ConfigSafe` | `ConfigSticky` |
| `AdcDriverProofs!HandlerSafe` | `[]HandlerInSession` |
| `AdcAppProofs!AppIsDriver` | `AdcApp` implements `AdcDriver` |
| `AdcAppProofs!DriverKeepsPromises` | sessions, wake-ups, handler and clock, under the programs |
| `AdcAppProofs!AppTypeCorrect`, `TunedSafe` | `[]AppTypeOK`, `[]Tuned` |
| `AdcAppProofs!QuietSafe` | `[]QuietWhenGone` |
| `AdcAppProofs!SamplerSafe`, `AnswerIsOwn` | one blocking program, not killed, takes only steps of `Sampler`; `[]ReadAnswersStart` |
| `AdcAppProofs!ReadIsSampleSafe` | one blocking program, killed or not: `[]ReadIsSample` |
| `LedRegistersProofs!TypeCorrect` | `[]TypeOK` |
| `LedRegistersProofs!PinsSafe` | `[]PinsAreOutputs` |
| `LedRegistersProofs!SwitchSafe` | `[]LedAsTold` |
| `DriverLifecycleProofs!LifecycleTypeCorrect` | `[]TypeOK` |
| `DriverLifecycleProofs!FailureSafe`, `RemoveSafe`, `BindingComplete` | `[]FailureFreesAll`, `[]RemoveFreesAll`, `[]BoundIsComplete` |
| `DriverLifecycleProofs!ReleaseSafe`, `LiveSafe` | `[]NoStrayRelease`, `[]LiveIsReady` |
| `DriverUseProofs!ImplementsLifecycle` | `DriverUse` implements `DriverLifecycle` |
| `DriverUseProofs!UseTypeCorrect` | `[]UseTypeOK` |
| `DriverUseProofs!UseLeavesNothing` | the five of the engine, for drivers in use |
| `DriverUseProofs!OpenFileSafe`, `NullSafe` | `[]OpenFileIsServed`, `[]NullComesFromOthers` |
| `DriverUseProofs!LedGoesDark`, `PressSafe`, `HandlerSafe` | `[]GpioLedGoesDark`, `[]PressIsRung`, `[]HandlerIsServed` |
| `I2cBusProofs!BusTypeCorrect`, `ChildrenSafe`, `MatchSafe`, `BindingSafe` | `[]BusTypeOK`, `[]ChildrenServed`, `[]NobodyMissed`, `[]BoundRightly` |
| `Mpu6050Proofs!MpuTypeCorrect`, `ReadingSafe`, `AwakeSafe`, `ErrorSafe` | `[]MpuTypeOK`, `[]RegularReading`, `[]AwakeWhenRead`, `[]NoErrorLost` |
| `I2cSystemProofs!ImplementsMpu`, `ImplementsBus` | the composition refines each part |
| `I2cSystemProofs!FileSafe` | `[]FileHasClient` |
| `I2cSystemProofs!SystemKeepsPromises` | the results about each part, for the composition |

Assumptions: the named ASSUMEs of the modules (finitely many files, the "nobody"
values outside their sets, the sets the other constants range over). No bound of a
run is assumed. Three theorems about the ADC programs have hypotheses of their own,
and each is needed:

* `ReadIsSampleSafe` is about one program whose reads block (`Alone`). A polling read
  passes the marker on (`MCAppV2PollMarker`), and a second program's open, even one that
  is refused, erases the sample between the wait and the copy.
* `SamplerSafe` and `AnswerIsOwn` add that nobody kills it (`OneProgram`): after a kill
  the next session takes the old conversion for its own (`MCAppV1Stale`).

The arguments.

* *Wake-up* is inductive with the types: only `IsrStore` makes the condition true,
  and it moves the handler to `wake`; only `ReadRecheck` puts a process to sleep,
  having found the condition false while queued; `IsrWake` empties the queue.
* *Session*: `ExclusiveSession` does not say who may be inside a call. The
  strengthening adds that a call has a file, and that a file whose open or release is under way has that
  process as its only holder; then `OpenRequestIrq` is the only way into a session
  and the guard of the line excludes a second file.
* *Clock*: the same strengthening makes the set of enabled files grow by exactly
  one in `OpenEnableClk` and shrink by one in `ReleaseDisableClk`; STOP only lowers the
  count, so "never above" is inductive with STOP and "equal" without it.
* *Handler*: `HandlerInv` says that a handler that runs while the line is free is being
  waited for by the `free_irq` of a release, and that whoever is on the queue is at one
  of the two steps that take it off.
* *After the last program*: `EndedInv` (a program that has ended is in no call and has no
  file) with the session, handler and clock arguments leaves nothing that could hold
  line, clock or queue.
* *Configuration*: a START between its read and its write belongs to the process
  that holds the line, and without fork there is one; so the word it has read is
  the register but for the flag.
* *Pins*: pin 3 is never lost once written, since whoever writes pin 4's bits has
  read a word with pin 3 in it; pin 4 may be lost to a process that is about to
  write pin 3, but that process is then on its way to pin 4, unless it dies of a
  failed mapping. `PinsInv` says this, as long as all are `Alive`.
* *LED state*: the word a process is about to write to a bank it alone drives is
  the word the bank holds.
* *Tuned*: `TunedInv` ties the two halves of INIT to the program's place in its loop:
  whoever is past INIT has written both, and nothing ever unwrites them, so a START finds
  both, after any kills of others.
* *Sampler*: `Loop` says, for the one program, which of its calls go with which state
  of line, converter and sample; each step then maps to a step of `Sampler` or none.
* *Marker*: `Loop` does not survive a kill, `MarkerInv` does: from the wait to the copy
  the driver has a sample, and from the copy on the buffer has one.
* *Probe and remove*: `Accounted` says that while a device unwinds or is being
  removed, what it still holds is in what it is still to give back, or is among the things
  its driver is known to leave (`LeftByFailure`, `LeftByRemove`). It needs
  `HasUpTo` (what a probe has got is exactly what the steps before the current one
  get) and, of the tables, that every undo list covers the things of the earlier steps
  but for those: that is checked by expanding each table, so a table with a forgotten
  undo fails the proof. `Honest` (a driver outside `Misreporting` never returns 0 after a
  failure) gives the first half of `BoundIsComplete`; for the others `Accounted` says
  that a failure that returned 0 has left nothing, which is the second.
* *Order of release*: `OrderInv` adds what `NoStrayRelease` and `LiveIsReady` need, which
  `Accounted` does not say. Every entry of the list of a device that gives back is one of
  its driver's known stray releases, or is on the list once and is held or harmless
  (`ListIsSound`); this covers all nine drivers, and leaves out only a remove after a
  misreported failure (`Hollow`). Of the drivers that publish last, what can be called has
  all it needs (`ReadyIfLive`), and no need comes off the list before what still
  publishes the device (`WithdrawsFirst`). The facts about the tables are again found by
  expanding them: a probe that publishes too early or an error label that gives back in
  the wrong order fails the proof. `LiveSafe` has the early publishers from `HasUpTo` at
  the end of the probe.
* *Use*: every step of `DriverUse` is a step of `DriverLifecycle` or leaves its variables
  alone, so the engine's theorems carry over. An open file is `Serving`: its node is there
  and its device is bound with everything its probe got, or is one of the two windows.
  That nothing else leads to an open file needs `Accounted`, that the node is the
  last thing a probe gets that can fail (`NodeComesLast`, by expanding the tables; the ADC
  driver's clock comes after it), and that what is forgotten in unwinding is not given back
  later (`NodesForgotten`). That it stays so needs that a file in a window can only go on
  to the bound state or, with the ADC driver, to failure, and that no remove starts.
  `OpenFileIsServed` then is what the driver needs of what it got.
* *Mappings*: `NullComesFromOthers` is inductive with `Opening` (a program inside
  `led_device_open` has a platform LED's file): a NULL is stored by an open, which is then
  the mapper and is at its test, and the test sends it away.
* *Handlers and presses*: `UseInv` adds that a handler that runs belongs to a key whose
  interrupt is held, so that `LiveIsReady`, the interrupt being what publishes a key
  driver, gives `HandlerIsServed`.
* *Bus*: `NobodyMissed` is strengthened to "missed by neither scan": each pair of a
  listed device and a listed driver that match has been tried by one of the scans or is
  still to be tried by one that is under way. Unloading frees devices, and only the
  exclusive bus name keeps another driver that matches from being listed then.
* *Client*: `ClientStored` says that the device that has B's file is the one whose client
  is stored: a probe that does not get the number stores nothing. With the guard that a
  module with an open file stays, `FileSafe` follows over every overlap of the scans.
* *Readings*: between `Ask` and the end `start <= low <= measured`, the next byte is
  read no earlier.

Model-checked only: what is temporal beyond safety, `RecoversFromKills` and the
liveness half of `ImplementsSampler`: liveness under fairness is out of the prover's
reach. Every other property of a run that passes is stated by a theorem.

## 5. Where the code breaks a property

The properties name the drivers whose code breaks them, and say of most of these what
exactly happens, so that anything else would still be found:

| Property | Driver | What the code does | What is said all the same |
|---|---|---|---|
| `FailureFreesAll` | adc | V2:335 releases the device's own resource, not the region; V2:236-240 returns past the error labels | region, number, cdev, class and device may stay (`LeftByFailure`), nothing else |
| `RemoveFreesAll` | adc | V2:357 as V2:335, and the clock is never put | region and clock stay (`LeftByRemove`) |
| | mpu_a | `mpu6050_driver.c:211-215` is empty | number, cdev, class and device stay |
| `BoundIsComplete` | led, mpu_b | 0 returned at the labels: `led_driver.c:193-203`, `i2c-mpu6050-driver.c:135-158` | they then hold nothing |
| | s3c2410 | `ret` is the interrupt number 0 (`i2c-s3c2410.c:88-91`) | as above |
| `NoStrayRelease` | adc | `padc` freed at V2:256 and V2:340; V2:335 | only `mem` and `parent` are given back wrongly (`StrayOf`) |
| | led, platform_led | a number that was refused is unregistered, whoever has it: `led_driver.c:217`, `led_char.c:188` | only the number |
| | s3c2410 | the notifier the excerpt does not register (`i2c-s3c2410.c:116`) | only the notifier |
| | led, mpu_b | exit or remove after a failure that returned 0 | only then (`Hollow`) |
| `LiveIsReady` | adc, platform_led, mpu_b | V2:324, `platform/driver/led_driver.c:76-82`, `i2c-mpu6050-driver.c:149`: what an entry point uses comes after the node | they are ready once bound |
| | mpu_a | the structure is freed under the live cdev after remove | it is ready while bound |
| `OpenFileIsServed` | adc, platform_led, mpu_b | a file opened before the lines above (V2 also before the clock, V2:236) | `TooEarly`: only while the probe runs; then it is served like any other |
| | adc, mpu_a | a file opened on the node left by V2:236-240 or `mpu6050_driver.c:211-215` | `TooLate`: only these two |
| `NullComesFromOthers` | platform_led | another open that failed has stored NULL (`led_char.c:82`) | no other way leads past the test with one |
| `PressIsRung` | two key devices | the second probe initialises the static bottom half the first has scheduled (`key-interrupt.c:33`) | one device alone loses no press, in mid-probe too |
| `AwakeWhenRead` | B, `my_mpu6050_app.c` | neither wakes the sensor | - |
| `NoErrorLost` | A, the programs on `/dev/i2c-5` | they do not test, or test an `unsigned char` for `< 0` | - |

`OpenFileIsServed` is about what probe got. The mapping the platform LED's operations
go through is made by open, and `NullComesFromOthers` is about that; the four mappings
of `led_driver/` are in `LedRegisters`.

`PinsAreOutputs` holds while no process has died of a mapping that failed and was not
tested (`led_driver.c:86` tests one of four), `LedAsTold` for banks with one user;
the equality in `ClockBalanced` is for users without STOP; `ConfigSticky` is for files that fork does not
share. The bottom half of a key driver may run after its remove (`Ring` has no guard
against it, nor has the code): no property says otherwise.

## 6. Not modelled

* Device trees as such: `I2cBus` has three of their shapes; which resources exist is
  the nondeterministic failure of a probe step.
* The driver core, the I2C transfers inside the controller, the sensor's other
  registers: external, as their callers use them.
* `platform/device/led_device.c`: it registers a platform device "fs4412_led" without a
  node, which the driver named "led" with a `compatible` table does not match.
* sysfs `unbind` under open files; reprobing with what an earlier attempt leaked.
* Kbuild files, generated `.mod.c`, backups (`*.bak`), binaries.
* Messages, formats, the scaling of a sample to a voltage or a temperature.

## 7. Plan

Done, in order: `AdcDriver` with its proofs, `AdcApp` and `Sampler`, `LedRegisters`
with its proofs, `ProbeTables` and `DriverLifecycle`, `DriverUse`, `I2cBus`, `Mpu6050`
and their composition, the proofs of all of them.

Next, most important first:

1. sysfs `unbind` under open files, as a further way into `StartRemove`, and which of
   the properties of open files it breaks.
2. A refinement of `Mpu6050` to an abstract sensor reading, as `Sampler` is for the ADC.
