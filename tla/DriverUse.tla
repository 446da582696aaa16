------------------------------- MODULE DriverUse -------------------------------
(***************************************************************************)
(* The drivers of DriverLifecycle in use: programs that have their device  *)
(* files open, key presses that interrupt, and the LED on pin GPX2_7 that  *)
(* three of the drivers switch. What the file operations of the ADC, the   *)
(* four LEDs and the MPU6050 do is the subject of other modules; here a    *)
(* file of theirs matters because it keeps the driver loaded.              *)
(***************************************************************************)
EXTENDS DriverLifecycle

CONSTANT User       \* the programs

VARIABLES
    file,       \* the instance each program has open or is opening
    step,       \* how far it is: "test" or "init" in led_device_open, "dead"
                \* when it died there, "idle" outside
    mapping,    \* platform LED: where led1_reg leads: "none" (NULL), "led",
                \* or "wild" when its address was not yet known
    mapper,     \* the program that stored it last
    lighter,    \* the driver that switched the LED on, NoName when it is off
    latched,    \* instances whose interrupt is asserted
    running,    \* instances whose interrupt handler runs
    pending,    \* drivers whose bottom half is scheduled (it is a static one)
    owed        \* instances pressed since the last ring began

fileVars == <<file, step, mapping, mapper, lighter>>
keyVars  == <<latched, running, pending, owed>>
useVars  == <<vars, fileVars, keyVars>>

HasFile == {"adc", "led", "platform_led", "gpio_led", "mpu_a", "mpu_b"}
HasLed  == {"led", "platform_led", "gpio_led"}
HasKey  == {"key", "key_plain"}

UseTypeOK ==
    /\ TypeOK
    /\ file \in [User -> Inst \cup {Nobody}]
    /\ step \in [User -> {"idle", "test", "init", "dead"}]
    /\ mapping \in [Inst -> {"none", "led", "wild"}]
    /\ mapper \in [Inst -> User \cup {Nobody}]
    /\ lighter \in HasLed \cup {NoName}
    /\ latched \subseteq Inst
    /\ running \subseteq Inst
    /\ pending \subseteq HasKey
    /\ owed \subseteq Inst

UseInit ==
    /\ Init
    /\ file = [u \in User |-> Nobody]
    /\ step = [u \in User |-> "idle"]
    /\ mapping = [i \in Inst |-> "none"] /\ mapper = [i \in Inst |-> Nobody]
    /\ lighter = NoName
    /\ latched = {} /\ running = {} /\ pending = {} /\ owed = {}

-----------------------------------------------------------------------------
(* Files. *)
SetFile(u, i) == file' = [file EXCEPT ![u] = i]
KindOf(u) == kind[file[u]]

Goto(u, where) == step' = [step EXCEPT ![u] = where]
Idle(u)   == file[u] # Nobody /\ step[u] = "idle"

(* A device file can be opened from device_create on, in the middle of     *)
(* probe too, and as long as it is there: after a failure or a remove that *)
(* leaves it as well. Not while rmmod has the module's remove called.      *)
Openable(i) ==
    /\ kind[i] \in HasFile /\ state[i]["device"] = "held"
    /\ \A j \in Inst : kind[j] = kind[i] => phase[j] # "removing"

(* The open functions of drivers without an action of their own here.      *)
Open(u, i) ==
    /\ file[u] = Nobody /\ Openable(i) /\ kind[i] # "platform_led"
    /\ SetFile(u, i)
    /\ UNCHANGED <<vars, step, mapping, mapper, lighter, keyVars>>

(* led_device_open: every open maps the registers anew, for all holders.   *)
Map(u, i, next) ==
    /\ file[u] = Nobody /\ step[u] = "idle"
    /\ Openable(i) /\ kind[i] = "platform_led"
    /\ SetFile(u, i) /\ Goto(u, next)
    /\ \E to \in {"none", IF state[i]["fields"] = "held" THEN "led" ELSE "wild"} :
            mapping' = [mapping EXCEPT ![i] = to]
    /\ mapper' = [mapper EXCEPT ![i] = u]
    /\ UNCHANGED <<vars, lighter, keyVars>>

(* Mutant: open goes on without testing the mapping. *)
OpenMapUntested(u, i) == Map(u, i, "init")

OpenMap(u, i) == Map(u, i, "test")

(* It tests the pointer, which another open may have stored since. *)
OpenTest(u) ==
    /\ step[u] = "test"
    /\ IF mapping[file[u]] = "none" THEN SetFile(u, Nobody) /\ Goto(u, "idle")
                                   ELSE UNCHANGED file /\ Goto(u, "init")
    /\ UNCHANGED <<vars, mapping, mapper, lighter, keyVars>>

(* led_init writes through it. A program that dies of it inside open takes *)
(* the module's reference with it.                                         *)
OpenInit(u) ==
    /\ step[u] = "init"
    /\ \/ mapping[file[u]] # "none" /\ Goto(u, "idle")
       \/ mapping[file[u]] # "led"  /\ Goto(u, "dead")
    /\ UNCHANGED <<vars, file, mapping, mapper, lighter, keyVars>>

(* The ioctl functions of the LED drivers. *)
Switch(u, on) ==
    /\ Idle(u) /\ KindOf(u) \in HasLed
    /\ KindOf(u) = "platform_led" => mapping[file[u]] = "led"
    /\ lighter' = IF on THEN KindOf(u) ELSE NoName
    /\ UNCHANGED <<vars, file, step, mapping, mapper, keyVars>>

(* led_control_on through a NULL or a wild led1_reg: the program dies, or  *)
(* writes where no LED is.                                                 *)
SwitchOops(u) ==
    /\ Idle(u) /\ KindOf(u) = "platform_led" /\ mapping[file[u]] # "led"
    /\ SetFile(u, Nobody)
    /\ UNCHANGED <<vars, step, mapping, mapper, lighter, keyVars>>

(* Mutant: release leaves the LED as it is. *)
CloseQuietly(u) ==
    /\ Idle(u)
    /\ SetFile(u, Nobody)
    /\ UNCHANGED <<vars, step, mapping, mapper, lighter, keyVars>>

(* A program closes its file or is killed. exynos_led_release switches the *)
(* LED off, whoever switched it on.                                        *)
Close(u) ==
    /\ Idle(u)
    /\ SetFile(u, Nobody)
    /\ lighter' = IF KindOf(u) = "gpio_led" THEN NoName ELSE lighter
    /\ UNCHANGED <<vars, step, mapping, mapper, keyVars>>

-----------------------------------------------------------------------------
(* Keys. *)
Press(i) ==
    /\ kind[i] \in HasKey /\ state[i]["irq"] = "held"
    /\ latched' = latched \cup {i} /\ owed' = owed \cup {i}
    /\ UNCHANGED <<vars, fileVars, running, pending>>

EnterHandler(i) ==
    /\ i \in latched \ running
    /\ latched' = latched \ {i} /\ running' = running \cup {i}
    /\ UNCHANGED <<vars, fileVars, pending, owed>>

(* key_interrupt: schedule the bottom half; the plain driver has none.     *)
KeyInterrupt(i) ==
    /\ i \in running
    /\ running' = running \ {i}
    /\ \/ /\ kind[i] = "key"
          /\ pending' = pending \cup {kind[i]} /\ UNCHANGED owed
       \/ /\ kind[i] = "key_plain"
          /\ owed' = owed \ {i} /\ UNCHANGED pending
    /\ UNCHANGED <<vars, fileVars, latched>>

(* key_interrupt_handle: the scheduled flag is down before it runs. *)
Ring(k) ==
    /\ k \in pending
    /\ pending' = pending \ {k}
    /\ owed' = {i \in owed : kind[i] # k}
    /\ UNCHANGED <<vars, fileVars, latched, running>>

-----------------------------------------------------------------------------
(* Probe and remove, while programs and interrupts go on.                  *)

(* Initialising the static bottom half clears the state of one that may    *)
(* still be listed; what then becomes of it is not said.                   *)
Reinitialised(i) ==
    IF kind[i] = "key" /\ Current(i).gets = "bottom_half" THEN {"key"} ELSE {}

ProbeStep(i) ==
    \/ /\ Acquire(i)
       /\ pending' \in {pending, pending \ Reinitialised(i)}
       /\ UNCHANGED <<fileVars, latched, running, owed>>
    \/ /\ StartProbe(i) \/ Fail(i) \/ ReturnFailed(i) \/ EndRemove(i)
       /\ UNCHANGED <<fileVars, keyVars>>

(* Giving back the interrupt waits for its handler. *)
GiveBackStep(i) ==
    /\ GiveBack(i)
    /\ \/ Head(todo[i]) # "irq" /\ UNCHANGED keyVars
       \/ /\ Head(todo[i]) = "irq" /\ i \notin running
          /\ latched' = latched \ {i} /\ owed' = owed \ {i}
          /\ UNCHANGED <<running, pending>>
    /\ UNCHANGED fileVars

(* Mutant: the file operations have no owner. *)
RemoveUnderFile(i) == StartRemove(i) /\ UNCHANGED <<fileVars, keyVars>>

(* rmmod: refused while a file of the module is open (the file operations' *)
(* owner).                                                                 *)
RemoveStep(i) ==
    /\ \A u \in User : file[u] # Nobody => KindOf(u) # kind[i]
    /\ StartRemove(i)
    /\ UNCHANGED <<fileVars, keyVars>>

UseNext ==
    \/ \E i \in Inst :
         \/ ProbeStep(i) \/ GiveBackStep(i) \/ RemoveStep(i)
         \/ Press(i) \/ EnterHandler(i) \/ KeyInterrupt(i)
    \/ \E k \in HasKey : Ring(k)
    \/ \E u \in User :
         \/ Close(u) \/ SwitchOops(u) \/ \E on \in BOOLEAN : Switch(u, on)
         \/ OpenTest(u) \/ OpenInit(u)
         \/ \E i \in Inst : Open(u, i) \/ OpenMap(u, i)

UseSpec == UseInit /\ [][UseNext]_useVars

-----------------------------------------------------------------------------
(* Properties.                                                             *)

(* While a program has a file open its driver is bound, and all that probe *)
(* got for the file operations is there: no remove comes in between (the   *)
(* owner field of the file operations). It may come too early, between the *)
(* device node and the end of the probe, or too late, to a node that a     *)
(* failed probe (ADC) or a remove (driver A) has left.                     *)
TooEarly(i) ==
    kind[i] \in {"adc", "platform_led", "mpu_b"} /\ phase[i] = "probing"
TooLate(i) ==
    \/ kind[i] = "adc" /\ phase[i] \in {"unwinding", "failed"}
    \/ kind[i] = "mpu_a" /\ phase[i] = "absent"

OpenFileIsServed ==
    \A u \in User : file[u] # Nobody =>
        \/ TooEarly(file[u]) \/ TooLate(file[u])
        \/ /\ phase[file[u]] = "bound"
           /\ \A t \in Needs[KindOf(u)] : state[file[u]][t] = "held"

(* A program past the test in led_device_open finds no mapping only when   *)
(* another program's later open failed: its own failure it has noticed,    *)
(* however the opens overlap.                                              *)
NullComesFromOthers ==
    \A u \in User :
        /\ file[u] # Nobody /\ KindOf(u) = "platform_led" /\ step[u] # "test"
        /\ mapping[file[u]] = "none"
        => mapper[file[u]] # u

(* The LED does not stay on because of a program that has gone, however it *)
(* ended: what was switched on through the GPIO driver is off after the    *)
(* last close (exynos_led_release).                                        *)
GpioLedGoesDark ==
    lighter = "gpio_led" => \E u \in User :
                                file[u] # Nobody /\ KindOf(u) = "gpio_led"

(* An interrupt handler runs only while its interrupt is requested and all *)
(* it uses is there, though the press may come in the middle of probe or   *)
(* of remove (key_interrupt, against the order of probe and free_irq).     *)
HandlerIsServed ==
    \A i \in running :
        \A t \in Needs[kind[i]] \cup {"irq"} : state[i][t] = "held"

(* Presses may be merged, but a ring follows the last of them: until it    *)
(* begins the interrupt is asserted, its handler runs or the bottom half   *)
(* is scheduled (key_interrupt). Of one key device: a second probe         *)
(* initialises the bottom half the first one has scheduled.                *)
PressIsRung ==
    \A i \in owed :
        (\A j \in Inst \ {i} : kind[j] # kind[i]) =>
            i \in latched \cup running \/ kind[i] \in pending
=============================================================================
