----------------------------- MODULE LedRegisters -----------------------------
(***************************************************************************)
(* The run time of led_driver/led_driver.c: four LEDs on three GPIO banks, *)
(* driven through read-modify-write of each bank's CON and DAT registers   *)
(* without a lock, by any number of processes. LED 3 and LED 4 share a     *)
(* bank. Every open maps the registers again, into the pointers all        *)
(* processes share, and makes the four pins outputs again.                 *)
(*                                                                         *)
(* A register is the set of LEDs whose bits in it are set: in CON the pins *)
(* that are outputs, in DAT the pins that are high.                        *)
(***************************************************************************)
EXTENDS Integers

CONSTANTS
    Proc,       \* the processes
    Uses,       \* the LEDs each process switches
    MapMayFail  \* can ioremap return NULL?

Led == 1 .. 4

ASSUME UsesAssumption == Uses \in [Proc -> SUBSET Led]
ASSUME MapAssumption == MapMayFail \in BOOLEAN

Bank == <<"GPX2", "GPX1", "GPF3", "GPF3">>
Banks == {"GPX1", "GPX2", "GPF3"}

VARIABLES
    mapped, \* the LEDs whose pled->ledN_reg is not NULL
    con,    \* CON of each bank
    dat,    \* DAT of each bank
    told,   \* the LEDs the last completed ioctl on them switched on
    pc,     \* where each process is
    led,    \* the LED it is at
    on,     \* does its ioctl switch on?
    val,    \* its local copy of a register
    opened  \* the processes that have the device open

registers == <<con, dat, told>>
process   == <<pc, led, on, val>>
vars      == <<mapped, registers, process, opened>>

Step == {"user", "map", "check", "init_read", "init_write", "ctl_read",
         "ctl_write", "oops"}

TypeOK ==
    /\ mapped \subseteq Led
    /\ con \in [Banks -> SUBSET Led]
    /\ dat \in [Banks -> SUBSET Led]
    /\ told \subseteq Led
    /\ pc \in [Proc -> Step]
    /\ led \in [Proc -> Led]
    /\ on \in [Proc -> BOOLEAN]
    /\ val \in [Proc -> SUBSET Led]
    /\ opened \subseteq Proc

Init ==
    /\ mapped = {}
    /\ con = [b \in Banks |-> {}]
    /\ dat = [b \in Banks |-> {}]
    /\ told = {}
    /\ pc = [p \in Proc |-> "user"]
    /\ led = [p \in Proc |-> 1]
    /\ on = [p \in Proc |-> FALSE]
    /\ val = [p \in Proc |-> {}]
    /\ opened = {}

-----------------------------------------------------------------------------
Goto(p, step) == pc' = [pc EXCEPT ![p] = step]
Keep(p, bits) == val' = [val EXCEPT ![p] = bits]

(* Back in user space the locals are dead. *)
Return(p) ==
    /\ Goto(p, "user") /\ Keep(p, {})
    /\ led' = [led EXCEPT ![p] = 1]
    /\ on' = [on EXCEPT ![p] = FALSE]

(* led_device_open: map the four windows, then led_init for each pin.      *)
Open(p) ==
    /\ pc[p] = "user" /\ p \notin opened
    /\ Goto(p, "map")
    /\ UNCHANGED <<mapped, registers, led, on, val, opened>>

(* Mutant: the last window is not the last. *)
MapPastEnd(p) ==
    /\ pc[p] = "map"
    /\ mapped' = mapped \cup {led[p]}
    /\ IF led[p] = 5
       THEN Goto(p, "check") /\ led' = [led EXCEPT ![p] = 1]
       ELSE led' = [led EXCEPT ![p] = led[p] + 1] /\ UNCHANGED pc
    /\ UNCHANGED <<registers, on, val, opened>>

Map(p) ==
    /\ pc[p] = "map"
    /\ \/ mapped' = mapped \cup {led[p]}
       \/ MapMayFail /\ mapped' = mapped \ {led[p]}
    /\ IF led[p] = 4
       THEN Goto(p, "check") /\ led' = [led EXCEPT ![p] = 1]
       ELSE led' = [led EXCEPT ![p] = led[p] + 1] /\ UNCHANGED pc
    /\ UNCHANGED <<registers, on, val, opened>>

(* Only the first of the four pointers is tested. *)
OpenCheck(p) ==
    /\ pc[p] = "check" /\ 1 \in mapped
    /\ Goto(p, "init_read")
    /\ UNCHANGED <<mapped, registers, led, on, val, opened>>

OpenFail(p) ==
    /\ pc[p] = "check" /\ 1 \notin mapped
    /\ Return(p)
    /\ UNCHANGED <<mapped, registers, opened>>

InitRead(p) ==
    /\ pc[p] = "init_read" /\ led[p] \in mapped
    /\ Keep(p, con[Bank[led[p]]])
    /\ Goto(p, "init_write")
    /\ UNCHANGED <<mapped, registers, led, on, opened>>

(* Mutant: led_init writes its pin's mode only, not the bits it has read. *)
InitWriteOnly(p) ==
    /\ pc[p] = "init_write"
    /\ con' = [con EXCEPT ![Bank[led[p]]] = {led[p]}]
    /\ IF led[p] = 4
       THEN Return(p) /\ opened' = opened \cup {p}
       ELSE /\ Goto(p, "init_read") /\ Keep(p, {})
            /\ led' = [led EXCEPT ![p] = led[p] + 1]
            /\ UNCHANGED <<on, opened>>
    /\ UNCHANGED <<mapped, dat, told>>

InitWrite(p) ==
    /\ pc[p] = "init_write"
    /\ con' = [con EXCEPT ![Bank[led[p]]] = val[p] \cup {led[p]}]
    /\ IF led[p] = 4
       THEN Return(p) /\ opened' = opened \cup {p}
       ELSE /\ Goto(p, "init_read") /\ Keep(p, {})
            /\ led' = [led EXCEPT ![p] = led[p] + 1]
            /\ UNCHANGED <<on, opened>>
    /\ UNCHANGED <<mapped, dat, told>>

-----------------------------------------------------------------------------
(* led_ioctl: led_control_on and led_control_off. An unknown command       *)
(* changes nothing and returns 0.                                          *)
Ioctl(p) ==
    /\ pc[p] = "user" /\ p \in opened
    /\ \E l \in Uses[p] : led' = [led EXCEPT ![p] = l]
    /\ \E b \in BOOLEAN : on' = [on EXCEPT ![p] = b]
    /\ Goto(p, "ctl_read")
    /\ UNCHANGED <<mapped, registers, val, opened>>

(* Mutant: LED_CON is read where LED_DAT is meant. *)
CtlReadCon(p) ==
    /\ pc[p] = "ctl_read" /\ led[p] \in mapped
    /\ Keep(p, con[Bank[led[p]]])
    /\ Goto(p, "ctl_write")
    /\ UNCHANGED <<mapped, registers, led, on, opened>>

CtlRead(p) ==
    /\ pc[p] = "ctl_read" /\ led[p] \in mapped
    /\ Keep(p, dat[Bank[led[p]]])
    /\ Goto(p, "ctl_write")
    /\ UNCHANGED <<mapped, registers, led, on, opened>>

Switched(set, l, isOn) == IF isOn THEN set \cup {l} ELSE set \ {l}

CtlWrite(p) ==
    /\ pc[p] = "ctl_write"
    /\ dat' = [dat EXCEPT ![Bank[led[p]]] = Switched(val[p], led[p], on[p])]
    /\ told' = Switched(told, led[p], on[p])
    /\ Return(p)
    /\ UNCHANGED <<mapped, con, opened>>

(* A register access through NULL: the kernel kills the process. *)
Oops(p) ==
    /\ pc[p] \in {"init_read", "ctl_read"} /\ led[p] \notin mapped
    /\ Goto(p, "oops")
    /\ UNCHANGED <<mapped, registers, led, on, val, opened>>

(* led_device_release does nothing: the windows stay mapped, the LEDs lit. *)
Release(p) ==
    /\ pc[p] = "user" /\ p \in opened
    /\ opened' = opened \ {p}
    /\ UNCHANGED <<mapped, registers, process>>

ProcStep(p) ==
    \/ Open(p) \/ Map(p) \/ OpenCheck(p) \/ OpenFail(p) \/ InitRead(p)
    \/ InitWrite(p) \/ Ioctl(p) \/ CtlRead(p) \/ CtlWrite(p) \/ Oops(p)
    \/ Release(p)

Next == \E p \in Proc : ProcStep(p)

Spec == Init /\ [][Next]_vars

-----------------------------------------------------------------------------
(* Properties.                                                             *)

Configuring(p) == pc[p] \in {"init_read", "init_write"}

(* When an open has succeeded and no led_init is under way, the four pins  *)
(* are outputs: an open may undo another's write of the shared bank, but   *)
(* then it is still to write LED 4's bits itself (led_device_open,         *)
(* led_init). A process that dies on the way leaves the other's pin        *)
(* undone, so nobody must have died.                                       *)
PinsAreOutputs ==
    /\ opened # {}
    /\ \A p \in Proc : ~Configuring(p) /\ pc[p] # "oops"
    => \A l \in Led : l \in con[Bank[l]]

(* No other process switches an LED of l's bank. *)
Users(l) == {p \in Proc : \E k \in Uses[p] : Bank[k] = Bank[l]}
SoleUser(l) == \A p, q \in Users(l) : p = q

(* An LED on a bank that one process drives is as the last completed ioctl *)
(* left it, whatever the others do to theirs and whoever opens the device  *)
(* (led_control_on, led_control_off).                                      *)
LedAsTold ==
    \A l \in Led : SoleUser(l) => (l \in dat[Bank[l]] <=> l \in told)
=============================================================================
