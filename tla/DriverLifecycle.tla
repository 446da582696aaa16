---------------------------- MODULE DriverLifecycle ----------------------------
(***************************************************************************)
(* Probing and removing the drivers of ProbeTables: instances (devices, or *)
(* modules that probe no device) are probed, fail at any step, unwind, are *)
(* removed and probed again, in every interleaving. Instances compete for  *)
(* device numbers and class names.                                         *)
(***************************************************************************)
EXTENDS ProbeTables, Naturals

CONSTANTS
    Inst,       \* the instances
    Kinds,      \* the drivers an instance may be of
    Nobody      \* "no instance"

ASSUME KindsAssumption == Kinds \subseteq Driver
ASSUME NobodyAssumption == Nobody \notin Inst

VARIABLES
    kind,   \* the driver of each instance
    phase,  \* "absent", "probing", "unwinding", "failed", "bound",
            \* "removing" or "oops"
    at,     \* the probe step an instance has come to
    todo,   \* what it is still to give back
    verdict,\* what the function returns when it has given it back
    state,  \* each thing of each instance: "none", "held" or "freed"
    owner   \* the instance a name is registered for

vars == <<kind, phase, at, todo, verdict, state, owner>>

Phase == {"absent", "probing", "unwinding", "failed", "bound", "removing",
          "oops"}

TypeOK ==
    /\ kind \in [Inst -> Kinds]
    /\ phase \in [Inst -> Phase]
    /\ at \in [Inst -> Nat]
    /\ \A i \in Inst : at[i] \in 1 .. Len(Probe[kind[i]]) + 1
    /\ todo \in [Inst -> Seq(Thing)]
    /\ verdict \in [Inst -> {"error", "ok", "oops"}]
    /\ state \in [Inst -> [Thing -> {"none", "held", "freed"}]]
    /\ owner \in [Names -> Inst \cup {Nobody}]

Nothing == [t \in Thing |-> "none"]

Init ==
    /\ kind \in [Inst -> Kinds]
    /\ phase = [i \in Inst |-> "absent"]
    /\ at = [i \in Inst |-> 1]
    /\ todo = [i \in Inst |-> <<>>]
    /\ verdict = [i \in Inst |-> "error"]
    /\ state = [i \in Inst |-> Nothing]
    /\ owner = [n \in Names |-> Nobody]

-----------------------------------------------------------------------------
Held(i)     == {t \in Owned : state[i][t] = "held"}
Current(i)  == Probe[kind[i]][at[i]]
Name(i, t)  == NameOf(kind[i], t)
GoPhase(i, p)   == phase' = [phase EXCEPT ![i] = p]
Mark(i, t, s)   == state' = [state EXCEPT ![i][t] = s]
Register(i, t, who) ==
    owner' = IF Name(i, t) = NoName THEN owner
             ELSE [owner EXCEPT ![Name(i, t)] = who]
Taken(i, t) == Name(i, t) # NoName /\ owner[Name(i, t)] # Nobody

(* The driver is loaded, the device appears. What an earlier attempt has   *)
(* left behind is not followed into the next one.                          *)
StartProbe(i) ==
    /\ phase[i] \in {"absent", "failed"} /\ Held(i) = {}
    /\ GoPhase(i, "probing")
    /\ at' = [at EXCEPT ![i] = 1]
    /\ state' = [state EXCEPT ![i] = Nothing]
    /\ UNCHANGED <<kind, todo, verdict, owner>>

Acquire(i) ==
    /\ phase[i] = "probing" /\ ~Taken(i, Current(i).gets)
    /\ Mark(i, Current(i).gets, "held")
    /\ Register(i, Current(i).gets, i)
    /\ at' = [at EXCEPT ![i] = at[i] + 1]
    /\ IF at[i] = Len(Probe[kind[i]]) THEN GoPhase(i, "bound")
                                      ELSE UNCHANGED phase
    /\ UNCHANGED <<kind, todo, verdict>>

(* A step fails, because its name is taken or for a reason of the kernel's. *)
Fail(i) ==
    /\ phase[i] = "probing" /\ Current(i).returns # {}
    /\ GoPhase(i, "unwinding")
    /\ todo' = [todo EXCEPT ![i] = Current(i).undo]
    /\ \E v \in Current(i).returns : verdict' = [verdict EXCEPT ![i] = v]
    /\ UNCHANGED <<kind, at, state, owner>>

(* One undo call: it takes the name away whoever has it. *)
GiveBack(i) ==
    /\ phase[i] \in {"unwinding", "removing"} /\ todo[i] # <<>>
    /\ LET t == Head(todo[i]) IN
         /\ Mark(i, t, "freed")
         /\ IF t = "number" \/ state[i][t] = "held"
            THEN Register(i, t, Nobody) ELSE UNCHANGED owner
    /\ todo' = [todo EXCEPT ![i] = Tail(todo[i])]
    /\ UNCHANGED <<kind, phase, at, verdict>>

(* The probe function returns after a failure. The core believes a 0. *)
ReturnFailed(i) ==
    /\ phase[i] = "unwinding" /\ todo[i] = <<>>
    /\ GoPhase(i, CASE verdict[i] = "error" -> "failed"
                    [] verdict[i] = "ok"    -> "bound"
                    [] verdict[i] = "oops"  -> "oops")
    /\ UNCHANGED <<kind, at, todo, verdict, state, owner>>

StartRemove(i) ==
    /\ phase[i] = "bound" /\ kind[i] \in Removable
    /\ GoPhase(i, "removing")
    /\ todo' = [todo EXCEPT ![i] = Remove[kind[i]]]
    /\ UNCHANGED <<kind, at, verdict, state, owner>>

EndRemove(i) ==
    /\ phase[i] = "removing" /\ todo[i] = <<>>
    /\ GoPhase(i, "absent")
    /\ UNCHANGED <<kind, at, todo, verdict, state, owner>>

InstStep(i) ==
    \/ StartProbe(i) \/ Acquire(i) \/ Fail(i) \/ GiveBack(i)
    \/ ReturnFailed(i) \/ StartRemove(i) \/ EndRemove(i)

Next == \E i \in Inst : InstStep(i)

Spec == Init /\ [][Next]_vars

-----------------------------------------------------------------------------
(* Properties. Each names what the code of a driver does not give; the     *)
(* README says at which lines.                                             *)

(* A probe that reports an error has given back all it had got, but for    *)
(* what the ADC's leaves (the error labels of the probe functions).        *)
LeftByFailure(d) ==
    IF d = "adc" THEN {"region", "number", "cdev", "class", "device"} ELSE {}

FailureFreesAll ==
    \A i \in Inst :
        phase[i] = "failed" => Held(i) \subseteq LeftByFailure(kind[i])

(* A driver that is bound has got everything: no probe that failed half    *)
(* way is taken for a success. Three drivers return 0 after some failures; *)
(* they then hold nothing (the value returned at the error labels).        *)
Misreporting == {"led", "mpu_b", "s3c2410"}

BoundIsComplete ==
    \A i \in Inst :
        phase[i] = "bound" =>
        \/ \A n \in DOMAIN Probe[kind[i]] :
               state[i][Probe[kind[i]][n].gets] = "held"
        \/ kind[i] \in Misreporting /\ Held(i) = {}

(* After remove nothing is left, but for what the ADC's and driver A's     *)
(* forget (the remove functions).                                          *)
LeftByRemove(d) ==
    CASE d = "adc"   -> {"region", "clk"}
      [] d = "mpu_a" -> {"number", "cdev", "class", "device"}
      [] OTHER       -> {}

RemoveFreesAll ==
    \A i \in Inst :
        phase[i] = "absent" => Held(i) \subseteq LeftByRemove(kind[i])

(* Nothing is given back that was not got, or twice (the error labels, the *)
(* remove functions). Undoing the very step that failed is harmless for    *)
(* the class, the device and the cdev: their functions ignore an error     *)
(* pointer, an absent device, an empty range. Four drivers give back one   *)
(* thing or two they should not, and a remove after a misreported failure  *)
(* all that the probe has given back before.                               *)
Tolerated == {"class", "device", "cdev"}

StrayOf(d) ==
    CASE d = "adc"                     -> {"mem", "parent"}
      [] d \in {"led", "platform_led"} -> {"number"}
      [] d = "s3c2410"                 -> {"cpufreq"}
      [] OTHER                         -> {}

Hollow(i) ==
    phase[i] = "removing" /\ kind[i] \in Misreporting /\ Held(i) = {}

NoStrayRelease ==
    \A i \in Inst :
        phase[i] \in {"unwinding", "removing"} /\ todo[i] # <<>> =>
            LET t == Head(todo[i]) IN
              \/ state[i][t] = "held"
              \/ state[i][t] = "none" /\ t \in Tolerated
              \/ t \in StrayOf(kind[i])
              \/ Hollow(i)

(* While a driver's entry points can be called (the character device is    *)
(* live, the interrupt requested, the adapter added), all they use is      *)
(* there. Four drivers can be called before or after that; of them it is   *)
(* said while they are bound.                                              *)
EarlyPublishers == {"adc", "platform_led", "mpu_a", "mpu_b"}

LiveIsReady ==
    \A i \in Inst :
        /\ \E t \in {"cdev", "irq", "adapter"} : state[i][t] = "held"
        /\ kind[i] \in EarlyPublishers => phase[i] = "bound"
        => \A t \in Needs[kind[i]] : state[i][t] = "held"
=============================================================================
