-------------------------------- MODULE Sampler --------------------------------
(***************************************************************************)
(* What the ADC driver and its test program promise together: a loop that  *)
(* asks for a conversion, waits for it and delivers the very value that    *)
(* was converted, exactly one delivery for each request, for ever.         *)
(***************************************************************************)
EXTENDS Integers

CONSTANT MaxSample

Sample   == 0 .. MaxSample
NoSample == -1

VARIABLES
    phase,  \* "idle", "converting" or "ready"
    value,  \* the last value converted
    out     \* the last value delivered
vars == <<phase, value, out>>

Init == phase = "idle" /\ value \in Sample /\ out = NoSample

Request ==
    /\ phase = "idle" /\ phase' = "converting"
    /\ UNCHANGED <<value, out>>

Convert ==
    /\ phase = "converting" /\ phase' = "ready"
    /\ value' \in Sample
    /\ UNCHANGED out

Deliver ==
    /\ phase = "ready" /\ phase' = "idle"
    /\ out' = value
    /\ UNCHANGED value

Next == Request \/ Convert \/ Deliver

Spec == Init /\ [][Next]_vars /\ WF_vars(Next)
=============================================================================
