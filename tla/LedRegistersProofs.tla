-------------------------- MODULE LedRegistersProofs --------------------------
(***************************************************************************)
(* Proofs about LedRegisters for every set of processes.                   *)
(***************************************************************************)
EXTENDS LedRegisters, TLAPS

(* The banks of the four LEDs (the addresses of led_driver.c). *)
LEMMA BankValues ==
    /\ Bank[1] = "GPX2" /\ Bank[2] = "GPX1"
    /\ Bank[3] = "GPF3" /\ Bank[4] = "GPF3"
    /\ \A l \in Led : Bank[l] \in Banks
  BY DEF Bank, Banks, Led

LEMMA LedValues == 1 \in Led /\ \A l \in Led : l # 4 => l + 1 \in Led
  BY DEF Led

-----------------------------------------------------------------------------
(* The variables keep their types under every step of led_driver.c.        *)
LEMMA TypeInit == Init => TypeOK
  BY DEF Init, TypeOK, Led, Step

LEMMA TypeNext == TypeOK /\ [Next]_vars => TypeOK'
  <1> SUFFICES ASSUME TypeOK, [Next]_vars PROVE TypeOK'
    OBVIOUS
  <1> USE UsesAssumption, BankValues, LedValues
     DEF TypeOK, Step, registers, process

  <1>1. ASSUME NEW p \in Proc, Open(p) PROVE TypeOK'
    BY <1>1 DEF Open, Goto
  <1>2. ASSUME NEW p \in Proc, Map(p) PROVE TypeOK'
    <2>1. mapped' \subseteq Led
      BY <1>2 DEF Map
    <2>2. CASE led[p] = 4
      BY <1>2, <2>1, <2>2 DEF Map, Goto
    <2>3. CASE led[p] # 4
      BY <1>2, <2>1, <2>3 DEF Map
    <2>4. QED BY <2>2, <2>3
  <1>3. ASSUME NEW p \in Proc, OpenCheck(p) PROVE TypeOK'
    BY <1>3 DEF OpenCheck, Goto
  <1>4. ASSUME NEW p \in Proc, OpenFail(p) PROVE TypeOK'
    BY <1>4 DEF OpenFail, Return, Goto, Keep
  <1>5. ASSUME NEW p \in Proc, InitRead(p) PROVE TypeOK'
    BY <1>5 DEF InitRead, Goto, Keep
  <1>6. ASSUME NEW p \in Proc, InitWrite(p) PROVE TypeOK'
    <2>1. con' \in [Banks -> SUBSET Led]
      <3>1. val[p] \cup {led[p]} \in SUBSET Led
        OBVIOUS
      <3>2. QED BY <1>6, <3>1 DEF InitWrite
    <2>2. CASE led[p] = 4
      BY <1>6, <2>1, <2>2 DEF InitWrite, Return, Goto, Keep
    <2>3. CASE led[p] # 4
      BY <1>6, <2>1, <2>3 DEF InitWrite, Goto, Keep
    <2>4. QED BY <2>2, <2>3
  <1>7. ASSUME NEW p \in Proc, Ioctl(p) PROVE TypeOK'
    BY <1>7 DEF Ioctl, Goto
  <1>8. ASSUME NEW p \in Proc, CtlRead(p) PROVE TypeOK'
    BY <1>8 DEF CtlRead, Goto, Keep
  <1>9. ASSUME NEW p \in Proc, CtlWrite(p) PROVE TypeOK'
    <2>1. /\ Switched(val[p], led[p], on[p]) \in SUBSET Led
          /\ Switched(told, led[p], on[p]) \in SUBSET Led
      BY DEF Switched
    <2>2. dat' \in [Banks -> SUBSET Led] /\ told' \subseteq Led
      BY <1>9, <2>1 DEF CtlWrite
    <2>3. QED BY <1>9, <2>2 DEF CtlWrite, Return, Goto, Keep
  <1>10. ASSUME NEW p \in Proc, Oops(p) PROVE TypeOK'
    BY <1>10 DEF Oops, Goto
  <1>11. ASSUME NEW p \in Proc, Release(p) PROVE TypeOK'
    BY <1>11 DEF Release
  <1>12. CASE UNCHANGED vars
    BY <1>12 DEF vars
  <1>13. QED
    BY <1>1, <1>2, <1>3, <1>4, <1>5, <1>6, <1>7, <1>8, <1>9, <1>10, <1>11, <1>12
       DEF Next, ProcStep

(* Type correctness of the LED driver's state (led_driver.c).              *)
THEOREM TypeCorrect == Spec => []TypeOK
  <1>1. QED BY TypeInit, TypeNext, PTL DEF Spec

-----------------------------------------------------------------------------
(* No process has died of a failed mapping. *)
Alive == \A p \in Proc : pc[p] # "oops"

(* Who has died of a failed mapping stays dead (led_init, led_ioctl). *)
LEMMA DeadStayDead == TypeOK /\ [Next]_vars /\ Alive' => Alive
  <1> SUFFICES ASSUME TypeOK, [Next]_vars, Alive' PROVE Alive
    OBVIOUS
  <1> USE DEF TypeOK, Alive, registers, process

  <1>1. ASSUME NEW p \in Proc, Open(p) PROVE Alive
    BY <1>1 DEF Open, Goto
  <1>2. ASSUME NEW p \in Proc, Map(p) PROVE Alive
    BY <1>2 DEF Map, Goto
  <1>3. ASSUME NEW p \in Proc, OpenCheck(p) PROVE Alive
    BY <1>3 DEF OpenCheck, Goto
  <1>4. ASSUME NEW p \in Proc, OpenFail(p) PROVE Alive
    BY <1>4 DEF OpenFail, Return, Goto, Keep
  <1>5. ASSUME NEW p \in Proc, InitRead(p) PROVE Alive
    BY <1>5 DEF InitRead, Goto, Keep
  <1>6. ASSUME NEW p \in Proc, InitWrite(p) PROVE Alive
    BY <1>6 DEF InitWrite, Return, Goto, Keep
  <1>7. ASSUME NEW p \in Proc, Ioctl(p) PROVE Alive
    BY <1>7 DEF Ioctl, Goto
  <1>8. ASSUME NEW p \in Proc, CtlRead(p) PROVE Alive
    BY <1>8 DEF CtlRead, Goto, Keep
  <1>9. ASSUME NEW p \in Proc, CtlWrite(p) PROVE Alive
    BY <1>9 DEF CtlWrite, Return, Goto, Keep, Switched
  <1>10. ASSUME NEW p \in Proc, Oops(p) PROVE Alive
    BY <1>10 DEF Oops, Goto
  <1>11. ASSUME NEW p \in Proc, Release(p) PROVE Alive
    BY <1>11 DEF Release
  <1>12. CASE UNCHANGED vars
    BY <1>12 DEF vars
  <1>13. QED
    BY <1>1, <1>2, <1>3, <1>4, <1>5, <1>6, <1>7, <1>8, <1>9, <1>10, <1>11, <1>12
       DEF Next, ProcStep

-----------------------------------------------------------------------------
(* Has p's led_init written the pin of l? *)
Past(p, l) == p \in opened \/ (Configuring(p) /\ led[p] > l)

(* The argument about the shared bank. Pin 3 is never lost again once some *)
(* process has written it, because whoever writes pin 4's bits has read a  *)
(* word with pin 3 in it. Pin 4 may be lost, to a process that read before *)
(* it was set and writes pin 3's bits; but that process is then on its way *)
(* to pin 4 itself.                                                        *)
PinsInv ==
    Alive =>
      /\ \A p \in Proc : pc[p] = "check" => led[p] = 1
      /\ \A p \in Proc : \A l \in 1 .. 3 : Past(p, l) => l \in con[Bank[l]]
      /\ \A p \in Proc :
            pc[p] = "init_write" /\ led[p] = 4 => 3 \in val[p]
      /\ 3 \in con["GPF3"] =>
            \/ 4 \in con["GPF3"]
            \/ \E q \in Proc : Configuring(q) /\ led[q] = 4
      /\ opened # {} => 3 \in con["GPF3"]

LEMMA PinsInit == Init => PinsInv
  BY BankValues DEF Init, PinsInv, Past, Configuring, Banks

LEMMA PinsNext == TypeOK /\ PinsInv /\ [Next]_vars => PinsInv'
  <1> SUFFICES ASSUME TypeOK, PinsInv, Alive, Alive', [Next]_vars
               PROVE  PinsInv'
    BY DeadStayDead DEF PinsInv
  <1> USE BankValues
      DEF TypeOK, Alive, PinsInv, Past, Configuring, Led, registers, process

  <1>1. ASSUME NEW p \in Proc, Open(p) PROVE PinsInv'
    BY <1>1 DEF Open, Goto
  <1>2. ASSUME NEW p \in Proc, Map(p) PROVE PinsInv'
    <2>1. UNCHANGED <<con, val, opened>>
      BY <1>2 DEF Map
    <2>2. \A q \in Proc : /\ Configuring(q)' <=> Configuring(q)
                          /\ Configuring(q) => led'[q] = led[q]
      BY <1>2 DEF Map, Goto
    <2>3. \A q \in Proc : pc'[q] = "init_write" => pc[q] = "init_write"
      BY <1>2 DEF Map, Goto
    <2>4. \A q \in Proc : pc'[q] = "check" => led'[q] = 1
      BY <1>2 DEF Map, Goto
    <2>5. QED BY <2>1, <2>2, <2>3, <2>4
  <1>3. ASSUME NEW p \in Proc, OpenCheck(p) PROVE PinsInv'
    BY <1>3 DEF OpenCheck, Goto
  <1>4. ASSUME NEW p \in Proc, OpenFail(p) PROVE PinsInv'
    BY <1>4 DEF OpenFail, Return, Goto, Keep
  <1>5. ASSUME NEW p \in Proc, InitRead(p) PROVE PinsInv'
    BY <1>5 DEF InitRead, Goto, Keep
  <1>6. ASSUME NEW p \in Proc, InitWrite(p) PROVE PinsInv'
    BY <1>6 DEF InitWrite, Return, Goto, Keep
  <1>7. ASSUME NEW p \in Proc, Ioctl(p) PROVE PinsInv'
    <2>1. UNCHANGED <<con, val, opened>>
      BY <1>7 DEF Ioctl
    <2>2. \A q \in Proc : /\ Configuring(q)' <=> Configuring(q)
                          /\ Configuring(q) => led'[q] = led[q]
      BY <1>7 DEF Ioctl, Goto
    <2>3. \A q \in Proc : pc'[q] = "init_write" => pc[q] = "init_write"
      BY <1>7 DEF Ioctl, Goto
    <2>4. \A q \in Proc : pc'[q] = "check" => led'[q] = 1
      BY <1>7 DEF Ioctl, Goto
    <2>5. QED BY <2>1, <2>2, <2>3, <2>4
  <1>8. ASSUME NEW p \in Proc, CtlRead(p) PROVE PinsInv'
    BY <1>8 DEF CtlRead, Goto, Keep
  <1>9. ASSUME NEW p \in Proc, CtlWrite(p) PROVE PinsInv'
    BY <1>9 DEF CtlWrite, Return, Goto, Keep, Switched
  <1>10. ASSUME NEW p \in Proc, Oops(p) PROVE PinsInv'
    BY <1>10 DEF Oops, Goto
  <1>11. ASSUME NEW p \in Proc, Release(p) PROVE PinsInv'
    BY <1>11 DEF Release
  <1>12. CASE UNCHANGED vars
    BY <1>12 DEF vars
  <1>13. QED
    BY <1>1, <1>2, <1>3, <1>4, <1>5, <1>6, <1>7, <1>8, <1>9, <1>10, <1>11, <1>12
       DEF Next, ProcStep

(* With any number of processes opening the device at once, the four pins  *)
(* are outputs whenever an open has succeeded and no led_init is under way *)
(* (led_device_open, led_init).                                            *)
THEOREM PinsSafe == Spec => []PinsAreOutputs
  <1>1. TypeOK /\ PinsInv => PinsAreOutputs
    <2> SUFFICES ASSUME TypeOK, PinsInv, Alive, NEW p \in Proc, p \in opened,
                        \A q \in Proc : ~Configuring(q), NEW l \in Led
                 PROVE  l \in con[Bank[l]]
      BY DEF PinsAreOutputs, TypeOK, Alive
    <2>1. CASE l \in 1 .. 3
      BY <2>1 DEF PinsInv, Past
    <2>2. 4 \in con["GPF3"]
      BY DEF PinsInv
    <2>3. QED BY <2>1, <2>2, BankValues DEF Led
  <1>2. QED
    BY <1>1, TypeCorrect, PinsInit, PinsNext, PTL DEF Spec

-----------------------------------------------------------------------------
(* The word a process is about to write to a bank it alone drives is the   *)
(* word the bank holds.                                                    *)
SwitchInv ==
    \A p \in Proc :
      /\ pc[p] \in {"ctl_read", "ctl_write"} => led[p] \in Uses[p]
      /\ pc[p] = "ctl_write" /\ SoleUser(led[p]) =>
            val[p] = dat[Bank[led[p]]]

LEMMA SwitchInit == Init => SwitchInv /\ LedAsTold
  BY BankValues DEF Init, SwitchInv, LedAsTold, Led

LEMMA SwitchNext ==
    TypeOK /\ SwitchInv /\ LedAsTold /\ [Next]_vars => SwitchInv' /\ LedAsTold'
  <1> SUFFICES ASSUME TypeOK, SwitchInv, LedAsTold, [Next]_vars
               PROVE  SwitchInv' /\ LedAsTold'
    OBVIOUS
  <1> USE UsesAssumption, BankValues
     
         DEF TypeOK, SwitchInv, LedAsTold, SoleUser, Users, Led, registers, process

  <1>1. ASSUME NEW p \in Proc, Open(p) PROVE SwitchInv' /\ LedAsTold'
    BY <1>1 DEF Open, Goto
  <1>2. ASSUME NEW p \in Proc, Map(p) PROVE SwitchInv' /\ LedAsTold'
    BY <1>2 DEF Map, Goto
  <1>3. ASSUME NEW p \in Proc, OpenCheck(p) PROVE SwitchInv' /\ LedAsTold'
    BY <1>3 DEF OpenCheck, Goto
  <1>4. ASSUME NEW p \in Proc, OpenFail(p) PROVE SwitchInv' /\ LedAsTold'
    BY <1>4 DEF OpenFail, Return, Goto, Keep
  <1>5. ASSUME NEW p \in Proc, InitRead(p) PROVE SwitchInv' /\ LedAsTold'
    BY <1>5 DEF InitRead, Goto, Keep
  <1>6. ASSUME NEW p \in Proc, InitWrite(p) PROVE SwitchInv' /\ LedAsTold'
    BY <1>6 DEF InitWrite, Return, Goto, Keep
  <1>7. ASSUME NEW p \in Proc, Ioctl(p) PROVE SwitchInv' /\ LedAsTold'
    BY <1>7 DEF Ioctl, Goto
  <1>8. ASSUME NEW p \in Proc, CtlRead(p) PROVE SwitchInv' /\ LedAsTold'
    BY <1>8 DEF CtlRead, Goto, Keep
  <1>9. ASSUME NEW p \in Proc, CtlWrite(p) PROVE SwitchInv' /\ LedAsTold'
    BY <1>9 DEF CtlWrite, Return, Goto, Keep, Switched
  <1>10. ASSUME NEW p \in Proc, Oops(p) PROVE SwitchInv' /\ LedAsTold'
    BY <1>10 DEF Oops, Goto
  <1>11. ASSUME NEW p \in Proc, Release(p) PROVE SwitchInv' /\ LedAsTold'
    BY <1>11 DEF Release
  <1>12. CASE UNCHANGED vars
    BY <1>12 DEF vars
  <1>13. QED
    BY <1>1, <1>2, <1>3, <1>4, <1>5, <1>6, <1>7, <1>8, <1>9, <1>10, <1>11, <1>12
       DEF Next, ProcStep

(* An LED on a bank that one process drives is as the last completed ioctl *)
(* left it (led_control_on, led_control_off).                              *)
THEOREM SwitchSafe == Spec => []LedAsTold
  <1>1. QED BY TypeCorrect, SwitchInit, SwitchNext, PTL DEF Spec
=============================================================================
