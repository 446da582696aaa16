----------------------------- MODULE I2cBusProofs -----------------------------
(***************************************************************************)
(* The properties of I2cBus, for any device trees and any drivers.         *)
(***************************************************************************)
EXTENDS I2cBus, TLAPS

(* The scan of the children: a usable child is still to come to, has its   *)
(* device, or could not be created.                                        *)
Scanning ==
    /\ adapter = "absent" => left = {} /\ present = {} /\ attaching = Nobody
    /\ adapter # "absent" =>
          \A n \in Node :
              tree[n].reg = "valid" => n \in left \cup present \cup uncreated
    /\ adapter = "done" => left = {} /\ attaching = Nobody
    /\ left \cap present = {}
    /\ attaching # Nobody => attaching \in present

(* The two scans' records are of drivers on the list and devices on the    *)
(* bus; of the drivers that can be probed one is loaded at a time.         *)
Listed ==
    /\ tried \subseteq loaded
    /\ attaching = Nobody => tried = {}
    /\ seen \subseteq adding \X present
    /\ \A d, e \in loaded \cap HasIdTable : d = e

Missed(d, n) ==
    bound[n] = Nobody /\ DeviceMatch(d, n) /\ <<d, n>> \notin refused

(* What a scan has tried is not missed.                                    *)
NoneMissed ==
    \A n \in present, d \in loaded \cap HasIdTable :
        /\ n # attaching /\ (d \notin adding \/ <<d, n>> \in seen)
              => ~Missed(d, n)
        /\ n = attaching /\ d \in tried => ~Missed(d, n)

(* Driver B's client is the device that has the file.                      *)
ClientStored == \A n \in Node : HasFile("B", n) => client = n

BusIInv ==
    /\ BusTypeOK
    /\ Scanning
    /\ Listed
    /\ NoneMissed
    /\ BoundRightly
    /\ \A n \in hollow : bound[n] = "B"
    /\ ClientStored

-----------------------------------------------------------------------------
LEMMA BusInitHolds == BusInit => BusIInv
<1> SUFFICES ASSUME BusInit PROVE BusIInv
  OBVIOUS
<1> USE DEF BusInit
<1>1. BusTypeOK
  <2>1. stale \in BOOLEAN
    OBVIOUS
  <2>2. bound \in [Node -> DriverId \cup {Nobody}]
    OBVIOUS
  <2> QED
    BY <2>1, <2>2 DEF BusTypeOK
<1>2. Scanning /\ Listed
  BY DEF Scanning, Listed
<1>3. NoneMissed /\ BoundRightly
  BY DEF NoneMissed, BoundRightly
<1>4. ClientStored
  BY NobodyAssumption DEF ClientStored, HasFile, DriverId
<1> QED
  BY <1>1, <1>2, <1>3, <1>4 DEF BusIInv

(* What trying a driver with a device may change.                          *)
LEMMA TryChanges ==
    ASSUME BusTypeOK, NEW d \in DriverId, NEW n \in Node, NEW v \in Verdict,
           Try(d, n, v)
    PROVE  /\ bound' \in [Node -> DriverId \cup {Nobody}]
           /\ hollow' \subseteq Node /\ refused' \subseteq DriverId \X Node
           /\ client' \in Node \cup {Nobody}
           /\ refused \subseteq refused'
           /\ \A m \in Node : m # n \/ bound[n] # Nobody => bound'[m] = bound[m]
           /\ bound'[n] \in {bound[n], d}
           /\ bound'[n] # bound[n] =>
                  /\ d \in HasIdTable /\ DeviceMatch(d, n) /\ Free(d)
                  /\ hollow' \in {hollow, hollow \cup {n}}
                  /\ hollow' # hollow => d = "B"
           /\ bound'[n] = bound[n] => hollow' = hollow /\ client' = client
           /\ bound'[n] # bound[n] =>
                  \/ d = "B" /\ client' = n
                  \/ client' = client /\ (d = "B" => n \in hollow')
           /\ d \in HasIdTable /\ DeviceMatch(d, n) /\ bound'[n] = Nobody =>
                  <<d, n>> \in refused'
<1>1. bound \in [Node -> DriverId \cup {Nobody}] /\ Nobody \notin DriverId
  BY NobodyAssumption DEF BusTypeOK
<1>2. CASE ~(bound[n] = Nobody /\ DeviceMatch(d, n)) \/ d \notin HasIdTable
  <2>1. UNCHANGED bindVars
    BY <1>2 DEF Try, DeviceProbe
  <2> QED
    BY <1>1, <1>2, <2>1 DEF bindVars, BusTypeOK
<1>3. CASE bound[n] = Nobody /\ DeviceMatch(d, n) /\ d \in HasIdTable
  <2>1. Outcome(d, n, v)
    BY <1>3 DEF Try, DeviceProbe
  <2> QED
    BY <1>1, <1>3, <2>1 DEF Outcome, Settle, StoreClient, BusTypeOK
<1> QED
  BY <1>2, <1>3

-----------------------------------------------------------------------------
(* A step of the scan of the children, which binds nothing.                *)
LEMMA AdapterKeeps ==
    ASSUME BusIInv, UNCHANGED <<tree, loaded, adding, seen, bindVars, stale>>,
           BusTypeOK', Scanning', Listed',
           \A n \in present' \ present : n = attaching' /\ tried' = {},
           present \subseteq present',
           \A n \in present :
               /\ n = attaching' => n = attaching /\ tried' = tried
               /\ n = attaching /\ n # attaching' => loaded \subseteq tried
    PROVE  BusIInv'
<1> USE DEF bindVars
<1>1. NoneMissed'
  <2> SUFFICES ASSUME NEW n \in present', NEW d \in loaded' \cap HasIdTable,
                      Missed(d, n)'
               PROVE  /\ ~(n # attaching' /\ (d \notin adding' \/ <<d, n>> \in seen'))
                      /\ ~(n = attaching' /\ d \in tried')
    BY DEF NoneMissed
  <2>1. Missed(d, n)
    BY DEF Missed, DeviceMatch, MatchId
  <2>2. CASE n \notin present
    BY <2>2
  <2>3. CASE n \in present
    BY <2>1, <2>3 DEF BusIInv, NoneMissed
  <2> QED
    BY <2>2, <2>3
<1>2. BoundRightly'
  BY DEF BusIInv, BoundRightly, DeviceMatch, MatchId
<1>3. (\A n \in hollow' : bound'[n] = "B") /\ ClientStored'
  BY DEF BusIInv, ClientStored, HasFile
<1> QED
  BY <1>1, <1>2, <1>3 DEF BusIInv

(* A step of either scan that tries the driver d with the device n.        *)
LEMMA TryKeeps ==
    ASSUME BusIInv, NEW d \in loaded, NEW n \in present, NEW v \in Verdict,
           Try(d, n, v),
           UNCHANGED <<tree, scanVars, attaching, loaded, adding, stale>>,
           BusTypeOK', Listed',
           \A m \in Node, e \in loaded :
               <<e, m>> \in seen' => <<e, m>> \in seen \/ (e = d /\ m = n),
           \A e \in tried' \ tried : e = d /\ n = attaching
    PROVE  BusIInv'
<1> USE DEF scanVars
<1>1. d \in DriverId /\ n \in Node /\ BusTypeOK
  BY DEF BusIInv, BusTypeOK
<1>2. /\ refused \subseteq refused'
      /\ \A m \in Node : m # n \/ bound[n] # Nobody => bound'[m] = bound[m]
      /\ bound'[n] \in {bound[n], d}
      /\ bound'[n] # bound[n] =>
             /\ d \in HasIdTable /\ DeviceMatch(d, n) /\ Free(d)
             /\ hollow' \in {hollow, hollow \cup {n}}
             /\ hollow' # hollow => d = "B"
      /\ bound'[n] = bound[n] => hollow' = hollow /\ client' = client
      /\ bound'[n] # bound[n] =>
             \/ d = "B" /\ client' = n
             \/ client' = client /\ (d = "B" => n \in hollow')
      /\ d \in HasIdTable /\ DeviceMatch(d, n) /\ bound'[n] = Nobody =>
             <<d, n>> \in refused'
  BY <1>1, TryChanges
<1>3. Scanning'
  BY DEF BusIInv, Scanning
<1>4. NoneMissed'
  <2> SUFFICES ASSUME NEW m \in present', NEW e \in loaded' \cap HasIdTable,
                      Missed(e, m)'
               PROVE  /\ ~(m # attaching' /\ (e \notin adding' \/ <<e, m>> \in seen'))
                      /\ ~(m = attaching' /\ e \in tried')
    BY DEF NoneMissed
  <2>1. m \in Node /\ m \in present /\ e \in loaded \cap HasIdTable
    BY <1>1 DEF BusTypeOK
  <2>2. Missed(e, m)
    BY <1>2, <2>1 DEF Missed, DeviceMatch, MatchId
  <2>3. ~(e = d /\ m = n)
    BY <1>2, <2>1 DEF Missed, DeviceMatch, MatchId
  <2>4. /\ ~(m # attaching /\ (e \notin adding \/ <<e, m>> \in seen))
        /\ ~(m = attaching /\ e \in tried)
    BY <2>1, <2>2 DEF BusIInv, NoneMissed
  <2> QED
    BY <2>1, <2>3, <2>4
<1>5. \A m \in hollow' : bound'[m] = "B"
  BY <1>1, <1>2, NobodyAssumption DEF BusIInv, BusTypeOK, DriverId
<1>6. BoundRightly'
  <2> SUFFICES ASSUME NEW m \in Node, bound'[m] # Nobody
               PROVE  /\ m \in present' /\ bound'[m] \in loaded' \cap HasIdTable
                      /\ DeviceMatch(bound[m], m)'
                      /\ \A k \in Node \ {m} :
                             bound'[k] = bound'[m] => {k, m} \cap hollow' # {}
    BY DEF BoundRightly, DeviceMatch, MatchId
  <2>0. BoundRightly
    BY DEF BusIInv
  <2>1. m \in present' /\ bound'[m] \in loaded' \cap HasIdTable
    BY <1>1, <1>2, <2>0 DEF BoundRightly
  <2>2. DeviceMatch(bound[m], m)'
    BY <1>1, <1>2, <2>0 DEF BoundRightly, DeviceMatch, MatchId
  <2>3. ASSUME NEW k \in Node \ {m}, bound'[k] = bound'[m]
        PROVE  {k, m} \cap hollow' # {}
    <3>1. CASE bound'[n] = bound[n]
      BY <1>2, <2>0, <2>3, <3>1 DEF BoundRightly
    <3>2. CASE bound'[n] # bound[n] /\ n \notin {k, m}
      BY <1>2, <2>0, <2>3, <3>2 DEF BoundRightly
    <3>3. CASE bound'[n] # bound[n] /\ n \in {k, m}
      BY <1>1, <1>2, <2>3, <3>3 DEF Free, HasFile
    <3> QED
      BY <3>1, <3>2, <3>3
  <2> QED
    BY <2>1, <2>2, <2>3
<1>7. ClientStored'
  <2> SUFFICES ASSUME NEW m \in Node, HasFile("B", m)' PROVE client' = m
    BY DEF ClientStored
  <2>0. HasFile("B", m) => client = m
    BY DEF BusIInv, ClientStored
  <2>1. CASE bound'[n] = bound[n]
    BY <1>2, <2>0, <2>1 DEF HasFile
  <2>2. CASE bound'[n] # bound[n] /\ d # "B"
    BY <1>1, <1>2, <2>0, <2>2 DEF HasFile
  <2>3. CASE bound'[n] # bound[n] /\ d = "B" /\ m = n
    BY <1>1, <1>2, <2>3 DEF HasFile
  <2>4. CASE bound'[n] # bound[n] /\ d = "B" /\ m # n
    BY <1>1, <1>2, <2>4 DEF HasFile, Free
  <2> QED
    BY <2>1, <2>2, <2>3, <2>4
<1> QED
  BY <1>3, <1>4, <1>5, <1>6, <1>7 DEF BusIInv

-----------------------------------------------------------------------------
LEMMA BusTypeKept == BusIInv /\ [BusNext]_busVars => BusTypeOK'
<1> SUFFICES ASSUME BusIInv, [BusNext]_busVars PROVE BusTypeOK'
  OBVIOUS
<1>0. BusTypeOK
  BY DEF BusIInv
<1> USE <1>0 DEF BusTypeOK, scanVars, bindVars
<1>1. CASE AddAdapter \/ AttachEnd \/ ScanEnd
  BY <1>1 DEF AddAdapter, AttachEnd, ScanEnd
<1>2. ASSUME NEW n \in Node, SkipNode(n) \/ NewDevice(n) \/ NewDeviceFails(n)
      PROVE  BusTypeOK'
  BY <1>2 DEF AtNode, SkipNode, NewDevice, NewDeviceFails
<1>3. ASSUME NEW d \in DriverId, NEW v \in Verdict, AttachDriver(d, v)
      PROVE  BusTypeOK'
  <2>1. attaching \in Node /\ Try(d, attaching, v)
    BY <1>3 DEF AttachDriver
  <2>2. /\ bound' \in [Node -> DriverId \cup {Nobody}]
        /\ hollow' \subseteq Node /\ refused' \subseteq DriverId \X Node
        /\ client' \in Node \cup {Nobody}
    BY <2>1, TryChanges
  <2> QED
    BY <1>3, <2>2 DEF AttachDriver
<1>4. ASSUME NEW d \in DriverId, LoadDriver(d) \/ LoadEnd(d) PROVE BusTypeOK'
  BY <1>4 DEF LoadDriver, LoadEnd
<1>5. ASSUME NEW d \in DriverId, NEW n \in Node, NEW v \in Verdict,
             AttachDevice(d, n, v)
      PROVE  BusTypeOK'
  <2>1. /\ bound' \in [Node -> DriverId \cup {Nobody}]
        /\ hollow' \subseteq Node /\ refused' \subseteq DriverId \X Node
        /\ client' \in Node \cup {Nobody}
    BY <1>5, TryChanges DEF AttachDevice
  <2> QED
    BY <1>5, <2>1 DEF AttachDevice
<1>6. ASSUME NEW d \in DriverId, UnloadDriver(d) PROVE BusTypeOK'
  <2>1. bound' \in [Node -> DriverId \cup {Nobody}] /\ stale' \in BOOLEAN
    BY <1>6 DEF UnloadDriver, Unregister
  <2> QED
    BY <1>6, <2>1 DEF UnloadDriver, Unregister
<1>7. CASE UNCHANGED busVars
  BY <1>7 DEF busVars
<1> QED
  BY <1>1, <1>2, <1>3, <1>4, <1>5, <1>6, <1>7 DEF BusNext, AdapterStep, LoadStep

(* AdapterKeeps for the steps of the scan that are not a Try.              *)
LEMMA ScanKeeps ==
    ASSUME BusIInv, BusTypeOK',
           \/ AddAdapter \/ AttachEnd \/ ScanEnd
           \/ \E n \in Node : SkipNode(n) \/ NewDevice(n) \/ NewDeviceFails(n)
    PROVE  BusIInv'
<1> USE NobodyAssumption DEF scanVars
<1>0. BusTypeOK /\ Scanning /\ Listed
  BY DEF BusIInv
<1>1. CASE AddAdapter
  <2>1. Scanning' /\ Listed'
    BY <1>0, <1>1 DEF AddAdapter, Scanning, Listed, BusTypeOK
  <2> QED
    BY <1>0, <1>1, <2>1, AdapterKeeps DEF AddAdapter
<1>2. CASE AttachEnd
  <2>1. Scanning' /\ Listed'
    BY <1>0, <1>2 DEF AttachEnd, Scanning, Listed, BusTypeOK
  <2> QED
    BY <1>0, <1>2, <2>1, AdapterKeeps DEF AttachEnd, BusTypeOK
<1>3. CASE ScanEnd
  <2>1. Scanning' /\ Listed'
    BY <1>0, <1>3 DEF ScanEnd, Scanning, Listed, BusTypeOK
  <2> QED
    BY <1>0, <1>3, <2>1, AdapterKeeps DEF ScanEnd
<1>4. ASSUME NEW n \in Node, SkipNode(n) PROVE BusIInv'
  <2>1. Scanning' /\ Listed'
    BY <1>0, <1>4 DEF SkipNode, AtNode, Scanning, Listed, BusTypeOK
  <2> QED
    BY <1>0, <1>4, <2>1, AdapterKeeps DEF SkipNode
<1>5. ASSUME NEW n \in Node, NewDevice(n) PROVE BusIInv'
  <2>1. Scanning' /\ Listed'
    BY <1>0, <1>5 DEF NewDevice, AtNode, Scanning, Listed, BusTypeOK
  <2>2. n \notin present /\ attaching = Nobody /\ tried = {}
    BY <1>0, <1>5 DEF NewDevice, AtNode, Scanning, Listed
  <2> QED
    BY <1>0, <1>5, <2>1, <2>2, AdapterKeeps DEF NewDevice, BusTypeOK
<1>6. ASSUME NEW n \in Node, NewDeviceFails(n) PROVE BusIInv'
  <2>1. Scanning' /\ Listed'
    BY <1>0, <1>6 DEF NewDeviceFails, AtNode, Scanning, Listed, BusTypeOK
  <2> QED
    BY <1>0, <1>6, <2>1, AdapterKeeps DEF NewDeviceFails
<1> QED
  BY <1>1, <1>2, <1>3, <1>4, <1>5, <1>6

LEMMA LoadKeeps ==
    ASSUME BusIInv, BusTypeOK', NEW d \in DriverId,
           LoadDriver(d) \/ LoadEnd(d) \/ UnloadDriver(d)
    PROVE  BusIInv'
<1> USE DEF scanVars, bindVars
<1>0. BusTypeOK /\ Scanning /\ Listed /\ NoneMissed /\ BoundRightly
  BY DEF BusIInv
<1>1. Scanning'
  BY <1>0 DEF LoadDriver, LoadEnd, UnloadDriver, Unregister, Scanning
<1>2. CASE LoadDriver(d)
  <2>1. Listed'
    BY <1>0, <1>2 DEF LoadDriver, Listed, BusName, HasIdTable
  <2>2. NoneMissed'
    BY <1>0, <1>2
       DEF LoadDriver, Listed, NoneMissed, Missed, DeviceMatch, MatchId,
           BusTypeOK
  <2>3. BoundRightly' /\ ClientStored' /\ \A n \in hollow' : bound'[n] = "B"
    BY <1>0, <1>2
       DEF LoadDriver, BoundRightly, DeviceMatch, MatchId, BusIInv,
           ClientStored, HasFile
  <2> QED
    BY <1>1, <2>1, <2>2, <2>3 DEF BusIInv
<1>3. CASE LoadEnd(d)
  <2>1. Listed'
    BY <1>0, <1>3 DEF LoadEnd, Listed, BusTypeOK
  <2>2. NoneMissed'
    BY <1>0, <1>3 DEF LoadEnd, Listed, NoneMissed, Missed, DeviceMatch, MatchId
  <2>3. BoundRightly' /\ ClientStored' /\ \A n \in hollow' : bound'[n] = "B"
    BY <1>0, <1>3
       DEF LoadEnd, BoundRightly, DeviceMatch, MatchId, BusIInv, ClientStored,
           HasFile
  <2> QED
    BY <1>1, <2>1, <2>2, <2>3 DEF BusIInv
<1>4. CASE UnloadDriver(d)
  <2> USE DEF UnloadDriver, Unregister
  <2>1. Listed'
    BY <1>0, <1>4 DEF Listed
  <2>2. NoneMissed'
    <3> SUFFICES ASSUME NEW n \in present', NEW e \in loaded' \cap HasIdTable,
                        Missed(e, n)'
                 PROVE  /\ ~(n # attaching' /\ (e \notin adding' \/ <<e, n>> \in seen'))
                        /\ ~(n = attaching' /\ e \in tried')
      BY DEF NoneMissed
    <3>1. n \in Node /\ e \in loaded \cap HasIdTable /\ e # d
      BY <1>0, <1>4 DEF BusTypeOK
    <3>2. bound[n] = Nobody
      BY <1>0, <1>4, <3>1 DEF Missed, BoundRightly, Listed
    <3>3. Missed(e, n)
      BY <1>4, <3>1, <3>2 DEF Missed, DeviceMatch, MatchId
    <3> QED
      BY <1>0, <1>4, <3>1, <3>3 DEF NoneMissed
  <2>3. BoundRightly'
    BY <1>0, <1>4 DEF BoundRightly, DeviceMatch, MatchId
  <2>4. \A n \in hollow' : bound'[n] = "B"
    BY <1>0, <1>4 DEF BusIInv, BusTypeOK
  <2>5. ClientStored'
    BY <1>0, <1>4, NobodyAssumption
       DEF BusIInv, BusTypeOK, ClientStored, HasFile, DriverId
  <2> QED
    BY <1>1, <2>1, <2>2, <2>3, <2>4, <2>5 DEF BusIInv
<1> QED
  BY <1>2, <1>3, <1>4

LEMMA BusStepKept == BusIInv /\ [BusNext]_busVars => BusIInv'
<1> SUFFICES ASSUME BusIInv, [BusNext]_busVars PROVE BusIInv'
  OBVIOUS
<1>0. BusTypeOK' /\ BusTypeOK /\ Listed
  BY BusTypeKept DEF BusIInv
<1>1. ASSUME NEW d \in DriverId, NEW v \in Verdict, AttachDriver(d, v)
      PROVE  BusIInv'
  <2>1. attaching \in present
    BY <1>1 DEF AttachDriver, BusIInv, Scanning
  <2>2. Listed'
    BY <1>0, <1>1 DEF AttachDriver, Listed, scanVars
  <2> QED
    BY <1>0, <1>1, <2>1, <2>2, TryKeeps DEF AttachDriver
<1>2. ASSUME NEW d \in DriverId, NEW n \in Node, NEW v \in Verdict,
             AttachDevice(d, n, v)
      PROVE  BusIInv'
  <2>1. Listed'
    BY <1>0, <1>2 DEF AttachDevice, Listed, scanVars
  <2>2. d \in loaded /\ n \in present
    BY <1>0, <1>2 DEF AttachDevice, BusTypeOK
  <2> QED
    BY <1>0, <1>2, <2>1, <2>2, TryKeeps DEF AttachDevice
<1>3. CASE UNCHANGED busVars
  BY <1>0, <1>3
     DEF busVars, scanVars, bindVars, BusIInv, Scanning, Listed, NoneMissed,
         Missed, BoundRightly, DeviceMatch, MatchId, ClientStored, HasFile
<1> QED
  BY <1>0, <1>1, <1>2, <1>3, ScanKeeps, LoadKeeps
     DEF BusNext, AdapterStep, LoadStep

LEMMA BusInvariantHolds == BusSpec => []BusIInv
  BY BusInitHolds, BusStepKept, PTL DEF BusSpec

-----------------------------------------------------------------------------
(* Theorems.                                                               *)

(* The types of the bus's state. *)
THEOREM BusTypeCorrect == BusSpec => []BusTypeOK
<1>1. BusIInv => BusTypeOK
  BY DEF BusIInv
<1> QED
  BY <1>1, BusInvariantHolds, PTL

(* Every usable child of the adapter's node gets its device, whatever the  *)
(* other children are like (of_i2c_register_devices).                      *)
THEOREM ChildrenSafe == BusSpec => []ChildrenServed
<1>1. BusIInv => ChildrenServed
  BY DEF BusIInv, Scanning, ChildrenServed
<1> QED
  BY <1>1, BusInvariantHolds, PTL

(* No loaded driver that would take a free device has missed it, however   *)
(* the scans of devices and drivers overlap (i2c_device_match,             *)
(* i2c_device_probe).                                                      *)
THEOREM MatchSafe == BusSpec => []NobodyMissed
<1>1. BusIInv => NobodyMissed
  BY DEF BusIInv, NoneMissed, Missed, NobodyMissed
<1> QED
  BY <1>1, BusInvariantHolds, PTL

(* A device is bound to a loaded driver with an id_table that matches it,  *)
(* and shares it only where a probe took its failure for a success.        *)
THEOREM BindingSafe == BusSpec => []BoundRightly
<1>1. BusIInv => BoundRightly
  BY DEF BusIInv
<1> QED
  BY <1>1, BusInvariantHolds, PTL
=============================================================================
