-------------------------------- MODULE I2cBus --------------------------------
(***************************************************************************)
(* How the slaves of an I2C adapter get their drivers: the adapter driver  *)
(* registers the children of its device-tree node (the excerpts            *)
(* i2c/i2c-con/i2c-s3c2410.c) while drivers are loaded and unloaded, and   *)
(* the bus matches and probes (i2c/i2c-con/i2c-core.c).                    *)
(*                                                                         *)
(* A device is put on the bus's list and then tried with every driver      *)
(* listed; a driver is listed and then tried with every device. Both scans *)
(* may be under way at once; a device is tried by one scan at a time.      *)
(***************************************************************************)
CONSTANTS
    Node,       \* the children of the adapter's node in the device tree
    Trees,      \* the device trees there may be: reg and compatible by node
    Modules,    \* the drivers that may be loaded, for each device tree
    Nobody      \* "no driver", "no node"

(* The two MPU6050 drivers of the repository, and a driver without an      *)
(* id_table of the kind the excerpt's notes warn of.                       *)
DriverId == {"A", "B", "bare"}

ASSUME NobodyAssumption == Nobody \notin DriverId \cup Node

(* Mutant: the two drivers have names of their own on the bus. *)
OwnBusName == [A |-> "mpu6050-slave", B |-> "mpu6050", bare |-> "bare"]

BusName    == [A |-> "mpu6050", B |-> "mpu6050", bare |-> "bare"]
OfTable    == [A |-> {"mpu6050"}, B |-> {"fs4412-mpu6050"},
               bare |-> {"mpu6050"}]
IdTable    == [A |-> {"mpu6050"}, B |-> {"mpu6050"}, bare |-> {}]
HasIdTable == {"A", "B"}

(* What a node may call its device; the client is named by what follows    *)
(* the vendor.                                                             *)
Compatible == {"mpu6050", "fs4412-mpu6050", "inv,mpu6050"}
ClientName(compatible) ==
    IF compatible = "inv,mpu6050" THEN "mpu6050" ELSE compatible

RegProperty == {"valid", "invalid", "too big"}
Tree == [Node -> [reg : RegProperty, of : Compatible]]

ASSUME TreesAssumption == Trees \subseteq Tree
ASSUME ModulesAssumption == Modules \in [Trees -> SUBSET DriverId]

VARIABLES
    tree,       \* each node's reg property and compatible
    adapter,    \* "absent", "scanning" or "done"
    left,       \* the nodes the scan of the children has not come to
    present,    \* the nodes that have a device (an i2c_client) on the bus
    uncreated,  \* the nodes whose device could not be created
    attaching,  \* the new device that is being tried with the drivers
    tried,      \* the drivers it has been tried with
    loaded,     \* the drivers on the bus's list
    adding,     \* those of them that are being tried with the devices
    seen,       \* the pairs of driver and device they have been tried with
    bound,      \* the driver of each device
    hollow,     \* those of them whose probe took its failure for a success
    client,     \* mpu6050_client, the device driver B's file operations use
    stale,      \* driver A was removed and has left its class behind
    refused     \* the pairs whose probe was called and failed

scanVars  == <<adapter, left, present, uncreated>>
bindVars  == <<bound, hollow, refused, client>>
busVars   == <<tree, scanVars, attaching, tried, loaded, adding, seen,
               bindVars, stale>>

BusTypeOK ==
    /\ tree \in Trees
    /\ adapter \in {"absent", "scanning", "done"}
    /\ left \subseteq Node
    /\ present \subseteq Node
    /\ uncreated \subseteq Node
    /\ attaching \in Node \cup {Nobody}
    /\ tried \subseteq DriverId
    /\ loaded \subseteq DriverId
    /\ adding \subseteq loaded
    /\ seen \subseteq DriverId \X Node
    /\ bound \in [Node -> DriverId \cup {Nobody}]
    /\ hollow \subseteq Node
    /\ client \in Node \cup {Nobody}
    /\ stale \in BOOLEAN
    /\ refused \subseteq DriverId \X Node

BusInit ==
    /\ tree \in Trees
    /\ adapter = "absent"
    /\ left = {} /\ present = {} /\ uncreated = {}
    /\ attaching = Nobody /\ tried = {}
    /\ loaded = {} /\ adding = {} /\ seen = {}
    /\ bound = [n \in Node |-> Nobody]
    /\ hollow = {} /\ client = Nobody /\ stale = FALSE
    /\ refused = {}

-----------------------------------------------------------------------------
(* i2c_match_id and i2c_device_match; the board has no ACPI. *)
MatchId(d, n) == ClientName(tree[n].of) \in IdTable[d]

DeviceMatch(d, n) ==
    \/ tree[n].of \in OfTable[d]
    \/ d \in HasIdTable /\ MatchId(d, n)

(* What becomes of a probe. The class and the number of a driver serve one *)
(* device, and A's remove gives back neither. When class_create or         *)
(* device_create fails B gives back all it has and returns 0.              *)
Verdict == {"ok", "error", "hollow"}

HasFile(d, n) == bound[n] = d /\ n \notin hollow

Free(d) ==
    /\ \A n \in Node : ~HasFile(d, n)
    /\ d = "A" => ~stale

Settle(d, n, verdict) ==
    \/ /\ verdict = "ok" /\ Free(d)
       /\ bound' = [bound EXCEPT ![n] = d]
       /\ UNCHANGED <<hollow, refused>>
    \/ /\ verdict = "hollow" /\ d = "B" /\ Free(d)
       /\ bound' = [bound EXCEPT ![n] = d] /\ hollow' = hollow \cup {n}
       /\ UNCHANGED refused
    \/ /\ verdict = "error"
       /\ refused' = refused \cup {<<d, n>>}
       /\ UNCHANGED <<bound, hollow>>

StoreClient(d, n) == client' = IF d = "B" THEN n ELSE client

(* Mutant: probe begins with the store of the client. *)
ProbeStoresFirst(d, n, verdict) ==
    Settle(d, n, verdict) /\ StoreClient(d, n)

(* B's probe stores the client when all else has succeeded. *)
Outcome(d, n, verdict) ==
    /\ Settle(d, n, verdict)
    /\ IF verdict = "ok" THEN StoreClient(d, n) ELSE UNCHANGED client

(* Mutant: a driver without an id_table is probed. *)
ProbeAnyway(d, n, verdict) == Outcome(d, n, verdict)

(* i2c_device_probe: without an id_table the driver's probe is not called. *)
DeviceProbe(d, n, verdict) ==
    \/ d \in HasIdTable /\ Outcome(d, n, verdict)
    \/ d \notin HasIdTable /\ UNCHANGED bindVars

(* A scan tries a driver with a device. *)
Try(d, n, verdict) ==
    IF bound[n] = Nobody /\ DeviceMatch(d, n)
    THEN DeviceProbe(d, n, verdict) ELSE UNCHANGED bindVars

-----------------------------------------------------------------------------
(* i2c_add_numbered_adapter ... of_i2c_register_devices *)
AddAdapter ==
    /\ adapter = "absent"
    /\ adapter' = "scanning" /\ left' = Node
    /\ UNCHANGED <<tree, present, uncreated, attaching, tried, loaded, adding,
                   seen, bindVars, stale>>

AtNode(n) == adapter = "scanning" /\ attaching = Nobody /\ n \in left

(* Mutant: a node without a usable address ends the scan. *)
SkipRest(n) ==
    /\ AtNode(n) /\ tree[n].reg # "valid"
    /\ left' = {}
    /\ UNCHANGED <<tree, adapter, present, uncreated, attaching, tried, loaded,
                   adding, seen, bindVars, stale>>

(* No usable address: continue. *)
SkipNode(n) ==
    /\ AtNode(n) /\ tree[n].reg # "valid"
    /\ left' = left \ {n}
    /\ UNCHANGED <<tree, adapter, present, uncreated, attaching, tried, loaded,
                   adding, seen, bindVars, stale>>

(* i2c_new_device: from device_register on drivers can find the device. *)
NewDevice(n) ==
    /\ AtNode(n) /\ tree[n].reg = "valid"
    /\ left' = left \ {n}
    /\ present' = present \cup {n}
    /\ attaching' = n
    /\ UNCHANGED <<tree, adapter, uncreated, tried, loaded, adding, seen,
                   bindVars, stale>>

(* It has no memory, or device_register fails: continue. *)
NewDeviceFails(n) ==
    /\ AtNode(n) /\ tree[n].reg = "valid"
    /\ left' = left \ {n}
    /\ uncreated' = uncreated \cup {n}
    /\ UNCHANGED <<tree, adapter, present, attaching, tried, loaded, adding,
                   seen, bindVars, stale>>

AttachDriver(d, verdict) ==
    /\ attaching # Nobody /\ d \in loaded \ tried
    /\ Try(d, attaching, verdict)
    /\ tried' = tried \cup {d}
    /\ UNCHANGED <<tree, scanVars, attaching, loaded, adding, seen, stale>>

AttachEnd ==
    /\ attaching # Nobody /\ loaded \subseteq tried
    /\ attaching' = Nobody /\ tried' = {}
    /\ UNCHANGED <<tree, scanVars, loaded, adding, seen, bindVars, stale>>

ScanEnd ==
    /\ adapter = "scanning" /\ attaching = Nobody /\ left = {}
    /\ adapter' = "done"
    /\ UNCHANGED <<tree, left, present, uncreated, attaching, tried, loaded,
                   adding, seen, bindVars, stale>>

-----------------------------------------------------------------------------
(* module_i2c_driver: two drivers of one name are not both registered. *)
LoadDriver(d) ==
    /\ d \in Modules[tree] \ loaded
    /\ \A e \in loaded : BusName[e] # BusName[d]
    /\ loaded' = loaded \cup {d} /\ adding' = adding \cup {d}
    /\ UNCHANGED <<tree, scanVars, attaching, tried, seen, bindVars, stale>>

(* A device under way in the other scan is locked. *)
AttachDevice(d, n, verdict) ==
    /\ d \in adding /\ n \in present \ {attaching} /\ <<d, n>> \notin seen
    /\ Try(d, n, verdict)
    /\ seen' = seen \cup {<<d, n>>}
    /\ UNCHANGED <<tree, scanVars, attaching, tried, loaded, adding, stale>>

LoadEnd(d) ==
    /\ d \in adding /\ \A n \in present : <<d, n>> \in seen
    /\ adding' = adding \ {d}
    /\ seen' = seen \ ({d} \X Node)
    /\ UNCHANGED <<tree, scanVars, attaching, tried, loaded, bindVars, stale>>

(* Its remove is called for each of its devices, and B's client goes with  *)
(* the module. B's remove oopses on a hollow device: not followed.         *)
Unregister(d) ==
    /\ \A n \in hollow : bound[n] # d
    /\ loaded' = loaded \ {d} /\ tried' = tried \ {d}
    /\ bound' = [n \in Node |-> IF bound[n] = d THEN Nobody ELSE bound[n]]
    /\ stale' = (stale \/ (d = "A" /\ \E n \in Node : bound[n] = d))
    /\ refused' = refused \ ({d} \X Node)
    /\ client' = IF d = "B" THEN Nobody ELSE client
    /\ UNCHANGED <<tree, scanVars, attaching, adding, seen, hollow>>

(* Mutant: a driver goes while it is still being tried with the devices.   *)
UnloadAnyTime(d) == d \in loaded /\ Unregister(d)

UnloadDriver(d) == d \in loaded \ adding /\ Unregister(d)

AdapterStep ==
    \/ AddAdapter \/ AttachEnd \/ ScanEnd
    \/ \E n \in Node : SkipNode(n) \/ NewDevice(n) \/ NewDeviceFails(n)
    \/ \E d \in DriverId, verdict \in Verdict : AttachDriver(d, verdict)

LoadStep(d) ==
    \/ LoadDriver(d) \/ LoadEnd(d)
    \/ \E n \in Node, verdict \in Verdict : AttachDevice(d, n, verdict)

BusNext ==
    \/ AdapterStep
    \/ \E d \in DriverId : LoadStep(d) \/ UnloadDriver(d)

BusSpec == BusInit /\ [][BusNext]_busVars

-----------------------------------------------------------------------------
(* Properties.                                                             *)

(* One unusable child costs only itself: when the scan is over every other *)
(* child has its device, unless the creation of that very device failed    *)
(* (of_i2c_register_devices goes on after each error).                     *)
ChildrenServed ==
    adapter = "done" =>
        \A n \in Node : tree[n].reg = "valid" => n \in present \cup uncreated

(* Whichever comes first, device or driver, and however their scans        *)
(* overlap: once neither is being tried, a device without a driver has no  *)
(* loaded driver that matches it and would take it (i2c_device_match,      *)
(* i2c_device_probe). Nothing looks again when a driver goes, so it        *)
(* matters that two drivers for one device are never loaded together: A    *)
(* and B have one name.                                                    *)
NobodyMissed ==
    \A n \in present \ {attaching}, d \in (loaded \ adding) \cap HasIdTable :
        bound[n] = Nobody /\ DeviceMatch(d, n) => <<d, n>> \in refused

(* A device is bound to a driver that is still there, has an id_table and  *)
(* matches it; of two devices of one driver at most one has the driver's   *)
(* device file. That the device tree names the driver's own compatible is  *)
(* not enough (the notes at the end of i2c-s3c2410.c).                     *)
BoundRightly ==
    \A n \in Node : bound[n] # Nobody =>
        /\ n \in present /\ bound[n] \in loaded \cap HasIdTable
        /\ DeviceMatch(bound[n], n)
        /\ \A m \in Node \ {n} : bound[m] = bound[n] => {m, n} \cap hollow # {}
=============================================================================
