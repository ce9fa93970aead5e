--------------------------- MODULE DeviceUpdate ---------------------------
(***************************************************************************)
(* The Update controller (internal/controller/update_controller.go) and    *)
(* the IPUpdate controller as another writer of the same NetBox devices.   *)
(* For every device that is active or staged, Update names the interface   *)
(* of the remote board "remoteboard", sets platform and OOB address,       *)
(* deletes the vmk interfaces with their addresses, and copies the DNS     *)
(* name of the OOB address to the BMC.                                     *)
(*                                                                         *)
(* The worker (one, for MaxConcurrentReconciles is 1) takes a step per     *)
(* call it makes; NetBox offers no transactions and no versions.           *)
(***************************************************************************)
EXTENDS Integers, Sequences, SequencesExt, FiniteSets

CONSTANTS
    Order,     \* the devices of the selected clusters, in NetBox's order
    Iface,     \* the interfaces
    DeviceOf,  \* the device of an interface
    Addr,      \* the addresses
    Named,     \* those with a DNS name, which stands for itself
    InitLive,  \* whether devices may be active or staged at first
    InitGarden,\* whether the platform of each may be GardenLinux at first
    InitNames, \* the names an interface may have at first
    InitIface, \* the interface of an address at first
    None,      \* no address, no host name, no record
    NoBMC,     \* there is no BMC
    Claimed,   \* the devices IPUpdate has an IPAddress for
    MaxFaults, \* bound: failed calls and crashes of the manager
    MaxEdits   \* bound: edits by operators

Device == ToSet(Order)

\* interfacesToRename is "vendor"; vmk0, vmk1 and so on are "vmk".
IfaceName == {"remoteboard", "vendor", "vmk", "other"}

ASSUME OrderAssumption == Order \in Seq(ToSet(Order)) \ {<<>>} /\ IsInjective(Order)
ASSUME RecordAssumption ==
    /\ DeviceOf \in [Iface -> Device]
    /\ InitLive \subseteq BOOLEAN
    /\ InitGarden \in [Device -> SUBSET BOOLEAN]
    /\ InitNames \in [Iface -> SUBSET IfaceName]
    /\ InitIface \in [Addr -> Iface \cup {None}]
    /\ Named \subseteq Addr
    /\ None \notin Addr \cup Iface \cup IfaceName \cup {NoBMC} /\ NoBMC \notin Addr
    /\ Claimed \subseteq Device
ASSUME BoundAssumption == MaxFaults \in Nat /\ MaxEdits \in Nat

VARIABLES
    device, \* the NetBox devices
    name,   \* the names of the interfaces, None once deleted
    on,     \* the interface of each address, None once deleted
    bmcs,   \* the host names of the BMCs: from the cached one to the current one
    status, \* the state of the Update resource
    w,      \* the Reconcile call in progress
    ip,     \* the IPUpdate call in progress between its read and its write
    faults, edits

netbox == <<device, name, on>>
bounds == <<faults, edits>>
vars   == <<device, name, on, bmcs, status, w, ip, faults, edits>>

-----------------------------------------------------------------------------
\* live: active or staged; garden: the platform is GardenLinux; primary: the
\* primary IP is the record of the IPAddress.
DeviceRecord == [live: BOOLEAN, garden: BOOLEAN, oob: Addr \cup {None}, primary: BOOLEAN]
Host == Named \cup {None, NoBMC}

Result == {"none", "Ready", "Error"}
PC == {"idle", "list", "device", "listBoards", "rename", "findBoard", "findAddr",
       "updateDevice", "listVmks", "vmkAddrs", "deleteAddr", "deleteIface",
       "hostBoard", "hostAddr", "getBMC", "patchBMC", "status"}

\* The steps within one device.
Busy == PC \ {"idle", "list", "status"}

\* The calls that leave the process; the Get of a BMC reads the cache.
Remote == PC \ {"idle", "device", "getBMC"}

\* todo: the devices left; list: what NetBox said of them; ifaces, addrs: the
\* interfaces and addresses left to write or delete; iface, addr: those at hand.
IdleWorker == [pc |-> "idle", todo |-> <<>>, list |-> <<>>, ifaces |-> {}, addrs |-> {},
               iface |-> None, addr |-> None, result |-> "none"]
IdleIP == [on |-> FALSE]

On(d) == {i \in Iface : DeviceOf[i] = d}
Having(d, n) == {i \in On(d) : name[i] = n}
AddrsOf(i) == {a \in Addr : on[a] = i}

\* The names of the interfaces of a device differ.
OneBoard(d) == \A i, j \in Having(d, "remoteboard") : i = j

Worker == [pc: PC, todo: Seq(Device), list: {<<>>} \cup [Device -> DeviceRecord],
           ifaces: SUBSET Iface, addrs: SUBSET Addr,
           iface: Iface \cup {None}, addr: Addr \cup {None}, result: Result]

TypeOK ==
    /\ device \in [Device -> DeviceRecord]
    /\ name \in [Iface -> IfaceName \cup {None}]
    /\ \A d \in Device : OneBoard(d)
    /\ on \in [Addr -> Iface \cup {None}]
    /\ \A a \in Addr : on[a] # None => name[on[a]] # None
    /\ bmcs \in [Device -> Seq(Host) \ {<<>>}]
    /\ status \in Result
    /\ w \in Worker
    /\ w.pc \in Busy => w.list \in [Device -> DeviceRecord] /\ w.todo # <<>>
    /\ w.pc \in {"rename", "vmkAddrs"} => w.ifaces # {}
    /\ w.pc \in {"findAddr", "deleteAddr", "deleteIface", "hostAddr"} => w.iface \in Iface
    /\ w.pc = "deleteAddr" => w.addrs # {}
    /\ w.pc = "updateDevice" => w.addr \in Addr
    /\ w.pc \in {"getBMC", "patchBMC"} => w.addr \in Named
    /\ ip \in {IdleIP} \cup [on: {TRUE}, d: Device, snap: DeviceRecord]
    /\ faults \in 0..MaxFaults /\ edits \in 0..MaxEdits

Init ==
    /\ device \in [Device -> [live: InitLive, garden: BOOLEAN, oob: {None}, primary: {FALSE}]]
    /\ \A d \in Device : device[d].garden \in InitGarden[d]
    /\ name \in {f \in [Iface -> IfaceName] : \A i \in Iface : f[i] \in InitNames[i]}
    /\ \A d \in Device : OneBoard(d)
    /\ on = InitIface
    /\ bmcs = [d \in Device |-> <<None>>]
    /\ status = "none"
    /\ w = IdleWorker
    /\ ip = IdleIP
    /\ faults = 0 /\ edits = 0

-----------------------------------------------------------------------------
(***************************************************************************)
(* What NetBox does.                                                       *)
(***************************************************************************)
Exists(a) == a \in Addr => on[a] # None

\* A device is written as a whole; an OOB address has to exist.
WriteDevice(d, v) == device' = [device EXCEPT ![d] = v]

\* An interface can take the name unless another one of the device has it.
MayBeBoard(i) == name[i] # None /\ Having(DeviceOf[i], "remoteboard") \subseteq {i}

\* Deleted addresses are nobody's OOB address any more.
DeleteAddrs(S) ==
    /\ on' = [a \in Addr |-> IF a \in S THEN None ELSE on[a]]
    /\ device' = [d \in Device |->
                    IF device[d].oob \in S THEN [device[d] EXCEPT !.oob = None] ELSE device[d]]

-----------------------------------------------------------------------------
(***************************************************************************)
(* The worker.                                                             *)
(***************************************************************************)
At(pc) == w.pc = pc
It == Head(w.todo)
Goto(pc) == w' = [w EXCEPT !.pc = pc]
Finish(result) == w' = [IdleWorker EXCEPT !.pc = "status", !.result = result]

\* The first error ends Reconcile: the status tells, and it runs again.
Fail == Finish("Error")

\* The loop over the devices goes on; after the last the Update is Ready.
NextDevice ==
    IF Len(w.todo) > 1
    THEN w' = [IdleWorker EXCEPT !.pc = "device", !.todo = Tail(w.todo), !.list = w.list]
    ELSE Finish("Ready")

\* The loop over S: from pc as long as something is left, then to after.
Loop(S, pc, after) ==
    w' = [w EXCEPT !.ifaces = S, !.pc = IF S = {} THEN after ELSE pc]

\* Reconcile reads the Update and reloads credentials and clients.
Start ==
    /\ At("idle")
    /\ Goto("list")
    /\ UNCHANGED <<netbox, bmcs, status, ip, bounds>>

\* The clusters of the selection and their devices.
ListDevices ==
    /\ At("list")
    /\ w' = [w EXCEPT !.pc = "device", !.todo = Order, !.list = device]
    /\ UNCHANGED <<netbox, bmcs, status, ip, bounds>>

\* reconcileDevice, its status test.
ReconcileDevice ==
    /\ At("device")
    /\ IF w.list[It].live THEN Goto("listBoards") ELSE NextDevice
    /\ UNCHANGED <<netbox, bmcs, status, ip, bounds>>

\* renameRemoteboardInterface: the interfaces with a vendor's name, ...
ListBoards ==
    /\ At("listBoards")
    /\ Loop(Having(It, "vendor"), "rename", "findBoard")
    /\ UNCHANGED <<netbox, bmcs, status, ip, bounds>>

\* ... each of which is named remoteboard, whatever its name is by now.
RenameInterface ==
    /\ At("rename")
    /\ \E i \in w.ifaces :
         IF MayBeBoard(i)
         THEN /\ name' = [name EXCEPT ![i] = "remoteboard"]
              /\ Loop(w.ifaces \ {i}, "rename", "findBoard")
         ELSE Fail /\ UNCHANGED name
    /\ UNCHANGED <<device, on, bmcs, status, ip, bounds>>

\* updateDeviceData: GetInterfaceForDevice, ...
FindBoard ==
    /\ At("findBoard")
    /\ \/ Having(It, "remoteboard") = {} /\ Fail
       \/ \E i \in Having(It, "remoteboard") :
            w' = [w EXCEPT !.pc = "findAddr", !.iface = i]
    /\ UNCHANGED <<netbox, bmcs, status, ip, bounds>>

\* ... GetIPAddressForInterface, which wants exactly one, ...
FindAddr ==
    /\ At("findAddr")
    /\ \/ Cardinality(AddrsOf(w.iface)) # 1 /\ Fail
       \/ \E a \in Addr : /\ AddrsOf(w.iface) = {a}
                          /\ w' = [w EXCEPT !.pc = "updateDevice", !.addr = a]
    /\ UNCHANGED <<netbox, bmcs, status, ip, bounds>>

\* Mutant: the device is written only if both values differ.
Bug_UpdateDevice ==
    /\ At("updateDevice")
    /\ IF w.list[It].garden \/ w.list[It].oob = w.addr
       THEN Goto("listVmks") /\ UNCHANGED device
       ELSE IF ~Exists(w.addr) THEN Fail /\ UNCHANGED device
       ELSE /\ WriteDevice(It, [w.list[It] EXCEPT !.garden = TRUE, !.oob = w.addr])
            /\ Goto("listVmks")
    /\ UNCHANGED <<name, on, bmcs, status, ip, bounds>>

\* Mutant: the device is written on every pass.
Bug_UpdateDevice_Always ==
    /\ At("updateDevice")
    /\ IF ~Exists(w.addr) THEN Fail /\ UNCHANGED device
       ELSE /\ WriteDevice(It, [w.list[It] EXCEPT !.garden = TRUE, !.oob = w.addr])
            /\ Goto("listVmks")
    /\ UNCHANGED <<name, on, bmcs, status, ip, bounds>>

\* ... and the write, of the device as it was listed, with the new values.
UpdateDevice ==
    /\ At("updateDevice")
    /\ IF w.list[It].garden /\ w.list[It].oob = w.addr
       THEN Goto("listVmks") /\ UNCHANGED device
       ELSE IF ~Exists(w.addr) THEN Fail /\ UNCHANGED device
       ELSE /\ WriteDevice(It, [w.list[It] EXCEPT !.garden = TRUE, !.oob = w.addr])
            /\ Goto("listVmks")
    /\ UNCHANGED <<name, on, bmcs, status, ip, bounds>>

\* removeVMKInterfacesAndIPs: the vmk interfaces, ...
ListVmks ==
    /\ At("listVmks")
    /\ Loop(Having(It, "vmk"), "vmkAddrs", "hostBoard")
    /\ UNCHANGED <<netbox, bmcs, status, ip, bounds>>

\* ... the addresses of one, ...
ListVmkAddrs ==
    /\ At("vmkAddrs")
    /\ \E i \in w.ifaces :
         w' = [w EXCEPT !.pc = IF AddrsOf(i) = {} THEN "deleteIface" ELSE "deleteAddr",
                        !.iface = i, !.addrs = AddrsOf(i)]
    /\ UNCHANGED <<netbox, bmcs, status, ip, bounds>>

\* Mutant: an error of the deletion goes unnoticed.
Bug_DeleteVmkAddr ==
    /\ At("deleteAddr")
    /\ \E a \in w.addrs :
         /\ DeleteAddrs({a})
         /\ w' = [w EXCEPT !.addrs = @ \ {a}]
    /\ UNCHANGED <<name, bmcs, status, ip, bounds>>

\* ... each deleted by its id, wherever it is by now, ...
DeleteVmkAddr ==
    /\ At("deleteAddr")
    /\ \E a \in w.addrs :
         IF on[a] = None THEN Fail /\ UNCHANGED <<on, device>>
         ELSE /\ DeleteAddrs({a})
              /\ w' = [w EXCEPT !.addrs = @ \ {a},
                                !.pc = IF w.addrs = {a} THEN "deleteIface" ELSE @]
    /\ UNCHANGED <<name, bmcs, status, ip, bounds>>

\* ... and the interface, by its id; NetBox deletes what addresses it still has.
DeleteVmk ==
    /\ At("deleteIface")
    /\ IF name[w.iface] = None THEN Fail /\ UNCHANGED netbox
       ELSE /\ name' = [name EXCEPT ![w.iface] = None]
            /\ DeleteAddrs(AddrsOf(w.iface))
            /\ Loop(w.ifaces \ {w.iface}, "vmkAddrs", "hostBoard")
    /\ UNCHANGED <<bmcs, status, ip, bounds>>

\* updateBMCHostname: any failure of getRemoteboardHostname skips the rest.
FindHostBoard ==
    /\ At("hostBoard")
    /\ \/ Having(It, "remoteboard") = {} /\ NextDevice
       \/ \E i \in Having(It, "remoteboard") :
            w' = [w EXCEPT !.pc = "hostAddr", !.iface = i]
    /\ UNCHANGED <<netbox, bmcs, status, ip, bounds>>

\* Mutant: the failure is returned.
Bug_FindHostAddr ==
    /\ At("hostAddr")
    /\ \/ ~(\E a \in Named : AddrsOf(w.iface) = {a}) /\ Fail
       \/ \E a \in Named : /\ AddrsOf(w.iface) = {a}
                           /\ w' = [w EXCEPT !.pc = "getBMC", !.addr = a]
    /\ UNCHANGED <<netbox, bmcs, status, ip, bounds>>

FindHostAddr ==
    /\ At("hostAddr")
    /\ \/ ~(\E a \in Named : AddrsOf(w.iface) = {a}) /\ NextDevice
       \/ \E a \in Named : /\ AddrsOf(w.iface) = {a}
                           /\ w' = [w EXCEPT !.pc = "getBMC", !.addr = a]
    /\ UNCHANGED <<netbox, bmcs, status, ip, bounds>>

\* Mutant: a host name that is set stays.
Bug_GetBMC ==
    /\ At("getBMC")
    /\ IF Head(bmcs[It]) # None THEN NextDevice ELSE Goto("patchBMC")
    /\ UNCHANGED <<netbox, bmcs, status, ip, bounds>>

\* A BMC that is absent, or already right, is left alone.
GetBMC ==
    /\ At("getBMC")
    /\ IF Head(bmcs[It]) \in {NoBMC, w.addr} THEN NextDevice ELSE Goto("patchBMC")
    /\ UNCHANGED <<netbox, bmcs, status, ip, bounds>>

\* A BMC gets a new version, unless the write changes nothing.
StoreBMC(d, h) ==
    bmcs' = [bmcs EXCEPT ![d] = IF Last(@) = h THEN @ ELSE Append(@, h)]

PatchBMC ==
    /\ At("patchBMC")
    /\ IF Last(bmcs[It]) = NoBMC THEN Fail /\ UNCHANGED bmcs
       ELSE StoreBMC(It, w.addr) /\ NextDevice
    /\ UNCHANGED <<netbox, status, ip, bounds>>

\* SetCondition and UpdateToReady or UpdateToError.
UpdateStatus ==
    /\ At("status")
    /\ status' = w.result
    /\ w' = IdleWorker
    /\ UNCHANGED <<netbox, bmcs, ip, bounds>>

Step ==
    \/ ListDevices \/ ReconcileDevice
    \/ ListBoards \/ RenameInterface
    \/ FindBoard \/ FindAddr \/ UpdateDevice
    \/ ListVmks \/ ListVmkAddrs \/ DeleteVmkAddr \/ DeleteVmk
    \/ FindHostBoard \/ FindHostAddr \/ GetBMC \/ PatchBMC
    \/ UpdateStatus

-----------------------------------------------------------------------------
(***************************************************************************)
(* The IPUpdate controller, the informer, faults and operators.            *)
(***************************************************************************)
\* GetDeviceByName in findNetboxTarget; a device that has its primary IP is not
\* written.
IPUpdateRead(d) ==
    /\ ~ip.on
    /\ d \in Claimed
    /\ ~device[d].primary
    /\ ip' = [on |-> TRUE, d |-> d, snap |-> device[d]]
    /\ UNCHANGED <<netbox, bmcs, status, w, bounds>>

\* reconcileDevicePrimaryIP: the device as it was read, with another primary IP.
IPUpdateWrite ==
    /\ ip.on
    /\ ip' = IdleIP
    /\ IF Exists(ip.snap.oob) THEN WriteDevice(ip.d, [ip.snap EXCEPT !.primary = TRUE])
       ELSE UNCHANGED device
    /\ UNCHANGED <<name, on, bmcs, status, w, bounds>>

Deliver(d) ==
    /\ Len(bmcs[d]) > 1
    /\ bmcs' = [bmcs EXCEPT ![d] = Tail(@)]
    /\ UNCHANGED <<netbox, status, w, ip, bounds>>

\* A call fails: for the host name this is no error, and for the status there
\* is nobody left to tell.
CallFails ==
    /\ w.pc \in Remote
    /\ faults < MaxFaults
    /\ faults' = faults + 1
    /\ IF w.pc \in {"hostBoard", "hostAddr"} THEN NextDevice
       ELSE IF At("status") THEN w' = IdleWorker
       ELSE Fail
    /\ UNCHANGED <<netbox, bmcs, status, ip, edits>>

\* The manager dies, and with it the call of IPUpdate; it starts with fresh caches.
Crash ==
    /\ faults < MaxFaults
    /\ faults' = faults + 1
    /\ w' = IdleWorker
    /\ ip' = IdleIP
    /\ bmcs' = [d \in Device |-> <<Last(bmcs[d])>>]
    /\ UNCHANGED <<netbox, status, edits>>

Edit ==
    /\ edits < MaxEdits
    /\ edits' = edits + 1
    /\ UNCHANGED <<status, w, ip, faults>>

EditDevice(d) ==
    /\ Edit
    /\ \/ WriteDevice(d, [device[d] EXCEPT !.live = ~@])
       \/ WriteDevice(d, [device[d] EXCEPT !.garden = ~@])
       \/ WriteDevice(d, [device[d] EXCEPT !.oob = None])
       \/ device[d].primary /\ WriteDevice(d, [device[d] EXCEPT !.primary = FALSE])
    /\ UNCHANGED <<name, on, bmcs>>

\* An operator renames an interface.
EditName(i, n) ==
    /\ Edit
    /\ name[i] \notin {None, n}
    /\ n = "remoteboard" => MayBeBoard(i)
    /\ name' = [name EXCEPT ![i] = n]
    /\ UNCHANGED <<device, on, bmcs>>

\* An operator moves an address, ...
EditMove(a, i) ==
    /\ Edit
    /\ name[i] # None
    /\ on[a] \notin {None, i}
    /\ on' = [on EXCEPT ![a] = i]
    /\ UNCHANGED <<device, name, bmcs>>

\* ... or deletes it.
EditDelete(a) ==
    /\ Edit
    /\ on[a] # None
    /\ DeleteAddrs({a})
    /\ UNCHANGED <<name, bmcs>>

\* A BMC is created, deleted, or gets another host name.
EditBMC(d, h) ==
    /\ Edit
    /\ StoreBMC(d, h)
    /\ UNCHANGED netbox

Next ==
    \/ Start
    \/ Step
    \/ \E d \in Device : IPUpdateRead(d) \/ Deliver(d)
    \/ IPUpdateWrite
    \/ CallFails
    \/ Crash
    \/ \E d \in Device : EditDevice(d)
    \/ \E d \in Device, h \in Host : EditBMC(d, h)
    \/ \E i \in Iface, n \in IfaceName : EditName(i, n)
    \/ \E a \in Addr : EditDelete(a) \/ \E i \in Iface : EditMove(a, i)

Spec == Init /\ [][Next]_vars

\* Reconcile runs again for ever (RequeueAfter, or backoff after an error), no
\* call hangs and the informer delivers.  IPUpdate comes back to a device
\* whose primary IP stays wrong when its own informer resyncs.
Fairness ==
    /\ WF_vars(Start \/ Step)
    /\ \A d \in Device : WF_vars(Deliver(d)) /\ WF_vars(IPUpdateRead(d))
    /\ WF_vars(IPUpdateWrite)

FairSpec == Spec /\ Fairness

-----------------------------------------------------------------------------
(***************************************************************************)
(* Properties.                                                             *)
(***************************************************************************)
Boards(d) == Having(d, "remoteboard") \cup Having(d, "vendor")

\* The interfaces of the device are as they should be.
Clean(d) ==
    /\ Having(d, "vendor") = {} /\ Having(d, "vmk") = {}
    /\ \E i \in Having(d, "remoteboard") : Cardinality(AddrsOf(i)) = 1

\* Platform and OOB address are as they should be.
DataRight(d) ==
    /\ device[d].garden
    /\ \E i \in Having(d, "remoteboard") : AddrsOf(i) = {device[d].oob}

\* A BMC has the DNS name of the OOB address, if it has one.
HostRight(d) == device[d].oob \in Named => Last(bmcs[d]) \in {NoBMC, device[d].oob}

\* A Ready Update is no empty promise: while no operator edits, whatever calls
\* failed before, every live device has its remoteboard interface and no vmk, and,
\* unless IPUpdate writes it as well, the right platform and OOB address.
ReadyMeansUpdated ==
    status = "Ready" /\ edits = 0 =>
        \A d \in Device : device[d].live =>
            Clean(d) /\ (d \notin Claimed => DataRight(d))

\* The worker can put the device right: two interfaces cannot both be named
\* remoteboard, and the one that is needs exactly one address.
Fixable(d) == \E i \in Iface : Boards(d) = {i} /\ Cardinality(AddrsOf(i)) = 1

\* The devices the loop reaches.
Reached(d) ==
    \E k \in DOMAIN Order :
        /\ Order[k] = d
        /\ \A j \in 1..(k - 1) : device[Order[j]].live => Fixable(Order[j])

\* A live device that the loop reaches and can put right is right in the end and
\* stays so, whatever IPUpdate wrote over it, and whatever failed or was edited.
EventuallyUpdated ==
    \A d \in Device :
        <>[](device[d].live /\ Reached(d) /\ Fixable(d))
          => <>[](Clean(d) /\ DataRight(d) /\ HostRight(d))

\* IPUpdate and Update write back whole devices that they read before, each over
\* what the other wrote meanwhile (ipupdate_controller.go:339,
\* update_controller.go:258); for they write only what differs, neither undoes
\* the other for ever: the device keeps its primary IP in the end.
EventuallyPrimary == \A d \in Claimed : <>[](device[d].primary)

\* The status ends up telling whether all live devices can be put right; a
\* missing DNS name or BMC is no error.
StatusTracks ==
    /\ <>[](\E d \in Device : device[d].live /\ ~Fixable(d)) => <>[](status = "Error")
    /\ <>[](\A d \in Device : device[d].live => Fixable(d)) => <>[](status = "Ready")
===========================================================================
