------------------------- MODULE DeviceUpdateProofs -------------------------
(***************************************************************************)
(* What holds of DeviceUpdate for every value of its constants: its        *)
(* variables keep their types, and a Ready Update is no empty promise.     *)
(***************************************************************************)
EXTENDS DeviceUpdate, VersionSequences, FiniteSetTheorems

(***************************************************************************)
(* The inductive invariant.                                                *)
(***************************************************************************)
InLoop == w.pc \in Busy

\* The board of d has one address and, unless IPUpdate writes the device too,
\* it is the one the device has.
BoardRight(d) ==
    \E i \in Having(d, "remoteboard"), a \in Addr :
        /\ AddrsOf(i) = {a}
        /\ d \notin Claimed => device[d].garden /\ device[d].oob = a

\* What ReadyMeansUpdated says of a device.
Right(d) ==
    device[d].live =>
        Having(d, "vendor") = {} /\ Having(d, "vmk") = {} /\ BoardRight(d)

\* A device the worker has yet to write is as it was listed, unless IPUpdate
\* wrote it or its OOB address was deleted.
Listed(d) ==
    d \notin Claimed =>
        /\ w.list[d].garden => device[d].garden
        /\ \A a \in Addr : w.list[d].oob = a => on[a] = None \/ device[d].oob = a

Ahead(d) ==
    \/ d \in ToSet(Tail(w.todo))
    \/ d = It /\ w.pc \in {"device", "listBoards", "rename", "findBoard", "findAddr",
                           "updateDevice"}

Snapshots ==
    /\ InLoop =>
         /\ IsInjective(w.todo)
         /\ \A d \in Device : /\ w.list[d].live = device[d].live
                              /\ Ahead(d) => Listed(d)
    /\ ip.on => ip.d \in Claimed /\ ip.snap.live = device[ip.d].live

\* How far the worker is with its device.
DeletingVmks == {"vmkAddrs", "deleteAddr", "deleteIface"}
Hosting == {"hostBoard", "hostAddr", "getBMC", "patchBMC"}
Written == {"listVmks"} \cup DeletingVmks \cup Hosting

Stage ==
    /\ InLoop /\ ~At("device") => device[It].live
    /\ At("rename") => w.ifaces = Having(It, "vendor")
    /\ w.pc \in {"findBoard", "findAddr", "updateDevice"} \cup Written => Having(It, "vendor") = {}
    /\ At("findAddr") => w.iface \in Having(It, "remoteboard")
    /\ At("updateDevice") => \E i \in Having(It, "remoteboard") : AddrsOf(i) = {w.addr}
    /\ w.pc \in Written => BoardRight(It)
    /\ w.pc \in DeletingVmks => w.ifaces = Having(It, "vmk")
    /\ w.pc \in {"deleteAddr", "deleteIface"} => w.iface \in Having(It, "vmk")
    /\ At("deleteAddr") => w.addrs \subseteq AddrsOf(w.iface)
    /\ w.pc \in Hosting => Having(It, "vmk") = {}

\* The devices the loop has been through are right, and when it has been through
\* all of them the state to write, or written, is Ready.
Progress ==
    /\ InLoop => \A d \in Device : d \in ToSet(w.todo) \/ Right(d)
    /\ w.result = "Ready" \/ status = "Ready" => \A d \in Device : Right(d)

\* All of this as long as no operator edits.
UpdateNow == Snapshots /\ Stage /\ Progress
UpdateInv == edits = 0 => UpdateNow

-----------------------------------------------------------------------------
(***************************************************************************)
(* Types.                                                                  *)
(***************************************************************************)
NetBoxType ==
    /\ device \in [Device -> DeviceRecord]
    /\ name \in [Iface -> IfaceName \cup {None}]
    /\ \A d \in Device : OneBoard(d)
    /\ on \in [Addr -> Iface \cup {None}]
    /\ \A a \in Addr : on[a] # None => name[on[a]] # None

BMCsType == bmcs \in [Device -> Seq(Host) \ {<<>>}]

WorkerType ==
    /\ w \in Worker
    /\ InLoop => w.list \in [Device -> DeviceRecord] /\ w.todo # <<>>
    /\ w.pc \in {"rename", "vmkAddrs"} => w.ifaces # {}
    /\ w.pc \in {"findAddr", "deleteAddr", "deleteIface", "hostAddr"} => w.iface \in Iface
    /\ w.pc = "deleteAddr" => w.addrs # {}
    /\ w.pc = "updateDevice" => w.addr \in Addr
    /\ w.pc \in {"getBMC", "patchBMC"} => w.addr \in Named

RestType ==
    /\ status \in Result
    /\ ip \in {IdleIP} \cup [on: {TRUE}, d: Device, snap: DeviceRecord]
    /\ faults \in 0..MaxFaults /\ edits \in 0..MaxEdits

LEMMA TypeParts ==
    /\ TypeOK <=> NetBoxType /\ BMCsType /\ WorkerType /\ RestType
    /\ TypeOK' <=> NetBoxType' /\ BMCsType' /\ WorkerType' /\ RestType'
  BY DEF TypeOK, NetBoxType, BMCsType, WorkerType, RestType, InLoop

LEMMA IdleType ==
    /\ IdleWorker \in Worker
    /\ IdleWorker.pc = "idle" /\ IdleWorker.result = "none"
  <1>1. <<>> \in Seq(Device)
    OBVIOUS
  <1> QED
    BY <1>1 DEF IdleWorker, Worker, PC, Result

LEMMA TypeInit == Init => TypeOK
  <1> SUFFICES ASSUME Init PROVE TypeOK
    OBVIOUS
  <1>1. WorkerType
    BY IdleType DEF Init, WorkerType, InLoop, Busy
  <1>2. NetBoxType
    <2>1. device \in [Device -> DeviceRecord]
      BY RecordAssumption DEF Init, DeviceRecord
    <2>2. name \in [Iface -> IfaceName]
      BY DEF Init
    <2>3. on \in [Addr -> Iface \cup {None}]
      BY RecordAssumption DEF Init
    <2>4. \A a \in Addr : on[a] # None => name[on[a]] # None
      BY <2>2, <2>3, RecordAssumption
    <2> QED
      BY <2>1, <2>2, <2>3, <2>4 DEF Init, NetBoxType
  <1>3. BMCsType
    BY VersionSingle DEF Init, BMCsType, Host
  <1>4. RestType
    BY BoundAssumption DEF Init, RestType, Result
  <1> QED
    BY <1>1, <1>2, <1>3, <1>4, TypeParts

\* The ways a call ends, and the ways the loop goes on.
LEMMA FinishType ==
    ASSUME NEW r \in Result, Finish(r)
    PROVE  /\ w' \in Worker /\ WorkerType'
           /\ w'.pc = "status" /\ w'.result = r
  <1>1. w' \in Worker /\ w'.pc = "status" /\ w'.result = r
    BY IdleType DEF Finish, Worker, PC
  <1> QED
    BY <1>1 DEF WorkerType, InLoop, Busy

LEMMA NextDeviceType ==
    ASSUME WorkerType, InLoop, NextDevice
    PROVE  /\ WorkerType'
           /\ Len(w.todo) > 1 =>
                /\ w'.pc = "device" /\ w'.todo = Tail(w.todo) /\ w'.list = w.list
                /\ w'.result = "none"
           /\ ~(Len(w.todo) > 1) => w'.pc = "status"
  <1>1. CASE Len(w.todo) > 1
    <2>1. w.todo \in Seq(Device) /\ w.list \in [Device -> DeviceRecord]
      BY DEF WorkerType, Worker
    <2>2. Tail(w.todo) \in Seq(Device) \ {<<>>}
      BY <1>1, <2>1, VersionTail
    <2>3. w' = [IdleWorker EXCEPT !.pc = "device", !.todo = Tail(w.todo), !.list = w.list]
      BY <1>1 DEF NextDevice
    <2>4. /\ w' \in Worker /\ w'.pc = "device" /\ w'.todo = Tail(w.todo) /\ w'.list = w.list
          /\ w'.result = "none"
      BY <2>1, <2>2, <2>3, IdleType DEF Worker, PC
    <2> QED
      BY <1>1, <2>1, <2>2, <2>4 DEF WorkerType
  <1>2. CASE ~(Len(w.todo) > 1)
    BY <1>2, FinishType DEF NextDevice, Result
  <1> QED
    BY <1>1, <1>2

LEMMA HeadInDevice == WorkerType /\ InLoop => It \in Device
  <1> SUFFICES ASSUME WorkerType, InLoop PROVE It \in Device
    OBVIOUS
  <1>1. w.todo \in Seq(Device) \ {<<>>}
    BY DEF WorkerType, Worker
  <1> QED
    BY <1>1, VersionEnds DEF It

LEMMA TypeWorker ==
    ASSUME TypeOK, Start \/ Step
    PROVE  WorkerType'
  <1> USE TypeParts DEF At
  <1>0. w \in Worker /\ "Ready" \in Result /\ "Error" \in Result /\ None \notin Iface
    BY RecordAssumption DEF WorkerType, Result
  <1>1. CASE Fail
    BY <1>0, <1>1, FinishType DEF Fail
  <1>2. CASE InLoop /\ NextDevice
    BY <1>2, NextDeviceType
  <1>3. CASE Start
    <2>1. w' \in Worker /\ w'.pc = "list"
      BY <1>0, <1>3 DEF Start, Goto, Worker, PC
    <2> QED
      BY <2>1 DEF WorkerType, InLoop, Busy
  <1>4. CASE ListDevices
    <2>1. Order \in Seq(Device) /\ Order # <<>>
      BY OrderAssumption DEF Device
    <2>2. /\ w' \in Worker /\ w'.todo = Order /\ w'.list = device
          /\ w'.pc = "device"
      BY <1>0, <1>4, <2>1 DEF ListDevices, NetBoxType, Worker, PC
    <2> QED
      BY <2>1, <2>2 DEF WorkerType, NetBoxType
  <1>5. CASE /\ InLoop /\ w'.list = w.list /\ w'.todo = w.todo /\ w' \in Worker
             /\ \/ w'.pc \in {"listBoards", "findBoard", "listVmks", "hostBoard"}
                \/ w'.pc \in {"rename", "vmkAddrs"} /\ w'.ifaces # {}
                \/ w'.pc \in {"findAddr", "deleteIface", "hostAddr"} /\ w'.iface \in Iface
                \/ w'.pc = "deleteAddr" /\ w'.iface \in Iface /\ w'.addrs # {}
                \/ w'.pc = "updateDevice" /\ w'.addr \in Addr
                \/ w'.pc \in {"getBMC", "patchBMC"} /\ w'.addr \in Named
    BY <1>5 DEF WorkerType
  <1>6. CASE ReconcileDevice /\ ~NextDevice
    <2>1. InLoop /\ Goto("listBoards")
      BY <1>6 DEF ReconcileDevice, InLoop, Busy, PC
    <2> QED
      BY <1>0, <1>5, <2>1 DEF Goto, Worker, PC
  <1>7. CASE ListBoards \/ ListVmks
    <2>1. PICK n \in {"vendor", "vmk"}, pc \in {"rename", "vmkAddrs"},
               after \in {"findBoard", "hostBoard"} : InLoop /\ Loop(Having(It, n), pc, after)
      BY <1>7 DEF ListBoards, ListVmks, InLoop, Busy, PC
    <2>2. Having(It, n) \in SUBSET Iface
      BY DEF Having, On
    <2> QED
      BY <1>0, <1>5, <2>1, <2>2 DEF Loop, Worker, PC
  <1>8. CASE RenameInterface /\ ~Fail
    <2>1. PICK i \in w.ifaces : InLoop /\ Loop(w.ifaces \ {i}, "rename", "findBoard")
      BY <1>8 DEF RenameInterface, InLoop, Busy, PC
    <2> QED
      BY <1>0, <1>5, <2>1 DEF Loop, Worker, PC
  <1>9. CASE (FindBoard \/ FindHostBoard) /\ ~Fail /\ ~NextDevice
    <2>1. PICK i \in Having(It, "remoteboard"), pc \in {"findAddr", "hostAddr"} :
            InLoop /\ w' = [w EXCEPT !.pc = pc, !.iface = i]
      BY <1>9 DEF FindBoard, FindHostBoard, InLoop, Busy, PC
    <2>2. i \in Iface
      BY DEF Having, On
    <2> QED
      BY <1>0, <1>5, <2>1, <2>2 DEF Worker, PC
  <1>10. CASE (FindAddr \/ FindHostAddr) /\ ~Fail /\ ~NextDevice
    <2>1. PICK a \in Addr, pc \in {"updateDevice", "getBMC"} :
            /\ InLoop /\ w' = [w EXCEPT !.pc = pc, !.addr = a]
            /\ pc = "getBMC" => a \in Named
      BY <1>10, RecordAssumption DEF FindAddr, FindHostAddr, InLoop, Busy, PC
    <2> QED
      BY <1>0, <1>5, <2>1 DEF Worker, PC
  <1>11. CASE UpdateDevice /\ ~Fail
    <2>1. InLoop /\ Goto("listVmks")
      BY <1>11 DEF UpdateDevice, InLoop, Busy, PC
    <2> QED
      BY <1>0, <1>5, <2>1 DEF Goto, Worker, PC
  <1>12. CASE ListVmkAddrs
    <2>1. PICK i \in w.ifaces :
            w' = [w EXCEPT !.pc = IF AddrsOf(i) = {} THEN "deleteIface" ELSE "deleteAddr",
                           !.iface = i, !.addrs = AddrsOf(i)]
      BY <1>12 DEF ListVmkAddrs
    <2>2. i \in Iface /\ AddrsOf(i) \in SUBSET Addr /\ InLoop
      BY <1>0, <1>12 DEF Worker, AddrsOf, ListVmkAddrs, InLoop, Busy, PC
    <2> QED
      BY <1>0, <1>5, <2>1, <2>2 DEF Worker, PC
  <1>13. CASE DeleteVmkAddr /\ ~Fail
    <2>1. PICK a \in w.addrs :
            w' = [w EXCEPT !.addrs = w.addrs \ {a},
                           !.pc = IF w.addrs = {a} THEN "deleteIface" ELSE w.pc]
      BY <1>13 DEF DeleteVmkAddr
    <2>2. w.pc = "deleteAddr" /\ InLoop /\ w.iface \in Iface
      BY <1>13 DEF DeleteVmkAddr, InLoop, Busy, PC, WorkerType
    <2>3. w.addrs # {a} => w.addrs \ {a} # {}
      OBVIOUS
    <2> QED
      BY <1>0, <1>5, <2>1, <2>2, <2>3 DEF Worker, PC
  <1>14. CASE DeleteVmk /\ ~Fail
    <2>1. InLoop /\ Loop(w.ifaces \ {w.iface}, "vmkAddrs", "hostBoard")
      BY <1>14 DEF DeleteVmk, InLoop, Busy, PC
    <2> QED
      BY <1>0, <1>5, <2>1 DEF Loop, Worker, PC
  <1>15. CASE GetBMC /\ ~NextDevice
    <2>1. InLoop /\ Goto("patchBMC") /\ w.addr \in Named
      BY <1>15 DEF GetBMC, InLoop, Busy, PC, WorkerType
    <2> QED
      BY <1>0, <1>5, <2>1 DEF Goto, Worker, PC
  <1>16. CASE UpdateStatus
    BY <1>16, IdleType DEF UpdateStatus, WorkerType, InLoop, Busy
  <1>17. CASE PatchBMC
    BY <1>1, <1>2, <1>17 DEF PatchBMC, InLoop, Busy, PC
  <1>18. CASE (ReconcileDevice \/ FindHostBoard \/ FindHostAddr \/ GetBMC) /\ NextDevice
    <2>1. InLoop
      BY <1>18 DEF ReconcileDevice, FindHostBoard, FindHostAddr, GetBMC, InLoop, Busy, PC
    <2> QED
      BY <1>2, <1>18, <2>1
  <1>19. CASE FindBoard /\ NextDevice
    BY <1>2, <1>19 DEF FindBoard, InLoop, Busy, PC
  <1>20. CASE FindAddr /\ NextDevice
    BY <1>2, <1>20 DEF FindAddr, InLoop, Busy, PC
  <1> QED
    BY <1>1, <1>3, <1>4, <1>6, <1>7, <1>8, <1>9, <1>10, <1>11, <1>12, <1>13, <1>14, <1>15,
       <1>16, <1>17, <1>18, <1>19, <1>20 DEF Step

\* What NetBox does keeps its types.
LEMMA WriteType ==
    ASSUME NetBoxType, NEW d \in Device, NEW v \in DeviceRecord, WriteDevice(d, v),
           UNCHANGED <<name, on>>
    PROVE  NetBoxType'
  BY DEF NetBoxType, WriteDevice, OneBoard, Having

LEMMA DeleteType ==
    ASSUME NetBoxType, NEW S \in SUBSET Addr, DeleteAddrs(S), UNCHANGED name
    PROVE  NetBoxType'
  <1>1. \A d \in Device : device'[d] \in DeviceRecord
    BY DEF NetBoxType, DeleteAddrs, DeviceRecord
  <1>2. /\ device' \in [Device -> DeviceRecord]
        /\ on' \in [Addr -> Iface \cup {None}]
        /\ \A a \in Addr : on'[a] # None => on'[a] = on[a]
    BY <1>1 DEF NetBoxType, DeleteAddrs
  <1> QED
    BY <1>2 DEF NetBoxType, OneBoard, Having

LEMMA RenameType ==
    ASSUME NetBoxType, NEW i \in Iface, NEW n \in IfaceName, UNCHANGED <<device, on>>,
           n = "remoteboard" => MayBeBoard(i), name' = [name EXCEPT ![i] = n]
    PROVE  NetBoxType'
  <1>1. \A j \in Iface : name'[j] = IF j = i THEN n ELSE name[j]
    BY DEF NetBoxType
  <1>2. ASSUME NEW d \in Device
        PROVE  OneBoard(d)'
    <2>1. \A j \in Having(d, "remoteboard")' :
            \/ j \in Having(d, "remoteboard")
            \/ j = i /\ n = "remoteboard" /\ DeviceOf[i] = d
      BY <1>1 DEF Having, On
    <2>2. CASE n = "remoteboard" /\ DeviceOf[i] = d
      BY <2>1, <2>2 DEF MayBeBoard, OneBoard
    <2>3. CASE ~(n = "remoteboard" /\ DeviceOf[i] = d)
      BY <2>1, <2>3 DEF NetBoxType, OneBoard
    <2> QED
      BY <2>2, <2>3
  <1>3. n # None
    BY RecordAssumption
  <1> QED
    BY <1>1, <1>2, <1>3 DEF NetBoxType

LEMMA DropType ==
    ASSUME NetBoxType, NEW i \in Iface, name' = [name EXCEPT ![i] = None],
           DeleteAddrs(AddrsOf(i))
    PROVE  NetBoxType'
  <1>1. \A d \in Device : device'[d] \in DeviceRecord
    BY DEF NetBoxType, DeleteAddrs, DeviceRecord
  <1>2. /\ device' \in [Device -> DeviceRecord]
        /\ on' \in [Addr -> Iface \cup {None}]
        /\ \A a \in Addr : on'[a] # None => on'[a] = on[a] /\ on[a] # i
    BY <1>1 DEF NetBoxType, DeleteAddrs, AddrsOf
  <1>3. \A j \in Iface : name'[j] = IF j = i THEN None ELSE name[j]
    BY DEF NetBoxType
  <1>4. \A d \in Device : Having(d, "remoteboard")' \subseteq Having(d, "remoteboard")
    BY <1>3, RecordAssumption DEF Having, On, IfaceName
  <1>5. \A d \in Device : OneBoard(d)'
    BY <1>4 DEF NetBoxType, OneBoard
  <1> QED
    BY <1>2, <1>3, <1>5 DEF NetBoxType

LEMMA StoreType ==
    ASSUME BMCsType, NEW d \in Device, NEW h \in Host, StoreBMC(d, h)
    PROVE  BMCsType'
  <1>1. bmcs[d] \in Seq(Host)
    BY DEF BMCsType
  <1>2. Append(bmcs[d], h) \in Seq(Host) \ {<<>>}
    BY <1>1, VersionAppend
  <1> QED
    BY <1>2 DEF StoreBMC, BMCsType

LEMMA TypeStep ==
    ASSUME TypeOK, Start \/ Step
    PROVE  TypeOK'
  <1> USE TypeParts
  <1>1. WorkerType'
    BY TypeWorker
  <1>2. RestType'
    BY DEF Start, Step, ListDevices, ReconcileDevice, ListBoards, RenameInterface, FindBoard,
       FindAddr, UpdateDevice, ListVmks, ListVmkAddrs, DeleteVmkAddr, DeleteVmk, FindHostBoard,
       FindHostAddr, GetBMC, PatchBMC, UpdateStatus, bounds, RestType, WorkerType, Worker
  <1>3. BMCsType'
    <2>1. CASE UNCHANGED bmcs
      BY <2>1 DEF BMCsType
    <2>2. CASE PatchBMC /\ ~UNCHANGED bmcs
      <3>1. InLoop /\ w.addr \in Host
        BY <2>2 DEF PatchBMC, At, InLoop, Busy, PC, WorkerType, Host
      <3> QED
        BY <2>2, <3>1, HeadInDevice, StoreType DEF PatchBMC
    <2> QED
      BY <2>1, <2>2 DEF Start, Step, ListDevices, ReconcileDevice, ListBoards, RenameInterface,
         FindBoard, FindAddr, UpdateDevice, ListVmks, ListVmkAddrs, DeleteVmkAddr, DeleteVmk,
         FindHostBoard, FindHostAddr, GetBMC, UpdateStatus
  <1>4. NetBoxType'
    <2>1. CASE UNCHANGED netbox
      BY <2>1 DEF netbox, NetBoxType, OneBoard, Having
    <2>2. CASE RenameInterface /\ ~UNCHANGED netbox
      <3>1. PICK i \in w.ifaces : MayBeBoard(i) /\ name' = [name EXCEPT ![i] = "remoteboard"]
        BY <2>2 DEF RenameInterface, netbox
      <3>2. i \in Iface /\ "remoteboard" \in IfaceName /\ UNCHANGED <<device, on>>
        BY <2>2 DEF RenameInterface, WorkerType, Worker, IfaceName
      <3> QED
        BY <3>1, <3>2, RenameType
    <2>3. CASE UpdateDevice /\ ~UNCHANGED netbox
      <3>1. InLoop /\ w.addr \in Addr
        BY <2>3 DEF UpdateDevice, At, InLoop, Busy, PC, WorkerType
      <3>2. It \in Device /\ w.list[It] \in DeviceRecord
        BY <3>1, HeadInDevice DEF WorkerType
      <3>3. [w.list[It] EXCEPT !.garden = TRUE, !.oob = w.addr] \in DeviceRecord
        BY <3>1, <3>2 DEF DeviceRecord
      <3>4. /\ WriteDevice(It, [w.list[It] EXCEPT !.garden = TRUE, !.oob = w.addr])
            /\ UNCHANGED <<name, on>>
        BY <2>3 DEF UpdateDevice, netbox
      <3> QED
        BY <3>2, <3>3, <3>4, WriteType
    <2>4. CASE DeleteVmkAddr /\ ~UNCHANGED netbox
      <3>1. PICK a \in w.addrs : DeleteAddrs({a})
        BY <2>4 DEF DeleteVmkAddr, netbox
      <3>2. {a} \in SUBSET Addr /\ UNCHANGED name
        BY <2>4 DEF DeleteVmkAddr, WorkerType, Worker
      <3> QED
        BY <3>1, <3>2, DeleteType
    <2>5. CASE DeleteVmk /\ ~UNCHANGED netbox
      <3>1. /\ name' = [name EXCEPT ![w.iface] = None] /\ DeleteAddrs(AddrsOf(w.iface))
            /\ w.iface \in Iface
        BY <2>5 DEF DeleteVmk, At, WorkerType
      <3> QED
        BY <3>1, DropType
    <2> QED
      BY <2>1, <2>2, <2>3, <2>4, <2>5 DEF Start, Step, ListDevices, ReconcileDevice, ListBoards,
         FindBoard, FindAddr, ListVmks, ListVmkAddrs, FindHostBoard, FindHostAddr, GetBMC,
         PatchBMC, UpdateStatus
  <1> QED
    BY <1>1, <1>2, <1>3, <1>4

LEMMA TypeOthers ==
    ASSUME TypeOK, \/ \E d \in Device : IPUpdateRead(d) \/ Deliver(d)
                   \/ IPUpdateWrite \/ CallFails \/ Crash
    PROVE  TypeOK'
  <1> USE TypeParts
  <1>1. ASSUME NEW d \in Device, IPUpdateRead(d)
        PROVE  TypeOK'
    <2>1. /\ UNCHANGED <<device, name, on, bmcs, status, w, faults, edits>>
          /\ ip' = [on |-> TRUE, d |-> d, snap |-> device[d]]
      BY <1>1 DEF IPUpdateRead, netbox, bounds
    <2>2. ip' \in [on: {TRUE}, d: Device, snap: DeviceRecord]
      BY <2>1 DEF NetBoxType
    <2> QED
      BY <2>1, <2>2 DEF NetBoxType, BMCsType, WorkerType, RestType, InLoop, OneBoard, Having
  <1>2. CASE IPUpdateWrite
    <2>1. ip.d \in Device /\ ip.snap \in DeviceRecord
      <3>1. ip.on /\ ip \in {IdleIP} \cup [on: {TRUE}, d: Device, snap: DeviceRecord]
        BY <1>2 DEF IPUpdateWrite, RestType
      <3>2. ip # IdleIP
        BY <3>1 DEF IdleIP
      <3> QED
        BY <3>1, <3>2
    <2>2. [ip.snap EXCEPT !.primary = TRUE] \in DeviceRecord
      BY <2>1 DEF DeviceRecord
    <2>3. NetBoxType'
      <3>1. CASE UNCHANGED device
        BY <1>2, <3>1 DEF IPUpdateWrite, NetBoxType, OneBoard, Having
      <3>2. CASE WriteDevice(ip.d, [ip.snap EXCEPT !.primary = TRUE])
        BY <1>2, <2>1, <2>2, <3>2, WriteType DEF IPUpdateWrite
      <3> QED
        BY <1>2, <3>1, <3>2 DEF IPUpdateWrite
    <2> QED
      BY <1>2, <2>3 DEF IPUpdateWrite, BMCsType, WorkerType, RestType, InLoop, bounds
  <1>3. ASSUME NEW d \in Device, Deliver(d)
        PROVE  TypeOK'
    <2>1. Tail(bmcs[d]) \in Seq(Host) \ {<<>>}
      BY <1>3, VersionTail DEF Deliver, BMCsType
    <2> QED
      BY <1>3, <2>1 DEF Deliver, netbox, bounds, NetBoxType, BMCsType, WorkerType, RestType,
         InLoop, OneBoard, Having
  <1>4. CASE CallFails
    <2>1. WorkerType'
      <3>1. CASE w' = IdleWorker
        BY <3>1, IdleType DEF WorkerType, InLoop, Busy
      <3>2. CASE Fail
        BY <3>2, FinishType DEF Fail, Result
      <3>3. CASE w.pc \in {"hostBoard", "hostAddr"} /\ NextDevice
        BY <3>3, NextDeviceType DEF InLoop, Busy, PC
      <3> QED
        BY <1>4, <3>1, <3>2, <3>3 DEF CallFails
    <2>2. NetBoxType' /\ BMCsType'
      BY <1>4 DEF CallFails, netbox, NetBoxType, BMCsType, OneBoard, Having
    <2>3. RestType'
      <3>1. faults' \in 0..MaxFaults
        BY <1>4, BoundAssumption DEF CallFails, RestType
      <3> QED
        BY <1>4, <3>1 DEF CallFails, RestType
    <2> QED
      BY <2>1, <2>2, <2>3
  <1>5. CASE Crash
    <2>1. WorkerType'
      BY <1>5, IdleType DEF Crash, WorkerType, InLoop, Busy
    <2>2. BMCsType'
      <3>1. \A d \in Device : Last(bmcs[d]) \in Host
        BY VersionEnds DEF BMCsType
      <3>2. \A d \in Device : <<Last(bmcs[d])>> \in Seq(Host) \ {<<>>}
        BY <3>1, VersionSingle
      <3> QED
        BY <1>5, <3>2 DEF Crash, BMCsType
    <2>3. NetBoxType' /\ RestType'
      BY <1>5, BoundAssumption DEF Crash, netbox, NetBoxType, RestType, OneBoard, Having
    <2> QED
      BY <2>1, <2>2, <2>3
  <1> QED
    BY <1>1, <1>2, <1>3, <1>4, <1>5

LEMMA TypeEdits ==
    ASSUME TypeOK,
           \/ \E d \in Device : EditDevice(d)
           \/ \E d \in Device, h \in Host : EditBMC(d, h)
           \/ \E i \in Iface, n \in IfaceName : EditName(i, n)
           \/ \E a \in Addr : EditDelete(a) \/ \E i \in Iface : EditMove(a, i)
    PROVE  TypeOK'
  <1> USE TypeParts
  <1>1. Edit
    BY DEF EditDevice, EditBMC, EditName, EditDelete, EditMove
  <1>2. WorkerType' /\ RestType'
    <2>1. edits' \in 0..MaxEdits
      BY <1>1, BoundAssumption DEF Edit, RestType
    <2> QED
      BY <1>1, <2>1 DEF Edit, WorkerType, RestType, InLoop
  <1>3. BMCsType'
    <2>1. CASE UNCHANGED bmcs
      BY <2>1 DEF BMCsType
    <2>2. CASE \E d \in Device, h \in Host : EditBMC(d, h)
      BY <2>2, StoreType DEF EditBMC
    <2> QED
      BY <2>1, <2>2 DEF EditDevice, EditName, EditDelete, EditMove
  <1>4. NetBoxType'
    <2>1. ASSUME NEW d \in Device, EditDevice(d)
          PROVE  NetBoxType'
      <3>1. device[d] \in DeviceRecord
        BY DEF NetBoxType
      <3>2. /\ [device[d] EXCEPT !.live = ~@] \in DeviceRecord
            /\ [device[d] EXCEPT !.garden = ~@] \in DeviceRecord
            /\ [device[d] EXCEPT !.oob = None] \in DeviceRecord
            /\ [device[d] EXCEPT !.primary = FALSE] \in DeviceRecord
        BY <3>1 DEF DeviceRecord
      <3>3. PICK v \in DeviceRecord : WriteDevice(d, v)
        BY <2>1, <3>2 DEF EditDevice
      <3> QED
        BY <2>1, <3>3, WriteType DEF EditDevice
    <2>2. ASSUME NEW d \in Device, NEW h \in Host, EditBMC(d, h)
          PROVE  NetBoxType'
      BY <2>2 DEF EditBMC, netbox, NetBoxType, OneBoard, Having
    <2>3. ASSUME NEW i \in Iface, NEW n \in IfaceName, EditName(i, n)
          PROVE  NetBoxType'
      BY <2>3, RenameType DEF EditName
    <2>4. ASSUME NEW a \in Addr, EditDelete(a)
          PROVE  NetBoxType'
      BY <2>4, DeleteType DEF EditDelete
    <2>5. ASSUME NEW a \in Addr, NEW i \in Iface, EditMove(a, i)
          PROVE  NetBoxType'
      BY <2>5 DEF EditMove, NetBoxType, OneBoard, Having
    <2> QED
      BY <2>1, <2>2, <2>3, <2>4, <2>5
  <1> QED
    BY <1>2, <1>3, <1>4

LEMMA TypeNext ==
    ASSUME TypeOK, [Next]_vars
    PROVE  TypeOK'
  <1>1. CASE UNCHANGED vars
    BY <1>1 DEF vars, TypeOK, OneBoard, Having
  <1> QED
    BY <1>1, TypeStep, TypeOthers, TypeEdits DEF Next

\* The variables keep their types: in particular the worker has the interface
\* and the address the next call needs, no two interfaces of a device are named
\* remoteboard, and no address is left on an interface that is gone.
THEOREM TypeCorrect == Spec => []TypeOK
  <1> QED
    BY TypeInit, TypeNext, PTL DEF Spec

-----------------------------------------------------------------------------
(***************************************************************************)
(* ReadyMeansUpdated.  A step is steady if it takes nothing away that is   *)
(* right; so is every step but an operator's.                              *)
(***************************************************************************)
Steady ==
    \A d \in Device :
        /\ device'[d].live = device[d].live
        /\ Having(d, "vendor")' \subseteq Having(d, "vendor")
        /\ Having(d, "vmk")' \subseteq Having(d, "vmk")
        /\ \A i \in Having(d, "remoteboard") :
             /\ i \in Having(d, "remoteboard")'
             /\ AddrsOf(i)' = AddrsOf(i)
             /\ \A a \in Addr :
                  d \notin Claimed /\ AddrsOf(i) = {a} /\ device[d].garden /\ device[d].oob = a
                    => device'[d].garden /\ device'[d].oob = a

\* What Listed says of the device stays true.
Unwritten(d) ==
    d \notin Claimed =>
        /\ device[d].garden => device'[d].garden
        /\ \A a \in Addr : on[a] = None \/ device[d].oob = a
                             => on'[a] = None \/ device'[d].oob = a

LEMMA SteadySame ==
    ASSUME UNCHANGED netbox
    PROVE  Steady /\ \A d \in Device : Unwritten(d)
  BY DEF netbox, Steady, Unwritten, Having, AddrsOf

LEMMA SteadyRight ==
    ASSUME Steady, NEW d \in Device
    PROVE  /\ BoardRight(d) => BoardRight(d)'
           /\ Right(d) => Right(d)'
  <1>1. ASSUME BoardRight(d) PROVE BoardRight(d)'
    <2>1. PICK i \in Having(d, "remoteboard"), a \in Addr :
            /\ AddrsOf(i) = {a}
            /\ d \notin Claimed => device[d].garden /\ device[d].oob = a
      BY <1>1 DEF BoardRight
    <2>2. /\ i \in Having(d, "remoteboard")' /\ AddrsOf(i)' = {a}
          /\ d \notin Claimed => device'[d].garden /\ device'[d].oob = a
      BY <2>1 DEF Steady
    <2> QED
      BY <2>2 DEF BoardRight
  <1>2. device'[d].live = device[d].live
    BY DEF Steady
  <1>3. /\ Having(d, "vendor")' \subseteq Having(d, "vendor")
        /\ Having(d, "vmk")' \subseteq Having(d, "vmk")
    BY DEF Steady
  <1> QED
    BY <1>1, <1>2, <1>3 DEF Right

LEMMA SteadyListed ==
    ASSUME NEW d \in Device, Listed(d), Unwritten(d), w'.list = w.list
    PROVE  Listed(d)'
  BY DEF Listed, Unwritten

\* The snapshot of IPUpdate stays right.
SnapRight == ip.on => ip.d \in Claimed /\ ip.snap.live = device[ip.d].live

LEMMA SteadySnap ==
    ASSUME SnapRight, Steady, UNCHANGED ip
    PROVE  SnapRight'
  BY RecordAssumption DEF SnapRight, Steady

\* What a step that stays with the device says of it in the new state.
LEMMA HereStill ==
    ASSUME NEW d \in Device, d = It, w'.todo = w.todo
    PROVE  /\ It' = d
           /\ \A n : Having(It, n)' = Having(d, n)'
           /\ BoardRight(It)' <=> BoardRight(d)'
           /\ device[It]'.live = device'[d].live
  BY DEF It, Having, BoardRight

\* Nothing is left of Reconcile but, maybe, an error to write.
LEMMA UpdateEnd ==
    ASSUME UpdateNow, Steady, SnapRight', UNCHANGED status, w' = IdleWorker \/ Fail
    PROVE  UpdateNow'
  <1>1. w'.pc \in {"idle", "status"} /\ w'.result # "Ready"
    BY FinishType, IdleType DEF Fail, Result
  <1>2. ~InLoop'
    BY <1>1 DEF InLoop, Busy
  <1>3. Snapshots'
    BY <1>2 DEF Snapshots, SnapRight
  <1>4. Stage'
    BY <1>1, <1>2 DEF Stage, At, Written, DeletingVmks, Hosting
  <1>5. Progress'
    BY <1>1, <1>2, SteadyRight DEF UpdateNow, Progress
  <1> QED
    BY <1>3, <1>4, <1>5 DEF UpdateNow

\* The device the worker is at is done.
LEMMA UpdateNextDevice ==
    ASSUME TypeOK, UpdateNow, UNCHANGED <<netbox, status, ip>>, InLoop, Right(It), NextDevice
    PROVE  UpdateNow'
  <1>1. WorkerType /\ w.todo \in Seq(Device) \ {<<>>}
    BY TypeParts DEF WorkerType, Worker
  <1>2. Steady /\ SnapRight'
    BY SteadySame, SteadySnap DEF UpdateNow, Snapshots, SnapRight
  <1>3. \A d \in Device : d \in ToSet(w.todo) \/ Right(d)'
    BY <1>2, SteadyRight DEF UpdateNow, Progress
  <1>4. \A d \in Device : d = It => Right(d)'
    BY <1>2, SteadyRight
  <1>5. status = "Ready" => \A d \in Device : Right(d)'
    BY <1>2, SteadyRight DEF UpdateNow, Progress
  <1>6. CASE Len(w.todo) > 1
    <2>1. ToSet(w.todo) = {It} \cup ToSet(Tail(w.todo))
      BY <1>1, <1>6, VersionTail DEF It
    <2>2. /\ w'.pc = "device" /\ w'.todo = Tail(w.todo) /\ w'.list = w.list
          /\ w'.result = "none"
      BY <1>1, <1>6, NextDeviceType
    <2>3. Progress'
      BY <1>3, <1>4, <1>5, <2>1, <2>2 DEF Progress
    <2>4. IsInjective(w.todo)
      BY DEF UpdateNow, Snapshots
    <2>5. IsInjective(w'.todo)
      BY <1>1, <1>6, <2>2, <2>4, TailInjective
    <2>6. \A d \in Device : w'.list[d].live = device'[d].live
      BY <2>2 DEF UpdateNow, Snapshots, netbox
    <2>7. \A d \in Device : Ahead(d)' => Ahead(d)
      <3>1. Tail(w.todo) \in Seq(Device) \ {<<>>}
        BY <1>1, <1>6, VersionTail
      <3>2. It' \in ToSet(Tail(w.todo))
        BY <2>2, <3>1, VersionEnds DEF It
      <3>3. Len(w'.todo) > 1 => ToSet(Tail(w'.todo)) \subseteq ToSet(w'.todo)
        BY <2>2, <3>1, VersionTail
      <3>4. ~(Len(w'.todo) > 1) => ToSet(Tail(w'.todo)) = {}
        BY <2>2, <3>1, VersionLast
      <3> QED
        BY <2>2, <3>2, <3>3, <3>4 DEF Ahead
    <2>8. \A d \in Device : Ahead(d)' => Listed(d)'
      BY <2>2, <2>7, SteadySame, SteadyListed DEF UpdateNow, Snapshots
    <2>9. Snapshots'
      BY <1>2, <2>5, <2>6, <2>8 DEF Snapshots, SnapRight
    <2>10. Stage'
      BY <2>2 DEF Stage, At, Written, DeletingVmks, Hosting
    <2> QED
      BY <2>3, <2>9, <2>10 DEF UpdateNow
  <1>7. CASE ~(Len(w.todo) > 1)
    <2>1. ToSet(w.todo) \subseteq {It}
      BY <1>1, <1>7, VersionLast DEF It
    <2>2. \A d \in Device : Right(d)'
      BY <1>3, <1>4, <2>1
    <2>3. w'.pc = "status"
      BY <1>1, <1>7, NextDeviceType
    <2>4. ~InLoop'
      BY <2>3 DEF InLoop, Busy
    <2>5. Snapshots' /\ Stage' /\ Progress'
      BY <1>2, <2>2, <2>3, <2>4 DEF Snapshots, SnapRight, Stage, Progress, At, Written,
         DeletingVmks, Hosting
    <2> QED
      BY <2>5 DEF UpdateNow
  <1> QED
    BY <1>6, <1>7

\* The worker goes on with its device; it still has to keep what it found.
LEMMA UpdateGoesOn ==
    ASSUME TypeOK, UpdateNow, Steady, UNCHANGED <<status, ip>>, InLoop, InLoop',
           w'.todo = w.todo, w'.list = w.list, w'.result = w.result,
           \A d \in Device : Ahead(d)' => Ahead(d) /\ Unwritten(d), Stage'
    PROVE  UpdateNow'
  <1>1. SnapRight'
    BY SteadySnap DEF UpdateNow, Snapshots, SnapRight
  <1>2. \A d \in Device : w'.list[d].live = device'[d].live
    BY DEF UpdateNow, Snapshots, Steady
  <1>3. \A d \in Device : Ahead(d)' => Listed(d)'
    BY SteadyListed DEF UpdateNow, Snapshots
  <1>4. Snapshots'
    BY <1>1, <1>2, <1>3 DEF UpdateNow, Snapshots, SnapRight
  <1>5. Progress'
    BY SteadyRight DEF UpdateNow, Progress
  <1> QED
    BY <1>4, <1>5 DEF UpdateNow

\* Renaming, deleting and writing are steady.
LEMMA RenameSteady ==
    ASSUME TypeOK, NEW i \in Iface, name[i] = "vendor",
           name' = [name EXCEPT ![i] = "remoteboard"], UNCHANGED <<device, on>>
    PROVE  /\ Steady /\ \A d \in Device : Unwritten(d)
           /\ \A d \in Device : Having(d, "vendor")' = Having(d, "vendor") \ {i}
  <1>1. \A j \in Iface : name'[j] = IF j = i THEN "remoteboard" ELSE name[j]
    BY DEF TypeOK
  <1>2. \A d \in Device : /\ Having(d, "vendor")' = Having(d, "vendor") \ {i}
                          /\ Having(d, "vmk")' \subseteq Having(d, "vmk")
                          /\ Having(d, "remoteboard") \subseteq Having(d, "remoteboard")'
    BY <1>1 DEF Having, On
  <1> QED
    BY <1>2 DEF Steady, Unwritten, AddrsOf

LEMMA DeleteSteady ==
    ASSUME TypeOK, NEW S \in SUBSET Addr, NEW i \in Iface, name[i] = "vmk",
           \A a \in S : on[a] = i, DeleteAddrs(S),
           UNCHANGED name \/ name' = [name EXCEPT ![i] = None]
    PROVE  Steady /\ \A d \in Device : Unwritten(d)
  <1>1. \A d \in Device : Having(d, "remoteboard")' = Having(d, "remoteboard")
                          /\ i \notin Having(d, "remoteboard")
                          /\ Having(d, "vendor")' \subseteq Having(d, "vendor")
                          /\ Having(d, "vmk")' \subseteq Having(d, "vmk")
    <2>1. \A j \in Iface : name'[j] = name[j] \/ (j = i /\ name'[j] = None)
      BY DEF TypeOK
    <2>2. None \notin {"vendor", "vmk", "remoteboard"}
      BY RecordAssumption DEF IfaceName
    <2> QED
      BY <2>1, <2>2 DEF Having, On
  <1>2. \A a \in Addr : on'[a] = IF a \in S THEN None ELSE on[a]
    BY DEF DeleteAddrs
  <1>3. \A j \in Iface : j # i => AddrsOf(j)' = AddrsOf(j)
    BY <1>2, RecordAssumption DEF AddrsOf
  <1>4. \A d \in Device : \/ device'[d] = device[d]
                          \/ device[d].oob \in S /\ device'[d] = [device[d] EXCEPT !.oob = None]
    BY DEF DeleteAddrs
  <1>5. \A d \in Device : device[d] \in DeviceRecord
    BY DEF TypeOK
  <1>6. \A d \in Device :
          /\ device'[d].live = device[d].live
          /\ device'[d].garden = device[d].garden
          /\ device[d].oob \notin S => device'[d].oob = device[d].oob
    BY <1>4, <1>5 DEF DeviceRecord
  <1>7. \A j \in Iface, a \in Addr : j # i /\ AddrsOf(j) = {a} => a \notin S
    BY DEF AddrsOf
  <1>8. Steady
    BY <1>1, <1>3, <1>6, <1>7 DEF Steady, Having, On
  <1>9. \A d \in Device : Unwritten(d)
    BY <1>2, <1>6 DEF Unwritten
  <1> QED
    BY <1>8, <1>9

LEMMA WriteSteady ==
    ASSUME TypeOK, NEW d \in Device, NEW v \in DeviceRecord, WriteDevice(d, v),
           UNCHANGED <<name, on>>, v.live = device[d].live,
           d \notin Claimed => v.garden /\ \A i \in Having(d, "remoteboard") : AddrsOf(i) = {v.oob}
    PROVE  Steady /\ \A c \in Device : c # d \/ d \in Claimed => Unwritten(c)
  <1>1. \A c \in Device : device'[c] = IF c = d THEN v ELSE device[c]
    BY DEF WriteDevice, TypeOK
  <1>2. \A c \in Device, n \in IfaceName : Having(c, n)' = Having(c, n)
    BY DEF Having
  <1>3. \A i \in Iface : AddrsOf(i)' = AddrsOf(i)
    BY DEF AddrsOf
  <1>4. Steady
    <2> SUFFICES ASSUME NEW c \in Device
                 PROVE  /\ device'[c].live = device[c].live
                        /\ \A i \in Having(c, "remoteboard"), a \in Addr :
                             c \notin Claimed /\ AddrsOf(i) = {a} /\ device[c].garden
                                              /\ device[c].oob = a
                               => device'[c].garden /\ device'[c].oob = a
      BY <1>2, <1>3 DEF Steady, Having, On, IfaceName
    <2>1. CASE c = d
      BY <1>1, <2>1
    <2>2. CASE c # d
      BY <1>1, <2>2
    <2> QED
      BY <2>1, <2>2
  <1>5. \A c \in Device : c # d \/ d \in Claimed => Unwritten(c)
    BY <1>1 DEF Unwritten
  <1> QED
    BY <1>4, <1>5

LEMMA UpdateFails ==
    ASSUME UpdateNow, UNCHANGED <<netbox, status, ip>>, w' = IdleWorker \/ Fail
    PROVE  UpdateNow'
  <1>1. Steady /\ SnapRight'
    BY SteadySame, SteadySnap DEF UpdateNow, Snapshots, SnapRight
  <1> QED
    BY <1>1, UpdateEnd

\* The steps that read.
LEMMA UpdateReads ==
    ASSUME TypeOK, UpdateNow, UNCHANGED <<netbox, status, ip>>,
           \/ Start \/ ListDevices \/ ReconcileDevice \/ ListBoards \/ FindBoard \/ FindAddr
           \/ ListVmks \/ ListVmkAddrs \/ FindHostBoard \/ FindHostAddr \/ GetBMC
    PROVE  UpdateNow'
  <1>0. Steady /\ SnapRight' /\ \A c \in Device : Unwritten(c)
    BY SteadySame, SteadySnap DEF UpdateNow, Snapshots, SnapRight
  <1>1. WorkerType /\ w \in Worker
    BY TypeParts DEF WorkerType
  <1>2. CASE Start
    <2>1. w'.pc = "list" /\ w'.result = w.result
      BY <1>1, <1>2 DEF Start, Goto, Worker
    <2>2. ~InLoop'
      BY <2>1 DEF InLoop, Busy
    <2>3. Progress'
      BY <1>0, <2>1, <2>2, SteadyRight DEF UpdateNow, Progress
    <2> QED
      BY <1>0, <2>1, <2>2, <2>3 DEF UpdateNow, Snapshots, SnapRight, Stage, At, Written,
         DeletingVmks, Hosting
  <1>3. CASE ListDevices
    <2>1. w'.pc = "device" /\ w'.todo = Order /\ w'.list = device /\ w'.result = w.result
      BY <1>1, <1>3 DEF ListDevices, Worker
    <2>2. IsInjective(w'.todo)
      BY <2>1, OrderAssumption
    <2>3. \A d \in Device : Listed(d)'
      BY <2>1 DEF Listed, netbox
    <2>4. Progress'
      BY <1>0, <2>1, SteadyRight DEF UpdateNow, Progress, Device
    <2> QED
      BY <1>0, <2>1, <2>2, <2>3, <2>4 DEF UpdateNow, Snapshots, SnapRight, Stage, At, Written,
         DeletingVmks, Hosting, netbox
  <1> SUFFICES ASSUME ~Start, ~ListDevices PROVE UpdateNow'
    BY <1>2, <1>3
  <1>4. InLoop
    BY DEF ReconcileDevice, ListBoards, FindBoard, FindAddr, ListVmks, ListVmkAddrs,
       FindHostBoard, FindHostAddr, GetBMC, At, InLoop, Busy, PC
  <1>5. PICK d \in Device : d = It
    BY <1>1, <1>4, HeadInDevice
  <1>6. CASE Fail
    BY <1>6, UpdateFails
  \* The step ends here, or goes on to pc with the device.
  <1>7. ASSUME w'.todo = w.todo, w'.list = w.list, w'.result = w.result, InLoop',
               w'.pc \in {"device", "listBoards", "rename", "findBoard", "findAddr",
                          "updateDevice"}
                 => w.pc \in {"device", "listBoards", "rename", "findBoard", "findAddr",
                              "updateDevice"},
               Stage'
        PROVE  UpdateNow'
    <2>1. It' = It
      BY <1>7 DEF It
    <2>2. \A c \in Device : Ahead(c)' => Ahead(c)
      BY <1>7, <2>1 DEF Ahead
    <2> QED
      BY <1>0, <1>4, <1>7, <2>2, UpdateGoesOn
  <1>8. ASSUME w'.todo = w.todo
        PROVE  /\ It' = d /\ device'[d].live = device[d].live
               /\ \A n \in IfaceName : Having(It, n)' = Having(d, n)
               /\ BoardRight(d) => BoardRight(It)'
               /\ \A i \in Iface : AddrsOf(i)' = AddrsOf(i)
    <2>1. It' = d
      BY <1>5, <1>8 DEF It
    <2> QED
      BY <1>0, <1>5, <1>8, <2>1, HereStill, SteadyRight DEF netbox, Having, AddrsOf
  <1>9. CASE ReconcileDevice
    <2>1. CASE w.list[It].live
      <3>1. /\ w'.pc = "listBoards" /\ w'.todo = w.todo /\ w'.list = w.list
            /\ w'.result = w.result /\ w.pc = "device"
        BY <1>1, <1>9, <2>1 DEF ReconcileDevice, Goto, Worker, At
      <3>2. device[d].live
        BY <1>4, <1>5, <2>1 DEF UpdateNow, Snapshots
      <3> QED
        BY <1>7, <1>8, <3>1, <3>2 DEF Stage, At, Written, DeletingVmks, Hosting, InLoop, Busy, PC
    <2>2. CASE ~w.list[It].live
      <3>1. Right(d)
        BY <1>4, <1>5, <2>2 DEF UpdateNow, Snapshots, Right
      <3> QED
        BY <1>4, <1>5, <1>9, <2>2, <3>1, UpdateNextDevice DEF ReconcileDevice
    <2> QED
      BY <2>1, <2>2
  <1> SUFFICES ASSUME ~ReconcileDevice PROVE UpdateNow'
    BY <1>9
  <1>10. device[d].live
    BY <1>4, <1>5 DEF UpdateNow, Stage, ListBoards, FindBoard, FindAddr, ListVmks, ListVmkAddrs,
       FindHostBoard, FindHostAddr, GetBMC, At
  <1>11. CASE ListBoards
    <2>1. /\ w'.pc = IF Having(d, "vendor") = {} THEN "findBoard" ELSE "rename"
          /\ w'.ifaces = Having(d, "vendor")
          /\ w'.todo = w.todo /\ w'.list = w.list /\ w'.result = w.result
          /\ w.pc = "listBoards"
      BY <1>1, <1>5, <1>11 DEF ListBoards, Loop, Worker, At
    <2> QED
      BY <1>7, <1>8, <1>10, <2>1 DEF Stage, At, Written, DeletingVmks, Hosting, InLoop, Busy, PC,
         IfaceName
  <1>12. CASE FindBoard
    <2>1. ASSUME NEW i \in Having(It, "remoteboard"),
                 w' = [w EXCEPT !.pc = "findAddr", !.iface = i]
          PROVE  UpdateNow'
      <3>1. /\ w'.pc = "findAddr" /\ w'.iface = i
            /\ w'.todo = w.todo /\ w'.list = w.list /\ w'.result = w.result
            /\ w.pc = "findBoard"
        BY <1>1, <1>12, <2>1 DEF FindBoard, Worker, At
      <3>2. Having(d, "vendor") = {} /\ i \in Having(d, "remoteboard")
        BY <1>5, <2>1, <3>1 DEF UpdateNow, Stage
      <3> QED
        BY <1>7, <1>8, <1>10, <3>1, <3>2 DEF Stage, At, Written, DeletingVmks, Hosting, InLoop,
           Busy, PC, IfaceName
    <2> QED
      BY <1>6, <1>12, <2>1 DEF FindBoard
  <1>13. CASE FindAddr
    <2>1. ASSUME NEW a \in Addr, AddrsOf(w.iface) = {a},
                 w' = [w EXCEPT !.pc = "updateDevice", !.addr = a]
          PROVE  UpdateNow'
      <3>1. /\ w'.pc = "updateDevice" /\ w'.addr = a
            /\ w'.todo = w.todo /\ w'.list = w.list /\ w'.result = w.result
            /\ w.pc = "findAddr"
        BY <1>1, <1>13, <2>1 DEF FindAddr, Worker, At
      <3>2. Having(d, "vendor") = {} /\ w.iface \in Having(d, "remoteboard") /\ w.iface \in Iface
        BY <1>1, <1>5, <3>1 DEF UpdateNow, Stage, At, WorkerType
      <3>3. \E i \in Having(It, "remoteboard")' : AddrsOf(i)' = {w'.addr}
        BY <1>8, <2>1, <3>1, <3>2 DEF IfaceName
      <3> QED
        BY <1>7, <1>8, <1>10, <3>1, <3>2, <3>3 DEF Stage, At, Written, DeletingVmks, Hosting,
           InLoop, Busy, PC, IfaceName
    <2> QED
      BY <1>6, <1>13, <2>1 DEF FindAddr
  <1>14. CASE ListVmks
    <2>1. /\ w'.pc = IF Having(d, "vmk") = {} THEN "hostBoard" ELSE "vmkAddrs"
          /\ w'.ifaces = Having(d, "vmk")
          /\ w'.todo = w.todo /\ w'.list = w.list /\ w'.result = w.result
          /\ w.pc = "listVmks"
      BY <1>1, <1>5, <1>14 DEF ListVmks, Loop, Worker, At
    <2>2. Having(d, "vendor") = {} /\ BoardRight(d)
      BY <1>5, <2>1 DEF UpdateNow, Stage, Written
    <2> QED
      BY <1>7, <1>8, <1>10, <2>1, <2>2 DEF Stage, At, Written, DeletingVmks, Hosting, InLoop,
         Busy, PC, IfaceName
  <1>15. CASE ListVmkAddrs
    <2>1. PICK i \in w.ifaces :
            w' = [w EXCEPT !.pc = IF AddrsOf(i) = {} THEN "deleteIface" ELSE "deleteAddr",
                           !.iface = i, !.addrs = AddrsOf(i)]
      BY <1>15 DEF ListVmkAddrs
    <2>2. /\ w'.pc \in {"deleteIface", "deleteAddr"} /\ w'.iface = i /\ w'.addrs = AddrsOf(i)
          /\ w'.ifaces = w.ifaces
          /\ w'.todo = w.todo /\ w'.list = w.list /\ w'.result = w.result
          /\ w.pc = "vmkAddrs" /\ i \in Iface
      BY <1>1, <1>15, <2>1 DEF ListVmkAddrs, Worker, At
    <2>3. Having(d, "vendor") = {} /\ BoardRight(d) /\ w.ifaces = Having(d, "vmk")
      BY <1>5, <2>2 DEF UpdateNow, Stage, Written, DeletingVmks
    <2>4. AddrsOf(w.iface)' = AddrsOf(i)
      BY <1>8, <2>2 DEF netbox, AddrsOf
    <2> QED
      BY <1>7, <1>8, <1>10, <2>2, <2>3, <2>4 DEF Stage, At, Written, DeletingVmks, Hosting,
         InLoop, Busy, PC, IfaceName
  <1>16. CASE FindHostBoard \/ FindHostAddr \/ GetBMC
    <2>1. w.pc \in {"hostBoard", "hostAddr", "getBMC"}
      BY <1>16 DEF FindHostBoard, FindHostAddr, GetBMC, At
    <2>2. Having(d, "vendor") = {} /\ BoardRight(d) /\ Having(d, "vmk") = {}
      BY <1>5, <2>1 DEF UpdateNow, Stage, Written, Hosting
    <2>3. CASE NextDevice
      BY <1>4, <1>5, <2>2, <2>3, UpdateNextDevice DEF Right
    <2>4. CASE ~NextDevice
      <3>1. /\ w'.pc \in Hosting
            /\ w'.todo = w.todo /\ w'.list = w.list /\ w'.result = w.result
        BY <1>1, <1>16, <2>4 DEF FindHostBoard, FindHostAddr, GetBMC, Goto, Worker, Hosting
      <3> QED
        BY <1>7, <1>8, <1>10, <2>2, <3>1 DEF Stage, At, Written, DeletingVmks, Hosting,
           InLoop, Busy, PC, IfaceName
    <2> QED
      BY <2>3, <2>4
  <1> QED
    BY <1>11, <1>12, <1>13, <1>14, <1>15, <1>16

\* The steps that write.
LEMMA UpdateWrites ==
    ASSUME TypeOK, UpdateNow, UNCHANGED ip,
           RenameInterface \/ UpdateDevice \/ DeleteVmkAddr \/ DeleteVmk \/ PatchBMC
    PROVE  UpdateNow'
  <1>1. WorkerType /\ w \in Worker
    BY TypeParts DEF WorkerType
  <1>2. InLoop /\ UNCHANGED status /\ ~At("device")
    BY DEF RenameInterface, UpdateDevice, DeleteVmkAddr, DeleteVmk, PatchBMC, At, InLoop, Busy, PC
  <1>3. PICK d \in Device : d = It
    BY <1>1, <1>2, HeadInDevice
  <1>4. device[d].live
    BY <1>2, <1>3 DEF UpdateNow, Stage
  <1>5. CASE Fail /\ UNCHANGED netbox
    BY <1>2, <1>5, UpdateFails
  <1>6. CASE RenameInterface /\ ~(Fail /\ UNCHANGED netbox)
    <2>1. PICK i \in w.ifaces : /\ name' = [name EXCEPT ![i] = "remoteboard"]
                                /\ Loop(w.ifaces \ {i}, "rename", "findBoard")
                                /\ UNCHANGED <<device, on>>
      BY <1>6 DEF RenameInterface, netbox
    <2>2. /\ w'.pc = IF w.ifaces \ {i} = {} THEN "findBoard" ELSE "rename"
          /\ w'.ifaces = w.ifaces \ {i}
          /\ w'.todo = w.todo /\ w'.list = w.list /\ w'.result = w.result
          /\ w.pc = "rename"
      BY <1>1, <1>6, <2>1 DEF RenameInterface, Loop, Worker, At
    <2>3. w.ifaces = Having(d, "vendor")
      BY <1>3, <2>2 DEF UpdateNow, Stage, At
    <2>4. i \in Iface /\ name[i] = "vendor"
      BY <2>1, <2>3 DEF Having, On
    <2>5. /\ Steady /\ \A c \in Device : Unwritten(c)
          /\ Having(d, "vendor")' = Having(d, "vendor") \ {i}
      BY <2>1, <2>4, RenameSteady
    <2>6. /\ It' = d /\ device'[d].live
          /\ Having(It, "vendor")' = w'.ifaces
      BY <1>3, <1>4, <2>2, <2>3, <2>5, HereStill DEF Steady
    <2>7. Stage'
      BY <2>2, <2>6 DEF Stage, At, Written, DeletingVmks, Hosting, InLoop
    <2>8. \A c \in Device : Ahead(c)' => Ahead(c)
      BY <1>3, <2>2, <2>6 DEF Ahead
    <2>9. InLoop'
      BY <2>2 DEF InLoop, Busy, PC
    <2> QED
      BY <1>2, <2>2, <2>5, <2>7, <2>8, <2>9, UpdateGoesOn
  <1>7. CASE UpdateDevice /\ ~(Fail /\ UNCHANGED netbox)
    <2>1. /\ w'.pc = "listVmks"
          /\ w'.todo = w.todo /\ w'.list = w.list /\ w'.result = w.result
          /\ w.pc = "updateDevice" /\ UNCHANGED <<name, on>>
      BY <1>1, <1>7 DEF UpdateDevice, Goto, Worker, At, netbox
    <2>2. /\ Having(d, "vendor") = {} /\ w.addr \in Addr /\ OneBoard(d)
          /\ w.list[d] \in DeviceRecord /\ w.list[d].live = device[d].live
      BY <1>1, <1>2, <1>3, <2>1 DEF UpdateNow, Stage, Snapshots, At, WorkerType, TypeOK
    <2>3. PICK i \in Having(d, "remoteboard") : AddrsOf(i) = {w.addr}
      BY <1>3, <2>1 DEF UpdateNow, Stage, At
    <2>4. on[w.addr] # None
      BY <2>3, RecordAssumption DEF AddrsOf, Having, On
    <2>5. \/ UNCHANGED device /\ w.list[d].garden /\ w.list[d].oob = w.addr
          \/ WriteDevice(d, [w.list[d] EXCEPT !.garden = TRUE, !.oob = w.addr])
      BY <1>3, <1>7 DEF UpdateDevice, netbox
    <2>6. /\ Steady /\ \A c \in Device : c # d => Unwritten(c)
          /\ BoardRight(d)'
      <3>1. CASE UNCHANGED device /\ w.list[d].garden /\ w.list[d].oob = w.addr
        <4>1. Steady /\ \A c \in Device : Unwritten(c)
          BY <2>1, <3>1, SteadySame DEF netbox
        <4>2. Listed(d)
          BY <1>2, <1>3, <2>1 DEF UpdateNow, Snapshots, Ahead
        <4>3. BoardRight(d)
          BY <2>2, <2>3, <2>4, <3>1, <4>2 DEF BoardRight, Listed
        <4> QED
          BY <4>1, <4>3, SteadyRight
      <3>2. CASE WriteDevice(d, [w.list[d] EXCEPT !.garden = TRUE, !.oob = w.addr])
        <4>1. PICK v \in DeviceRecord : /\ v = [w.list[d] EXCEPT !.garden = TRUE, !.oob = w.addr]
                                        /\ v.garden /\ v.oob = w.addr /\ v.live = device[d].live
          <5> DEFINE v == [w.list[d] EXCEPT !.garden = TRUE, !.oob = w.addr]
          <5>1. /\ v \in DeviceRecord /\ v.garden /\ v.oob = w.addr
                /\ v.live = device[d].live
            BY <2>2 DEF DeviceRecord
          <5> QED
            BY <5>1
        <4>2. \A j \in Having(d, "remoteboard") : AddrsOf(j) = {v.oob}
          BY <2>2, <2>3, <4>1 DEF OneBoard
        <4>3. Steady /\ \A c \in Device : c # d => Unwritten(c)
          BY <2>1, <3>2, <4>1, <4>2, WriteSteady
        <4>4. device'[d] = v /\ i \in Having(d, "remoteboard")' /\ AddrsOf(i)' = {w.addr}
          BY <2>3, <3>2, <4>1, <4>3 DEF WriteDevice, TypeOK, Steady
        <4> QED
          BY <2>2, <4>1, <4>3, <4>4 DEF BoardRight
      <3> QED
        BY <2>5, <3>1, <3>2
    <2>7. It' = d /\ device'[d].live /\ Having(It, "vendor")' = {} /\ BoardRight(It)'
      BY <1>3, <1>4, <2>1, <2>2, <2>6, HereStill DEF Steady
    <2>8. Stage'
      BY <2>1, <2>7 DEF Stage, At, Written, DeletingVmks, Hosting, InLoop
    <2>9. \A c \in Device : Ahead(c)' => Ahead(c) /\ Unwritten(c)
      <3>1. d \notin ToSet(Tail(w.todo))
        <4>1. w.todo \in Seq(Device) \ {<<>>} /\ IsInjective(w.todo)
          BY <1>1, <1>2 DEF WorkerType, Worker, UpdateNow, Snapshots
        <4> QED
          BY <1>3, <4>1, TailInjective, VersionLast DEF It
      <3>2. \A c \in Device : Ahead(c)' => c \in ToSet(Tail(w.todo))
        BY <2>1 DEF Ahead
      <3> QED
        BY <2>6, <3>1, <3>2 DEF Ahead
    <2>10. InLoop'
      BY <2>1 DEF InLoop, Busy, PC
    <2> QED
      BY <1>2, <2>1, <2>6, <2>8, <2>9, <2>10, UpdateGoesOn
  <1>8. CASE (DeleteVmkAddr \/ DeleteVmk) /\ ~(Fail /\ UNCHANGED netbox)
    <2>1. /\ w.pc \in {"deleteAddr", "deleteIface"} /\ w.iface \in Iface
          /\ DeleteVmkAddr => w.pc = "deleteAddr"
      BY <1>1, <1>8 DEF DeleteVmkAddr, DeleteVmk, At, WorkerType
    <2>2. /\ Having(d, "vendor") = {} /\ BoardRight(d) /\ w.ifaces = Having(d, "vmk")
          /\ w.iface \in Having(d, "vmk")
          /\ w.pc = "deleteAddr" => w.addrs \subseteq AddrsOf(w.iface)
      BY <1>3, <2>1 DEF UpdateNow, Stage, At, Written, DeletingVmks
    <2>3. name[w.iface] = "vmk"
      BY <2>2 DEF Having
    <2>4. CASE DeleteVmkAddr
      <3>1. PICK a \in w.addrs : /\ DeleteAddrs({a}) /\ UNCHANGED name
                                 /\ w' = [w EXCEPT !.addrs = w.addrs \ {a},
                                          !.pc = IF w.addrs = {a} THEN "deleteIface" ELSE w.pc]
        BY <1>8, <2>4 DEF DeleteVmkAddr, netbox
      <3>2. /\ w'.pc \in {"deleteAddr", "deleteIface"} /\ w'.addrs = w.addrs \ {a}
            /\ w'.iface = w.iface /\ w'.ifaces = w.ifaces
            /\ w'.todo = w.todo /\ w'.list = w.list /\ w'.result = w.result
            /\ w.pc = "deleteAddr"
        BY <1>1, <2>1, <2>4, <3>1 DEF Worker
      <3>3. a \in Addr /\ on[a] = w.iface
        BY <2>2, <3>1, <3>2 DEF AddrsOf
      <3>4. Steady /\ \A c \in Device : Unwritten(c)
        <4>1. {a} \in SUBSET Addr /\ \A b \in {a} : on[b] = w.iface
          BY <3>3
        <4> QED
          BY <2>1, <2>3, <3>1, <4>1, DeleteSteady
      <3>5. w'.addrs \subseteq AddrsOf(w.iface)'
        BY <2>2, <3>1, <3>2 DEF AddrsOf, DeleteAddrs
      <3>6. /\ It' = d /\ device'[d].live /\ Having(It, "vendor")' = {} /\ BoardRight(It)'
            /\ Having(It, "vmk")' = Having(d, "vmk")
        <4>1. \A n : Having(d, n)' = Having(d, n)
          BY <3>1 DEF Having
        <4> QED
          BY <1>3, <1>4, <2>2, <3>2, <3>4, <4>1, HereStill, SteadyRight DEF Steady
      <3>7. AddrsOf(w.iface)' = {b \in Addr : on'[b] = w'.iface}
        BY <3>2 DEF AddrsOf
      <3>8. Stage'
        BY <2>2, <3>2, <3>5, <3>6, <3>7 DEF Stage, At, Written, DeletingVmks, Hosting, InLoop
      <3>9. \A c \in Device : Ahead(c)' => Ahead(c)
        BY <1>3, <3>2, <3>6 DEF Ahead
      <3>10. InLoop'
        BY <3>2 DEF InLoop, Busy, PC
      <3> QED
        BY <1>2, <3>2, <3>4, <3>8, <3>9, <3>10, UpdateGoesOn
    <2>5. CASE DeleteVmk
      <3>1. /\ name' = [name EXCEPT ![w.iface] = None] /\ DeleteAddrs(AddrsOf(w.iface))
            /\ Loop(w.ifaces \ {w.iface}, "vmkAddrs", "hostBoard") /\ UNCHANGED status
        BY <1>8, <2>5 DEF DeleteVmk, netbox
      <3>2. /\ w'.pc = IF w.ifaces \ {w.iface} = {} THEN "hostBoard" ELSE "vmkAddrs"
            /\ w'.ifaces = w.ifaces \ {w.iface}
            /\ w'.todo = w.todo /\ w'.list = w.list /\ w'.result = w.result
            /\ w.pc = "deleteIface"
        BY <1>1, <2>5, <3>1 DEF Loop, Worker, DeleteVmk, At
      <3>3. Steady /\ \A c \in Device : Unwritten(c)
        <4>1. AddrsOf(w.iface) \in SUBSET Addr /\ \A b \in AddrsOf(w.iface) : on[b] = w.iface
          BY DEF AddrsOf
        <4> QED
          BY <2>1, <2>3, <3>1, <4>1, DeleteSteady
      <3>4. Having(d, "vmk")' = w'.ifaces
        <4>1. \A j \in Iface : name'[j] = IF j = w.iface THEN None ELSE name[j]
          BY <3>1 DEF TypeOK
        <4>2. None # "vmk"
          BY RecordAssumption DEF IfaceName
        <4> QED
          BY <2>2, <3>2, <4>1, <4>2 DEF Having, On
      <3>5. /\ It' = d /\ device'[d].live /\ Having(It, "vendor")' = {} /\ BoardRight(It)'
            /\ Having(It, "vmk")' = w'.ifaces
        BY <1>3, <1>4, <2>2, <3>2, <3>3, <3>4, HereStill, SteadyRight DEF Steady
      <3>6. Stage'
        BY <3>2, <3>5 DEF Stage, At, Written, DeletingVmks, Hosting, InLoop
      <3>7. \A c \in Device : Ahead(c)' => Ahead(c)
        BY <1>3, <3>2, <3>5 DEF Ahead
      <3>8. InLoop'
        BY <3>2 DEF InLoop, Busy, PC
      <3> QED
        BY <1>2, <3>2, <3>3, <3>6, <3>7, <3>8, UpdateGoesOn
    <2> QED
      BY <1>8, <2>4, <2>5
  <1>9. CASE PatchBMC /\ NextDevice
    <2>1. Right(d)
      BY <1>3, <1>9 DEF UpdateNow, Stage, Written, Hosting, PatchBMC, At, Right
    <2> QED
      BY <1>2, <1>3, <1>9, <2>1, UpdateNextDevice DEF PatchBMC
  <1> QED
    BY <1>5, <1>6, <1>7, <1>8, <1>9 DEF PatchBMC

\* Steps of the others leave the worker where it is.
LEMMA UpdateSame ==
    ASSUME TypeOK, UpdateNow, Steady, SnapRight', UNCHANGED <<name, on, status, w>>,
           \A d \in Device : Unwritten(d)
    PROVE  UpdateNow'
  <1>1. It' = It /\ \A d \in Device : Ahead(d)' => Ahead(d)
    BY DEF It, Ahead
  <1>2. Snapshots'
    <2>1. InLoop' => InLoop
      BY DEF InLoop
    <2>2. InLoop => \A d \in Device : Ahead(d)' => Listed(d)'
      BY <1>1, SteadyListed DEF UpdateNow, Snapshots
    <2> QED
      BY <2>1, <2>2 DEF UpdateNow, Snapshots, SnapRight, Steady
  <1>3. Progress'
    BY SteadyRight DEF UpdateNow, Progress, InLoop
  <1>4. Stage'
    <2>1. \A n : Having(It, n)' = Having(It, n)
      BY <1>1 DEF Having
    <2>2. AddrsOf(w.iface)' = AddrsOf(w.iface)
      BY DEF AddrsOf
    <2>3. \A i : AddrsOf(i)' = AddrsOf(i)
      BY DEF AddrsOf
    <2>4. InLoop => /\ BoardRight(It) => BoardRight(It)'
                    /\ device'[It].live = device[It].live
      <3>1. ASSUME InLoop PROVE \E d \in Device : d = It
        BY <3>1, TypeParts, HeadInDevice
      <3> QED
        BY <1>1, <3>1, HereStill, SteadyRight DEF Steady
    <2>5. w.pc \in Written => InLoop
      BY DEF Written, DeletingVmks, Hosting, InLoop, Busy, PC
    <2>6. Stage
      BY DEF UpdateNow
    <2>7. InLoop' <=> InLoop
      BY DEF InLoop
    <2> QED
      BY <1>1, <2>1, <2>2, <2>3, <2>4, <2>5, <2>6, <2>7 DEF Stage, At
  <1> QED
    BY <1>2, <1>3, <1>4 DEF UpdateNow

LEMMA UpdateInit == Init => UpdateInv
  BY IdleType DEF Init, UpdateInv, UpdateNow, Snapshots, Stage, Progress, InLoop, Busy, At,
     IdleWorker, IdleIP, Written, DeletingVmks, Hosting

LEMMA UpdateNext ==
    ASSUME TypeOK, UpdateInv, [Next]_vars
    PROVE  UpdateInv'
  <1> SUFFICES ASSUME edits' = 0 PROVE UpdateNow'
    BY DEF UpdateInv
  <1>1. CASE Edit
    <2>1. edits \in Nat /\ edits' = edits + 1
      BY <1>1, BoundAssumption DEF Edit, TypeOK
    <2> QED
      BY <2>1
  <1> SUFFICES ASSUME ~Edit PROVE UpdateNow'
    BY <1>1
  <1>2. UNCHANGED edits
    BY DEF Next, vars, Start, Step, ListDevices, ReconcileDevice, ListBoards, RenameInterface,
       FindBoard, FindAddr, UpdateDevice, ListVmks, ListVmkAddrs, DeleteVmkAddr, DeleteVmk,
       FindHostBoard, FindHostAddr, GetBMC, PatchBMC, UpdateStatus, IPUpdateRead, Deliver,
       IPUpdateWrite, CallFails, Crash, EditDevice, EditBMC, EditName, EditDelete, EditMove,
       bounds
  <1>3. UpdateNow
    BY <1>2 DEF UpdateInv
  <1>4. SnapRight
    BY <1>3 DEF UpdateNow, Snapshots, SnapRight
  <1>5. CASE UNCHANGED <<netbox, status, w>> /\ SnapRight'
    BY <1>3, <1>5, SteadySame, UpdateSame DEF netbox
  <1>6. CASE UNCHANGED vars
    <2>1. UNCHANGED <<netbox, status, w, ip>>
      BY <1>6 DEF vars, netbox
    <2> QED
      BY <1>4, <1>5, <2>1, SteadySame, SteadySnap
  <1>7. CASE Start \/ (Step /\ ~UpdateStatus)
    <2>1. CASE \/ Start \/ ListDevices \/ ReconcileDevice \/ ListBoards \/ FindBoard \/ FindAddr
               \/ ListVmks \/ ListVmkAddrs \/ FindHostBoard \/ FindHostAddr \/ GetBMC
      <3>1. UNCHANGED <<netbox, status, ip>>
        BY <2>1 DEF Start, ListDevices, ReconcileDevice, ListBoards, FindBoard, FindAddr,
           ListVmks, ListVmkAddrs, FindHostBoard, FindHostAddr, GetBMC
      <3> QED
        BY <1>3, <2>1, <3>1, UpdateReads
    <2>2. CASE RenameInterface \/ UpdateDevice \/ DeleteVmkAddr \/ DeleteVmk \/ PatchBMC
      <3>1. UNCHANGED ip
        BY <2>2 DEF RenameInterface, UpdateDevice, DeleteVmkAddr, DeleteVmk, PatchBMC
      <3> QED
        BY <1>3, <2>2, <3>1, UpdateWrites
    <2> QED
      BY <1>7, <2>1, <2>2 DEF Step
  <1>8. CASE UpdateStatus
    <2>1. /\ UNCHANGED <<netbox, ip>> /\ status' = w.result
          /\ w'.pc = "idle" /\ w'.result = "none"
      BY <1>8, IdleType DEF UpdateStatus
    <2>2. Steady /\ SnapRight'
      BY <1>4, <2>1, SteadySame, SteadySnap
    <2>3. ~InLoop'
      BY <2>1 DEF InLoop, Busy
    <2>4. Progress'
      BY <1>3, <2>1, <2>2, <2>3, SteadyRight DEF UpdateNow, Progress
    <2> QED
      BY <2>1, <2>2, <2>3, <2>4 DEF UpdateNow, Snapshots, SnapRight, Stage, At, Written,
         DeletingVmks, Hosting
  <1>9. CASE \E d \in Device : IPUpdateRead(d)
    <2>1. SnapRight'
      BY <1>9 DEF IPUpdateRead, SnapRight, netbox
    <2> QED
      BY <1>5, <1>9, <2>1 DEF IPUpdateRead
  <1>10. CASE \E d \in Device : Deliver(d)
    <2>1. UNCHANGED <<netbox, status, w, ip>>
      BY <1>10 DEF Deliver
    <2> QED
      BY <1>4, <1>5, <2>1, SteadySame, SteadySnap
  <1>11. CASE IPUpdateWrite
    <2>1. /\ ip \in [on: {TRUE}, d: Device, snap: DeviceRecord]
          /\ ip.d \in Claimed /\ ip.snap.live = device[ip.d].live
      <3>1. ip.on /\ ip # IdleIP
        BY <1>11 DEF IPUpdateWrite, IdleIP
      <3> QED
        BY <1>4, <3>1 DEF TypeOK, SnapRight
    <2>2. UNCHANGED <<name, on, status, w>> /\ SnapRight'
      BY <1>11 DEF IPUpdateWrite, IdleIP, SnapRight
    <2>3. CASE UNCHANGED device
      BY <1>5, <2>2, <2>3 DEF netbox
    <2>4. CASE WriteDevice(ip.d, [ip.snap EXCEPT !.primary = TRUE])
      <3>1. [ip.snap EXCEPT !.primary = TRUE] \in DeviceRecord
        BY <2>1 DEF DeviceRecord
      <3>2. [ip.snap EXCEPT !.primary = TRUE].live = device[ip.d].live
        BY <2>1 DEF DeviceRecord
      <3>3. Steady /\ \A c \in Device : Unwritten(c)
        BY <2>1, <2>2, <2>4, <3>1, <3>2, WriteSteady
      <3> QED
        BY <1>3, <2>2, <3>3, UpdateSame
    <2> QED
      BY <1>11, <2>3, <2>4 DEF IPUpdateWrite
  <1>12. CASE CallFails
    <2>1. UNCHANGED <<netbox, status, ip>>
      BY <1>12 DEF CallFails
    <2>2. CASE w' = IdleWorker \/ Fail
      BY <1>3, <2>1, <2>2, UpdateFails
    <2>3. CASE w.pc \in {"hostBoard", "hostAddr"} /\ NextDevice
      <3>1. InLoop
        BY <2>3 DEF InLoop, Busy, PC
      <3>2. Right(It)
        BY <1>3, <2>3 DEF UpdateNow, Stage, Written, Hosting, Right
      <3> QED
        BY <1>3, <2>1, <2>3, <3>1, <3>2, UpdateNextDevice
    <2> QED
      BY <1>12, <2>2, <2>3 DEF CallFails
  <1>13. CASE Crash
    <2>1. UNCHANGED <<netbox, status>> /\ w' = IdleWorker /\ SnapRight'
      BY <1>13 DEF Crash, SnapRight, IdleIP
    <2> QED
      BY <1>3, <2>1, SteadySame, UpdateEnd
  <1> QED
    BY <1>6, <1>7, <1>8, <1>9, <1>10, <1>11, <1>12, <1>13
       DEF Next, EditDevice, EditBMC, EditName, EditDelete, EditMove

LEMMA UpdateAlways == Spec => [](TypeOK /\ UpdateInv)
  <1>1. Init => TypeOK /\ UpdateInv
    BY TypeInit, UpdateInit
  <1>2. TypeOK /\ UpdateInv /\ [Next]_vars => (TypeOK /\ UpdateInv)'
    BY TypeNext, UpdateNext
  <1> QED
    BY <1>1, <1>2, PTL DEF Spec

\* A Ready Update is no empty promise: with any number of devices, interfaces
\* and addresses, whatever calls failed and however often the manager crashed,
\* every live device has its remoteboard interface and no vmk, and, unless
\* IPUpdate writes it as well, the right platform and OOB address.
THEOREM ReadySafe == Spec => []ReadyMeansUpdated
  <1>1. TypeOK /\ UpdateInv => ReadyMeansUpdated
    <2> SUFFICES ASSUME TypeOK, UpdateInv, status = "Ready", edits = 0,
                        NEW d \in Device, device[d].live
                 PROVE  Clean(d) /\ (d \notin Claimed => DataRight(d))
      BY DEF ReadyMeansUpdated
    <2>1. Having(d, "vendor") = {} /\ Having(d, "vmk") = {} /\ BoardRight(d)
      BY DEF UpdateInv, UpdateNow, Progress, Right
    <2>2. PICK i \in Having(d, "remoteboard"), a \in Addr :
            /\ AddrsOf(i) = {a}
            /\ d \notin Claimed => device[d].garden /\ device[d].oob = a
      BY <2>1 DEF BoardRight
    <2>3. Cardinality(AddrsOf(i)) = 1
      BY <2>2, FS_Singleton
    <2> QED
      BY <2>1, <2>2, <2>3 DEF Clean, DataRight
  <1> QED
    BY <1>1, UpdateAlways, PTL
=============================================================================
