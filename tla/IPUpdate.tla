------------------------------ MODULE IPUpdate ------------------------------
(***************************************************************************)
(* The IPUpdate controller (internal/controller/ipupdate_controller.go):   *)
(* it keeps one NetBox IP address record for every IPAddress object of the *)
(* Kubernetes API, guarded by a finalizer.                                 *)
(*                                                                         *)
(* Three stores take part, and none of them shares a transaction:          *)
(*   - the API server: the objects themselves (obj);                       *)
(*   - the informer cache of the manager, fed by one ordered watch stream  *)
(*     (cache, stream): every Get of an IPAddress reads the cache;         *)
(*   - NetBox: the address records, the primary IP of every device and the *)
(*     device every interface belongs to (nb, primary, ifaceDev).          *)
(* The controller runs one worker (MaxConcurrentReconciles is 1): w holds  *)
(* the local variables of the Reconcile call in progress, and each call it *)
(* makes to the API server or to NetBox is a step of its own.              *)
(***************************************************************************)
EXTENDS Integers, Sequences, FiniteSets

CONSTANTS
    CR,          \* names of IPAddress objects
    Addr,        \* addresses (spec.address with spec.prefix)
    AddrOf,      \* the address of every name: [CR -> Addr]
    Device,      \* NetBox devices
    Iface,       \* NetBox interfaces
    LagNum,      \* n for an interface of type lag named LAGn, NoLag for others
    InitOwner,   \* the device every interface starts on: [Iface -> Device]
    None,        \* no device, no interface, no record, no object
    FreshReads,  \* TRUE: the worker never starts on a cache that lags
    SharedFin,   \* TRUE: objects may carry another controller's finalizer too
    MaxGen,      \* bound: incarnations of one name
    MaxFaults,   \* bound: failed calls and crashes of the manager
    MaxEdits     \* bound: edits of NetBox by its operators

NoLag == -1

ASSUME NoneAssumption == None \notin CR \cup Device \cup Iface \cup Nat
ASSUME AddrOfAssumption == AddrOf \in [CR -> Addr]
ASSUME LagNumAssumption == LagNum \in [Iface -> {NoLag} \cup 0..9]
ASSUME InitOwnerAssumption == InitOwner \in [Iface -> Device]
ASSUME SwitchAssumption == FreshReads \in BOOLEAN /\ SharedFin \in BOOLEAN
ASSUME BoundAssumption ==
    MaxGen \in Nat /\ MaxFaults \in Nat /\ MaxEdits \in Nat

VARIABLES
    obj,       \* the object of every name on the API server
    cache,     \* the informer cache
    stream,    \* versions on the watch that the cache has not seen yet
    queue,     \* the work queue of the controller
    w,         \* the Reconcile call in progress
    bound,     \* the device the claim chain of every name leads to, or None
    nb,        \* the NetBox address records: id -> [addr, iface]
    nextId,    \* the id of the next record
    primary,   \* the primary IP of every device: a record id, or None
    ifaceDev,  \* the device every interface is on
    mine,      \* history: ids of the records this controller created
    faults,    \* failed calls and crashes so far
    edits      \* NetBox edits so far

k8s    == <<obj, stream>>
netbox == <<nb, nextId, primary, mine>>
env    == <<bound, ifaceDev, edits>>
vars   == <<obj, cache, stream, queue, w, bound, nb, nextId, primary,
            ifaceDev, mine, faults, edits>>

-----------------------------------------------------------------------------
(***************************************************************************)
(* Versions of an object.  gen is its incarnation (the UID), phase where   *)
(* it is in its life:                                                      *)
(*   "bare"      exists, without this controller's finalizer               *)
(*   "guarded"   exists, with the finalizer                                *)
(*   "deleting"  has a deletionTimestamp and the finalizer                 *)
(*   "released"  has a deletionTimestamp; only another controller's        *)
(*               finalizer keeps it                                        *)
(*   "gone"      does not exist (a tombstone keeps the last incarnation)   *)
(* device and iface are the annotations with the NetBox ids, conflicted    *)
(* the conflict annotation.                                                *)
(***************************************************************************)
Phase == {"bare", "guarded", "deleting", "released", "gone"}
Conflict == {"none", "interface", "device"}

Version == [gen: Nat, phase: Phase, device: Device \cup {None},
            iface: Iface \cup {None}, conflicted: Conflict]

NoVersion == [gen |-> 0, phase |-> "gone", device |-> None,
              iface |-> None, conflicted |-> "none"]

\* What is left of v when it is gone.
Tombstone(v) == [NoVersion EXCEPT !.gen = v.gen]

HasFinalizer(v) == v.phase \in {"guarded", "deleting"}
BeingDeleted(v) == v.phase \in {"deleting", "released"}

\* Adding the finalizer to what the server holds.
WithFinalizer(v) == IF v.phase = "bare" THEN [v EXCEPT !.phase = "guarded"] ELSE v

\* Removing it: an object being deleted goes away with its last finalizer.
WithoutFinalizer(v) ==
    CASE v.phase = "deleting" ->
            {Tombstone(v)}
              \cup (IF SharedFin THEN {[v EXCEPT !.phase = "released"]} ELSE {})
      [] v.phase = "guarded" -> {[v EXCEPT !.phase = "bare"]}
      [] OTHER -> {v}

\* A JSON merge patch (client.MergeFrom): only the annotations that differ
\* between the snapshot and its edited copy are written, and nothing checks
\* that the server still holds the snapshot.
MergePatch(server, base, edited) ==
    [server EXCEPT
        !.device = IF edited.device # base.device THEN edited.device ELSE @,
        !.iface = IF edited.iface # base.iface THEN edited.iface ELSE @,
        !.conflicted = IF edited.conflicted # base.conflicted
                       THEN edited.conflicted ELSE @]

-----------------------------------------------------------------------------
(***************************************************************************)
(* NetBox.                                                                 *)
(***************************************************************************)
Record == [addr: Addr, iface: Iface]

\* GetIPAddressByAddress filters by address alone, whatever the VRF.
Hits(a) == {id \in DOMAIN nb : nb[id].addr = a}

Lags(d) == {i \in Iface : ifaceDev[i] = d /\ LagNum[i] # NoLag}

\* findTargetInterface: the LAG with the highest digit.
TargetIface(d) == CHOOSE i \in Lags(d) : \A j \in Lags(d) : LagNum[j] <= LagNum[i]

-----------------------------------------------------------------------------
(***************************************************************************)
(* The worker.                                                             *)
(***************************************************************************)
DeletePath == {"reconcileDelete", "deleteIP", "removeFinalizer"}
NormalPath == {"findDeviceName", "getDevice", "getInterfaces", "lookupIP",
               "createIP", "primaryIP", "updateMetadata", "setConflict"}
PC == {"idle", "addFinalizer"} \cup DeletePath \cup NormalPath

\* The steps that use the device, the interface or the record found before.
HasIface == {"lookupIP", "createIP", "primaryIP", "updateMetadata", "setConflict"}
HasDevice == HasIface \cup {"getDevice", "getInterfaces"}
HasRecord == {"deleteIP", "primaryIP"}

IdleWorker == [pc |-> "idle", cr |-> None, snap |-> NoVersion, device |-> None,
               primary |-> None, iface |-> None, ip |-> None, why |-> "none"]

TypeOK ==
    /\ obj \in [CR -> Version]
    /\ cache \in [CR -> Version]
    /\ stream \in Seq([cr: CR, ver: Version])
    /\ queue \in SUBSET CR
    /\ w \in [pc: PC, cr: CR \cup {None}, snap: Version,
              device: Device \cup {None}, primary: Nat \cup {None},
              iface: Iface \cup {None}, ip: Nat \cup {None}, why: Conflict]
    /\ w.pc # "idle" => w.cr \in CR
    /\ w.pc \in HasDevice => w.device \in Device
    /\ w.pc \in HasIface => w.iface \in Iface
    /\ w.pc \in HasRecord => w.ip \in Nat
    /\ bound \in [CR -> Device \cup {None}]
    /\ nextId \in Nat
    /\ nb \in [DOMAIN nb -> Record]
    /\ DOMAIN nb \in SUBSET Nat
    /\ \A id \in DOMAIN nb : id < nextId
    /\ primary \in [Device -> Nat \cup {None}]
    /\ ifaceDev \in [Iface -> Device]
    /\ mine \in SUBSET Nat
    /\ faults \in 0..MaxFaults
    /\ edits \in 0..MaxEdits

Init ==
    /\ obj = [c \in CR |-> NoVersion]
    /\ cache = [c \in CR |-> NoVersion]
    /\ stream = <<>>
    /\ queue = {}
    /\ w = IdleWorker
    /\ bound = [c \in CR |-> None]
    /\ nb = [id \in {} |-> {}]
    /\ nextId = 1
    /\ primary = [d \in Device |-> None]
    /\ ifaceDev = InitOwner
    /\ mine = {}
    /\ faults = 0
    /\ edits = 0

\* The server stores version v of c; a write that changes nothing makes no
\* event.
Store(c, v) ==
    /\ obj' = [obj EXCEPT ![c] = v]
    /\ stream' = IF v = obj[c] THEN stream
                 ELSE Append(stream, [cr |-> c, ver |-> v])

At(pc) == w.pc = pc
Goto(pc) == w' = [w EXCEPT !.pc = pc] /\ UNCHANGED queue
Done == w' = IdleWorker /\ UNCHANGED queue
\* Reconcile returned an error: the object goes back to the queue.
Fail == w' = IdleWorker /\ queue' = queue \cup {w.cr}

\* Mutant: the missing finalizer does not divert Reconcile.
Bug_Start(c) ==
    /\ At("idle")
    /\ c \in queue
    /\ FreshReads => stream = <<>>
    /\ queue' = queue \ {c}
    /\ w' = IF cache[c].phase = "gone" THEN IdleWorker
            ELSE [IdleWorker EXCEPT
                    !.cr = c, !.snap = cache[c],
                    !.pc = IF BeingDeleted(cache[c]) THEN "reconcileDelete"
                           ELSE "findDeviceName"]
    /\ UNCHANGED <<k8s, cache, netbox, env, faults>>

\* Reconcile takes a name from the queue and reads the object from the cache.
Start(c) ==
    /\ At("idle")
    /\ c \in queue
    /\ FreshReads => stream = <<>>
    /\ queue' = queue \ {c}
    /\ w' = IF cache[c].phase = "gone" THEN IdleWorker
            ELSE [IdleWorker EXCEPT
                    !.cr = c, !.snap = cache[c],
                    !.pc = IF BeingDeleted(cache[c]) THEN "reconcileDelete"
                           ELSE IF ~HasFinalizer(cache[c]) THEN "addFinalizer"
                           ELSE "findDeviceName"]
    /\ UNCHANGED <<k8s, cache, netbox, env, faults>>

\* Mutant: no return after the patch.
Bug_AddFinalizer ==
    /\ At("addFinalizer")
    /\ IF obj[w.cr].phase \in {"gone", "released"}
       THEN Fail /\ UNCHANGED k8s
       ELSE Store(w.cr, WithFinalizer(obj[w.cr])) /\ Goto("findDeviceName")
    /\ UNCHANGED <<cache, netbox, env, faults>>

\* AddFinalizer and its patch; the worker returns and waits for the event.
AddFinalizer ==
    /\ At("addFinalizer")
    /\ IF obj[w.cr].phase \in {"gone", "released"}  \* NotFound, or rejected
       THEN Fail /\ UNCHANGED k8s
       ELSE Store(w.cr, WithFinalizer(obj[w.cr])) /\ Done
    /\ UNCHANGED <<cache, netbox, env, faults>>

\* Mutant: a record that does not exist is an error.
Bug_ReconcileDelete_NotFound ==
    /\ At("reconcileDelete")
    /\ \/ /\ Cardinality(Hits(AddrOf[w.cr])) # 1
          /\ Fail
       \/ \E id \in Hits(AddrOf[w.cr]) :
            /\ Hits(AddrOf[w.cr]) = {id}
            /\ IF \/ w.snap.device = None
                  \/ w.snap.iface = None
                  \/ nb[id].iface # w.snap.iface
               THEN Goto("removeFinalizer")
               ELSE w' = [w EXCEPT !.pc = "deleteIP", !.ip = id] /\ UNCHANGED queue
    /\ UNCHANGED <<k8s, cache, netbox, env, faults>>

\* reconcileDelete up to the call that deletes.
ReconcileDelete ==
    /\ At("reconcileDelete")
    /\ \/ /\ Hits(AddrOf[w.cr]) = {}
          /\ Goto("removeFinalizer")
       \/ /\ Cardinality(Hits(AddrOf[w.cr])) > 1
          /\ Fail
       \/ \E id \in Hits(AddrOf[w.cr]) :
            /\ Hits(AddrOf[w.cr]) = {id}
            /\ IF \/ w.snap.device = None
                  \/ w.snap.iface = None
                  \/ nb[id].iface # w.snap.iface
               THEN Goto("removeFinalizer")
               ELSE w' = [w EXCEPT !.pc = "deleteIP", !.ip = id] /\ UNCHANGED queue
    /\ UNCHANGED <<k8s, cache, netbox, env, faults>>

\* NetBox forgets the record; a device that had it as primary IP loses it.
DropRecord(id) ==
    /\ nb' = [x \in DOMAIN nb \ {id} |-> nb[x]]
    /\ primary' = [d \in Device |-> IF primary[d] = id THEN None ELSE primary[d]]
    /\ UNCHANGED <<nextId, mine>>

\* Mutant: the error of the delete call is dropped.
Bug_DeleteIP ==
    /\ At("deleteIP")
    /\ \/ w.ip \in DOMAIN nb /\ DropRecord(w.ip)
       \/ UNCHANGED netbox
    /\ Goto("removeFinalizer")
    /\ UNCHANGED <<k8s, cache, env, faults>>

DeleteIP ==
    /\ At("deleteIP")
    /\ IF w.ip \in DOMAIN nb
       THEN DropRecord(w.ip) /\ Goto("removeFinalizer")
       ELSE Fail /\ UNCHANGED netbox
    /\ UNCHANGED <<k8s, cache, env, faults>>

\* RemoveFinalizer and its patch.  Without the finalizer in the snapshot there
\* is nothing to patch.
RemoveFinalizer ==
    /\ At("removeFinalizer")
    /\ IF ~HasFinalizer(w.snap) THEN Done /\ UNCHANGED k8s
       ELSE IF obj[w.cr].phase = "gone" THEN Fail /\ UNCHANGED k8s
       ELSE Done /\ \E v \in WithoutFinalizer(obj[w.cr]) : Store(w.cr, v)
    /\ UNCHANGED <<cache, netbox, env, faults>>

\* findDeviceName: claim, ServerClaim, Server and its BMC name the device.
FindDeviceName ==
    /\ At("findDeviceName")
    /\ IF bound[w.cr] = None THEN Fail
       ELSE w' = [w EXCEPT !.pc = "getDevice", !.device = bound[w.cr]] /\ UNCHANGED queue
    /\ UNCHANGED <<k8s, cache, netbox, env, faults>>

\* GetDeviceByName: the device with its primary IP at this moment.
GetDevice ==
    /\ At("getDevice")
    /\ w' = [w EXCEPT !.pc = "getInterfaces", !.primary = primary[w.device]]
    /\ UNCHANGED <<k8s, cache, queue, netbox, env, faults>>

\* GetInterfacesForDevice and findTargetInterface.
GetInterfaces ==
    /\ At("getInterfaces")
    /\ IF Lags(w.device) = {} THEN Fail
       ELSE w' = [w EXCEPT !.pc = "lookupIP", !.iface = TargetIface(w.device)] /\ UNCHANGED queue
    /\ UNCHANGED <<k8s, cache, netbox, env, faults>>

\* Mutant: only records on the wanted interface count as found.
Bug_LookupIP ==
    /\ At("lookupIP")
    /\ LET found == {id \in Hits(AddrOf[w.cr]) : nb[id].iface = w.iface} IN
         \/ found = {} /\ Goto("createIP")
         \/ Cardinality(found) > 1 /\ Fail
         \/ \E id \in found :
              /\ found = {id}
              /\ w' = [w EXCEPT !.pc = "primaryIP", !.ip = id]
              /\ UNCHANGED queue
    /\ UNCHANGED <<k8s, cache, netbox, env, faults>>

\* reconcileNetboxAddressIP up to the call that creates.
LookupIP ==
    /\ At("lookupIP")
    /\ \/ /\ Hits(AddrOf[w.cr]) = {}
          /\ Goto("createIP")
       \/ /\ Cardinality(Hits(AddrOf[w.cr])) > 1
          /\ Fail
       \/ \E id \in Hits(AddrOf[w.cr]) :
            /\ Hits(AddrOf[w.cr]) = {id}
            /\ UNCHANGED queue
            /\ w' = IF nb[id].iface # w.iface
                    THEN [w EXCEPT !.pc = "setConflict", !.why = "interface"]
                    ELSE IF ifaceDev[nb[id].iface] # w.device
                    THEN [w EXCEPT !.pc = "setConflict", !.why = "device"]
                    ELSE [w EXCEPT !.pc = "primaryIP", !.ip = id]
    /\ UNCHANGED <<k8s, cache, netbox, env, faults>>

\* NetBox stores a new record and returns its id.
NewRecord(a, i) ==
    /\ nb' = [x \in DOMAIN nb \cup {nextId} |->
                IF x = nextId THEN [addr |-> a, iface |-> i] ELSE nb[x]]
    /\ nextId' = nextId + 1

\* Mutant: the error of the create call is dropped.
Bug_CreateIP ==
    /\ At("createIP")
    /\ \/ /\ NewRecord(AddrOf[w.cr], w.iface)
          /\ mine' = mine \cup {nextId}
          /\ w' = [w EXCEPT !.pc = "primaryIP", !.ip = nextId]
       \/ /\ w' = [w EXCEPT !.pc = "updateMetadata"]
          /\ UNCHANGED <<nb, nextId, mine>>
    /\ UNCHANGED <<k8s, cache, queue, primary, env, faults>>

\* createIPAddress.
CreateIP ==
    /\ At("createIP")
    /\ NewRecord(AddrOf[w.cr], w.iface)
    /\ mine' = mine \cup {nextId}
    /\ w' = [w EXCEPT !.pc = "primaryIP", !.ip = nextId]
    /\ UNCHANGED <<k8s, cache, queue, primary, env, faults>>

\* Mutant: the comparison is the wrong way round.
Bug_PrimaryIP ==
    /\ At("primaryIP")
    /\ IF w.primary # w.ip THEN Goto("updateMetadata") /\ UNCHANGED netbox
       ELSE IF w.ip \in DOMAIN nb
       THEN /\ primary' = [primary EXCEPT ![w.device] = w.ip]
            /\ Goto("updateMetadata")
            /\ UNCHANGED <<nb, nextId, mine>>
       ELSE Fail /\ UNCHANGED netbox
    /\ UNCHANGED <<k8s, cache, env, faults>>

\* reconcileDevicePrimaryIP: compares with the device read earlier, then
\* writes the device; NetBox refuses a primary IP that no longer exists.
PrimaryIP ==
    /\ At("primaryIP")
    /\ IF w.primary = w.ip THEN Goto("updateMetadata") /\ UNCHANGED netbox
       ELSE IF w.ip \in DOMAIN nb
       THEN /\ primary' = [primary EXCEPT ![w.device] = w.ip]
            /\ Goto("updateMetadata")
            /\ UNCHANGED <<nb, nextId, mine>>
       ELSE Fail /\ UNCHANGED netbox
    /\ UNCHANGED <<k8s, cache, env, faults>>

\* A patch of the annotations: base is the snapshot Reconcile started from.
PatchAnnotations(edited) ==
    IF obj[w.cr].phase = "gone" THEN Fail /\ UNCHANGED k8s
    ELSE Store(w.cr, MergePatch(obj[w.cr], w.snap, edited)) /\ Done

\* Mutant: only the device id is recorded.
Bug_UpdateMetadata_NoIface ==
    /\ At("updateMetadata")
    /\ PatchAnnotations([w.snap EXCEPT !.device = w.device, !.conflicted = "none"])
    /\ UNCHANGED <<cache, netbox, env, faults>>

\* Mutant: the conflict annotation stays.
Bug_UpdateMetadata_KeepConflict ==
    /\ At("updateMetadata")
    /\ PatchAnnotations([w.snap EXCEPT !.device = w.device, !.iface = w.iface])
    /\ UNCHANGED <<cache, netbox, env, faults>>

\* updateIPAddressMetadata.
UpdateMetadata ==
    /\ At("updateMetadata")
    /\ PatchAnnotations([w.snap EXCEPT !.device = w.device, !.iface = w.iface,
                                       !.conflicted = "none"])
    /\ UNCHANGED <<cache, netbox, env, faults>>

\* Mutant: the needed id is written instead of the kind of conflict.
Bug_SetConflict ==
    /\ At("setConflict")
    /\ PatchAnnotations([w.snap EXCEPT !.conflicted = w.iface])
    /\ UNCHANGED <<cache, netbox, env, faults>>

\* setConflictAnnotation; Reconcile then returns without error: no requeue.
SetConflict ==
    /\ At("setConflict")
    /\ PatchAnnotations([w.snap EXCEPT !.conflicted = w.why])
    /\ UNCHANGED <<cache, netbox, env, faults>>

Step ==
    \/ AddFinalizer
    \/ ReconcileDelete \/ DeleteIP \/ RemoveFinalizer
    \/ FindDeviceName \/ GetDevice \/ GetInterfaces
    \/ LookupIP \/ CreateIP \/ PrimaryIP
    \/ UpdateMetadata \/ SetConflict

-----------------------------------------------------------------------------
(***************************************************************************)
(* The informer.                                                           *)
(***************************************************************************)
\* Mutant: one watch per object, ordered among its own versions only.
Bug_Deliver ==
    /\ \E i \in DOMAIN stream :
         /\ \A j \in 1..(i - 1) : stream[j].cr # stream[i].cr
         /\ cache' = [cache EXCEPT ![stream[i].cr] = stream[i].ver]
         /\ queue' = queue \cup {stream[i].cr}
         /\ stream' = SubSeq(stream, 1, i - 1) \o SubSeq(stream, i + 1, Len(stream))
    /\ UNCHANGED <<obj, w, netbox, env, faults>>

\* The watch delivers the next version: the cache takes it and every kind of
\* event enqueues the name (EnqueueRequestForObject, no predicate).
Deliver ==
    /\ stream # <<>>
    /\ LET e == Head(stream) IN
         /\ cache' = [cache EXCEPT ![e.cr] = e.ver]
         /\ queue' = queue \cup {e.cr}
    /\ stream' = Tail(stream)
    /\ UNCHANGED <<obj, w, netbox, env, faults>>

\* The periodic resync of the informer enqueues what the cache holds.
Resync ==
    /\ queue' = queue \cup {c \in CR : cache[c].phase # "gone"}
    /\ UNCHANGED <<k8s, cache, w, netbox, env, faults>>

-----------------------------------------------------------------------------
(***************************************************************************)
(* Faults.                                                                 *)
(***************************************************************************)
\* The call the worker is about to make fails (credentials, NetBox or API
\* server).  A write whose reply is lost is the write followed by this.
CallFails ==
    /\ ~At("idle")
    /\ faults < MaxFaults
    /\ faults' = faults + 1
    /\ Fail
    /\ UNCHANGED <<k8s, cache, netbox, env>>

\* The manager dies and starts again: it lists every object and enqueues it.
Crash ==
    /\ faults < MaxFaults
    /\ faults' = faults + 1
    /\ cache' = obj
    /\ stream' = <<>>
    /\ queue' = {c \in CR : obj[c].phase # "gone"}
    /\ w' = IdleWorker
    /\ UNCHANGED <<obj, netbox, env>>

-----------------------------------------------------------------------------
(***************************************************************************)
(* The environment: the users of the cluster, the IP allocator, the other  *)
(* controllers and the operators of NetBox.                                *)
(***************************************************************************)
\* The allocator hands out an address that no existing object holds.
CreateCR(c) ==
    /\ obj[c].phase = "gone"
    /\ obj[c].gen < MaxGen
    /\ \A x \in CR : AddrOf[x] = AddrOf[c] => obj[x].phase = "gone"
    /\ Store(c, [NoVersion EXCEPT !.gen = obj[c].gen + 1, !.phase = "bare"])
    /\ \E d \in Device \cup {None} : bound' = [bound EXCEPT ![c] = d]
    /\ UNCHANGED <<cache, queue, w, netbox, ifaceDev, faults, edits>>

\* The ServerClaim behind the claim is bound to a server.
BindServer(c) ==
    /\ bound[c] = None
    /\ obj[c].phase # "gone"
    /\ \E d \in Device : bound' = [bound EXCEPT ![c] = d]
    /\ UNCHANGED <<k8s, cache, queue, w, netbox, ifaceDev, faults, edits>>

\* A delete request: with finalizers the object is only marked.
DeleteCR(c) ==
    /\ \/ /\ obj[c].phase = "guarded"
          /\ Store(c, [obj[c] EXCEPT !.phase = "deleting"])
       \/ /\ obj[c].phase = "bare"
          /\ Store(c, Tombstone(obj[c]))
       \/ /\ obj[c].phase = "bare"
          /\ SharedFin
          /\ Store(c, [obj[c] EXCEPT !.phase = "released"])
    /\ UNCHANGED <<cache, queue, w, netbox, env, faults>>

\* The other controller removes its finalizer.
OtherRelease(c) ==
    /\ obj[c].phase = "released"
    /\ Store(c, Tombstone(obj[c]))
    /\ UNCHANGED <<cache, queue, w, netbox, env, faults>>

Edit == edits < MaxEdits /\ edits' = edits + 1

\* An operator records an address by hand.
EditCreate(a, i) ==
    /\ Edit
    /\ NewRecord(a, i)
    /\ UNCHANGED <<k8s, cache, queue, w, bound, primary, mine, ifaceDev, faults>>

\* An operator assigns a record to another interface.
EditAssign(id, i) ==
    /\ Edit
    /\ nb[id].iface # i
    /\ nb' = [nb EXCEPT ![id].iface = i]
    /\ UNCHANGED <<k8s, cache, queue, w, bound, nextId, primary, mine, ifaceDev, faults>>

\* An operator deletes a record.
EditDelete(id) ==
    /\ Edit
    /\ DropRecord(id)
    /\ UNCHANGED <<k8s, cache, queue, w, bound, ifaceDev, faults>>

\* An operator recables: an interface moves to a device that has none of its name.
EditMove(i, d) ==
    /\ Edit
    /\ ifaceDev[i] # d
    /\ \A j \in Lags(d) : LagNum[j] # LagNum[i]
    /\ ifaceDev' = [ifaceDev EXCEPT ![i] = d]
    /\ UNCHANGED <<k8s, cache, queue, w, bound, netbox, faults>>

Environment ==
    \/ \E c \in CR : CreateCR(c) \/ BindServer(c) \/ DeleteCR(c) \/ OtherRelease(c)
    \/ \E a \in Addr, i \in Iface : EditCreate(a, i)
    \/ \E id \in DOMAIN nb : EditDelete(id) \/ \E i \in Iface : EditAssign(id, i)
    \/ \E i \in Iface, d \in Device : EditMove(i, d)

Next ==
    \/ \E c \in CR : Start(c)
    \/ Step
    \/ Deliver
    \/ Resync
    \/ CallFails
    \/ Crash
    \/ Environment

Spec == Init /\ [][Next]_vars

\* The worker never stops in the middle of a call, the work queue is fair to
\* every name, the watch delivers, and the informer resyncs for ever.  Nothing
\* is assumed of users, operators, other controllers or faults.
Fairness ==
    /\ WF_vars(Step)
    /\ \A c \in CR : SF_vars(Start(c))
    /\ WF_vars(Deliver)
    /\ WF_vars(Resync)

FairSpec == Spec /\ Fairness

-----------------------------------------------------------------------------
(***************************************************************************)
(* Properties.                                                             *)
(***************************************************************************)
\* While Reconcile works on NetBox for an IPAddress (lines 150-180), the API
\* server holds the very incarnation it read, and holds it with the finalizer:
\* no record is created for an object that can vanish without a delete pass.
GuardedWhileBusy ==
    w.pc \in NormalPath =>
        /\ obj[w.cr].gen = w.snap.gen
        /\ HasFinalizer(obj[w.cr])

\* Why it holds.  The versions of an object only move forward, ...
PhaseRank(p) == CASE p = "bare" -> 0 [] p = "guarded" -> 1
                  [] p = "deleting" -> 2 [] p = "released" -> 3 [] OTHER -> 4

Rank(v) == 5 * v.gen + PhaseRank(v.phase)

\* ... the cache holds one of them and the watch stream later ones, in order:
Seen(c) == {cache[c]} \cup
           {stream[i].ver : i \in {j \in DOMAIN stream : stream[j].cr = c}}

StreamSorted ==
    \A i, j \in DOMAIN stream :
        i < j /\ stream[i].cr = stream[j].cr => Rank(stream[i].ver) <= Rank(stream[j].ver)

\* A version with the finalizer that the worker has or will see is the current
\* incarnation, still with the finalizer; one whose finalizer is gone from the
\* server was the cached one when the worker removed it.
VersionInv(c) ==
    \A v \in Seen(c) :
        /\ Rank(cache[c]) <= Rank(v) /\ Rank(v) <= Rank(obj[c])
        /\ v.phase = "guarded" => obj[c].gen = v.gen /\ HasFinalizer(obj[c])
        /\ v.phase = "deleting" =>
             /\ HasFinalizer(obj[c]) => obj[c].gen = v.gen
             /\ Rank(obj[c]) > Rank(v) => Rank(cache[c]) >= Rank(v)

\* What the worker knows of the object it works on.
WorkerInv ==
    ~At("idle") =>
        /\ Rank(w.snap) <= Rank(cache[w.cr])
        /\ w.pc \in NormalPath =>
             /\ obj[w.cr].gen = w.snap.gen
             /\ HasFinalizer(obj[w.cr])
        /\ w.pc \in DeletePath =>
             /\ BeingDeleted(w.snap)
             /\ HasFinalizer(w.snap) /\ HasFinalizer(obj[w.cr]) =>
                    obj[w.cr].gen = w.snap.gen
        /\ At("addFinalizer") =>
             \A v \in Seen(w.cr) : v.phase = "deleting" => Rank(obj[w.cr]) <= Rank(v)

\* The versions in flight agree with the server on who is guarded: the
\* inductive invariant behind GuardedWhileBusy.
FinalizerInv ==
    /\ StreamSorted
    /\ \A c \in CR : VersionInv(c)
    /\ WorkerInv

\* Without operators recording addresses by hand, an address never has two
\* records, whatever replies are lost and whenever the manager crashes.  Two
\* records make every later lookup of the address fail (ipam.go:68).
OneRecordPerAddress ==
    edits = 0 => \A a \in Addr : Cardinality(Hits(a)) <= 1

\* The annotations of a live object tell the truth: as long as no operator
\* edits NetBox, the record they stand for exists on the annotated interface
\* of the annotated device.
AnnotatedHasRecord ==
    edits = 0 =>
        \A c \in CR : obj[c].phase = "guarded" /\ obj[c].iface # None =>
            /\ \E id \in Hits(AddrOf[c]) : nb[id].iface = obj[c].iface
            /\ ifaceDev[obj[c].iface] = obj[c].device

\* The controller deletes a record only for an object whose deletion was
\* requested: never one whose address belongs to a live object, a recreated
\* object or a new owner of the address included (lines 116-135).
DeletesOnlyForDeleted ==
    [][\A id \in DOMAIN nb \ DOMAIN nb' :
         edits' = edits =>
           \A c \in CR : AddrOf[c] = nb[id].addr => obj[c].phase # "guarded"]_vars

\* The finalizer never goes while the record of the object is where the
\* annotations of the object on the server say it is: "deletes IP when assigned to expected interface"
\* (ipupdate_controller_test.go:846).
DeletesWhenAssigned ==
    [][\A c \in CR :
         obj[c].phase = "deleting" /\ obj'[c].phase # "deleting" =>
           ~\E id \in Hits(AddrOf[c]) : nb[id].iface = obj[c].iface]_vars

\* The record of c is where its annotations say it is.  A record that was created
\* (line 317) and is not yet annotated (line 174) does not count: the delete pass
\* knows a record by the annotations alone (lines 372-385).
Recorded(c) == \E id \in Hits(AddrOf[c]) : nb[id].iface = obj[c].iface

Held == {c \in CR : Recorded(c)}

G == INSTANCE GuardedResource
       WITH Object <- CR, stage <- [c \in CR |-> obj[c].phase], held <- Held

\* As long as no operator edits NetBox and the worker starts on a cache that has
\* caught up, the finalizer does what finalizers are for, for every record that
\* its object is annotated with: the object has the finalizer by then, keeps it
\* while it has the record, loses the record only when it is to be deleted, and
\* then only goes without it; whatever calls fail and whenever the manager
\* crashes.  Of a record that was created but never annotated it says nothing.
ImplementsGuardedResource == G!Spec

\* When the object is gone, so is the record this controller created for it:
\* "successfully deletes IP when IPAddressClaim CR is deleted"
\* (ipupdate_controller_test.go:884).
GoesWithObject ==
    \A id \in DOMAIN nb \cap mine :
        \E c \in CR : AddrOf[c] = nb[id].addr /\ obj[c].phase \notin {"gone", "released"}

\* That is so without faults and edits.  One fault is enough to break it: a call
\* that fails, or a crash, after the record was created (line 317) and before it
\* is annotated (line 174), and then a deletion, which skips NetBox for want of
\* annotations (line 372).
NoLeak == faults = 0 /\ edits = 0 => GoesWithObject

\* A deletion is always finished: the finalizer does not keep the object for
\* ever, unless two records share its address.
DeletionCompletes ==
    \A c \in CR :
        obj[c].phase = "deleting" ~>
            (obj[c].phase # "deleting" \/ Cardinality(Hits(AddrOf[c])) > 1)

\* The claim chain of c leads to a device with a LAG.
Resolvable(c) == bound[c] # None /\ Lags(bound[c]) # {}

\* Its only record is on the wanted interface.
OnTarget(c) ==
    \E id \in DOMAIN nb : Hits(AddrOf[c]) = {id} /\ nb[id].iface = TargetIface(bound[c])

\* Its only record is on another one.
OffTarget(c) ==
    \E id \in DOMAIN nb : Hits(AddrOf[c]) = {id} /\ nb[id].iface # TargetIface(bound[c])

\* An object whose server is known ends with a record on the wanted interface,
\* annotated with it and with a primary IP on its device, or with the conflict
\* annotation, unless it is deleted or its address has two records.
EventuallySynced ==
    \A c \in CR :
        (obj[c].phase = "guarded" /\ Resolvable(c)) ~>
            \/ obj[c].phase # "guarded"
            \/ ~Resolvable(c)
            \/ Cardinality(Hits(AddrOf[c])) > 1
            \/ obj[c].conflicted # "none"
            \/ /\ OnTarget(c)
               /\ obj[c].iface = TargetIface(bound[c])
               /\ \E x \in CR : /\ bound[x] = bound[c]
                                /\ primary[bound[c]] \in Hits(AddrOf[x])

\* A lasting conflict is flagged for good and a conflict that was resolved in
\* NetBox is cleared for good, although the controller neither requeues the
\* object (line 168) nor hears of changes in NetBox.
ConflictTracked ==
    \A c \in CR :
        /\ <>[](obj[c].phase = "guarded" /\ Resolvable(c) /\ OffTarget(c))
              => <>[](obj[c].conflicted = "interface")
        /\ <>[](obj[c].phase = "guarded" /\ Resolvable(c) /\ OnTarget(c))
              => <>[](obj[c].conflicted = "none")
=============================================================================
