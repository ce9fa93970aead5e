--------------------------- MODULE IPUpdateProofs ---------------------------
(***************************************************************************)
(* What holds of IPUpdate for every value of its constants: its variables  *)
(* keep their types, Reconcile touches NetBox only for an object that      *)
(* still carries the finalizer, no address gets two records, no live       *)
(* object loses its record, and annotations tell the truth.                *)
(***************************************************************************)
EXTENDS IPUpdate, SequenceTheorems, FiniteSetTheorems, TLAPS

Event == [cr: CR, ver: Version]

(***************************************************************************)
(* Versions stay versions under everything the server does to them.        *)
(***************************************************************************)
LEMMA VersionOps ==
    ASSUME NEW v \in Version
    PROVE  /\ Tombstone(v) \in Version
           /\ WithFinalizer(v) \in Version
           /\ WithoutFinalizer(v) \in SUBSET Version
           /\ NoVersion \in Version
           /\ \A p \in Phase : [v EXCEPT !.phase = p] \in Version
           /\ \A base \in Version, edited \in Version :
                  MergePatch(v, base, edited) \in Version
  <1>1. NoVersion \in Version /\ Tombstone(v) \in Version
    BY DEF Version, Tombstone, NoVersion, Phase, Conflict
  <1>2. \A p \in Phase : [v EXCEPT !.phase = p] \in Version
    BY DEF Version
  <1>3. WithFinalizer(v) \in Version
    BY <1>2 DEF WithFinalizer, Phase
  <1>4. WithoutFinalizer(v) \in SUBSET Version
    <2>1. CASE v.phase = "deleting"
      BY <1>1, <1>2, <2>1 DEF WithoutFinalizer, Phase
    <2>2. CASE v.phase = "guarded"
      BY <1>2, <2>2 DEF WithoutFinalizer, Phase
    <2>3. CASE v.phase \notin {"deleting", "guarded"}
      BY <2>3 DEF WithoutFinalizer
    <2> QED
      BY <2>1, <2>2, <2>3
  <1>5. ASSUME NEW base \in Version, NEW edited \in Version
        PROVE  MergePatch(v, base, edited) \in Version
    BY DEF MergePatch, Version
  <1> QED
    BY <1>1, <1>2, <1>3, <1>4, <1>5

\* Storing a version keeps the types of what the API server holds.
LEMMA StoreType ==
    ASSUME obj \in [CR -> Version], stream \in Seq(Event),
           NEW c \in CR, NEW v \in Version, Store(c, v)
    PROVE  obj' \in [CR -> Version] /\ stream' \in Seq(Event)
  <1>1. obj' \in [CR -> Version]
    BY DEF Store
  <1>2. [cr |-> c, ver |-> v] \in Event
    BY DEF Event
  <1>3. Append(stream, [cr |-> c, ver |-> v]) \in Seq(Event)
    BY <1>2, AppendProperties
  <1> QED
    BY <1>1, <1>3 DEF Store

Workers == [pc: PC, cr: CR \cup {None}, snap: Version,
            device: Device \cup {None}, primary: Nat \cup {None},
            iface: Iface \cup {None}, ip: Nat \cup {None}, why: Conflict]

\* The two types the steps change, apart.
K8sType ==
    /\ obj \in [CR -> Version]
    /\ cache \in [CR -> Version]
    /\ stream \in Seq(Event)
    /\ queue \in SUBSET CR

WorkerType ==
    /\ w \in Workers
    /\ w.pc # "idle" => w.cr \in CR
    /\ w.pc \in HasDevice => w.device \in Device
    /\ w.pc \in HasIface => w.iface \in Iface
    /\ w.pc \in HasRecord => w.ip \in Nat

NetBoxType ==
    /\ nextId \in Nat
    /\ nb \in [DOMAIN nb -> Record]
    /\ DOMAIN nb \in SUBSET Nat
    /\ \A id \in DOMAIN nb : id < nextId
    /\ primary \in [Device -> Nat \cup {None}]
    /\ mine \in SUBSET Nat

EnvType ==
    /\ bound \in [CR -> Device \cup {None}]
    /\ ifaceDev \in [Iface -> Device]
    /\ faults \in 0..MaxFaults
    /\ edits \in 0..MaxEdits

LEMMA TypeParts ==
    /\ TypeOK <=> K8sType /\ WorkerType /\ NetBoxType /\ EnvType
    /\ TypeOK' <=> K8sType' /\ WorkerType' /\ NetBoxType' /\ EnvType'
  BY DEF TypeOK, K8sType, WorkerType, NetBoxType, EnvType, Workers, Event

LEMMA IdleType == IdleWorker \in Workers /\ IdleWorker.pc = "idle"
  BY VersionOps DEF IdleWorker, Workers, PC, NoVersion, Version, Phase, Conflict

LEMMA TypeInit == Init => TypeOK
  <1> SUFFICES ASSUME Init PROVE TypeOK
    OBVIOUS
  <1>1. NoVersion \in Version
    BY DEF NoVersion, Version, Phase, Conflict
  <1>2. K8sType
    BY <1>1, EmptySeq DEF Init, K8sType
  <1>3. WorkerType
    BY IdleType DEF Init, WorkerType, HasDevice, HasIface, HasRecord
  <1>4. NetBoxType /\ EnvType
    BY InitOwnerAssumption, BoundAssumption DEF Init, NetBoxType, EnvType
  <1> QED
    BY <1>2, <1>3, <1>4, TypeParts

\* The ways a call ends, and the ways it goes on.
LEMMA WorkerMoves ==
    ASSUME WorkerType, queue \in SUBSET CR
    PROVE  /\ Done => WorkerType' /\ queue' \in SUBSET CR
           /\ ~At("idle") /\ Fail => WorkerType' /\ queue' \in SUBSET CR
           /\ ~At("idle") /\ Goto("removeFinalizer") => WorkerType' /\ queue' \in SUBSET CR
           /\ \A pc \in {"createIP", "updateMetadata"} :
                w.pc \in HasIface /\ Goto(pc) => WorkerType' /\ queue' \in SUBSET CR
  <1> USE DEF WorkerType, HasDevice, HasIface, HasRecord
  <1>1. w' = IdleWorker => WorkerType'
    BY IdleType
  <1>2. ~At("idle") /\ Fail => WorkerType' /\ queue' \in SUBSET CR
    BY <1>1 DEF Fail, At
  <1>3. ~At("idle") /\ Goto("removeFinalizer") => WorkerType' /\ queue' \in SUBSET CR
    BY DEF Goto, At, Workers, PC, DeletePath
  <1>4. ASSUME NEW pc \in {"createIP", "updateMetadata"}, w.pc \in HasIface, Goto(pc)
        PROVE  WorkerType' /\ queue' \in SUBSET CR
    BY <1>4 DEF Goto, Workers, PC, NormalPath
  <1> QED
    BY <1>1, <1>2, <1>3, <1>4 DEF Done

\* NetBox keeps its types when a record comes or goes.
LEMMA RecordType ==
    ASSUME NetBoxType
    PROVE  /\ \A id \in DOMAIN nb : DropRecord(id) => NetBoxType'
           /\ \A a \in Addr, i \in Iface :
                NewRecord(a, i) /\ primary' = primary
                  /\ mine' \in {mine, mine \cup {nextId}} => NetBoxType'
  <1>1. ASSUME NEW id \in DOMAIN nb, DropRecord(id) PROVE NetBoxType'
    BY <1>1 DEF DropRecord, NetBoxType
  <1>2. ASSUME NEW a \in Addr, NEW i \in Iface, NewRecord(a, i), primary' = primary,
               mine' \in {mine, mine \cup {nextId}}
        PROVE  NetBoxType'
    <2>1. [addr |-> a, iface |-> i] \in Record
      BY DEF Record
    <2>2. DOMAIN nb' = DOMAIN nb \cup {nextId} /\ nextId' = nextId + 1
      BY <1>2 DEF NewRecord
    <2>3. nb' \in [DOMAIN nb' -> Record]
      BY <1>2, <2>1, <2>2 DEF NewRecord, NetBoxType
    <2> QED
      BY <1>2, <2>2, <2>3 DEF NetBoxType
  <1> QED
    BY <1>1, <1>2

\* findTargetInterface returns one of the LAGs of the device: with one digit
\* there are finitely many numbers to climb.
LEMMA TargetInLags ==
    ASSUME NEW d \in Device, Lags(d) # {}
    PROVE  TargetIface(d) \in Lags(d)
  <1> DEFINE Reached(n) == \E i \in Lags(d) : LagNum[i] >= n
  <1>1. \A i \in Lags(d) : LagNum[i] \in 0..9
    BY LagNumAssumption DEF Lags, NoLag
  <1>2. \E i \in Lags(d) : \A j \in Lags(d) : LagNum[j] <= LagNum[i]
    <2> SUFFICES ASSUME \A i \in Lags(d) : \E j \in Lags(d) : ~(LagNum[j] <= LagNum[i])
                 PROVE  FALSE
      OBVIOUS
    <2>1. \A n \in 0..9 : Reached(n) => Reached(n + 1)
      <3> SUFFICES ASSUME NEW n \in 0..9, NEW i \in Lags(d), LagNum[i] >= n
                   PROVE  Reached(n + 1)
        OBVIOUS
      <3>1. PICK j \in Lags(d) : ~(LagNum[j] <= LagNum[i])
        OBVIOUS
      <3>2. LagNum[j] >= n + 1
        BY <1>1, <3>1
      <3> QED
        BY <3>2
    <2>2. Reached(0)
      BY <1>1
    <2> HIDE DEF Reached
    <2>3. Reached(5)
      BY <2>1, <2>2
    <2>4. Reached(10)
      BY <2>1, <2>3
    <2> QED
      BY <1>1, <2>4 DEF Reached
  <1> QED
    BY <1>2 DEF TargetIface

(***************************************************************************)
(* The steps of the worker.                                                *)
(***************************************************************************)
LEMMA TypeStart ==
    ASSUME TypeOK, NEW c \in CR, Start(c)
    PROVE  TypeOK'
  <1> USE TypeParts
  <1>1. WorkerType'
    <2>1. CASE cache[c].phase = "gone"
      BY <2>1, IdleType DEF Start, WorkerType, HasDevice, HasIface, HasRecord
    <2>2. CASE cache[c].phase # "gone"
      <3>1. PICK p \in {"reconcileDelete", "addFinalizer", "findDeviceName"} :
               w' = [IdleWorker EXCEPT !.cr = c, !.snap = cache[c], !.pc = p]
        BY <2>2 DEF Start
      <3>2. cache[c] \in Version
        BY DEF K8sType
      <3> QED
        BY <3>1, <3>2, IdleType
        DEF WorkerType, Workers, HasDevice, HasIface, HasRecord, PC, DeletePath, NormalPath
    <2> QED
      BY <2>1, <2>2
  <1>2. K8sType' /\ NetBoxType' /\ EnvType'
    BY DEF Start, K8sType, NetBoxType, EnvType, k8s, netbox, env
  <1> QED
    BY <1>1, <1>2

LEMMA PatchType ==
    ASSUME K8sType, WorkerType, ~At("idle"), NEW edited \in Version, PatchAnnotations(edited),
           cache' = cache
    PROVE  K8sType' /\ WorkerType'
  <1>1. w.cr \in CR /\ w.snap \in Version /\ obj[w.cr] \in Version
    BY DEF At, K8sType, WorkerType, Workers
  <1>2. WorkerType' /\ queue' \in SUBSET CR
    BY WorkerMoves DEF PatchAnnotations, K8sType
  <1>3. MergePatch(obj[w.cr], w.snap, edited) \in Version
    BY <1>1, VersionOps
  <1>4. obj' \in [CR -> Version] /\ stream' \in Seq(Event)
    BY <1>1, <1>3, StoreType DEF PatchAnnotations, K8sType, k8s
  <1> QED
    BY <1>2, <1>4 DEF K8sType

LEMMA TypeStep ==
    ASSUME TypeOK, Step
    PROVE  TypeOK'
  <1> USE TypeParts
  <1>0. /\ ~At("idle") /\ w.cr \in CR /\ w.snap \in Version
        /\ obj[w.cr] \in Version /\ AddrOf[w.cr] \in Addr
    BY AddrOfAssumption DEF Step, At, WorkerType, Workers, K8sType,
       AddFinalizer, ReconcileDelete, DeleteIP, RemoveFinalizer, FindDeviceName,
       GetDevice, GetInterfaces, LookupIP, CreateIP, PrimaryIP, UpdateMetadata, SetConflict
  <1>1. CASE AddFinalizer
    <2>1. K8sType'
      BY <1>0, <1>1, StoreType, VersionOps, WorkerMoves DEF AddFinalizer, K8sType, k8s
    <2>2. WorkerType'
      BY <1>0, <1>1, WorkerMoves DEF AddFinalizer, K8sType
    <2>3. NetBoxType' /\ EnvType'
      BY <1>1 DEF AddFinalizer, NetBoxType, EnvType, netbox, env
    <2> QED
      BY <2>1, <2>2, <2>3
  <1>2. CASE ReconcileDelete
    <2>1. WorkerType' /\ queue' \in SUBSET CR
      <3>1. CASE Goto("removeFinalizer") \/ Fail
        BY <1>0, <3>1, WorkerMoves DEF K8sType
      <3>2. CASE \E id \in DOMAIN nb :
                   w' = [w EXCEPT !.pc = "deleteIP", !.ip = id] /\ UNCHANGED queue
        BY <1>0, <3>2 DEF K8sType, WorkerType, Workers, NetBoxType, PC, DeletePath,
           HasDevice, HasIface, HasRecord
      <3> QED
        BY <1>2, <3>1, <3>2 DEF ReconcileDelete, Hits
    <2>2. K8sType' /\ NetBoxType' /\ EnvType'
      BY <1>2, <2>1 DEF ReconcileDelete, K8sType, NetBoxType, EnvType, k8s, netbox, env
    <2> QED
      BY <2>1, <2>2
  <1>3. CASE DeleteIP
    <2>1. WorkerType' /\ queue' \in SUBSET CR
      BY <1>0, <1>3, WorkerMoves DEF DeleteIP, K8sType
    <2>2. NetBoxType'
      <3>1. CASE w.ip \in DOMAIN nb
        BY <1>3, <3>1, RecordType DEF DeleteIP
      <3>2. CASE w.ip \notin DOMAIN nb
        BY <1>3, <3>2 DEF DeleteIP, NetBoxType, netbox
      <3> QED
        BY <3>1, <3>2
    <2>3. K8sType' /\ EnvType'
      BY <1>3, <2>1 DEF DeleteIP, K8sType, EnvType, k8s, env
    <2> QED
      BY <2>1, <2>2, <2>3
  <1>4. CASE RemoveFinalizer
    <2>1. WorkerType' /\ queue' \in SUBSET CR
      BY <1>0, <1>4, WorkerMoves DEF RemoveFinalizer, K8sType
    <2>2. K8sType'
      <3>1. CASE UNCHANGED k8s
        BY <1>4, <2>1, <3>1 DEF RemoveFinalizer, K8sType, k8s
      <3>2. CASE \E v \in WithoutFinalizer(obj[w.cr]) : Store(w.cr, v)
        <4>1. PICK v \in WithoutFinalizer(obj[w.cr]) : Store(w.cr, v)
          BY <3>2
        <4>2. v \in Version
          BY <1>0, VersionOps
        <4> QED
          BY <1>0, <1>4, <2>1, <4>1, <4>2, StoreType DEF RemoveFinalizer, K8sType
      <3> QED
        BY <1>4, <3>1, <3>2 DEF RemoveFinalizer
    <2>3. NetBoxType' /\ EnvType'
      BY <1>4 DEF RemoveFinalizer, NetBoxType, EnvType, netbox, env
    <2> QED
      BY <2>1, <2>2, <2>3
  <1>5. CASE FindDeviceName
    <2>1. WorkerType' /\ queue' \in SUBSET CR
      <3>1. CASE bound[w.cr] = None
        BY <1>0, <1>5, <3>1, WorkerMoves DEF FindDeviceName, K8sType
      <3>2. CASE bound[w.cr] # None
        BY <1>0, <1>5, <3>2 DEF FindDeviceName, K8sType, WorkerType, Workers, EnvType,
           PC, NormalPath, HasDevice, HasIface, HasRecord
      <3> QED
        BY <3>1, <3>2
    <2>2. K8sType' /\ NetBoxType' /\ EnvType'
      BY <1>5, <2>1 DEF FindDeviceName, K8sType, NetBoxType, EnvType, k8s, netbox, env
    <2> QED
      BY <2>1, <2>2
  <1>6. CASE GetDevice
    <2>1. primary[w.device] \in Nat \cup {None}
      BY <1>6 DEF GetDevice, At, WorkerType, HasDevice, NetBoxType
    <2>2. WorkerType'
      BY <1>0, <1>6, <2>1 DEF GetDevice, WorkerType, Workers, At,
         PC, NormalPath, HasDevice, HasIface, HasRecord
    <2>3. K8sType' /\ NetBoxType' /\ EnvType'
      BY <1>6 DEF GetDevice, K8sType, NetBoxType, EnvType, k8s, netbox, env
    <2> QED
      BY <2>2, <2>3
  <1>7. CASE GetInterfaces
    <2>1. WorkerType' /\ queue' \in SUBSET CR
      <3>1. CASE Lags(w.device) = {}
        BY <1>0, <1>7, <3>1, WorkerMoves DEF GetInterfaces, K8sType
      <3>2. CASE Lags(w.device) # {}
        <4>1. w.device \in Device
          BY <1>7 DEF GetInterfaces, At, WorkerType, HasDevice
        <4>2. TargetIface(w.device) \in Iface
          BY <3>2, <4>1, TargetInLags DEF Lags
        <4> QED
          BY <1>0, <1>7, <3>2, <4>2 DEF GetInterfaces, K8sType, WorkerType, Workers, At,
             PC, NormalPath, HasDevice, HasIface, HasRecord
      <3> QED
        BY <3>1, <3>2
    <2>2. K8sType' /\ NetBoxType' /\ EnvType'
      BY <1>7, <2>1 DEF GetInterfaces, K8sType, NetBoxType, EnvType, k8s, netbox, env
    <2> QED
      BY <2>1, <2>2
  <1>8. CASE LookupIP
    <2>0. w.pc \in HasIface
      BY <1>8 DEF LookupIP, At, HasIface
    <2>1. WorkerType' /\ queue' \in SUBSET CR
      <3>1. CASE Goto("createIP") \/ Fail
        BY <1>0, <2>0, <3>1, WorkerMoves DEF K8sType
      <3>2. CASE /\ UNCHANGED queue
                 /\ \/ w' = [w EXCEPT !.pc = "setConflict", !.why = "interface"]
                    \/ w' = [w EXCEPT !.pc = "setConflict", !.why = "device"]
                    \/ \E id \in DOMAIN nb : w' = [w EXCEPT !.pc = "primaryIP", !.ip = id]
        BY <1>0, <2>0, <3>2 DEF K8sType, WorkerType, Workers, NetBoxType, Conflict,
           PC, NormalPath, HasDevice, HasIface, HasRecord
      <3> QED
        BY <1>8, <3>1, <3>2 DEF LookupIP, Hits
    <2>2. K8sType' /\ NetBoxType' /\ EnvType'
      BY <1>8, <2>1 DEF LookupIP, K8sType, NetBoxType, EnvType, k8s, netbox, env
    <2> QED
      BY <2>1, <2>2
  <1>9. CASE CreateIP
    <2>1. w.iface \in Iface
      BY <1>9 DEF CreateIP, At, WorkerType, HasIface
    <2>2. NetBoxType'
      BY <1>0, <1>9, <2>1, RecordType DEF CreateIP
    <2>3. WorkerType'
      BY <1>0, <1>9 DEF CreateIP, At, WorkerType, Workers, NetBoxType,
         PC, NormalPath, HasDevice, HasIface, HasRecord
    <2>4. K8sType' /\ EnvType'
      BY <1>9 DEF CreateIP, K8sType, EnvType, k8s, env
    <2> QED
      BY <2>2, <2>3, <2>4
  <1>10. CASE PrimaryIP
    <2>0. w.pc \in HasIface
      BY <1>10 DEF PrimaryIP, At, HasIface
    <2>1. WorkerType' /\ queue' \in SUBSET CR
      BY <1>0, <1>10, <2>0, WorkerMoves DEF PrimaryIP, K8sType
    <2>2. NetBoxType'
      <3>1. CASE UNCHANGED netbox
        BY <3>1 DEF NetBoxType, netbox
      <3>2. CASE /\ primary' = [primary EXCEPT ![w.device] = w.ip]
                 /\ UNCHANGED <<nb, nextId, mine>>
        BY <1>10, <3>2 DEF PrimaryIP, At, WorkerType, HasRecord, NetBoxType
      <3> QED
        BY <1>10, <3>1, <3>2 DEF PrimaryIP
    <2>3. K8sType' /\ EnvType'
      BY <1>10, <2>1 DEF PrimaryIP, K8sType, EnvType, k8s, env
    <2> QED
      BY <2>1, <2>2, <2>3
  <1>11. CASE UpdateMetadata
    <2>1. [w.snap EXCEPT !.device = w.device, !.iface = w.iface, !.conflicted = "none"]
             \in Version
      BY <1>0, <1>11 DEF UpdateMetadata, At, WorkerType, HasDevice, HasIface, Version, Conflict
    <2>2. K8sType' /\ WorkerType'
      BY <1>0, <1>11, <2>1, PatchType DEF UpdateMetadata, K8sType
    <2>3. NetBoxType' /\ EnvType'
      BY <1>11 DEF UpdateMetadata, NetBoxType, EnvType, netbox, env
    <2> QED
      BY <2>2, <2>3
  <1>12. CASE SetConflict
    <2>1. [w.snap EXCEPT !.conflicted = w.why] \in Version
      BY <1>0, <1>12 DEF WorkerType, Workers, Version
    <2>2. K8sType' /\ WorkerType'
      BY <1>0, <1>12, <2>1, PatchType DEF SetConflict, K8sType
    <2>3. NetBoxType' /\ EnvType'
      BY <1>12 DEF SetConflict, NetBoxType, EnvType, netbox, env
    <2> QED
      BY <2>2, <2>3
  <1> QED
    BY <1>1, <1>2, <1>3, <1>4, <1>5, <1>6, <1>7, <1>8, <1>9, <1>10, <1>11, <1>12 DEF Step

(***************************************************************************)
(* The other steps.                                                        *)
(***************************************************************************)
LEMMA TypeDeliver ==
    ASSUME TypeOK, Deliver
    PROVE  TypeOK'
  <1> USE TypeParts
  <1>1. Head(stream) \in Event /\ Tail(stream) \in Seq(Event)
    BY HeadTailProperties DEF Deliver, K8sType
  <1>2. K8sType'
    BY <1>1 DEF Deliver, K8sType, Event
  <1>3. WorkerType' /\ NetBoxType' /\ EnvType'
    BY DEF Deliver, WorkerType, NetBoxType, EnvType, netbox, env
  <1> QED
    BY <1>2, <1>3

LEMMA TypeFaults ==
    ASSUME TypeOK, CallFails \/ Crash
    PROVE  TypeOK'
  <1> USE TypeParts
  <1>1. WorkerType' /\ queue' \in SUBSET CR
    <2>1. CASE CallFails
      BY <2>1, WorkerMoves DEF CallFails, K8sType
    <2>2. CASE Crash
      BY <2>2, IdleType DEF Crash, WorkerType, HasDevice, HasIface, HasRecord
    <2> QED
      BY <2>1, <2>2
  <1>2. K8sType'
    BY <1>1, EmptySeq DEF CallFails, Crash, K8sType, k8s
  <1>3. NetBoxType' /\ EnvType'
    BY BoundAssumption DEF CallFails, Crash, NetBoxType, EnvType, netbox, env
  <1> QED
    BY <1>1, <1>2, <1>3

\* What users do to an object.
LEMMA TypeObjects ==
    ASSUME TypeOK, NEW c \in CR,
           CreateCR(c) \/ BindServer(c) \/ DeleteCR(c) \/ OtherRelease(c)
    PROVE  TypeOK'
  <1> USE TypeParts
  <1>1. obj[c] \in Version
    BY DEF K8sType
  <1>2. PICK v \in Version : Store(c, v) \/ UNCHANGED k8s
    <2>1. CASE CreateCR(c)
      <3>1. [NoVersion EXCEPT !.gen = obj[c].gen + 1, !.phase = "bare"] \in Version
        <4>1. obj[c].gen + 1 \in Nat
          BY <1>1 DEF Version
        <4> QED
          BY <4>1 DEF NoVersion, Version, Phase, Conflict
      <3> QED
        BY <2>1, <3>1 DEF CreateCR
    <2>2. CASE BindServer(c)
      BY <1>1, <2>2 DEF BindServer
    <2>3. CASE DeleteCR(c)
      BY <1>1, <2>3, VersionOps DEF DeleteCR, Phase
    <2>4. CASE OtherRelease(c)
      BY <1>1, <2>4, VersionOps DEF OtherRelease
    <2> QED
      BY <2>1, <2>2, <2>3, <2>4
  <1>3. K8sType'
    <2>1. UNCHANGED <<cache, queue>>
      BY DEF CreateCR, BindServer, DeleteCR, OtherRelease
    <2> QED
      BY <1>2, <2>1, StoreType DEF K8sType, k8s
  <1>4. WorkerType' /\ NetBoxType'
    BY DEF CreateCR, BindServer, DeleteCR, OtherRelease, WorkerType, NetBoxType, netbox
  <1>5. EnvType'
    BY DEF CreateCR, BindServer, DeleteCR, OtherRelease, EnvType, env
  <1> QED
    BY <1>3, <1>4, <1>5

\* What operators do to NetBox.
LEMMA TypeEdits ==
    ASSUME TypeOK,
           \/ \E a \in Addr, i \in Iface : EditCreate(a, i)
           \/ \E id \in DOMAIN nb : EditDelete(id) \/ \E i \in Iface : EditAssign(id, i)
           \/ \E i \in Iface, d \in Device : EditMove(i, d)
    PROVE  TypeOK'
  <1> USE TypeParts
  <1>1. K8sType' /\ WorkerType'
    BY DEF EditCreate, EditDelete, EditAssign, EditMove, K8sType, WorkerType, k8s
  <1>2. EnvType'
    BY BoundAssumption DEF EditCreate, EditDelete, EditAssign, EditMove, Edit, EnvType
  <1>3. NetBoxType'
    <2>1. CASE \E a \in Addr, i \in Iface : EditCreate(a, i)
      BY <2>1, RecordType DEF EditCreate
    <2>2. CASE \E id \in DOMAIN nb : EditDelete(id)
      BY <2>2, RecordType DEF EditDelete
    <2>3. CASE \E id \in DOMAIN nb, i \in Iface : EditAssign(id, i)
      BY <2>3 DEF EditAssign, NetBoxType, Record
    <2>4. CASE \E i \in Iface, d \in Device : EditMove(i, d)
      BY <2>4 DEF EditMove, NetBoxType, netbox
    <2> QED
      BY <2>1, <2>2, <2>3, <2>4
  <1> QED
    BY <1>1, <1>2, <1>3

LEMMA TypeNext ==
    ASSUME TypeOK, [Next]_vars
    PROVE  TypeOK'
  <1>1. CASE \E c \in CR : Start(c)
    BY <1>1, TypeStart
  <1>2. CASE Step
    BY <1>2, TypeStep
  <1>3. CASE Deliver
    BY <1>3, TypeDeliver
  <1>4. CASE Resync
    BY <1>4, TypeParts DEF Resync, K8sType, WorkerType, NetBoxType, EnvType, k8s, netbox, env
  <1>5. CASE CallFails \/ Crash
    BY <1>5, TypeFaults
  <1>6. CASE Environment
    BY <1>6, TypeObjects, TypeEdits DEF Environment
  <1>7. CASE UNCHANGED vars
    BY <1>7, TypeParts DEF vars, K8sType, WorkerType, NetBoxType, EnvType
  <1> QED
    BY <1>1, <1>2, <1>3, <1>4, <1>5, <1>6, <1>7 DEF Next

\* The variables keep their types: in particular the worker has a device, an
\* interface and a record whenever the next call needs one.
THEOREM TypeCorrect == Spec => []TypeOK
  <1> QED
    BY TypeInit, TypeNext, PTL DEF Spec

(***************************************************************************)
(* The finalizer.                                                          *)
(***************************************************************************)
LEMMA RankType ==
    ASSUME NEW v \in Version
    PROVE  /\ Rank(v) \in Nat /\ v.gen \in Nat
           /\ v.phase = "bare" => Rank(v) = 5 * v.gen
           /\ v.phase = "guarded" => Rank(v) = 5 * v.gen + 1
           /\ v.phase = "deleting" => Rank(v) = 5 * v.gen + 2
           /\ v.phase = "released" => Rank(v) = 5 * v.gen + 3
           /\ v.phase = "gone" => Rank(v) = 5 * v.gen + 4
           /\ v.phase \in Phase
  BY DEF Rank, PhaseRank, Version, Phase

LEMMA SeenType ==
    ASSUME K8sType, NEW c \in CR
    PROVE  Seen(c) \in SUBSET Version /\ cache[c] \in Seen(c) /\ obj[c] \in Version
  <1>1. \A i \in DOMAIN stream : stream[i].ver \in Version
    <2>1. \A i \in DOMAIN stream : stream[i] \in Event
      BY DEF K8sType
    <2> QED
      BY <2>1 DEF Event
  <1> QED
    BY <1>1 DEF Seen, K8sType

\* A stored version is the only new one, and only for its own name.
LEMMA SeenStore ==
    ASSUME K8sType, NEW c \in CR, NEW v \in Version, Store(c, v), cache' = cache,
           NEW x \in CR
    PROVE  Seen(x)' \in SUBSET (Seen(x) \cup (IF x = c THEN {v} ELSE {}))
  <1>1. CASE v = obj[c]
    BY <1>1 DEF Store, Seen
  <1>2. CASE v # obj[c]
    <2>1. stream' = Append(stream, [cr |-> c, ver |-> v])
      BY <1>2 DEF Store
    <2>2. /\ DOMAIN stream' = 1..(Len(stream) + 1)
          /\ DOMAIN stream = 1..Len(stream) /\ Len(stream) \in Nat
          /\ \A i \in 1..Len(stream) : stream'[i] = stream[i]
          /\ stream'[Len(stream) + 1] = [cr |-> c, ver |-> v]
      BY <2>1 DEF K8sType
    <2>3. \A i \in DOMAIN stream' : i \in DOMAIN stream \/ i = Len(stream) + 1
      BY <2>2
    <2> QED
      BY <2>2, <2>3 DEF Seen
  <1> QED
    BY <1>1, <1>2

\* What a name has left to see shrinks when the watch delivers.
LEMMA SeenDeliver ==
    ASSUME K8sType, Deliver, NEW x \in CR
    PROVE  Seen(x)' \in SUBSET Seen(x)
  <1>1. /\ DOMAIN stream = 1..Len(stream) /\ Len(stream) \in Nat \ {0}
        /\ Head(stream) = stream[1]
        /\ DOMAIN stream' = 1..(Len(stream) - 1)
        /\ \A i \in DOMAIN stream' : stream'[i] = stream[i + 1] /\ i + 1 \in DOMAIN stream
    BY DEF Deliver, K8sType
  <1>2. cache'[x] \in Seen(x)
    BY <1>1 DEF Deliver, Seen, K8sType
  <1>3. \A i \in DOMAIN stream' : stream'[i].cr = x => stream'[i].ver \in Seen(x)
    BY <1>1 DEF Seen
  <1> QED
    BY <1>2, <1>3 DEF Seen

LEMMA FinalizerInit == Init => FinalizerInv
  <1> SUFFICES ASSUME Init PROVE FinalizerInv
    OBVIOUS
  <1>1. DOMAIN stream = {}
    BY DEF Init
  <1>2. NoVersion \in Version /\ NoVersion.phase = "gone"
    BY DEF NoVersion, Version, Phase, Conflict
  <1>3. \A c \in CR : Seen(c) = {NoVersion} /\ obj[c] = NoVersion /\ cache[c] = NoVersion
    BY <1>1 DEF Init, Seen
  <1>4. \A c \in CR : VersionInv(c)
    BY <1>2, <1>3, RankType DEF VersionInv
  <1> QED
    BY <1>1, <1>4, IdleType DEF Init, FinalizerInv, StreamSorted, WorkerInv, At

\* A stored version that does not fall behind keeps the stream sorted.
LEMMA StoreSorted ==
    ASSUME K8sType, StreamSorted, NEW c \in CR, VersionInv(c), NEW v \in Version, Store(c, v),
           Rank(obj[c]) <= Rank(v)
    PROVE  StreamSorted'
  <1>1. CASE v = obj[c]
    BY <1>1 DEF Store, StreamSorted
  <1>2. CASE v # obj[c]
    <2>1. stream' = Append(stream, [cr |-> c, ver |-> v])
      BY <1>2 DEF Store
    <2>2. /\ DOMAIN stream' = 1..(Len(stream) + 1)
          /\ DOMAIN stream = 1..Len(stream) /\ Len(stream) \in Nat
          /\ \A i \in 1..Len(stream) : stream'[i] = stream[i]
          /\ stream'[Len(stream) + 1] = [cr |-> c, ver |-> v]
      BY <2>1 DEF K8sType
    <2>3. \A i \in DOMAIN stream : stream[i].cr = c => Rank(stream[i].ver) <= Rank(v)
      <3> SUFFICES ASSUME NEW i \in DOMAIN stream, stream[i].cr = c
                   PROVE  Rank(stream[i].ver) <= Rank(v)
        OBVIOUS
      <3>1. stream[i].ver \in Seen(c)
        BY DEF Seen
      <3>2. Rank(stream[i].ver) \in Nat /\ Rank(obj[c]) \in Nat /\ Rank(v) \in Nat
        BY <3>1, SeenType, RankType
      <3> QED
        BY <3>1, <3>2 DEF VersionInv
    <2> SUFFICES ASSUME NEW i \in DOMAIN stream', NEW j \in DOMAIN stream', i < j,
                        stream'[i].cr = stream'[j].cr
                 PROVE  Rank(stream'[i].ver) <= Rank(stream'[j].ver)
      BY DEF StreamSorted, Rank, PhaseRank
    <2>4. CASE j = Len(stream) + 1
      BY <2>2, <2>3, <2>4
    <2>5. CASE j # Len(stream) + 1
      BY <2>2, <2>5 DEF StreamSorted
    <2> QED
      BY <2>4, <2>5
  <1> QED
    BY <1>1, <1>2

\* What a write must respect for the versions of its name.
LEMMA VersionStore ==
    ASSUME K8sType, NEW c \in CR, VersionInv(c), NEW v \in Version, Store(c, v), cache' = cache,
           Rank(obj[c]) <= Rank(v),
           \A u \in Seen(c) : u.phase = "guarded" => v.gen = u.gen /\ HasFinalizer(v),
           \A u \in Seen(c) : u.phase = "deleting" =>
               /\ HasFinalizer(v) => v.gen = u.gen
               /\ Rank(v) > Rank(u) => Rank(cache[c]) >= Rank(u)
    PROVE  VersionInv(c)'
  <1>1. obj'[c] = v /\ cache'[c] = cache[c]
    BY DEF Store, K8sType
  <1>2. Seen(c)' \in SUBSET (Seen(c) \cup {v})
    BY SeenStore
  <1>3. Rank(v) \in Nat /\ Rank(obj[c]) \in Nat /\ Rank(cache[c]) \in Nat
    BY SeenType, RankType
  <1>4. ASSUME NEW u \in Seen(c) \cup {v}
        PROVE  /\ Rank(cache[c]) <= Rank(u) /\ Rank(u) <= Rank(v)
               /\ u.phase = "guarded" => v.gen = u.gen /\ HasFinalizer(v)
               /\ u.phase = "deleting" =>
                    /\ HasFinalizer(v) => v.gen = u.gen
                    /\ Rank(v) > Rank(u) => Rank(cache[c]) >= Rank(u)
    <2>1. CASE u \in Seen(c)
      <3>1. Rank(u) \in Nat
        BY <2>1, SeenType, RankType
      <3> QED
        BY <1>3, <2>1, <3>1 DEF VersionInv
    <2>2. CASE u = v
      <3>1. Rank(cache[c]) <= Rank(obj[c])
        BY SeenType DEF VersionInv
      <3> QED
        BY <1>3, <2>2, <3>1 DEF HasFinalizer
    <2> QED
      BY <2>1, <2>2
  <1>5. VersionInv(c)' <=>
          \A u \in Seen(c)' :
            /\ Rank(cache'[c]) <= Rank(u) /\ Rank(u) <= Rank(obj'[c])
            /\ u.phase = "guarded" => obj'[c].gen = u.gen /\ HasFinalizer(obj'[c])
            /\ u.phase = "deleting" =>
                 /\ HasFinalizer(obj'[c]) => obj'[c].gen = u.gen
                 /\ Rank(obj'[c]) > Rank(u) => Rank(cache'[c]) >= Rank(u)
    BY DEF VersionInv, Rank, PhaseRank, HasFinalizer
  <1> QED
    BY <1>1, <1>2, <1>4, <1>5

\* The other names do not notice.
LEMMA VersionOther ==
    ASSUME K8sType, NEW x \in CR, VersionInv(x), Seen(x)' \in SUBSET Seen(x),
           obj'[x] = obj[x], cache'[x] \in Seen(x),
           \A u \in Seen(x)' : Rank(cache'[x]) <= Rank(u)
    PROVE  VersionInv(x)'
  <1>1. Seen(x) \in SUBSET Version /\ cache[x] \in Version
    BY SeenType
  <1>2. Rank(cache[x]) <= Rank(cache'[x])
    BY DEF VersionInv
  <1>3. \A u \in Seen(x) : Rank(u) \in Nat
    BY <1>1, RankType
  <1>4. Rank(cache[x]) \in Nat /\ Rank(cache'[x]) \in Nat
    BY <1>1, <1>3, RankType
  <1>5. VersionInv(x)' <=>
          \A u \in Seen(x)' :
            /\ Rank(cache'[x]) <= Rank(u) /\ Rank(u) <= Rank(obj'[x])
            /\ u.phase = "guarded" => obj'[x].gen = u.gen /\ HasFinalizer(obj'[x])
            /\ u.phase = "deleting" =>
                 /\ HasFinalizer(obj'[x]) => obj'[x].gen = u.gen
                 /\ Rank(obj'[x]) > Rank(u) => Rank(cache'[x]) >= Rank(u)
    BY DEF VersionInv, Rank, PhaseRank, HasFinalizer
  <1>6. ASSUME NEW u \in Seen(x)'
        PROVE  /\ Rank(u) <= Rank(obj[x])
               /\ u.phase = "guarded" => obj[x].gen = u.gen /\ HasFinalizer(obj[x])
               /\ u.phase = "deleting" =>
                    /\ HasFinalizer(obj[x]) => obj[x].gen = u.gen
                    /\ Rank(obj[x]) > Rank(u) => Rank(cache'[x]) >= Rank(u)
    <2>1. u \in Seen(x)
      OBVIOUS
    <2>2. Rank(cache[x]) <= Rank(cache'[x]) /\ Rank(u) \in Nat
      BY <1>2, <1>3, <2>1
    <2> QED
      BY <1>4, <2>1, <2>2 DEF VersionInv
  <1> QED
    BY <1>5, <1>6

\* A write that keeps the cache: sorted stream and every name.
LEMMA StoreKeeps ==
    ASSUME K8sType, FinalizerInv, NEW c \in CR, NEW v \in Version, Store(c, v), cache' = cache,
           Rank(obj[c]) <= Rank(v),
           \A u \in Seen(c) : u.phase = "guarded" => v.gen = u.gen /\ HasFinalizer(v),
           \A u \in Seen(c) : u.phase = "deleting" =>
               /\ HasFinalizer(v) => v.gen = u.gen
               /\ Rank(v) > Rank(u) => Rank(cache[c]) >= Rank(u)
    PROVE  StreamSorted' /\ \A x \in CR : VersionInv(x)'
  <1>1. StreamSorted'
    BY StoreSorted DEF FinalizerInv
  <1>2. VersionInv(c)'
    BY VersionStore DEF FinalizerInv
  <1>3. ASSUME NEW x \in CR, x # c PROVE VersionInv(x)'
    <2>1. Seen(x)' \in SUBSET Seen(x)
      BY <1>3, SeenStore
    <2>2. obj'[x] = obj[x] /\ cache'[x] = cache[x]
      BY <1>3 DEF Store, K8sType
    <2>3. VersionInv(x)
      BY DEF FinalizerInv
    <2>4. cache'[x] \in Seen(x) /\ \A u \in Seen(x)' : Rank(cache'[x]) <= Rank(u)
      BY <2>1, <2>2, <2>3, SeenType DEF VersionInv
    <2> QED
      BY <2>1, <2>2, <2>3, <2>4, VersionOther
  <1> QED
    BY <1>1, <1>2, <1>3

\* A call to NetBox leaves the versions alone and stays on its path.
SamePath == /\ w'.cr = w.cr /\ w'.snap = w.snap
            /\ \/ w.pc \in NormalPath /\ w'.pc \in NormalPath
               \/ w.pc \in DeletePath /\ w'.pc \in DeletePath
               \/ w'.pc = w.pc

LEMMA FinalizerFrame ==
    ASSUME FinalizerInv, UNCHANGED <<obj, cache, stream>>,
           w'.pc = "idle" \/ SamePath
    PROVE  FinalizerInv'
  <1>1. \A c \in CR : Seen(c)' = Seen(c)
    BY DEF Seen
  <1>2. StreamSorted' /\ \A c \in CR : VersionInv(c)'
    BY <1>1 DEF FinalizerInv, StreamSorted, VersionInv
  <1>3. WorkerInv'
    <2>1. CASE w'.pc = "idle"
      BY <2>1 DEF WorkerInv, At
    <2>2. CASE SamePath /\ w'.pc # "idle"
      <3>1. ~At("idle")
        BY <2>2 DEF SamePath, At, NormalPath, DeletePath
      <3>2. Seen(w.cr)' = Seen(w.cr)
        BY <2>2 DEF Seen, SamePath
      <3> QED
        BY <2>2, <3>1, <3>2 DEF FinalizerInv, WorkerInv, SamePath, At, NormalPath, DeletePath
    <2> QED
      BY <2>1, <2>2
  <1> QED
    BY <1>2, <1>3 DEF FinalizerInv

LEMMA FinalizerStart ==
    ASSUME TypeOK, FinalizerInv, NEW c \in CR, Start(c)
    PROVE  FinalizerInv'
  <1> USE TypeParts
  <1>0. UNCHANGED <<obj, cache, stream>>
    BY DEF Start, k8s
  <1>1. CASE cache[c].phase = "gone"
    BY <1>0, <1>1, IdleType, FinalizerFrame DEF Start
  <1>2. CASE cache[c].phase # "gone"
    <2>1. \A x \in CR : Seen(x)' = Seen(x)
      BY <1>0 DEF Seen
    <2>2. StreamSorted' /\ \A x \in CR : VersionInv(x)'
      BY <1>0, <2>1 DEF FinalizerInv, StreamSorted, VersionInv
    <2>3. /\ w'.cr = c /\ w'.snap = cache[c]
          /\ w'.pc = IF BeingDeleted(cache[c]) THEN "reconcileDelete"
                     ELSE IF ~HasFinalizer(cache[c]) THEN "addFinalizer"
                     ELSE "findDeviceName"
      BY <1>2 DEF Start, IdleWorker
    <2>4. /\ cache[c] \in Version /\ cache[c] \in Seen(c) /\ obj[c] \in Version
          /\ Seen(c) \in SUBSET Version /\ VersionInv(c)
      BY SeenType DEF FinalizerInv
    <2>5. Rank(cache[c]) <= Rank(cache[c])
      BY <2>4, RankType
    <2>6. w'.pc \in NormalPath => obj[c].gen = cache[c].gen /\ HasFinalizer(obj[c])
      <3>1. w'.pc \in NormalPath => cache[c].phase = "guarded"
        BY <2>3 DEF NormalPath, BeingDeleted, HasFinalizer
      <3> QED
        BY <2>4, <3>1 DEF VersionInv
    <2>7. w'.pc \in DeletePath =>
            /\ BeingDeleted(cache[c])
            /\ HasFinalizer(cache[c]) /\ HasFinalizer(obj[c]) => obj[c].gen = cache[c].gen
      <3>1. w'.pc \in DeletePath => BeingDeleted(cache[c])
        BY <2>3 DEF DeletePath
      <3>2. BeingDeleted(cache[c]) /\ HasFinalizer(cache[c]) => cache[c].phase = "deleting"
        BY DEF BeingDeleted, HasFinalizer
      <3> QED
        BY <2>4, <3>1, <3>2 DEF VersionInv
    <2>8. w'.pc = "addFinalizer" =>
            \A u \in Seen(c) : u.phase = "deleting" => Rank(obj[c]) <= Rank(u)
      <3> SUFFICES ASSUME w'.pc = "addFinalizer", NEW u \in Seen(c), u.phase = "deleting",
                          ~(Rank(obj[c]) <= Rank(u))
                   PROVE  FALSE
        OBVIOUS
      <3>1. cache[c].phase = "bare"
        BY <1>2, <2>3, <2>4, RankType DEF BeingDeleted, HasFinalizer, Phase
      <3>2. Rank(cache[c]) <= Rank(u) /\ (Rank(obj[c]) > Rank(u) => Rank(cache[c]) >= Rank(u))
        BY <2>4 DEF VersionInv
      <3>3. Rank(obj[c]) \in Nat /\ Rank(u) \in Nat /\ Rank(cache[c]) \in Nat
        BY <2>4, RankType
      <3>4. Rank(cache[c]) = Rank(u)
        BY <3>2, <3>3
      <3>5. /\ Rank(cache[c]) = 5 * cache[c].gen /\ Rank(u) = 5 * u.gen + 2
            /\ cache[c].gen \in Nat /\ u.gen \in Nat
        BY <2>4, <3>1, RankType
      <3>6. \A m, n \in Nat : 5 * m # 5 * n + 2
        OBVIOUS
      <3> QED
        BY <3>4, <3>5, <3>6
    <2>9. WorkerInv'
      <3>1. WorkerInv' <=>
              (w'.pc # "idle" =>
                /\ Rank(w'.snap) <= Rank(cache'[w'.cr])
                /\ w'.pc \in NormalPath =>
                     obj'[w'.cr].gen = w'.snap.gen /\ HasFinalizer(obj'[w'.cr])
                /\ w'.pc \in DeletePath =>
                     /\ BeingDeleted(w'.snap)
                     /\ HasFinalizer(w'.snap) /\ HasFinalizer(obj'[w'.cr]) =>
                            obj'[w'.cr].gen = w'.snap.gen
                /\ w'.pc = "addFinalizer" =>
                     \A v \in Seen(w.cr)' : v.phase = "deleting" => Rank(obj'[w'.cr]) <= Rank(v))
        BY DEF WorkerInv, At, Rank, PhaseRank, HasFinalizer, BeingDeleted
      <3>2. Seen(w.cr)' = Seen(c)
        BY <1>0, <2>3 DEF Seen
      <3> QED
        BY <1>0, <2>3, <2>5, <2>6, <2>7, <2>8, <3>1, <3>2
    <2> QED
      BY <2>2, <2>9 DEF FinalizerInv
  <1> QED
    BY <1>1, <1>2

\* The finalizer goes on an object that had none: no version in flight had one.
LEMMA FinalizerAdd ==
    ASSUME TypeOK, FinalizerInv, AddFinalizer
    PROVE  FinalizerInv'
  <1> USE TypeParts
  <1> DEFINE c == w.cr
  <1>1. CASE obj[c].phase \in {"gone", "released"}
    BY <1>1, IdleType, FinalizerFrame DEF AddFinalizer, Fail, k8s
  <1>2. CASE obj[c].phase \notin {"gone", "released"}
    <2> DEFINE v == WithFinalizer(obj[c])
    <2>1. At("addFinalizer") /\ Store(c, v) /\ w' = IdleWorker /\ cache' = cache
      BY <1>2 DEF AddFinalizer, Done
    <2>2. c \in CR /\ ~At("idle")
      BY <2>1 DEF At, WorkerType
    <2>3. /\ obj[c] \in Version /\ v \in Version /\ VersionInv(c)
          /\ Seen(c) \in SUBSET Version
      BY <2>2, SeenType, VersionOps DEF FinalizerInv
    <2>4. v.gen = obj[c].gen /\ (v # obj[c] => obj[c].phase = "bare" /\ v.phase = "guarded")
      BY <2>3 DEF WithFinalizer, Version
    <2>5. Rank(obj[c]) <= Rank(v)
      BY <2>3, <2>4, RankType
    <2>6. ASSUME NEW u \in Seen(c)
          PROVE  /\ u.phase = "guarded" => v.gen = u.gen /\ HasFinalizer(v)
                 /\ u.phase = "deleting" =>
                      /\ HasFinalizer(v) => v.gen = u.gen
                      /\ Rank(v) > Rank(u) => Rank(cache[c]) >= Rank(u)
      <3>1. CASE v = obj[c]
        BY <2>3, <3>1 DEF VersionInv
      <3>2. CASE v # obj[c]
        <4>1. obj[c].phase = "bare" /\ ~HasFinalizer(obj[c]) /\ HasFinalizer(v)
          BY <2>4, <3>2 DEF HasFinalizer
        <4>2. u.phase # "guarded"
          BY <2>3, <4>1 DEF VersionInv
        <4>3. u.phase = "deleting" => Rank(obj[c]) <= Rank(u) /\ Rank(u) <= Rank(obj[c])
          BY <2>1, <2>2, <2>3 DEF FinalizerInv, WorkerInv, VersionInv
        <4>4. u.phase # "deleting"
          <5>1. /\ Rank(obj[c]) = 5 * obj[c].gen /\ obj[c].gen \in Nat /\ u.gen \in Nat
                /\ Rank(u) \in Nat /\ (u.phase = "deleting" => Rank(u) = 5 * u.gen + 2)
            BY <2>3, <4>1, RankType
          <5> QED
            BY <4>3, <5>1
        <4> QED
          BY <4>2, <4>4
      <3> QED
        BY <3>1, <3>2
    <2> HIDE DEF v, c
    <2>7. StreamSorted' /\ \A x \in CR : VersionInv(x)'
      BY <2>1, <2>2, <2>3, <2>5, <2>6, StoreKeeps
    <2> QED
      BY <2>1, <2>7, IdleType DEF FinalizerInv, WorkerInv, At
  <1> QED
    BY <1>1, <1>2

\* The finalizer comes off: the worker has seen the deletion, so no version in
\* flight still shows the object as live.
LEMMA FinalizerRemove ==
    ASSUME TypeOK, FinalizerInv, RemoveFinalizer
    PROVE  FinalizerInv'
  <1> USE TypeParts
  <1> DEFINE c == w.cr
  <1>0. /\ At("removeFinalizer") /\ ~At("idle") /\ c \in CR
        /\ w.pc \in DeletePath /\ w.snap \in Version
    BY DEF RemoveFinalizer, At, WorkerType, Workers, DeletePath
  <1>1. CASE UNCHANGED k8s
    BY <1>1, IdleType, FinalizerFrame DEF RemoveFinalizer, Done, Fail, k8s
  <1>2. CASE ~UNCHANGED k8s
    <2>1. PICK v \in WithoutFinalizer(obj[c]) : Store(c, v)
      BY <1>2 DEF RemoveFinalizer
    <2>2. w' = IdleWorker /\ cache' = cache /\ HasFinalizer(w.snap)
      BY <1>2 DEF RemoveFinalizer, Done
    <2>3. /\ obj[c] \in Version /\ v \in Version /\ cache[c] \in Version /\ VersionInv(c)
          /\ Seen(c) \in SUBSET Version /\ cache[c] \in Seen(c)
      BY <1>0, SeenType, VersionOps DEF FinalizerInv
    <2>4. v # obj[c]
      BY <1>2, <2>1, <2>3 DEF Store, k8s, K8sType
    <2>5. /\ w.snap.phase = "deleting" /\ Rank(w.snap) <= Rank(cache[c])
          /\ HasFinalizer(obj[c]) => obj[c].gen = w.snap.gen
      BY <1>0, <2>2 DEF FinalizerInv, WorkerInv, BeingDeleted, HasFinalizer
    <2>6. HasFinalizer(obj[c])
      BY <2>1, <2>4 DEF WithoutFinalizer, HasFinalizer
    <2>7. /\ Rank(w.snap) = 5 * w.snap.gen + 2 /\ w.snap.gen \in Nat
          /\ Rank(cache[c]) \in Nat /\ Rank(obj[c]) \in Nat
          /\ Rank(cache[c]) <= Rank(obj[c])
      BY <1>0, <2>3, <2>5, RankType DEF VersionInv
    <2>8. obj[c].phase = "deleting"
      <3>1. obj[c].phase = "guarded" => Rank(obj[c]) = 5 * w.snap.gen + 1
        BY <2>3, <2>5, <2>6, RankType
      <3> QED
        BY <2>5, <2>6, <2>7, <3>1 DEF HasFinalizer
    <2>9. v.gen = obj[c].gen /\ v.phase \in {"gone", "released"}
      BY <2>1, <2>3, <2>8 DEF WithoutFinalizer, Tombstone, NoVersion, Version
    <2>10. Rank(v) \in {Rank(obj[c]) + 1, Rank(obj[c]) + 2}
      BY <2>3, <2>8, <2>9, RankType
    <2>11. ASSUME NEW u \in Seen(c)
           PROVE  /\ u.phase # "guarded"
                  /\ u.phase = "deleting" => Rank(cache[c]) >= Rank(u)
      <3>1. Rank(u) \in Nat /\ Rank(cache[c]) <= Rank(u) /\ Rank(u) <= Rank(obj[c])
        BY <2>3, RankType DEF VersionInv
      <3>2. Rank(obj[c]) = 5 * w.snap.gen + 2
        BY <2>3, <2>5, <2>6, <2>8, RankType
      <3>3. Rank(u) = 5 * w.snap.gen + 2 /\ Rank(cache[c]) = Rank(u)
        BY <2>5, <2>7, <3>1, <3>2
      <3>4. u.phase = "guarded" => Rank(u) = 5 * u.gen + 1 /\ u.gen = w.snap.gen
        BY <2>3, <2>5, <2>6, RankType DEF VersionInv
      <3> QED
        BY <2>7, <3>3, <3>4
    <2>12. ~HasFinalizer(v)
      BY <2>9 DEF HasFinalizer
    <2> HIDE DEF c
    <2>13. Rank(obj[c]) <= Rank(v)
      BY <2>7, <2>10
    <2>14. StreamSorted' /\ \A x \in CR : VersionInv(x)'
      BY <1>0, <2>1, <2>2, <2>3, <2>11, <2>12, <2>13, StoreKeeps
    <2> QED
      BY <2>2, <2>14, IdleType DEF FinalizerInv, WorkerInv, At
  <1> QED
    BY <1>1, <1>2

\* Patching annotations changes neither the incarnation nor the phase.
LEMMA FinalizerPatch ==
    ASSUME TypeOK, FinalizerInv, ~At("idle"), cache' = cache,
           NEW edited \in Version, PatchAnnotations(edited)
    PROVE  FinalizerInv'
  <1> USE TypeParts
  <1> DEFINE c == w.cr
  <1>1. CASE UNCHANGED k8s
    BY <1>1, IdleType, FinalizerFrame DEF PatchAnnotations, Done, Fail, k8s
  <1>2. CASE ~UNCHANGED k8s
    <2> DEFINE v == MergePatch(obj[c], w.snap, edited)
    <2>1. Store(c, v) /\ w' = IdleWorker
      BY <1>2 DEF PatchAnnotations, Done
    <2>2. c \in CR /\ w.snap \in Version
      BY DEF At, WorkerType, Workers
    <2>3. /\ obj[c] \in Version /\ v \in Version /\ VersionInv(c)
          /\ Seen(c) \in SUBSET Version
      BY <2>2, SeenType, VersionOps DEF FinalizerInv
    <2>4. v.gen = obj[c].gen /\ v.phase = obj[c].phase
      BY <2>3 DEF MergePatch, Version
    <2>5. Rank(v) = Rank(obj[c]) /\ (HasFinalizer(v) <=> HasFinalizer(obj[c]))
      BY <2>4 DEF Rank, HasFinalizer
    <2>6. Rank(obj[c]) <= Rank(v)
      BY <2>3, <2>5, RankType
    <2>7. ASSUME NEW u \in Seen(c)
          PROVE  /\ u.phase = "guarded" => v.gen = u.gen /\ HasFinalizer(v)
                 /\ u.phase = "deleting" =>
                      /\ HasFinalizer(v) => v.gen = u.gen
                      /\ Rank(v) > Rank(u) => Rank(cache[c]) >= Rank(u)
      BY <2>3, <2>4, <2>5 DEF VersionInv
    <2> HIDE DEF v, c
    <2>8. StreamSorted' /\ \A x \in CR : VersionInv(x)'
      BY <2>1, <2>2, <2>3, <2>6, <2>7, StoreKeeps
    <2> QED
      BY <2>1, <2>8, IdleType DEF FinalizerInv, WorkerInv, At
  <1> QED
    BY <1>1, <1>2

\* What users and the other controller may do to an object.
Transition(o, v) ==
    \/ o.phase = "gone" /\ v.phase = "bare" /\ v.gen = o.gen + 1
    \/ /\ v.gen = o.gen
       /\ \/ o.phase = "bare" /\ v.phase \in {"gone", "released"}
          \/ o.phase = "guarded" /\ v.phase = "deleting"
          \/ o.phase = "released" /\ v.phase = "gone"

LEMMA FinalizerUsers ==
    ASSUME TypeOK, FinalizerInv, NEW c \in CR, NEW v \in Version, Store(c, v),
           Transition(obj[c], v), cache' = cache, w' = w
    PROVE  FinalizerInv'
  <1> USE TypeParts
  <1>1. /\ obj[c] \in Version /\ VersionInv(c) /\ Seen(c) \in SUBSET Version
        /\ cache[c] \in Seen(c) /\ cache[c] \in Version
    BY SeenType DEF FinalizerInv
  <1>2. Rank(obj[c]) <= Rank(v)
    BY <1>1, RankType DEF Transition
  <1>3. HasFinalizer(v) <=> HasFinalizer(obj[c])
    BY DEF Transition, HasFinalizer
  <1>4. HasFinalizer(v) => v.gen = obj[c].gen
    BY DEF Transition, HasFinalizer
  <1>5. ASSUME NEW u \in Seen(c), u.phase = "deleting"
        PROVE  Rank(obj[c]) <= Rank(u) => Rank(v) <= Rank(u)
    <2>1. Rank(u) <= Rank(obj[c])
      BY <1>1 DEF VersionInv
    <2>2. Rank(u) = 5 * u.gen + 2 /\ u.gen \in Nat /\ obj[c].gen \in Nat /\ Rank(obj[c]) \in Nat
      BY <1>1, <1>5, RankType
    <2>3. obj[c].phase # "deleting"
      BY DEF Transition
    <2>4. Rank(obj[c]) # Rank(u)
      BY <1>1, <2>2, <2>3, RankType DEF Phase
    <2> QED
      BY <2>1, <2>2, <2>4
  <1>6. ASSUME NEW u \in Seen(c)
        PROVE  /\ u.phase = "guarded" => v.gen = u.gen /\ HasFinalizer(v)
               /\ u.phase = "deleting" =>
                    /\ HasFinalizer(v) => v.gen = u.gen
                    /\ Rank(v) > Rank(u) => Rank(cache[c]) >= Rank(u)
    <2>1. Rank(u) \in Nat /\ Rank(obj[c]) \in Nat /\ Rank(v) \in Nat
      BY <1>1, RankType
    <2> QED
      BY <1>1, <1>3, <1>4, <1>5, <2>1 DEF VersionInv
  <1>7. StreamSorted' /\ \A x \in CR : VersionInv(x)'
    BY <1>2, <1>6, StoreKeeps
  <1>8. WorkerInv'
    <2>1. CASE w.pc = "idle" \/ w.cr # c
      <3>1. w.pc # "idle" => obj'[w.cr] = obj[w.cr] /\ Seen(w.cr)' \in SUBSET Seen(w.cr)
        BY <2>1, SeenStore DEF Store, K8sType, WorkerType
      <3> QED
        BY <3>1 DEF FinalizerInv, WorkerInv, At
    <2>2. CASE w.pc # "idle" /\ w.cr = c
      <3>1. obj'[c] = v
        BY DEF Store, K8sType
      <3>2. Seen(c)' \in SUBSET (Seen(c) \cup {v})
        BY SeenStore
      <3>3. At("addFinalizer") =>
              \A u \in Seen(c)' : u.phase = "deleting" => Rank(v) <= Rank(u)
        BY <1>5, <2>2, <3>2, RankType DEF FinalizerInv, WorkerInv, At
      <3> QED
        BY <1>3, <1>4, <2>2, <3>1, <3>3 DEF FinalizerInv, WorkerInv, At
    <2> QED
      BY <2>1, <2>2
  <1> QED
    BY <1>7, <1>8 DEF FinalizerInv

\* The watch delivers a version: the cache moves forward, not past the rest.
LEMMA FinalizerDeliver ==
    ASSUME TypeOK, FinalizerInv, Deliver
    PROVE  FinalizerInv'
  <1> USE TypeParts
  <1> DEFINE e == Head(stream)
  <1>1. /\ DOMAIN stream = 1..Len(stream) /\ Len(stream) \in Nat \ {0}
        /\ e = stream[1] /\ 1 \in DOMAIN stream /\ e \in Event
        /\ DOMAIN stream' = 1..(Len(stream) - 1)
        /\ \A i \in DOMAIN stream' : stream'[i] = stream[i + 1] /\ i + 1 \in DOMAIN stream
    BY DEF Deliver, K8sType
  <1>2. /\ cache' = [cache EXCEPT ![e.cr] = e.ver] /\ obj' = obj /\ w' = w
        /\ e.cr \in CR /\ e.ver \in Seen(e.cr)
    BY <1>1 DEF Deliver, Event, Seen
  <1>3. StreamSorted'
    BY <1>1 DEF FinalizerInv, StreamSorted
  <1>4. ASSUME NEW x \in CR
        PROVE  VersionInv(x)' /\ Rank(cache[x]) <= Rank(cache'[x])
    <2>1. VersionInv(x) /\ Seen(x) \in SUBSET Version /\ cache[x] \in Seen(x)
      BY SeenType DEF FinalizerInv
    <2>2. cache'[x] \in Seen(x)
      BY <1>2, <2>1 DEF K8sType
    <2>3. Seen(x)' \in SUBSET Seen(x)
      BY SeenDeliver
    <2>4. \A u \in Seen(x)' : Rank(cache'[x]) <= Rank(u)
      <3>1. CASE x # e.cr
        BY <1>2, <2>1, <2>3, <3>1 DEF VersionInv, K8sType
      <3>2. CASE x = e.cr
        <4>1. cache'[x] = stream[1].ver /\ stream[1].cr = x
          BY <1>1, <1>2, <3>2 DEF K8sType
        <4>2. \A i \in DOMAIN stream' : stream'[i].cr = x =>
                Rank(stream[1].ver) <= Rank(stream'[i].ver)
          <5> SUFFICES ASSUME NEW i \in DOMAIN stream', stream'[i].cr = x
                       PROVE  Rank(stream[1].ver) <= Rank(stream'[i].ver)
            OBVIOUS
          <5>1. 1 < i + 1 /\ i + 1 \in DOMAIN stream /\ stream'[i] = stream[i + 1]
            BY <1>1
          <5> QED
            BY <1>1, <4>1, <5>1 DEF FinalizerInv, StreamSorted
        <4>3. Rank(cache'[x]) <= Rank(cache'[x])
          BY <2>1, <2>2, RankType
        <4> QED
          BY <4>1, <4>2, <4>3 DEF Seen
      <3> QED
        BY <3>1, <3>2
    <2>5. VersionInv(x)'
      BY <1>2, <2>1, <2>2, <2>3, <2>4, VersionOther
    <2> QED
      BY <2>1, <2>2, <2>5 DEF VersionInv
  <1>5. WorkerInv'
    <2>1. CASE w.pc = "idle"
      BY <1>2, <2>1 DEF WorkerInv, At
    <2>2. CASE w.pc # "idle"
      <3>1. w.cr \in CR /\ w.snap \in Version
        BY <2>2 DEF WorkerType, Workers
      <3>2. Rank(cache[w.cr]) <= Rank(cache'[w.cr])
        BY <1>4, <3>1
      <3>3. /\ Rank(w.snap) \in Nat /\ Rank(cache[w.cr]) \in Nat /\ Rank(cache'[w.cr]) \in Nat
            /\ cache'[w.cr] \in Seen(w.cr)
        BY <1>2, <3>1, SeenType, RankType DEF K8sType
      <3>4. Rank(w.snap) <= Rank(cache'[w.cr])
        BY <2>2, <3>2, <3>3 DEF FinalizerInv, WorkerInv, At
      <3>5. Seen(w.cr)' \in SUBSET Seen(w.cr)
        <4>1. \A x \in CR : Seen(x)' \in SUBSET Seen(x)
          BY SeenDeliver
        <4> QED
          BY <1>2, <3>1, <4>1 DEF Seen
      <3> QED
        BY <1>2, <2>2, <3>4, <3>5 DEF FinalizerInv, WorkerInv, At
    <2> QED
      BY <2>1, <2>2
  <1> QED
    BY <1>3, <1>4, <1>5 DEF FinalizerInv

\* A restart lists the objects: every version in flight is the current one.
LEMMA FinalizerCrash ==
    ASSUME TypeOK, Crash
    PROVE  FinalizerInv'
  <1> USE TypeParts
  <1>1. cache' = obj /\ obj' = obj /\ stream' = <<>> /\ w' = IdleWorker
    BY DEF Crash
  <1>2. \A c \in CR : Seen(c)' = {obj[c]}
    BY <1>1 DEF Seen
  <1>3. ASSUME NEW c \in CR PROVE VersionInv(c)'
    <2>1. obj[c] \in Version /\ Rank(obj[c]) \in Nat
      BY RankType DEF K8sType
    <2> QED
      BY <1>1, <1>2, <2>1 DEF VersionInv, HasFinalizer
  <1> QED
    BY <1>1, <1>3, IdleType DEF FinalizerInv, StreamSorted, WorkerInv, At

LEMMA FinalizerStep ==
    ASSUME TypeOK, FinalizerInv, Step
    PROVE  FinalizerInv'
  <1> USE TypeParts
  <1>1. CASE AddFinalizer
    BY <1>1, FinalizerAdd
  <1>2. CASE RemoveFinalizer
    BY <1>2, FinalizerRemove
  <1>3. CASE UpdateMetadata
    <2>1. [w.snap EXCEPT !.device = w.device, !.iface = w.iface, !.conflicted = "none"]
             \in Version
      BY <1>3 DEF UpdateMetadata, At, WorkerType, Workers, HasDevice, HasIface, Version, Conflict
    <2> QED
      BY <1>3, <2>1, FinalizerPatch DEF UpdateMetadata, At
  <1>4. CASE SetConflict
    <2>1. [w.snap EXCEPT !.conflicted = w.why] \in Version
      BY <1>4 DEF WorkerType, Workers, Version
    <2> QED
      BY <1>4, <2>1, FinalizerPatch DEF SetConflict, At
  <1>5. CASE ReconcileDelete \/ DeleteIP
    <2>1. UNCHANGED <<obj, cache, stream>>
      BY <1>5 DEF ReconcileDelete, DeleteIP, k8s
    <2>2. w'.pc = "idle" \/ SamePath
      BY <1>5, IdleType DEF ReconcileDelete, DeleteIP, At, Goto, Fail, SamePath, DeletePath,
         WorkerType, Workers
    <2> QED
      BY <2>1, <2>2, FinalizerFrame
  <1>6. CASE FindDeviceName \/ GetDevice \/ GetInterfaces
    <2>1. UNCHANGED <<obj, cache, stream>>
      BY <1>6 DEF FindDeviceName, GetDevice, GetInterfaces, k8s
    <2>2. w'.pc = "idle" \/ SamePath
      BY <1>6, IdleType DEF FindDeviceName, GetDevice, GetInterfaces, At, Goto, Fail, SamePath,
         NormalPath, WorkerType, Workers
    <2> QED
      BY <2>1, <2>2, FinalizerFrame
  <1>7. CASE LookupIP \/ CreateIP \/ PrimaryIP
    <2>1. UNCHANGED <<obj, cache, stream>>
      BY <1>7 DEF LookupIP, CreateIP, PrimaryIP, k8s
    <2>2. w'.pc = "idle" \/ SamePath
      BY <1>7, IdleType DEF LookupIP, CreateIP, PrimaryIP, At, Goto, Fail, SamePath,
         NormalPath, WorkerType, Workers
    <2> QED
      BY <2>1, <2>2, FinalizerFrame
  <1> QED
    BY <1>1, <1>2, <1>3, <1>4, <1>5, <1>6, <1>7 DEF Step

LEMMA FinalizerObjects ==
    ASSUME TypeOK, FinalizerInv, NEW c \in CR,
           CreateCR(c) \/ BindServer(c) \/ DeleteCR(c) \/ OtherRelease(c)
    PROVE  FinalizerInv'
  <1> USE TypeParts
  <1>0. cache' = cache /\ w' = w /\ obj[c] \in Version
    BY DEF CreateCR, BindServer, DeleteCR, OtherRelease, K8sType
  <1>1. CASE CreateCR(c)
    <2> DEFINE v == [NoVersion EXCEPT !.gen = obj[c].gen + 1, !.phase = "bare"]
    <2>1. v \in Version /\ v.gen = obj[c].gen + 1 /\ v.phase = "bare"
      <3>1. obj[c].gen + 1 \in Nat
        BY <1>0 DEF Version
      <3> QED
        BY <3>1 DEF NoVersion, Version, Phase, Conflict
    <2>2. Store(c, v) /\ obj[c].phase = "gone"
      BY <1>1 DEF CreateCR
    <2> QED
      BY <1>0, <2>1, <2>2, FinalizerUsers DEF Transition
  <1>2. CASE BindServer(c)
    BY <1>2, FinalizerFrame DEF BindServer, k8s, SamePath
  <1>3. CASE DeleteCR(c) \/ OtherRelease(c)
    <2>1. PICK v \in {[obj[c] EXCEPT !.phase = "deleting"], [obj[c] EXCEPT !.phase = "released"],
                      Tombstone(obj[c])} :
             Store(c, v) /\ Transition(obj[c], v)
      BY <1>0, <1>3 DEF DeleteCR, OtherRelease, Transition, Version, Tombstone, NoVersion
    <2>2. v \in Version
      BY <1>0, VersionOps DEF Phase
    <2> QED
      BY <1>0, <2>1, <2>2, FinalizerUsers
  <1> QED
    BY <1>1, <1>2, <1>3

LEMMA FinalizerNext ==
    ASSUME TypeOK, FinalizerInv, [Next]_vars
    PROVE  FinalizerInv'
  <1>1. CASE \E c \in CR : Start(c)
    BY <1>1, FinalizerStart
  <1>2. CASE Step
    BY <1>2, FinalizerStep
  <1>3. CASE Deliver
    BY <1>3, FinalizerDeliver
  <1>4. CASE Resync
    BY <1>4, FinalizerFrame DEF Resync, k8s, SamePath
  <1>5. CASE CallFails
    BY <1>5, IdleType, FinalizerFrame DEF CallFails, Fail, k8s
  <1>6. CASE Crash
    BY <1>6, FinalizerCrash
  <1>7. CASE \E c \in CR : CreateCR(c) \/ BindServer(c) \/ DeleteCR(c) \/ OtherRelease(c)
    BY <1>7, FinalizerObjects
  <1>8. CASE \/ \E a \in Addr, i \in Iface : EditCreate(a, i)
             \/ \E id \in DOMAIN nb : EditDelete(id) \/ \E i \in Iface : EditAssign(id, i)
             \/ \E i \in Iface, d \in Device : EditMove(i, d)
    BY <1>8, FinalizerFrame DEF EditCreate, EditDelete, EditAssign, EditMove, k8s, SamePath
  <1>9. CASE UNCHANGED vars
    BY <1>9, FinalizerFrame DEF vars, SamePath
  <1> QED
    BY <1>1, <1>2, <1>3, <1>4, <1>5, <1>6, <1>7, <1>8, <1>9 DEF Next, Environment

\* The versions in flight never disagree with the server on who is guarded.
THEOREM FinalizerInvariant == Spec => []FinalizerInv
  <1> QED
    BY TypeInit, TypeNext, FinalizerInit, FinalizerNext, PTL DEF Spec

\* Whatever the cache lags behind, whoever deletes and recreates the object and
\* whenever the manager crashes, Reconcile looks up, creates and assigns NetBox
\* records only for the incarnation it read, still guarded by the finalizer.
THEOREM GuardedSafe == Spec => []GuardedWhileBusy
  <1>1. FinalizerInv => GuardedWhileBusy
    BY DEF FinalizerInv, WorkerInv, GuardedWhileBusy, At, NormalPath
  <1> QED
    BY <1>1, FinalizerInvariant, PTL

(***************************************************************************)
(* The records.                                                            *)
(***************************************************************************)
\* The inductive invariant behind OneRecordPerAddress: while createIPAddress is
\* called, there still is no record of the address that was looked up.
RecordsInv ==
    edits = 0 =>
        /\ \A i, j \in DOMAIN nb : nb[i].addr = nb[j].addr => i = j
        /\ At("createIP") => Hits(AddrOf[w.cr]) = {}

\* A step that adds no record and does not lead to createIP.
LEMMA RecordsFrame ==
    ASSUME RecordsInv, edits' = edits,
           UNCHANGED nb \/ \E id \in DOMAIN nb : DropRecord(id),
           w'.pc # "createIP" \/ w' = w
    PROVE  RecordsInv'
  <1>1. DOMAIN nb' \subseteq DOMAIN nb /\ \A id \in DOMAIN nb' : nb'[id] = nb[id]
    BY DEF DropRecord
  <1> QED
    BY <1>1 DEF RecordsInv, At, Hits

LEMMA RecordsStep ==
    ASSUME TypeOK, RecordsInv, Step
    PROVE  RecordsInv'
  <1>1. w \in Workers /\ edits' = edits
    BY TypeParts DEF WorkerType, Step, AddFinalizer, ReconcileDelete, DeleteIP, RemoveFinalizer,
       FindDeviceName, GetDevice, GetInterfaces, LookupIP, CreateIP, PrimaryIP,
       UpdateMetadata, SetConflict, env
  <1>2. CASE w' = IdleWorker
    <2>1. w'.pc # "createIP" /\ ~CreateIP
      BY <1>1, <1>2, IdleType DEF CreateIP, Workers
    <2>2. UNCHANGED nb \/ \E id \in DOMAIN nb : DropRecord(id)
      BY <2>1 DEF Step, AddFinalizer, ReconcileDelete, DeleteIP, RemoveFinalizer, FindDeviceName,
         GetDevice, GetInterfaces, LookupIP, PrimaryIP, UpdateMetadata, SetConflict, netbox
    <2> QED
      BY <1>1, <2>1, <2>2, RecordsFrame
  <1>3. CASE w' # IdleWorker /\ ~LookupIP /\ ~CreateIP
    <2>1. w'.pc # "createIP"
      BY <1>1, <1>3 DEF Step, AddFinalizer, ReconcileDelete, DeleteIP, RemoveFinalizer,
         FindDeviceName, GetDevice, GetInterfaces, PrimaryIP, UpdateMetadata, SetConflict,
         PatchAnnotations, Goto, Done, Fail, Workers
    <2>2. UNCHANGED nb \/ \E id \in DOMAIN nb : DropRecord(id)
      BY <1>3 DEF Step, AddFinalizer, ReconcileDelete, DeleteIP, RemoveFinalizer, FindDeviceName,
         GetDevice, GetInterfaces, PrimaryIP, UpdateMetadata, SetConflict, netbox
    <2> QED
      BY <1>1, <2>1, <2>2, RecordsFrame
  <1>4. CASE w' # IdleWorker /\ LookupIP
    <2>1. nb' = nb /\ w'.cr = w.cr
      BY <1>1, <1>4 DEF LookupIP, Goto, Fail, Workers, netbox
    <2>2. w'.pc = "createIP" => Hits(AddrOf[w.cr]) = {}
      BY <1>1, <1>4 DEF LookupIP, Goto, Fail, Workers
    <2> QED
      BY <1>1, <2>1, <2>2 DEF RecordsInv, At, Hits
  <1>5. CASE CreateIP
    <2>1. w'.pc = "primaryIP" /\ NewRecord(AddrOf[w.cr], w.iface) /\ At("createIP")
      BY <1>1, <1>5 DEF CreateIP, Workers
    <2>2. /\ DOMAIN nb' = DOMAIN nb \cup {nextId}
          /\ \A id \in DOMAIN nb' :
               nb'[id] = IF id = nextId THEN [addr |-> AddrOf[w.cr], iface |-> w.iface] ELSE nb[id]
      BY <2>1 DEF NewRecord
    <2> QED
      BY <1>1, <2>1, <2>2 DEF RecordsInv, At, Hits
  <1> QED
    BY <1>2, <1>3, <1>4, <1>5

LEMMA RecordsNext ==
    ASSUME TypeOK, RecordsInv, [Next]_vars
    PROVE  RecordsInv'
  <1>1. w \in Workers /\ edits \in Nat
    BY TypeParts, BoundAssumption DEF WorkerType, EnvType
  <1>2. CASE \E c \in CR : Start(c)
    <2>1. nb' = nb /\ edits' = edits /\ w'.pc # "createIP"
      BY <1>2 DEF Start, IdleWorker, netbox, env
    <2> QED
      BY <2>1, RecordsFrame
  <1>3. CASE Step
    BY <1>3, RecordsStep
  <1>4. CASE Deliver \/ Resync \/ UNCHANGED vars
    BY <1>4, RecordsFrame DEF Deliver, Resync, vars, netbox, env
  <1>5. CASE CallFails \/ Crash
    <2>1. nb' = nb /\ edits' = edits /\ w'.pc # "createIP"
      BY <1>5, IdleType DEF CallFails, Crash, Fail, netbox, env
    <2> QED
      BY <2>1, RecordsFrame
  <1>6. CASE \E c \in CR : CreateCR(c) \/ BindServer(c) \/ DeleteCR(c) \/ OtherRelease(c)
    BY <1>6, RecordsFrame DEF CreateCR, BindServer, DeleteCR, OtherRelease, netbox, env
  <1>7. CASE edits' = edits + 1
    BY <1>1, <1>7 DEF RecordsInv
  <1> QED
    BY <1>2, <1>3, <1>4, <1>5, <1>6, <1>7
       DEF Next, Environment, EditCreate, EditDelete, EditAssign, EditMove, Edit

LEMMA RecordsSingle ==
    ASSUME RecordsInv
    PROVE  OneRecordPerAddress
  <1> SUFFICES ASSUME edits = 0, NEW a \in Addr
               PROVE  Cardinality(Hits(a)) <= 1
    BY DEF OneRecordPerAddress
  <1>1. CASE Hits(a) = {}
    BY <1>1, FS_EmptySet
  <1>2. CASE Hits(a) # {}
    <2>1. PICK id \in Hits(a) : TRUE
      BY <1>2
    <2>2. Hits(a) = {id}
      BY <2>1 DEF RecordsInv, Hits
    <2> QED
      BY <2>2, FS_Singleton
  <1> QED
    BY <1>1, <1>2

\* As long as no operator records an address by hand, no address ever has two
\* records in NetBox, which would make every later lookup of it fail
\* (ipam.go:68), however far the cache lags and whatever calls fail.
THEOREM RecordsUnique == Spec => []OneRecordPerAddress
  <1>1. Init => RecordsInv
    BY DEF Init, RecordsInv, At, IdleWorker
  <1>2. TypeOK /\ RecordsInv /\ [Next]_vars => RecordsInv'
    BY RecordsNext
  <1> QED
    BY <1>1, <1>2, TypeCorrect, RecordsSingle, PTL DEF Spec

(***************************************************************************)
(* Whose record it is.  The objects that share an address live one after   *)
(* the other, on the server and, however late, in the cache: no record is  *)
(* deleted for an object of the past that an object of the present needs.  *)
(***************************************************************************)
\* The versions of c there still are, and the one the cache will show of it
\* after n more deliveries.
Versions(c) == Seen(c) \cup {obj[c]}

Shows(c, n, v) ==
    \/ v = cache[c] /\ \A i \in 1..n : stream[i].cr # c
    \/ \E i \in 1..n : /\ stream[i].cr = c /\ stream[i].ver = v
                       /\ \A j \in (i + 1)..n : stream[j].cr # c

\* Objects that share an address exist one at a time, ...
Exclusive ==
    \A c, x \in CR :
        c # x /\ AddrOf[c] = AddrOf[x] => obj[c].phase = "gone" \/ obj[x].phase = "gone"

\* ... the cache catches up with the server, ...
CatchesUp ==
    \A n \in 0..Len(stream), c \in CR, v \in Version :
        n = Len(stream) /\ Shows(c, n, v) => v = obj[c]

\* ... and shows them one at a time on the way.
TakeTurns ==
    \A n \in 0..Len(stream), c, x \in CR, v, u \in Version :
        /\ c # x /\ AddrOf[c] = AddrOf[x]
        /\ Shows(c, n, v) /\ Shows(x, n, u)
        => v.phase = "gone" \/ u.phase = "gone"

TurnsInv == Exclusive /\ CatchesUp /\ TakeTurns

\* An annotated version has the finalizer or had it, and the cache has shown
\* its incarnation with the finalizer.
AnnotatedSeen ==
    \A c \in CR : \A v \in Versions(c) :
        v.iface # None => v.phase \notin {"bare", "gone"} /\ Rank(cache[c]) >= 5 * v.gen + 1

\* While an object lives with the finalizer, no version that is to be deleted
\* is annotated, of it or of another object with its address.
DoomedBare ==
    \A c, x \in CR :
        obj[x].phase = "guarded" /\ AddrOf[c] = AddrOf[x] =>
            \A v \in Versions(c) : BeingDeleted(v) => v.iface = None

\* What the worker goes by: the finalizer is added when nothing is annotated, a
\* record is deleted when nobody with its address lives with the finalizer.
PathInv ==
    /\ w.pc \in NormalPath => w.snap.phase = "guarded"
    /\ At("addFinalizer") =>
         \A c \in CR : AddrOf[c] = AddrOf[w.cr] => \A v \in Versions(c) : v.iface = None
    /\ w.pc \in DeletePath /\ w.snap.iface # None =>
         \A x \in CR : AddrOf[x] = AddrOf[w.cr] => obj[x].phase # "guarded"
    /\ At("deleteIP") => w.snap.iface # None
    /\ w.pc \in HasRecord =>
         w.ip < nextId /\ (w.ip \in DOMAIN nb => nb[w.ip].addr = AddrOf[w.cr])

AddressInv == TurnsInv /\ AnnotatedSeen /\ DoomedBare /\ PathInv

-----------------------------------------------------------------------------
\* What may become of obj[c], and by whom.
Born(c, v) ==
    /\ obj[c].phase = "gone" /\ v.phase = "bare" /\ v.gen = obj[c].gen + 1
    /\ v.iface = None /\ v.device = None
    /\ \A x \in CR : AddrOf[x] = AddrOf[c] => obj[x].phase = "gone"

Dies(c, v) == v.gen = obj[c].gen /\ v.phase = "gone" /\ v.iface = None /\ v.device = None

Moves(c, v) ==
    /\ v.gen = obj[c].gen /\ v.iface = obj[c].iface /\ v.device = obj[c].device
    /\ \/ v.phase = obj[c].phase
       \/ obj[c].phase = "bare" /\ v.phase = "released"
       \/ obj[c].phase = "guarded" /\ v.phase = "deleting"
       \/ obj[c].phase = "deleting" /\ v.phase = "released"
       \/ At("addFinalizer") /\ w.cr = c /\ obj[c].phase = "bare" /\ v.phase = "guarded"

Annotated(c, v) ==
    /\ At("updateMetadata") /\ w.cr = c /\ HasFinalizer(obj[c])
    /\ v.gen = obj[c].gen /\ v.phase = obj[c].phase
    /\ v.iface = w.iface \/ (w.iface = w.snap.iface /\ v.iface = obj[c].iface)
    /\ v.device = w.device \/ (w.device = w.snap.device /\ v.device = obj[c].device)

Becomes(c, v) == Born(c, v) \/ Dies(c, v) \/ Moves(c, v) \/ Annotated(c, v)

Written(c, v) == Store(c, v) /\ cache' = cache /\ Becomes(c, v)

\* A finalizer is never taken from a live object.
LEMMA RemovesDeleting ==
    ASSUME TypeOK, FinalizerInv, RemoveFinalizer, HasFinalizer(w.snap)
    PROVE  obj[w.cr].phase # "guarded"
  <1>1. /\ At("removeFinalizer") /\ ~At("idle") /\ w.cr \in CR
        /\ w.pc \in DeletePath /\ w.snap \in Version
    BY TypeParts DEF RemoveFinalizer, At, WorkerType, Workers, DeletePath
  <1>2. SUFFICES ASSUME obj[w.cr].phase = "guarded" PROVE FALSE
    OBVIOUS
  <1>3. /\ w.snap.phase = "deleting" /\ Rank(w.snap) <= Rank(cache[w.cr])
        /\ obj[w.cr].gen = w.snap.gen
    BY <1>1, <1>2 DEF FinalizerInv, WorkerInv, BeingDeleted, HasFinalizer
  <1>4. /\ obj[w.cr] \in Version /\ cache[w.cr] \in Version
        /\ Rank(cache[w.cr]) <= Rank(obj[w.cr])
    BY <1>1, TypeParts, SeenType DEF FinalizerInv, VersionInv
  <1>5. /\ Rank(w.snap) = 5 * w.snap.gen + 2 /\ Rank(obj[w.cr]) = 5 * w.snap.gen + 1
        /\ w.snap.gen \in Nat /\ Rank(cache[w.cr]) \in Nat
    BY <1>1, <1>2, <1>3, <1>4, RankType
  <1> QED
    BY <1>3, <1>4, <1>5

\* Whatever happens to the objects, the cache or the watch is one of these.
LEMMA WorkerWrites ==
    ASSUME TypeOK, FinalizerInv, Step
    PROVE  \/ UNCHANGED <<obj, cache, stream>>
           \/ \E c \in CR, v \in Version : Written(c, v)
  <1> USE TypeParts
  <1>1. CASE AddFinalizer
    <2>1. CASE UNCHANGED k8s
      BY <1>1, <2>1 DEF AddFinalizer, k8s
    <2>2. CASE ~UNCHANGED k8s
      <3>1. w.cr \in CR /\ obj[w.cr] \in Version
        BY <1>1 DEF AddFinalizer, At, WorkerType, K8sType
      <3>2. PICK v \in Version : v = WithFinalizer(obj[w.cr])
        BY <3>1, VersionOps
      <3>3. Store(w.cr, v) /\ cache' = cache /\ At("addFinalizer")
        BY <1>1, <2>2, <3>2 DEF AddFinalizer
      <3>4. Moves(w.cr, v)
        BY <3>1, <3>2, <3>3 DEF WithFinalizer, Moves, Version
      <3> QED
        BY <3>1, <3>3, <3>4 DEF Written, Becomes
    <2> QED
      BY <2>1, <2>2
  <1>2. CASE RemoveFinalizer
    <2>1. CASE UNCHANGED k8s
      BY <1>2, <2>1 DEF RemoveFinalizer, k8s
    <2>2. CASE ~UNCHANGED k8s
      <3>1. w.cr \in CR /\ obj[w.cr] \in Version
        BY <1>2 DEF RemoveFinalizer, At, WorkerType, K8sType
      <3>2. PICK v \in WithoutFinalizer(obj[w.cr]) : Store(w.cr, v)
        BY <1>2, <2>2 DEF RemoveFinalizer
      <3>3. v \in Version
        BY <3>1, <3>2, VersionOps
      <3>4. obj[w.cr].phase # "guarded"
        BY <1>2, <2>2, RemovesDeleting DEF RemoveFinalizer
      <3>5. Dies(w.cr, v) \/ Moves(w.cr, v)
        <4>1. CASE obj[w.cr].phase = "deleting"
          <5>1. CASE v = Tombstone(obj[w.cr])
            BY <3>1, <5>1 DEF Tombstone, NoVersion, Dies
          <5>2. CASE v = [obj[w.cr] EXCEPT !.phase = "released"]
            BY <3>1, <4>1, <5>2 DEF Moves, Version
          <5> QED
            BY <3>2, <4>1, <5>1, <5>2 DEF WithoutFinalizer
        <4>2. CASE obj[w.cr].phase # "deleting"
          BY <3>2, <3>4, <4>2 DEF WithoutFinalizer, Moves
        <4> QED
          BY <4>1, <4>2
      <3> QED
        BY <1>2, <3>1, <3>2, <3>3, <3>5 DEF RemoveFinalizer, Written, Becomes
    <2> QED
      BY <2>1, <2>2
  <1>3. CASE UpdateMetadata \/ SetConflict
    <2>1. CASE UNCHANGED k8s
      BY <1>3, <2>1 DEF UpdateMetadata, SetConflict, k8s
    <2>2. CASE ~UNCHANGED k8s
      <3>1. /\ w.cr \in CR /\ obj[w.cr] \in Version /\ w.snap \in Version /\ w.why \in Conflict
            /\ w.device \in Device /\ w.iface \in Iface /\ w.pc \in NormalPath /\ cache' = cache
        BY <1>3 DEF UpdateMetadata, SetConflict, At, WorkerType, Workers, K8sType, HasDevice,
           HasIface, NormalPath
      <3>2. HasFinalizer(obj[w.cr])
        BY <3>1 DEF FinalizerInv, WorkerInv, NormalPath, At
      <3>3. CASE UpdateMetadata
        <4>1. PICK e \in Version : e = [w.snap EXCEPT !.device = w.device, !.iface = w.iface,
                                                      !.conflicted = "none"]
          BY <3>1 DEF Version, Conflict
        <4>2. PICK v \in Version : v = MergePatch(obj[w.cr], w.snap, e)
          BY <3>1, <4>1, VersionOps
        <4>3. Store(w.cr, v) /\ At("updateMetadata")
          BY <2>2, <3>3, <4>1, <4>2 DEF UpdateMetadata, PatchAnnotations
        <4>4. e.device = w.device /\ e.iface = w.iface
          BY <3>1, <4>1 DEF Version
        <4>5. /\ v.gen = obj[w.cr].gen /\ v.phase = obj[w.cr].phase
              /\ v.device = IF e.device # w.snap.device THEN e.device ELSE obj[w.cr].device
              /\ v.iface = IF e.iface # w.snap.iface THEN e.iface ELSE obj[w.cr].iface
          BY <3>1, <4>2 DEF MergePatch, Version
        <4>6. Annotated(w.cr, v)
          BY <3>2, <4>3, <4>4, <4>5 DEF Annotated
        <4> QED
          BY <3>1, <4>3, <4>6 DEF Written, Becomes
      <3>4. CASE SetConflict
        <4>1. PICK e \in Version : e = [w.snap EXCEPT !.conflicted = w.why]
          BY <3>1 DEF Version
        <4>2. PICK v \in Version : v = MergePatch(obj[w.cr], w.snap, e)
          BY <3>1, <4>1, VersionOps
        <4>3. Store(w.cr, v)
          BY <2>2, <3>4, <4>1, <4>2 DEF SetConflict, PatchAnnotations
        <4>4. e.device = w.snap.device /\ e.iface = w.snap.iface
          BY <3>1, <4>1 DEF Version
        <4>5. Moves(w.cr, v)
          BY <3>1, <4>2, <4>4 DEF MergePatch, Version, Moves
        <4> QED
          BY <3>1, <4>3, <4>5 DEF Written, Becomes
      <3> QED
        BY <1>3, <3>3, <3>4
    <2> QED
      BY <2>1, <2>2
  <1>4. CASE \/ ReconcileDelete \/ DeleteIP \/ FindDeviceName \/ GetDevice \/ GetInterfaces
             \/ LookupIP \/ CreateIP \/ PrimaryIP
    <2>1. UNCHANGED <<obj, cache, stream>>
      <3>1. CASE ReconcileDelete \/ DeleteIP
        BY <3>1 DEF ReconcileDelete, DeleteIP, k8s
      <3>2. CASE FindDeviceName \/ GetDevice \/ GetInterfaces
        BY <3>2 DEF FindDeviceName, GetDevice, GetInterfaces, k8s
      <3>3. CASE LookupIP \/ CreateIP \/ PrimaryIP
        BY <3>3 DEF LookupIP, CreateIP, PrimaryIP, k8s
      <3> QED
        BY <1>4, <3>1, <3>2, <3>3
    <2> QED
      BY <2>1
  <1> QED
    BY <1>1, <1>2, <1>3, <1>4 DEF Step

LEMMA ObjectChanges ==
    ASSUME TypeOK, FinalizerInv, [Next]_vars
    PROVE  \/ UNCHANGED <<obj, cache, stream>>
           \/ Deliver
           \/ Crash
           \/ \E c \in CR, v \in Version : Written(c, v)
  <1> USE TypeParts
  <1>1. CASE Step
    BY <1>1, WorkerWrites
  <1>2. CASE \/ \E c \in CR : Start(c)
             \/ Resync \/ CallFails \/ UNCHANGED vars
    <2>1. UNCHANGED <<obj, cache, stream>>
      BY <1>2 DEF Start, Resync, CallFails, vars, k8s
    <2> QED
      BY <2>1
  <1>3. CASE \E c \in CR : CreateCR(c)
    <2>1. PICK c \in CR : CreateCR(c)
      BY <1>3
    <2>2. obj[c] \in Version /\ obj[c].gen + 1 \in Nat
      BY DEF K8sType, Version
    <2>3. PICK v : v = [NoVersion EXCEPT !.gen = obj[c].gen + 1, !.phase = "bare"]
      OBVIOUS
    <2>4. v \in Version
      BY <2>2, <2>3 DEF NoVersion, Version, Phase, Conflict
    <2>5. /\ v.phase = "bare" /\ v.gen = obj[c].gen + 1
          /\ v.iface = None /\ v.device = None
      BY <2>3 DEF NoVersion
    <2>6. Born(c, v)
      BY <2>1, <2>5 DEF CreateCR, Born
    <2> QED
      BY <2>1, <2>3, <2>4, <2>6 DEF CreateCR, Written, Becomes
  <1>4. CASE \E c \in CR : DeleteCR(c) \/ OtherRelease(c)
    <2>1. PICK c \in CR : DeleteCR(c) \/ OtherRelease(c)
      BY <1>4
    <2>2. obj[c] \in Version
      BY DEF K8sType
    <2>3. PICK v \in {[obj[c] EXCEPT !.phase = "deleting"], [obj[c] EXCEPT !.phase = "released"],
                      Tombstone(obj[c])} :
             Store(c, v) /\ Becomes(c, v)
      BY <2>1, <2>2 DEF DeleteCR, OtherRelease, Becomes, Moves, Dies, Version, Tombstone, NoVersion
    <2>4. v \in Version
      BY <2>2, VersionOps DEF Phase
    <2> QED
      BY <2>1, <2>3, <2>4 DEF DeleteCR, OtherRelease, Written
  <1>5. CASE \/ \E c \in CR : BindServer(c)
             \/ \E a \in Addr, i \in Iface : EditCreate(a, i)
             \/ \E id \in DOMAIN nb : EditDelete(id) \/ \E i \in Iface : EditAssign(id, i)
             \/ \E i \in Iface, d \in Device : EditMove(i, d)
    <2>1. UNCHANGED <<obj, cache, stream>>
      BY <1>5 DEF BindServer, EditCreate, EditDelete, EditAssign, EditMove, k8s
    <2> QED
      BY <2>1
  <1> QED
    BY <1>1, <1>2, <1>3, <1>4, <1>5 DEF Next, Environment

\* What a write to one object shows of any.
LEMMA ShowsStore ==
    ASSUME K8sType, CatchesUp, NEW c \in CR, NEW v \in Version, Store(c, v), cache' = cache,
           NEW x \in CR, NEW n \in 0..Len(stream'), NEW u \in Version, Shows(x, n, u)'
    PROVE  \/ n \in 0..Len(stream) /\ Shows(x, n, u)
           \/ n = Len(stream) + 1 /\ u = obj'[x]
  <1>1. CASE v = obj[c]
    <2>1. stream' = stream
      BY <1>1 DEF Store
    <2> QED
      BY <2>1 DEF Shows
  <1>2. CASE v # obj[c]
    <2>1. stream' = Append(stream, [cr |-> c, ver |-> v])
      BY <1>2 DEF Store
    <2>2. /\ Len(stream') = Len(stream) + 1 /\ Len(stream) \in Nat
          /\ \A i \in 1..Len(stream) : stream'[i] = stream[i]
          /\ stream'[Len(stream) + 1].cr = c /\ stream'[Len(stream) + 1].ver = v
      BY <2>1 DEF K8sType
    <2>3. obj'[c] = v /\ (x # c => obj'[x] = obj[x])
      BY DEF Store, K8sType
    <2>4. CASE n \in 0..Len(stream)
      <3>1. \A i \in 1..n : stream'[i] = stream[i]
        BY <2>2, <2>4
      <3>2. ASSUME NEW i \in 1..n, NEW j \in (i + 1)..n PROVE stream'[j] = stream[j]
        BY <3>1
      <3> QED
        BY <2>4, <3>1, <3>2 DEF Shows
    <2>5. CASE n = Len(stream) + 1
      <3>1. CASE x = c
        <4>1. n \in 1..n /\ stream'[n].cr = x
          BY <2>2, <2>5, <3>1
        <4>2. PICK i \in 1..n : /\ stream'[i].cr = x /\ stream'[i].ver = u
                                /\ \A j \in (i + 1)..n : stream'[j].cr # x
          BY <4>1 DEF Shows
        <4>3. i = n
          <5>1. i # n => n \in (i + 1)..n
            BY <2>2, <2>5
          <5> QED
            BY <4>1, <4>2, <5>1
        <4> QED
          BY <2>2, <2>3, <2>5, <3>1, <4>2, <4>3
      <3>2. CASE x # c
        <4> DEFINE m == Len(stream)
        <4>1. Shows(x, m, u)
          <5>1. CASE u = cache[x] /\ \A i \in 1..n : stream'[i].cr # x
            <6>1. \A i \in 1..m : i \in 1..n /\ stream'[i] = stream[i]
              BY <2>2, <2>5
            <6> QED
              BY <5>1, <6>1 DEF Shows
          <5>2. ASSUME NEW i \in 1..n, stream'[i].cr = x, stream'[i].ver = u,
                       \A j \in (i + 1)..n : stream'[j].cr # x
                PROVE  Shows(x, m, u)
            <6>1. i \in 1..m
              BY <2>2, <2>5, <3>2, <5>2
            <6>2. \A j \in (i + 1)..m : j \in (i + 1)..n /\ stream'[j] = stream[j]
              BY <2>2, <2>5, <6>1
            <6> QED
              BY <2>2, <5>2, <6>1, <6>2 DEF Shows
          <5> QED
            BY <5>1, <5>2 DEF Shows
        <4>2. m \in 0..Len(stream) /\ m = Len(stream)
          BY <2>2
        <4> HIDE DEF m
        <4> QED
          BY <2>3, <2>5, <3>2, <4>1, <4>2 DEF CatchesUp
      <3> QED
        BY <3>1, <3>2
    <2> QED
      BY <2>2, <2>4, <2>5
  <1> QED
    BY <1>1, <1>2

\* What a delivery leaves to show was to be shown one delivery later.
LEMMA ShowsDeliver ==
    ASSUME K8sType, Deliver,
           NEW x \in CR, NEW n \in 0..Len(stream'), NEW u, Shows(x, n, u)'
    PROVE  n + 1 \in 0..Len(stream) /\ Shows(x, n + 1, u)
  <1>1. /\ Len(stream') = Len(stream) - 1 /\ Len(stream) \in Nat \ {0}
        /\ Head(stream) = stream[1] /\ stream[1] \in Event
        /\ \A i \in 1..(Len(stream) - 1) : stream'[i] = stream[i + 1]
    BY DEF Deliver, K8sType
  <1>2. n \in Nat /\ n + 1 \in 0..Len(stream)
    BY <1>1
  <1>3. \A i \in 2..(n + 1) : i - 1 \in 1..n /\ stream'[i - 1] = stream[i]
    <2> SUFFICES ASSUME NEW i \in 2..(n + 1)
                 PROVE  i - 1 \in 1..n /\ stream'[i - 1] = stream[i]
      OBVIOUS
    <2>1. i - 1 \in 1..n /\ i - 1 \in 1..(Len(stream) - 1) /\ (i - 1) + 1 = i
      BY <1>1, <1>2
    <2> QED
      BY <1>1, <2>1
  <1>4. CASE u = cache'[x] /\ \A i \in 1..n : stream'[i].cr # x
    <2>1. \A i \in 2..(n + 1) : stream[i].cr # x
      BY <1>3, <1>4
    <2>2. CASE stream[1].cr = x
      <3>1. u = stream[1].ver
        BY <1>1, <1>4, <2>2 DEF Deliver, K8sType
      <3>2. 1 \in 1..(n + 1) /\ 1 + 1 = 2
        BY <1>2
      <3> QED
        BY <1>2, <2>1, <2>2, <3>1, <3>2 DEF Shows
    <2>3. CASE stream[1].cr # x
      <3>1. u = cache[x]
        BY <1>1, <1>4, <2>3 DEF Deliver, K8sType
      <3>2. \A i \in 1..(n + 1) : i = 1 \/ i \in 2..(n + 1)
        BY <1>2
      <3> QED
        BY <1>2, <2>1, <2>3, <3>1, <3>2 DEF Shows
    <2> QED
      BY <2>2, <2>3
  <1>5. ASSUME NEW i \in 1..n, stream'[i].cr = x, stream'[i].ver = u,
               \A j \in (i + 1)..n : stream'[j].cr # x
        PROVE  Shows(x, n + 1, u)
    <2> DEFINE k == i + 1
    <2>1. k \in 2..(n + 1) /\ k \in 1..(n + 1) /\ k - 1 = i
      BY <1>2
    <2>2. stream[k].cr = x /\ stream[k].ver = u
      BY <1>3, <1>5, <2>1
    <2>3. ASSUME NEW j \in (k + 1)..(n + 1) PROVE stream[j].cr # x
      <3>1. j \in 2..(n + 1) /\ j - 1 \in (i + 1)..n
        BY <1>2, <2>1
      <3> QED
        BY <1>3, <1>5, <3>1
    <2> HIDE DEF k
    <2> QED
      BY <2>1, <2>2, <2>3 DEF Shows
  <1> QED
    BY <1>2, <1>4, <1>5 DEF Shows

LEMMA TurnsStep ==
    ASSUME TypeOK, FinalizerInv, TurnsInv, [Next]_vars
    PROVE  TurnsInv'
  <1> USE TypeParts DEF TurnsInv
  <1>1. CASE UNCHANGED <<obj, cache, stream>>
    BY <1>1 DEF Exclusive, CatchesUp, TakeTurns, Shows
  <1>2. CASE Deliver
    <2>1. obj' = obj /\ Exclusive'
      BY <1>2 DEF Deliver, Exclusive
    <2>2. Len(stream') \in Nat /\ Len(stream') + 1 = Len(stream)
      BY <1>2 DEF Deliver, K8sType
    <2>3. CatchesUp'
      <3> SUFFICES ASSUME NEW n \in 0..Len(stream'), NEW x \in CR, NEW u \in Version,
                          n = Len(stream'), Shows(x, n, u)'
                   PROVE  u = obj'[x]
        BY DEF CatchesUp
      <3>1. n + 1 \in 0..Len(stream) /\ Shows(x, n + 1, u)
        BY <1>2, ShowsDeliver
      <3> QED
        BY <2>1, <2>2, <3>1 DEF CatchesUp
    <2>4. TakeTurns'
      <3> SUFFICES ASSUME NEW n \in 0..Len(stream'), NEW c \in CR, NEW x \in CR,
                          NEW v \in Version, NEW u \in Version,
                          c # x, AddrOf[c] = AddrOf[x], Shows(c, n, v)', Shows(x, n, u)'
                   PROVE  v.phase = "gone" \/ u.phase = "gone"
        BY DEF TakeTurns
      <3>1. n + 1 \in 0..Len(stream) /\ Shows(c, n + 1, v) /\ Shows(x, n + 1, u)
        BY <1>2, ShowsDeliver
      <3> QED
        BY <3>1 DEF TakeTurns
    <2> QED
      BY <2>1, <2>3, <2>4
  <1>3. CASE Crash
    <2>1. /\ obj' = obj /\ cache' = obj /\ Len(stream') = 0 /\ Exclusive'
      BY <1>3 DEF Crash, Exclusive
    <2>2. ASSUME NEW x \in CR, NEW n \in 0..Len(stream'), NEW u, Shows(x, n, u)'
          PROVE  u = obj'[x]
      <3>1. \A i \in 1..n : FALSE
        BY <2>1
      <3> QED
        BY <2>1, <2>2, <3>1 DEF Shows
    <2>3. CatchesUp'
      BY <2>2 DEF CatchesUp
    <2>4. TakeTurns'
      BY <2>1, <2>2 DEF TakeTurns, Exclusive
    <2> QED
      BY <2>1, <2>3, <2>4
  <1>4. ASSUME NEW c \in CR, NEW v \in Version, Written(c, v)
        PROVE  TurnsInv'
    <2>1. /\ Store(c, v) /\ cache' = cache /\ obj'[c] = v
          /\ \A x \in CR : x # c => obj'[x] = obj[x]
      BY <1>4 DEF Written, Store, K8sType
    <2>2. \/ v.phase = "gone" \/ obj[c].phase # "gone"
          \/ \A x \in CR : AddrOf[x] = AddrOf[c] => obj[x].phase = "gone"
      BY <1>4 DEF Written, Becomes, Born, Dies, Moves, Annotated
    <2>3. Exclusive'
      BY <2>1, <2>2 DEF Exclusive
    <2>4. ASSUME NEW x \in CR, NEW n \in 0..Len(stream'), NEW u \in Version, Shows(x, n, u)'
          PROVE  \/ n \in 0..Len(stream) /\ Shows(x, n, u)
                 \/ n = Len(stream) + 1 /\ u = obj'[x]
      BY <2>1, <2>4, ShowsStore
    <2>5. /\ Len(stream) \in Nat /\ Len(stream') \in Nat
          /\ Len(stream') = Len(stream) => obj' = obj
          /\ Len(stream') \in {Len(stream), Len(stream) + 1}
      <3>1. CASE v = obj[c]
        BY <2>1, <3>1 DEF Store, K8sType
      <3>2. CASE v # obj[c]
        BY <2>1, <3>2 DEF Store, K8sType
      <3> QED
        BY <3>1, <3>2
    <2>6. CatchesUp'
      <3> SUFFICES ASSUME NEW n \in 0..Len(stream'), NEW x \in CR, NEW u \in Version,
                          n = Len(stream'), Shows(x, n, u)'
                   PROVE  u = obj'[x]
        BY DEF CatchesUp
      <3>1. CASE n \in 0..Len(stream) /\ Shows(x, n, u)
        <4>1. n = Len(stream) /\ obj' = obj
          BY <2>5, <3>1
        <4> QED
          BY <3>1, <4>1 DEF CatchesUp
      <3> QED
        BY <2>4, <3>1
    <2>7. TakeTurns'
      <3> SUFFICES ASSUME NEW n \in 0..Len(stream'), NEW y \in CR, NEW x \in CR,
                          NEW s \in Version, NEW u \in Version,
                          y # x, AddrOf[y] = AddrOf[x], Shows(y, n, s)', Shows(x, n, u)'
                   PROVE  s.phase = "gone" \/ u.phase = "gone"
        BY DEF TakeTurns
      <3>1. CASE n \in 0..Len(stream)
        <4>1. n # Len(stream) + 1
          BY <2>5, <3>1
        <4>2. Shows(y, n, s) /\ Shows(x, n, u)
          BY <2>4, <4>1
        <4> QED
          BY <3>1, <4>2 DEF TakeTurns
      <3>2. CASE n \notin 0..Len(stream)
        <4>1. s = obj'[y] /\ u = obj'[x]
          BY <2>4, <3>2
        <4> QED
          BY <2>3, <4>1 DEF Exclusive
      <3> QED
        BY <3>1, <3>2
    <2> QED
      BY <2>3, <2>6, <2>7
  <1> QED
    BY <1>1, <1>2, <1>3, <1>4, ObjectChanges

\* The versions there are after a step that writes none, ...
LEMMA VersionsShrink ==
    ASSUME K8sType, Deliver \/ Crash \/ UNCHANGED <<obj, cache, stream>>, NEW x \in CR
    PROVE  obj' = obj /\ Versions(x)' \in SUBSET Versions(x) /\ cache'[x] \in Versions(x)
  <1>1. CASE Deliver
    <2>1. obj' = obj /\ cache'[x] \in Seen(x)'
      BY <1>1 DEF Deliver, Seen
    <2> QED
      BY <1>1, <2>1, SeenDeliver DEF Versions
  <1>2. CASE Crash
    BY <1>2 DEF Crash, Versions, Seen
  <1>3. CASE UNCHANGED <<obj, cache, stream>>
    BY <1>3 DEF Versions, Seen
  <1> QED
    BY <1>1, <1>2, <1>3

\* ... and after one that does.
LEMMA VersionsWritten ==
    ASSUME K8sType, NEW c \in CR, NEW v \in Version, Written(c, v), NEW x \in CR
    PROVE  /\ cache' = cache
           /\ obj'[c] = v /\ (x # c => obj'[x] = obj[x])
           /\ \A u \in Versions(x)' : u \in Versions(x) \/ (x = c /\ u = v)
  <1>1. /\ cache' = cache /\ Store(c, v)
        /\ obj'[c] = v /\ (x # c => obj'[x] = obj[x])
    BY DEF Written, Store, K8sType
  <1>2. \A u \in Seen(x)' : u \in Seen(x) \/ (x = c /\ u = v)
    BY <1>1, SeenStore
  <1> QED
    BY <1>1, <1>2 DEF Versions

\* The ranks of the versions there are.
LEMMA VersionsRank ==
    ASSUME K8sType, FinalizerInv, NEW x \in CR, NEW u \in Versions(x)
    PROVE  /\ u \in Version /\ cache[x] \in Version /\ cache[x] \in Versions(x)
           /\ Rank(cache[x]) \in Nat /\ Rank(u) \in Nat /\ Rank(obj[x]) \in Nat
           /\ Rank(cache[x]) <= Rank(u) /\ Rank(u) <= Rank(obj[x])
  <1>1. /\ Seen(x) \in SUBSET Version /\ cache[x] \in Seen(x) /\ obj[x] \in Version
        /\ VersionInv(x)
    BY SeenType DEF FinalizerInv
  <1>2. u \in Version /\ cache[x] \in Version
    BY <1>1 DEF Versions
  <1>3. Rank(cache[x]) \in Nat /\ Rank(u) \in Nat /\ Rank(obj[x]) \in Nat
    BY <1>1, <1>2, RankType
  <1>4. CASE u = obj[x]
    BY <1>1, <1>2, <1>3, <1>4 DEF VersionInv, Versions
  <1>5. CASE u \in Seen(x)
    BY <1>1, <1>2, <1>3, <1>5 DEF VersionInv, Versions
  <1> QED
    BY <1>4, <1>5 DEF Versions

LEMMA AnnotatedStep ==
    ASSUME TypeOK, FinalizerInv, AnnotatedSeen, PathInv, [Next]_vars
    PROVE  AnnotatedSeen'
  <1> USE TypeParts
  <1>1. SUFFICES ASSUME NEW x \in CR, NEW u \in Versions(x)', u.iface # None
                 PROVE  u.phase \notin {"bare", "gone"} /\ Rank(cache'[x]) >= 5 * u.gen + 1
    BY DEF AnnotatedSeen, Rank, PhaseRank
  <1>2. CASE UNCHANGED <<obj, cache, stream>> \/ Deliver
    <2>1. u \in Versions(x) /\ cache'[x] \in Versions(x)
      BY <1>2, VersionsShrink
    <2>2. u.phase \notin {"bare", "gone"} /\ Rank(cache[x]) >= 5 * u.gen + 1
      BY <1>1, <2>1 DEF AnnotatedSeen
    <2>3. /\ Rank(cache[x]) \in Nat /\ Rank(cache'[x]) \in Nat /\ u \in Version
          /\ Rank(cache[x]) <= Rank(cache'[x])
      BY <2>1, VersionsRank
    <2>4. u.gen \in Nat
      BY <2>3 DEF Version
    <2> QED
      BY <2>2, <2>3, <2>4
  <1>3. CASE Crash
    <2>1. u = obj[x] /\ cache'[x] = obj[x] /\ obj[x] \in Versions(x) /\ obj[x] \in Version
      BY <1>3 DEF Crash, Versions, Seen, K8sType
    <2>2. u.phase \in {"guarded", "deleting", "released"}
      BY <1>1, <2>1 DEF AnnotatedSeen, Version, Phase
    <2> QED
      BY <2>1, <2>2, RankType
  <1>4. ASSUME NEW c \in CR, NEW v \in Version, Written(c, v)
        PROVE  u.phase \notin {"bare", "gone"} /\ Rank(cache'[x]) >= 5 * u.gen + 1
    <2>1. cache' = cache /\ (u \in Versions(x) \/ (x = c /\ u = v))
      BY <1>4, VersionsWritten
    <2>2. CASE u \in Versions(x)
      BY <1>1, <2>1, <2>2 DEF AnnotatedSeen
    <2>3. CASE x = c /\ u = v
      <3>1. obj[c] \in Versions(c)
        BY DEF Versions
      <3>2. ~Born(c, v) /\ ~Dies(c, v)
        BY <1>1, <2>3 DEF Born, Dies
      <3>3. CASE Moves(c, v)
        <4>1. obj[c].iface # None /\ u.gen = obj[c].gen
          BY <1>1, <2>3, <3>3 DEF Moves
        <4>2. obj[c].phase \notin {"bare", "gone"} /\ Rank(cache[c]) >= 5 * obj[c].gen + 1
          BY <3>1, <4>1 DEF AnnotatedSeen
        <4> QED
          BY <2>1, <2>3, <3>3, <4>1, <4>2 DEF Moves
      <3>4. CASE Annotated(c, v)
        <4>1. /\ w.pc \in NormalPath /\ ~At("idle") /\ w.cr = c /\ HasFinalizer(obj[c])
              /\ v.gen = obj[c].gen /\ v.phase = obj[c].phase
          BY <3>4 DEF Annotated, At, NormalPath
        <4>2. /\ w.snap.phase = "guarded" /\ w.snap \in Version
              /\ Rank(w.snap) <= Rank(cache[c]) /\ obj[c].gen = w.snap.gen
          BY <4>1 DEF PathInv, FinalizerInv, WorkerInv, WorkerType, Workers
        <4>3. /\ Rank(w.snap) = 5 * w.snap.gen + 1 /\ w.snap.gen \in Nat
              /\ Rank(cache[c]) \in Nat
          BY <3>1, <4>2, RankType, VersionsRank
        <4>4. Rank(cache[c]) >= 5 * w.snap.gen + 1
          BY <4>2, <4>3
        <4> QED
          BY <2>1, <2>3, <4>1, <4>2, <4>4 DEF HasFinalizer
      <3> QED
        BY <1>4, <3>2, <3>3, <3>4 DEF Written, Becomes
    <2> QED
      BY <2>1, <2>2, <2>3
  <1> QED
    BY <1>2, <1>3, <1>4, ObjectChanges

\* Only the step that adds the finalizer makes an object live with it.
LEMMA GuardedBy ==
    ASSUME TypeOK, FinalizerInv, [Next]_vars,
           NEW x \in CR, obj'[x].phase = "guarded", obj[x].phase # "guarded"
    PROVE  At("addFinalizer") /\ w.cr = x
  <1> USE TypeParts
  <1>1. CASE Deliver \/ Crash \/ UNCHANGED <<obj, cache, stream>>
    BY <1>1, VersionsShrink
  <1>2. ASSUME NEW c \in CR, NEW v \in Version, Written(c, v)
        PROVE  At("addFinalizer") /\ w.cr = x
    <2>1. x = c /\ obj'[x] = v
      BY <1>2, VersionsWritten
    <2> QED
      BY <1>2, <2>1 DEF Written, Becomes, Born, Dies, Moves, Annotated
  <1> QED
    BY <1>1, <1>2, ObjectChanges

LEMMA DoomedStep ==
    ASSUME TypeOK, FinalizerInv, Exclusive, DoomedBare, PathInv, [Next]_vars
    PROVE  DoomedBare'
  <1> USE TypeParts
  <1>1. SUFFICES ASSUME NEW c \in CR, NEW x \in CR, obj'[x].phase = "guarded",
                        AddrOf[c] = AddrOf[x],
                        NEW v \in Versions(c)', BeingDeleted(v), v.iface # None
                 PROVE  FALSE
    BY DEF DoomedBare, BeingDeleted
  <1>2. v \notin Versions(c)
    <2> SUFFICES ASSUME v \in Versions(c) PROVE FALSE
      OBVIOUS
    <2>1. obj[x].phase # "guarded"
      BY <1>1 DEF DoomedBare
    <2>2. At("addFinalizer") /\ w.cr = x
      BY <1>1, <2>1, GuardedBy
    <2> QED
      BY <1>1, <2>2 DEF PathInv
  <1>3. PICK d \in CR, u \in Version : Written(d, u)
    BY <1>2, VersionsShrink, ObjectChanges
  <1>4. c = d /\ v = u /\ obj'[d] = u /\ (x # d => obj'[x] = obj[x])
    <2>1. \A s \in Versions(c)' : s \in Versions(c) \/ (c = d /\ s = u)
      BY <1>3, VersionsWritten
    <2>2. obj'[d] = u /\ (x # d => obj'[x] = obj[x])
      BY <1>3, VersionsWritten
    <2> QED
      BY <1>2, <2>1, <2>2
  <1>5. x # d /\ obj[x].phase = "guarded"
    BY <1>1, <1>4 DEF BeingDeleted
  <1>6. obj[d].phase # "gone"
    BY <1>1, <1>3, <1>4 DEF Written, Becomes, Born, Dies, Moves, Annotated, BeingDeleted,
       HasFinalizer
  <1> QED
    BY <1>1, <1>4, <1>5, <1>6 DEF Exclusive

\* NetBox never gives an id twice, and a record keeps its address.
LEMMA RecordsStay ==
    ASSUME TypeOK, [Next]_vars
    PROVE  /\ nextId \in Nat /\ nextId' \in Nat /\ nextId <= nextId'
           /\ \A id \in DOMAIN nb' :
                  id < nextId => id \in DOMAIN nb /\ nb'[id].addr = nb[id].addr
  <1> USE TypeParts
  <1>1. /\ nextId \in Nat /\ DOMAIN nb \in SUBSET Nat
        /\ nb \in [DOMAIN nb -> Record]
    BY DEF NetBoxType
  <1> DEFINE P == /\ nextId' \in Nat /\ nextId <= nextId'
                  /\ \A id \in DOMAIN nb' :
                        id < nextId => id \in DOMAIN nb /\ nb'[id].addr = nb[id].addr
  <1>2. ASSUME UNCHANGED <<nb, nextId>> PROVE P
    BY <1>1, <1>2
  <1>3. ASSUME NEW a, NEW i, NewRecord(a, i) PROVE P
    <2>1. /\ DOMAIN nb' = DOMAIN nb \cup {nextId} /\ nextId' = nextId + 1
          /\ \A id \in DOMAIN nb : id # nextId => nb'[id] = nb[id]
      BY <1>3 DEF NewRecord
    <2>2. ~(nextId < nextId)
      BY <1>1
    <2> QED
      BY <1>1, <2>1, <2>2
  <1>4. ASSUME NEW id \in DOMAIN nb, DropRecord(id) PROVE P
    BY <1>1, <1>4 DEF DropRecord
  <1>5. ASSUME NEW id \in DOMAIN nb, NEW i \in Iface, EditAssign(id, i) PROVE P
    <2>1. nb' = [nb EXCEPT ![id].iface = i] /\ nextId' = nextId
      BY <1>5 DEF EditAssign
    <2>2. DOMAIN nb' = DOMAIN nb /\ \A x \in DOMAIN nb : nb[x] \in Record
      BY <1>1, <2>1
    <2>3. \A x \in DOMAIN nb : nb'[x].addr = nb[x].addr
      BY <2>1, <2>2 DEF Record
    <2> QED
      BY <1>1, <2>1, <2>2, <2>3
  <1> SUFFICES P
    BY <1>1
  <1> HIDE DEF P
  <1>6. CASE Step
    <2>1. CASE CreateIP
      BY <1>3, <2>1 DEF CreateIP
    <2>2. CASE DeleteIP
      BY <1>2, <1>4, <2>2 DEF DeleteIP, netbox
    <2>3. CASE PrimaryIP
      BY <1>2, <2>3 DEF PrimaryIP, netbox
    <2>4. CASE ~CreateIP /\ ~DeleteIP /\ ~PrimaryIP
      <3>1. UNCHANGED netbox
        BY <1>6, <2>4 DEF Step, AddFinalizer, ReconcileDelete, RemoveFinalizer, FindDeviceName,
           GetDevice, GetInterfaces, LookupIP, UpdateMetadata, SetConflict
      <3> QED
        BY <1>2, <3>1 DEF netbox
    <2> QED
      BY <2>1, <2>2, <2>3, <2>4
  <1>7. CASE \/ \E c \in CR : Start(c)
             \/ Deliver \/ Resync \/ CallFails \/ Crash \/ UNCHANGED vars
    <2>1. UNCHANGED <<nb, nextId>>
      BY <1>7 DEF Start, Deliver, Resync, CallFails, Crash, vars, netbox
    <2> QED
      BY <1>2, <2>1
  <1>8. CASE Environment
    <2>1. CASE \E c \in CR : CreateCR(c) \/ BindServer(c) \/ DeleteCR(c) \/ OtherRelease(c)
      <3>1. UNCHANGED <<nb, nextId>>
        BY <2>1 DEF CreateCR, BindServer, DeleteCR, OtherRelease, netbox
      <3> QED
        BY <1>2, <3>1
    <2>2. CASE \E a \in Addr, i \in Iface : EditCreate(a, i)
      BY <1>3, <2>2 DEF EditCreate
    <2>3. CASE \E id \in DOMAIN nb : EditDelete(id)
      BY <1>4, <2>3 DEF EditDelete
    <2>4. CASE \E id \in DOMAIN nb : \E i \in Iface : EditAssign(id, i)
      BY <1>5, <2>4
    <2>5. CASE \E i \in Iface, d \in Device : EditMove(i, d)
      <3>1. UNCHANGED <<nb, nextId>>
        BY <2>5 DEF EditMove, netbox
      <3> QED
        BY <1>2, <3>1
    <2> QED
      BY <1>8, <2>1, <2>2, <2>3, <2>4, <2>5 DEF Environment
  <1> QED
    BY <1>6, <1>7, <1>8 DEF Next

\* A call that starts.
LEMMA PathStart ==
    ASSUME TypeOK, FinalizerInv, AddressInv, NEW c \in CR, Start(c)
    PROVE  PathInv'
  <1> USE TypeParts
  <1>1. /\ UNCHANGED <<obj, cache, stream>>
        /\ cache[c] \in Versions(c) /\ cache[c] \in Version
    BY SeenType DEF Start, k8s, Versions
  <1>2. \A x \in CR : Versions(x)' = Versions(x)
    BY <1>1 DEF Versions, Seen
  <1>3. CASE w' = IdleWorker
    BY <1>3 DEF PathInv, At, IdleWorker, NormalPath, DeletePath, HasRecord
  <1>4. CASE w' # IdleWorker
    <2>1. /\ cache[c].phase # "gone" /\ w'.cr = c /\ w'.snap = cache[c]
          /\ w'.pc = IF BeingDeleted(cache[c]) THEN "reconcileDelete"
                     ELSE IF ~HasFinalizer(cache[c]) THEN "addFinalizer"
                     ELSE "findDeviceName"
      BY <1>4 DEF Start, IdleWorker
    <2>2. w'.pc \in NormalPath => cache[c].phase = "guarded"
      BY <2>1 DEF NormalPath, BeingDeleted, HasFinalizer
    <2>3. w'.pc \notin HasRecord /\ w'.pc # "deleteIP"
      BY <2>1 DEF HasRecord
    <2>4. w'.pc \in DeletePath /\ cache[c].iface # None =>
            \A x \in CR : AddrOf[x] = AddrOf[c] => obj[x].phase # "guarded"
      BY <1>1, <2>1 DEF DeletePath, AddressInv, DoomedBare
    <2>5. ASSUME w'.pc = "addFinalizer", NEW x \in CR, AddrOf[x] = AddrOf[c],
                 NEW u \in Versions(x), u.iface # None
          PROVE  FALSE
      <3>1. cache[c].phase = "bare"
        BY <1>1, <2>1, <2>5 DEF BeingDeleted, HasFinalizer, Version, Phase
      <3>2. u.phase \notin {"bare", "gone"} /\ Rank(cache[x]) >= 5 * u.gen + 1
        BY <2>5 DEF AddressInv, AnnotatedSeen
      <3>3. /\ u \in Version /\ cache[x] \in Version
            /\ Rank(cache[x]) <= Rank(u)
        BY VersionsRank
      <3>4. /\ u.gen \in Nat /\ cache[x].gen \in Nat
            /\ Rank(u) \in {5 * u.gen + 1, 5 * u.gen + 2, 5 * u.gen + 3}
        BY <3>2, <3>3, RankType DEF Phase
      <3>5. CASE x = c
        <4>1. Rank(cache[x]) = 5 * cache[x].gen
          BY <3>1, <3>3, <3>5, RankType
        <4> QED
          BY <3>2, <3>3, <3>4, <4>1
      <3>6. CASE x # c
        <4>1. 0 \in 0..Len(stream) /\ \A i \in 1..0 : FALSE
          BY DEF K8sType
        <4>2. Shows(c, 0, cache[c]) /\ Shows(x, 0, cache[x])
          BY <4>1 DEF Shows
        <4>3. cache[x].phase = "gone"
          BY <1>1, <2>5, <3>1, <3>3, <3>6, <4>1, <4>2 DEF AddressInv, TurnsInv, TakeTurns
        <4>4. Rank(cache[x]) = 5 * cache[x].gen + 4
          BY <3>3, <4>3, RankType
        <4> QED
          BY <3>2, <3>3, <3>4, <4>4
      <3> QED
        BY <3>5, <3>6
    <2> QED
      BY <1>1, <1>2, <2>1, <2>2, <2>3, <2>4, <2>5 DEF PathInv, At
  <1> QED
    BY <1>3, <1>4

\* A step of the call, or its end.
LEMMA PathStep ==
    ASSUME TypeOK, PathInv, Step
    PROVE  PathInv'
  <1> USE TypeParts
  <1>1. ~At("idle") /\ w \in Workers /\ w.cr \in CR
    BY DEF WorkerType, Step, AddFinalizer, ReconcileDelete, DeleteIP, RemoveFinalizer,
       FindDeviceName, GetDevice, GetInterfaces, LookupIP, CreateIP, PrimaryIP,
       UpdateMetadata, SetConflict, At
  <1>2. CASE w' = IdleWorker
    BY <1>2 DEF PathInv, At, IdleWorker, NormalPath, DeletePath, HasRecord
  <1>3. CASE ReconcileDelete /\ w' # IdleWorker
    <2>1. /\ obj' = obj /\ nb' = nb /\ nextId' = nextId
          /\ w'.cr = w.cr /\ w'.snap = w.snap /\ w.pc \in DeletePath
          /\ \/ w'.pc = "removeFinalizer"
             \/ w'.pc = "deleteIP" /\ w'.ip \in Hits(AddrOf[w.cr]) /\ w.snap.iface # None
      BY <1>1, <1>3 DEF ReconcileDelete, Goto, Fail, At, k8s, netbox, Workers, DeletePath
    <2>2. \A id \in Hits(AddrOf[w.cr]) : id < nextId /\ nb[id].addr = AddrOf[w.cr]
      BY DEF Hits, NetBoxType
    <2> QED
      BY <2>1, <2>2 DEF PathInv, At, NormalPath, DeletePath, HasRecord
  <1>4. CASE DeleteIP /\ w' # IdleWorker
    <2>1. /\ obj' = obj /\ w'.cr = w.cr /\ w'.snap = w.snap /\ w.pc \in DeletePath
          /\ w'.pc = "removeFinalizer"
      BY <1>1, <1>4 DEF DeleteIP, Goto, Fail, At, k8s, Workers, DeletePath
    <2> QED
      BY <2>1 DEF PathInv, At, NormalPath, DeletePath, HasRecord
  <1>5. CASE (FindDeviceName \/ GetDevice \/ GetInterfaces \/ PrimaryIP) /\ w' # IdleWorker
    <2>1. /\ w'.cr = w.cr /\ w'.snap = w.snap /\ w.pc \in NormalPath
          /\ w'.pc \in {"getDevice", "getInterfaces", "lookupIP", "updateMetadata"}
      BY <1>1, <1>5 DEF FindDeviceName, GetDevice, GetInterfaces, PrimaryIP, Goto, Fail, At,
         Workers, NormalPath
    <2> QED
      BY <2>1 DEF PathInv, At, NormalPath, DeletePath, HasRecord
  <1>6. CASE LookupIP /\ w' # IdleWorker
    <2>1. /\ nb' = nb /\ nextId' = nextId
          /\ w'.cr = w.cr /\ w'.snap = w.snap /\ w.pc \in NormalPath
          /\ \/ w'.pc \in {"createIP", "setConflict"}
             \/ w'.pc = "primaryIP" /\ w'.ip \in Hits(AddrOf[w.cr])
      BY <1>1, <1>6 DEF LookupIP, Goto, Fail, At, netbox, Workers, NormalPath
    <2>2. \A id \in Hits(AddrOf[w.cr]) : id < nextId /\ nb[id].addr = AddrOf[w.cr]
      BY DEF Hits, NetBoxType
    <2> QED
      BY <2>1, <2>2 DEF PathInv, At, NormalPath, DeletePath, HasRecord
  <1>7. CASE CreateIP
    <2>1. /\ w'.cr = w.cr /\ w'.snap = w.snap /\ w.pc \in NormalPath
          /\ w'.pc = "primaryIP" /\ w'.ip = nextId
      BY <1>1, <1>7 DEF CreateIP, At, Workers, NormalPath
    <2>2. nb'[nextId].addr = AddrOf[w.cr] /\ nextId < nextId'
      BY <1>7 DEF CreateIP, NewRecord, NetBoxType
    <2> QED
      BY <2>1, <2>2 DEF PathInv, At, NormalPath, DeletePath, HasRecord
  <1>8. CASE AddFinalizer \/ RemoveFinalizer \/ UpdateMetadata \/ SetConflict
    <2>1. w' = IdleWorker
      BY <1>8 DEF AddFinalizer, RemoveFinalizer, UpdateMetadata, SetConflict, PatchAnnotations,
         Fail, Done
    <2> QED
      BY <1>2, <2>1
  <1> QED
    BY <1>2, <1>3, <1>4, <1>5, <1>6, <1>7, <1>8 DEF Step

\* What happens around the call.
LEMMA PathOther ==
    ASSUME TypeOK, FinalizerInv, PathInv, [Next]_vars, w' = w
    PROVE  PathInv'
  <1> USE TypeParts
  <1>1. w.pc \in HasRecord =>
          w.ip < nextId' /\ (w.ip \in DOMAIN nb' => nb'[w.ip].addr = AddrOf[w.cr])
    <2> SUFFICES ASSUME w.pc \in HasRecord
                 PROVE  w.ip < nextId' /\ (w.ip \in DOMAIN nb' => nb'[w.ip].addr = AddrOf[w.cr])
      OBVIOUS
    <2>1. w.ip \in Nat /\ w.ip < nextId /\ (w.ip \in DOMAIN nb => nb[w.ip].addr = AddrOf[w.cr])
      BY DEF PathInv, WorkerType
    <2> QED
      BY <2>1, RecordsStay
  <1>2. ASSUME NEW x \in CR, obj'[x].phase = "guarded", obj[x].phase # "guarded"
        PROVE  At("addFinalizer")
    BY <1>2, GuardedBy
  <1>3. ASSUME At("addFinalizer"), NEW x \in CR, AddrOf[x] = AddrOf[w.cr],
               NEW u \in Versions(x)'
        PROVE  u.iface = None
    <2>1. u \in Versions(x) => u.iface = None
      BY <1>3 DEF PathInv
    <2>2. CASE Deliver \/ Crash \/ UNCHANGED <<obj, cache, stream>>
      BY <2>1, <2>2, VersionsShrink
    <2>3. ASSUME NEW c \in CR, NEW v \in Version, Written(c, v), u \notin Versions(x)
          PROVE  u.iface = None
      <3>1. x = c /\ u = v /\ obj[c] \in Versions(c)
        BY <2>3, VersionsWritten DEF Versions
      <3>2. obj[c].iface = None /\ ~At("updateMetadata")
        BY <1>3, <3>1 DEF PathInv, At
      <3> QED
        BY <2>3, <3>1, <3>2 DEF Written, Becomes, Born, Dies, Moves, Annotated
    <2> QED
      BY <2>1, <2>2, <2>3, ObjectChanges
  <1>4. w.pc \in DeletePath => ~At("addFinalizer")
    BY DEF At, DeletePath
  <1> QED
    BY <1>1, <1>2, <1>3, <1>4 DEF PathInv, At

LEMMA AddressStep ==
    ASSUME TypeOK, FinalizerInv, AddressInv, [Next]_vars
    PROVE  AddressInv'
  <1>1. TurnsInv' /\ AnnotatedSeen' /\ DoomedBare'
    BY TurnsStep, AnnotatedStep, DoomedStep DEF AddressInv, TurnsInv
  <1> SUFFICES PathInv'
    BY <1>1 DEF AddressInv
  <1>2. CASE \E c \in CR : Start(c)
    BY <1>2, PathStart DEF AddressInv
  <1>3. CASE Step
    BY <1>3, PathStep DEF AddressInv
  <1>4. CASE CallFails \/ Crash
    <2>1. w' = IdleWorker
      BY <1>4 DEF CallFails, Crash, Fail
    <2> QED
      BY <2>1 DEF PathInv, At, IdleWorker, NormalPath, DeletePath, HasRecord
  <1>5. CASE Deliver \/ Resync \/ Environment \/ UNCHANGED vars
    <2>1. w' = w
      BY <1>5 DEF Deliver, Resync, Environment, CreateCR, BindServer, DeleteCR, OtherRelease,
         EditCreate, EditAssign, EditDelete, EditMove, vars
    <2> QED
      BY <2>1, PathOther DEF AddressInv
  <1> QED
    BY <1>2, <1>3, <1>4, <1>5 DEF Next

LEMMA AddressInit == Init => AddressInv
  <1> SUFFICES ASSUME Init PROVE AddressInv
    OBVIOUS
  <1>1. /\ Len(stream) = 0 /\ DOMAIN stream = {}
        /\ \A c \in CR : obj[c] = NoVersion /\ cache[c] = NoVersion
    BY DEF Init
  <1>2. \A c \in CR : Versions(c) = {NoVersion}
    BY <1>1 DEF Versions, Seen
  <1>3. NoVersion.phase = "gone" /\ NoVersion.iface = None
    BY DEF NoVersion
  <1>4. ASSUME NEW c \in CR, NEW n \in 0..Len(stream), NEW v, Shows(c, n, v)
        PROVE  v = NoVersion
    <2>1. \A i \in 1..n : FALSE
      BY <1>1
    <2> QED
      BY <1>1, <1>4, <2>1 DEF Shows
  <1>5. TurnsInv
    BY <1>1, <1>3, <1>4 DEF TurnsInv, Exclusive, CatchesUp, TakeTurns
  <1>6. AnnotatedSeen /\ DoomedBare
    BY <1>2, <1>3 DEF AnnotatedSeen, DoomedBare
  <1>7. PathInv
    BY DEF Init, PathInv, At, IdleWorker, NormalPath, DeletePath, HasRecord
  <1> QED
    BY <1>5, <1>6, <1>7 DEF AddressInv

\* Records change by the hand of an operator, or in two steps of the worker.
LEMMA RecordsChange ==
    ASSUME TypeOK, [Next]_vars, edits' = edits
    PROVE  /\ ifaceDev' = ifaceDev
           /\ UNCHANGED <<nb, nextId>> \/ CreateIP \/ (DeleteIP /\ w.ip \in DOMAIN nb /\ DropRecord(w.ip))
  <1>1. ~\E a \in Addr, i \in Iface : EditCreate(a, i)
    BY TypeParts DEF EditCreate, Edit, EnvType
  <1>2. ~\E id \in DOMAIN nb : EditDelete(id) \/ \E i \in Iface : EditAssign(id, i)
    BY TypeParts DEF EditDelete, EditAssign, Edit, EnvType
  <1>3. ~\E i \in Iface, d \in Device : EditMove(i, d)
    BY TypeParts DEF EditMove, Edit, EnvType
  <1>4. CASE Environment
    <2>1. PICK c \in CR : CreateCR(c) \/ BindServer(c) \/ DeleteCR(c) \/ OtherRelease(c)
      BY <1>1, <1>2, <1>3, <1>4 DEF Environment
    <2> QED
      BY <2>1 DEF CreateCR, BindServer, DeleteCR, OtherRelease, netbox, env
  <1>5. CASE \/ \E c \in CR : Start(c)
             \/ Deliver \/ Resync \/ CallFails \/ Crash \/ UNCHANGED vars
    BY <1>5 DEF Start, Deliver, Resync, CallFails, Crash, vars, netbox, env
  <1>6. CASE Step
    <2>1. ifaceDev' = ifaceDev
      BY <1>6 DEF Step, AddFinalizer, ReconcileDelete, DeleteIP, RemoveFinalizer, FindDeviceName,
         GetDevice, GetInterfaces, LookupIP, CreateIP, PrimaryIP, UpdateMetadata, SetConflict, env
    <2>2. CASE DeleteIP
      BY <2>1, <2>2 DEF DeleteIP, netbox
    <2>3. CASE PrimaryIP
      BY <2>1, <2>3 DEF PrimaryIP, netbox
    <2>4. CASE ~CreateIP /\ ~DeleteIP /\ ~PrimaryIP
      <3>1. UNCHANGED netbox
        BY <1>6, <2>4 DEF Step, AddFinalizer, ReconcileDelete, RemoveFinalizer, FindDeviceName,
           GetDevice, GetInterfaces, LookupIP, UpdateMetadata, SetConflict
      <3> QED
        BY <2>1, <3>1 DEF netbox
    <2> QED
      BY <2>1, <2>2, <2>3, <2>4
  <1> QED
    BY <1>4, <1>5, <1>6 DEF Next

\* Who is gone from NetBox without an operator was deleted by the worker, whose
\* address nobody lives with.
LEMMA DeletesStep ==
    ASSUME TypeOK, AddressInv, [Next]_vars,
           NEW id \in DOMAIN nb \ DOMAIN nb', edits' = edits,
           NEW c \in CR, AddrOf[c] = nb[id].addr
    PROVE  obj[c].phase # "guarded"
  <1>1. DOMAIN nb' = DOMAIN nb \ {w.ip} => id = w.ip
    OBVIOUS
  <1>2. DeleteIP /\ DropRecord(w.ip)
    <2>1. ~CreateIP /\ ~UNCHANGED <<nb, nextId>>
      BY DEF CreateIP, NewRecord
    <2> QED
      BY <2>1, RecordsChange
  <1>3. id = w.ip
    BY <1>1, <1>2 DEF DropRecord
  <1>4. At("deleteIP") /\ w.pc \in DeletePath /\ w.pc \in HasRecord
    BY <1>2 DEF DeleteIP, At, DeletePath, HasRecord
  <1>5. nb[id].addr = AddrOf[w.cr] /\ w.snap.iface # None
    BY <1>3, <1>4 DEF AddressInv, PathInv
  <1> QED
    BY <1>4, <1>5 DEF AddressInv, PathInv

\* A record is never deleted for the past: without an operator's doing, no live
\* object with the finalizer loses the record of its address, be it the object
\* of that name made anew or another one that was given the address since;
\* however far the cache lags and wherever the manager crashes.
THEOREM DeletesSafe == Spec => DeletesOnlyForDeleted
  <1>1. TypeOK /\ AddressInv /\ [Next]_vars =>
          [\A id \in DOMAIN nb \ DOMAIN nb' :
             edits' = edits =>
               \A c \in CR : AddrOf[c] = nb[id].addr => obj[c].phase # "guarded"]_vars
    BY DeletesStep
  <1>2. TypeOK /\ FinalizerInv /\ AddressInv /\ [Next]_vars => AddressInv'
    BY AddressStep
  <1> QED
    BY <1>1, <1>2, AddressInit, TypeCorrect, FinalizerInvariant, PTL
       DEF Spec, DeletesOnlyForDeleted

(***************************************************************************)
(* The annotations tell the truth.  As long as nobody edits NetBox there   *)
(* is one right answer for an object, from the time its claim chain leads  *)
(* to a device: what the worker has found so far, what the snapshot of a   *)
(* call says, and what any version says that is still on its way, agree    *)
(* with it.                                                                *)
(***************************************************************************)
Highest(S) == CHOOSE i \in S : \A j \in S : LagNum[j] <= LagNum[i]

Wanted(d, i) == Lags(d) # {} /\ i = TargetIface(d)

Stored(a, i) == \E id \in Hits(a) : nb[id].iface = i

\* The versions of c there are, the snapshot of the call that works on it
\* included.
Known(c) == Versions(c) \cup {v \in {w.snap} : ~At("idle") /\ w.cr = c}

\* v says nothing yet, or what it should; then so does the object.
SaysRight(c, v) ==
    \/ v.iface = None /\ v.device = None
    \/ /\ bound[c] # None /\ Wanted(bound[c], v.iface) /\ v.device = bound[c]
       /\ obj[c].iface # None

VersionsRight ==
    \A c \in CR : \A v \in Known(c) :
        v.gen = obj[c].gen /\ obj[c].phase # "gone" => SaysRight(c, v)

FoundRight ==
    /\ w.pc \in HasDevice => w.device = bound[w.cr]
    /\ w.pc \in HasIface => Wanted(w.device, w.iface)
    /\ At("primaryIP") => w.ip \in Hits(AddrOf[w.cr]) /\ nb[w.ip].iface = w.iface
    /\ At("updateMetadata") => Stored(AddrOf[w.cr], w.iface)

RecordsRight ==
    \A c \in CR : obj[c].phase = "guarded" /\ obj[c].iface # None =>
        Stored(AddrOf[c], obj[c].iface)

TruthInv == edits = 0 => VersionsRight /\ FoundRight /\ RecordsRight

-----------------------------------------------------------------------------
\* The right answer depends on the cabling alone.
LEMMA WantedStays ==
    ASSUME ifaceDev' = ifaceDev, NEW d, NEW i
    PROVE  Wanted(d, i)' <=> Wanted(d, i)
  <1>1. Lags(d)' = Lags(d)
    BY DEF Lags
  <1>2. TargetIface(d) = Highest(Lags(d))
    BY DEF TargetIface, Highest
  <1>3. TargetIface(d)' = Highest(Lags(d)')
    BY DEF TargetIface, Highest
  <1>4. TargetIface(d)' = TargetIface(d)
    BY <1>1, <1>2, <1>3
  <1> QED
    BY <1>1, <1>4 DEF Wanted

LEMMA WantedIface ==
    ASSUME EnvType, NEW d \in Device, NEW i, Wanted(d, i)
    PROVE  i \in Iface /\ i # None /\ ifaceDev[i] = d
  <1>1. i \in Lags(d)
    BY TargetInLags DEF Wanted
  <1> QED
    BY <1>1, NoneAssumption DEF Lags

\* A name keeps its device while its object exists.
LEMMA BoundStays ==
    ASSUME TypeOK, [Next]_vars, NEW c \in CR
    PROVE  bound'[c] = bound[c] \/ bound[c] = None \/ obj[c].phase = "gone"
  <1> USE TypeParts
  <1>1. CASE \E x \in CR : CreateCR(x) \/ BindServer(x)
    <2>1. PICK x \in CR, d \in Device \cup {None} :
             /\ bound' = [bound EXCEPT ![x] = d]
             /\ bound[x] = None \/ obj[x].phase = "gone"
      BY <1>1 DEF CreateCR, BindServer
    <2> QED
      BY <2>1 DEF EnvType
  <1>2. CASE Step
    BY <1>2 DEF Step, AddFinalizer, ReconcileDelete, DeleteIP, RemoveFinalizer, FindDeviceName,
       GetDevice, GetInterfaces, LookupIP, CreateIP, PrimaryIP, UpdateMetadata, SetConflict, env
  <1>3. CASE \/ \E x \in CR : Start(x) \/ DeleteCR(x) \/ OtherRelease(x)
             \/ Deliver \/ Resync \/ CallFails \/ Crash \/ UNCHANGED vars
    BY <1>3 DEF Start, DeleteCR, OtherRelease, Deliver, Resync, CallFails, Crash, vars, env
  <1>4. CASE \/ \E a \in Addr, i \in Iface : EditCreate(a, i)
             \/ \E id \in DOMAIN nb : EditDelete(id) \/ \E i \in Iface : EditAssign(id, i)
             \/ \E i \in Iface, d \in Device : EditMove(i, d)
    BY <1>4 DEF EditCreate, EditDelete, EditAssign, EditMove
  <1> QED
    BY <1>1, <1>2, <1>3, <1>4 DEF Next, Environment

\* Edits are never undone.
LEMMA EditsStay ==
    ASSUME TypeOK, [Next]_vars, edits' = 0
    PROVE  edits = 0 /\ edits' = edits
  <1> SUFFICES edits' = edits \/ edits' = edits + 1
    BY TypeParts, BoundAssumption DEF EnvType
  <1>1. CASE \/ \E c \in CR : Start(c) \/ CreateCR(c) \/ BindServer(c) \/ DeleteCR(c) \/ OtherRelease(c)
             \/ Deliver \/ Resync \/ CallFails \/ Crash \/ UNCHANGED vars
    BY <1>1 DEF Start, CreateCR, BindServer, DeleteCR, OtherRelease, Deliver, Resync, CallFails,
       Crash, vars, env
  <1>2. CASE Step
    BY <1>2 DEF Step, AddFinalizer, ReconcileDelete, DeleteIP, RemoveFinalizer, FindDeviceName,
       GetDevice, GetInterfaces, LookupIP, CreateIP, PrimaryIP, UpdateMetadata, SetConflict, env
  <1>3. CASE \/ \E a \in Addr, i \in Iface : EditCreate(a, i)
             \/ \E id \in DOMAIN nb : EditDelete(id) \/ \E i \in Iface : EditAssign(id, i)
             \/ \E i \in Iface, d \in Device : EditMove(i, d)
    BY <1>3 DEF EditCreate, EditDelete, EditAssign, EditMove, Edit
  <1> QED
    BY <1>1, <1>2, <1>3 DEF Next, Environment

\* A record leaves NetBox only when nobody with its address lives with the
\* finalizer.
LEMMA StoredStays ==
    ASSUME TypeOK, PathInv, [Next]_vars, edits' = edits,
           NEW c \in CR, obj[c].phase = "guarded", NEW i, Stored(AddrOf[c], i)
    PROVE  Stored(AddrOf[c], i)'
  <1>1. PICK id \in DOMAIN nb : nb[id].addr = AddrOf[c] /\ nb[id].iface = i
    BY DEF Stored, Hits
  <1>2. SUFFICES id \in DOMAIN nb' /\ nb'[id] = nb[id]
    BY <1>1 DEF Stored, Hits
  <1>3. CASE UNCHANGED <<nb, nextId>>
    BY <1>3
  <1>4. CASE CreateIP
    <2>1. id # nextId
      BY TypeParts DEF NetBoxType
    <2> QED
      BY <1>4, <2>1 DEF CreateIP, NewRecord
  <1>5. CASE DeleteIP /\ w.ip \in DOMAIN nb /\ DropRecord(w.ip)
    <2>1. At("deleteIP") /\ w.pc \in DeletePath /\ w.pc \in HasRecord
      BY <1>5 DEF DeleteIP, At, DeletePath, HasRecord
    <2>2. nb[w.ip].addr = AddrOf[w.cr] /\ AddrOf[c] # AddrOf[w.cr]
      BY <1>5, <2>1 DEF PathInv
    <2> QED
      BY <1>1, <1>5, <2>2 DEF DropRecord
  <1> QED
    BY <1>3, <1>4, <1>5, RecordsChange

\* What is known of c is no newer than c.
LEMMA KnownAge ==
    ASSUME TypeOK, FinalizerInv, NEW c \in CR, NEW v \in Known(c)
    PROVE  /\ v \in Version /\ obj[c] \in Version
           /\ v.gen \in Nat /\ obj[c].gen \in Nat /\ v.gen <= obj[c].gen
  <1> USE TypeParts
  <1>1. /\ obj[c] \in Version /\ cache[c] \in Version
        /\ Rank(cache[c]) \in Nat /\ Rank(obj[c]) \in Nat /\ Rank(cache[c]) <= Rank(obj[c])
    BY VersionsRank DEF Versions, K8sType
  <1>2. v \in Version /\ Rank(v) \in Nat /\ Rank(v) <= Rank(obj[c])
    <2>1. CASE v \in Versions(c)
      BY <2>1, VersionsRank
    <2>2. CASE v = w.snap /\ ~At("idle") /\ w.cr = c
      <3>1. v \in Version /\ Rank(v) <= Rank(cache[c])
        BY <2>2 DEF WorkerType, Workers, FinalizerInv, WorkerInv
      <3>2. Rank(v) \in Nat
        BY <3>1, RankType
      <3> QED
        BY <1>1, <3>1, <3>2
    <2> QED
      BY <2>1, <2>2 DEF Known
  <1>3. v.gen \in Nat /\ obj[c].gen \in Nat
    BY <1>1, <1>2 DEF Version
  <1>4. /\ Rank(v) >= 5 * v.gen /\ Rank(obj[c]) <= 5 * obj[c].gen + 4
    <2>1. /\ v.phase \in Phase /\ obj[c].phase \in Phase
      BY <1>1, <1>2 DEF Version
    <2> QED
      BY <1>1, <1>2, <1>3, <2>1, RankType DEF Phase
  <1> QED
    BY <1>1, <1>2, <1>3, <1>4

\* What the worker annotates is what it has found.
LEMMA AnnotatesFound ==
    ASSUME TypeOK, FinalizerInv, VersionsRight, FoundRight,
           NEW c \in CR, NEW v \in Version, Annotated(c, v)
    PROVE  /\ obj[c].phase # "gone" /\ obj[c].gen = v.gen
           /\ bound[c] \in Device /\ Wanted(bound[c], v.iface) /\ v.device = bound[c]
           /\ v.iface # None /\ v.iface = w.iface /\ At("updateMetadata") /\ w.cr = c
  <1> USE TypeParts
  <1>1. /\ At("updateMetadata") /\ w.pc \in HasIface /\ w.pc \in HasDevice /\ w.pc \in NormalPath
        /\ w.cr = c /\ ~At("idle") /\ HasFinalizer(obj[c]) /\ v.gen = obj[c].gen
    BY DEF Annotated, At, HasIface, HasDevice, NormalPath
  <1>2. /\ w.device = bound[c] /\ bound[c] \in Device /\ bound[c] # None
        /\ Wanted(bound[c], w.iface) /\ w.iface # None
    BY <1>1, WantedIface, NoneAssumption DEF FoundRight, WorkerType
  <1>3. w.snap \in Known(c) /\ obj[c] \in Known(c)
    BY <1>1 DEF Known, Versions
  <1>4. w.snap.gen = obj[c].gen /\ obj[c].phase # "gone"
    BY <1>1 DEF FinalizerInv, WorkerInv, HasFinalizer
  <1>5. SaysRight(c, w.snap) /\ SaysRight(c, obj[c])
    BY <1>3, <1>4 DEF VersionsRight
  <1>6. w.iface = w.snap.iface \/ w.device = w.snap.device =>
          obj[c].iface = w.iface /\ obj[c].device = w.device
    BY <1>2, <1>5 DEF SaysRight, Wanted
  <1> QED
    BY <1>1, <1>2, <1>4, <1>6 DEF Annotated

LEMMA VersionsRightStep ==
    ASSUME TypeOK, FinalizerInv, VersionsRight, FoundRight, [Next]_vars, ifaceDev' = ifaceDev,
           \A c \in CR : \A v \in Known(c)' :
               v \in Known(c) \/ \E u \in Version : u = v /\ Written(c, u)
    PROVE  VersionsRight'
  <1> USE TypeParts
  <1>1. SUFFICES ASSUME NEW c \in CR, NEW v \in Known(c)',
                        v.gen = obj'[c].gen, obj'[c].phase # "gone"
                 PROVE  SaysRight(c, v)'
    BY DEF VersionsRight
  <1>2. /\ bound'[c] = bound[c] \/ bound[c] = None \/ obj[c].phase = "gone"
        /\ \A d, i : Wanted(d, i)' <=> Wanted(d, i)
    BY BoundStays, WantedStays
  <1>3. obj[c] \in Known(c)
    BY DEF Known, Versions
  <1>4. CASE v \in Known(c) /\ obj'[c] = obj[c]
    BY <1>1, <1>2, <1>4 DEF VersionsRight, SaysRight
  <1>5. ASSUME NEW u \in Version, Written(c, u), v \in Known(c)
        PROVE  SaysRight(c, v)'
    <2>1. obj'[c] = u
      BY <1>5, VersionsWritten
    <2>2. v.gen \in Nat /\ obj[c].gen \in Nat /\ v.gen <= obj[c].gen
      BY <1>5, KnownAge
    <2>3. ~Born(c, u) /\ ~Dies(c, u)
      BY <1>1, <2>1, <2>2 DEF Born, Dies
    <2>4. CASE Moves(c, u)
      <3>1. obj[c].phase # "gone" /\ v.gen = obj[c].gen /\ obj'[c].iface = obj[c].iface
        BY <1>1, <2>1, <2>4 DEF Moves
      <3>2. SaysRight(c, v)
        BY <1>5, <3>1 DEF VersionsRight
      <3> QED
        BY <1>2, <3>1, <3>2 DEF SaysRight
    <2>5. CASE Annotated(c, u)
      <3>1. obj[c].phase # "gone" /\ v.gen = obj[c].gen /\ obj'[c].iface # None
        BY <1>1, <2>1, <2>5, AnnotatesFound
      <3>2. SaysRight(c, v)
        BY <1>5, <3>1 DEF VersionsRight
      <3> QED
        BY <1>2, <3>1, <3>2 DEF SaysRight
    <2> QED
      BY <1>5, <2>3, <2>4, <2>5 DEF Written, Becomes
  <1>6. ASSUME NEW u \in Version, Written(c, u), u = v
        PROVE  SaysRight(c, v)'
    <2>1. obj'[c] = v
      BY <1>6, VersionsWritten
    <2>2. CASE Born(c, v)
      BY <2>2 DEF Born, SaysRight
    <2>3. ~Dies(c, v)
      BY <1>1, <2>1 DEF Dies
    <2>4. CASE Moves(c, v)
      <3>1. /\ obj[c].phase # "gone"
            /\ v.iface = obj[c].iface /\ v.device = obj[c].device
        BY <1>1, <2>1, <2>4 DEF Moves
      <3>2. SaysRight(c, obj[c])
        BY <1>3, <3>1 DEF VersionsRight
      <3> QED
        BY <1>2, <2>1, <3>1, <3>2 DEF SaysRight
    <2>5. CASE Annotated(c, v)
      <3>1. /\ obj[c].phase # "gone" /\ bound[c] \in Device /\ bound[c] # None
            /\ Wanted(bound[c], v.iface) /\ v.device = bound[c] /\ v.iface # None
        BY <1>6, <2>5, AnnotatesFound, NoneAssumption
      <3> QED
        BY <1>2, <2>1, <3>1 DEF SaysRight
    <2> QED
      BY <1>6, <2>2, <2>3, <2>4, <2>5 DEF Written, Becomes
  <1>7. obj'[c] = obj[c] \/ \E u \in Version : Written(c, u)
    <2>1. ASSUME NEW x \in CR, NEW u \in Version, Written(x, u)
          PROVE  obj'[c] = obj[c] \/ \E s \in Version : Written(c, s)
      <3>1. c # x => obj'[c] = obj[c]
        BY <2>1, VersionsWritten
      <3> QED
        BY <2>1, <3>1
    <2> QED
      BY <2>1, ObjectChanges, VersionsShrink
  <1> QED
    BY <1>1, <1>4, <1>5, <1>6, <1>7

\* What a step adds to what is known of c is what it writes.
LEMMA KnownStep ==
    ASSUME TypeOK, FinalizerInv, [Next]_vars, NEW c \in CR, NEW v \in Known(c)'
    PROVE  v \in Known(c) \/ \E u \in Version : u = v /\ Written(c, u)
  <1> USE TypeParts
  <1>1. CASE v \in Versions(c)'
    <2>1. CASE Deliver \/ Crash \/ UNCHANGED <<obj, cache, stream>>
      BY <1>1, <2>1, VersionsShrink DEF Known
    <2>2. ASSUME NEW x \in CR, NEW u \in Version, Written(x, u)
          PROVE  v \in Known(c) \/ \E s \in Version : s = v /\ Written(c, s)
      <3>1. v \in Versions(c) \/ (c = x /\ v = u)
        BY <1>1, <2>2, VersionsWritten
      <3> QED
        BY <2>2, <3>1 DEF Known
    <2> QED
      BY <2>1, <2>2, ObjectChanges
  <1>2. CASE v = w'.snap /\ w'.pc # "idle" /\ w'.cr = c
    <2>1. CASE \E x \in CR : Start(x)
      <3>1. v = cache[c]
        BY <1>2, <2>1 DEF Start, IdleWorker
      <3> QED
        BY <3>1, SeenType DEF Known, Versions
    <2>2. CASE Step
      <3>1. ~At("idle") /\ w \in Workers
        BY <2>2 DEF WorkerType, Step, AddFinalizer, ReconcileDelete, DeleteIP, RemoveFinalizer,
           FindDeviceName, GetDevice, GetInterfaces, LookupIP, CreateIP, PrimaryIP,
           UpdateMetadata, SetConflict, At
      <3>2. w' = IdleWorker \/ (w'.snap = w.snap /\ w'.cr = w.cr)
        <4>1. CASE AddFinalizer \/ RemoveFinalizer \/ UpdateMetadata \/ SetConflict
          BY <4>1 DEF AddFinalizer, RemoveFinalizer, UpdateMetadata, SetConflict,
             PatchAnnotations, Done, Fail
        <4>2. CASE ReconcileDelete \/ LookupIP
          BY <3>1, <4>2 DEF ReconcileDelete, LookupIP, Goto, Fail, Workers
        <4>3. CASE DeleteIP \/ PrimaryIP
          BY <3>1, <4>3 DEF DeleteIP, PrimaryIP, Goto, Fail, Workers
        <4>4. CASE FindDeviceName \/ GetDevice \/ GetInterfaces \/ CreateIP
          BY <3>1, <4>4 DEF FindDeviceName, GetDevice, GetInterfaces, CreateIP, Fail, Workers
        <4> QED
          BY <2>2, <4>1, <4>2, <4>3, <4>4 DEF Step
      <3> QED
        BY <1>2, <3>1, <3>2 DEF Known, IdleWorker
    <2>3. CASE CallFails \/ Crash
      BY <1>2, <2>3 DEF CallFails, Crash, Fail, IdleWorker
    <2>4. CASE Deliver \/ Resync \/ Environment \/ UNCHANGED vars
      <3>1. w' = w
        BY <2>4 DEF Deliver, Resync, Environment, CreateCR, BindServer, DeleteCR, OtherRelease,
           EditCreate, EditAssign, EditDelete, EditMove, vars
      <3> QED
        BY <1>2, <3>1 DEF Known, At
    <2> QED
      BY <2>1, <2>2, <2>3, <2>4 DEF Next
  <1> QED
    BY <1>1, <1>2 DEF Known, At

\* A step of the call finds what is right.
LEMMA FoundStep ==
    ASSUME TypeOK, FoundRight, Step, ifaceDev' = ifaceDev
    PROVE  FoundRight'
  <1> USE TypeParts
  <1>1. CASE w' = IdleWorker
    BY <1>1 DEF FoundRight, At, IdleWorker, HasDevice, HasIface
  <1>2. w \in Workers /\ bound' = bound
    BY DEF WorkerType, Step, AddFinalizer, ReconcileDelete, DeleteIP, RemoveFinalizer,
       FindDeviceName, GetDevice, GetInterfaces, LookupIP, CreateIP, PrimaryIP,
       UpdateMetadata, SetConflict, env
  <1>3. \A d, i : Wanted(d, i)' <=> Wanted(d, i)
    BY WantedStays
  <1>4. CASE (ReconcileDelete \/ DeleteIP) /\ w' # IdleWorker
    <2>1. w'.pc \in {"deleteIP", "removeFinalizer"}
      BY <1>2, <1>4 DEF ReconcileDelete, DeleteIP, Goto, Fail, Workers
    <2> QED
      BY <2>1 DEF FoundRight, At, HasDevice, HasIface
  <1>5. CASE (FindDeviceName \/ GetDevice) /\ w' # IdleWorker
    <2>1. w'.pc \in {"getDevice", "getInterfaces"} /\ w'.device = bound[w.cr] /\ w'.cr = w.cr
      BY <1>2, <1>5 DEF FindDeviceName, GetDevice, Fail, Workers, FoundRight, At, HasDevice
    <2> QED
      BY <1>2, <2>1 DEF FoundRight, At, HasDevice, HasIface
  <1>6. CASE GetInterfaces /\ w' # IdleWorker
    <2>1. /\ w'.pc = "lookupIP" /\ w'.cr = w.cr /\ w'.device = w.device
          /\ w.device = bound[w.cr] /\ Lags(w.device) # {} /\ w'.iface = TargetIface(w.device)
      BY <1>2, <1>6 DEF GetInterfaces, Fail, Workers, FoundRight, At, HasDevice
    <2>2. Wanted(w.device, w'.iface)
      BY <2>1 DEF Wanted
    <2> QED
      BY <1>2, <1>3, <2>1, <2>2 DEF FoundRight, At
  <1>7. CASE LookupIP /\ w' # IdleWorker
    <2>1. /\ w'.cr = w.cr /\ w'.device = w.device /\ w'.iface = w.iface /\ nb' = nb
          /\ w.device = bound[w.cr] /\ Wanted(w.device, w.iface)
          /\ \/ w'.pc \in {"createIP", "setConflict"}
             \/ w'.pc = "primaryIP" /\ w'.ip \in Hits(AddrOf[w.cr]) /\ nb[w'.ip].iface = w.iface
      BY <1>2, <1>7 DEF LookupIP, Goto, Fail, Workers, FoundRight, At, HasDevice, HasIface, netbox
    <2> QED
      BY <1>2, <1>3, <2>1 DEF FoundRight, At, Hits
  <1>8. CASE CreateIP
    <2>1. /\ w'.cr = w.cr /\ w'.device = w.device /\ w'.iface = w.iface
          /\ w.device = bound[w.cr] /\ Wanted(w.device, w.iface)
          /\ w'.pc = "primaryIP" /\ w'.ip = nextId
      BY <1>2, <1>8 DEF CreateIP, Workers, FoundRight, At, HasDevice, HasIface
    <2>2. /\ nextId \in DOMAIN nb' /\ nb'[nextId].addr = AddrOf[w.cr]
          /\ nb'[nextId].iface = w.iface
      BY <1>8 DEF CreateIP, NewRecord
    <2> QED
      BY <1>2, <1>3, <2>1, <2>2 DEF FoundRight, At, Hits
  <1>9. CASE PrimaryIP /\ w' # IdleWorker
    <2>1. /\ w'.cr = w.cr /\ w'.device = w.device /\ w'.iface = w.iface
          /\ w.device = bound[w.cr] /\ Wanted(w.device, w.iface)
          /\ w'.pc = "updateMetadata" /\ nb' = nb
          /\ w.ip \in Hits(AddrOf[w.cr]) /\ nb[w.ip].iface = w.iface
      BY <1>2, <1>9 DEF PrimaryIP, Goto, Fail, Workers, FoundRight, At, HasDevice, HasIface, netbox
    <2> QED
      BY <1>2, <1>3, <2>1 DEF FoundRight, At, Hits, Stored
  <1>10. CASE AddFinalizer \/ RemoveFinalizer \/ UpdateMetadata \/ SetConflict
    <2>1. w' = IdleWorker
      BY <1>10 DEF AddFinalizer, RemoveFinalizer, UpdateMetadata, SetConflict, PatchAnnotations,
         Fail, Done
    <2> QED
      BY <1>1, <2>1
  <1> QED
    BY <1>1, <1>4, <1>5, <1>6, <1>7, <1>8, <1>9, <1>10 DEF Step

\* What it has found stays right.
LEMMA FoundOther ==
    ASSUME TypeOK, FinalizerInv, FoundRight, [Next]_vars, w' = w, edits' = edits
    PROVE  FoundRight'
  <1> USE TypeParts
  <1>1. ifaceDev' = ifaceDev /\ nb' = nb
    <2>1. ~CreateIP /\ ~(DeleteIP /\ w.ip \in DOMAIN nb)
      BY DEF CreateIP, DeleteIP, Goto, At, WorkerType, Workers
    <2> QED
      BY <2>1, RecordsChange
  <1>2. \A d, i : Wanted(d, i)' <=> Wanted(d, i)
    BY <1>1, WantedStays
  <1>3. ASSUME w.pc \in HasDevice PROVE bound'[w.cr] = bound[w.cr]
    <2>1. w.cr \in CR /\ w.device \in Device /\ w.pc \in NormalPath /\ ~At("idle")
      BY <1>3 DEF WorkerType, HasDevice, HasIface, NormalPath, At
    <2>2. bound[w.cr] # None /\ obj[w.cr].phase # "gone"
      BY <1>3, <2>1, NoneAssumption DEF FoundRight, FinalizerInv, WorkerInv, HasFinalizer
    <2> QED
      BY <2>1, <2>2, BoundStays
  <1> QED
    BY <1>1, <1>2, <1>3 DEF FoundRight, At, Hits, Stored

LEMMA RecordsRightStep ==
    ASSUME TypeOK, FinalizerInv, AddressInv, VersionsRight, FoundRight, RecordsRight,
           [Next]_vars, edits' = edits
    PROVE  RecordsRight'
  <1> USE TypeParts
  <1>1. SUFFICES ASSUME NEW c \in CR, NEW i, i = obj'[c].iface, i # None,
                        obj'[c].phase = "guarded"
                 PROVE  Stored(AddrOf[c], i)'
    BY DEF RecordsRight, Stored, Hits
  <1>2. SUFFICES obj[c].phase = "guarded" /\ Stored(AddrOf[c], i)
    BY StoredStays DEF AddressInv
  <1>3. CASE obj'[c] = obj[c]
    BY <1>1, <1>3 DEF RecordsRight
  <1>4. ASSUME NEW x \in CR, NEW v \in Version, Written(x, v), obj'[c] # obj[c]
        PROVE  obj[c].phase = "guarded" /\ Stored(AddrOf[c], i)
    <2>1. c = x /\ obj'[c] = v
      BY <1>4, VersionsWritten
    <2>2. ~Born(c, v) /\ ~Dies(c, v)
      BY <1>1, <2>1 DEF Born, Dies
    <2>3. CASE Moves(c, v)
      <3>1. v.iface = obj[c].iface /\ obj[c].phase \in {"guarded", "bare"}
        BY <1>1, <2>1, <2>3 DEF Moves
      <3>2. obj[c].phase # "bare"
        BY <1>1, <2>1, <3>1 DEF AddressInv, AnnotatedSeen, Versions
      <3> QED
        BY <1>1, <2>1, <3>1, <3>2 DEF RecordsRight
    <2>4. CASE Annotated(c, v)
      <3>1. v.iface = w.iface /\ At("updateMetadata") /\ w.cr = c
        BY <2>4, AnnotatesFound
      <3> QED
        BY <1>1, <2>1, <2>4, <3>1 DEF FoundRight, Annotated
    <2> QED
      BY <1>4, <2>1, <2>2, <2>3, <2>4 DEF Written, Becomes
  <1> QED
    BY <1>3, <1>4, ObjectChanges, VersionsShrink

LEMMA TruthStep ==
    ASSUME TypeOK, FinalizerInv, AddressInv, TruthInv, [Next]_vars
    PROVE  TruthInv'
  <1>1. SUFFICES ASSUME edits' = 0 PROVE VersionsRight' /\ FoundRight' /\ RecordsRight'
    BY DEF TruthInv
  <1>2. edits = 0 /\ edits' = edits
    BY <1>1, EditsStay
  <1>3. VersionsRight /\ FoundRight /\ RecordsRight
    BY <1>2 DEF TruthInv
  <1>4. ifaceDev' = ifaceDev
    BY <1>2, RecordsChange
  <1>5. VersionsRight'
    BY <1>3, <1>4, KnownStep, VersionsRightStep
  <1>6. RecordsRight'
    BY <1>2, <1>3, RecordsRightStep
  <1>7. FoundRight'
    <2>1. CASE \E c \in CR : Start(c)
      <3>1. w'.pc \in {"idle", "reconcileDelete", "addFinalizer", "findDeviceName"}
        BY <2>1 DEF Start, IdleWorker
      <3> QED
        BY <3>1 DEF FoundRight, At, HasDevice, HasIface
    <2>2. CASE Step
      BY <1>3, <1>4, <2>2, FoundStep
    <2>3. CASE CallFails \/ Crash
      <3>1. w' = IdleWorker
        BY <2>3 DEF CallFails, Crash, Fail
      <3> QED
        BY <3>1 DEF FoundRight, At, IdleWorker, HasDevice, HasIface
    <2>4. CASE Deliver \/ Resync \/ Environment \/ UNCHANGED vars
      <3>1. w' = w
        BY <2>4 DEF Deliver, Resync, Environment, CreateCR, BindServer, DeleteCR, OtherRelease,
           EditCreate, EditAssign, EditDelete, EditMove, vars
      <3> QED
        BY <1>2, <1>3, <3>1, FoundOther
    <2> QED
      BY <2>1, <2>2, <2>3, <2>4 DEF Next
  <1> QED
    BY <1>5, <1>6, <1>7

LEMMA TruthInit == Init => TruthInv
  <1> SUFFICES ASSUME Init PROVE VersionsRight /\ FoundRight /\ RecordsRight
    BY DEF TruthInv
  <1>1. \A c \in CR : obj[c].phase = "gone"
    BY DEF Init, NoVersion
  <1>2. FoundRight
    BY DEF Init, FoundRight, At, IdleWorker, HasDevice, HasIface
  <1> QED
    BY <1>1, <1>2 DEF VersionsRight, RecordsRight

LEMMA TruthTold ==
    ASSUME TypeOK, TruthInv
    PROVE  AnnotatedHasRecord
  <1> SUFFICES ASSUME edits = 0, NEW c \in CR, obj[c].phase = "guarded", obj[c].iface # None
               PROVE  /\ \E id \in Hits(AddrOf[c]) : nb[id].iface = obj[c].iface
                      /\ ifaceDev[obj[c].iface] = obj[c].device
    BY DEF AnnotatedHasRecord
  <1>1. \E id \in Hits(AddrOf[c]) : nb[id].iface = obj[c].iface
    BY DEF TruthInv, RecordsRight, Stored
  <1>2. SaysRight(c, obj[c])
    BY DEF TruthInv, VersionsRight, Known, Versions
  <1>3. /\ bound[c] \in Device /\ Wanted(bound[c], obj[c].iface)
        /\ obj[c].device = bound[c]
    BY <1>2, TypeParts DEF SaysRight, EnvType
  <1> QED
    BY <1>1, <1>3, TypeParts, WantedIface

\* As long as no operator edits NetBox, what the annotations of a live object
\* say is so: the record is there, on the interface and the device they name,
\* however old the snapshot they were patched from and whatever was recreated
\* meanwhile.
THEOREM AnnotationsTrue == Spec => []AnnotatedHasRecord
  <1>1. TypeOK /\ FinalizerInv /\ AddressInv /\ [Next]_vars => AddressInv'
    BY AddressStep
  <1>2. TypeOK /\ FinalizerInv /\ AddressInv /\ TruthInv /\ [Next]_vars => TruthInv'
    BY TruthStep
  <1>3. TypeOK /\ TruthInv => AnnotatedHasRecord
    BY TruthTold
  <1> QED
    BY <1>1, <1>2, <1>3, AddressInit, TruthInit, TypeCorrect, FinalizerInvariant, PTL DEF Spec
=============================================================================
