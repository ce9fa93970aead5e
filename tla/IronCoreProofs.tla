--------------------------- MODULE IronCoreProofs ---------------------------
(***************************************************************************)
(* What holds of IronCore for every value of its constants: its variables  *)
(* keep their types, a Ready import is complete, and a call leaves alone   *)
(* the secrets that were ignored when it began.                            *)
(***************************************************************************)
EXTENDS IronCore, VersionSequences

(***************************************************************************)
(* The inductive invariants.                                               *)
(***************************************************************************)
\* The worker is at a device of the list.
InLoop == w.pc \notin {"idle", "list", "status"}

\* The credentials and the list the worker goes by are those in force.
Knows ==
    /\ w.pc \notin {"idle", "status"} => w.creds = creds
    /\ InLoop => w.list = device

\* No version of a secret or of a BMC says anything wrong, a version that is
\* there is not followed by one that is not, and a BMC keeps its UID: a cached
\* version is as good as the current one, and the garbage collector has nothing
\* to collect.
Owned(o, d) == o # None => Last(bmcs[d]).present /\ Last(bmcs[d]).uid = o

SecretsTrue(d) ==
    \A s \in ToSet(secrets[d]) :
        /\ s.present => /\ s.creds = creds /\ s.label = device[d].label
                        /\ Last(secrets[d]).present
        /\ ~s.ignore
        /\ Owned(s.owner, d)

BMCsTrue(d) ==
    \A b \in ToSet(bmcs[d]) :
        b.present => /\ b.label = device[d].label
                     /\ Last(bmcs[d]).present /\ Last(bmcs[d]).uid = b.uid

\* What the worker knows of the objects of the device it is at.
AtDevice ==
    /\ At("writeSecret") => ~w.secret.ignore /\ Owned(w.secret.owner, It)
    /\ w.pc \in {"getBMC", "patchBMC", "createBMC", "patchOwner"} => Last(secrets[It]).present
    /\ At("patchBMC") => w.bmc.present /\ w.bmc.label = device[It].label
    /\ w.pc \in {"patchBMC", "patchOwner"} => Last(bmcs[It]).present
    /\ At("createBMC") => ~w.bmc.present
    /\ At("patchOwner") /\ w.bmc.present => Owned(w.bmc.uid, It)

Provided(d) ==
    device[d].status # "inactive" => Last(secrets[d]).present /\ Last(bmcs[d]).present

\* The devices the loop has been through have their objects, and when it has
\* been through all of them the state to write, or written, is Ready.
Progress ==
    /\ InLoop => \A d \in Device : d \in ToSet(w.todo) \/ Provided(d)
    /\ w.result = "Ready" \/ status = "Ready" => \A d \in Device : Provided(d)

ObjectsTrue == \A d \in Device : SecretsTrue(d) /\ BMCsTrue(d)

\* All of this as long as nobody edits.
ImportNow == Knows /\ ObjectsTrue /\ AtDevice /\ Progress
ImportInv == edits = 0 => ImportNow

\* A secret that was ignored when the call began is ignored in every version
\* there is, so the worker that is at its device has seen so.
KeptInv ==
    /\ \A d \in Device : \A s \in ToSet(secrets[d]) : s.ignore => s.present
    /\ \A d \in w.kept : \A s \in ToSet(secrets[d]) : s.ignore
    /\ ~InLoop /\ ~At("list") => w.kept = {}
    /\ InLoop /\ It \in w.kept =>
         /\ w.pc \notin {"getSecret", "writeSecret", "patchOwner"}
         /\ w.pc \in {"getBMC", "patchBMC", "createBMC"} => w.skipped

-----------------------------------------------------------------------------
(***************************************************************************)
(* Types.                                                                  *)
(***************************************************************************)
LEMMA NoObjects ==
    /\ \A v \in Nat : NoSecret(v) \in Secret /\ NoBMC(v) \in BMC
    /\ IdleWorker \in Worker
  <1>1. \A v \in Nat : NoSecret(v) \in Secret /\ NoBMC(v) \in BMC
    BY BoundAssumption DEF NoSecret, Secret, NoBMC, BMC
  <1>2. <<>> \in Seq(Device)
    OBVIOUS
  <1> QED
    BY <1>1, <1>2, BoundAssumption DEF IdleWorker, Worker, PC, Result

\* What the server makes of a write.
LEMMA StoredSecret ==
    ASSUME NEW s \in Seq(Secret) \ {<<>>}, NEW v \in Secret
    PROVE  /\ Store(s, v) \in Seq(Secret) \ {<<>>}
           /\ \E rv \in Nat : Last(Store(s, v)) = [v EXCEPT !.rv = rv]
           /\ ToSet(Store(s, v)) \in SUBSET (ToSet(s) \cup {Last(Store(s, v))})
  <1>0. Last(s) \in Secret
    BY VersionEnds
  <1>1. Last(s).rv \in Nat /\ Last(s).rv + 1 \in Nat
    BY <1>0 DEF Secret
  <1>2. \A rv \in Nat : [v EXCEPT !.rv = rv] \in Secret
    BY DEF Secret
  <1>3. CASE [v EXCEPT !.rv = Last(s).rv] = Last(s)
    BY <1>1, <1>3 DEF Store
  <1>4. CASE [v EXCEPT !.rv = Last(s).rv] # Last(s)
    <2> DEFINE e == [v EXCEPT !.rv = Last(s).rv + 1]
    <2>1. Store(s, v) = Append(s, e)
      BY <1>4 DEF Store
    <2>2. e \in Secret
      BY <1>1, <1>2
    <2>3. /\ Append(s, e) \in Seq(Secret) \ {<<>>} /\ Last(Append(s, e)) = e
          /\ ToSet(Append(s, e)) = ToSet(s) \cup {e}
      BY <2>2, VersionAppend
    <2> QED
      BY <1>1, <2>1, <2>3
  <1> QED
    BY <1>3, <1>4

LEMMA StoredBMC ==
    ASSUME NEW s \in Seq(BMC) \ {<<>>}, NEW v \in BMC
    PROVE  /\ Store(s, v) \in Seq(BMC) \ {<<>>}
           /\ \E rv \in Nat : Last(Store(s, v)) = [v EXCEPT !.rv = rv]
           /\ ToSet(Store(s, v)) \in SUBSET (ToSet(s) \cup {Last(Store(s, v))})
  <1>0. Last(s) \in BMC
    BY VersionEnds
  <1>1. Last(s).rv \in Nat /\ Last(s).rv + 1 \in Nat
    BY <1>0 DEF BMC
  <1>2. \A rv \in Nat : [v EXCEPT !.rv = rv] \in BMC
    BY DEF BMC
  <1>3. CASE [v EXCEPT !.rv = Last(s).rv] = Last(s)
    BY <1>1, <1>3 DEF Store
  <1>4. CASE [v EXCEPT !.rv = Last(s).rv] # Last(s)
    <2> DEFINE e == [v EXCEPT !.rv = Last(s).rv + 1]
    <2>1. Store(s, v) = Append(s, e)
      BY <1>4 DEF Store
    <2>2. e \in BMC
      BY <1>1, <1>2
    <2>3. /\ Append(s, e) \in Seq(BMC) \ {<<>>} /\ Last(Append(s, e)) = e
          /\ ToSet(Append(s, e)) = ToSet(s) \cup {e}
      BY <2>2, VersionAppend
    <2> QED
      BY <1>1, <2>1, <2>3
  <1> QED
    BY <1>3, <1>4

\* The type of the worker, with what it needs at a device.
WorkerType ==
    /\ w \in Worker
    /\ InLoop => w.list \in [Device -> DeviceState] /\ w.todo # <<>>

ClusterType ==
    /\ secrets \in [Device -> Seq(Secret) \ {<<>>}]
    /\ bmcs \in [Device -> Seq(BMC) \ {<<>>}]
    /\ nextUID \in Nat

RestType ==
    /\ device \in [Device -> DeviceState]
    /\ creds \in 1..edits + 1
    /\ status \in Result
    /\ faults \in 0..MaxFaults /\ edits \in 0..MaxEdits

LEMMA TypeParts ==
    /\ TypeOK <=> WorkerType /\ ClusterType /\ RestType
    /\ TypeOK' <=> WorkerType' /\ ClusterType' /\ RestType'
  BY DEF TypeOK, WorkerType, ClusterType, RestType, InLoop

LEMMA TypeInit == Init => TypeOK
  <1> SUFFICES ASSUME Init PROVE TypeOK
    OBVIOUS
  <1>1. WorkerType
    BY NoObjects DEF Init, WorkerType, InLoop, IdleWorker
  <1>2. ClusterType
    BY NoObjects, VersionSingle DEF Init, ClusterType
  <1>3. RestType
    BY InitAssumption, BoundAssumption DEF Init, RestType, Result
  <1> QED
    BY <1>1, <1>2, <1>3, TypeParts

\* The ways the worker moves on.
LEMMA WorkerMoves ==
    ASSUME WorkerType
    PROVE  /\ w' = IdleWorker => WorkerType'
           /\ \A r \in Result : Finish(r) => WorkerType'
           /\ InLoop /\ NextDevice => WorkerType'
           /\ \A pc \in PC : InLoop /\ Goto(pc) => WorkerType'
  <1>1. w' = IdleWorker => WorkerType'
    BY NoObjects DEF WorkerType, InLoop, IdleWorker
  <1>2. ASSUME NEW r \in Result, Finish(r)
        PROVE  WorkerType'
    <2>1. w' = [IdleWorker EXCEPT !.pc = "status", !.result = r]
      BY <1>2 DEF Finish
    <2>2. w' \in Worker /\ w'.pc = "status"
      BY <2>1, NoObjects DEF Worker, PC
    <2> QED
      BY <2>2 DEF WorkerType, InLoop
  <1>3. ASSUME InLoop, NextDevice
        PROVE  WorkerType'
    <2>1. CASE Len(w.todo) > 1
      <3>1. w.todo \in Seq(Device)
        BY DEF WorkerType, Worker
      <3>2. Tail(w.todo) \in Seq(Device) \ {<<>>}
        BY <2>1, <3>1, VersionTail
      <3>3. /\ w' = [w EXCEPT !.pc = "device", !.todo = Tail(w.todo), !.skipped = FALSE,
                        !.secret = NoSecret(0), !.bmc = NoBMC(0)]
            /\ w \in Worker /\ w.list \in [Device -> DeviceState]
        BY <1>3, <2>1 DEF NextDevice, WorkerType
      <3>4. NoSecret(0) \in Secret /\ NoBMC(0) \in BMC
        BY NoObjects
      <3>5. w' \in Worker /\ w'.list = w.list /\ w'.todo = Tail(w.todo)
        BY <3>2, <3>3, <3>4 DEF Worker, PC
      <3> QED
        BY <3>2, <3>3, <3>5 DEF WorkerType
    <2>2. CASE ~(Len(w.todo) > 1)
      BY <1>2, <1>3, <2>2 DEF NextDevice, Result
    <2> QED
      BY <2>1, <2>2
  <1>4. ASSUME NEW pc \in PC, InLoop, Goto(pc)
        PROVE  WorkerType'
    BY <1>4 DEF Goto, WorkerType, Worker
  <1> QED
    BY <1>1, <1>2, <1>3, <1>4

LEMMA HeadInDevice == WorkerType /\ InLoop => It \in Device
  <1> SUFFICES ASSUME WorkerType, InLoop PROVE It \in Device
    OBVIOUS
  <1>1. w.todo \in Seq(Device) \ {<<>>}
    BY DEF WorkerType, Worker
  <1> QED
    BY <1>1, VersionEnds DEF It

LEMMA StoresType ==
    ASSUME ClusterType, NEW d \in Device
    PROVE  /\ \A v \in Secret :
                StoreSecret(d, v) => secrets' \in [Device -> Seq(Secret) \ {<<>>}]
           /\ \A v \in BMC : StoreBMC(d, v) => bmcs' \in [Device -> Seq(BMC) \ {<<>>}]
  <1>1. secrets[d] \in Seq(Secret) \ {<<>>} /\ bmcs[d] \in Seq(BMC) \ {<<>>}
    BY DEF ClusterType
  <1>2. ASSUME NEW v \in Secret, StoreSecret(d, v)
        PROVE  secrets' \in [Device -> Seq(Secret) \ {<<>>}]
    <2>1. Store(secrets[d], v) \in Seq(Secret) \ {<<>>}
      BY <1>1, StoredSecret
    <2> QED
      BY <1>2, <2>1 DEF StoreSecret, ClusterType
  <1>3. ASSUME NEW v \in BMC, StoreBMC(d, v)
        PROVE  bmcs' \in [Device -> Seq(BMC) \ {<<>>}]
    <2>1. Store(bmcs[d], v) \in Seq(BMC) \ {<<>>}
      BY <1>1, StoredBMC
    <2> QED
      BY <1>3, <2>1 DEF StoreBMC, ClusterType
  <1> QED
    BY <1>2, <1>3

\* The versions at the ends of the sequences of a device.
LEMMA EndsType ==
    ASSUME ClusterType, NEW d \in Device
    PROVE  /\ Head(secrets[d]) \in Secret /\ Last(secrets[d]) \in Secret
           /\ Head(bmcs[d]) \in BMC /\ Last(bmcs[d]) \in BMC
           /\ Head(secrets[d]) \in ToSet(secrets[d]) /\ Last(secrets[d]) \in ToSet(secrets[d])
           /\ Head(bmcs[d]) \in ToSet(bmcs[d]) /\ Last(bmcs[d]) \in ToSet(bmcs[d])
           /\ ToSet(secrets[d]) \in SUBSET Secret /\ ToSet(bmcs[d]) \in SUBSET BMC
  <1>1. secrets[d] \in Seq(Secret) \ {<<>>} /\ bmcs[d] \in Seq(BMC) \ {<<>>}
    BY DEF ClusterType
  <1> QED
    BY <1>1, VersionEnds

\* What the worker writes.
SecretToWrite ==
    [(IF w.secret.present THEN w.secret ELSE NoSecret(0))
        EXCEPT !.present = TRUE, !.creds = w.creds, !.label = w.list[It].label]

BMCToCreate ==
    [NoBMC(0) EXCEPT !.present = TRUE, !.uid = nextUID, !.label = w.list[It].label]

LEMMA WritesType ==
    ASSUME WorkerType, ClusterType, InLoop
    PROVE  SecretToWrite \in Secret /\ BMCToCreate \in BMC
  <1>1. w.list[It].label \in Label /\ w.creds \in 0..MaxEdits + 1
    BY HeadInDevice DEF WorkerType, Worker, DeviceState
  <1>2. (IF w.secret.present THEN w.secret ELSE NoSecret(0)) \in Secret
    BY NoObjects DEF WorkerType, Worker
  <1>3. SecretToWrite \in Secret
    BY <1>1, <1>2 DEF SecretToWrite, Secret
  <1>4. NoBMC(0) \in BMC /\ nextUID \in Nat
    BY NoObjects DEF ClusterType
  <1>5. BMCToCreate \in BMC
    BY <1>1, <1>4 DEF BMCToCreate, BMC
  <1> QED
    BY <1>3, <1>5

LEMMA TypeWorker ==
    ASSUME TypeOK, Start \/ Step
    PROVE  WorkerType'
  <1> USE TypeParts
  <1>0. "Ready" \in Result /\ "Error" \in Result
    BY DEF Result
  <1>1. CASE Start
    <2>1. creds \in 0..MaxEdits + 1
      BY BoundAssumption DEF RestType
    <2>2. w'.pc = "list" /\ w' \in Worker
      BY <1>1, <2>1 DEF Start, WorkerType, Worker, PC
    <2> QED
      BY <2>2 DEF WorkerType, InLoop
  <1>2. CASE ListDevices
    <2>1. Order \in Seq(Device) /\ Order # <<>>
      BY OrderAssumption DEF Device
    <2>2. w' \in Worker /\ w'.todo = Order /\ w'.list = device
      BY <1>2, <2>1 DEF ListDevices, WorkerType, RestType, Worker, PC
    <2> QED
      BY <2>1, <2>2 DEF WorkerType, RestType
  <1>3. CASE ReconcileDevice
    BY <1>0, <1>3, WorkerMoves DEF ReconcileDevice, At, InLoop, Fail, PC
  <1>4. CASE CheckIgnore
    <2>1. InLoop /\ Head(secrets[It]) \in Secret
      BY <1>4, HeadInDevice, EndsType DEF CheckIgnore, At, InLoop
    <2>2. CASE Goto("getSecret")
      BY <2>1, <2>2, WorkerMoves DEF PC
    <2>3. CASE w' = [w EXCEPT !.pc = "getBMC", !.secret = Head(secrets[It]), !.skipped = TRUE]
      BY <2>1, <2>3 DEF WorkerType, Worker, PC
    <2> QED
      BY <1>4, <2>2, <2>3 DEF CheckIgnore
  <1>5. CASE GetSecret
    <2>1. InLoop /\ Head(secrets[It]) \in Secret
      BY <1>5, HeadInDevice, EndsType DEF GetSecret, At, InLoop
    <2>2. PICK pc \in {"getBMC", "writeSecret"} :
            w' = [w EXCEPT !.secret = Head(secrets[It]), !.pc = pc]
      BY <1>5 DEF GetSecret
    <2> QED
      BY <2>1, <2>2 DEF WorkerType, Worker, PC
  <1>6. CASE WriteSecret
    <2>1. InLoop /\ It \in Device
      BY <1>6, HeadInDevice DEF WriteSecret, At, InLoop
    <2>2. CASE Fail
      BY <1>0, <2>2, WorkerMoves DEF Fail
    <2>3. CASE /\ StoreSecret(It, SecretToWrite)
               /\ w' = [w EXCEPT !.pc = "getBMC", !.secret = Last(secrets'[It])]
      <3>1. secrets'[It] \in Seq(Secret) \ {<<>>}
        BY <2>1, <2>3, WritesType, StoresType
      <3>2. Last(secrets'[It]) \in Secret
        BY <3>1, VersionEnds
      <3> QED
        BY <2>1, <2>3, <3>2 DEF WorkerType, Worker, PC
    <2> QED
      BY <1>6, <2>2, <2>3 DEF WriteSecret, SecretToWrite
  <1>7. CASE GetBMC
    <2>1. InLoop /\ Head(bmcs[It]) \in BMC
      BY <1>7, HeadInDevice, EndsType DEF GetBMC, At, InLoop
    <2>2. PICK pc \in {"patchBMC", "createBMC"} :
            w' = [w EXCEPT !.bmc = Head(bmcs[It]), !.pc = pc]
      BY <1>7 DEF GetBMC
    <2> QED
      BY <2>1, <2>2 DEF WorkerType, Worker, PC
  <1>8. CASE PatchBMCLabels \/ PatchOwnerReference
    BY <1>0, <1>8, WorkerMoves DEF PatchBMCLabels, PatchOwnerReference, At, InLoop, Fail
  <1>9. CASE CreateBMC
    <2>1. InLoop /\ BMCToCreate \in BMC
      BY <1>9, WritesType DEF CreateBMC, At, InLoop
    <2>2. CASE NextDevice \/ Goto("patchOwner")
      BY <2>1, <2>2, WorkerMoves DEF PC
    <2>3. CASE w' = [w EXCEPT !.pc = "patchOwner", !.bmc = BMCToCreate]
      BY <2>1, <2>3 DEF WorkerType, Worker, PC
    <2> QED
      BY <1>9, <2>2, <2>3 DEF CreateBMC, BMCToCreate
  <1>10. CASE UpdateStatus
    BY <1>10, WorkerMoves DEF UpdateStatus
  <1> QED
    BY <1>1, <1>2, <1>3, <1>4, <1>5, <1>6, <1>7, <1>8, <1>9, <1>10 DEF Step

LEMMA TypeStep ==
    ASSUME TypeOK, Start \/ Step
    PROVE  TypeOK'
  <1> USE TypeParts
  <1>1. WorkerType'
    BY TypeWorker
  <1>2. CASE \/ Start \/ ListDevices \/ ReconcileDevice \/ CheckIgnore
             \/ GetSecret \/ GetBMC \/ UpdateStatus
    <2>1. ClusterType'
      BY <1>2 DEF Start, ListDevices, ReconcileDevice, CheckIgnore, GetSecret, GetBMC,
         UpdateStatus, cluster, ClusterType
    <2>2. RestType'
      BY <1>2 DEF Start, ListDevices, ReconcileDevice, CheckIgnore, GetSecret, GetBMC,
         UpdateStatus, bounds, RestType, WorkerType, Worker
    <2> QED
      BY <1>1, <2>1, <2>2
  <1>3. CASE WriteSecret \/ PatchBMCLabels \/ CreateBMC \/ PatchOwnerReference
    <2>1. InLoop /\ It \in Device
      BY <1>3, HeadInDevice DEF WriteSecret, PatchBMCLabels, CreateBMC, PatchOwnerReference,
         At, InLoop
    <2>2. RestType'
      BY <1>3 DEF WriteSecret, PatchBMCLabels, CreateBMC, PatchOwnerReference, bounds, RestType
    <2>3. /\ secrets' = secrets \/ \E v \in Secret : StoreSecret(It, v)
          /\ bmcs' = bmcs \/ \E v \in BMC : StoreBMC(It, v)
          /\ nextUID' \in Nat
      <3>1. CASE WriteSecret
        BY <1>3, <2>1, <3>1, WritesType DEF WriteSecret, SecretToWrite, cluster, ClusterType
      <3>2. CASE PatchBMCLabels
        <4>1. [Last(bmcs[It]) EXCEPT !.label = w.list[It].label] \in BMC
          BY <2>1, EndsType DEF BMC, WorkerType, DeviceState
        <4> QED
          BY <3>2, <4>1 DEF PatchBMCLabels, cluster, ClusterType
      <3>3. CASE CreateBMC
        BY <2>1, <3>3, WritesType DEF CreateBMC, BMCToCreate, ClusterType
      <3>4. CASE PatchOwnerReference
        <4>1. [Last(secrets[It]) EXCEPT !.owner = w.bmc.uid] \in Secret
          BY <2>1, EndsType DEF Secret, BMC, WorkerType, Worker
        <4> QED
          BY <3>4, <4>1 DEF PatchOwnerReference, ClusterType
      <3> QED
        BY <1>3, <3>1, <3>2, <3>3, <3>4
    <2>4. ClusterType'
      BY <2>1, <2>3, StoresType DEF ClusterType
    <2> QED
      BY <1>1, <2>2, <2>4
  <1> QED
    BY <1>2, <1>3 DEF Step

LEMMA TypeInformers ==
    ASSUME TypeOK, Crash \/ \E d \in Device : DeliverSecret(d) \/ DeliverBMC(d)
    PROVE  TypeOK'
  <1> USE TypeParts
  <1>1. CASE Crash
    <2>1. ClusterType'
      <3>1. \A d \in Device : /\ <<Last(secrets[d])>> \in Seq(Secret) \ {<<>>}
                              /\ <<Last(bmcs[d])>> \in Seq(BMC) \ {<<>>}
        BY EndsType, VersionSingle
      <3> QED
        BY <1>1, <3>1 DEF Crash, ClusterType
    <2>2. RestType'
      BY <1>1, BoundAssumption DEF Crash, RestType
    <2>3. WorkerType'
      BY <1>1, WorkerMoves DEF Crash
    <2> QED
      BY <2>1, <2>2, <2>3
  <1>2. ASSUME NEW d \in Device, DeliverSecret(d) \/ DeliverBMC(d)
        PROVE  TypeOK'
    <2>1. /\ Len(secrets[d]) > 1 => Tail(secrets[d]) \in Seq(Secret) \ {<<>>}
          /\ Len(bmcs[d]) > 1 => Tail(bmcs[d]) \in Seq(BMC) \ {<<>>}
      BY VersionTail DEF ClusterType
    <2>2. ClusterType'
      BY <1>2, <2>1 DEF DeliverSecret, DeliverBMC, ClusterType
    <2>3. RestType' /\ WorkerType'
      BY <1>2 DEF DeliverSecret, DeliverBMC, bounds, RestType, WorkerType, InLoop
    <2> QED
      BY <2>2, <2>3
  <1> QED
    BY <1>1, <1>2

LEMMA TypeFails == TypeOK /\ CallFails => TypeOK'
  <1> SUFFICES ASSUME TypeOK, CallFails PROVE TypeOK'
    OBVIOUS
  <1> USE TypeParts
  <1>1. WorkerType'
    BY WorkerMoves DEF CallFails, Fail, Result
  <1>2. ClusterType' /\ RestType'
    BY BoundAssumption DEF CallFails, cluster, ClusterType, RestType
  <1> QED
    BY <1>1, <1>2

LEMMA TypeUsers ==
    ASSUME TypeOK, NEW d \in Device,
           \/ CollectGarbage(d) \/ ToggleIgnore(d) \/ CreateIgnoredSecret(d)
           \/ DeleteSecret(d) \/ DeleteBMC(d) \/ EditDevice(d) \/ Rotate
    PROVE  TypeOK'
  <1> USE TypeParts
  <1>1. WorkerType'
    <2>1. w' = w \/ w' = [w EXCEPT !.kept = @ \ {d}]
      BY DEF CollectGarbage, ToggleIgnore, CreateIgnoredSecret, DeleteSecret, DeleteBMC,
         EditDevice, Rotate, Release
    <2> QED
      BY <2>1 DEF WorkerType, Worker, InLoop
  <1>2. ClusterType'
    <2>0. NoSecret(0) \in Secret /\ NoBMC(0) \in BMC /\ Last(secrets[d]) \in Secret
      BY NoObjects, EndsType
    <2>1. /\ [NoSecret(0) EXCEPT !.present = TRUE, !.ignore = TRUE] \in Secret
          /\ [Last(secrets[d]) EXCEPT !.ignore = ~@] \in Secret
      BY <2>0 DEF Secret
    <2>2. /\ secrets' = secrets \/ \E v \in Secret : StoreSecret(d, v)
          /\ bmcs' = bmcs \/ \E v \in BMC : StoreBMC(d, v)
          /\ nextUID' = nextUID
      BY <2>0, <2>1 DEF CollectGarbage, ToggleIgnore, CreateIgnoredSecret, DeleteSecret,
         DeleteBMC, EditDevice, Rotate, cluster
    <2> QED
      BY <2>2, StoresType DEF ClusterType
  <1>3. RestType'
    <2>1. CASE CollectGarbage(d)
      BY <2>1 DEF CollectGarbage, bounds, RestType
    <2>2. CASE \/ ToggleIgnore(d) \/ CreateIgnoredSecret(d) \/ DeleteSecret(d)
               \/ DeleteBMC(d) \/ Rotate
      <3>1. edits' = edits + 1 /\ edits < MaxEdits /\ UNCHANGED <<device, status, faults>>
        BY <2>2 DEF ToggleIgnore, CreateIgnoredSecret, DeleteSecret, DeleteBMC, Rotate, Edit
      <3>2. creds' = creds \/ creds' = creds + 1
        BY <2>2 DEF ToggleIgnore, CreateIgnoredSecret, DeleteSecret, DeleteBMC, Rotate
      <3> QED
        BY <3>1, <3>2, BoundAssumption DEF RestType
    <2>3. CASE EditDevice(d)
      <3>1. edits' = edits + 1 /\ edits < MaxEdits /\ UNCHANGED <<creds, status, faults>>
        BY <2>3 DEF EditDevice, Edit
      <3>2. device' \in [Device -> DeviceState]
        BY <2>3 DEF EditDevice, RestType
      <3> QED
        BY <3>1, <3>2, BoundAssumption DEF RestType
    <2> QED
      BY <2>1, <2>2, <2>3
  <1> QED
    BY <1>1, <1>2, <1>3

LEMMA TypeNext ==
    ASSUME TypeOK, [Next]_vars
    PROVE  TypeOK'
  <1>1. CASE UNCHANGED vars
    BY <1>1 DEF vars, TypeOK
  <1>2. Device # {}
    BY OrderAssumption, VersionEnds DEF Device
  <1>3. CASE Rotate
    BY <1>2, <1>3, TypeUsers
  <1> QED
    BY <1>1, <1>3, TypeStep, TypeInformers, TypeFails, TypeUsers DEF Next

\* The variables keep their types: in particular there is a device to work on
\* whenever the worker is in its loop, and a version of every object.
THEOREM TypeCorrect == Spec => []TypeOK
  <1> QED
    BY TypeInit, TypeNext, PTL DEF Spec

-----------------------------------------------------------------------------
(***************************************************************************)
(* The secrets that are ignored.                                           *)
(***************************************************************************)
\* What a write leaves in the versions of its device, and of the others.
LEMMA SecretWritten ==
    ASSUME ClusterType, NEW d \in Device, NEW v \in Secret, StoreSecret(d, v)
    PROVE  /\ \A x \in Device \ {d} : secrets'[x] = secrets[x]
           /\ Last(secrets'[d]) \in Secret
           /\ ToSet(secrets'[d]) \in SUBSET (ToSet(secrets[d]) \cup {Last(secrets'[d])})
           /\ Last(secrets'[d]).present = v.present /\ Last(secrets'[d]).creds = v.creds
           /\ Last(secrets'[d]).label = v.label /\ Last(secrets'[d]).owner = v.owner
           /\ Last(secrets'[d]).ignore = v.ignore
  <1>1. secrets'[d] = Store(secrets[d], v) /\ secrets[d] \in Seq(Secret) \ {<<>>}
    BY DEF StoreSecret, ClusterType
  <1>2. PICK rv \in Nat : Last(secrets'[d]) = [v EXCEPT !.rv = rv]
    BY <1>1, StoredSecret
  <1>3. ToSet(secrets'[d]) \in SUBSET (ToSet(secrets[d]) \cup {Last(secrets'[d])})
    BY <1>1, StoredSecret
  <1>4. \A x \in Device \ {d} : secrets'[x] = secrets[x]
    BY DEF StoreSecret, ClusterType
  <1> QED
    BY <1>2, <1>3, <1>4 DEF Secret

LEMMA BMCWritten ==
    ASSUME ClusterType, NEW d \in Device, NEW v \in BMC, StoreBMC(d, v)
    PROVE  /\ \A x \in Device \ {d} : bmcs'[x] = bmcs[x]
           /\ Last(bmcs'[d]) \in BMC
           /\ ToSet(bmcs'[d]) \in SUBSET (ToSet(bmcs[d]) \cup {Last(bmcs'[d])})
           /\ Last(bmcs'[d]).present = v.present /\ Last(bmcs'[d]).uid = v.uid
           /\ Last(bmcs'[d]).label = v.label
  <1>1. bmcs'[d] = Store(bmcs[d], v) /\ bmcs[d] \in Seq(BMC) \ {<<>>}
    BY DEF StoreBMC, ClusterType
  <1>2. PICK rv \in Nat : Last(bmcs'[d]) = [v EXCEPT !.rv = rv]
    BY <1>1, StoredBMC
  <1>3. ToSet(bmcs'[d]) \in SUBSET (ToSet(bmcs[d]) \cup {Last(bmcs'[d])})
    BY <1>1, StoredBMC
  <1>4. \A x \in Device \ {d} : bmcs'[x] = bmcs[x]
    BY DEF StoreBMC, ClusterType
  <1> QED
    BY <1>2, <1>3, <1>4 DEF BMC

\* The informers and a restart drop versions, never the last one.
LEMMA VersionsDropped ==
    ASSUME ClusterType, Crash \/ \E d \in Device : DeliverSecret(d) \/ DeliverBMC(d)
    PROVE  \A x \in Device :
             /\ Last(secrets'[x]) = Last(secrets[x]) /\ Last(bmcs'[x]) = Last(bmcs[x])
             /\ ToSet(secrets'[x]) \in SUBSET ToSet(secrets[x])
             /\ ToSet(bmcs'[x]) \in SUBSET ToSet(bmcs[x])
  <1> SUFFICES ASSUME NEW x \in Device
               PROVE  /\ Last(secrets'[x]) = Last(secrets[x]) /\ Last(bmcs'[x]) = Last(bmcs[x])
                      /\ ToSet(secrets'[x]) \in SUBSET ToSet(secrets[x])
                      /\ ToSet(bmcs'[x]) \in SUBSET ToSet(bmcs[x])
    OBVIOUS
  <1>1. CASE Crash
    <2>1. secrets'[x] = <<Last(secrets[x])>> /\ bmcs'[x] = <<Last(bmcs[x])>>
      BY <1>1 DEF Crash
    <2>2. /\ Last(secrets'[x]) = Last(secrets[x]) /\ ToSet(secrets'[x]) = {Last(secrets[x])}
          /\ Last(bmcs'[x]) = Last(bmcs[x]) /\ ToSet(bmcs'[x]) = {Last(bmcs[x])}
      BY <2>1, EndsType, VersionSingle
    <2> QED
      BY <2>2, EndsType
  <1>2. ASSUME NEW d \in Device, DeliverSecret(d)
        PROVE  /\ Last(secrets'[x]) = Last(secrets[x]) /\ bmcs' = bmcs
               /\ ToSet(secrets'[x]) \in SUBSET ToSet(secrets[x])
    <2>1. /\ Last(Tail(secrets[d])) = Last(secrets[d])
          /\ ToSet(Tail(secrets[d])) \in SUBSET ToSet(secrets[d])
      BY <1>2, VersionTail DEF DeliverSecret, ClusterType
    <2> QED
      BY <1>2, <2>1 DEF DeliverSecret, ClusterType
  <1>3. ASSUME NEW d \in Device, DeliverBMC(d)
        PROVE  /\ Last(bmcs'[x]) = Last(bmcs[x]) /\ secrets' = secrets
               /\ ToSet(bmcs'[x]) \in SUBSET ToSet(bmcs[x])
    <2>1. /\ Last(Tail(bmcs[d])) = Last(bmcs[d])
          /\ ToSet(Tail(bmcs[d])) \in SUBSET ToSet(bmcs[d])
      BY <1>3, VersionTail DEF DeliverBMC, ClusterType
    <2> QED
      BY <1>3, <2>1 DEF DeliverBMC, ClusterType
  <1> QED
    BY <1>1, <1>2, <1>3

\* The worker leaves its device, or ends, without a write to a secret.
LEMMA KeptFrame ==
    ASSUME KeptInv, UNCHANGED secrets, WorkerType',
           \/ w'.kept = {}
           \/ w'.kept = w.kept /\ w'.pc \in {"device", "checkIgnore"}
    PROVE  KeptInv'
  BY DEF KeptInv, InLoop, At, WorkerType

LEMMA KeptStart == TypeOK /\ KeptInv /\ Start => KeptInv'
  <1> SUFFICES ASSUME TypeOK, KeptInv, Start PROVE KeptInv'
    OBVIOUS
  <1>1. /\ w'.pc = "list" /\ secrets' = secrets
        /\ w'.kept = {d \in Device : \A s \in ToSet(secrets[d]) : s.ignore}
    BY DEF Start, TypeOK, Worker, cluster
  <1> QED
    BY <1>1 DEF KeptInv, InLoop, At

\* A step within the work on a device that does not write the secret.
LEMMA KeptAlong ==
    ASSUME KeptInv, UNCHANGED secrets, InLoop, w'.kept = w.kept, w'.todo = w.todo,
           It \in w.kept =>
             /\ w'.pc \notin {"getSecret", "writeSecret", "patchOwner", "idle", "status"}
             /\ w'.pc \in {"getBMC", "patchBMC", "createBMC"} => w'.skipped,
           w'.pc \notin {"idle", "status"}
    PROVE  KeptInv'
  BY DEF KeptInv, InLoop, It, At

LEMMA FinishKept ==
    /\ \A r \in Result : Finish(r) => w'.kept = {} /\ w'.pc = "status" /\ w'.result = r
    /\ w' = IdleWorker => w'.kept = {} /\ w'.pc = "idle" /\ w'.result = "none"
  <1>1. IdleWorker.kept = {} /\ IdleWorker.pc = "idle" /\ IdleWorker.result = "none"
    BY DEF IdleWorker
  <1>2. ASSUME NEW r \in Result, Finish(r)
        PROVE  w'.kept = {} /\ w'.pc = "status" /\ w'.result = r
    BY <1>2, NoObjects DEF Finish, Worker, IdleWorker
  <1> QED
    BY <1>1, <1>2

\* The loop ends, or goes on with another device.
LEMMA NextDeviceKept ==
    ASSUME WorkerType, NextDevice
    PROVE  w'.kept = {} \/ (w'.kept = w.kept /\ w'.pc = "device")
  BY FinishKept DEF NextDevice, WorkerType, Worker, Result

LEMMA KeptStep == TypeOK /\ KeptInv /\ Step => KeptInv'
  <1> SUFFICES ASSUME TypeOK, KeptInv, Step PROVE KeptInv'
    OBVIOUS
  <1>0. WorkerType /\ WorkerType' /\ ClusterType /\ w \in Worker
    BY TypeStep, TypeParts DEF WorkerType
  <1>1. CASE ListDevices
    <2>1. w'.kept = w.kept /\ w'.pc = "device" /\ secrets' = secrets
      BY <1>0, <1>1 DEF ListDevices, Worker, cluster
    <2> QED
      BY <1>0, <2>1, KeptFrame
  <1>2. CASE ReconcileDevice
    <2>1. secrets' = secrets
      BY <1>2 DEF ReconcileDevice, cluster
    <2>2. CASE Goto("checkIgnore")
      BY <1>0, <2>1, <2>2, KeptFrame DEF Goto, Worker
    <2>3. CASE NextDevice \/ Fail
      BY <1>0, <2>1, <2>3, KeptFrame, NextDeviceKept, FinishKept DEF Fail, Result
    <2> QED
      BY <1>2, <2>2, <2>3 DEF ReconcileDevice
  <1>3. CASE CheckIgnore
    <2>1. InLoop /\ secrets' = secrets
      BY <1>3 DEF CheckIgnore, At, InLoop, cluster
    <2>2. It \in w.kept => Head(secrets[It]).present /\ Head(secrets[It]).ignore
      BY <1>0, <2>1, HeadInDevice, EndsType DEF KeptInv
    <2>3. /\ w'.kept = w.kept /\ w'.todo = w.todo
          /\ \/ w'.pc = "getBMC" /\ w'.skipped
             \/ It \notin w.kept /\ w'.pc = "getSecret"
      BY <1>0, <1>3, <2>2 DEF CheckIgnore, Goto, Worker
    <2> QED
      BY <2>1, <2>3, KeptAlong
  <1>4. CASE GetSecret \/ GetBMC
    <2>1. /\ InLoop /\ secrets' = secrets
          /\ GetSecret => It \notin w.kept
          /\ GetBMC /\ It \in w.kept => w.skipped
      BY <1>4 DEF GetSecret, GetBMC, At, InLoop, cluster, KeptInv
    <2>2. /\ w'.kept = w.kept /\ w'.todo = w.todo /\ w'.skipped = w.skipped
          /\ GetSecret => w'.pc \in {"getBMC", "writeSecret"}
          /\ GetBMC => w'.pc \in {"patchBMC", "createBMC"}
      BY <1>0, <1>4 DEF GetSecret, GetBMC, Worker
    <2> QED
      BY <1>4, <2>1, <2>2, KeptAlong
  <1>5. CASE WriteSecret
    <2>1. InLoop /\ It \in Device /\ It \notin w.kept
      BY <1>0, <1>5, HeadInDevice DEF WriteSecret, At, InLoop, KeptInv
    <2>2. CASE Fail /\ UNCHANGED cluster
      BY <1>0, <2>2, KeptFrame, FinishKept DEF Fail, Result, cluster
    <2>3. CASE /\ StoreSecret(It, SecretToWrite)
               /\ w' = [w EXCEPT !.pc = "getBMC", !.secret = Last(secrets'[It])]
      <3>1. SecretToWrite \in Secret /\ SecretToWrite.present
        BY <1>0, <2>1, WritesType, NoObjects DEF SecretToWrite, Secret, Worker
      <3>2. /\ \A x \in Device \ {It} : secrets'[x] = secrets[x]
            /\ Last(secrets'[It]).present
            /\ ToSet(secrets'[It]) \in SUBSET (ToSet(secrets[It]) \cup {Last(secrets'[It])})
        BY <1>0, <2>1, <2>3, <3>1, SecretWritten
      <3>3. /\ w'.kept = w.kept /\ w'.todo = w.todo /\ w'.pc = "getBMC"
            /\ w.kept \subseteq Device
        BY <1>0, <2>3 DEF Worker
      <3> QED
        BY <2>1, <3>2, <3>3 DEF KeptInv, InLoop, It, At
    <2> QED
      BY <1>5, <2>2, <2>3 DEF WriteSecret, SecretToWrite
  <1>6. CASE PatchBMCLabels
    BY <1>0, <1>6, KeptFrame, NextDeviceKept, FinishKept DEF PatchBMCLabels, cluster, Fail, Result
  <1>7. CASE CreateBMC
    <2>1. InLoop /\ secrets' = secrets /\ (It \in w.kept => w.skipped)
      BY <1>7 DEF CreateBMC, At, InLoop, KeptInv
    <2>2. CASE NextDevice
      BY <1>0, <2>1, <2>2, KeptFrame, NextDeviceKept
    <2>3. CASE /\ ~w.skipped
               /\ \/ Goto("patchOwner")
                  \/ w' = [w EXCEPT !.pc = "patchOwner", !.bmc = BMCToCreate]
      <3>1. w'.kept = w.kept /\ w'.todo = w.todo /\ w'.pc = "patchOwner"
        BY <1>0, <2>3 DEF Goto, Worker
      <3> QED
        BY <2>1, <2>3, <3>1, KeptAlong
    <2> QED
      BY <1>7, <2>2, <2>3 DEF CreateBMC, BMCToCreate
  <1>8. CASE PatchOwnerReference
    <2>1. InLoop /\ It \in Device /\ It \notin w.kept
      BY <1>0, <1>8, HeadInDevice DEF PatchOwnerReference, At, InLoop, KeptInv
    <2>2. CASE Fail /\ UNCHANGED secrets
      BY <1>0, <2>2, KeptFrame, FinishKept DEF Fail, Result
    <2>3. CASE /\ Last(secrets[It]).present
               /\ StoreSecret(It, [Last(secrets[It]) EXCEPT !.owner = w.bmc.uid])
               /\ NextDevice
      <3>1. Last(secrets[It]) \in Secret /\ w.bmc.uid \in Nat
        BY <1>0, <2>1, EndsType DEF Worker, BMC
      <3>2. /\ [Last(secrets[It]) EXCEPT !.owner = w.bmc.uid] \in Secret
            /\ [Last(secrets[It]) EXCEPT !.owner = w.bmc.uid].present
        BY <2>3, <3>1 DEF Secret
      <3>3. /\ \A x \in Device \ {It} : secrets'[x] = secrets[x]
            /\ Last(secrets'[It]).present
            /\ ToSet(secrets'[It]) \in SUBSET (ToSet(secrets[It]) \cup {Last(secrets'[It])})
        BY <1>0, <2>1, <2>3, <3>2, SecretWritten
      <3>4. w'.kept = {} \/ (w'.kept = w.kept /\ w'.pc = "device")
        BY <1>0, <2>3, NextDeviceKept
      <3>5. w.kept \subseteq Device
        BY <1>0 DEF Worker
      <3> QED
        BY <2>1, <3>3, <3>4, <3>5 DEF KeptInv, InLoop, At
    <2> QED
      BY <1>8, <2>2, <2>3 DEF PatchOwnerReference
  <1>9. CASE UpdateStatus
    BY <1>0, <1>9, KeptFrame, FinishKept DEF UpdateStatus, cluster
  <1> QED
    BY <1>1, <1>2, <1>3, <1>4, <1>5, <1>6, <1>7, <1>8, <1>9 DEF Step

\* Somebody else writes a secret, and takes it out of those that are kept unless
\* what is written is ignored.
LEMMA KeptWritten ==
    ASSUME TypeOK, KeptInv, NEW d \in Device, NEW v \in Secret, StoreSecret(d, v),
           v.ignore => v.present,
           \/ w' = [w EXCEPT !.kept = @ \ {d}]
           \/ w' = w /\ v.ignore
    PROVE  KeptInv'
  <1>1. WorkerType /\ ClusterType /\ w \in Worker
    BY TypeParts DEF WorkerType
  <1>2. /\ \A x \in Device \ {d} : secrets'[x] = secrets[x]
        /\ Last(secrets'[d]).present = v.present /\ Last(secrets'[d]).ignore = v.ignore
        /\ ToSet(secrets'[d]) \in SUBSET (ToSet(secrets[d]) \cup {Last(secrets'[d])})
    BY <1>1, SecretWritten
  <1>3. /\ w'.kept \subseteq w.kept /\ (d \in w'.kept => v.ignore)
        /\ w'.pc = w.pc /\ w'.todo = w.todo /\ w'.skipped = w.skipped
        /\ w.kept \subseteq Device
    BY <1>1 DEF Worker
  <1> QED
    BY <1>2, <1>3 DEF KeptInv, InLoop, It, At

LEMMA KeptNext ==
    ASSUME TypeOK, KeptInv, [Next]_vars
    PROVE  KeptInv'
  <1>0. WorkerType /\ WorkerType' /\ ClusterType /\ w \in Worker
    BY TypeNext, TypeParts DEF WorkerType
  <1>1. CASE Start \/ Step
    BY <1>1, KeptStart, KeptStep
  <1>2. CASE Crash \/ \E d \in Device : DeliverSecret(d) \/ DeliverBMC(d)
    <2>1. \A x \in Device : ToSet(secrets'[x]) \in SUBSET ToSet(secrets[x])
      BY <1>0, <1>2, VersionsDropped
    <2>2. w' = w \/ (w'.kept = {} /\ w'.pc = "idle")
      BY <1>2, FinishKept DEF Crash, DeliverSecret, DeliverBMC
    <2>3. w.kept \subseteq Device
      BY <1>0 DEF Worker
    <2> QED
      BY <2>1, <2>2, <2>3 DEF KeptInv, InLoop, It, At
  <1>3. CASE CallFails
    BY <1>0, <1>3, KeptFrame, FinishKept DEF CallFails, Fail, Result, cluster
  <1>4. ASSUME NEW d \in Device,
               \/ CollectGarbage(d) \/ ToggleIgnore(d)
               \/ CreateIgnoredSecret(d) \/ DeleteSecret(d)
        PROVE  KeptInv'
    <2>1. NoSecret(0) \in Secret /\ ~NoSecret(0).ignore /\ Last(secrets[d]) \in Secret
      BY <1>0, NoObjects, EndsType DEF NoSecret
    <2>2. /\ [NoSecret(0) EXCEPT !.present = TRUE, !.ignore = TRUE] \in Secret
          /\ [NoSecret(0) EXCEPT !.present = TRUE, !.ignore = TRUE].ignore
          /\ [NoSecret(0) EXCEPT !.present = TRUE, !.ignore = TRUE].present
          /\ [Last(secrets[d]) EXCEPT !.ignore = ~@] \in Secret
          /\ Last(secrets[d]).present => [Last(secrets[d]) EXCEPT !.ignore = ~@].present
      BY <2>1 DEF Secret
    <2>3. CASE CollectGarbage(d) \/ DeleteSecret(d)
      BY <2>1, <2>3, KeptWritten DEF CollectGarbage, DeleteSecret, Release
    <2>4. CASE ToggleIgnore(d)
      BY <2>2, <2>4, KeptWritten DEF ToggleIgnore, Release
    <2>5. CASE CreateIgnoredSecret(d)
      BY <2>2, <2>5, KeptWritten DEF CreateIgnoredSecret
    <2> QED
      BY <1>4, <2>3, <2>4, <2>5
  <1>5. CASE \/ \E d \in Device : DeleteBMC(d) \/ EditDevice(d)
             \/ Rotate \/ UNCHANGED vars
    <2>1. w' = w /\ secrets' = secrets
      BY <1>5 DEF DeleteBMC, EditDevice, Rotate, vars, cluster
    <2> QED
      BY <2>1 DEF KeptInv, InLoop, It, At
  <1> QED
    BY <1>1, <1>2, <1>3, <1>4, <1>5 DEF Next

LEMMA KeptInit == Init => KeptInv
  <1> SUFFICES ASSUME Init PROVE KeptInv
    OBVIOUS
  <1>1. \A d \in Device : ToSet(secrets[d]) = {NoSecret(0)}
    BY NoObjects, VersionSingle DEF Init
  <1>2. ~NoSecret(0).ignore /\ w.pc = "idle" /\ w.kept = {}
    BY DEF Init, NoSecret, IdleWorker
  <1> QED
    BY <1>1, <1>2 DEF KeptInv, InLoop

\* What IgnoredUntouched says of one step.
Untouched ==
    \A d \in w.kept :
        Last(secrets'[d]).present =>
            /\ Last(secrets[d]).creds = Last(secrets'[d]).creds
            /\ Last(secrets[d]).label = Last(secrets'[d]).label
            /\ Last(secrets[d]).owner = Last(secrets'[d]).owner

\* A write to another device, or one that takes the secret away.
LEMMA UntouchedWritten ==
    ASSUME TypeOK, NEW d \in Device, NEW v \in Secret, StoreSecret(d, v),
           d \in w.kept /\ v.present =>
             /\ v.creds = Last(secrets[d]).creds /\ v.label = Last(secrets[d]).label
             /\ v.owner = Last(secrets[d]).owner
    PROVE  Untouched
  <1>1. ClusterType /\ w.kept \subseteq Device
    BY TypeParts DEF WorkerType, Worker
  <1> QED
    BY <1>1, SecretWritten DEF Untouched

LEMMA UntouchedNext ==
    ASSUME TypeOK, KeptInv, Next
    PROVE  Untouched
  <1>0. WorkerType /\ ClusterType /\ w \in Worker
    BY TypeParts DEF WorkerType
  <1>1. CASE UNCHANGED secrets
    BY <1>1 DEF Untouched
  <1>2. CASE WriteSecret /\ ~UNCHANGED secrets
    <2>1. InLoop /\ It \in Device /\ It \notin w.kept
      BY <1>0, <1>2, HeadInDevice DEF WriteSecret, At, InLoop, KeptInv
    <2>2. StoreSecret(It, SecretToWrite) /\ SecretToWrite \in Secret
      BY <1>0, <1>2, <2>1, WritesType DEF WriteSecret, SecretToWrite, cluster
    <2> QED
      BY <2>1, <2>2, UntouchedWritten
  <1>3. CASE PatchOwnerReference /\ ~UNCHANGED secrets
    <2>1. InLoop /\ It \in Device /\ It \notin w.kept
      BY <1>0, <1>3, HeadInDevice DEF PatchOwnerReference, At, InLoop, KeptInv
    <2>2. Last(secrets[It]) \in Secret /\ w.bmc.uid \in Nat
      BY <1>0, <2>1, EndsType DEF Worker, BMC
    <2>3. /\ StoreSecret(It, [Last(secrets[It]) EXCEPT !.owner = w.bmc.uid])
          /\ [Last(secrets[It]) EXCEPT !.owner = w.bmc.uid] \in Secret
      BY <1>3, <2>2 DEF PatchOwnerReference, Secret
    <2> QED
      BY <2>1, <2>3, UntouchedWritten
  <1>4. CASE Crash \/ \E d \in Device : DeliverSecret(d) \/ DeliverBMC(d)
    <2>1. \A x \in Device : Last(secrets'[x]) = Last(secrets[x])
      BY <1>0, <1>4, VersionsDropped
    <2> QED
      BY <1>0, <2>1 DEF Untouched, Worker
  <1>5. ASSUME NEW d \in Device, CollectGarbage(d) \/ DeleteSecret(d)
        PROVE  Untouched
    <2>1. NoSecret(0) \in Secret /\ ~NoSecret(0).present /\ StoreSecret(d, NoSecret(0))
      BY <1>5, NoObjects DEF CollectGarbage, DeleteSecret, NoSecret
    <2> QED
      BY <2>1, UntouchedWritten
  <1>6. ASSUME NEW d \in Device, ToggleIgnore(d)
        PROVE  Untouched
    <2>1. Last(secrets[d]) \in Secret
      BY <1>0, EndsType
    <2> DEFINE v == [Last(secrets[d]) EXCEPT !.ignore = ~@]
    <2>2. /\ v \in Secret /\ v.creds = Last(secrets[d]).creds
          /\ v.label = Last(secrets[d]).label /\ v.owner = Last(secrets[d]).owner
      BY <2>1 DEF Secret
    <2>3. StoreSecret(d, v)
      BY <1>6 DEF ToggleIgnore
    <2> QED
      BY <2>2, <2>3, UntouchedWritten
  <1>7. ASSUME NEW d \in Device, CreateIgnoredSecret(d)
        PROVE  Untouched
    <2>1. ~Last(secrets[d]).present /\ d \notin w.kept
      BY <1>0, <1>7, EndsType DEF CreateIgnoredSecret, KeptInv
    <2>2. NoSecret(0) \in Secret
      BY NoObjects
    <2>3. [NoSecret(0) EXCEPT !.present = TRUE, !.ignore = TRUE] \in Secret
      BY <2>2 DEF Secret
    <2>4. StoreSecret(d, [NoSecret(0) EXCEPT !.present = TRUE, !.ignore = TRUE])
      BY <1>7 DEF CreateIgnoredSecret
    <2> QED
      BY <2>1, <2>3, <2>4, UntouchedWritten
  <1>8. CASE \/ Start \/ ListDevices \/ ReconcileDevice \/ CheckIgnore \/ GetSecret \/ GetBMC
             \/ PatchBMCLabels \/ CreateBMC \/ UpdateStatus \/ CallFails \/ Rotate
             \/ \E d \in Device : DeleteBMC(d) \/ EditDevice(d)
    <2>1. UNCHANGED secrets
      BY <1>8 DEF Start, ListDevices, ReconcileDevice, CheckIgnore, GetSecret, GetBMC,
         PatchBMCLabels, CreateBMC, UpdateStatus, CallFails, Rotate, DeleteBMC, EditDevice, cluster
    <2> QED
      BY <1>1, <2>1
  <1> QED
    BY <1>1, <1>2, <1>3, <1>4, <1>5, <1>6, <1>7, <1>8 DEF Next, Step

\* A call never writes the credentials, the labels or the owner of a secret that
\* was ignored, for the cache to see, when the call began; whoever creates,
\* deletes or annotates secrets meanwhile, and however far the cache lags.
THEOREM IgnoredSafe == Spec => IgnoredUntouched
  <1>1. TypeOK /\ KeptInv /\ [Next]_vars =>
          [\A d \in w.kept :
              LET s == Last(secrets[d])
                  t == Last(secrets'[d]) IN
              t.present => s.creds = t.creds /\ s.label = t.label /\ s.owner = t.owner]_vars
    BY UntouchedNext DEF Untouched
  <1>2. Spec => [](TypeOK /\ KeptInv)
    BY TypeInit, TypeNext, KeptInit, KeptNext, PTL DEF Spec
  <1> QED
    BY <1>1, <1>2, PTL DEF Spec, IgnoredUntouched

-----------------------------------------------------------------------------
(***************************************************************************)
(* A Ready import is complete.                                             *)
(***************************************************************************)
LEMMA ImportInit == Init => ImportInv
  <1> SUFFICES ASSUME Init PROVE ImportNow
    BY DEF ImportInv
  <1>1. /\ \A d \in Device : /\ ToSet(secrets[d]) = {NoSecret(0)}
                            /\ ToSet(bmcs[d]) = {NoBMC(0)}
        /\ ~NoSecret(0).present /\ ~NoSecret(0).ignore /\ NoSecret(0).owner = None
        /\ ~NoBMC(0).present
    BY NoObjects, VersionSingle DEF Init, NoSecret, NoBMC
  <1>2. ObjectsTrue
    BY <1>1 DEF ObjectsTrue, SecretsTrue, BMCsTrue, Owned
  <1>3. w.pc = "idle" /\ w.result = "none" /\ status = "none"
    BY DEF Init, IdleWorker
  <1> QED
    BY <1>2, <1>3 DEF ImportNow, Knows, AtDevice, Progress, InLoop, At

\* The call ends, well or badly, with nothing to announce.
LEMMA ImportEnd ==
    ASSUME ImportNow, UNCHANGED <<device, creds, status>>, ObjectsTrue',
           \A d \in Device : Provided(d) => Provided(d)',
           w' = IdleWorker \/ Fail
    PROVE  ImportNow'
  <1>1. w'.pc \in {"idle", "status"} /\ w'.result # "Ready"
    BY FinishKept DEF Fail, Result
  <1> QED
    BY <1>1 DEF ImportNow, Knows, AtDevice, Progress, InLoop, At

\* The device the worker is at is done.
LEMMA ImportNextDevice ==
    ASSUME TypeOK, ImportNow, UNCHANGED <<device, creds, status>>, ObjectsTrue', InLoop,
           \A d \in Device : Provided(d) => Provided(d)',
           \A d \in Device : d = It => Provided(d)',
           NextDevice
    PROVE  ImportNow'
  <1>1. w \in Worker /\ w.todo \in Seq(Device)
    BY DEF TypeOK, Worker
  <1>2. \A d \in Device : d \in ToSet(w.todo) \/ Provided(d)'
    BY DEF ImportNow, Progress
  <1>3. CASE Len(w.todo) > 1
    <2>1. ToSet(w.todo) = {It} \cup ToSet(Tail(w.todo))
      BY <1>1, <1>3, VersionTail DEF It
    <2>2. /\ w'.pc = "device" /\ w'.todo = Tail(w.todo) /\ w'.creds = w.creds
          /\ w'.list = w.list /\ w'.result = w.result
      BY <1>1, <1>3 DEF NextDevice, Worker
    <2>3. \A d \in Device : d \in ToSet(w'.todo) \/ Provided(d)'
      BY <1>2, <2>1, <2>2
    <2>4. w.creds = creds /\ w.list = device
      BY DEF ImportNow, Knows, InLoop
    <2>5. Knows'
      BY <2>2, <2>4 DEF Knows
    <2>6. AtDevice'
      BY <2>2 DEF AtDevice, At
    <2>7. Progress'
      BY <2>2, <2>3 DEF ImportNow, Progress
    <2> QED
      BY <2>5, <2>6, <2>7 DEF ImportNow
  <1>4. CASE ~(Len(w.todo) > 1)
    <2>1. ToSet(w.todo) \subseteq {It}
      <3>1. Len(w.todo) \in Nat /\ DOMAIN w.todo = 1..Len(w.todo)
        BY <1>1
      <3>2. \A i \in DOMAIN w.todo : i = 1
        BY <1>4, <3>1
      <3>3. DOMAIN w.todo # {} => It = w.todo[1]
        BY <1>1 DEF It
      <3> QED
        BY <3>2, <3>3 DEF ToSet
    <2>2. \A d \in Device : Provided(d)'
      BY <1>2, <2>1
    <2>3. w'.pc = "status"
      BY <1>4, NoObjects DEF NextDevice, Finish, Worker, IdleWorker
    <2> QED
      BY <2>2, <2>3 DEF ImportNow, Knows, AtDevice, Progress, InLoop, At
  <1> QED
    BY <1>3, <1>4

\* The worker goes on with its device; it still has to know what it needs.
LEMMA ImportGoesOn ==
    ASSUME ImportNow, UNCHANGED <<device, creds, status>>, ObjectsTrue', InLoop,
           \A d \in Device : Provided(d) => Provided(d)',
           w'.creds = w.creds, w'.list = w.list, w'.todo = w.todo, w'.result = w.result,
           AtDevice'
    PROVE  ImportNow'
  BY DEF ImportNow, Knows, Progress, InLoop

\* Nothing is written.
LEMMA ImportSame ==
    ASSUME UNCHANGED <<device, creds, secrets, bmcs>>
    PROVE  /\ ObjectsTrue => ObjectsTrue'
           /\ \A d \in Device : Provided(d) => Provided(d)'
  BY DEF ObjectsTrue, SecretsTrue, BMCsTrue, Owned, Provided

\* The worker writes a version of a secret that is true.
LEMMA ImportSecret ==
    ASSUME ClusterType, ObjectsTrue, UNCHANGED <<device, creds, bmcs>>,
           NEW d \in Device, NEW v \in Secret, StoreSecret(d, v),
           v.present, v.creds = creds, v.label = device[d].label, ~v.ignore, Owned(v.owner, d)
    PROVE  /\ ObjectsTrue' /\ Last(secrets'[d]).present
           /\ \A x \in Device : Provided(x) => Provided(x)'
  <1>1. /\ \A x \in Device \ {d} : secrets'[x] = secrets[x]
        /\ ToSet(secrets'[d]) \in SUBSET (ToSet(secrets[d]) \cup {Last(secrets'[d])})
        /\ Last(secrets'[d]).present /\ Last(secrets'[d]).creds = creds
        /\ Last(secrets'[d]).label = device[d].label
        /\ ~Last(secrets'[d]).ignore /\ Owned(Last(secrets'[d]).owner, d)
    BY SecretWritten
  <1> QED
    BY <1>1 DEF ObjectsTrue, SecretsTrue, BMCsTrue, Owned, Provided

\* The worker creates the BMC of a device that has none.
LEMMA ImportBMC ==
    ASSUME WorkerType, ClusterType, ObjectsTrue, UNCHANGED <<device, creds, secrets>>,
           InLoop, w.list = device, ~Last(bmcs[It]).present, StoreBMC(It, BMCToCreate)
    PROVE  /\ ObjectsTrue' /\ Last(bmcs'[It]).present /\ Last(bmcs'[It]).uid = nextUID
           /\ \A x \in Device : Provided(x) => Provided(x)'
  <1>1. It \in Device /\ BMCToCreate \in BMC
    BY HeadInDevice, WritesType
  <1>2. /\ BMCToCreate.present /\ BMCToCreate.uid = nextUID
        /\ BMCToCreate.label = device[It].label
    BY NoObjects DEF BMCToCreate, BMC
  <1>3. /\ \A x \in Device \ {It} : bmcs'[x] = bmcs[x]
        /\ ToSet(bmcs'[It]) \in SUBSET (ToSet(bmcs[It]) \cup {Last(bmcs'[It])})
        /\ Last(bmcs'[It]).present /\ Last(bmcs'[It]).uid = nextUID
        /\ Last(bmcs'[It]).label = device[It].label
    BY <1>1, <1>2, BMCWritten
  <1>4. /\ \A b \in ToSet(bmcs[It]) : ~b.present
        /\ \A s \in ToSet(secrets[It]) : s.owner = None
    BY <1>1 DEF ObjectsTrue, SecretsTrue, BMCsTrue, Owned
  <1>5. \A x \in Device \ {It} : SecretsTrue(x)' /\ BMCsTrue(x)'
    BY <1>3 DEF ObjectsTrue, SecretsTrue, BMCsTrue, Owned
  <1>6. \A x \in Device : Provided(x) => Provided(x)'
    BY <1>3 DEF Provided
  <1>7. ObjectsTrue'
    BY <1>3, <1>4, <1>5 DEF ObjectsTrue, SecretsTrue, BMCsTrue, Owned
  <1> QED
    BY <1>3, <1>6, <1>7

LEMMA ImportWrites ==
    ASSUME TypeOK, TypeOK', ImportNow,
           WriteSecret \/ PatchBMCLabels \/ CreateBMC \/ PatchOwnerReference
    PROVE  ImportNow'
  <1> USE DEF At
  <1>0. /\ WorkerType /\ ClusterType /\ w \in Worker
        /\ UNCHANGED <<device, creds, status>>
    BY TypeParts DEF WorkerType, WriteSecret, PatchBMCLabels, CreateBMC, PatchOwnerReference
  <1>1. InLoop /\ It \in Device /\ w.list = device /\ w.creds = creds /\ ObjectsTrue
    BY <1>0, HeadInDevice DEF WriteSecret, PatchBMCLabels, CreateBMC, PatchOwnerReference,
       InLoop, ImportNow, Knows
  <1>2. CASE Fail /\ UNCHANGED cluster
    <2>1. ObjectsTrue' /\ \A d \in Device : Provided(d) => Provided(d)'
      BY <1>0, <1>1, <1>2, ImportSame DEF cluster
    <2> QED
      BY <1>0, <1>2, <2>1, ImportEnd
  <1>3. CASE WriteSecret /\ ~(Fail /\ UNCHANGED cluster)
    <2>1. /\ StoreSecret(It, SecretToWrite) /\ UNCHANGED <<bmcs, nextUID>>
          /\ w' = [w EXCEPT !.pc = "getBMC", !.secret = Last(secrets'[It])]
      BY <1>3 DEF WriteSecret, SecretToWrite
    <2>2. ~w.secret.ignore /\ Owned(w.secret.owner, It)
      BY <1>3 DEF WriteSecret, ImportNow, AtDevice
    <2>3. ~NoSecret(0).ignore /\ Owned(NoSecret(0).owner, It)
      BY DEF NoSecret, Owned
    <2>4. /\ SecretToWrite \in Secret /\ SecretToWrite.present
          /\ SecretToWrite.creds = creds /\ SecretToWrite.label = device[It].label
          /\ ~SecretToWrite.ignore /\ Owned(SecretToWrite.owner, It)
      <3>1. SecretToWrite \in Secret
        BY <1>0, <1>1, WritesType
      <3>2. NoSecret(0) \in Secret /\ w.secret \in Secret
        BY <1>0, NoObjects DEF Worker
      <3> QED
        BY <1>1, <2>2, <2>3, <3>1, <3>2 DEF SecretToWrite, Secret
    <2>5. /\ ObjectsTrue' /\ Last(secrets'[It]).present
          /\ \A d \in Device : Provided(d) => Provided(d)'
      BY <1>0, <1>1, <2>1, <2>4, ImportSecret
    <2>6. /\ w'.pc = "getBMC" /\ w'.creds = w.creds /\ w'.list = w.list
          /\ w'.todo = w.todo /\ w'.result = w.result
      BY <1>0, <2>1 DEF Worker
    <2>7. AtDevice'
      BY <2>5, <2>6 DEF AtDevice, It
    <2> QED
      BY <1>0, <1>1, <2>5, <2>6, <2>7, ImportGoesOn
  <1>4. CASE PatchBMCLabels /\ ~(Fail /\ UNCHANGED cluster)
    <2>1. /\ Last(secrets[It]).present /\ Last(bmcs[It]).present
          /\ w.bmc.label = device[It].label
      BY <1>4 DEF PatchBMCLabels, ImportNow, AtDevice
    <2>2. UNCHANGED <<secrets, bmcs>> /\ NextDevice
      BY <1>1, <1>4, <2>1 DEF PatchBMCLabels
    <2>3. ObjectsTrue' /\ \A d \in Device : Provided(d) => Provided(d)'
      BY <1>0, <1>1, <2>2, ImportSame
    <2>4. \A d \in Device : d = It => Provided(d)'
      BY <2>1, <2>2 DEF Provided
    <2> QED
      BY <1>0, <1>1, <2>2, <2>3, <2>4, ImportNextDevice
  <1>5. CASE CreateBMC
    <2>1. Last(secrets[It]).present /\ ~w.bmc.present /\ UNCHANGED secrets
      BY <1>5 DEF CreateBMC, ImportNow, AtDevice
    <2>2. /\ ObjectsTrue' /\ Last(bmcs'[It]).present
          /\ \A d \in Device : Provided(d) => Provided(d)'
      <3>1. CASE Last(bmcs[It]).present
        BY <1>0, <1>1, <1>5, <2>1, <3>1, ImportSame DEF CreateBMC
      <3>2. CASE ~Last(bmcs[It]).present
        BY <1>0, <1>1, <1>5, <2>1, <3>2, ImportBMC DEF CreateBMC, BMCToCreate
      <3> QED
        BY <3>1, <3>2
    <2>3. CASE NextDevice
      <3>1. \A d \in Device : d = It => Provided(d)'
        BY <2>1, <2>2 DEF Provided
      <3> QED
        BY <1>0, <1>1, <2>2, <2>3, <3>1, ImportNextDevice
    <2>4. CASE Goto("patchOwner")
      <3>1. /\ w'.pc = "patchOwner" /\ w'.creds = w.creds /\ w'.list = w.list
            /\ w'.todo = w.todo /\ w'.result = w.result /\ w'.bmc = w.bmc
        BY <1>0, <2>4 DEF Goto, Worker
      <3>2. AtDevice'
        BY <2>1, <2>2, <3>1 DEF AtDevice, It
      <3> QED
        BY <1>0, <1>1, <2>2, <3>1, <3>2, ImportGoesOn
    <2>5. CASE /\ ~Last(bmcs[It]).present /\ StoreBMC(It, BMCToCreate)
               /\ w' = [w EXCEPT !.pc = "patchOwner", !.bmc = BMCToCreate]
      <3>1. /\ w'.pc = "patchOwner" /\ w'.creds = w.creds /\ w'.list = w.list
            /\ w'.todo = w.todo /\ w'.result = w.result /\ w'.bmc = BMCToCreate
        BY <1>0, <2>5 DEF Worker
      <3>2. BMCToCreate.uid = nextUID
        BY NoObjects DEF BMCToCreate, BMC
      <3>3. Last(bmcs'[It]).uid = nextUID
        BY <1>0, <1>1, <2>1, <2>5, ImportBMC
      <3>4. AtDevice'
        BY <2>1, <2>2, <3>1, <3>2, <3>3 DEF AtDevice, It, Owned
      <3> QED
        BY <1>0, <1>1, <2>2, <3>1, <3>4, ImportGoesOn
    <2> QED
      BY <1>5, <2>3, <2>4, <2>5 DEF CreateBMC, BMCToCreate
  <1>6. CASE PatchOwnerReference /\ ~(Fail /\ UNCHANGED cluster)
    <2> DEFINE s == Last(secrets[It])
               v == [s EXCEPT !.owner = w.bmc.uid]
    <2>1. s.present /\ w.bmc.present /\ StoreSecret(It, v) /\ NextDevice
          /\ UNCHANGED <<bmcs, nextUID>>
      BY <1>6 DEF PatchOwnerReference, cluster
    <2>2. Owned(w.bmc.uid, It) /\ Last(bmcs[It]).present
      BY <1>6, <2>1 DEF PatchOwnerReference, ImportNow, AtDevice
    <2>3. s \in Secret /\ s \in ToSet(secrets[It]) /\ w.bmc.uid \in Nat
      BY <1>0, <1>1, EndsType DEF Worker, BMC
    <2>4. s.creds = creds /\ s.label = device[It].label /\ ~s.ignore
      BY <1>1, <2>1, <2>3 DEF ObjectsTrue, SecretsTrue
    <2>5. /\ v \in Secret /\ v.present /\ v.creds = creds /\ v.label = device[It].label
          /\ ~v.ignore /\ v.owner = w.bmc.uid
      BY <2>1, <2>3, <2>4 DEF Secret
    <2>6. /\ ObjectsTrue' /\ Last(secrets'[It]).present
          /\ \A d \in Device : Provided(d) => Provided(d)'
      BY <1>0, <1>1, <2>1, <2>2, <2>5, ImportSecret
    <2>7. \A d \in Device : d = It => Provided(d)'
      BY <2>1, <2>2, <2>6 DEF Provided
    <2> QED
      BY <1>0, <1>1, <2>1, <2>6, <2>7, ImportNextDevice
  <1> QED
    BY <1>2, <1>3, <1>4, <1>5, <1>6

LEMMA ImportReads ==
    ASSUME TypeOK, TypeOK', ImportNow, edits = 0,
           \/ Start \/ ListDevices \/ ReconcileDevice \/ CheckIgnore
           \/ GetSecret \/ GetBMC \/ UpdateStatus
    PROVE  ImportNow'
  <1> USE DEF At
  <1>0. /\ WorkerType /\ ClusterType /\ RestType /\ w \in Worker /\ creds = 1
        /\ UNCHANGED <<device, creds, secrets, bmcs>>
    BY TypeParts DEF WorkerType, RestType, Start, ListDevices, ReconcileDevice, CheckIgnore,
       GetSecret, GetBMC, UpdateStatus, cluster
  <1>1. ObjectsTrue /\ ObjectsTrue' /\ \A d \in Device : Provided(d) => Provided(d)'
    BY <1>0, ImportSame DEF ImportNow
  <1>2. CASE Start
    <2>1. w'.pc = "list" /\ w'.creds = creds /\ w'.result = w.result /\ status' = status
      BY <1>0, <1>2 DEF Start, Worker
    <2> QED
      BY <1>0, <1>1, <2>1 DEF ImportNow, Knows, AtDevice, Progress, InLoop
  <1>3. CASE ListDevices
    <2>1. /\ w'.pc = "device" /\ w'.creds = w.creds /\ w'.list = device
          /\ w'.result = w.result /\ w'.todo = Order /\ status' = status
          /\ w.creds = creds
      BY <1>0, <1>3 DEF ListDevices, Worker, ImportNow, Knows
    <2> QED
      BY <1>0, <1>1, <2>1 DEF ImportNow, Knows, AtDevice, Progress, InLoop, Device
  <1>4. CASE ReconcileDevice
    <2>1. InLoop /\ status' = status /\ w.list = device
      BY <1>4 DEF ReconcileDevice, InLoop, ImportNow, Knows
    <2>2. CASE w.list[It].status = "inactive" /\ NextDevice
      <3>1. \A d \in Device : d = It => Provided(d)'
        BY <1>0, <2>1, <2>2 DEF Provided
      <3> QED
        BY <1>0, <1>1, <2>1, <2>2, <3>1, ImportNextDevice
    <2>3. CASE Fail
      BY <1>0, <1>1, <2>1, <2>3, ImportEnd
    <2>4. CASE Goto("checkIgnore")
      <3>1. /\ w'.pc = "checkIgnore" /\ w'.creds = w.creds /\ w'.list = w.list
            /\ w'.todo = w.todo /\ w'.result = w.result
        BY <1>0, <2>4 DEF Goto, Worker
      <3>2. AtDevice'
        BY <3>1 DEF AtDevice
      <3> QED
        BY <1>0, <1>1, <2>1, <3>1, <3>2, ImportGoesOn
    <2> QED
      BY <1>4, <2>2, <2>3, <2>4 DEF ReconcileDevice
  <1>5. CASE CheckIgnore
    <2>1. InLoop /\ status' = status /\ It \in Device
      BY <1>0, <1>5, HeadInDevice DEF CheckIgnore, InLoop
    <2>2. ~Head(secrets[It]).ignore
      BY <1>0, <1>1, <2>1, EndsType DEF ObjectsTrue, SecretsTrue
    <2>3. /\ w'.pc = "getSecret" /\ w'.creds = w.creds /\ w'.list = w.list
          /\ w'.todo = w.todo /\ w'.result = w.result
      BY <1>0, <1>5, <2>2 DEF CheckIgnore, Goto, Worker
    <2>4. AtDevice'
      BY <2>3 DEF AtDevice
    <2> QED
      BY <1>0, <1>1, <2>1, <2>3, <2>4, ImportGoesOn
  <1>6. CASE GetSecret
    <2> DEFINE s == Head(secrets[It])
    <2>1. InLoop /\ status' = status /\ It \in Device
      BY <1>0, <1>6, HeadInDevice DEF GetSecret, InLoop
    <2>2. /\ ~s.ignore /\ Owned(s.owner, It)
          /\ s.present => Last(secrets[It]).present
      BY <1>0, <1>1, <2>1, EndsType DEF ObjectsTrue, SecretsTrue
    <2>3. PICK pc \in {"getBMC", "writeSecret"} :
            /\ w' = [w EXCEPT !.secret = s, !.pc = pc]
            /\ pc = "getBMC" => s.present
      BY <1>6 DEF GetSecret
    <2>4. /\ w'.pc = pc /\ w'.creds = w.creds /\ w'.list = w.list
          /\ w'.todo = w.todo /\ w'.result = w.result /\ w'.secret = s
      BY <1>0, <2>3 DEF Worker
    <2>5. AtDevice'
      BY <1>0, <2>2, <2>3, <2>4 DEF AtDevice, It, Owned
    <2> QED
      BY <1>0, <1>1, <2>1, <2>4, <2>5, ImportGoesOn
  <1>7. CASE GetBMC
    <2> DEFINE b == Head(bmcs[It])
    <2>1. InLoop /\ status' = status /\ It \in Device /\ Last(secrets[It]).present
      BY <1>0, <1>7, HeadInDevice DEF GetBMC, InLoop, ImportNow, AtDevice
    <2>2. b.present => b.label = device[It].label /\ Last(bmcs[It]).present
      BY <1>0, <1>1, <2>1, EndsType DEF ObjectsTrue, BMCsTrue
    <2>3. PICK pc \in {"patchBMC", "createBMC"} :
            /\ w' = [w EXCEPT !.bmc = b, !.pc = pc]
            /\ pc = "patchBMC" <=> b.present
      BY <1>7 DEF GetBMC
    <2>4. /\ w'.pc = pc /\ w'.creds = w.creds /\ w'.list = w.list
          /\ w'.todo = w.todo /\ w'.result = w.result /\ w'.bmc = b
      BY <1>0, <2>3 DEF Worker
    <2>5. AtDevice'
      BY <1>0, <2>1, <2>2, <2>3, <2>4 DEF AtDevice, It, Owned
    <2> QED
      BY <1>0, <1>1, <2>1, <2>4, <2>5, ImportGoesOn
  <1>8. CASE UpdateStatus
    <2>1. status' = w.result /\ w'.pc = "idle" /\ w'.result = "none"
      BY <1>8, FinishKept DEF UpdateStatus
    <2> QED
      BY <1>0, <1>1, <2>1 DEF ImportNow, Knows, AtDevice, Progress, InLoop
  <1> QED
    BY <1>2, <1>3, <1>4, <1>5, <1>6, <1>7, <1>8

LEMMA ImportNext ==
    ASSUME TypeOK, ImportInv, [Next]_vars
    PROVE  ImportInv'
  <1>0. TypeOK' /\ WorkerType /\ ClusterType /\ edits \in Nat
    BY TypeNext, TypeParts, BoundAssumption DEF RestType
  <1> SUFFICES ASSUME edits' = 0 PROVE ImportNow'
    BY DEF ImportInv
  <1>1. CASE edits = 0
    <2>0. ImportNow
      BY <1>1 DEF ImportInv
    <2>1. CASE Start \/ Step
      BY <1>0, <1>1, <2>0, <2>1, ImportWrites, ImportReads DEF Step
    <2>2. CASE Crash \/ \E d \in Device : DeliverSecret(d) \/ DeliverBMC(d)
      <3>1. \A x \in Device :
             /\ Last(secrets'[x]) = Last(secrets[x]) /\ Last(bmcs'[x]) = Last(bmcs[x])
             /\ ToSet(secrets'[x]) \in SUBSET ToSet(secrets[x])
             /\ ToSet(bmcs'[x]) \in SUBSET ToSet(bmcs[x])
        BY <1>0, <2>2, VersionsDropped
      <3>2. /\ UNCHANGED <<device, creds, status>>
            /\ w' = w \/ w' = IdleWorker
        BY <2>2 DEF Crash, DeliverSecret, DeliverBMC
      <3>3. ObjectsTrue' /\ \A d \in Device : Provided(d) => Provided(d)'
        BY <2>0, <3>1, <3>2 DEF ImportNow, ObjectsTrue, SecretsTrue, BMCsTrue, Owned, Provided
      <3>4. CASE w' = w
        <4>1. AtDevice'
          <5>1. CASE InLoop
            BY <1>0, <2>0, <3>1, <3>2, <3>4, <5>1, HeadInDevice
               DEF ImportNow, AtDevice, It, At, Owned
          <5>2. CASE ~InLoop
            BY <3>4, <5>2 DEF AtDevice, InLoop, At
          <5> QED
            BY <5>1, <5>2
        <4> QED
          BY <2>0, <3>2, <3>3, <3>4, <4>1 DEF ImportNow, Knows, Progress, InLoop
      <3> QED
        BY <2>0, <3>2, <3>3, <3>4, ImportEnd
    <2>3. CASE CallFails
      <3>1. UNCHANGED <<device, creds, secrets, bmcs, status>> /\ (w' = IdleWorker \/ Fail)
        BY <2>3 DEF CallFails, cluster
      <3> QED
        BY <2>0, <3>1, ImportSame, ImportEnd DEF ImportNow
    <2>4. ASSUME NEW d \in Device, CollectGarbage(d)
          PROVE  FALSE
      <3>1. Owned(Last(secrets[d]).owner, d)
        BY <1>0, <2>0, EndsType DEF ImportNow, ObjectsTrue, SecretsTrue
      <3> QED
        BY <2>4, <3>1 DEF CollectGarbage, Owned
    <2>5. CASE UNCHANGED vars
      BY <2>0, <2>5 DEF vars, ImportNow, Knows, ObjectsTrue, SecretsTrue, BMCsTrue, Owned,
         AtDevice, Progress, Provided, InLoop, At, It
    <2>6. CASE edits' = edits + 1
      BY <1>0, <2>6
    <2> QED
      BY <2>1, <2>2, <2>3, <2>4, <2>5, <2>6
         DEF Next, Edit, ToggleIgnore, CreateIgnoredSecret, DeleteSecret, DeleteBMC, EditDevice, Rotate
  <1>2. CASE edits # 0
    <2>1. edits' = edits \/ edits' = edits + 1
      BY DEF Next, Edit, ToggleIgnore, CreateIgnoredSecret, DeleteSecret, DeleteBMC, EditDevice,
         Rotate, Start, Step, ListDevices, ReconcileDevice, CheckIgnore, GetSecret, WriteSecret,
         GetBMC, PatchBMCLabels, CreateBMC, PatchOwnerReference, UpdateStatus, DeliverSecret,
         DeliverBMC, CollectGarbage, CallFails, Crash, bounds, vars
    <2> QED
      BY <1>0, <1>2, <2>1
  <1> QED
    BY <1>1, <1>2

\* As long as nobody edits NetBox, the credentials or the objects, a ClusterImport
\* that says Ready has, for every device that is not inactive, a BMCSecret with the
\* credentials and a BMC, both labelled as NetBox says: whatever calls failed and
\* however often the manager restarted, and the garbage collector takes none away.
THEOREM ReadySafe == Spec => []ReadyMeansImported
  <1>1. TypeOK /\ ImportInv => ReadyMeansImported
    <2> SUFFICES ASSUME TypeOK, ImportInv, status = "Ready", edits = 0,
                        NEW d \in Device, device[d].status # "inactive"
                 PROVE  Imported(d, creds)
      BY DEF ReadyMeansImported
    <2>1. ImportNow /\ ClusterType
      BY TypeParts DEF ImportInv
    <2>2. Last(secrets[d]).present /\ Last(bmcs[d]).present
      BY <2>1 DEF ImportNow, Progress, Provided
    <2> QED
      BY <2>1, <2>2, EndsType DEF ImportNow, ObjectsTrue, SecretsTrue, BMCsTrue, Imported
  <1> QED
    BY <1>1, TypeInit, TypeNext, ImportInit, ImportNext, PTL DEF Spec
=============================================================================
