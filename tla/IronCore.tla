----------------------------- MODULE IronCore -----------------------------
(***************************************************************************)
(* The IronCore controller (internal/controller/ironcore_controller.go):   *)
(* for every active NetBox device of the clusters a ClusterImport selects, *)
(* it keeps a BMCSecret with the BMC credentials and a BMC that owns it.   *)
(*                                                                         *)
(* secrets[d] and bmcs[d] are the versions of the object of device d that  *)
(* the API server has made and the informer cache has not left behind: the *)
(* first is the cached one, the last is the current one.  Every Get reads  *)
(* the first, every write applies to the last.  The worker (one, for       *)
(* MaxConcurrentReconciles is 1) takes a step per call it makes.           *)
(***************************************************************************)
EXTENDS Integers, Sequences, SequencesExt

CONSTANTS
    Order,       \* the devices of the selected clusters, in NetBox's order
    Label,       \* what the labels of a device may say
    InitDevice,  \* the states a device may be in at first
    None,        \* no device, no label, no owner
    MaxFaults,   \* bound: failed calls and crashes of the manager
    MaxEdits     \* bound: edits by the users, in NetBox and of the credentials

ASSUME OrderAssumption == Order \in Seq(ToSet(Order)) \ {<<>>} /\ IsInjective(Order)
ASSUME NoneAssumption == None \notin ToSet(Order) \cup Label \cup Nat
ASSUME BoundAssumption ==
    /\ MaxFaults \in Nat /\ MaxEdits \in Nat

Device == ToSet(Order)

VARIABLES
    device,   \* the NetBox devices: [status, label]
    creds,    \* the rotation of the BMC credentials in force
    secrets,  \* the BMCSecrets
    bmcs,     \* the BMCs
    nextUID,  \* the UID of the next BMC
    status,   \* the state of the ClusterImport
    w,        \* the Reconcile call in progress
    faults, edits

cluster == <<secrets, bmcs, nextUID>>
bounds  == <<faults, edits>>
vars    == <<device, creds, secrets, bmcs, nextUID, status, w, faults, edits>>

-----------------------------------------------------------------------------
(***************************************************************************)
(* Objects.  rv is the resourceVersion, which grows with every write.      *)
(* owner is the UID in the controller reference of a BMCSecret, ignore the *)
(* annotation argora.cloud.sap/ignore.                                     *)
(***************************************************************************)
Secret == [rv: Nat, present: BOOLEAN, creds: 0..MaxEdits + 1,
           label: Label \cup {None}, owner: Nat \cup {None}, ignore: BOOLEAN]
BMC == [rv: Nat, present: BOOLEAN, uid: Nat, label: Label \cup {None}]

NoSecret(v) == [rv |-> v, present |-> FALSE, creds |-> 0, label |-> None,
                owner |-> None, ignore |-> FALSE]
NoBMC(v) == [rv |-> v, present |-> FALSE, uid |-> 0, label |-> None]

\* A broken device is active, but its name, OOB address or region is not usable.
DeviceState == [status: {"active", "inactive", "broken"}, label: Label]

ASSUME InitAssumption == InitDevice \subseteq DeviceState

Result == {"none", "Ready", "Error"}
PC == {"idle", "list", "device", "checkIgnore", "getSecret", "writeSecret",
       "getBMC", "patchBMC", "createBMC", "patchOwner", "status"}

\* The calls that leave the process.  A Get reads the cache and cannot fail.
Remote == PC \ {"idle", "checkIgnore", "getSecret", "getBMC"}

\* todo: the devices left; list: what NetBox said of them; creds: the
\* credentials; secret, bmc: the objects read; skipped: the secret is ignored;
\* result: the state to write to the status.  kept is history: the devices whose
\* secret is ignored, and was so, for all to see, when the call began.
IdleWorker == [pc |-> "idle", todo |-> <<>>, list |-> <<>>, creds |-> 0,
               secret |-> NoSecret(0), bmc |-> NoBMC(0), skipped |-> FALSE, result |-> "none",
               kept |-> {}]

Worker == [pc: PC, todo: Seq(Device), list: {<<>>} \cup [Device -> DeviceState],
           creds: 0..MaxEdits + 1, secret: Secret, bmc: BMC, skipped: BOOLEAN,
           result: Result, kept: SUBSET Device]

TypeOK ==
    /\ device \in [Device -> DeviceState]
    /\ creds \in 1..edits + 1
    /\ secrets \in [Device -> Seq(Secret) \ {<<>>}]
    /\ bmcs \in [Device -> Seq(BMC) \ {<<>>}]
    /\ nextUID \in Nat
    /\ status \in Result
    /\ w \in Worker
    /\ w.pc \notin {"idle", "list", "status"} =>
         w.list \in [Device -> DeviceState] /\ w.todo # <<>>
    /\ faults \in 0..MaxFaults /\ edits \in 0..MaxEdits

Init ==
    /\ device \in [Device -> InitDevice]
    /\ creds = 1
    /\ secrets = [d \in Device |-> <<NoSecret(0)>>]
    /\ bmcs = [d \in Device |-> <<NoBMC(0)>>]
    /\ nextUID = 1
    /\ status = "none"
    /\ w = IdleWorker
    /\ faults = 0
    /\ edits = 0

\* The server stores a new version; a write that changes nothing makes none.
Store(versions, v) ==
    IF [v EXCEPT !.rv = Last(versions).rv] = Last(versions) THEN versions
    ELSE Append(versions, [v EXCEPT !.rv = Last(versions).rv + 1])

StoreSecret(d, v) == secrets' = [secrets EXCEPT ![d] = Store(@, v)]
StoreBMC(d, v) == bmcs' = [bmcs EXCEPT ![d] = Store(@, v)]

-----------------------------------------------------------------------------
(***************************************************************************)
(* The worker.                                                             *)
(***************************************************************************)
At(pc) == w.pc = pc
Goto(pc) == w' = [w EXCEPT !.pc = pc]
It == Head(w.todo)

\* The only step left is to write the status.
Finish(result) == w' = [IdleWorker EXCEPT !.pc = "status", !.result = result]

\* Mutant: the error is logged, and the loop goes on.
Bug_Fail ==
    IF Len(w.todo) <= 1 THEN Finish("Ready")
    ELSE w' = [w EXCEPT !.pc = "device", !.todo = Tail(w.todo)]

\* The first error ends Reconcile: the status tells, and it runs again.
Fail == Finish("Error")

\* Mutant: the loop runs once too often.
Bug_NextDevice ==
    IF Len(w.todo) > 0
    THEN w' = [w EXCEPT !.pc = "device", !.todo = Tail(w.todo)]
    ELSE Finish("Ready")

\* The loop over the devices goes on; after the last the import is Ready.
NextDevice ==
    IF Len(w.todo) > 1
    THEN w' = [w EXCEPT !.pc = "device", !.todo = Tail(w.todo), !.skipped = FALSE,
                        !.secret = NoSecret(0), !.bmc = NoBMC(0)]
    ELSE Finish("Ready")

\* Reconcile reads the ClusterImport and reloads the credentials.
Start ==
    /\ At("idle")
    /\ w' = [w EXCEPT !.pc = "list", !.creds = creds,
                      !.kept = {d \in Device : \A s \in ToSet(secrets[d]) : s.ignore}]
    /\ UNCHANGED <<device, creds, cluster, status, bounds>>

\* The clusters of the selection and their devices.
ListDevices ==
    /\ At("list")
    /\ w' = [w EXCEPT !.pc = "device", !.todo = Order, !.list = device]
    /\ UNCHANGED <<device, creds, cluster, status, bounds>>

\* reconcileDevice up to the labels.
ReconcileDevice ==
    /\ At("device")
    /\ \/ w.list[It].status = "inactive" /\ NextDevice
       \/ w.list[It].status = "broken" /\ Fail
       \/ w.list[It].status = "active" /\ Goto("checkIgnore")
    /\ UNCHANGED <<device, creds, cluster, status, bounds>>

\* reconcileBmcSecret: the first Get, for the ignore annotation.
CheckIgnore ==
    /\ At("checkIgnore")
    /\ LET s == Head(secrets[It]) IN
         IF s.present /\ s.ignore
         THEN w' = [w EXCEPT !.pc = "getBMC", !.secret = s, !.skipped = TRUE]
         ELSE Goto("getSecret")
    /\ UNCHANGED <<device, creds, cluster, status, bounds>>

\* CreateOrUpdate: its own Get; what already says the right thing is not written.
GetSecret ==
    /\ At("getSecret")
    /\ LET s == Head(secrets[It])
           done == s.present /\ s.creds = w.creds /\ s.label = w.list[It].label IN
         w' = [w EXCEPT !.secret = s, !.pc = IF done THEN "getBMC" ELSE "writeSecret"]
    /\ UNCHANGED <<device, creds, cluster, status, bounds>>

\* CreateOrUpdate: its Create, refused if there is one, or its Update, refused
\* unless the version read is still the current one.
WriteSecret ==
    /\ At("writeSecret")
    /\ LET s == Last(secrets[It])
           base == IF w.secret.present THEN w.secret ELSE NoSecret(0)
           new == [base EXCEPT !.present = TRUE, !.creds = w.creds,
                               !.label = w.list[It].label] IN
         IF s.present = w.secret.present /\ (s.present => s.rv = w.secret.rv)
         THEN /\ StoreSecret(It, new)
              /\ w' = [w EXCEPT !.pc = "getBMC", !.secret = Last(secrets'[It])]
              /\ UNCHANGED <<bmcs, nextUID>>
         ELSE Fail /\ UNCHANGED cluster
    /\ UNCHANGED <<device, creds, status, bounds>>

GetBMC ==
    /\ At("getBMC")
    /\ LET b == Head(bmcs[It]) IN
         w' = [w EXCEPT !.bmc = b, !.pc = IF b.present THEN "patchBMC" ELSE "createBMC"]
    /\ UNCHANGED <<device, creds, cluster, status, bounds>>

\* Mutant: a BMC that exists is left as it is.
Bug_PatchBMCLabels ==
    /\ At("patchBMC")
    /\ NextDevice
    /\ UNCHANGED <<device, creds, cluster, status, bounds>>

\* patchBMCLabels: a merge patch of the labels that differ from the BMC read.
\* Then the device is done: the owner reference is left as it is.
PatchBMCLabels ==
    /\ At("patchBMC")
    /\ LET b == Last(bmcs[It]) IN
         IF ~b.present THEN Fail /\ UNCHANGED cluster
         ELSE /\ IF w.bmc.label = w.list[It].label THEN UNCHANGED bmcs
                 ELSE StoreBMC(It, [b EXCEPT !.label = w.list[It].label])
              /\ NextDevice
              /\ UNCHANGED <<secrets, nextUID>>
    /\ UNCHANGED <<device, creds, status, bounds>>

\* Mutant: the owner reference of an ignored secret is set as well.
Bug_CreateBMC ==
    /\ At("createBMC")
    /\ IF Last(bmcs[It]).present
       THEN /\ w' = [w EXCEPT !.pc = "patchOwner"]
            /\ UNCHANGED <<bmcs, nextUID>>
       ELSE LET b == [NoBMC(0) EXCEPT !.present = TRUE, !.uid = nextUID,
                                      !.label = w.list[It].label] IN
            /\ StoreBMC(It, b)
            /\ nextUID' = nextUID + 1
            /\ w' = [w EXCEPT !.pc = "patchOwner", !.bmc = b]
    /\ UNCHANGED <<device, creds, secrets, status, bounds>>

\* createBmc: when the server has one the cache does not show yet, the BMC built
\* here is returned, which has no UID.
CreateBMC ==
    /\ At("createBMC")
    /\ IF Last(bmcs[It]).present
       THEN /\ IF w.skipped THEN NextDevice ELSE Goto("patchOwner")
            /\ UNCHANGED <<bmcs, nextUID>>
       ELSE LET b == [NoBMC(0) EXCEPT !.present = TRUE, !.uid = nextUID,
                                      !.label = w.list[It].label] IN
            /\ StoreBMC(It, b)
            /\ nextUID' = nextUID + 1
            /\ IF w.skipped THEN NextDevice
               ELSE w' = [w EXCEPT !.pc = "patchOwner", !.bmc = b]
    /\ UNCHANGED <<device, creds, secrets, status, bounds>>

\* patchOwnerReference: the server refuses an owner without a UID.
PatchOwnerReference ==
    /\ At("patchOwner")
    /\ LET s == Last(secrets[It]) IN
         IF s.present /\ w.bmc.present
         THEN StoreSecret(It, [s EXCEPT !.owner = w.bmc.uid]) /\ NextDevice
         ELSE Fail /\ UNCHANGED secrets
    /\ UNCHANGED <<device, creds, bmcs, nextUID, status, bounds>>

\* SetCondition and UpdateToReady or UpdateToError.
UpdateStatus ==
    /\ At("status")
    /\ status' = w.result
    /\ w' = IdleWorker
    /\ UNCHANGED <<device, creds, cluster, bounds>>

Step ==
    \/ ListDevices \/ ReconcileDevice
    \/ CheckIgnore \/ GetSecret \/ WriteSecret
    \/ GetBMC \/ PatchBMCLabels \/ CreateBMC \/ PatchOwnerReference
    \/ UpdateStatus

-----------------------------------------------------------------------------
(***************************************************************************)
(* The informers, the garbage collector, faults, users and NetBox.         *)
(***************************************************************************)
DeliverSecret(d) ==
    /\ Len(secrets[d]) > 1
    /\ secrets' = [secrets EXCEPT ![d] = Tail(@)]
    /\ UNCHANGED <<device, creds, bmcs, nextUID, status, w, bounds>>

DeliverBMC(d) ==
    /\ Len(bmcs[d]) > 1
    /\ bmcs' = [bmcs EXCEPT ![d] = Tail(@)]
    /\ UNCHANGED <<device, creds, secrets, nextUID, status, w, bounds>>

\* The secret of d is no longer one that was ignored all along.
Release(d) == w' = [w EXCEPT !.kept = @ \ {d}]

\* Kubernetes deletes a secret whose owner does not exist.
CollectGarbage(d) ==
    LET s == Last(secrets[d])
        b == Last(bmcs[d]) IN
    /\ s.present /\ s.owner # None
    /\ ~(b.present /\ b.uid = s.owner)
    /\ StoreSecret(d, NoSecret(0))
    /\ Release(d)
    /\ UNCHANGED <<device, creds, bmcs, nextUID, status, bounds>>

\* The call in progress fails; for the status there is nobody left to tell.
CallFails ==
    /\ w.pc \in Remote
    /\ faults < MaxFaults
    /\ faults' = faults + 1
    /\ IF At("status") THEN w' = IdleWorker ELSE Fail
    /\ UNCHANGED <<device, creds, cluster, status, edits>>

\* The manager dies and starts again with fresh caches.
Crash ==
    /\ faults < MaxFaults
    /\ faults' = faults + 1
    /\ secrets' = [d \in Device |-> <<Last(secrets[d])>>]
    /\ bmcs' = [d \in Device |-> <<Last(bmcs[d])>>]
    /\ w' = IdleWorker
    /\ UNCHANGED <<device, creds, nextUID, status, edits>>

Edit ==
    /\ edits < MaxEdits
    /\ edits' = edits + 1
    /\ UNCHANGED <<status, faults>>

\* A user annotates a secret, or takes the annotation away.
ToggleIgnore(d) ==
    LET s == Last(secrets[d]) IN
    /\ Edit
    /\ s.present
    /\ StoreSecret(d, [s EXCEPT !.ignore = ~@])
    /\ Release(d)
    /\ UNCHANGED <<device, creds, bmcs, nextUID>>

\* A user makes a secret by hand and annotates it.
CreateIgnoredSecret(d) ==
    /\ Edit
    /\ ~Last(secrets[d]).present
    /\ StoreSecret(d, [NoSecret(0) EXCEPT !.present = TRUE, !.ignore = TRUE])
    /\ UNCHANGED <<w, device, creds, bmcs, nextUID>>

DeleteSecret(d) ==
    /\ Edit
    /\ Last(secrets[d]).present
    /\ StoreSecret(d, NoSecret(0))
    /\ Release(d)
    /\ UNCHANGED <<device, creds, bmcs, nextUID>>

DeleteBMC(d) ==
    /\ Edit
    /\ Last(bmcs[d]).present
    /\ StoreBMC(d, NoBMC(0))
    /\ UNCHANGED <<w, device, creds, secrets, nextUID>>

EditDevice(d) ==
    /\ Edit
    /\ \E s \in DeviceState \ {device[d]} : device' = [device EXCEPT ![d] = s]
    /\ UNCHANGED <<w, creds, cluster>>

\* The operators rotate the BMC credentials.
Rotate ==
    /\ Edit
    /\ creds' = creds + 1
    /\ UNCHANGED <<w, device, cluster>>

Next ==
    \/ Start
    \/ Step
    \/ \E d \in Device : DeliverSecret(d) \/ DeliverBMC(d) \/ CollectGarbage(d)
    \/ CallFails
    \/ Crash
    \/ \E d \in Device : \/ ToggleIgnore(d) \/ CreateIgnoredSecret(d)
                         \/ DeleteSecret(d) \/ DeleteBMC(d) \/ EditDevice(d)
    \/ Rotate

Spec == Init /\ [][Next]_vars

\* Reconcile runs again for ever (RequeueAfter, or backoff after an error), no
\* call hangs and the informers deliver.  Nothing is assumed of the garbage
\* collector, users, NetBox or faults.
Fairness ==
    /\ WF_vars(Start \/ Step)
    /\ \A d \in Device : WF_vars(DeliverSecret(d)) /\ WF_vars(DeliverBMC(d))

FairSpec == Spec /\ Fairness

-----------------------------------------------------------------------------
(***************************************************************************)
(* Properties.                                                             *)
(***************************************************************************)
\* The secret and the BMC of a device say what NetBox and the credentials say.
Imported(d, c) ==
    LET s == Last(secrets[d])
        b == Last(bmcs[d]) IN
    /\ s.present /\ s.creds = c /\ s.label = device[d].label
    /\ b.present /\ b.label = device[d].label

\* A Ready ClusterImport is no empty promise: while nobody edits, whatever calls
\* failed before, every device that is not inactive has its BMC and its secret.
ReadyMeansImported ==
    status = "Ready" /\ edits = 0 =>
        \A d \in Device : device[d].status # "inactive" =>
            Imported(d, creds)

\* A secret that is annotated when a Reconcile call begins, and whose annotation
\* the cache shows, is not touched by that call: neither its credentials and
\* labels nor its owner, "verify BMCSecret was NOT updated"
\* (ironcore_controller_test.go:1089).
IgnoredUntouched ==
    [][\A d \in w.kept :
         LET s == Last(secrets[d])
             t == Last(secrets'[d]) IN
         t.present => s.creds = t.creds /\ s.label = t.label /\ s.owner = t.owner]_vars

\* The devices the loop reaches: none before them is broken for good.
Reached(d) ==
    \E i \in DOMAIN Order :
        /\ Order[i] = d
        /\ \A j \in 1..(i - 1) : device[Order[j]].status # "broken"

\* An active device that the loop reaches is imported with the current
\* credentials and labels in the end, and stays so, unless its secret is ignored;
\* whatever was deleted, edited, collected or failed before.
EventuallyImported ==
    \A d \in Device :
        <>[](/\ device[d].status = "active" /\ Reached(d)
             /\ ~Last(secrets[d]).ignore)
          => <>[]Imported(d, creds)

\* The status ends up telling whether the import works.
StatusTracks ==
    /\ <>[](\E d \in Device : device[d].status = "broken") => <>[](status = "Error")
    /\ <>[](\A d \in Device : device[d].status # "broken") => <>[](status = "Ready")

\* The secret of an imported device is owned by its BMC in the end, so that it
\* goes with the BMC: "Expect(bmcSecret.ObjectMeta.OwnerReferences).To(HaveLen(1))"
\* (ironcore_controller_test.go:194).
EventuallyOwned ==
    \A d \in Device :
        <>[](/\ device[d].status = "active" /\ Reached(d)
             /\ ~Last(secrets[d]).ignore)
          => <>[](/\ Last(bmcs[d]).present
                  /\ Last(secrets[d]).owner = Last(bmcs[d]).uid)
=============================================================================
