------------------------------ MODULE Metal3 ------------------------------
(***************************************************************************)
(* The Metal3 controller (internal/controller/metal3_controller.go): for   *)
(* every active NetBox device of the cluster a CAPI Cluster names, it      *)
(* keeps a secret with the BMC credentials and creates, once, a            *)
(* BareMetalHost and a secret with the network data the host refers to.    *)
(*                                                                         *)
(* Its reload of the credentials, and every read of the user and of the    *)
(* password, are actions of Credentials: a Reconcile call of this module   *)
(* is one of a reconciler of that module, which is at "work" there while   *)
(* this module says what the call does.  Here it is alone with the struct; *)
(* what others do to it meanwhile is the subject of Credentials.           *)
(*                                                                         *)
(* secrets[d] and hosts[d] are the versions of the object of device d that *)
(* the API server has made and the informer cache has not left behind, as  *)
(* in IronCore: a Get reads the first, a write applies to the last.        *)
(***************************************************************************)
EXTENDS Integers, Sequences, SequencesExt

CONSTANTS
    Order,         \* the devices of the cluster, in NetBox's order
    InitDevice,    \* what every device may be like at first
    Self,          \* this reconciler
    BlankFiles, PartialFiles, BadFiles,  \* see Credentials
    MaxRotations, MaxRestarts,
    MaxFaults,     \* bound: failed calls and restarts of the manager
    MaxEdits       \* bound: edits by the users, in NetBox and of the credentials

ASSUME OrderAssumption == Order \in Seq(ToSet(Order)) \ {<<>>} /\ IsInjective(Order)
ASSUME FilesAssumption == {BlankFiles, PartialFiles, BadFiles} \subseteq BOOLEAN
ASSUME BoundAssumption ==
    /\ MaxRotations \in Nat \ {0}
    /\ {MaxRestarts, MaxFaults, MaxEdits} \subseteq Nat

Device == ToSet(Order)

VARIABLES
    file, readable, version, creds, pc, buf, todo, used, restarts,  \* see Credentials
    device,    \* what NetBox says of the devices
    clusters,  \* how many NetBox clusters have the name
    secrets,   \* the BMC secrets
    hosts,     \* the BareMetalHosts
    networks,  \* the network data secrets: the UID of the owner, 0 for none
    nextUID,   \* the UID of the next host
    w,         \* the Reconcile call at work
    faults, edits

C == INSTANCE Credentials WITH Proc <- {Self}, BMCProc <- {Self}

shared   == <<file, readable, version, creds, pc, buf, todo, used, restarts>>
netBox   == <<device, clusters>>
kube     == <<secrets, hosts, networks, nextUID>>
bounds   == <<faults, edits>>
vars     == <<shared, netBox, kube, w, bounds>>

-----------------------------------------------------------------------------
(***************************************************************************)
(* Objects.  rv is the resourceVersion, which grows with every write.      *)
(***************************************************************************)
Secret == [rv: Nat, present: BOOLEAN, ignore: BOOLEAN, user: C!Value, password: C!Value]
Host == [present: BOOLEAN, uid: Nat, mac: BOOLEAN]

NoSecret(v) == [rv |-> v, present |-> FALSE, ignore |-> FALSE,
                user |-> C!Blank, password |-> C!Blank]
NoHost == [present |-> FALSE, uid |-> 0, mac |-> FALSE]

\* All but an inactive device are active.  Of a broken one the OOB address, the
\* name, the type, the region or the tags are not usable; of a noMAC device no
\* interface in the LAG of its primary address is known; a noNetwork device has
\* no LAG1, no address on it, or a type no link hint is known for.
DeviceState == {"active", "inactive", "broken", "noMAC", "noNetwork"}

ASSUME InitAssumption == InitDevice \in [Device -> SUBSET DeviceState]

PC == {"idle", "clusters", "list", "device", "checkIgnore", "getSecret", "writeSecret",
       "getHost", "lookup", "createHost", "findNetwork", "createNetwork"}

\* The calls that leave the process.  A Get reads the cache and cannot fail.
Remote == {"clusters", "list", "writeSecret", "lookup", "createHost",
           "findNetwork", "createNetwork"}

\* todo: the devices left; list: what NetBox said of them; secret: the secret
\* read; mac: the MAC address is known; uid: the host created.  kept is history:
\* the devices whose secret is ignored, and was so, for all to see, when the
\* call began.
IdleWorker == [pc |-> "idle", todo |-> <<>>, list |-> <<>>, secret |-> NoSecret(0),
               mac |-> FALSE, uid |-> 0, kept |-> {}]

Worker == [pc: PC, todo: Seq(Device), list: {<<>>} \cup [Device -> DeviceState],
           secret: Secret, mac: BOOLEAN, uid: Nat, kept: SUBSET Device]

TypeOK ==
    /\ C!TypeOK
    /\ device \in [Device -> DeviceState]
    /\ clusters \in 0..2
    /\ secrets \in [Device -> Seq(Secret) \ {<<>>}]
    /\ hosts \in [Device -> Seq(Host) \ {<<>>}]
    /\ networks \in [Device -> 0..nextUID - 1]
    /\ nextUID \in Nat \ {0}
    /\ w \in Worker
    /\ w.pc # "idle" <=> pc[Self] \in {"work", "bmcUser", "bmcPassword"}
    /\ pc[Self] \in {"bmcUser", "bmcPassword"} => w.pc = "checkIgnore"
    /\ w.pc \notin {"idle", "clusters", "list"} =>
         w.todo # <<>> /\ w.list \in [Device -> DeviceState]
    /\ w.uid < nextUID
    /\ faults \in 0..MaxFaults /\ edits \in 0..MaxEdits

Init ==
    /\ C!Init
    /\ device \in {f \in [Device -> DeviceState] : \A d \in Device : f[d] \in InitDevice[d]}
    /\ clusters = 1
    /\ secrets = [d \in Device |-> <<NoSecret(0)>>]
    /\ hosts = [d \in Device |-> <<NoHost>>]
    /\ networks = [d \in Device |-> 0]
    /\ nextUID = 1
    /\ w = IdleWorker
    /\ faults = 0
    /\ edits = 0

\* The server stores a new version; a write that changes nothing makes none.
StoreSecret(d, v) ==
    LET s == Last(secrets[d]) IN
    secrets' = IF [v EXCEPT !.rv = s.rv] = s THEN secrets
               ELSE [secrets EXCEPT ![d] = Append(@, [v EXCEPT !.rv = s.rv + 1])]

StoreHost(d, v) == hosts' = [hosts EXCEPT ![d] = Append(@, v)]

-----------------------------------------------------------------------------
(***************************************************************************)
(* The Reconcile call.                                                     *)
(***************************************************************************)
At(l) == w.pc = l /\ pc[Self] = "work"
Goto(l) == w' = [w EXCEPT !.pc = l] /\ UNCHANGED shared
It == Head(w.todo)

\* Reconcile returns.
Finish == C!Finish(Self) /\ w' = IdleWorker

\* Mutant: what fails is tried again at once.
Bug_Fail ==
    /\ w' = [w EXCEPT !.pc = IF w.todo = <<>> THEN "clusters" ELSE "device"]
    /\ UNCHANGED shared

\* The first error ends the call, and it runs again.
Fail == Finish

\* Mutant: the loop runs once too often.
Bug_NextDevice ==
    IF Len(w.todo) > 0
    THEN w' = [w EXCEPT !.pc = "device", !.todo = Tail(@)] /\ UNCHANGED shared
    ELSE Finish

\* The loop over the devices goes on.
NextDevice ==
    IF Len(w.todo) > 1
    THEN /\ w' = [w EXCEPT !.pc = "device", !.todo = Tail(@), !.secret = NoSecret(0),
                           !.mac = FALSE, !.uid = 0]
         /\ UNCHANGED shared
    ELSE Finish

\* r.credentials.Reload.
ReloadCredentials ==
    /\ \/ C!Reconcile(Self) \/ C!ReadFile(Self)
       \/ C!Unmarshal(Self) \/ C!Validate(Self)
    /\ UNCHANGED <<netBox, kube, w, bounds>>

\* r.netBox.Reload, with the token of the struct.
ReloadNetBox ==
    /\ C!ReloadNetBox(Self)
    /\ w' = [w EXCEPT !.pc = "clusters",
                      !.kept = {d \in Device : \A s \in ToSet(secrets[d]) : s.ignore}]
    /\ UNCHANGED <<netBox, kube, bounds>>

\* GetClustersByNameRegionType; none is an error as well.
GetClusters ==
    /\ At("clusters")
    /\ IF clusters = 1 THEN Goto("list") ELSE Fail
    /\ UNCHANGED <<netBox, kube, bounds>>

ListDevices ==
    /\ At("list")
    /\ w' = [w EXCEPT !.pc = "device", !.todo = Order, !.list = device]
    /\ UNCHANGED <<shared, netBox, kube, bounds>>

\* reconcileDevice: an active device needs the credentials.
ReconcileDevice ==
    /\ At("device")
    /\ IF w.list[It] = "inactive" THEN NextDevice
       ELSE /\ C!NextDevice(Self)
            /\ w' = [w EXCEPT !.pc = "checkIgnore"]
    /\ UNCHANGED <<netBox, kube, bounds>>

\* reconcileBmcSecret: the user and the password; without them it fails.
ResolveCredentials ==
    /\ C!ResolveBMCUser(Self) \/ C!ResolveBMCPassword(Self)
    /\ w' = IF pc'[Self] = "idle" THEN IdleWorker ELSE w
    /\ UNCHANGED <<netBox, kube, bounds>>

\* Mutant: the annotation is not looked at.
Bug_CheckIgnore ==
    /\ At("checkIgnore")
    /\ Goto("getSecret")
    /\ UNCHANGED <<netBox, kube, bounds>>

\* reconcileBmcSecret: the first Get, for the ignore annotation.
CheckIgnore ==
    /\ At("checkIgnore")
    /\ LET s == Head(secrets[It]) IN
         Goto(IF s.present /\ s.ignore THEN "getHost" ELSE "getSecret")
    /\ UNCHANGED <<netBox, kube, bounds>>

User == used[Self]["bmcUser"]
Password == used[Self]["bmcPassword"]

\* Mutant: a secret that exists is left as it is.
Bug_GetSecret ==
    /\ At("getSecret")
    /\ LET s == Head(secrets[It]) IN
         w' = [w EXCEPT !.secret = s, !.pc = IF s.present THEN "getHost" ELSE "writeSecret"]
    /\ UNCHANGED <<shared, netBox, kube, bounds>>

\* CreateOrUpdate: its own Get; what already says the right thing is not written.
GetSecret ==
    /\ At("getSecret")
    /\ LET s == Head(secrets[It])
           done == s.present /\ s.user = User /\ s.password = Password IN
         w' = [w EXCEPT !.secret = s, !.pc = IF done THEN "getHost" ELSE "writeSecret"]
    /\ UNCHANGED <<shared, netBox, kube, bounds>>

\* CreateOrUpdate: its Create, refused if there is one, or its Update, refused
\* unless the version read is still the current one.
WriteSecret ==
    /\ At("writeSecret")
    /\ LET s == Last(secrets[It])
           new == [NoSecret(0) EXCEPT !.present = TRUE, !.ignore = w.secret.ignore,
                                      !.user = User, !.password = Password] IN
         IF s.present = w.secret.present /\ (s.present => s.rv = w.secret.rv)
         THEN StoreSecret(It, new) /\ Goto("getHost")
         ELSE Fail /\ UNCHANGED secrets
    /\ UNCHANGED <<netBox, hosts, networks, nextUID, bounds>>

\* A host that exists is left as it is; one that cannot be described is an error.
GetHost ==
    /\ At("getHost")
    /\ \/ Head(hosts[It]).present /\ NextDevice
       \/ ~Head(hosts[It]).present /\ w.list[It] = "broken" /\ Fail
       \/ ~Head(hosts[It]).present /\ w.list[It] # "broken" /\ Goto("lookup")
    /\ UNCHANGED <<netBox, kube, bounds>>

\* getMacForIP: the address, its interface, and the first interface in its LAG.
HasMac(d) == device[d] # "noMAC"

\* An error of getMacForIP only leaves the MAC address empty; one of
\* GetRegionForDevice ends the call.
LookUp ==
    /\ At("lookup")
    /\ \/ w' = [w EXCEPT !.pc = "createHost", !.mac = HasMac(It)] /\ UNCHANGED faults
       \/ /\ faults < MaxFaults
          /\ faults' = faults + 1
          /\ w' = [w EXCEPT !.pc = "createHost"]
    /\ UNCHANGED <<shared, netBox, kube, edits>>

CreateHost ==
    /\ At("createHost")
    /\ IF Last(hosts[It]).present THEN Fail /\ UNCHANGED <<hosts, nextUID>>
       ELSE /\ StoreHost(It, [present |-> TRUE, uid |-> nextUID, mac |-> w.mac])
            /\ nextUID' = nextUID + 1
            /\ w' = [w EXCEPT !.pc = "findNetwork", !.uid = nextUID]
            /\ UNCHANGED shared
    /\ UNCHANGED <<netBox, secrets, networks, bounds>>

\* createNetworkDataSecret: LAG1, its address, the prefixes and the link hint.
FindNetwork ==
    /\ At("findNetwork")
    /\ IF device[It] = "noNetwork" THEN Fail ELSE Goto("createNetwork")
    /\ UNCHANGED <<netBox, kube, bounds>>

\* createNetworkDataSecret: a Create, refused if there still is one.
CreateNetworkData ==
    /\ At("createNetwork")
    /\ IF networks[It] # 0 THEN Fail /\ UNCHANGED networks
       ELSE networks' = [networks EXCEPT ![It] = w.uid] /\ NextDevice
    /\ UNCHANGED <<netBox, secrets, hosts, nextUID, bounds>>

Step ==
    \/ ReloadCredentials \/ ReloadNetBox \/ GetClusters \/ ListDevices
    \/ ReconcileDevice \/ ResolveCredentials
    \/ CheckIgnore \/ GetSecret \/ WriteSecret
    \/ GetHost \/ LookUp \/ CreateHost
    \/ FindNetwork \/ CreateNetworkData

-----------------------------------------------------------------------------
(***************************************************************************)
(* The mounted secret, the informers, the garbage collector, faults, users *)
(* and NetBox.                                                             *)
(***************************************************************************)
Rotate ==
    /\ edits < MaxEdits
    /\ edits' = edits + 1
    /\ C!Rotate
    /\ UNCHANGED <<netBox, kube, w, faults>>

\* The manager dies and starts again with fresh caches.
Restart ==
    /\ faults < MaxFaults
    /\ faults' = faults + 1
    /\ C!Restart
    /\ secrets' = [d \in Device |-> <<Last(secrets[d])>>]
    /\ hosts' = [d \in Device |-> <<Last(hosts[d])>>]
    /\ w' = IdleWorker
    /\ UNCHANGED <<netBox, networks, nextUID, edits>>

DeliverSecret(d) ==
    /\ Len(secrets[d]) > 1
    /\ secrets' = [secrets EXCEPT ![d] = Tail(@)]
    /\ UNCHANGED <<shared, netBox, hosts, networks, nextUID, w, bounds>>

DeliverHost(d) ==
    /\ Len(hosts[d]) > 1
    /\ hosts' = [hosts EXCEPT ![d] = Tail(@)]
    /\ UNCHANGED <<shared, netBox, secrets, networks, nextUID, w, bounds>>

\* Kubernetes deletes the network data of a host that does not exist.
CollectGarbage(d) ==
    /\ networks[d] # 0
    /\ ~(Last(hosts[d]).present /\ Last(hosts[d]).uid = networks[d])
    /\ networks' = [networks EXCEPT ![d] = 0]
    /\ UNCHANGED <<shared, netBox, secrets, hosts, nextUID, w, bounds>>

\* Mutant: the error of a write of the secret is only logged.
Bug_CallFails ==
    /\ w.pc \in Remote
    /\ faults < MaxFaults
    /\ faults' = faults + 1
    /\ IF At("writeSecret") THEN Goto("getHost") ELSE Fail
    /\ UNCHANGED <<netBox, kube, edits>>

\* The call in progress fails.
CallFails ==
    /\ w.pc \in Remote
    /\ faults < MaxFaults
    /\ faults' = faults + 1
    /\ Fail
    /\ UNCHANGED <<netBox, kube, edits>>

Edit ==
    /\ edits < MaxEdits
    /\ edits' = edits + 1
    /\ UNCHANGED <<shared, networks, nextUID, faults>>

\* The secret of d is no longer one that was ignored all along.
Release(d) == w' = [w EXCEPT !.kept = @ \ {d}]

\* A user annotates a secret, or takes the annotation away.
ToggleIgnore(d) ==
    LET s == Last(secrets[d]) IN
    /\ Edit
    /\ s.present
    /\ StoreSecret(d, [s EXCEPT !.ignore = ~@])
    /\ Release(d)
    /\ UNCHANGED <<netBox, hosts>>

\* A user makes a secret by hand and annotates it.
CreateIgnoredSecret(d) ==
    /\ Edit
    /\ ~Last(secrets[d]).present
    /\ StoreSecret(d, [NoSecret(0) EXCEPT !.present = TRUE, !.ignore = TRUE])
    /\ UNCHANGED <<netBox, hosts, w>>

DeleteSecret(d) ==
    /\ Edit
    /\ Last(secrets[d]).present
    /\ StoreSecret(d, NoSecret(0))
    /\ Release(d)
    /\ UNCHANGED <<netBox, hosts>>

DeleteHost(d) ==
    /\ Edit
    /\ Last(hosts[d]).present
    /\ StoreHost(d, NoHost)
    /\ UNCHANGED <<netBox, secrets, w>>

EditDevice(d) ==
    /\ Edit
    /\ \E s \in DeviceState \ {device[d]} : device' = [device EXCEPT ![d] = s]
    /\ UNCHANGED <<clusters, secrets, hosts, w>>

EditClusters ==
    /\ Edit
    /\ \E n \in (0..2) \ {clusters} : clusters' = n
    /\ UNCHANGED <<device, secrets, hosts, w>>

Next ==
    \/ Step
    \/ Rotate \/ Restart
    \/ \E d \in Device : DeliverSecret(d) \/ DeliverHost(d) \/ CollectGarbage(d)
    \/ CallFails
    \/ \E d \in Device : \/ ToggleIgnore(d) \/ CreateIgnoredSecret(d)
                         \/ DeleteSecret(d) \/ DeleteHost(d) \/ EditDevice(d)
    \/ EditClusters

Spec == Init /\ [][Next]_vars

\* Reconcile runs again for ever (RequeueAfter, or backoff after an error), no
\* call hangs and the informers deliver.  Nothing is assumed of the garbage
\* collector, users, NetBox or faults.
Fairness ==
    /\ WF_vars(Step)
    /\ \A d \in Device : WF_vars(DeliverSecret(d)) /\ WF_vars(DeliverHost(d))

FairSpec == Spec /\ Fairness

-----------------------------------------------------------------------------
(***************************************************************************)
(* Properties.                                                             *)
(***************************************************************************)
\* The calls of this controller are calls of a reconciler of Credentials: they
\* reload before they work, check what they hand on, and each of them ends, so
\* that what that module says of all its reconcilers holds of this one.
ImplementsCredentials == C!FairSpec

\* A host comes after its secret, and without failures it has its MAC address;
\* only users can part them.
HostComplete ==
    edits = 0 =>
        \A d \in Device : LET h == Last(hosts[d]) IN
            h.present =>
                /\ Last(secrets[d]).present
                /\ faults = 0 => (h.mac <=> HasMac(d))

\* A secret that is annotated when a Reconcile call begins, and whose annotation
\* the cache shows, keeps its credentials during that call
\* (metal3_controller.go:375).
IgnoredUntouched ==
    [][\A d \in w.kept :
         LET s == Last(secrets[d])
             t == Last(secrets'[d]) IN
         t.present => s.user = t.user /\ s.password = t.password]_vars

\* The devices the loop reaches: none before them stops it for good.
Reached(d) ==
    \E i \in DOMAIN Order :
        /\ Order[i] = d
        /\ \A j \in 1..(i - 1) :
             device[Order[j]] = "broken" => Last(hosts[Order[j]]).present

\* A device the loop reaches ends up with the current credentials in its secret,
\* unless that is ignored, and with a host, whatever failed or was deleted before.
EventuallyProvided ==
    <>[](clusters = 1 /\ readable /\ C!Complete(file)) =>
        \A d \in Device :
            /\ <>[](device[d] # "inactive" /\ Reached(d) /\ ~Last(secrets[d]).ignore) =>
                 <>[](/\ Last(secrets[d]).present
                      /\ Last(secrets[d]).user = file["bmcUser"]
                      /\ Last(secrets[d]).password = file["bmcPassword"])
            /\ <>[](device[d] \notin {"inactive", "broken"} /\ Reached(d)) =>
                 <>[](Last(hosts[d]).present)

\* A host ends up with the network data it refers to:
\* "expectNetworkDataSecret(ndSecret)" (metal3_controller_test.go:334).
EventuallyNetworked ==
    <>[](clusters = 1 /\ readable /\ C!Complete(file)) =>
        \A d \in Device :
            <>[](device[d] = "active" /\ Reached(d)) =>
                <>[](/\ Last(hosts[d]).present
                     /\ networks[d] = Last(hosts[d]).uid)
=============================================================================
