---------------------------- MODULE Metal3Proofs ----------------------------
(***************************************************************************)
(* What holds of Metal3 for every value of its constants: its calls are    *)
(* calls of a reconciler of Credentials, its variables keep their types, a *)
(* host comes after its secret, and a call leaves alone the secrets that   *)
(* were ignored when it began.                                             *)
(***************************************************************************)
EXTENDS Metal3, VersionSequences

(***************************************************************************)
(* The reconciler as one of Credentials, alone with the struct.            *)
(***************************************************************************)
CP == INSTANCE CredentialsProofs WITH Proc <- {Self}, BMCProc <- {Self}

\* Both instances say the same.
LEMMA SameCredentials ==
    /\ C!Spec <=> CP!Spec
    /\ C!TypeOK <=> CP!TypeOK
    /\ C!BMCNotBlank <=> CP!BMCNotBlank
    /\ C!TokenRequired <=> CP!TokenRequired
  <1> USE DEF C!Key, CP!Key, C!Absent, CP!Absent, C!Blank, CP!Blank, C!Torn, CP!Torn,
              C!NoEntries, CP!NoEntries, C!NewCredentials, CP!NewCredentials
  <1>1. UNCHANGED C!vars <=> UNCHANGED CP!vars
    BY DEF C!vars, CP!vars
  <1>2. C!Init <=> CP!Init
    BY DEF C!Init, CP!Init
  <1>3. C!TypeOK <=> CP!TypeOK
    BY DEF C!TypeOK, CP!TypeOK, C!Entry, CP!Entry, C!Value, CP!Value, C!PC, CP!PC
  <1>4. (C!BMCNotBlank <=> CP!BMCNotBlank) /\ (C!TokenRequired <=> CP!TokenRequired)
    BY DEF C!BMCNotBlank, CP!BMCNotBlank, C!TokenRequired, CP!TokenRequired
  <1>5. (C!Rotate <=> CP!Rotate) /\ (C!Restart <=> CP!Restart)
    BY DEF C!Rotate, CP!Rotate, C!Restart, CP!Restart
  <1>6. C!Step(Self) <=> CP!Step(Self)
    BY DEF C!Step, C!Reconcile, C!ReadFile, C!Unmarshal, C!Validate, C!ReloadNetBox,
       C!ResolveBMCUser, C!ResolveBMCPassword, C!NextDevice, C!Finish, C!Return, C!Goto,
       C!HandOn, C!Reads, C!Field, C!Value, C!mount,
       CP!Step, CP!Reconcile, CP!ReadFile, CP!Unmarshal, CP!Validate, CP!ReloadNetBox,
       CP!ResolveBMCUser, CP!ResolveBMCPassword, CP!NextDevice, CP!Finish, CP!Return, CP!Goto,
       CP!HandOn, CP!Reads, CP!Field, CP!Value, CP!mount
  <1>7. [C!Next]_(C!vars) <=> [CP!Next]_(CP!vars)
    BY <1>1, <1>5, <1>6 DEF C!Next, CP!Next
  <1>8. C!Spec <=> CP!Spec
    BY <1>2, <1>7, PTL DEF C!Spec, CP!Spec
  <1> QED
    BY <1>3, <1>4, <1>8

\* A step of the controller is one of the reconciler, or leaves it alone.
LEMMA CallStep ==
    ASSUME [Next]_vars
    PROVE  C!Step(Self) \/ C!Rotate \/ C!Restart \/ UNCHANGED C!vars
  <1>1. CASE UNCHANGED shared
    BY <1>1 DEF shared, C!vars
  <1>2. CASE C!Finish(Self) \/ C!NextDevice(Self)
    BY <1>2 DEF C!Step
  <1>3. CASE ReloadCredentials \/ ReloadNetBox \/ ResolveCredentials
    BY <1>3 DEF ReloadCredentials, ReloadNetBox, ResolveCredentials, C!Step
  <1>4. CASE Rotate \/ Restart
    BY <1>4 DEF Rotate, Restart
  <1>5. CASE Step /\ ~(ReloadCredentials \/ ReloadNetBox \/ ResolveCredentials)
    BY <1>1, <1>2, <1>5 DEF Step, GetClusters, ListDevices, ReconcileDevice, CheckIgnore,
       GetSecret, WriteSecret, GetHost, LookUp, CreateHost, FindNetwork, CreateNetworkData,
       Goto, Fail, Finish, NextDevice
  <1>6. CASE CallFails
    BY <1>2, <1>6 DEF CallFails, Fail, Finish
  <1>7. CASE \/ \E d \in Device : DeliverSecret(d) \/ DeliverHost(d) \/ CollectGarbage(d)
             \/ \E d \in Device : \/ ToggleIgnore(d) \/ CreateIgnoredSecret(d)
                                  \/ DeleteSecret(d) \/ DeleteHost(d) \/ EditDevice(d)
             \/ EditClusters
    BY <1>1, <1>7 DEF DeliverSecret, DeliverHost, CollectGarbage, ToggleIgnore,
       CreateIgnoredSecret, DeleteSecret, DeleteHost, EditDevice, EditClusters, Edit
  <1>8. CASE UNCHANGED vars
    BY <1>1, <1>8 DEF vars
  <1> QED
    BY <1>3, <1>4, <1>5, <1>6, <1>7, <1>8 DEF Next

\* The safety part of ImplementsCredentials: whatever NetBox, the API server and
\* the users do, what the controller does with the credentials is what a
\* reconciler of Credentials does (metal3_controller.go:98, 359-366).
THEOREM CredentialsFollowed == Spec => C!Spec
  <1>1. Init => C!Init
    BY DEF Init
  <1>2. [Next]_vars => [C!Next]_(C!vars)
    BY CallStep DEF C!Next
  <1> QED
    BY <1>1, <1>2, PTL DEF Spec, C!Spec

\* So it never hands on an empty user or password and, alone with the struct,
\* never makes NetBox clients with an empty token.
THEOREM CredentialsSafe == Spec => [](C!TypeOK /\ C!BMCNotBlank /\ C!TokenRequired)
  <1>1. CP!Spec => []CP!TypeOK /\ []CP!BMCNotBlank /\ []CP!TokenRequired
    BY CP!TypeCorrect, CP!BMCSafe, CP!TokenSafeAlone, FilesAssumption, BoundAssumption
  <1>2. /\ C!Spec <=> CP!Spec
        /\ C!TypeOK <=> CP!TypeOK
        /\ C!BMCNotBlank <=> CP!BMCNotBlank
        /\ C!TokenRequired <=> CP!TokenRequired
    BY SameCredentials
  <1> QED
    BY <1>1, <1>2, CredentialsFollowed, PTL

-----------------------------------------------------------------------------
(***************************************************************************)
(* Types.                                                                  *)
(***************************************************************************)
\* The worker is at a device of the list.
InLoop == w.pc \notin {"idle", "clusters", "list"}

ClusterType ==
    /\ secrets \in [Device -> Seq(Secret) \ {<<>>}]
    /\ hosts \in [Device -> Seq(Host) \ {<<>>}]
    /\ networks \in [Device -> 0..nextUID - 1]
    /\ nextUID \in Nat \ {0}

WorkerType ==
    /\ w \in Worker
    /\ w.pc # "idle" <=> pc[Self] \in {"work", "bmcUser", "bmcPassword"}
    /\ pc[Self] \in {"bmcUser", "bmcPassword"} => w.pc = "checkIgnore"
    /\ InLoop => w.todo # <<>> /\ w.list \in [Device -> DeviceState]
    /\ w.uid < nextUID

\* The user and the password have been read by the time they are written.
CredentialsRead ==
    /\ pc[Self] = "bmcPassword" => User \in C!Value
    /\ w.pc \in {"checkIgnore", "getSecret", "writeSecret"} /\ pc[Self] = "work"
         => User \in C!Value /\ Password \in C!Value

RestType ==
    /\ device \in [Device -> DeviceState]
    /\ clusters \in 0..2
    /\ faults \in 0..MaxFaults /\ edits \in 0..MaxEdits

OwnType == ClusterType /\ WorkerType /\ CredentialsRead /\ RestType

LEMMA TypeParts == TypeOK <=> C!TypeOK /\ ClusterType /\ WorkerType /\ RestType
  BY DEF TypeOK, ClusterType, WorkerType, RestType, InLoop

LEMMA NoObjects ==
    /\ \A v \in Nat : NoSecret(v) \in Secret
    /\ NoHost \in Host
    /\ IdleWorker \in Worker /\ IdleWorker.pc = "idle" /\ IdleWorker.uid = 0
    /\ IdleWorker.kept = {}
  <1>1. \A v \in Nat : NoSecret(v) \in Secret
    BY DEF NoSecret, Secret, C!Value
  <1>2. <<>> \in Seq(Device)
    OBVIOUS
  <1> QED
    BY <1>1, <1>2 DEF IdleWorker, Worker, PC, NoHost, Host

LEMMA EndsType ==
    ASSUME ClusterType, NEW d \in Device
    PROVE  /\ Head(secrets[d]) \in Secret /\ Head(secrets[d]) \in ToSet(secrets[d])
           /\ Last(secrets[d]) \in Secret /\ Last(secrets[d]) \in ToSet(secrets[d])
           /\ Head(hosts[d]) \in Host /\ Last(hosts[d]) \in Host
           /\ ToSet(secrets[d]) \in SUBSET Secret
  BY VersionEnds DEF ClusterType

LEMMA HeadInDevice == WorkerType /\ InLoop => It \in Device
  BY VersionEnds DEF WorkerType, Worker, It

LEMMA OwnTypeInit == Init => OwnType
  <1> SUFFICES ASSUME Init PROVE OwnType
    OBVIOUS
  <1>1. ClusterType
    BY NoObjects, VersionSingle DEF Init, ClusterType
  <1>2. pc[Self] = "idle"
    BY DEF Init, C!Init
  <1>3. WorkerType /\ CredentialsRead
    BY <1>2, NoObjects DEF Init, WorkerType, CredentialsRead, InLoop
  <1>4. RestType
    BY InitAssumption, BoundAssumption DEF Init, RestType
  <1> QED
    BY <1>1, <1>3, <1>4 DEF OwnType

\* What a write leaves in the versions of its device, and of the others.
LEMMA SecretWritten ==
    ASSUME ClusterType, NEW d \in Device, NEW v \in Secret, StoreSecret(d, v)
    PROVE  /\ secrets' \in [Device -> Seq(Secret) \ {<<>>}]
           /\ \A x \in Device \ {d} : secrets'[x] = secrets[x]
           /\ ToSet(secrets'[d]) \in SUBSET (ToSet(secrets[d]) \cup {Last(secrets'[d])})
           /\ Last(secrets'[d]).present = v.present /\ Last(secrets'[d]).ignore = v.ignore
           /\ Last(secrets'[d]).user = v.user /\ Last(secrets'[d]).password = v.password
  <1> DEFINE s == Last(secrets[d])
             e == [v EXCEPT !.rv = s.rv + 1]
  <1>1. secrets[d] \in Seq(Secret) /\ s \in Secret
    BY EndsType DEF ClusterType
  <1>2. e \in Secret /\ e.present = v.present /\ e.ignore = v.ignore /\ e.user = v.user
                     /\ e.password = v.password
    BY <1>1 DEF Secret
  <1>3. CASE [v EXCEPT !.rv = s.rv] = s
    <2>1. s.present = v.present /\ s.ignore = v.ignore /\ s.user = v.user
                                /\ s.password = v.password
      BY <1>1, <1>3 DEF Secret
    <2>2. secrets' = secrets
      BY <1>3 DEF StoreSecret
    <2> QED
      BY <2>1, <2>2 DEF ClusterType
  <1>4. CASE [v EXCEPT !.rv = s.rv] # s
    <2>1. secrets' = [secrets EXCEPT ![d] = Append(secrets[d], e)]
      BY <1>4 DEF StoreSecret
    <2>2. /\ Append(secrets[d], e) \in Seq(Secret) \ {<<>>}
          /\ Last(Append(secrets[d], e)) = e
          /\ ToSet(Append(secrets[d], e)) = ToSet(secrets[d]) \cup {e}
      BY <1>1, <1>2, VersionAppend
    <2>3. secrets'[d] = Append(secrets[d], e)
      BY <2>1 DEF ClusterType
    <2> HIDE DEF e
    <2> QED
      BY <1>2, <2>1, <2>2, <2>3 DEF ClusterType
  <1> QED
    BY <1>3, <1>4

LEMMA HostWritten ==
    ASSUME ClusterType, NEW d \in Device, NEW v \in Host, StoreHost(d, v)
    PROVE  /\ hosts' \in [Device -> Seq(Host) \ {<<>>}]
           /\ \A x \in Device \ {d} : hosts'[x] = hosts[x]
           /\ Last(hosts'[d]) = v
  <1>1. /\ Append(hosts[d], v) \in Seq(Host) \ {<<>>}
        /\ Last(Append(hosts[d], v)) = v
    BY VersionAppend DEF ClusterType
  <1> QED
    BY <1>1 DEF StoreHost, ClusterType

\* The informers and a restart drop versions, never the last one.
LEMMA VersionsDropped ==
    ASSUME ClusterType, Restart \/ \E d \in Device : DeliverSecret(d) \/ DeliverHost(d)
    PROVE  /\ secrets' \in [Device -> Seq(Secret) \ {<<>>}]
           /\ hosts' \in [Device -> Seq(Host) \ {<<>>}]
           /\ \A x \in Device :
                /\ Last(secrets'[x]) = Last(secrets[x]) /\ Last(hosts'[x]) = Last(hosts[x])
                /\ ToSet(secrets'[x]) \in SUBSET ToSet(secrets[x])
  <1>1. CASE Restart
    <2>1. \A x \in Device : /\ <<Last(secrets[x])>> \in Seq(Secret) \ {<<>>}
                            /\ Last(<<Last(secrets[x])>>) = Last(secrets[x])
                            /\ ToSet(<<Last(secrets[x])>>) \in SUBSET ToSet(secrets[x])
                            /\ <<Last(hosts[x])>> \in Seq(Host) \ {<<>>}
                            /\ Last(<<Last(hosts[x])>>) = Last(hosts[x])
      <3> SUFFICES ASSUME NEW x \in Device
                   PROVE  /\ <<Last(secrets[x])>> \in Seq(Secret) \ {<<>>}
                          /\ Last(<<Last(secrets[x])>>) = Last(secrets[x])
                          /\ ToSet(<<Last(secrets[x])>>) \in SUBSET ToSet(secrets[x])
                          /\ <<Last(hosts[x])>> \in Seq(Host) \ {<<>>}
                          /\ Last(<<Last(hosts[x])>>) = Last(hosts[x])
        OBVIOUS
      <3>1. /\ Last(secrets[x]) \in Secret /\ Last(secrets[x]) \in ToSet(secrets[x])
            /\ Last(hosts[x]) \in Host
        BY EndsType
      <3> QED
        BY <3>1, VersionSingle
    <2> QED
      BY <1>1, <2>1 DEF Restart
  <1>2. ASSUME NEW d \in Device, DeliverSecret(d)
        PROVE  /\ secrets' \in [Device -> Seq(Secret) \ {<<>>}]
               /\ \A x \in Device : /\ Last(secrets'[x]) = Last(secrets[x])
                                    /\ ToSet(secrets'[x]) \in SUBSET ToSet(secrets[x])
    <2>1. /\ Tail(secrets[d]) \in Seq(Secret) \ {<<>>}
          /\ Last(Tail(secrets[d])) = Last(secrets[d])
          /\ ToSet(Tail(secrets[d])) \in SUBSET ToSet(secrets[d])
      BY <1>2, VersionTail DEF DeliverSecret, ClusterType
    <2> QED
      BY <1>2, <2>1 DEF DeliverSecret, ClusterType
  <1>3. ASSUME NEW d \in Device, DeliverHost(d)
        PROVE  /\ hosts' \in [Device -> Seq(Host) \ {<<>>}]
               /\ \A x \in Device : Last(hosts'[x]) = Last(hosts[x])
    <2>1. /\ Tail(hosts[d]) \in Seq(Host) \ {<<>>}
          /\ Last(Tail(hosts[d])) = Last(hosts[d])
      BY <1>3, VersionTail DEF DeliverHost, ClusterType
    <2> QED
      BY <1>3, <2>1 DEF DeliverHost, ClusterType
  <1> QED
    BY <1>1, <1>2, <1>3 DEF DeliverSecret, DeliverHost, ClusterType

\* What the actions of Credentials do to the reconciler.
LEMMA CallMoves ==
    ASSUME C!TypeOK
    PROVE  /\ C!Finish(Self) => pc[Self] = "work" /\ pc'[Self] = "idle"
           /\ C!NextDevice(Self) => pc[Self] = "work" /\ pc'[Self] = "bmcUser"
           /\ C!ReloadNetBox(Self) => pc[Self] = "netBox" /\ pc'[Self] = "work"
           /\ C!Restart => pc'[Self] = "idle"
           /\ C!Rotate => UNCHANGED <<pc, used>>
           /\ ReloadCredentials =>
                /\ pc[Self] \notin {"work", "bmcUser", "bmcPassword"}
                /\ pc'[Self] \notin {"work", "bmcUser", "bmcPassword"}
           /\ C!ResolveBMCUser(Self) =>
                /\ pc[Self] = "bmcUser" /\ pc'[Self] = "bmcPassword"
                /\ User' \in C!Value
           /\ C!ResolveBMCPassword(Self) =>
                /\ pc[Self] = "bmcPassword"
                /\ \/ pc'[Self] = "idle"
                   \/ pc'[Self] = "work" /\ User' = User /\ Password' \in C!Value
  <1>1. /\ pc \in [{Self} -> C!PC] /\ used \in [{Self} -> [C!Key -> C!Value \cup {C!Absent}]]
        /\ creds \in [C!Key -> C!Value]
    BY DEF C!TypeOK
  <1>2. \A k \in C!Key : C!Reads(Self, k) \subseteq C!Value
    BY <1>1 DEF C!Reads
  <1>3. /\ C!Finish(Self) => pc[Self] = "work" /\ pc'[Self] = "idle"
        /\ C!NextDevice(Self) => pc[Self] = "work" /\ pc'[Self] = "bmcUser"
        /\ C!ReloadNetBox(Self) => pc[Self] = "netBox" /\ pc'[Self] = "work"
        /\ C!Restart => pc'[Self] = "idle"
        /\ C!Rotate => UNCHANGED <<pc, used>>
    BY <1>1 DEF C!Finish, C!NextDevice, C!ReloadNetBox, C!Restart, C!Rotate, C!Return, C!Goto,
       C!HandOn
  <1>4. ASSUME ReloadCredentials
        PROVE  /\ pc[Self] \notin {"work", "bmcUser", "bmcPassword"}
               /\ pc'[Self] \notin {"work", "bmcUser", "bmcPassword"}
    <2>1. CASE C!Reconcile(Self) \/ C!ReadFile(Self) \/ C!Unmarshal(Self)
      BY <1>1, <2>1 DEF C!Reconcile, C!ReadFile, C!Unmarshal, C!Return, C!Goto
    <2>2. CASE C!Validate(Self)
      <3>1. PICK i \in DOMAIN C!Field :
              /\ pc[Self] = <<"validate1", "validate2", "validate3">>[i]
              /\ \/ C!Return(Self)
                 \/ C!Goto(Self, <<"validate2", "validate3", "netBox">>[i])
        BY <2>2 DEF C!Validate
      <3>2. i \in 1..3
        BY DEF C!Field
      <3> QED
        BY <1>1, <3>1, <3>2 DEF C!Return, C!Goto
    <2> QED
      BY <1>4, <2>1, <2>2 DEF ReloadCredentials
  <1>5. ASSUME C!ResolveBMCUser(Self)
        PROVE  /\ pc[Self] = "bmcUser" /\ pc'[Self] = "bmcPassword"
               /\ User' \in C!Value
    <2>1. PICK v \in C!Reads(Self, "bmcUser") : used' = [used EXCEPT ![Self]["bmcUser"] = v]
      BY <1>5 DEF C!ResolveBMCUser, C!HandOn
    <2>2. "bmcUser" \in C!Key
      BY DEF C!Key
    <2> QED
      BY <1>1, <1>2, <1>5, <2>1, <2>2 DEF C!ResolveBMCUser, C!HandOn, C!Goto, User
  <1>6. ASSUME C!ResolveBMCPassword(Self)
        PROVE  /\ pc[Self] = "bmcPassword"
               /\ \/ pc'[Self] = "idle"
                  \/ pc'[Self] = "work" /\ User' = User /\ Password' \in C!Value
    <2>1. CASE C!Return(Self)
      BY <1>1, <1>6, <2>1 DEF C!ResolveBMCPassword, C!Return, C!Goto
    <2>2. ASSUME NEW v \in C!Reads(Self, "bmcPassword"), C!Goto(Self, "work"),
                 used' = [used EXCEPT ![Self]["bmcPassword"] = v]
          PROVE  pc'[Self] = "work" /\ User' = User /\ Password' \in C!Value
      <3>1. {"bmcUser", "bmcPassword"} \subseteq C!Key
        BY DEF C!Key
      <3> QED
        BY <1>1, <1>2, <2>2, <3>1 DEF C!Goto, User, Password
    <2> QED
      BY <1>6, <2>1, <2>2 DEF C!ResolveBMCPassword
  <1> QED
    BY <1>3, <1>4, <1>5, <1>6

\* The worker after Reconcile has returned.
LEMMA IdleType ==
    ASSUME ClusterType', w' = IdleWorker, pc'[Self] = "idle"
    PROVE  WorkerType' /\ CredentialsRead'
  BY NoObjects DEF WorkerType, CredentialsRead, InLoop, ClusterType

\* The worker moves on in the loop: what it keeps, and what it changes.
LEMMA MoveType ==
    ASSUME WorkerType, InLoop, w' \in Worker, w'.todo # <<>>, w'.list = w.list,
           w'.pc \notin {"idle", "clusters", "list"},
           pc'[Self] \in {"work", "bmcUser", "bmcPassword"},
           pc'[Self] # "work" => w'.pc = "checkIgnore",
           w'.uid < nextUID'
    PROVE  WorkerType'
  BY DEF WorkerType, InLoop

\* The ends of the work on a device.
LEMMA EndType ==
    ASSUME C!TypeOK, OwnType, ClusterType', nextUID' \geq nextUID, InLoop, pc[Self] = "work",
           NextDevice \/ Fail
    PROVE  WorkerType' /\ CredentialsRead'
  <1>1. CASE Finish
    BY <1>1, CallMoves, IdleType DEF Finish
  <1>2. CASE Len(w.todo) > 1 /\ NextDevice
    <2>1. w \in Worker /\ w.todo \in Seq(Device)
      BY DEF OwnType, WorkerType, Worker
    <2>2. Tail(w.todo) \in Seq(Device) \ {<<>>}
      BY <1>2, <2>1, VersionTail
    <2>3. /\ w' = [w EXCEPT !.pc = "device", !.todo = Tail(w.todo), !.secret = NoSecret(0),
                            !.mac = FALSE, !.uid = 0]
          /\ UNCHANGED shared
      BY <1>2 DEF NextDevice
    <2>4. w' \in Worker /\ w'.todo = Tail(w.todo) /\ w'.pc = "device" /\ w'.list = w.list
          /\ w'.uid = 0
      BY <2>1, <2>2, <2>3, NoObjects DEF Worker, PC
    <2>5. pc'[Self] = "work" /\ 0 < nextUID'
      BY <2>3 DEF shared, ClusterType
    <2>6. WorkerType'
      BY <2>2, <2>4, <2>5, MoveType DEF OwnType
    <2>7. CredentialsRead'
      BY <2>4, <2>5 DEF CredentialsRead
    <2> QED
      BY <2>6, <2>7
  <1> QED
    BY <1>1, <1>2 DEF NextDevice, Fail, Finish

\* The steps that move along the work on a device.
LEMMA AlongType ==
    ASSUME OwnType, UNCHANGED <<shared, nextUID>>, InLoop, pc[Self] = "work",
           w' \in Worker, w'.todo = w.todo, w'.list = w.list, w'.uid = w.uid,
           w'.pc \notin {"idle", "clusters", "list"},
           w'.pc \in {"checkIgnore", "getSecret", "writeSecret"} =>
             w.pc \in {"checkIgnore", "getSecret", "writeSecret"}
    PROVE  WorkerType' /\ CredentialsRead'
  <1>1. pc' = pc /\ used' = used /\ pc'[Self] = "work"
    BY DEF shared
  <1>2. w'.todo # <<>> /\ w'.uid < nextUID'
    BY DEF OwnType, WorkerType
  <1>3. WorkerType'
    BY <1>1, <1>2, MoveType DEF OwnType
  <1>4. CredentialsRead'
    BY <1>1 DEF OwnType, CredentialsRead, User, Password
  <1> QED
    BY <1>3, <1>4

LEMMA GotoAlong ==
    ASSUME w \in Worker, NEW l \in PC, Goto(l)
    PROVE  /\ w' \in Worker /\ w'.pc = l /\ w'.todo = w.todo /\ w'.list = w.list
           /\ w'.uid = w.uid /\ w'.kept = w.kept /\ w'.mac = w.mac /\ w'.secret = w.secret
           /\ UNCHANGED shared
  BY DEF Goto, Worker

\* What the worker writes to the secret.
SecretToWrite ==
    [NoSecret(0) EXCEPT !.present = TRUE, !.ignore = w.secret.ignore,
                        !.user = User, !.password = Password]

LEMMA WriteType ==
    ASSUME OwnType, At("writeSecret")
    PROVE  SecretToWrite \in Secret /\ SecretToWrite.present
  <1>1. NoSecret(0) \in Secret /\ w.secret \in Secret
    BY NoObjects DEF OwnType, WorkerType, Worker
  <1>2. User \in C!Value /\ Password \in C!Value
    BY DEF OwnType, CredentialsRead, At
  <1> QED
    BY <1>1, <1>2 DEF SecretToWrite, Secret

\* The part of the steps of the worker that is not its own.
LEMMA ClusterStep ==
    ASSUME C!TypeOK, OwnType, Step
    PROVE  ClusterType' /\ RestType' /\ nextUID' \geq nextUID
  <1>0. ClusterType /\ WorkerType /\ RestType /\ w \in Worker
    BY DEF OwnType, WorkerType
  <1>1. RestType'
    <2>1. UNCHANGED <<netBox, edits>>
      BY DEF Step, ReloadCredentials, ReloadNetBox, GetClusters, ListDevices, ReconcileDevice,
         ResolveCredentials, CheckIgnore, GetSecret, WriteSecret, GetHost, LookUp, CreateHost,
         FindNetwork, CreateNetworkData, bounds
    <2>2. faults' = faults \/ (faults < MaxFaults /\ faults' = faults + 1)
      BY DEF Step, ReloadCredentials, ReloadNetBox, GetClusters, ListDevices, ReconcileDevice,
         ResolveCredentials, CheckIgnore, GetSecret, WriteSecret, GetHost, LookUp, CreateHost,
         FindNetwork, CreateNetworkData, bounds
    <2>3. faults' \in 0..MaxFaults
      BY <1>0, <2>2, BoundAssumption DEF RestType
    <2> QED
      BY <1>0, <2>1, <2>3 DEF RestType, netBox
  <1>2. CASE UNCHANGED kube
    BY <1>0, <1>1, <1>2 DEF kube, ClusterType
  <1>3. CASE WriteSecret
    <2>1. It \in Device
      BY <1>0, <1>3, HeadInDevice DEF WriteSecret, At, InLoop
    <2>2. \/ UNCHANGED secrets
          \/ StoreSecret(It, SecretToWrite) /\ SecretToWrite \in Secret
      BY <1>3, WriteType DEF WriteSecret, SecretToWrite
    <2>3. secrets' \in [Device -> Seq(Secret) \ {<<>>}]
      BY <1>0, <2>1, <2>2, SecretWritten DEF ClusterType
    <2> QED
      BY <1>0, <1>1, <1>3, <2>3 DEF WriteSecret, ClusterType
  <1>4. CASE CreateHost
    <2>1. It \in Device /\ nextUID \in Nat \ {0} /\ w.mac \in BOOLEAN
      BY <1>0, <1>4, HeadInDevice DEF CreateHost, At, InLoop, ClusterType, Worker
    <2> DEFINE h == [present |-> TRUE, uid |-> nextUID, mac |-> w.mac]
    <2>2. \/ UNCHANGED <<hosts, nextUID>>
          \/ StoreHost(It, h) /\ nextUID' = nextUID + 1
      BY <1>4 DEF CreateHost
    <2>3. h \in Host
      BY <2>1 DEF Host
    <2>4. hosts' \in [Device -> Seq(Host) \ {<<>>}]
      BY <1>0, <2>1, <2>2, <2>3, HostWritten DEF ClusterType
    <2>5. nextUID' \in Nat \ {0} /\ nextUID' \geq nextUID
      BY <2>1, <2>2
    <2>6. networks' = networks /\ secrets' = secrets /\ networks \in [Device -> 0..nextUID - 1]
      BY <1>0, <1>4 DEF CreateHost, ClusterType
    <2>7. networks \in [Device -> 0..nextUID' - 1]
      BY <2>1, <2>5, <2>6
    <2> QED
      BY <1>0, <1>1, <2>4, <2>5, <2>6, <2>7 DEF ClusterType
  <1>5. CASE CreateNetworkData
    <2>1. It \in Device /\ nextUID \in Nat \ {0} /\ w.uid \in Nat /\ w.uid < nextUID
      BY <1>0, <1>5, HeadInDevice
         DEF CreateNetworkData, At, InLoop, ClusterType, Worker, WorkerType
    <2>2. w.uid \in 0..nextUID - 1
      BY <2>1
    <2>3. /\ networks' = networks \/ networks' = [networks EXCEPT ![It] = w.uid]
          /\ UNCHANGED <<secrets, hosts, nextUID>>
      BY <1>5 DEF CreateNetworkData
    <2>4. networks' \in [Device -> 0..nextUID - 1]
      BY <1>0, <2>2, <2>3 DEF ClusterType
    <2> QED
      BY <1>0, <1>1, <2>1, <2>3, <2>4 DEF ClusterType
  <1> QED
    BY <1>1, <1>2, <1>3, <1>4, <1>5
       DEF Step, ReloadCredentials, ReloadNetBox, GetClusters, ListDevices, ReconcileDevice,
           ResolveCredentials, CheckIgnore, GetSecret, GetHost, LookUp, FindNetwork,
           kube, ClusterType

\* The steps of the worker on its way to a device.
LEMMA StartType ==
    ASSUME C!TypeOK, OwnType, ClusterType', nextUID' \geq nextUID,
           \/ ReloadCredentials \/ ReloadNetBox \/ GetClusters \/ ListDevices
           \/ ReconcileDevice \/ ResolveCredentials
    PROVE  WorkerType' /\ CredentialsRead'
  <1>0. /\ ClusterType /\ WorkerType /\ CredentialsRead /\ RestType /\ w \in Worker
        /\ w.uid < nextUID' /\ w.uid \in Nat
    <2>1. w \in Worker /\ w.uid < nextUID /\ nextUID \in Nat /\ nextUID' \in Nat
      BY DEF OwnType, WorkerType, ClusterType
    <2>2. w.uid \in Nat
      BY <2>1 DEF Worker
    <2>3. w.uid < nextUID'
      BY <2>1, <2>2
    <2> QED
      BY <2>1, <2>2, <2>3 DEF OwnType
  <1>1. CASE ReloadCredentials
    <2>1. /\ pc[Self] \notin {"work", "bmcUser", "bmcPassword"}
          /\ pc'[Self] \notin {"work", "bmcUser", "bmcPassword"} /\ w' = w
      BY <1>1, CallMoves DEF ReloadCredentials
    <2>2. w'.pc = "idle" /\ w' \in Worker /\ w'.uid = w.uid
      BY <1>0, <2>1 DEF WorkerType
    <2>3. WorkerType'
      BY <1>0, <2>1, <2>2 DEF WorkerType, InLoop
    <2>4. CredentialsRead'
      BY <2>1 DEF CredentialsRead
    <2> QED
      BY <2>3, <2>4
  <1>2. CASE ReloadNetBox
    <2>1. pc'[Self] = "work"
      BY <1>2, CallMoves DEF ReloadNetBox
    <2>2. w' \in Worker /\ w'.pc = "clusters" /\ w'.uid = w.uid
      BY <1>0, <1>2 DEF ReloadNetBox, Worker, PC
    <2> QED
      BY <1>0, <2>1, <2>2 DEF WorkerType, CredentialsRead, InLoop
  <1>3. CASE GetClusters
    <2>1. CASE Fail
      BY <1>0, <2>1, CallMoves, IdleType DEF Fail, Finish
    <2>2. CASE Goto("list")
      <3>1. w' \in Worker /\ w'.pc = "list" /\ w'.uid = w.uid /\ UNCHANGED shared
        BY <1>0, <2>2, GotoAlong DEF PC
      <3> QED
        BY <1>0, <1>3, <3>1 DEF GetClusters, At, shared, WorkerType, CredentialsRead, InLoop
    <2> QED
      BY <1>3, <2>1, <2>2 DEF GetClusters
  <1>4. CASE ListDevices
    <2>1. Order \in Seq(Device) /\ Order # <<>>
      BY OrderAssumption DEF Device
    <2>2. /\ w' \in Worker /\ w'.todo = Order /\ w'.list = device /\ w'.pc = "device"
          /\ w'.uid = w.uid
      BY <1>0, <1>4, <2>1 DEF ListDevices, RestType, Worker, PC
    <2> QED
      BY <1>0, <1>4, <2>1, <2>2
         DEF ListDevices, At, shared, WorkerType, CredentialsRead, RestType
  <1>5. CASE ReconcileDevice
    <2>1. InLoop /\ pc[Self] = "work"
      BY <1>5 DEF ReconcileDevice, At, InLoop
    <2>2. CASE NextDevice
      BY <2>1, <2>2, EndType
    <2>3. CASE C!NextDevice(Self) /\ w' = [w EXCEPT !.pc = "checkIgnore"]
      <3>1. pc'[Self] = "bmcUser"
        BY <2>3, CallMoves
      <3>2. /\ w' \in Worker /\ w'.pc = "checkIgnore" /\ w'.todo = w.todo
            /\ w'.list = w.list /\ w'.uid = w.uid
        BY <1>0, <2>3 DEF Worker, PC
      <3>3. w'.todo # <<>>
        BY <1>0, <2>1, <3>2 DEF WorkerType
      <3>4. WorkerType'
        BY <1>0, <2>1, <3>1, <3>2, <3>3, MoveType
      <3>5. CredentialsRead'
        BY <3>1 DEF CredentialsRead
      <3> QED
        BY <3>4, <3>5
    <2> QED
      BY <1>5, <2>2, <2>3 DEF ReconcileDevice
  <1>6. CASE ResolveCredentials
    <2>1. CASE pc'[Self] = "idle"
      BY <1>0, <1>6, <2>1, IdleType DEF ResolveCredentials
    <2>2. CASE pc'[Self] # "idle"
      <3>1. w' = w
        BY <1>6, <2>2 DEF ResolveCredentials
      <3>2. /\ pc[Self] \in {"bmcUser", "bmcPassword"}
            /\ \/ pc'[Self] = "bmcPassword" /\ User' \in C!Value
               \/ /\ pc'[Self] = "work" /\ pc[Self] = "bmcPassword"
                  /\ User' = User /\ Password' \in C!Value
        BY <1>6, <2>2, CallMoves DEF ResolveCredentials
      <3>3. w.pc = "checkIgnore" /\ InLoop /\ w.todo # <<>>
        BY <1>0, <3>2 DEF WorkerType, InLoop
      <3>4. WorkerType'
        BY <1>0, <3>1, <3>2, <3>3 DEF WorkerType, InLoop
      <3>5. CredentialsRead'
        BY <1>0, <3>2 DEF CredentialsRead
      <3> QED
        BY <3>4, <3>5
    <2> QED
      BY <2>1, <2>2
  <1> QED
    BY <1>1, <1>2, <1>3, <1>4, <1>5, <1>6

\* The steps of the worker at a device.
LEMMA DeviceType ==
    ASSUME C!TypeOK, OwnType, ClusterType', nextUID' \geq nextUID,
           \/ CheckIgnore \/ GetSecret \/ WriteSecret \/ GetHost \/ LookUp \/ CreateHost
           \/ FindNetwork \/ CreateNetworkData
    PROVE  WorkerType' /\ CredentialsRead'
  <1>0. /\ ClusterType /\ WorkerType /\ w \in Worker /\ It \in Device
        /\ InLoop /\ pc[Self] = "work"
    BY HeadInDevice DEF OwnType, WorkerType, InLoop, At, CheckIgnore, GetSecret, WriteSecret,
       GetHost, LookUp, CreateHost, FindNetwork, CreateNetworkData
  <1>1. CASE NextDevice \/ Fail
    BY <1>0, <1>1, EndType
  <1>2. CASE CheckIgnore
    <2>1. PICK l \in {"getHost", "getSecret"} : Goto(l)
      BY <1>2 DEF CheckIgnore
    <2>2. nextUID' = nextUID /\ w.pc = "checkIgnore"
      BY <1>2 DEF CheckIgnore, At, kube
    <2>3. /\ w' \in Worker /\ w'.pc = l /\ w'.todo = w.todo /\ w'.list = w.list
          /\ w'.uid = w.uid /\ UNCHANGED shared
      BY <1>0, <2>1, GotoAlong DEF PC
    <2> QED
      BY <1>0, <2>2, <2>3, AlongType
  <1>3. CASE GetSecret
    <2>1. PICK l \in {"getHost", "writeSecret"} :
            w' = [w EXCEPT !.secret = Head(secrets[It]), !.pc = l]
      BY <1>3 DEF GetSecret
    <2>2. nextUID' = nextUID /\ w.pc = "getSecret" /\ UNCHANGED shared
      BY <1>3 DEF GetSecret, At, kube
    <2>3. Head(secrets[It]) \in Secret
      BY <1>0, EndsType
    <2>4. /\ w' \in Worker /\ w'.pc = l /\ w'.todo = w.todo /\ w'.list = w.list
          /\ w'.uid = w.uid
      BY <1>0, <2>1, <2>3 DEF Worker, PC
    <2> QED
      BY <1>0, <2>2, <2>4, AlongType
  <1>4. CASE \/ WriteSecret /\ Goto("getHost")
             \/ GetHost /\ Goto("lookup")
             \/ FindNetwork /\ Goto("createNetwork")
    <2>1. PICK l \in {"getHost", "lookup", "createNetwork"} : Goto(l)
      BY <1>4
    <2>2. nextUID' = nextUID
      BY <1>4 DEF WriteSecret, GetHost, FindNetwork, kube
    <2>3. /\ w' \in Worker /\ w'.pc = l /\ w'.todo = w.todo /\ w'.list = w.list
          /\ w'.uid = w.uid /\ UNCHANGED shared
      BY <1>0, <2>1, GotoAlong DEF PC
    <2> QED
      BY <1>0, <2>2, <2>3, AlongType
  <1>5. CASE LookUp
    <2>1. nextUID' = nextUID /\ UNCHANGED shared
      BY <1>5 DEF LookUp, kube
    <2>2. PICK m \in BOOLEAN : w' = [w EXCEPT !.pc = "createHost", !.mac = m]
      <3>1. CASE w' = [w EXCEPT !.pc = "createHost", !.mac = HasMac(It)]
        BY <3>1 DEF HasMac
      <3>2. CASE w' = [w EXCEPT !.pc = "createHost"]
        BY <1>0, <3>2 DEF Worker
      <3> QED
        BY <1>5, <3>1, <3>2 DEF LookUp
    <2>3. /\ w' \in Worker /\ w'.pc = "createHost" /\ w'.todo = w.todo /\ w'.list = w.list
          /\ w'.uid = w.uid
      BY <1>0, <2>2 DEF Worker, PC
    <2> QED
      BY <1>0, <2>1, <2>3, AlongType
  <1>6. CASE CreateHost /\ ~Fail
    <2>1. /\ w' = [w EXCEPT !.pc = "findNetwork", !.uid = nextUID]
          /\ nextUID' = nextUID + 1 /\ UNCHANGED shared
      BY <1>6 DEF CreateHost
    <2>2. nextUID \in Nat /\ nextUID < nextUID'
      BY <1>0, <2>1 DEF ClusterType
    <2>3. /\ w' \in Worker /\ w'.pc = "findNetwork" /\ w'.todo = w.todo /\ w'.list = w.list
          /\ w'.uid = nextUID
      BY <1>0, <2>1, <2>2 DEF Worker, PC
    <2>4. pc'[Self] = "work" /\ w'.todo # <<>>
      BY <1>0, <2>1, <2>3 DEF shared, WorkerType
    <2>5. WorkerType'
      BY <1>0, <2>2, <2>3, <2>4, MoveType
    <2>6. CredentialsRead'
      BY <2>3, <2>4 DEF CredentialsRead
    <2> QED
      BY <2>5, <2>6
  <1> QED
    BY <1>1, <1>2, <1>3, <1>4, <1>5, <1>6
       DEF WriteSecret, GetHost, CreateHost, FindNetwork, CreateNetworkData

LEMMA OwnTypeStep ==
    ASSUME C!TypeOK, OwnType, Step
    PROVE  OwnType'
  <1>1. ClusterType' /\ RestType' /\ nextUID' \geq nextUID
    BY ClusterStep
  <1>2. WorkerType' /\ CredentialsRead'
    BY <1>1, StartType, DeviceType DEF Step
  <1> QED
    BY <1>1, <1>2 DEF OwnType

\* What leaves the worker and the struct alone.
LEMMA WorkerSame ==
    ASSUME OwnType, UNCHANGED <<pc, used, nextUID>>, w'.pc = w.pc, w'.todo = w.todo,
           w'.list = w.list, w'.uid = w.uid, w' \in Worker
    PROVE  WorkerType' /\ CredentialsRead'
  BY DEF OwnType, WorkerType, CredentialsRead, InLoop, User, Password

LEMMA OwnTypeEnvironment ==
    ASSUME C!TypeOK, OwnType,
           \/ Rotate \/ Restart \/ CallFails \/ UNCHANGED vars
           \/ \E d \in Device : DeliverSecret(d) \/ DeliverHost(d) \/ CollectGarbage(d)
    PROVE  OwnType'
  <1>0. ClusterType /\ WorkerType /\ RestType /\ w \in Worker
    BY DEF OwnType, WorkerType
  <1>1. RestType'
    <2>1. UNCHANGED netBox
      BY DEF Rotate, Restart, CallFails, DeliverSecret, DeliverHost, CollectGarbage, vars
    <2>2. /\ edits' = edits \/ (edits < MaxEdits /\ edits' = edits + 1)
          /\ faults' = faults \/ (faults < MaxFaults /\ faults' = faults + 1)
      BY DEF Rotate, Restart, CallFails, DeliverSecret, DeliverHost, CollectGarbage, vars, bounds
    <2>3. faults' \in 0..MaxFaults /\ edits' \in 0..MaxEdits
      BY <1>0, <2>2, BoundAssumption DEF RestType
    <2> QED
      BY <1>0, <2>1, <2>3 DEF RestType, netBox
  <1>2. ClusterType' /\ nextUID' = nextUID
    <2>1. CASE Rotate \/ CallFails \/ UNCHANGED vars
      BY <1>0, <2>1 DEF Rotate, CallFails, vars, kube, ClusterType
    <2>2. CASE Restart \/ \E d \in Device : DeliverSecret(d) \/ DeliverHost(d)
      BY <1>0, <2>2, VersionsDropped DEF Restart, DeliverSecret, DeliverHost, ClusterType
    <2>3. ASSUME NEW d \in Device, CollectGarbage(d)
          PROVE  ClusterType' /\ nextUID' = nextUID
      <3>1. 0 \in 0..nextUID - 1
        BY <1>0 DEF ClusterType
      <3> QED
        BY <1>0, <2>3, <3>1 DEF CollectGarbage, ClusterType
    <2> QED
      BY <2>1, <2>2, <2>3
  <1>3. WorkerType' /\ CredentialsRead'
    <2>1. CASE Restart
      BY <1>2, <2>1, CallMoves, IdleType DEF Restart
    <2>2. CASE CallFails
      BY <1>2, <2>2, CallMoves, IdleType DEF CallFails, Fail, Finish
    <2>3. CASE \/ Rotate \/ UNCHANGED vars
               \/ \E d \in Device : DeliverSecret(d) \/ DeliverHost(d) \/ CollectGarbage(d)
      <3>1. w' = w /\ UNCHANGED <<pc, used>>
        BY <2>3, CallMoves DEF Rotate, DeliverSecret, DeliverHost, CollectGarbage, vars, shared
      <3> QED
        BY <1>0, <1>2, <3>1, WorkerSame
    <2> QED
      BY <2>1, <2>2, <2>3
  <1> QED
    BY <1>1, <1>2, <1>3 DEF OwnType

\* What the users write.
LEMMA UserSecrets ==
    ASSUME ClusterType, NEW d \in Device
    PROVE  /\ [NoSecret(0) EXCEPT !.present = TRUE, !.ignore = TRUE] \in Secret
           /\ [NoSecret(0) EXCEPT !.present = TRUE, !.ignore = TRUE].present
           /\ [NoSecret(0) EXCEPT !.present = TRUE, !.ignore = TRUE].ignore
           /\ [Last(secrets[d]) EXCEPT !.ignore = ~@] \in Secret
           /\ [Last(secrets[d]) EXCEPT !.ignore = ~@].present = Last(secrets[d]).present
           /\ [Last(secrets[d]) EXCEPT !.ignore = ~@].user = Last(secrets[d]).user
           /\ [Last(secrets[d]) EXCEPT !.ignore = ~@].password = Last(secrets[d]).password
           /\ NoSecret(0) \in Secret /\ ~NoSecret(0).present /\ ~NoSecret(0).ignore
  <1>1. NoSecret(0) \in Secret /\ Last(secrets[d]) \in Secret
    BY NoObjects, EndsType
  <1>2. ~NoSecret(0).present /\ ~NoSecret(0).ignore
    BY DEF NoSecret
  <1> QED
    BY <1>1, <1>2 DEF Secret

LEMMA OwnTypeUsers ==
    ASSUME OwnType,
           \/ \E d \in Device : \/ ToggleIgnore(d) \/ CreateIgnoredSecret(d)
                                \/ DeleteSecret(d) \/ DeleteHost(d) \/ EditDevice(d)
           \/ EditClusters
    PROVE  OwnType'
  <1>0. ClusterType /\ WorkerType /\ RestType /\ w \in Worker
    BY DEF OwnType, WorkerType
  <1>1. /\ Edit /\ UNCHANGED <<shared, networks, nextUID, faults>>
        /\ edits < MaxEdits /\ edits' = edits + 1
    BY DEF ToggleIgnore, CreateIgnoredSecret, DeleteSecret, DeleteHost, EditDevice,
       EditClusters, Edit
  <1>2. edits' \in 0..MaxEdits
    BY <1>0, <1>1, BoundAssumption DEF RestType
  <1>3. RestType'
    BY <1>0, <1>1, <1>2 DEF RestType, ToggleIgnore, CreateIgnoredSecret, DeleteSecret,
       DeleteHost, EditDevice, EditClusters, netBox
  <1>4. ClusterType'
    <2>1. ASSUME NEW d \in Device, ToggleIgnore(d) \/ CreateIgnoredSecret(d) \/ DeleteSecret(d)
          PROVE  secrets' \in [Device -> Seq(Secret) \ {<<>>}] /\ hosts' = hosts
      <3>1. \E v \in Secret : StoreSecret(d, v)
        BY <1>0, <2>1, UserSecrets DEF ToggleIgnore, CreateIgnoredSecret, DeleteSecret
      <3> QED
        BY <1>0, <2>1, <3>1, SecretWritten DEF ToggleIgnore, CreateIgnoredSecret, DeleteSecret
    <2>2. ASSUME NEW d \in Device, DeleteHost(d)
          PROVE  hosts' \in [Device -> Seq(Host) \ {<<>>}] /\ secrets' = secrets
      BY <1>0, <2>2, NoObjects, HostWritten DEF DeleteHost
    <2>3. CASE UNCHANGED <<secrets, hosts>>
      BY <1>0, <1>1, <2>3 DEF ClusterType
    <2> QED
      BY <1>0, <1>1, <2>1, <2>2, <2>3 DEF ClusterType, EditDevice, EditClusters
  <1>5. /\ w' \in Worker /\ w'.pc = w.pc /\ w'.todo = w.todo /\ w'.list = w.list
        /\ w'.uid = w.uid
    BY <1>0 DEF ToggleIgnore, CreateIgnoredSecret, DeleteSecret, DeleteHost, EditDevice,
       EditClusters, Release, Worker
  <1>6. WorkerType' /\ CredentialsRead'
    BY <1>1, <1>5, WorkerSame DEF shared
  <1> QED
    BY <1>3, <1>4, <1>6 DEF OwnType

LEMMA OwnTypeNext ==
    ASSUME C!TypeOK, OwnType, [Next]_vars
    PROVE  OwnType'
  BY OwnTypeStep, OwnTypeEnvironment, OwnTypeUsers DEF Next

LEMMA TypesHold == Spec => [](C!TypeOK /\ OwnType)
  BY CredentialsSafe, OwnTypeInit, OwnTypeNext, PTL DEF Spec

\* Every variable keeps its type, the worker has a device and the list whenever
\* it is in the loop, and the network data it makes is for a host there has been.
THEOREM TypeCorrect == Spec => []TypeOK
  <1>1. C!TypeOK /\ OwnType => TypeOK
    BY TypeParts DEF OwnType
  <1> QED
    BY <1>1, TypesHold, PTL

-----------------------------------------------------------------------------
(***************************************************************************)
(* Ignored secrets.                                                        *)
(***************************************************************************)
\* A secret that was ignored when the call began is ignored in every version
\* there is, so the worker that is at its device has seen so.
KeptInv ==
    /\ \A d \in Device : \A s \in ToSet(secrets[d]) : s.ignore => s.present
    /\ \A d \in w.kept : \A s \in ToSet(secrets[d]) : s.ignore
    /\ w.pc \in {"getSecret", "writeSecret"} => It \notin w.kept

\* A step that does not write a secret.
LEMMA KeptAlong ==
    ASSUME KeptInv, UNCHANGED secrets, w'.kept \in {w.kept, {}},
           w'.pc \in {"getSecret", "writeSecret"} => It \notin w.kept /\ w'.todo = w.todo
    PROVE  KeptInv'
  BY DEF KeptInv, It

\* One that does, and takes the secret out of those that are kept unless what it
\* writes is ignored.
LEMMA KeptWritten ==
    ASSUME ClusterType, KeptInv, w \in Worker,
           NEW d \in Device, NEW v \in Secret, StoreSecret(d, v), v.ignore => v.present,
           w'.kept \in SUBSET w.kept, d \in w'.kept => v.ignore,
           w'.pc \in {"getSecret", "writeSecret"} => w'.pc = w.pc /\ w'.todo = w.todo
    PROVE  KeptInv'
  <1>1. /\ \A x \in Device \ {d} : secrets'[x] = secrets[x]
        /\ Last(secrets'[d]).present = v.present /\ Last(secrets'[d]).ignore = v.ignore
        /\ ToSet(secrets'[d]) \in SUBSET (ToSet(secrets[d]) \cup {Last(secrets'[d])})
    BY SecretWritten
  <1>2. w.kept \subseteq Device
    BY DEF Worker
  <1> QED
    BY <1>1, <1>2 DEF KeptInv, It

\* The worker leaves its device.
LEMMA EndKept ==
    ASSUME w \in Worker, NextDevice \/ Fail
    PROVE  \/ w'.pc = "idle" /\ w'.kept = {}
           \/ w'.pc = "device" /\ w'.kept = w.kept
  BY NoObjects DEF NextDevice, Fail, Finish, Worker

LEMMA KeptStep ==
    ASSUME OwnType, KeptInv, Step
    PROVE  KeptInv'
  <1>0. ClusterType /\ WorkerType /\ w \in Worker
    BY DEF OwnType, WorkerType
  <1>1. CASE ReloadCredentials \/ ResolveCredentials
    <2>1. secrets' = secrets /\ (w' = w \/ w' = IdleWorker)
      BY <1>1 DEF ReloadCredentials, ResolveCredentials, kube
    <2> QED
      BY <2>1, NoObjects, KeptAlong DEF KeptInv
  <1>2. CASE ReloadNetBox
    <2>1. /\ secrets' = secrets /\ w'.pc = "clusters"
          /\ w'.kept = {d \in Device : \A s \in ToSet(secrets[d]) : s.ignore}
      BY <1>0, <1>2 DEF ReloadNetBox, kube, Worker
    <2> QED
      BY <2>1 DEF KeptInv
  <1>3. CASE (NextDevice \/ Fail) /\ UNCHANGED secrets
    <2>1. w'.kept \in {w.kept, {}} /\ w'.pc \in {"idle", "device"}
      BY <1>0, <1>3, EndKept
    <2> QED
      BY <1>3, <2>1, KeptAlong
  <1>4. CASE ListDevices \/ LookUp \/ (CreateHost /\ ~Fail)
    <2>1. /\ secrets' = secrets /\ w'.kept = w.kept
          /\ w'.pc \in {"device", "createHost", "findNetwork"}
      BY <1>0, <1>4 DEF ListDevices, LookUp, CreateHost, kube, Worker
    <2> QED
      BY <2>1, KeptAlong
  <1>5. CASE ReconcileDevice /\ ~NextDevice
    <2>1. secrets' = secrets /\ w'.kept = w.kept /\ w'.pc = "checkIgnore"
      BY <1>0, <1>5 DEF ReconcileDevice, kube, Worker
    <2> QED
      BY <2>1, KeptAlong
  <1>6. CASE CheckIgnore
    <2>1. It \in Device
      BY <1>0, <1>6, HeadInDevice DEF CheckIgnore, At, InLoop
    <2>2. It \in w.kept => Head(secrets[It]).present /\ Head(secrets[It]).ignore
      BY <1>0, <2>1, EndsType DEF KeptInv
    <2>3. PICK l \in {"getHost", "getSecret"} : Goto(l) /\ (l = "getSecret" => It \notin w.kept)
      BY <1>6, <2>2 DEF CheckIgnore
    <2>4. w'.pc = l /\ w'.todo = w.todo /\ w'.kept = w.kept
      BY <1>0, <2>3, GotoAlong DEF PC
    <2> QED
      BY <1>6, <2>3, <2>4, KeptAlong DEF CheckIgnore, kube
  <1>7. CASE GetSecret
    <2>1. /\ w'.pc \in {"getHost", "writeSecret"} /\ w'.todo = w.todo /\ w'.kept = w.kept
          /\ secrets' = secrets /\ w.pc = "getSecret"
      BY <1>0, <1>7 DEF GetSecret, At, kube, Worker
    <2> QED
      BY <2>1, KeptAlong DEF KeptInv
  <1>8. CASE WriteSecret /\ ~(Fail /\ UNCHANGED secrets)
    <2>1. It \in Device /\ It \notin w.kept
      BY <1>0, <1>8, HeadInDevice DEF WriteSecret, At, InLoop, KeptInv
    <2>2. StoreSecret(It, SecretToWrite) /\ Goto("getHost") /\ At("writeSecret")
      BY <1>8 DEF WriteSecret, SecretToWrite
    <2>3. SecretToWrite \in Secret /\ SecretToWrite.present
      BY <2>2, WriteType
    <2>4. w'.pc = "getHost" /\ w'.kept = w.kept
      BY <1>0, <2>2, GotoAlong DEF PC
    <2> QED
      BY <1>0, <2>1, <2>2, <2>3, <2>4, KeptWritten
  <1>9. CASE \/ GetHost /\ Goto("lookup")
             \/ FindNetwork /\ Goto("createNetwork")
    <2>1. w'.pc \in {"lookup", "createNetwork"} /\ w'.kept = w.kept
      BY <1>0, <1>9, GotoAlong DEF PC
    <2> QED
      BY <1>9, <2>1, KeptAlong DEF GetHost, FindNetwork, kube
  <1>10. CASE GetClusters /\ Goto("list")
    <2>1. w'.pc = "list" /\ w'.kept = w.kept
      BY <1>0, <1>10, GotoAlong DEF PC
    <2> QED
      BY <1>10, <2>1, KeptAlong DEF GetClusters, kube
  <1> QED
    BY <1>1, <1>2, <1>3, <1>4, <1>5, <1>6, <1>7, <1>8, <1>9, <1>10
       DEF Step, GetClusters, ReconcileDevice, WriteSecret, GetHost, CreateHost, FindNetwork,
           CreateNetworkData, kube

LEMMA KeptNext ==
    ASSUME OwnType, KeptInv, [Next]_vars
    PROVE  KeptInv'
  <1>0. ClusterType /\ WorkerType /\ w \in Worker /\ w.kept \subseteq Device
    BY DEF OwnType, WorkerType, Worker
  <1>1. CASE Step
    BY <1>1, KeptStep
  <1>2. CASE Restart \/ \E d \in Device : DeliverSecret(d) \/ DeliverHost(d)
    <2>1. \A x \in Device : ToSet(secrets'[x]) \in SUBSET ToSet(secrets[x])
      BY <1>0, <1>2, VersionsDropped
    <2>2. w' = w \/ (w'.kept = {} /\ w'.pc = "idle")
      BY <1>2, NoObjects DEF Restart, DeliverSecret, DeliverHost
    <2> QED
      BY <1>0, <2>1, <2>2 DEF KeptInv, It
  <1>3. CASE CallFails
    BY <1>0, <1>3, EndKept, KeptAlong DEF CallFails, kube
  <1>4. ASSUME NEW d \in Device, ToggleIgnore(d) \/ CreateIgnoredSecret(d) \/ DeleteSecret(d)
        PROVE  KeptInv'
    <2>1. /\ w'.pc = w.pc /\ w'.todo = w.todo /\ w'.kept \in SUBSET w.kept
          /\ ~CreateIgnoredSecret(d) => d \notin w'.kept
      BY <1>0, <1>4 DEF ToggleIgnore, CreateIgnoredSecret, DeleteSecret, Release, Worker
    <2>2. CASE ToggleIgnore(d)
      <3> DEFINE v == [Last(secrets[d]) EXCEPT !.ignore = ~@]
      <3>1. v \in Secret /\ v.present /\ StoreSecret(d, v)
        BY <1>0, <2>2, UserSecrets DEF ToggleIgnore
      <3>2. d \notin w'.kept
        BY <2>1, <2>2 DEF ToggleIgnore, CreateIgnoredSecret
      <3> HIDE DEF v
      <3> QED
        BY <1>0, <2>1, <3>1, <3>2, KeptWritten
    <2>3. CASE CreateIgnoredSecret(d)
      BY <1>0, <2>1, <2>3, UserSecrets, KeptWritten DEF CreateIgnoredSecret
    <2>4. CASE DeleteSecret(d) /\ ~CreateIgnoredSecret(d)
      BY <1>0, <2>1, <2>4, UserSecrets, KeptWritten DEF DeleteSecret
    <2> QED
      BY <1>4, <2>2, <2>3, <2>4
  <1>5. CASE \/ Rotate \/ EditClusters \/ UNCHANGED vars
             \/ \E d \in Device : CollectGarbage(d) \/ DeleteHost(d) \/ EditDevice(d)
    <2>1. w' = w /\ secrets' = secrets
      BY <1>5 DEF Rotate, EditClusters, CollectGarbage, DeleteHost, EditDevice, vars, kube
    <2> QED
      BY <2>1 DEF KeptInv, It
  <1> QED
    BY <1>1, <1>2, <1>3, <1>4, <1>5 DEF Next

LEMMA KeptInit == Init => KeptInv
  <1> SUFFICES ASSUME Init PROVE KeptInv
    OBVIOUS
  <1>1. \A d \in Device : ToSet(secrets[d]) = {NoSecret(0)}
    BY NoObjects, VersionSingle DEF Init
  <1>2. ~NoSecret(0).ignore /\ w.pc = "idle" /\ w.kept = {}
    BY NoObjects DEF Init, NoSecret
  <1> QED
    BY <1>1, <1>2 DEF KeptInv

\* What IgnoredUntouched says of one step.
Untouched ==
    \A d \in w.kept :
        Last(secrets'[d]).present =>
            /\ Last(secrets[d]).user = Last(secrets'[d]).user
            /\ Last(secrets[d]).password = Last(secrets'[d]).password

LEMMA UntouchedNext ==
    ASSUME OwnType, KeptInv, Next
    PROVE  Untouched
  <1>0. ClusterType /\ WorkerType /\ w \in Worker /\ w.kept \subseteq Device
    BY DEF OwnType, WorkerType, Worker
  <1>1. CASE UNCHANGED secrets
    BY <1>1 DEF Untouched
  <1>2. CASE WriteSecret /\ ~UNCHANGED secrets
    <2>1. It \in Device /\ It \notin w.kept
      BY <1>0, <1>2, HeadInDevice DEF WriteSecret, At, InLoop, KeptInv
    <2>2. StoreSecret(It, SecretToWrite) /\ At("writeSecret")
      BY <1>2 DEF WriteSecret, SecretToWrite
    <2>3. SecretToWrite \in Secret
      BY <2>2, WriteType
    <2>4. \A x \in Device \ {It} : secrets'[x] = secrets[x]
      BY <1>0, <2>1, <2>2, <2>3, SecretWritten
    <2> QED
      BY <1>0, <2>1, <2>4 DEF Untouched
  <1>3. CASE Restart \/ \E d \in Device : DeliverSecret(d) \/ DeliverHost(d)
    <2>1. \A x \in Device : Last(secrets'[x]) = Last(secrets[x])
      BY <1>0, <1>3, VersionsDropped
    <2> QED
      BY <1>0, <2>1 DEF Untouched
  <1>4. ASSUME NEW d \in Device, ToggleIgnore(d)
        PROVE  Untouched
    <2> DEFINE v == [Last(secrets[d]) EXCEPT !.ignore = ~@]
    <2>1. /\ v \in Secret /\ v.user = Last(secrets[d]).user
          /\ v.password = Last(secrets[d]).password
      BY <1>0, UserSecrets
    <2>2. StoreSecret(d, v)
      BY <1>4 DEF ToggleIgnore
    <2>3. /\ \A x \in Device \ {d} : secrets'[x] = secrets[x]
          /\ Last(secrets'[d]).user = v.user /\ Last(secrets'[d]).password = v.password
      BY <1>0, <2>1, <2>2, SecretWritten
    <2> QED
      BY <1>0, <2>1, <2>3 DEF Untouched
  <1>5. ASSUME NEW d \in Device, CreateIgnoredSecret(d)
        PROVE  Untouched
    <2>1. ~Last(secrets[d]).present /\ d \notin w.kept
      BY <1>0, <1>5, EndsType DEF CreateIgnoredSecret, KeptInv
    <2>2. \A x \in Device \ {d} : secrets'[x] = secrets[x]
      BY <1>0, <1>5, UserSecrets, SecretWritten DEF CreateIgnoredSecret
    <2> QED
      BY <1>0, <2>1, <2>2 DEF Untouched
  <1>6. ASSUME NEW d \in Device, DeleteSecret(d)
        PROVE  Untouched
    <2>1. /\ NoSecret(0) \in Secret /\ ~NoSecret(0).present
          /\ StoreSecret(d, NoSecret(0))
      BY <1>0, <1>6, UserSecrets DEF DeleteSecret
    <2>2. /\ \A x \in Device \ {d} : secrets'[x] = secrets[x]
          /\ ~Last(secrets'[d]).present
      BY <1>0, <2>1, SecretWritten
    <2> QED
      BY <1>0, <2>2 DEF Untouched
  <1>7. CASE \/ Step /\ ~WriteSecret
             \/ Rotate \/ CallFails \/ EditClusters
             \/ \E d \in Device : CollectGarbage(d) \/ DeleteHost(d) \/ EditDevice(d)
    <2>1. UNCHANGED secrets
      BY <1>7 DEF Step, ReloadCredentials, ReloadNetBox, GetClusters, ListDevices,
         ReconcileDevice, ResolveCredentials, CheckIgnore, GetSecret, GetHost, LookUp,
         CreateHost, FindNetwork, CreateNetworkData, Rotate, CallFails, EditClusters,
         CollectGarbage, DeleteHost, EditDevice, kube
    <2> QED
      BY <1>1, <2>1
  <1> QED
    BY <1>1, <1>2, <1>3, <1>4, <1>5, <1>6, <1>7 DEF Next

\* A call never writes the credentials of a secret that was ignored, for the cache
\* to see, when the call began (metal3_controller.go:375-384); whoever creates,
\* deletes or annotates secrets meanwhile, and however far the cache lags.
THEOREM IgnoredSafe == Spec => IgnoredUntouched
  <1>1. OwnType /\ KeptInv /\ [Next]_vars =>
          [\A d \in w.kept :
              LET s == Last(secrets[d])
                  t == Last(secrets'[d]) IN
              t.present => s.user = t.user /\ s.password = t.password]_vars
    BY UntouchedNext DEF Untouched
  <1>2. Spec => [](OwnType /\ KeptInv)
    BY TypesHold, KeptInit, KeptNext, PTL DEF Spec
  <1> QED
    BY <1>1, <1>2, PTL DEF Spec, IgnoredUntouched

-----------------------------------------------------------------------------
(***************************************************************************)
(* A host comes after its secret.                                          *)
(***************************************************************************)
\* Where the worker is once the device has its secret.
AfterSecret == {"getHost", "lookup", "createHost", "findNetwork", "createNetwork"}

\* A version of a secret that is there is not followed by one that is not: what
\* the cache shows is still so.
SecretsStay == \A d \in Device : \A s \in ToSet(secrets[d]) : s.present => Last(secrets[d]).present

\* What the worker knows of the device it is at.
AtDevice ==
    /\ w.pc \in AfterSecret => Last(secrets[It]).present
    /\ w.pc = "createHost" /\ faults = 0 => (w.mac <=> HasMac(It))

HostsComplete ==
    \A d \in Device :
        Last(hosts[d]).present =>
            /\ Last(secrets[d]).present
            /\ faults = 0 => (Last(hosts[d]).mac <=> HasMac(d))

HostNow == SecretsStay /\ AtDevice /\ HostsComplete
HostInv == edits = 0 => HostNow

\* A step that writes no object.
LEMMA HostAlong ==
    ASSUME HostNow, UNCHANGED <<secrets, hosts, device>>, faults' = faults \/ faults' # 0,
           w'.pc \in AfterSecret => w'.todo = w.todo /\ Last(secrets[It]).present,
           w'.pc = "createHost" /\ faults' = 0 => (w'.mac <=> HasMac(It))
    PROVE  HostNow'
  <1>1. SecretsStay' /\ HostsComplete'
    BY DEF HostNow, SecretsStay, HostsComplete, HasMac
  <1>2. AtDevice'
    BY DEF AtDevice, AfterSecret, It, HasMac
  <1> QED
    BY <1>1, <1>2 DEF HostNow

LEMMA HostStep ==
    ASSUME OwnType, HostNow, Step
    PROVE  HostNow'
  <1> USE DEF At
  <1>0. /\ ClusterType /\ WorkerType /\ RestType /\ w \in Worker /\ UNCHANGED <<device, edits>>
        /\ faults' = faults \/ faults' # 0
    <2>1. UNCHANGED <<device, edits>>
      BY DEF Step, ReloadCredentials, ReloadNetBox, GetClusters, ListDevices, ReconcileDevice,
         ResolveCredentials, CheckIgnore, GetSecret, WriteSecret, GetHost, LookUp, CreateHost,
         FindNetwork, CreateNetworkData, bounds, netBox
    <2>2. faults' = faults \/ faults' = faults + 1
      BY DEF Step, ReloadCredentials, ReloadNetBox, GetClusters, ListDevices, ReconcileDevice,
         ResolveCredentials, CheckIgnore, GetSecret, WriteSecret, GetHost, LookUp, CreateHost,
         FindNetwork, CreateNetworkData, bounds
    <2>3. faults \in Nat
      BY BoundAssumption DEF OwnType, RestType
    <2> QED
      BY <2>1, <2>2, <2>3 DEF OwnType, WorkerType
  <1>1. CASE ReloadCredentials \/ ResolveCredentials
    <2>1. /\ UNCHANGED <<secrets, hosts, device, faults>>
          /\ w' = w \/ w'.pc = "idle"
      BY <1>1, NoObjects DEF ReloadCredentials, ResolveCredentials, kube, bounds, netBox
    <2> QED
      BY <2>1, HostAlong DEF HostNow, AtDevice, AfterSecret
  <1>2. CASE ReloadNetBox \/ ListDevices
    <2>1. /\ UNCHANGED <<secrets, hosts>>
          /\ w'.pc \in {"clusters", "device"}
      BY <1>0, <1>2 DEF ReloadNetBox, ListDevices, kube, Worker
    <2> QED
      BY <1>0, <2>1, HostAlong DEF AfterSecret
  <1>3. CASE (NextDevice \/ Fail) /\ UNCHANGED <<secrets, hosts>>
    <2>1. w'.pc \in {"idle", "device"}
      BY <1>0, <1>3, EndKept
    <2> QED
      BY <1>0, <1>3, <2>1, HostAlong DEF AfterSecret
  <1>4. CASE GetClusters /\ Goto("list")
    <2>1. w'.pc = "list" /\ UNCHANGED <<secrets, hosts>>
      BY <1>0, <1>4, GotoAlong DEF PC, GetClusters, kube
    <2> QED
      BY <1>0, <2>1, HostAlong DEF AfterSecret
  <1>5. CASE ReconcileDevice /\ ~NextDevice
    <2>1. w'.pc = "checkIgnore" /\ UNCHANGED <<secrets, hosts>>
      BY <1>0, <1>5 DEF ReconcileDevice, kube, Worker
    <2> QED
      BY <1>0, <2>1, HostAlong DEF AfterSecret
  <1>6. CASE CheckIgnore \/ GetSecret
    <2>1. It \in Device /\ UNCHANGED <<secrets, hosts>>
      BY <1>0, <1>6, HeadInDevice DEF CheckIgnore, GetSecret, InLoop, kube
    <2>2. Head(secrets[It]).present => Last(secrets[It]).present
      BY <1>0, <2>1, EndsType DEF HostNow, SecretsStay
    <2>3. PICK l \in {"getHost", "getSecret", "writeSecret"} :
            /\ w' = [w EXCEPT !.secret = Head(secrets[It]), !.pc = l] \/ Goto(l)
            /\ l = "getHost" => Head(secrets[It]).present
      BY <1>6 DEF CheckIgnore, GetSecret
    <2>4. w'.pc = l /\ w'.todo = w.todo
      BY <1>0, <2>3, GotoAlong DEF PC, Worker
    <2> QED
      BY <1>0, <2>1, <2>2, <2>3, <2>4, HostAlong DEF AfterSecret
  <1>7. CASE WriteSecret /\ ~(Fail /\ UNCHANGED secrets)
    <2>1. It \in Device /\ UNCHANGED <<hosts, faults>>
      BY <1>0, <1>7, HeadInDevice DEF WriteSecret, InLoop, bounds
    <2>2. StoreSecret(It, SecretToWrite) /\ Goto("getHost")
      BY <1>7 DEF WriteSecret, SecretToWrite
    <2>3. SecretToWrite \in Secret /\ SecretToWrite.present
      BY <1>7, WriteType DEF WriteSecret
    <2>4. /\ \A x \in Device \ {It} : secrets'[x] = secrets[x]
          /\ Last(secrets'[It]).present
      BY <1>0, <2>1, <2>2, <2>3, SecretWritten
    <2>5. w'.pc = "getHost" /\ w'.todo = w.todo
      BY <1>0, <2>2, GotoAlong DEF PC
    <2>6. SecretsStay' /\ HostsComplete'
      BY <1>0, <2>1, <2>4 DEF HostNow, SecretsStay, HostsComplete, HasMac
    <2>7. AtDevice'
      BY <2>4, <2>5 DEF AtDevice, It
    <2> QED
      BY <2>6, <2>7 DEF HostNow
  <1>8. CASE \/ GetHost /\ Goto("lookup")
             \/ FindNetwork /\ Goto("createNetwork")
    <2>1. /\ w'.pc \in {"lookup", "createNetwork"} /\ w'.todo = w.todo
          /\ w.pc \in AfterSecret /\ UNCHANGED <<secrets, hosts>>
      BY <1>0, <1>8, GotoAlong DEF PC, GetHost, FindNetwork, AfterSecret, kube
    <2> QED
      BY <1>0, <2>1, HostAlong DEF HostNow, AtDevice
  <1>9. CASE LookUp
    <2>1. /\ w'.pc = "createHost" /\ w'.todo = w.todo /\ w.pc \in AfterSecret
          /\ UNCHANGED <<secrets, hosts>>
      BY <1>0, <1>9 DEF LookUp, AfterSecret, kube, Worker
    <2>2. faults \in Nat
      BY <1>0, BoundAssumption DEF RestType
    <2>3. faults' = 0 => w' = [w EXCEPT !.pc = "createHost", !.mac = HasMac(It)]
      BY <1>9, <2>2 DEF LookUp
    <2>4. faults' = 0 => (w'.mac <=> HasMac(It))
      BY <1>0, <2>3 DEF Worker
    <2> QED
      BY <1>0, <2>1, <2>4, HostAlong DEF HostNow, AtDevice
  <1>10. CASE CreateHost /\ ~(Fail /\ UNCHANGED <<hosts, nextUID>>)
    <2> DEFINE h == [present |-> TRUE, uid |-> nextUID, mac |-> w.mac]
    <2>1. /\ It \in Device /\ UNCHANGED <<secrets, faults>> /\ StoreHost(It, h)
          /\ w' = [w EXCEPT !.pc = "findNetwork", !.uid = nextUID] /\ w.pc = "createHost"
      BY <1>0, <1>10, HeadInDevice DEF CreateHost, InLoop, bounds
    <2>2. h \in Host /\ h.mac = w.mac
      BY <1>0 DEF Host, ClusterType, Worker
    <2>3. (\A x \in Device \ {It} : hosts'[x] = hosts[x]) /\ Last(hosts'[It]) = h
      BY <1>0, <2>1, <2>2, HostWritten
    <2>4. w'.pc = "findNetwork" /\ w'.todo = w.todo
      BY <1>0, <2>1 DEF Worker
    <2>5. Last(secrets[It]).present /\ (faults = 0 => (w.mac <=> HasMac(It)))
      BY <2>1 DEF HostNow, AtDevice, AfterSecret
    <2>6. SecretsStay' /\ AtDevice'
      BY <2>1, <2>4, <2>5 DEF HostNow, SecretsStay, AtDevice, It
    <2> HIDE DEF h
    <2>7. HostsComplete'
      BY <1>0, <2>1, <2>2, <2>3, <2>5 DEF HostNow, HostsComplete, HasMac
    <2> QED
      BY <2>6, <2>7 DEF HostNow
  <1> QED
    BY <1>1, <1>2, <1>3, <1>4, <1>5, <1>6, <1>7, <1>8, <1>9, <1>10
       DEF Step, GetClusters, ReconcileDevice, WriteSecret, GetHost, CreateHost, FindNetwork,
           CreateNetworkData, kube

LEMMA HostNext ==
    ASSUME OwnType, HostInv, [Next]_vars
    PROVE  HostInv'
  <1>0. ClusterType /\ WorkerType /\ w \in Worker /\ edits \in Nat /\ faults \in Nat
    BY BoundAssumption DEF OwnType, WorkerType, RestType
  <1>1. CASE edits' = edits
    <2> SUFFICES ASSUME edits = 0, HostNow PROVE HostNow'
      BY <1>1 DEF HostInv
    <2>1. CASE Step
      BY <2>1, HostStep
    <2>2. CASE Restart \/ \E d \in Device : DeliverSecret(d) \/ DeliverHost(d)
      <3>1. \A x \in Device :
              /\ Last(secrets'[x]) = Last(secrets[x]) /\ Last(hosts'[x]) = Last(hosts[x])
              /\ ToSet(secrets'[x]) \in SUBSET ToSet(secrets[x])
        BY <1>0, <2>2, VersionsDropped
      <3>2. /\ device' = device
            /\ \/ w' = w /\ faults' = faults
               \/ w'.pc = "idle" /\ faults' = faults + 1
        BY <2>2, NoObjects DEF Restart, DeliverSecret, DeliverHost, netBox, bounds
      <3>3. SecretsStay'
        BY <3>1 DEF HostNow, SecretsStay
      <3>4. HostsComplete'
        BY <1>0, <3>1, <3>2 DEF HostNow, HostsComplete, HasMac
      <3>5. AtDevice'
        <4>1. CASE w' = w /\ InLoop
          BY <1>0, <3>1, <3>2, <4>1, HeadInDevice DEF HostNow, AtDevice, It, HasMac
        <4>2. CASE w'.pc = "idle" \/ (w' = w /\ ~InLoop)
          BY <4>2 DEF AtDevice, AfterSecret, InLoop
        <4> QED
          BY <3>2, <4>1, <4>2
      <3> QED
        BY <3>3, <3>4, <3>5 DEF HostNow
    <2>3. CASE CallFails
      <3>1. /\ w'.pc = "idle" /\ UNCHANGED <<secrets, hosts, device>>
            /\ faults' = faults + 1
        BY <1>0, <2>3, NoObjects DEF CallFails, Fail, Finish, kube, netBox
      <3> QED
        BY <1>0, <3>1, HostAlong DEF AfterSecret
    <2>4. CASE (\E d \in Device : CollectGarbage(d)) \/ UNCHANGED vars
      <3>1. UNCHANGED <<w, secrets, hosts, device, faults>>
        BY <2>4 DEF CollectGarbage, vars, kube, netBox, bounds
      <3> QED
        BY <3>1, HostAlong DEF HostNow, AtDevice
    <2>5. ~Rotate /\ ~Edit
      BY <1>0, <1>1 DEF Rotate, Edit
    <2> QED
      BY <2>1, <2>2, <2>3, <2>4, <2>5
         DEF Next, ToggleIgnore, CreateIgnoredSecret, DeleteSecret, DeleteHost, EditDevice,
             EditClusters
  <1>2. CASE edits' # edits
    <2>1. edits' = edits + 1
      BY <1>2 DEF Next, Step, ReloadCredentials, ReloadNetBox, GetClusters, ListDevices,
         ReconcileDevice, ResolveCredentials, CheckIgnore, GetSecret, WriteSecret, GetHost,
         LookUp, CreateHost, FindNetwork, CreateNetworkData, Rotate, Restart, DeliverSecret,
         DeliverHost, CollectGarbage, CallFails, ToggleIgnore, CreateIgnoredSecret,
         DeleteSecret, DeleteHost, EditDevice, EditClusters, Edit, bounds, vars
    <2> QED
      BY <1>0, <2>1 DEF HostInv
  <1> QED
    BY <1>1, <1>2

LEMMA HostInit == Init => HostInv
  <1> SUFFICES ASSUME Init PROVE HostNow
    BY DEF HostInv
  <1>1. \A d \in Device : /\ ToSet(secrets[d]) = {NoSecret(0)}
                          /\ Last(hosts[d]) = NoHost
    BY NoObjects, VersionSingle DEF Init
  <1>2. ~NoSecret(0).present /\ ~NoHost.present /\ w.pc = "idle"
    BY NoObjects DEF Init, NoSecret, NoHost
  <1> QED
    BY <1>1, <1>2 DEF HostNow, SecretsStay, AtDevice, AfterSecret, HostsComplete

\* As long as no user edits anything, a host there is has its secret, whatever
\* fails, is stale or restarts; and until the first failure or restart it has the
\* MAC address if NetBox knows it.
THEOREM HostSafe == Spec => []HostComplete
  <1>1. HostInv => HostComplete
    BY DEF HostInv, HostNow, HostsComplete, HostComplete
  <1> QED
    BY <1>1, TypesHold, HostInit, HostNext, PTL DEF Spec
=============================================================================
