---------------------------- MODULE Credentials ----------------------------
(***************************************************************************)
(* The credentials every reconciler works with                             *)
(* (internal/credentials/credentials.go).  main.go makes ONE Credentials   *)
(* struct and hands the pointer to every reconciler (cmd/manager/main.go,  *)
(* lines 164-200); each Reconcile call starts by reloading it from the     *)
(* mounted file, and nothing locks it.  The reconcilers run concurrently,  *)
(* one worker each: a reload of one overlaps the reads of the others.      *)
(*                                                                         *)
(* A value is the number of the rotation that issued it, Blank for the     *)
(* empty string.                                                           *)
(***************************************************************************)
EXTENDS Integers

CONSTANTS
    Proc,          \* the reconcilers
    BMCProc,       \* those that hand BMC credentials on (IronCore, Metal3)
    BlankFiles,    \* TRUE: a rotation may leave a key empty
    PartialFiles,  \* TRUE: a rotation may leave a key out
    BadFiles,      \* TRUE: a rotation may leave a file that is no JSON
    MaxRotations,  \* bound: versions of the mounted file, the first included
    MaxRestarts    \* bound: restarts of the manager

ASSUME ProcAssumption == BMCProc \subseteq Proc
ASSUME FilesAssumption == {BlankFiles, PartialFiles, BadFiles} \subseteq BOOLEAN
ASSUME RotationsAssumption == MaxRotations \in Nat \ {0} /\ MaxRestarts \in Nat

Blank == 0     \* the empty string
Absent == -1   \* the file does not have the key
Torn == -2     \* what a read that races a write of the same string may return

Key == {"bmcUser", "bmcPassword", "netboxToken"}
Value == {Torn, Blank} \cup 1..MaxRotations
Entry == {Absent, Blank} \cup 1..MaxRotations

\* The order in which Validate looks at the fields.
Field == <<"bmcUser", "bmcPassword", "netboxToken">>

VARIABLES
    file,     \* the mounted file: [Key -> Entry]
    readable, \* FALSE: reading or parsing it fails
    version,  \* rotations so far
    creds,    \* the shared struct: [Key -> Value]
    pc,       \* where every reconciler is
    buf,      \* the file contents its reload is decoding
    todo,     \* the keys it has yet to decode
    used,     \* the credentials its current Reconcile call has handed on
    restarts  \* restarts so far

mount == <<file, readable, version, restarts>>
vars  == <<file, readable, version, creds, pc, buf, todo, used, restarts>>

PC == {"idle", "read", "decode", "netBox", "bmcUser", "bmcPassword", "work"} \cup
      {"validate1", "validate2", "validate3"}

NoEntries == [k \in Key |-> Absent]
NewCredentials == [k \in Key |-> Blank]

TypeOK ==
    /\ file \in [Key -> Entry]
    /\ readable \in BOOLEAN
    /\ version \in 1..MaxRotations
    /\ creds \in [Key -> Value \ {Torn}]
    /\ pc \in [Proc -> PC]
    /\ buf \in [Proc -> [Key -> Entry]]
    /\ todo \in [Proc -> SUBSET Key]
    /\ used \in [Proc -> [Key -> Value \cup {Absent}]]
    /\ restarts \in 0..MaxRestarts

Init ==
    /\ file = [k \in Key |-> 1]
    /\ readable = TRUE
    /\ version = 1
    /\ creds = NewCredentials
    /\ pc = [p \in Proc |-> "idle"]
    /\ buf = [p \in Proc |-> NoEntries]
    /\ todo = [p \in Proc |-> {}]
    /\ used = [p \in Proc |-> NoEntries]
    /\ restarts = 0

-----------------------------------------------------------------------------
(***************************************************************************)
(* The mounted secret: a rotation replaces the file as a whole; and the    *)
(* manager itself.                                                         *)
(***************************************************************************)
\* Of a file that cannot be read it is the last readable one that is kept.
Rotate ==
    /\ version < MaxRotations
    /\ version' = version + 1
    /\ \/ /\ \E k \in Key, e \in {version + 1}
                            \cup (IF BlankFiles THEN {Blank} ELSE {})
                            \cup (IF PartialFiles THEN {Absent} ELSE {}) :
               file' = [x \in Key |-> IF x = k THEN e ELSE version + 1]
          /\ readable' = TRUE
       \/ /\ BadFiles
          /\ readable' = FALSE
          /\ UNCHANGED file
    /\ UNCHANGED <<creds, pc, buf, todo, used, restarts>>

\* The manager starts again, with a new struct.
Restart ==
    /\ restarts < MaxRestarts
    /\ restarts' = restarts + 1
    /\ creds' = NewCredentials
    /\ pc' = [p \in Proc |-> "idle"]
    /\ buf' = [p \in Proc |-> NoEntries]
    /\ todo' = [p \in Proc |-> {}]
    /\ used' = [p \in Proc |-> NoEntries]
    /\ UNCHANGED <<file, readable, version>>

-----------------------------------------------------------------------------
(***************************************************************************)
(* A reconciler.                                                           *)
(***************************************************************************)
\* What p may read from a field: what it holds or, while another reconciler is
\* storing a different string there, a mixture of the two.  (A mixture with the
\* empty string is the empty string, or ends the manager.)
Reads(p, k) ==
    {creds[k]} \cup
    {Torn : q \in {x \in Proc \ {p} :
                     /\ pc[x] = "decode" /\ k \in todo[x]
                     /\ buf[x][k] # creds[k]
                     /\ Blank \notin {buf[x][k], creds[k]}}}

Goto(p, l) == pc' = [pc EXCEPT ![p] = l]

\* Reconcile returns; with an error or without, it runs again later.
Return(p) ==
    /\ Goto(p, "idle")
    /\ buf' = [buf EXCEPT ![p] = NoEntries]
    /\ todo' = [todo EXCEPT ![p] = {}]
    /\ used' = [used EXCEPT ![p] = NoEntries]

Reconcile(p) ==
    /\ pc[p] = "idle"
    /\ Goto(p, "read")
    /\ UNCHANGED <<mount, creds, buf, todo, used>>

\* Mutant: the keys the file does not have are decoded too.
Bug_ReadFile(p) ==
    /\ pc[p] = "read"
    /\ IF readable
       THEN /\ Goto(p, "decode")
            /\ buf' = [buf EXCEPT ![p] = file]
            /\ todo' = [todo EXCEPT ![p] = Key]
            /\ UNCHANGED used
       ELSE Return(p)
    /\ UNCHANGED <<mount, creds>>

\* ReadFile, and the syntax check with which json.Unmarshal starts.
ReadFile(p) ==
    /\ pc[p] = "read"
    /\ IF readable
       THEN /\ Goto(p, "decode")
            /\ buf' = [buf EXCEPT ![p] = file]
            /\ todo' = [todo EXCEPT ![p] = {k \in Key : file[k] # Absent}]
            /\ UNCHANGED used
       ELSE Return(p)
    /\ UNCHANGED <<mount, creds>>

\* Mutant: only empty fields are filled.
Bug_Unmarshal(p) ==
    /\ pc[p] = "decode"
    /\ \/ \E k \in todo[p] :
            /\ creds' = [creds EXCEPT ![k] = IF @ = Blank THEN buf[p][k] ELSE @]
            /\ todo' = [todo EXCEPT ![p] = @ \ {k}]
            /\ UNCHANGED <<pc, buf>>
       \/ /\ todo[p] = {}
          /\ Goto(p, "validate1")
          /\ buf' = [buf EXCEPT ![p] = NoEntries]
          /\ UNCHANGED <<creds, todo>>
    /\ UNCHANGED <<mount, used>>

\* json.Unmarshal into the struct that is in use: one field after the other, in
\* the order of the file; a key the file does not have leaves its field alone.
Unmarshal(p) ==
    /\ pc[p] = "decode"
    /\ \/ \E k \in todo[p] :
            /\ creds' = [creds EXCEPT ![k] = buf[p][k]]
            /\ todo' = [todo EXCEPT ![p] = @ \ {k}]
            /\ UNCHANGED <<pc, buf>>
       \/ /\ todo[p] = {}
          /\ Goto(p, "validate1")
          /\ buf' = [buf EXCEPT ![p] = NoEntries]
          /\ UNCHANGED <<creds, todo>>
    /\ UNCHANGED <<mount, used>>

\* Validate: no field may be empty.
Validate(p) ==
    /\ \E i \in DOMAIN Field :
         /\ pc[p] = <<"validate1", "validate2", "validate3">>[i]
         /\ \E v \in Reads(p, Field[i]) :
              IF v = Blank THEN Return(p)
              ELSE /\ Goto(p, <<"validate2", "validate3", "netBox">>[i])
                   /\ UNCHANGED <<buf, todo, used>>
    /\ UNCHANGED <<mount, creds>>

\* The reconciler reads field k and hands it on.
HandOn(p, k, next) ==
    /\ \E v \in Reads(p, k) : used' = [used EXCEPT ![p][k] = v]
    /\ Goto(p, next)
    /\ UNCHANGED <<mount, creds, buf, todo>>

\* netBox.Reload(r.credentials.NetboxToken): new NetBox clients with the token.
ReloadNetBox(p) ==
    /\ pc[p] = "netBox"
    /\ HandOn(p, "netboxToken", "work")

\* resolveBMCCredentials, for every device: the user, the password, and only
\* then the check that neither is empty.
ResolveBMCUser(p) == pc[p] = "bmcUser" /\ HandOn(p, "bmcUser", "bmcPassword")

\* Mutant: a struct that was found valid is trusted.
Bug_ResolveBMCPassword(p) ==
    /\ pc[p] = "bmcPassword"
    /\ HandOn(p, "bmcPassword", "work")

ResolveBMCPassword(p) ==
    /\ pc[p] = "bmcPassword"
    /\ \E v \in Reads(p, "bmcPassword") :
         IF Blank \in {v, used[p]["bmcUser"]} THEN Return(p)
         ELSE /\ used' = [used EXCEPT ![p]["bmcPassword"] = v]
              /\ Goto(p, "work")
              /\ UNCHANGED <<buf, todo>>
    /\ UNCHANGED <<mount, creds>>

\* The rest of Reconcile: another device, ...
NextDevice(p) ==
    /\ pc[p] = "work"
    /\ p \in BMCProc
    /\ Goto(p, "bmcUser")
    /\ UNCHANGED <<mount, creds, buf, todo, used>>

\* ... or the end, with an error or without.
Finish(p) ==
    /\ pc[p] = "work"
    /\ Return(p)
    /\ UNCHANGED <<mount, creds>>

Step(p) ==
    \/ Reconcile(p) \/ ReadFile(p) \/ Unmarshal(p) \/ Validate(p)
    \/ ReloadNetBox(p) \/ ResolveBMCUser(p) \/ ResolveBMCPassword(p)
    \/ NextDevice(p) \/ Finish(p)

Next == Rotate \/ Restart \/ \E p \in Proc : Step(p)

Spec == Init /\ [][Next]_vars

\* Every reconciler is requeued for ever (interval, backoff or resync), no call
\* hangs, and a Reconcile call has finitely many devices.
Fairness ==
    \A p \in Proc : WF_vars(Step(p)) /\ SF_vars(Finish(p))

FairSpec == Spec /\ Fairness

-----------------------------------------------------------------------------
(***************************************************************************)
(* Properties.                                                             *)
(***************************************************************************)
Complete(f) == \A k \in Key : f[k] \notin {Absent, Blank}

\* No BMC user or password that is empty is handed on, "bmc user or password not
\* set" (metal3_controller.go:364), though another reconciler may be decoding a
\* file with an empty key into the struct that was found valid.
BMCNotBlank ==
    \A p \in BMCProc :
        used[p]["bmcPassword"] # Absent /\ pc[p] = "work" =>
            Blank \notin {used[p]["bmcUser"], used[p]["bmcPassword"]}

\* NetBox clients are never made with an empty token: for one, Validate returns
\* "netbox token is required" (credentials.go:69).
TokenRequired == \A p \in Proc : used[p]["netboxToken"] # Blank

\* When rotations stop at a complete file, the shared struct ends up with it for
\* good and every reconciler ends up handing on nothing else, however their
\* reloads overlapped and whatever files came before: with a key left out or
\* empty, or no JSON at all.
EventuallyCurrent ==
    <>[](readable /\ Complete(file)) =>
        <>[](/\ creds = file
             /\ \A p \in Proc, k \in Key : used[p][k] \in {Absent, file[k]})
=============================================================================
