------------------------- MODULE CredentialsProofs -------------------------
(***************************************************************************)
(* Theorems about Credentials, for every set of reconcilers and every      *)
(* bound: the types; that no empty BMC credentials are handed on; and that *)
(* a reconciler that has the struct to itself never uses an empty token.   *)
(***************************************************************************)
EXTENDS Credentials, TLAPS

USE RotationsAssumption, FilesAssumption

(***************************************************************************)
(* Types.                                                                  *)
(***************************************************************************)
\* A key the file does not have is not decoded.
DecodeInv == \A p \in Proc : \A k \in todo[p] : buf[p][k] # Absent

LEMMA InitType == Init => TypeOK /\ DecodeInv
  BY DEF Init, TypeOK, DecodeInv, Entry, Value, Key, NoEntries, NewCredentials, PC, Absent, Blank, Torn

\* What p reads is a value.
LEMMA ReadsType ==
    ASSUME TypeOK, NEW p \in Proc, NEW k \in Key
    PROVE  Reads(p, k) \subseteq Value
  BY DEF TypeOK, Reads, Value, Torn

LEMMA ReturnType ==
    ASSUME TypeOK, DecodeInv, NEW p \in Proc, Return(p), UNCHANGED <<mount, creds>>
    PROVE  TypeOK' /\ DecodeInv'
  <1>1. /\ pc' \in [Proc -> PC]
        /\ buf' \in [Proc -> [Key -> Entry]]
        /\ todo' \in [Proc -> SUBSET Key]
        /\ used' \in [Proc -> [Key -> Value \cup {Absent}]]
    BY DEF TypeOK, Return, Goto, NoEntries, PC, Entry, Absent
  <1>2. DecodeInv'
    BY DEF TypeOK, DecodeInv, Return
  <1> QED
    BY <1>1, <1>2 DEF TypeOK, mount

LEMMA HandOnType ==
    ASSUME TypeOK, DecodeInv, NEW p \in Proc, NEW k \in Key, NEW next \in PC, HandOn(p, k, next)
    PROVE  TypeOK' /\ DecodeInv'
  <1>1. used' \in [Proc -> [Key -> Value \cup {Absent}]]
    BY ReadsType DEF HandOn, TypeOK
  <1>2. pc' \in [Proc -> PC]
    BY DEF HandOn, Goto, TypeOK
  <1> QED
    BY <1>1, <1>2 DEF HandOn, TypeOK, DecodeInv, mount

LEMMA StepType ==
    ASSUME TypeOK, DecodeInv, NEW p \in Proc, Step(p)
    PROVE  TypeOK' /\ DecodeInv'
  <1>1. CASE Reconcile(p)
    BY <1>1 DEF Reconcile, Goto, TypeOK, DecodeInv, mount, PC
  <1>2. CASE ReadFile(p)
    <2>1. CASE readable
      <3>1. /\ buf' = [buf EXCEPT ![p] = file]
            /\ todo' = [todo EXCEPT ![p] = {k \in Key : file[k] # Absent}]
            /\ pc' = [pc EXCEPT ![p] = "decode"]
        BY <1>2, <2>1 DEF ReadFile, Goto
      <3>2. DecodeInv'
        BY <3>1 DEF TypeOK, DecodeInv
      <3> QED
        BY <1>2, <2>1, <3>1, <3>2 DEF ReadFile, TypeOK, mount, PC
    <2>2. CASE ~readable
      BY <1>2, <2>2, ReturnType DEF ReadFile
    <2> QED
      BY <2>1, <2>2
  <1>3. CASE Unmarshal(p)
    <2>1. ASSUME NEW k \in todo[p], creds' = [creds EXCEPT ![k] = buf[p][k]],
                 todo' = [todo EXCEPT ![p] = @ \ {k}], UNCHANGED <<pc, buf, mount, used>>
          PROVE  TypeOK' /\ DecodeInv'
      <3>1. k \in Key /\ buf[p][k] \in Value \ {Torn}
        BY DEF TypeOK, DecodeInv, Entry, Value, Absent, Torn, Blank
      <3>2. creds' \in [Key -> Value \ {Torn}]
        BY <2>1, <3>1 DEF TypeOK
      <3> QED
        BY <2>1, <3>2 DEF TypeOK, DecodeInv, mount
    <2>2. ASSUME pc' = [pc EXCEPT ![p] = "validate1"], buf' = [buf EXCEPT ![p] = NoEntries],
                 todo[p] = {}, UNCHANGED <<creds, todo, mount, used>>
          PROVE  TypeOK' /\ DecodeInv'
      <3>1. DecodeInv'
        BY <2>2 DEF TypeOK, DecodeInv
      <3> QED
        BY <2>2, <3>1 DEF TypeOK, mount, NoEntries, Entry, PC
    <2> QED
      BY <1>3, <2>1, <2>2 DEF Unmarshal, Goto
  <1>4. CASE Validate(p)
    <2>1. CASE Return(p)
      BY <1>4, <2>1, ReturnType DEF Validate
    <2>2. CASE pc' \in [Proc -> PC] /\ UNCHANGED <<buf, todo, used>>
      BY <1>4, <2>2 DEF Validate, TypeOK, DecodeInv, mount
    <2>3. ASSUME NEW i \in DOMAIN Field,
                 Goto(p, <<"validate2", "validate3", "netBox">>[i])
          PROVE  pc' \in [Proc -> PC]
      <3>1. i \in 1..3 /\ <<"validate2", "validate3", "netBox">>[i] \in PC
        BY DEF Field, PC
      <3> QED
        BY <2>3, <3>1 DEF Goto, TypeOK
    <2> QED
      BY <1>4, <2>1, <2>2, <2>3 DEF Validate
  <1>5. CASE ReloadNetBox(p)
    BY <1>5, HandOnType DEF ReloadNetBox, Key, PC
  <1>6. CASE ResolveBMCUser(p)
    BY <1>6, HandOnType DEF ResolveBMCUser, Key, PC
  <1>7. CASE ResolveBMCPassword(p)
    <2>1. CASE Return(p)
      BY <1>7, <2>1, ReturnType DEF ResolveBMCPassword
    <2>2. CASE \E v \in Reads(p, "bmcPassword") :
                 /\ used' = [used EXCEPT ![p]["bmcPassword"] = v]
                 /\ Goto(p, "work")
                 /\ UNCHANGED <<buf, todo>>
      <3>1. HandOn(p, "bmcPassword", "work")
        BY <1>7, <2>2 DEF ResolveBMCPassword, HandOn
      <3> QED
        BY <3>1, HandOnType DEF Key, PC
    <2> QED
      BY <1>7, <2>1, <2>2 DEF ResolveBMCPassword
  <1>8. CASE NextDevice(p)
    BY <1>8 DEF NextDevice, Goto, TypeOK, DecodeInv, mount, PC
  <1>9. CASE Finish(p)
    BY <1>9, ReturnType DEF Finish
  <1> QED
    BY <1>1, <1>2, <1>3, <1>4, <1>5, <1>6, <1>7, <1>8, <1>9 DEF Step

LEMMA RotateType ==
    ASSUME TypeOK, DecodeInv, Rotate
    PROVE  TypeOK' /\ DecodeInv'
  <1>1. version' \in 1..MaxRotations
    BY DEF Rotate, TypeOK
  <1>2. file' \in [Key -> Entry]
    <2>1. ASSUME NEW k \in Key, NEW e \in {version + 1, Blank, Absent},
                 file' = [x \in Key |-> IF x = k THEN e ELSE version + 1]
          PROVE  file' \in [Key -> Entry]
      BY <1>1, <2>1 DEF Rotate, Entry
    <2> QED
      BY <2>1 DEF Rotate, TypeOK
  <1> QED
    BY <1>1, <1>2 DEF Rotate, TypeOK, DecodeInv

LEMMA RestartType ==
    ASSUME TypeOK, DecodeInv, Restart
    PROVE  TypeOK' /\ DecodeInv'
  BY DEF Restart, TypeOK, DecodeInv, NewCredentials, NoEntries, Entry, Value, PC, Blank, Absent, Torn

LEMMA NextType ==
    ASSUME TypeOK, DecodeInv, [Next]_vars
    PROVE  TypeOK' /\ DecodeInv'
  <1>1. CASE UNCHANGED vars
    BY <1>1 DEF vars, TypeOK, DecodeInv
  <1> QED
    BY <1>1, StepType, RotateType, RestartType DEF Next

\* Whatever files are mounted and however the reloads overlap, what the struct
\* and its users hold is of the right type; the struct itself is never torn.
THEOREM TypeCorrect == Spec => []TypeOK
  <1> QED
    BY InitType, NextType, PTL DEF Spec

-----------------------------------------------------------------------------
(***************************************************************************)
(* No empty BMC credentials.                                               *)
(***************************************************************************)
\* A call that has come to work on devices has checked the user and password it
\* hands on; one that has not yet has none.
HandedInv ==
    \A p \in Proc :
        /\ pc[p] = "work" /\ used[p]["bmcPassword"] # Absent =>
               Blank \notin {used[p]["bmcUser"], used[p]["bmcPassword"]}
        /\ pc[p] \notin {"work", "bmcUser", "bmcPassword"} => used[p]["bmcPassword"] = Absent

\* What one reconciler does leaves the others and what they have handed on alone.
LEMMA OthersKeep ==
    ASSUME TypeOK, NEW p \in Proc, Step(p)
    PROVE  \A q \in Proc \ {p} : pc'[q] = pc[q] /\ used'[q] = used[q]
  BY DEF TypeOK, Step, Reconcile, ReadFile, Unmarshal, Validate, ReloadNetBox, ResolveBMCUser,
         ResolveBMCPassword, NextDevice, Finish, HandOn, Return, Goto

\* The reconciler is idle, with nothing handed on.
LEMMA ReturnKeeps ==
    ASSUME TypeOK, NEW p \in Proc, Return(p)
    PROVE  pc'[p] = "idle" /\ used'[p] = NoEntries
  BY DEF TypeOK, Return, Goto

LEMMA HandedStep ==
    ASSUME TypeOK, HandedInv, NEW p \in Proc, Step(p)
    PROVE  HandedInv'
  <1> DEFINE Handed(q) ==
        /\ pc[q] = "work" /\ used[q]["bmcPassword"] # Absent =>
               Blank \notin {used[q]["bmcUser"], used[q]["bmcPassword"]}
        /\ pc[q] \notin {"work", "bmcUser", "bmcPassword"} => used[q]["bmcPassword"] = Absent
  <1>1. pc \in [Proc -> PC] /\ used \in [Proc -> [Key -> Value \cup {Absent}]]
    BY DEF TypeOK
  <1>2. Handed(p)
    BY DEF HandedInv
  <1>3. CASE Return(p)
    BY <1>3, ReturnKeeps, OthersKeep DEF HandedInv, NoEntries, Key
  <1>4. SUFFICES ASSUME ~Return(p) PROVE Handed(p)'
    BY <1>3, OthersKeep DEF HandedInv
  <1>5. CASE Reconcile(p)
    BY <1>1, <1>2, <1>5 DEF Reconcile, Goto
  <1>6. CASE ReadFile(p)
    BY <1>1, <1>2, <1>4, <1>6 DEF ReadFile, Goto
  <1>7. CASE Unmarshal(p)
    BY <1>1, <1>2, <1>7 DEF Unmarshal, Goto
  <1>8. CASE Validate(p)
    <2>1. PICK i \in DOMAIN Field : /\ pc[p] = <<"validate1", "validate2", "validate3">>[i]
                                   /\ Goto(p, <<"validate2", "validate3", "netBox">>[i])
                                   /\ used' = used
      BY <1>4, <1>8 DEF Validate
    <2>2. i \in 1..3
      BY DEF Field
    <2> QED
      BY <1>1, <1>2, <2>1, <2>2 DEF Goto
  <1>9. CASE ReloadNetBox(p)
    BY <1>1, <1>2, <1>9 DEF ReloadNetBox, HandOn, Goto, Key
  <1>10. CASE ResolveBMCUser(p)
    BY <1>1, <1>2, <1>10 DEF ResolveBMCUser, HandOn, Goto, Key
  <1>11. CASE ResolveBMCPassword(p)
    BY <1>1, <1>2, <1>4, <1>11 DEF ResolveBMCPassword, Goto, Key
  <1>12. CASE NextDevice(p)
    BY <1>1, <1>2, <1>12 DEF NextDevice, Goto
  <1> QED
    BY <1>4, <1>5, <1>6, <1>7, <1>8, <1>9, <1>10, <1>11, <1>12 DEF Step, Finish

\* No reconciler hands on an empty BMC user or password, whatever another is
\* decoding into the struct meanwhile: the check is made on what was read
\* (metal3_controller.go:364, ironcore_controller.go:311).
THEOREM BMCSafe == Spec => []BMCNotBlank
  <1>1. Init => HandedInv
    <2>1. Init => \A p \in Proc : pc[p] = "idle" /\ used[p] = NoEntries
      BY DEF Init
    <2>2. \A k \in Key : NoEntries[k] = Absent
      BY DEF NoEntries
    <2> QED
      BY <2>1, <2>2 DEF HandedInv, Key
  <1>2. ASSUME TypeOK, HandedInv, [Next]_vars
        PROVE  HandedInv'
    <2>1. CASE UNCHANGED <<pc, used>>
      BY <1>2, <2>1 DEF HandedInv
    <2>2. CASE Restart
      BY <2>2 DEF Restart, HandedInv, NoEntries, Key
    <2> QED
      BY <1>2, <2>1, <2>2, HandedStep DEF Next, Rotate, vars
  <1>3. HandedInv => BMCNotBlank
    BY ProcAssumption DEF HandedInv, BMCNotBlank
  <1> QED
    BY <1>1, <1>2, <1>3, TypeCorrect, PTL DEF Spec

-----------------------------------------------------------------------------
(***************************************************************************)
(* A reconciler with the struct to itself.                                 *)
(***************************************************************************)
\* The fields that Validate has found set, at every point of a call.
Checked(l) ==
    CASE l = "validate2" -> {"bmcUser"}
      [] l = "validate3" -> {"bmcUser", "bmcPassword"}
      [] l \in {"netBox", "work", "bmcUser", "bmcPassword"} -> Key
      [] OTHER -> {}

\* They still are set, and nothing empty has been handed on.
AloneInv ==
    \A p \in Proc :
        /\ \A k \in Checked(pc[p]) : creds[k] # Blank
        /\ \A k \in Key : used[p][k] # Blank

LEMMA AloneStep ==
    ASSUME TypeOK, AloneInv, \A p, q \in Proc : p = q, NEW p \in Proc, Step(p)
    PROVE  AloneInv'
  <1>1. /\ pc \in [Proc -> PC] /\ used \in [Proc -> [Key -> Value \cup {Absent}]]
        /\ creds \in [Key -> Value \ {Torn}]
    BY DEF TypeOK
  <1>2. /\ \A k \in Checked(pc[p]) : creds[k] # Blank
        /\ \A k \in Key : used[p][k] # Blank
    BY DEF AloneInv
  <1>3. \A k : Reads(p, k) = {creds[k]}
    BY DEF Reads
  <1>4. SUFFICES /\ \A k \in Checked(pc'[p]) : creds'[k] # Blank
                 /\ \A k \in Key : used'[p][k] # Blank
    BY DEF AloneInv
  <1>5. CASE Return(p)
    BY <1>5, ReturnKeeps DEF NoEntries, Checked, Blank, Absent
  <1>6. CASE Reconcile(p) \/ (ReadFile(p) /\ ~Return(p))
    BY <1>1, <1>2, <1>6 DEF Reconcile, ReadFile, Goto, Checked
  <1>7. CASE Unmarshal(p)
    <2>1. pc'[p] \in {"decode", "validate1"} /\ used' = used
      BY <1>1, <1>7 DEF Unmarshal, Goto
    <2> QED
      BY <1>2, <2>1 DEF Checked
  <1>8. CASE Validate(p) /\ ~Return(p)
    <2>1. PICK i \in DOMAIN Field : /\ pc[p] = <<"validate1", "validate2", "validate3">>[i]
                                   /\ creds[Field[i]] # Blank
                                   /\ Goto(p, <<"validate2", "validate3", "netBox">>[i])
                                   /\ UNCHANGED <<used, creds>>
      BY <1>3, <1>8 DEF Validate
    <2>2. i \in 1..3
      BY DEF Field
    <2> QED
      BY <1>1, <1>2, <2>1, <2>2 DEF Goto, Checked, Field, Key
  <1>9. ASSUME NEW k \in Key, NEW next, HandOn(p, k, next), Checked(pc[p]) = Key,
               next \in {"work", "bmcPassword"}
        PROVE  /\ \A x \in Checked(pc'[p]) : creds'[x] # Blank
               /\ \A x \in Key : used'[p][x] # Blank
    <2>1. used' = [used EXCEPT ![p][k] = creds[k]] /\ pc'[p] = next /\ creds' = creds
      <3>1. PICK v \in Reads(p, k) : used' = [used EXCEPT ![p][k] = v]
        BY <1>9 DEF HandOn
      <3>2. v = creds[k]
        BY <1>3
      <3> QED
        BY <1>1, <1>9, <3>1, <3>2 DEF HandOn, Goto, mount
    <2> QED
      BY <1>1, <1>2, <1>9, <2>1 DEF Checked
  <1>10. CASE ReloadNetBox(p) \/ ResolveBMCUser(p)
    BY <1>9, <1>10 DEF ReloadNetBox, ResolveBMCUser, Checked, Key
  <1>11. CASE ResolveBMCPassword(p) /\ ~Return(p)
    <2>1. HandOn(p, "bmcPassword", "work") /\ Checked(pc[p]) = Key
      BY <1>11 DEF ResolveBMCPassword, HandOn, Checked
    <2> QED
      BY <1>9, <2>1 DEF Key
  <1>12. CASE NextDevice(p)
    BY <1>1, <1>2, <1>12 DEF NextDevice, Goto, Checked
  <1> QED
    BY <1>5, <1>6, <1>7, <1>8, <1>10, <1>11, <1>12 DEF Step, Finish

\* TokenRequired, which fails as soon as two reconcilers share the struct, holds
\* for one that has it to itself, whatever the mounted file says or leaves out:
\* the sharing (main.go:164) is what breaks it, not the reload.
THEOREM TokenSafeAlone ==
    ASSUME \A p, q \in Proc : p = q
    PROVE  Spec => []TokenRequired
  <1>1. Init => AloneInv
    <2>1. Init => \A p \in Proc : pc[p] = "idle" /\ used[p] = NoEntries
      BY DEF Init
    <2>2. \A k \in Key : NoEntries[k] # Blank
      BY DEF NoEntries, Absent, Blank
    <2>3. Checked("idle") = {}
      BY DEF Checked
    <2> QED
      BY <2>1, <2>2, <2>3 DEF AloneInv
  <1>2. ASSUME TypeOK, AloneInv, [Next]_vars
        PROVE  AloneInv'
    <2>1. CASE UNCHANGED vars \/ Rotate
      BY <1>2, <2>1 DEF vars, Rotate, AloneInv
    <2>2. CASE Restart
      BY <2>2 DEF Restart, AloneInv, NoEntries, Checked, Blank, Absent
    <2> QED
      BY <1>2, <2>1, <2>2, AloneStep DEF Next
  <1>3. AloneInv => TokenRequired
    BY DEF AloneInv, TokenRequired, Key
  <1> QED
    BY <1>1, <1>2, <1>3, TypeCorrect, PTL DEF Spec
=============================================================================
