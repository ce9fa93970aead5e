------------------------- MODULE IPUpdateRefinement -------------------------
(***************************************************************************)
(* Proof that IPUpdate implements GuardedResource for annotated records,   *)
(* and without faults leaks no record, in every instance in which the      *)
(* worker starts on a cache that has caught up (FreshReads) and no         *)
(* operator edits NetBox (MaxEdits = 0).                                   *)
(***************************************************************************)
EXTENDS IPUpdateProofs

(***************************************************************************)
(* The inductive invariant of the refinement.                              *)
(***************************************************************************)
\* The last version of every object on its way to the cache, or the cached one
\* when none is, is the server's.
Last(i) == \A j \in DOMAIN stream : j > i => stream[j].cr # stream[i].cr

CacheCurrent ==
    /\ \A i \in DOMAIN stream : Last(i) => stream[i].ver = obj[stream[i].cr]
    /\ \A c \in CR : (\A i \in DOMAIN stream : stream[i].cr # c) => cache[c] = obj[c]

\* The annotations come together, never before the finalizer, and go with the
\* object.
AnnotationInv ==
    \A c \in CR :
        /\ obj[c].device = None => obj[c].iface = None
        /\ obj[c].phase \in {"bare", "gone"} => obj[c].iface = None

\* On the way of a deletion the snapshot is the object; when only another
\* controller still holds it, neither it nor anyone with its address gets the
\* finalizer meanwhile.
DeleteInv ==
    w.pc \in DeletePath =>
        /\ \/ w.snap.phase = "deleting" /\ obj[w.cr] = w.snap
           \/ w.snap.phase = "released" /\ ~HasFinalizer(obj[w.cr])
        /\ \A x \in CR : x # w.cr /\ AddrOf[x] = AddrOf[w.cr] =>
               ~HasFinalizer(obj[x]) /\ obj[x].iface = None

\* On the other way the object is the snapshot, or has been marked since.
NormalInv ==
    w.pc \in NormalPath =>
        /\ w.snap.phase = "guarded"
        /\ obj[w.cr] \in {w.snap, [w.snap EXCEPT !.phase = "deleting"]}

\* What the worker knows of NetBox, where nobody else writes.
RecordInv ==
    /\ At("deleteIP") => Hits(AddrOf[w.cr]) = {w.ip}
    /\ At("removeFinalizer") /\ w.snap.phase = "deleting" => ~Recorded(w.cr)
    /\ At("primaryIP") => w.ip \in Hits(AddrOf[w.cr]) /\ nb[w.ip].iface = w.iface
    /\ At("updateMetadata") => \E id \in Hits(AddrOf[w.cr]) : nb[id].iface = w.iface

RefinementInv ==
    /\ TypeOK
    /\ CacheCurrent
    /\ AnnotationInv
    /\ Exclusive
    /\ DeleteInv
    /\ NormalInv
    /\ RecordInv

\* What only another controller still holds has no record.
ReleasedInv == \A c \in CR : obj[c].phase = "released" => ~Recorded(c)

-----------------------------------------------------------------------------
LEMMA RefinementInit == Init => RefinementInv
  <1> SUFFICES ASSUME Init PROVE RefinementInv
    OBVIOUS
  <1>1. TypeOK
    BY TypeInit
  <1>2. DOMAIN stream = {} /\ \A c \in CR : obj[c] = NoVersion /\ cache[c] = NoVersion
    BY DEF Init
  <1>3. CacheCurrent
    BY <1>2 DEF CacheCurrent
  <1>4. AnnotationInv /\ Exclusive
    BY <1>2 DEF AnnotationInv, Exclusive, NoVersion
  <1>5. DeleteInv /\ NormalInv /\ RecordInv
    BY IdleType DEF Init, DeleteInv, NormalInv, RecordInv, At, IdleWorker, DeletePath, NormalPath
  <1> QED
    BY <1>1, <1>3, <1>4, <1>5 DEF RefinementInv

\* The watch.
LEMMA CurrentStore ==
    ASSUME K8sType, CacheCurrent, NEW c \in CR, NEW v \in Version, Store(c, v), cache' = cache
    PROVE  CacheCurrent'
  <1>1. CASE v = obj[c]
    <2>1. obj' = obj /\ stream' = stream
      BY <1>1 DEF Store, K8sType
    <2> QED
      BY <2>1 DEF CacheCurrent, Last
  <1>2. CASE v # obj[c]
    <2> DEFINE e == [cr |-> c, ver |-> v]
    <2>1. /\ DOMAIN stream = 1..Len(stream) /\ Len(stream) \in Nat
          /\ DOMAIN stream' = 1..(Len(stream) + 1)
          /\ \A i \in 1..Len(stream) : stream'[i] = stream[i]
          /\ stream'[Len(stream) + 1] = e
      BY <1>2, StoreType DEF Store, K8sType, Event
    <2>2. obj'[c] = v /\ \A x \in CR : x # c => obj'[x] = obj[x]
      BY DEF Store, K8sType
    <2>3. \A i \in DOMAIN stream : stream[i].cr \in CR
      <3>1. \A i \in DOMAIN stream : stream[i] \in Event
        BY DEF K8sType
      <3> QED
        BY <3>1 DEF Event
    <2>4. ASSUME NEW i \in DOMAIN stream', Last(i)' PROVE stream'[i].ver = obj'[stream'[i].cr]
      <3>1. CASE i = Len(stream) + 1
        BY <2>1, <2>2, <3>1
      <3>2. CASE i \in DOMAIN stream
        <4>1. stream'[i] = stream[i] /\ stream[i].cr # c
          BY <2>1, <2>4, <3>2 DEF Last
        <4>2. Last(i)
          BY <2>1, <2>4, <3>2 DEF Last
        <4> QED
          BY <2>2, <2>3, <3>2, <4>1, <4>2 DEF CacheCurrent
      <3> QED
        BY <2>1, <3>1, <3>2
    <2>5. ASSUME NEW x \in CR, \A i \in DOMAIN stream' : stream'[i].cr # x
          PROVE  cache'[x] = obj'[x]
      <3>1. x # c /\ \A i \in DOMAIN stream : stream[i].cr # x
        BY <2>1, <2>5
      <3> QED
        BY <2>2, <3>1 DEF CacheCurrent
    <2> QED
      BY <2>4, <2>5 DEF CacheCurrent
  <1> QED
    BY <1>1, <1>2

LEMMA CurrentDeliver ==
    ASSUME K8sType, CacheCurrent, Deliver
    PROVE  CacheCurrent'
  <1>1. /\ DOMAIN stream = 1..Len(stream) /\ Len(stream) \in Nat \ {0}
        /\ Head(stream) = stream[1]
        /\ DOMAIN stream' = 1..(Len(stream) - 1)
        /\ \A i \in DOMAIN stream' : stream'[i] = stream[i + 1] /\ i + 1 \in DOMAIN stream
    BY DEF Deliver, K8sType
  <1>2. obj' = obj
    BY DEF Deliver
  <1>3. ASSUME NEW i \in DOMAIN stream', Last(i)' PROVE stream'[i].ver = obj'[stream'[i].cr]
    <2>1. ASSUME NEW j \in DOMAIN stream, j > i + 1 PROVE stream[j].cr # stream[i + 1].cr
      <3>1. j - 1 \in DOMAIN stream' /\ j - 1 > i /\ (j - 1) + 1 = j
        BY <1>1, <2>1
      <3> QED
        BY <1>1, <1>3, <3>1 DEF Last
    <2>2. Last(i + 1)
      BY <2>1 DEF Last
    <2> QED
      BY <1>1, <1>2, <2>2 DEF CacheCurrent
  <1>4. ASSUME NEW x \in CR, \A i \in DOMAIN stream' : stream'[i].cr # x
        PROVE  cache'[x] = obj'[x]
    <2>1. ASSUME NEW j \in DOMAIN stream, j > 1 PROVE stream[j].cr # x
      <3>1. j - 1 \in DOMAIN stream' /\ (j - 1) + 1 = j
        BY <1>1, <2>1
      <3> QED
        BY <1>1, <1>4, <3>1
    <2>2. CASE stream[1].cr = x
      <3>1. 1 \in DOMAIN stream /\ Last(1)
        BY <1>1, <2>1, <2>2 DEF Last
      <3>2. cache'[x] = stream[1].ver
        BY <1>1, <2>2 DEF Deliver, K8sType
      <3> QED
        BY <1>2, <2>2, <3>1, <3>2 DEF CacheCurrent
    <2>3. CASE stream[1].cr # x
      <3>1. \A j \in DOMAIN stream : stream[j].cr # x
        BY <1>1, <2>1, <2>3
      <3>2. cache'[x] = cache[x]
        BY <1>1, <2>3 DEF Deliver, K8sType
      <3> QED
        BY <1>2, <3>1, <3>2 DEF CacheCurrent
    <2> QED
      BY <2>2, <2>3
  <1> QED
    BY <1>3, <1>4 DEF CacheCurrent

\* The worker.
LEMMA IdleInv ==
    ASSUME w' = IdleWorker
    PROVE  DeleteInv' /\ NormalInv' /\ RecordInv'
  BY DEF DeleteInv, NormalInv, RecordInv, At, IdleWorker, DeletePath, NormalPath

\* The objects: what version v may take the place of obj[c].
Succeeds(c, v) ==
    /\ v.device = None => v.iface = None
    /\ v.phase \in {"bare", "gone"} => v.iface = None
    /\ v.phase # "gone" =>
         \/ obj[c].phase # "gone"
         \/ \A x \in CR : x # c /\ AddrOf[x] = AddrOf[c] => obj[x].phase = "gone"

LEMMA ObjectStore ==
    ASSUME K8sType, AnnotationInv, Exclusive, NEW c \in CR, NEW v \in Version, Store(c, v),
           Succeeds(c, v)
    PROVE  AnnotationInv' /\ Exclusive'
  <1>1. obj'[c] = v /\ \A x \in CR : x # c => obj'[x] = obj[x]
    BY DEF Store, K8sType
  <1>2. AnnotationInv'
    BY <1>1 DEF AnnotationInv, Succeeds
  <1>3. Exclusive'
    BY <1>1 DEF Exclusive, Succeeds
  <1> QED
    BY <1>2, <1>3

\* A store by anyone but the worker.
Foreign(c, v) ==
    \/ ~HasFinalizer(obj[c]) /\ ~HasFinalizer(v) /\ v.iface \in {None, obj[c].iface}
    \/ obj[c].phase = "guarded" /\ v = [obj[c] EXCEPT !.phase = "deleting"]

LEMMA ForeignStore ==
    ASSUME TypeOK, DeleteInv, NormalInv, RecordInv,
           NEW c \in CR, NEW v \in Version, Store(c, v), Foreign(c, v), w' = w, nb' = nb
    PROVE  DeleteInv' /\ NormalInv' /\ RecordInv'
  <1>1. /\ K8sType /\ WorkerType
        /\ obj'[c] = v /\ \A x \in CR : x # c => obj'[x] = obj[x]
        /\ obj[c] \in Version /\ v \in Version
    BY TypeParts DEF Store, K8sType
  <1>2. \/ HasFinalizer(obj[c]) /\ obj[c].phase # "deleting"
        \/ ~HasFinalizer(obj[c]) /\ ~HasFinalizer(v) /\ v.iface \in {None, obj[c].iface}
    BY DEF Foreign, HasFinalizer
  <1>3. ASSUME ~At("idle"), w.snap.phase = "deleting", obj[w.cr] = w.snap
        PROVE  w.cr # c
    BY <1>2, <1>3 DEF HasFinalizer
  <1>4. ~At("idle") => w.cr \in CR
    BY <1>1 DEF WorkerType, At
  <1>5. DeleteInv'
    <2> SUFFICES ASSUME w.pc \in DeletePath PROVE DeleteInv'
      BY DEF DeleteInv
    <2>1. ~At("idle")
      BY DEF At, DeletePath
    <2>2. CASE w.snap.phase = "deleting" /\ obj[w.cr] = w.snap
      <3>1. obj'[w.cr] = obj[w.cr]
        BY <1>1, <1>3, <1>4, <2>1, <2>2
      <3>2. \A x \in CR : x # w.cr /\ AddrOf[x] = AddrOf[w.cr] =>
                             ~HasFinalizer(obj'[x]) /\ obj'[x].iface = None
        BY <1>1, <1>2 DEF DeleteInv
      <3> QED
        BY <2>2, <3>1, <3>2 DEF DeleteInv, HasFinalizer
    <2>3. CASE w.snap.phase = "released" /\ ~HasFinalizer(obj[w.cr])
      <3>1. \A x \in CR : ~HasFinalizer(obj[x]) =>
              ~HasFinalizer(obj'[x]) /\ obj'[x].iface \in {None, obj[x].iface}
        BY <1>1, <1>2
      <3> QED
        BY <1>4, <2>1, <2>3, <3>1 DEF DeleteInv, HasFinalizer
    <2> QED
      BY <2>2, <2>3 DEF DeleteInv
  <1>6. NormalInv'
    <2> SUFFICES ASSUME w.pc \in NormalPath PROVE NormalInv'
      BY DEF NormalInv
    <2>1. w.snap \in Version /\ w.cr \in CR
      BY <1>1, <1>4 DEF WorkerType, Workers, At, NormalPath
    <2>2. CASE w.cr # c
      BY <1>1, <2>1, <2>2 DEF NormalInv
    <2>3. CASE w.cr = c
      <3>1. HasFinalizer(obj[c])
        BY <2>1, <2>3 DEF NormalInv, HasFinalizer, Version
      <3>2. obj[c].phase = "guarded" /\ v = [obj[c] EXCEPT !.phase = "deleting"]
        BY <3>1 DEF Foreign
      <3>3. obj[c] = w.snap
        BY <2>1, <2>3, <3>2 DEF NormalInv, Version
      <3> QED
        BY <1>1, <2>3, <3>2, <3>3 DEF NormalInv
    <2> QED
      BY <2>2, <2>3
  <1>7. RecordInv'
    <2>1. At("removeFinalizer") /\ w.snap.phase = "deleting" => obj'[w.cr] = obj[w.cr]
      BY <1>1, <1>3, <1>4 DEF At, DeleteInv, DeletePath
    <2> QED
      BY <2>1 DEF RecordInv, At, Hits, Recorded
  <1> QED
    BY <1>5, <1>6, <1>7

(***************************************************************************)
(* Every step keeps the invariant.                                         *)
(***************************************************************************)
\* Nothing but the worker, if anything, changes.
Frame == UNCHANGED <<obj, cache, stream>>

LEMMA FrameInv ==
    ASSUME CacheCurrent, AnnotationInv, Exclusive, Frame
    PROVE  CacheCurrent' /\ AnnotationInv' /\ Exclusive'
  BY DEF Frame, CacheCurrent, Last, AnnotationInv, Exclusive

LEMMA InvStart ==
    ASSUME RefinementInv, FreshReads, NEW c \in CR, Start(c)
    PROVE  RefinementInv'
  <1>1. TypeOK' /\ obj[c] \in Version
    BY TypeStart DEF RefinementInv, TypeOK
  <1>2. CacheCurrent' /\ AnnotationInv' /\ Exclusive'
    BY FrameInv DEF RefinementInv, Frame, Start, k8s
  <1>3. cache[c] = obj[c]
    <2>1. DOMAIN stream = {}
      BY DEF Start
    <2> QED
      BY <2>1 DEF RefinementInv, CacheCurrent
  <1>4. CASE w' = IdleWorker
    BY <1>1, <1>2, <1>4, IdleInv DEF RefinementInv
  <1>5. CASE w' # IdleWorker
    <2> DEFINE p == IF BeingDeleted(obj[c]) THEN "reconcileDelete"
                    ELSE IF ~HasFinalizer(obj[c]) THEN "addFinalizer"
                    ELSE "findDeviceName"
    <2>1. obj[c].phase # "gone" /\ w' = [IdleWorker EXCEPT !.cr = c, !.snap = obj[c], !.pc = p]
      BY <1>3, <1>5 DEF Start
    <2>2. w'.cr = c /\ w'.snap = obj[c] /\ w'.pc = p /\ obj' = obj
      BY <2>1 DEF IdleWorker, Start, k8s
    <2>3. DeleteInv'
      BY <1>1, <2>1, <2>2 DEF DeleteInv, DeletePath, BeingDeleted, HasFinalizer,
         RefinementInv, Exclusive, AnnotationInv
    <2>4. NormalInv'
      BY <1>1, <2>1, <2>2 DEF NormalInv, NormalPath, BeingDeleted, HasFinalizer, Version, Phase
    <2>5. RecordInv'
      BY <2>2 DEF RecordInv, At
    <2> QED
      BY <1>1, <1>2, <2>3, <2>4, <2>5 DEF RefinementInv
  <1> QED
    BY <1>4, <1>5

LEMMA InvAddFinalizer ==
    ASSUME RefinementInv, AddFinalizer
    PROVE  RefinementInv'
  <1>1. TypeOK' /\ K8sType /\ w.cr \in CR /\ obj[w.cr] \in Version /\ cache' = cache
    BY TypeParts, TypeStep
       DEF RefinementInv, Step, AddFinalizer, At, K8sType, WorkerType
  <1>2. DeleteInv' /\ NormalInv' /\ RecordInv'
    BY IdleInv DEF AddFinalizer, Fail, Done
  <1>3. CASE UNCHANGED k8s
    BY <1>1, <1>2, <1>3, FrameInv DEF RefinementInv, Frame, k8s
  <1>4. CASE ~UNCHANGED k8s
    <2> DEFINE v == WithFinalizer(obj[w.cr])
    <2>1. Store(w.cr, v) /\ obj[w.cr].phase # "gone"
      BY <1>4 DEF AddFinalizer
    <2>2. v \in Version
      BY <1>1, VersionOps
    <2>3. Succeeds(w.cr, v)
      <3>1. /\ v.device = obj[w.cr].device /\ v.iface = obj[w.cr].iface
            /\ v.phase \in {"bare", "gone"} => v.phase = obj[w.cr].phase
        BY <1>1 DEF WithFinalizer, Version
      <3> QED
        BY <1>1, <2>1, <3>1 DEF Succeeds, RefinementInv, AnnotationInv
    <2> QED
      BY <1>1, <1>2, <2>1, <2>2, <2>3, CurrentStore, ObjectStore DEF RefinementInv
  <1> QED
    BY <1>3, <1>4

LEMMA InvReconcileDelete ==
    ASSUME RefinementInv, ReconcileDelete
    PROVE  RefinementInv'
  <1>1. TypeOK' /\ w.cr \in CR /\ obj[w.cr] \in Version
    BY TypeParts, TypeStep
       DEF RefinementInv, Step, ReconcileDelete, At, K8sType, WorkerType
  <1>2. CacheCurrent' /\ AnnotationInv' /\ Exclusive' /\ obj' = obj /\ nb' = nb
    BY FrameInv DEF RefinementInv, Frame, ReconcileDelete, k8s, netbox
  <1>3. CASE Fail
    BY <1>1, <1>2, <1>3, IdleInv DEF RefinementInv, Fail
  <1>4. CASE ~Fail
    <2>1. /\ w' \in [pc: {"removeFinalizer", "deleteIP"}, cr: {w.cr}, snap: {w.snap},
                     device: {w.device}, primary: {w.primary}, iface: {w.iface},
                     ip: Nat \cup {None}, why: {w.why}]
      BY <1>1, <1>4, TypeParts
         DEF ReconcileDelete, Goto, RefinementInv, WorkerType, Workers, NetBoxType, Hits
    <2>2. w.pc \in DeletePath
      BY DEF ReconcileDelete, At, DeletePath
    <2>3. DeleteInv' /\ NormalInv'
      BY <1>2, <2>1, <2>2 DEF RefinementInv, DeleteInv, NormalInv, NormalPath, HasFinalizer
    <2>4. w'.pc = "deleteIP" => Hits(AddrOf[w.cr]) = {w'.ip}
      BY <1>4, <2>1, TypeParts DEF ReconcileDelete, Goto, RefinementInv, WorkerType, Workers
    <2>5. w'.pc = "removeFinalizer" /\ w.snap.phase = "deleting" => ~Recorded(w.cr)
      <3> SUFFICES ASSUME w'.pc = "removeFinalizer", w.snap.phase = "deleting"
                   PROVE  ~Recorded(w.cr)
        OBVIOUS
      <3>1. obj[w.cr] = w.snap
        BY <2>2 DEF RefinementInv, DeleteInv
      <3>2. \A id \in Hits(AddrOf[w.cr]) : nb[id].iface \in Iface
        BY TypeParts DEF RefinementInv, NetBoxType, Record, Hits
      <3>3. w.snap.iface # None => w.snap.device # None
        BY <1>1, <3>1 DEF RefinementInv, AnnotationInv
      <3>4. \A id \in Hits(AddrOf[w.cr]) :
              \/ w.snap.device = None \/ w.snap.iface = None \/ nb[id].iface # w.snap.iface
        BY <1>4, TypeParts DEF ReconcileDelete, RefinementInv, WorkerType, Workers
      <3> QED
        BY <3>1, <3>2, <3>3, <3>4, NoneAssumption DEF Recorded
    <2>6. RecordInv'
      BY <1>2, <2>1, <2>4, <2>5 DEF RecordInv, At, Recorded, Hits
    <2> QED
      BY <1>1, <1>2, <2>3, <2>6 DEF RefinementInv
  <1> QED
    BY <1>3, <1>4

LEMMA InvDeleteIP ==
    ASSUME RefinementInv, DeleteIP
    PROVE  RefinementInv'
  <1>1. TypeOK' /\ w.cr \in CR /\ w \in Workers
    BY TypeParts, TypeStep DEF RefinementInv, Step, DeleteIP, At, WorkerType
  <1>2. CacheCurrent' /\ AnnotationInv' /\ Exclusive' /\ obj' = obj
    BY FrameInv DEF RefinementInv, Frame, DeleteIP, k8s
  <1>3. CASE Fail
    BY <1>1, <1>2, <1>3, IdleInv DEF RefinementInv, Fail
  <1>4. CASE ~Fail
    <2>1. w' = [w EXCEPT !.pc = "removeFinalizer"] /\ DropRecord(w.ip)
      BY <1>4 DEF DeleteIP, Goto
    <2>2. w'.pc = "removeFinalizer" /\ w'.cr = w.cr /\ w'.snap = w.snap
      BY <1>1, <2>1 DEF Workers
    <2>3. w.pc \in DeletePath
      BY DEF DeleteIP, At, DeletePath
    <2>4. DeleteInv' /\ NormalInv'
      BY <1>2, <2>2, <2>3 DEF RefinementInv, DeleteInv, NormalInv, NormalPath, DeletePath, HasFinalizer
    <2>5. Hits(AddrOf[w.cr]) = {w.ip}
      BY DEF RefinementInv, RecordInv, DeleteIP
    <2>6. Hits(AddrOf[w.cr])' = {}
      BY <2>1, <2>2, <2>5 DEF DropRecord, Hits
    <2>7. RecordInv'
      BY <2>2, <2>6 DEF RecordInv, At, Recorded
    <2> QED
      BY <1>1, <1>2, <2>4, <2>7 DEF RefinementInv
  <1> QED
    BY <1>3, <1>4

\* What the API server keeps when the finalizer goes.
LEMMA Unguarded ==
    ASSUME RefinementInv, RemoveFinalizer, ~UNCHANGED k8s
    PROVE  \E v \in Version :
             /\ Store(w.cr, v)
             /\ obj[w.cr].phase = "deleting" /\ obj[w.cr] = w.snap
             /\ v = Tombstone(obj[w.cr]) \/ v = [obj[w.cr] EXCEPT !.phase = "released"]
  <1>1. w.cr \in CR /\ obj[w.cr] \in Version
    BY DEF RefinementInv, TypeOK, RemoveFinalizer, At
  <1>2. PICK v \in WithoutFinalizer(obj[w.cr]) : Store(w.cr, v) /\ HasFinalizer(w.snap)
    BY DEF RemoveFinalizer
  <1>3. obj[w.cr].phase = "deleting" /\ obj[w.cr] = w.snap
    BY <1>2 DEF RefinementInv, DeleteInv, RemoveFinalizer, At, DeletePath, HasFinalizer
  <1>4. v \in Version
    BY <1>1, <1>2, VersionOps
  <1>5. v = Tombstone(obj[w.cr]) \/ v = [obj[w.cr] EXCEPT !.phase = "released"]
    BY <1>2, <1>3 DEF WithoutFinalizer
  <1> QED
    BY <1>2, <1>3, <1>4, <1>5

LEMMA InvRemoveFinalizer ==
    ASSUME RefinementInv, RemoveFinalizer
    PROVE  RefinementInv'
  <1>1. TypeOK' /\ K8sType /\ w.cr \in CR /\ obj[w.cr] \in Version /\ cache' = cache
    BY TypeParts, TypeStep
       DEF RefinementInv, Step, RemoveFinalizer, At, K8sType, WorkerType
  <1>2. DeleteInv' /\ NormalInv' /\ RecordInv'
    BY IdleInv DEF RemoveFinalizer, Fail, Done
  <1>3. CASE UNCHANGED k8s
    BY <1>1, <1>2, <1>3, FrameInv DEF RefinementInv, Frame, k8s
  <1>4. CASE ~UNCHANGED k8s
    <2>1. PICK v \in Version :
             /\ Store(w.cr, v)
             /\ obj[w.cr].phase = "deleting"
             /\ v = Tombstone(obj[w.cr]) \/ v = [obj[w.cr] EXCEPT !.phase = "released"]
      BY <1>4, Unguarded
    <2>2. Succeeds(w.cr, v)
      BY <1>1, <2>1 DEF Succeeds, Tombstone, NoVersion, RefinementInv, AnnotationInv, Version
    <2> QED
      BY <1>1, <1>2, <2>1, <2>2, CurrentStore, ObjectStore DEF RefinementInv
  <1> QED
    BY <1>3, <1>4

\* The steps that only read.
LEMMA InvReads ==
    ASSUME RefinementInv, FindDeviceName \/ GetDevice \/ GetInterfaces \/ LookupIP
    PROVE  RefinementInv'
  <1>1. TypeOK' /\ w \in Workers
    BY TypeParts, TypeStep DEF RefinementInv, Step, WorkerType
  <1>2. CacheCurrent' /\ AnnotationInv' /\ Exclusive' /\ obj' = obj /\ nb' = nb
    BY FrameInv DEF RefinementInv, Frame, FindDeviceName, GetDevice, GetInterfaces, LookupIP,
       k8s, netbox
  <1>3. CASE Fail
    BY <1>1, <1>2, <1>3, IdleInv DEF RefinementInv, Fail
  <1>4. CASE ~Fail
    <2>1. /\ w'.cr = w.cr /\ w'.snap = w.snap
          /\ w'.pc \in {"getDevice", "getInterfaces", "lookupIP", "createIP", "primaryIP", "setConflict"}
          /\ w.pc \in NormalPath
      BY <1>1, <1>4 DEF FindDeviceName, GetDevice, GetInterfaces, LookupIP, Goto, Workers, At, NormalPath
    <2>2. DeleteInv' /\ NormalInv'
      BY <1>2, <2>1 DEF RefinementInv, DeleteInv, NormalInv, DeletePath
    <2>3. w'.pc = "primaryIP" => w'.ip \in Hits(AddrOf[w.cr]) /\ nb[w'.ip].iface = w'.iface
      <3>1. w'.pc = "primaryIP" => LookupIP
        BY <1>1, <1>4 DEF FindDeviceName, GetDevice, GetInterfaces, Goto, Workers, At
      <3> QED
        BY <1>1, <1>4, <3>1 DEF LookupIP, Goto, Workers
    <2>4. RecordInv'
      BY <1>2, <2>1, <2>3 DEF RecordInv, At, Hits
    <2> QED
      BY <1>1, <1>2, <2>2, <2>4 DEF RefinementInv
  <1> QED
    BY <1>3, <1>4

LEMMA InvCreateIP ==
    ASSUME RefinementInv, CreateIP
    PROVE  RefinementInv'
  <1>1. TypeOK' /\ w \in Workers
    BY TypeParts, TypeStep DEF RefinementInv, Step, WorkerType
  <1>2. CacheCurrent' /\ AnnotationInv' /\ Exclusive' /\ obj' = obj
    BY FrameInv DEF RefinementInv, Frame, CreateIP, k8s
  <1>3. /\ w'.cr = w.cr /\ w'.snap = w.snap /\ w'.iface = w.iface /\ w'.ip = nextId
        /\ w'.pc = "primaryIP" /\ w.pc \in NormalPath
    BY <1>1 DEF CreateIP, Workers, At, NormalPath
  <1>4. DeleteInv' /\ NormalInv'
    BY <1>2, <1>3 DEF RefinementInv, DeleteInv, NormalInv, DeletePath, NormalPath
  <1>5. nextId \in Hits(AddrOf[w.cr])' /\ nb'[nextId].iface = w.iface
    BY <1>3 DEF CreateIP, NewRecord, Hits
  <1>6. RecordInv'
    BY <1>3, <1>5 DEF RecordInv, At
  <1> QED
    BY <1>1, <1>2, <1>4, <1>6 DEF RefinementInv

LEMMA InvPrimaryIP ==
    ASSUME RefinementInv, PrimaryIP
    PROVE  RefinementInv'
  <1>1. TypeOK' /\ w \in Workers
    BY TypeParts, TypeStep DEF RefinementInv, Step, WorkerType
  <1>2. CacheCurrent' /\ AnnotationInv' /\ Exclusive' /\ obj' = obj /\ nb' = nb
    BY FrameInv DEF RefinementInv, Frame, PrimaryIP, k8s, netbox
  <1>3. CASE Fail
    BY <1>1, <1>2, <1>3, IdleInv DEF RefinementInv, Fail
  <1>4. CASE ~Fail
    <2>1. /\ w'.cr = w.cr /\ w'.snap = w.snap /\ w'.iface = w.iface
          /\ w'.pc = "updateMetadata" /\ w.pc \in NormalPath
      BY <1>1, <1>4 DEF PrimaryIP, Goto, Workers, At, NormalPath
    <2>2. DeleteInv' /\ NormalInv'
      BY <1>2, <2>1 DEF RefinementInv, DeleteInv, NormalInv, DeletePath, NormalPath
    <2>3. RecordInv'
      BY <1>2, <2>1 DEF RefinementInv, RecordInv, PrimaryIP, At, Hits
    <2> QED
      BY <1>1, <1>2, <2>2, <2>3 DEF RefinementInv
  <1> QED
    BY <1>3, <1>4

\* What a patch of the annotations leaves on the API server: nobody else writes
\* them, so the ones of the snapshot are those of the server.
LEMMA Patched ==
    ASSUME RefinementInv, w.pc \in NormalPath, NEW edited \in Version,
           PatchAnnotations(edited)
    PROVE  \E v \in Version :
             /\ Store(w.cr, v) /\ w' = IdleWorker
             /\ v.gen = obj[w.cr].gen /\ v.phase = obj[w.cr].phase
             /\ v.device = edited.device /\ v.iface = edited.iface
             /\ obj[w.cr].phase \in {"guarded", "deleting"}
             /\ obj[w.cr].device = w.snap.device /\ obj[w.cr].iface = w.snap.iface
  <1>1. w.cr \in CR /\ w.snap \in Version /\ obj[w.cr] \in Version
    BY DEF RefinementInv, TypeOK, NormalPath
  <1>2. /\ obj[w.cr].phase \in {"guarded", "deleting"}
        /\ obj[w.cr].device = w.snap.device /\ obj[w.cr].iface = w.snap.iface
    BY <1>1 DEF RefinementInv, NormalInv, Version
  <1> DEFINE v == MergePatch(obj[w.cr], w.snap, edited)
  <1>3. v \in Version
    BY <1>1, VersionOps
  <1>4. v.gen = obj[w.cr].gen /\ v.phase = obj[w.cr].phase
    BY <1>1 DEF MergePatch, Version
  <1>5. v.device = edited.device /\ v.iface = edited.iface
    BY <1>1, <1>2 DEF MergePatch, Version
  <1>6. Store(w.cr, v) /\ w' = IdleWorker
    BY <1>2 DEF PatchAnnotations, Done
  <1> QED
    BY <1>2, <1>3, <1>4, <1>5, <1>6

\* The two patches Reconcile makes.
LEMMA Patches ==
    ASSUME RefinementInv, UpdateMetadata \/ SetConflict
    PROVE  \E v \in Version :
             /\ Store(w.cr, v) /\ w' = IdleWorker
             /\ v.gen = obj[w.cr].gen /\ v.phase = obj[w.cr].phase
             /\ obj[w.cr].phase \in {"guarded", "deleting"}
             /\ \/ At("updateMetadata") /\ v.device = w.device /\ v.iface = w.iface
                                        /\ w.device \in Device /\ w.iface \in Iface
                \/ At("setConflict") /\ v.device = obj[w.cr].device
                                     /\ v.iface = obj[w.cr].iface
  <1>1. w.snap \in Version /\ w.why \in Conflict /\ w.pc \in NormalPath
    BY DEF RefinementInv, TypeOK, UpdateMetadata, SetConflict, At, NormalPath
  <1>2. CASE UpdateMetadata
    <2>1. At("updateMetadata") /\ w.device \in Device /\ w.iface \in Iface
      BY <1>2 DEF RefinementInv, TypeOK, UpdateMetadata, At, HasDevice, HasIface
    <2> DEFINE edited == [w.snap EXCEPT !.device = w.device, !.iface = w.iface,
                                        !.conflicted = "none"]
    <2>2. edited \in Version /\ edited.device = w.device /\ edited.iface = w.iface
      BY <1>1, <2>1 DEF Version, Conflict
    <2>3. PatchAnnotations(edited)
      BY <1>2 DEF UpdateMetadata
    <2> HIDE DEF edited
    <2> QED
      BY <1>1, <2>1, <2>2, <2>3, Patched
  <1>3. CASE SetConflict
    <2> DEFINE edited == [w.snap EXCEPT !.conflicted = w.why]
    <2>1. edited \in Version /\ edited.device = w.snap.device /\ edited.iface = w.snap.iface
      BY <1>1 DEF Version
    <2>2. PatchAnnotations(edited)
      BY <1>3 DEF SetConflict
    <2>3. At("setConflict")
      BY <1>3 DEF SetConflict
    <2> HIDE DEF edited
    <2> QED
      BY <1>1, <2>1, <2>2, <2>3, Patched
  <1> QED
    BY <1>2, <1>3

LEMMA InvPatches ==
    ASSUME RefinementInv, UpdateMetadata \/ SetConflict
    PROVE  RefinementInv'
  <1>1. TypeOK' /\ K8sType /\ w.cr \in CR /\ obj[w.cr] \in Version /\ cache' = cache
    BY TypeParts, TypeStep
       DEF RefinementInv, Step, UpdateMetadata, SetConflict, At, K8sType, WorkerType
  <1>2. PICK v \in Version :
             /\ Store(w.cr, v) /\ w' = IdleWorker
             /\ v.phase = obj[w.cr].phase
             /\ obj[w.cr].phase \in {"guarded", "deleting"}
             /\ \/ v.device \in Device
                \/ v.device = obj[w.cr].device /\ v.iface = obj[w.cr].iface
    BY Patches
  <1>3. DeleteInv' /\ NormalInv' /\ RecordInv'
    BY <1>2, IdleInv
  <1>4. Succeeds(w.cr, v)
    BY <1>1, <1>2, NoneAssumption DEF Succeeds, RefinementInv, AnnotationInv
  <1> QED
    BY <1>1, <1>2, <1>3, <1>4, CurrentStore, ObjectStore DEF RefinementInv

LEMMA NewVersion ==
    ASSUME NEW n \in Nat
    PROVE  LET v == [NoVersion EXCEPT !.gen = n, !.phase = "bare"] IN
           v \in Version /\ v.phase = "bare" /\ v.iface = None
  BY DEF NoVersion, Version, Phase, Conflict

\* What the users, the allocator and the other controllers store.
LEMMA Foreigners ==
    ASSUME RefinementInv, NEW c \in CR,
           CreateCR(c) \/ DeleteCR(c) \/ OtherRelease(c)
    PROVE  \E v \in Version :
             /\ Store(c, v) /\ Foreign(c, v) /\ Succeeds(c, v)
             /\ \/ obj[c].phase = "gone" /\ v.phase = "bare" /\ v.iface = None
                \/ obj[c].phase = "guarded" /\ v.phase = "deleting" /\ v.iface = obj[c].iface
                \/ obj[c].phase = "bare" /\ v.phase \in {"gone", "released"} /\ v.iface = None
                \/ obj[c].phase = "released" /\ v.phase = "gone" /\ v.iface = None
  <1>1. obj[c] \in Version /\ obj[c].gen \in Nat
    BY DEF RefinementInv, TypeOK, Version
  <1> USE DEF Foreign, Succeeds, HasFinalizer
  <1>2. CASE CreateCR(c)
    <2> DEFINE v == [NoVersion EXCEPT !.gen = obj[c].gen + 1, !.phase = "bare"]
    <2>1. v \in Version /\ v.phase = "bare" /\ v.iface = None
      <3>1. obj[c].gen + 1 \in Nat
        BY <1>1
      <3> QED
        BY <3>1, NewVersion
    <2> HIDE DEF v
    <2>2. Store(c, v) /\ obj[c].phase = "gone"
      BY <1>2 DEF CreateCR, v
    <2>3. \A x \in CR : AddrOf[x] = AddrOf[c] => obj[x].phase = "gone"
      BY <1>2 DEF CreateCR
    <2> QED
      BY <2>1, <2>2, <2>3
  <1>3. CASE Store(c, Tombstone(obj[c])) /\ obj[c].phase \in {"bare", "released"}
    <2>1. /\ Tombstone(obj[c]) \in Version /\ Tombstone(obj[c]).phase = "gone"
          /\ Tombstone(obj[c]).iface = None
      BY <1>1, VersionOps DEF Tombstone, NoVersion
    <2> QED
      BY <1>3, <2>1
  <1>4. CASE Store(c, [obj[c] EXCEPT !.phase = "deleting"]) /\ obj[c].phase = "guarded"
    <2> DEFINE v == [obj[c] EXCEPT !.phase = "deleting"]
    <2>1. /\ v \in Version /\ v.phase = "deleting"
          /\ v.iface = obj[c].iface /\ v.device = obj[c].device
      BY <1>1 DEF Version, Phase
    <2>2. v.device = None => v.iface = None
      BY <2>1 DEF RefinementInv, AnnotationInv
    <2> QED
      BY <1>4, <2>1, <2>2
  <1>5. CASE Store(c, [obj[c] EXCEPT !.phase = "released"]) /\ obj[c].phase = "bare"
    <2> DEFINE v == [obj[c] EXCEPT !.phase = "released"]
    <2>1. v \in Version /\ v.phase = "released" /\ v.iface = None
      BY <1>1, <1>5 DEF Version, Phase, RefinementInv, AnnotationInv
    <2> QED
      BY <1>5, <2>1
  <1> QED
    BY <1>2, <1>3, <1>4, <1>5 DEF DeleteCR, OtherRelease

LEMMA InvObjects ==
    ASSUME RefinementInv, NEW c \in CR,
           CreateCR(c) \/ BindServer(c) \/ DeleteCR(c) \/ OtherRelease(c)
    PROVE  RefinementInv'
  <1>1. TypeOK' /\ K8sType
    BY TypeObjects, TypeParts DEF RefinementInv
  <1>2. w' = w /\ nb' = nb /\ cache' = cache
    BY DEF CreateCR, BindServer, DeleteCR, OtherRelease, netbox
  <1>3. CASE BindServer(c)
    <2>1. CacheCurrent' /\ AnnotationInv' /\ Exclusive' /\ obj' = obj
      BY <1>3, FrameInv DEF RefinementInv, Frame, BindServer, k8s
    <2>2. DeleteInv' /\ NormalInv' /\ RecordInv'
      BY <1>2, <2>1 DEF RefinementInv, DeleteInv, NormalInv, RecordInv, At, Hits, Recorded
    <2> QED
      BY <1>1, <2>1, <2>2 DEF RefinementInv
  <1>4. CASE CreateCR(c) \/ DeleteCR(c) \/ OtherRelease(c)
    <2>1. PICK v \in Version : Store(c, v) /\ Foreign(c, v) /\ Succeeds(c, v)
      BY <1>4, Foreigners
    <2> QED
      BY <1>1, <1>2, <2>1, CurrentStore, ObjectStore, ForeignStore DEF RefinementInv
  <1> QED
    BY <1>3, <1>4

LEMMA InvInformer ==
    ASSUME RefinementInv, Deliver \/ Resync
    PROVE  RefinementInv'
  <1>1. TypeOK' /\ K8sType
    BY TypeNext, TypeParts DEF RefinementInv, Next
  <1>2. obj' = obj /\ w' = w /\ nb' = nb
    BY DEF Deliver, Resync, k8s, netbox
  <1>3. CacheCurrent'
    BY <1>1, FrameInv, CurrentDeliver DEF RefinementInv, Frame, Resync, k8s
  <1>4. AnnotationInv' /\ Exclusive' /\ DeleteInv' /\ NormalInv' /\ RecordInv'
    BY <1>2 DEF RefinementInv, AnnotationInv, Exclusive, DeleteInv, NormalInv, RecordInv,
                At, Hits, Recorded
  <1> QED
    BY <1>1, <1>3, <1>4 DEF RefinementInv

LEMMA InvFaults ==
    ASSUME RefinementInv, CallFails \/ Crash
    PROVE  RefinementInv'
  <1>1. TypeOK' /\ obj' = obj /\ w' = IdleWorker
    BY TypeFaults DEF RefinementInv, CallFails, Crash, Fail, k8s
  <1>2. CacheCurrent'
    <2>1. CASE CallFails
      BY <2>1, FrameInv DEF RefinementInv, Frame, CallFails, k8s
    <2>2. CASE Crash
      <3>1. cache' = obj' /\ DOMAIN stream' = {}
        BY <2>2 DEF Crash
      <3> QED
        BY <3>1 DEF CacheCurrent
    <2> QED
      BY <2>1, <2>2
  <1>3. AnnotationInv' /\ Exclusive'
    BY <1>1 DEF RefinementInv, AnnotationInv, Exclusive
  <1> QED
    BY <1>1, <1>2, <1>3, IdleInv DEF RefinementInv

\* Without edits, nobody but the worker writes to NetBox.
LEMMA NoEdits ==
    ASSUME TypeOK, MaxEdits = 0, Environment
    PROVE  \E c \in CR : CreateCR(c) \/ BindServer(c) \/ DeleteCR(c) \/ OtherRelease(c)
  BY DEF TypeOK, Environment, EditCreate, EditDelete, EditAssign, EditMove, Edit

LEMMA RefinementNext ==
    ASSUME RefinementInv, FreshReads, MaxEdits = 0, [Next]_vars
    PROVE  RefinementInv'
  <1>1. CASE \E c \in CR : Start(c)
    BY <1>1, InvStart
  <1>2. CASE Step
    BY <1>2, InvAddFinalizer, InvReconcileDelete, InvDeleteIP, InvRemoveFinalizer,
       InvReads, InvCreateIP, InvPrimaryIP, InvPatches DEF Step
  <1>3. CASE Deliver \/ Resync
    BY <1>3, InvInformer
  <1>4. CASE CallFails \/ Crash
    BY <1>4, InvFaults
  <1>5. CASE Environment
    BY <1>5, NoEdits, InvObjects DEF RefinementInv
  <1>6. CASE UNCHANGED vars
    <2>1. CacheCurrent' /\ AnnotationInv' /\ Exclusive'
      BY <1>6, FrameInv DEF RefinementInv, Frame, vars
    <2>2. TypeOK'
      BY <1>6, TypeNext DEF RefinementInv
    <2>3. DeleteInv' /\ NormalInv' /\ RecordInv'
      BY <1>6 DEF vars, RefinementInv, DeleteInv, NormalInv, RecordInv, At, Hits, Recorded
    <2> QED
      BY <2>1, <2>2, <2>3 DEF RefinementInv
  <1> QED
    BY <1>1, <1>2, <1>3, <1>4, <1>5, <1>6 DEF Next

(***************************************************************************)
(* Every step is one of GuardedResource, or changes nothing it sees.       *)
(***************************************************************************)
Phases == [c \in CR |-> obj[c].phase]

LEMMA StageStore ==
    ASSUME K8sType, NEW c \in CR, NEW v \in Version, Store(c, v)
    PROVE  Phases' = [Phases EXCEPT ![c] = v.phase]
  BY DEF Phases, Store, K8sType

\* An object without annotations holds nothing.
LEMMA NoneUnheld ==
    ASSUME RefinementInv, NEW c \in CR
    PROVE  \A id \in Hits(AddrOf[c]) : nb[id].iface # None
  BY TypeParts, NoneAssumption DEF RefinementInv, NetBoxType, Record, Hits

\* A store leaves what the others hold as it is.
LEMMA HeldStore ==
    ASSUME K8sType, NEW c \in CR, NEW v \in Version, Store(c, v), nb' = nb
    PROVE  Held' = (Held \ {c}) \cup
                   (IF \E id \in Hits(AddrOf[c]) : nb[id].iface = v.iface THEN {c} ELSE {})
  <1>1. obj'[c] = v /\ \A x \in CR : x # c => obj'[x] = obj[x]
    BY DEF Store, K8sType
  <1>2. Hits(AddrOf[c])' = Hits(AddrOf[c]) /\ \A x \in CR : Hits(AddrOf[x])' = Hits(AddrOf[x])
    BY DEF Hits
  <1> QED
    BY <1>1, <1>2 DEF Held, Recorded

LEMMA SameView ==
    ASSUME obj' = obj, nb' = nb
    PROVE  UNCHANGED <<Phases, Held>>
  BY DEF Phases, Held, Recorded, Hits

\* The abstract step over the operators of this module.
LEMMA AbstractStep ==
    /\ UNCHANGED <<Phases, Held>> => UNCHANGED G!vars
    /\ \A c \in CR, from, to \in Phase :
         Phases[c] = from /\ Phases' = [Phases EXCEPT ![c] = to] /\ Held' = Held
           => G!Move(c, from, to)
    /\ \A c \in CR : Phases[c] = obj[c].phase
  BY DEF G!vars, G!Move, Phases

LEMMA SimFinalizer ==
    ASSUME RefinementInv, AddFinalizer \/ RemoveFinalizer
    PROVE  G!Next \/ UNCHANGED G!vars
  <1>1. K8sType /\ w.cr \in CR /\ obj[w.cr] \in Version /\ nb' = nb
    BY TypeParts DEF RefinementInv, AddFinalizer, RemoveFinalizer, At, K8sType, WorkerType, netbox
  <1>2. CASE UNCHANGED k8s
    BY <1>1, <1>2, SameView, AbstractStep DEF k8s
  <1>3. CASE AddFinalizer /\ ~UNCHANGED k8s
    <2> DEFINE v == WithFinalizer(obj[w.cr])
    <2>1. Store(w.cr, v) /\ v \in Version
      BY <1>1, <1>3, VersionOps DEF AddFinalizer
    <2>2. obj[w.cr].phase = "bare"
      BY <1>1, <1>3, <2>1 DEF WithFinalizer, Store, K8sType, k8s
    <2>3. v.phase = "guarded" /\ v.iface = None /\ obj[w.cr].iface = None
      BY <1>1, <2>2 DEF WithFinalizer, Version, RefinementInv, AnnotationInv
    <2>4. w.cr \notin Held
      BY <1>1, <2>3, NoneUnheld DEF Held, Recorded
    <2>5. Held' = Held
      BY <1>1, <2>1, <2>3, <2>4, NoneUnheld, HeldStore
    <2>6. G!Move(w.cr, "bare", "guarded")
      BY <1>1, <2>1, <2>2, <2>3, <2>5, StageStore, AbstractStep DEF Phase
    <2> QED
      BY <1>1, <2>6 DEF G!Next, G!Guard
  <1>4. CASE RemoveFinalizer /\ ~UNCHANGED k8s
    <2>1. PICK v \in Version :
             /\ Store(w.cr, v)
             /\ obj[w.cr].phase = "deleting" /\ obj[w.cr] = w.snap
             /\ v = Tombstone(obj[w.cr]) \/ v = [obj[w.cr] EXCEPT !.phase = "released"]
      BY <1>4, Unguarded
    <2>2. v.phase \in {"gone", "released"} /\ v.iface \in {None, obj[w.cr].iface}
      BY <1>1, <2>1 DEF Tombstone, NoVersion, Version
    <2>3. w.cr \notin Held
      BY <1>4, <2>1 DEF RefinementInv, RecordInv, RemoveFinalizer, Held
    <2>4. Held' = Held
      BY <1>1, <2>1, <2>2, <2>3, NoneUnheld, HeldStore DEF Held, Recorded
    <2>5. G!Move(w.cr, "deleting", v.phase)
      BY <1>1, <2>1, <2>2, <2>4, StageStore, AbstractStep DEF Phase
    <2> QED
      BY <1>1, <2>2, <2>3, <2>5 DEF G!Next, G!Finish
  <1> QED
    BY <1>2, <1>3, <1>4

LEMMA SimDeleteIP ==
    ASSUME RefinementInv, ReleasedInv, DeleteIP
    PROVE  G!Next \/ UNCHANGED G!vars
  <1>1. w.cr \in CR /\ obj' = obj /\ w.pc \in DeletePath
    BY DEF RefinementInv, TypeOK, DeleteIP, At, DeletePath, k8s
  <1>2. CASE UNCHANGED netbox
    BY <1>1, <1>2, SameView, AbstractStep DEF netbox
  <1>3. CASE ~UNCHANGED netbox
    <2>1. DropRecord(w.ip)
      BY <1>3 DEF DeleteIP
    <2>2. Hits(AddrOf[w.cr]) = {w.ip}
      BY DEF RefinementInv, RecordInv, DeleteIP
    <2>3. \A c \in CR : Hits(AddrOf[c])' =
            IF AddrOf[c] = AddrOf[w.cr] THEN {} ELSE Hits(AddrOf[c])
      BY <2>1, <2>2 DEF Hits, DropRecord
    <2>4. \A c \in CR : \A id \in Hits(AddrOf[c])' : nb'[id] = nb[id]
      BY <2>1 DEF Hits, DropRecord
    <2>5. \A c \in CR : c # w.cr /\ AddrOf[c] = AddrOf[w.cr] => c \notin Held
      BY <1>1, NoneUnheld DEF RefinementInv, DeleteInv, Held, Recorded
    <2>6. Held' = Held \ {w.cr}
      <3>1. ASSUME NEW c \in CR, AddrOf[c] # AddrOf[w.cr] PROVE c \in Held' <=> c \in Held
        BY <1>1, <2>3, <2>4, <3>1 DEF Held, Recorded
      <3>2. ASSUME NEW c \in CR, AddrOf[c] = AddrOf[w.cr] PROVE c \notin Held'
        BY <2>3, <3>2 DEF Held, Recorded
      <3> QED
        BY <2>5, <3>1, <3>2 DEF Held
    <2>7. Phases' = Phases
      BY <1>1 DEF Phases
    <2>8. CASE w.cr \in Held
      <3>1. Phases[w.cr] = "deleting"
        <4>1. obj[w.cr].phase \in Phase /\ Recorded(w.cr)
          BY <1>1, <2>8 DEF Held, RefinementInv, TypeOK, Version
        <4>2. obj[w.cr].phase \notin {"bare", "gone", "released"}
          BY <1>1, <4>1, NoneUnheld DEF RefinementInv, AnnotationInv, ReleasedInv, Recorded
        <4> QED
          BY <1>1, <4>1, <4>2 DEF Phase, Phases, HasFinalizer, RefinementInv, DeleteInv
      <3>2. G!Release(w.cr)
        BY <2>6, <2>7, <3>1 DEF G!Release, Phases
      <3> QED
        BY <1>1, <3>2 DEF G!Next
    <2>9. CASE w.cr \notin Held
      BY <2>6, <2>7, <2>9, AbstractStep
    <2> QED
      BY <2>8, <2>9
  <1> QED
    BY <1>2, <1>3

\* Gaining the record is the step Acquire, or nothing new.
LEMMA SimAcquire ==
    ASSUME NEW c \in CR, obj[c].phase \in {"guarded", "deleting"}, Phases' = Phases,
           Held' \in {Held, Held \cup {c}}
    PROVE  G!Next \/ UNCHANGED G!vars
  <1>1. CASE Held' = Held
    BY <1>1, AbstractStep
  <1>2. CASE Held' = Held \cup {c}
    <2>1. G!Acquire(c)
      BY <1>2 DEF G!Acquire, Phases
    <2> QED
      BY <2>1 DEF G!Next
  <1> QED
    BY <1>1, <1>2

LEMMA SimCreateIP ==
    ASSUME RefinementInv, CreateIP
    PROVE  G!Next \/ UNCHANGED G!vars
  <1>1. /\ w.cr \in CR /\ obj' = obj /\ w.snap \in Version /\ w.pc \in NormalPath
        /\ nextId \notin DOMAIN nb
    BY DEF RefinementInv, TypeOK, CreateIP, At, NormalPath, k8s
  <1>2. obj[w.cr].phase \in {"guarded", "deleting"}
    BY <1>1 DEF RefinementInv, NormalInv, Version
  <1>3. \A c \in CR : Hits(AddrOf[c])' =
          Hits(AddrOf[c]) \cup (IF AddrOf[c] = AddrOf[w.cr] THEN {nextId} ELSE {})
    BY <1>1 DEF CreateIP, NewRecord, Hits
  <1>4. \A c \in CR : \A id \in Hits(AddrOf[c]) : nb'[id] = nb[id]
    BY <1>1 DEF CreateIP, NewRecord, Hits
  <1>5. \A c \in CR : c # w.cr /\ AddrOf[c] = AddrOf[w.cr] => c \notin Held /\ c \notin Held'
    <2> SUFFICES ASSUME NEW c \in CR, c # w.cr, AddrOf[c] = AddrOf[w.cr]
                 PROVE  c \notin Held /\ c \notin Held'
      OBVIOUS
    <2>1. obj[c].phase = "gone" /\ obj[c].iface = None
      BY <1>1, <1>2 DEF RefinementInv, Exclusive, AnnotationInv
    <2>2. \A id \in Hits(AddrOf[c])' : nb'[id].iface # None
      <3>1. w.iface # None
        BY NoneAssumption DEF RefinementInv, TypeOK, CreateIP, At, HasIface
      <3>2. nextId \in DOMAIN nb' /\ nb'[nextId].iface = w.iface
        BY DEF CreateIP, NewRecord
      <3>3. Hits(AddrOf[c])' = Hits(AddrOf[c]) \cup {nextId}
        BY <1>3
      <3> QED
        BY <1>4, <3>1, <3>2, <3>3, NoneUnheld
    <2> QED
      BY <1>1, <2>1, <2>2, NoneUnheld DEF Held, Recorded
  <1>6. \A c \in CR : AddrOf[c] # AddrOf[w.cr] => (c \in Held' <=> c \in Held)
    BY <1>1, <1>3, <1>4 DEF Held, Recorded
  <1>7. w.cr \in Held => w.cr \in Held'
    BY <1>1, <1>3, <1>4 DEF Held, Recorded
  <1>8. Held' \in {Held, Held \cup {w.cr}}
    BY <1>1, <1>5, <1>6, <1>7 DEF Held
  <1>9. Phases' = Phases
    BY <1>1 DEF Phases
  <1> QED
    BY <1>1, <1>2, <1>8, <1>9, SimAcquire

LEMMA SimPatches ==
    ASSUME RefinementInv, UpdateMetadata \/ SetConflict
    PROVE  G!Next \/ UNCHANGED G!vars
  <1>1. K8sType /\ w.cr \in CR /\ obj[w.cr] \in Version /\ nb' = nb
    BY TypeParts DEF RefinementInv, UpdateMetadata, SetConflict, At, K8sType, WorkerType, netbox
  <1>2. PICK v \in Version :
             /\ Store(w.cr, v)
             /\ v.phase = obj[w.cr].phase
             /\ obj[w.cr].phase \in {"guarded", "deleting"}
             /\ \/ At("updateMetadata") /\ v.iface = w.iface
                \/ v.iface = obj[w.cr].iface
    BY Patches
  <1>3. Phases' = Phases
    BY <1>1, <1>2, StageStore DEF Phases
  <1>4. Held' \in {Held, Held \cup {w.cr}}
    <2>1. CASE At("updateMetadata") /\ v.iface = w.iface
      <3>1. \E id \in Hits(AddrOf[w.cr]) : nb[id].iface = v.iface
        BY <1>2, <2>1 DEF RefinementInv, RecordInv
      <3> QED
        BY <1>1, <1>2, <3>1, HeldStore
    <2>2. CASE v.iface = obj[w.cr].iface
      <3>1. w.cr \in Held <=> \E id \in Hits(AddrOf[w.cr]) : nb[id].iface = v.iface
        BY <1>1, <1>2, <2>2 DEF Held, Recorded
      <3> QED
        BY <1>1, <1>2, <3>1, HeldStore
    <2> QED
      BY <1>2, <2>1, <2>2
  <1> QED
    BY <1>1, <1>2, <1>3, <1>4, SimAcquire

LEMMA SimObjects ==
    ASSUME RefinementInv, ReleasedInv, NEW c \in CR,
           CreateCR(c) \/ DeleteCR(c) \/ OtherRelease(c)
    PROVE  G!Next \/ UNCHANGED G!vars
  <1>1. K8sType /\ nb' = nb
    BY TypeParts DEF RefinementInv, CreateCR, DeleteCR, OtherRelease, netbox
  <1>2. PICK v \in Version :
             /\ Store(c, v)
             /\ \/ obj[c].phase = "gone" /\ v.phase = "bare" /\ v.iface = None
                \/ obj[c].phase = "guarded" /\ v.phase = "deleting" /\ v.iface = obj[c].iface
                \/ obj[c].phase = "bare" /\ v.phase \in {"gone", "released"} /\ v.iface = None
                \/ obj[c].phase = "released" /\ v.phase = "gone" /\ v.iface = None
    BY Foreigners
  <1>3. Held' = Held
    <2>1. c \in Held <=> \E id \in Hits(AddrOf[c]) : nb[id].iface = v.iface
      BY <1>2, NoneUnheld DEF Held, Recorded, RefinementInv, AnnotationInv, ReleasedInv
    <2> QED
      BY <1>1, <1>2, <2>1, HeldStore
  <1>4. G!Move(c, obj[c].phase, v.phase)
    BY <1>1, <1>2, <1>3, StageStore, AbstractStep DEF Phase
  <1> QED
    BY <1>2, <1>4 DEF G!Next, G!Create, G!RequestDelete, G!Leave

LEMMA Simulation ==
    ASSUME RefinementInv, ReleasedInv, MaxEdits = 0, [Next]_vars
    PROVE  G!Next \/ UNCHANGED G!vars
  <1>1. CASE \/ \E c \in CR : Start(c) \/ BindServer(c)
             \/ ReconcileDelete \/ FindDeviceName \/ GetDevice \/ GetInterfaces
             \/ LookupIP \/ PrimaryIP
             \/ Deliver \/ Resync \/ CallFails \/ Crash \/ UNCHANGED vars
    <2>1. obj' = obj /\ nb' = nb
      BY <1>1 DEF Start, BindServer, ReconcileDelete, FindDeviceName, GetDevice, GetInterfaces,
         LookupIP, PrimaryIP, Deliver, Resync, CallFails, Crash, vars, k8s, netbox
    <2> QED
      BY <2>1, SameView, AbstractStep
  <1>2. CASE Environment /\ ~\E c \in CR : BindServer(c)
    BY <1>2, NoEdits, SimObjects DEF RefinementInv
  <1> QED
    BY <1>1, <1>2, SimFinalizer, SimDeleteIP, SimCreateIP, SimPatches DEF Next, Step

LEMMA SimInit == Init => G!Init
  BY DEF Init, G!Init, NoVersion, Held, Recorded, Hits

\* What a guarded resource promises, step by step.
LEMMA HeldStep ==
    ASSUME G!TypeOK, G!HeldMeansGuarded, [G!Next]_(G!vars)
    PROVE  G!TypeOK' /\ G!HeldMeansGuarded'
  <1>1. /\ G!TypeOK <=> Phases \in [CR -> G!Stage] /\ Held \subseteq CR
        /\ G!TypeOK' <=> Phases' \in [CR -> G!Stage] /\ Held' \subseteq CR
        /\ G!HeldMeansGuarded <=> \A o \in Held : Phases[o] \in {"guarded", "deleting"}
        /\ G!HeldMeansGuarded' <=> \A o \in Held' : Phases'[o] \in {"guarded", "deleting"}
    BY DEF G!TypeOK, G!HeldMeansGuarded, Phases
  <1>2. CASE UNCHANGED G!vars
    BY <1>1, <1>2 DEF G!vars, Phases
  <1>3. ASSUME NEW o \in CR, NEW from \in G!Stage, NEW to \in G!Stage, G!Move(o, from, to),
               o \notin Held \/ to = "deleting"
        PROVE  G!TypeOK' /\ G!HeldMeansGuarded'
    <2>1. Phases' = [Phases EXCEPT ![o] = to] /\ Held' = Held
      BY <1>3 DEF G!Move, Phases
    <2> QED
      BY <1>1, <1>3, <2>1
  <1>4. ASSUME NEW o \in CR, G!Acquire(o) \/ G!Release(o)
        PROVE  G!TypeOK' /\ G!HeldMeansGuarded'
    <2>1. /\ Phases' = Phases
          /\ \/ Phases[o] \in {"guarded", "deleting"} /\ Held' = Held \cup {o}
             \/ Held' = Held \ {o}
      BY <1>4 DEF G!Acquire, G!Release, Phases
    <2> QED
      BY <1>1, <1>4, <2>1
  <1>5. \A o \in CR : Phases[o] \in {"gone", "bare", "released"} => o \notin Held
    BY <1>1
  <1>6. \A o \in CR, from, to \in G!Stage : G!Move(o, from, to) => Phases[o] = from
    BY DEF G!Move, Phases
  <1>7. G!Stage = {"gone", "bare", "guarded", "deleting", "released"}
    BY DEF G!Stage
  <1>8. CASE \E o \in CR : \/ G!Create(o) \/ G!RequestDelete(o) \/ G!Leave(o)
                          \/ G!Guard(o) \/ G!Finish(o)
    BY <1>3, <1>5, <1>6, <1>7, <1>8
       DEF G!Create, G!RequestDelete, G!Leave, G!Guard, G!Finish
  <1> QED
    BY <1>2, <1>4, <1>8 DEF G!Next

\* It follows from the abstract step.
LEMMA ReleasedNext ==
    ASSUME RefinementInv, ReleasedInv, MaxEdits = 0, [Next]_vars
    PROVE  ReleasedInv'
  <1>1. G!TypeOK
    BY DEF RefinementInv, TypeOK, Version, Phase, G!TypeOK, G!Stage, Held
  <1>2. G!HeldMeansGuarded
    <2> SUFFICES ASSUME NEW c \in CR, Recorded(c)
                 PROVE  obj[c].phase \in {"guarded", "deleting"}
      BY DEF G!HeldMeansGuarded, Held
    <2>1. obj[c].phase \notin {"bare", "gone", "released"}
      BY NoneUnheld DEF RefinementInv, AnnotationInv, ReleasedInv, Recorded
    <2> QED
      BY <2>1 DEF RefinementInv, TypeOK, Version, Phase
  <1>3. G!HeldMeansGuarded'
    BY <1>1, <1>2, Simulation, HeldStep
  <1> QED
    BY <1>3 DEF G!HeldMeansGuarded, Held, ReleasedInv

\* Whoever creates and deletes the objects, a guarded resource is only held under
\* guard: the promise of GuardedResource, which FinalizerGuards carries over.
THEOREM HeldIsGuarded == G!Spec => []G!HeldMeansGuarded
  <1>1. G!Init => G!TypeOK /\ G!HeldMeansGuarded
    BY DEF G!Init, G!TypeOK, G!Stage, G!HeldMeansGuarded
  <1> QED
    BY <1>1, HeldStep, PTL DEF G!Spec

\* The finalizer of an IPAddress does what finalizers are for
\* (ipupdate_controller.go:100-182), for any objects, addresses, devices and
\* interfaces, any number of failed calls and crashes, and whether or not
\* another controller guards the objects too: an object whose record is the one
\* it is annotated with has the finalizer, keeps it while it has the record,
\* loses the record only when it is to be deleted, and only then goes without
\* it.  A record that was created and not annotated, because a call failed or
\* the manager crashed in between, is not held: the object may go without it.
THEOREM FinalizerGuards ==
    ASSUME FreshReads, MaxEdits = 0
    PROVE  Spec => ImplementsGuardedResource
  <1>1. Init => RefinementInv
    BY RefinementInit
  <1>2. RefinementInv /\ [Next]_vars => RefinementInv'
    BY RefinementNext
  <1>3. Init => ReleasedInv
    BY DEF Init, ReleasedInv, NoVersion
  <1>4. RefinementInv /\ ReleasedInv /\ [Next]_vars => ReleasedInv' /\ [G!Next]_(G!vars)
    BY Simulation, ReleasedNext
  <1> QED
    BY <1>1, <1>2, <1>3, <1>4, SimInit, PTL DEF Spec, ImplementsGuardedResource, G!Spec

\* Who is no longer to be deleted has finished: it held nothing.
LEMMA FinishStep ==
    ASSUME [G!Next]_(G!vars), NEW c \in CR,
           obj[c].phase = "deleting", obj'[c].phase # "deleting"
    PROVE  ~Recorded(c)
  <1>1. Phases[c] = "deleting" /\ Phases'[c] # "deleting"
    BY DEF Phases
  <1>2. ~UNCHANGED G!vars
    BY <1>1 DEF G!vars, Phases
  <1>3. ASSUME NEW o \in CR, NEW from, NEW to, G!Move(o, from, to)
        PROVE  o = c /\ from = "deleting"
    <2>1. Phases[o] = from /\ Phases' = [Phases EXCEPT ![o] = to]
      BY <1>3 DEF G!Move, Phases
    <2>2. o = c
      BY <1>1, <2>1 DEF Phases
    <2> QED
      BY <1>1, <2>1, <2>2
  <1>4. ASSUME NEW o \in CR PROVE ~G!Acquire(o) /\ ~G!Release(o)
    <2>1. G!Acquire(o) \/ G!Release(o) => Phases' = Phases
      BY DEF G!Acquire, G!Release, Phases
    <2> QED
      BY <1>1, <2>1
  <1>5. PICK o \in CR : \/ G!Create(o) \/ G!RequestDelete(o) \/ G!Leave(o)
                        \/ G!Guard(o) \/ G!Finish(o)
    BY <1>2, <1>4 DEF G!Next
  <1>6. G!Finish(o) /\ o = c
    BY <1>3, <1>5 DEF G!Create, G!RequestDelete, G!Leave, G!Guard, G!Finish
  <1> QED
    BY <1>6 DEF G!Finish, Held

\* "deletes IP when assigned to expected interface" (ipupdate_controller_test.go:846)
\* is so if no call starts on a cache that lags: that the finalizer can go before
\* a record the object is annotated with is the doing of the stale snapshot
\* alone, not of failed calls, crashes, recreated objects or other finalizers.
THEOREM DeletesWhenFresh ==
    ASSUME FreshReads, MaxEdits = 0
    PROVE  Spec => DeletesWhenAssigned
  <1>1. [G!Next]_(G!vars) =>
          [\A c \in CR :
             obj[c].phase = "deleting" /\ obj'[c].phase # "deleting" =>
               ~\E id \in Hits(AddrOf[c]) : nb[id].iface = obj[c].iface]_vars
    BY FinishStep DEF Recorded
  <1> QED
    BY <1>1, FinalizerGuards, PTL DEF ImplementsGuardedResource, G!Spec, DeletesWhenAssigned

(***************************************************************************)
(* Without failed calls no record outlives its object.                     *)
(***************************************************************************)
\* Every record the controller made belongs to an object with the finalizer
\* whose annotations name it, or are about to.
Owns(c, id) ==
    /\ AddrOf[c] = nb[id].addr
    /\ HasFinalizer(obj[c])
    /\ \/ obj[c].iface = nb[id].iface
       \/ /\ w.cr = c
          /\ w.pc \in {"primaryIP", "updateMetadata"}
          /\ w.iface = nb[id].iface

LeakInv == faults = 0 => \A id \in DOMAIN nb \cap mine : \E c \in CR : Owns(c, id)

\* A step that makes no record, takes no finalizer and writes no interface.
LEMMA LeakFrame ==
    ASSUME LeakInv, faults' = faults,
           \A id \in DOMAIN nb' \cap mine' : id \in DOMAIN nb \cap mine /\ nb'[id] = nb[id],
           w.pc \notin {"primaryIP", "updateMetadata"} \/ w' = w,
           \A c \in CR : HasFinalizer(obj[c]) =>
                           HasFinalizer(obj'[c]) /\ obj'[c].iface = obj[c].iface
    PROVE  LeakInv'
  <1>1. ASSUME NEW id \in DOMAIN nb \cap mine, NEW c \in CR, Owns(c, id), nb'[id] = nb[id]
        PROVE  Owns(c, id)'
    BY <1>1 DEF Owns
  <1> QED
    BY <1>1 DEF LeakInv

LEMMA LeakStep ==
    ASSUME RefinementInv, RecordsInv, MaxEdits = 0, LeakInv, Step
    PROVE  LeakInv'
  <1>1. /\ K8sType /\ w \in Workers /\ w.cr \in CR /\ obj[w.cr] \in Version /\ faults' = faults
        /\ \A i, j \in DOMAIN nb : nb[i].addr = nb[j].addr => i = j
    <2>1. /\ K8sType /\ w \in Workers
          /\ \A i, j \in DOMAIN nb : nb[i].addr = nb[j].addr => i = j
      BY TypeParts DEF RefinementInv, RecordsInv, EnvType, WorkerType
    <2>2. ~At("idle") /\ faults' = faults
      BY DEF Step, At, AddFinalizer, ReconcileDelete, DeleteIP, RemoveFinalizer, FindDeviceName,
         GetDevice, GetInterfaces, LookupIP, CreateIP, PrimaryIP, UpdateMetadata, SetConflict
    <2> QED
      BY <2>1, <2>2, TypeParts DEF RefinementInv, WorkerType, K8sType, At
  <1>2. CASE AddFinalizer
    <2>1. CASE UNCHANGED k8s
      BY <1>1, <1>2, <2>1, LeakFrame DEF AddFinalizer, At, k8s, netbox
    <2>2. CASE Store(w.cr, WithFinalizer(obj[w.cr]))
      <3>1. LET v == WithFinalizer(obj[w.cr]) IN
              HasFinalizer(obj[w.cr]) => HasFinalizer(v) /\ v.iface = obj[w.cr].iface
        BY <1>1 DEF WithFinalizer, HasFinalizer
      <3>2. \A c \in CR : HasFinalizer(obj[c]) =>
                           HasFinalizer(obj'[c]) /\ obj'[c].iface = obj[c].iface
        BY <1>1, <2>2, <3>1 DEF Store, K8sType
      <3> QED
        BY <1>1, <1>2, <3>2, LeakFrame DEF AddFinalizer, At, netbox
    <2> QED
      BY <1>2, <2>1, <2>2 DEF AddFinalizer
  <1>3. CASE ReconcileDelete \/ FindDeviceName \/ GetDevice \/ GetInterfaces \/ LookupIP
    BY <1>1, <1>3, LeakFrame DEF ReconcileDelete, FindDeviceName, GetDevice, GetInterfaces,
       LookupIP, At, k8s, netbox
  <1>4. CASE DeleteIP
    BY <1>1, <1>4, LeakFrame DEF DeleteIP, DropRecord, At, k8s, netbox
  <1>5. CASE RemoveFinalizer
    <2>1. CASE UNCHANGED k8s
      BY <1>1, <1>5, <2>1, LeakFrame DEF RemoveFinalizer, At, k8s, netbox
    <2>2. CASE ~UNCHANGED k8s
      <3>1. PICK v \in Version : /\ Store(w.cr, v)
                                 /\ obj[w.cr].phase = "deleting" /\ obj[w.cr] = w.snap
        BY <1>5, <2>2, Unguarded
      <3>2. ~Recorded(w.cr) /\ w.pc = "removeFinalizer" /\ nb' = nb /\ mine' = mine
        BY <1>5, <3>1 DEF RefinementInv, RecordInv, RemoveFinalizer, At, netbox
      <3>3. ASSUME NEW id \in DOMAIN nb \cap mine, NEW c \in CR, Owns(c, id)
            PROVE  Owns(c, id)'
        <4>1. c # w.cr
          BY <3>2, <3>3 DEF Owns, Recorded, Hits
        <4>2. obj'[c] = obj[c]
          BY <3>1, <4>1 DEF Store, K8sType
        <4> QED
          BY <3>2, <3>3, <4>2 DEF Owns
      <3> QED
        BY <1>1, <3>2, <3>3 DEF LeakInv
    <2> QED
      BY <2>1, <2>2
  <1>6. CASE CreateIP
    <2>0. PICK n \in Nat : n = nextId
      BY DEF RefinementInv, TypeOK
    <2>1. /\ w'.cr = w.cr /\ w'.iface = w.iface /\ w'.pc = "primaryIP" /\ obj' = obj
          /\ w.pc = "createIP" /\ mine' = mine \cup {n}
          /\ DOMAIN nb' = DOMAIN nb \cup {n} /\ n \notin DOMAIN nb
          /\ nb'[n] = [addr |-> AddrOf[w.cr], iface |-> w.iface]
          /\ \A id \in DOMAIN nb : nb'[id] = nb[id]
      BY <1>1, <1>6, <2>0 DEF CreateIP, NewRecord, Workers, At, k8s, RefinementInv, TypeOK
    <2>2. HasFinalizer(obj[w.cr])
      BY <1>1, <2>1 DEF RefinementInv, NormalInv, NormalPath, HasFinalizer, Version, Workers
    <2>3. Owns(w.cr, n)'
      BY <2>1, <2>2 DEF Owns
    <2>4. ASSUME NEW id \in DOMAIN nb, NEW c \in CR, Owns(c, id)
          PROVE  Owns(c, id)'
      BY <2>1, <2>4 DEF Owns
    <2> QED
      BY <1>1, <2>1, <2>3, <2>4 DEF LeakInv
  <1>7. CASE PrimaryIP
    <2>1. w.ip \in DOMAIN nb
      BY <1>7 DEF PrimaryIP, RefinementInv, RecordInv, Hits
    <2>2. /\ w'.cr = w.cr /\ w'.iface = w.iface /\ w'.pc = "updateMetadata"
          /\ obj' = obj /\ nb' = nb /\ mine' = mine
      BY <1>1, <1>7, <2>1 DEF PrimaryIP, Goto, Workers, k8s, netbox
    <2>3. ASSUME NEW id \in DOMAIN nb, NEW c \in CR, Owns(c, id)
          PROVE  Owns(c, id)'
      BY <2>2, <2>3 DEF Owns
    <2> QED
      BY <1>1, <2>2, <2>3 DEF LeakInv
  <1>8. CASE UpdateMetadata \/ SetConflict
    <2>1. PICK v \in Version :
             /\ Store(w.cr, v)
             /\ v.phase = obj[w.cr].phase
             /\ obj[w.cr].phase \in {"guarded", "deleting"}
             /\ \/ At("updateMetadata") /\ v.iface = w.iface
                \/ At("setConflict") /\ v.iface = obj[w.cr].iface
      BY <1>8, Patches
    <2>2. /\ nb' = nb /\ mine' = mine
          /\ obj'[w.cr] = v /\ \A c \in CR : c # w.cr => obj'[c] = obj[c]
      BY <1>1, <1>8, <2>1 DEF UpdateMetadata, SetConflict, netbox, Store, K8sType
    <2>3. ASSUME NEW id \in DOMAIN nb, Owns(w.cr, id) PROVE v.iface = nb[id].iface
      <3>1. CASE At("updateMetadata") /\ v.iface = w.iface
        <4>1. PICK x \in Hits(AddrOf[w.cr]) : nb[x].iface = w.iface
          BY <3>1 DEF RefinementInv, RecordInv
        <4>2. x = id
          BY <1>1, <2>3, <4>1 DEF Owns, Hits
        <4> QED
          BY <3>1, <4>1, <4>2
      <3>2. CASE At("setConflict") /\ v.iface = obj[w.cr].iface
        BY <2>3, <3>2 DEF Owns, At
      <3> QED
        BY <2>1, <3>1, <3>2
    <2>4. ASSUME NEW id \in DOMAIN nb, NEW c \in CR, Owns(c, id)
          PROVE  Owns(c, id)'
      <3>1. CASE c = w.cr
        BY <2>1, <2>2, <2>3, <2>4, <3>1 DEF Owns, HasFinalizer
      <3>2. CASE c # w.cr
        BY <2>2, <2>4, <3>2 DEF Owns
      <3> QED
        BY <3>1, <3>2
    <2> QED
      BY <1>1, <2>2, <2>4 DEF LeakInv
  <1> QED
    BY <1>2, <1>3, <1>4, <1>5, <1>6, <1>7, <1>8 DEF Step

LEMMA LeakNext ==
    ASSUME RefinementInv, RecordsInv, MaxEdits = 0, LeakInv, [Next]_vars
    PROVE  LeakInv'
  <1>1. CASE \/ \E c \in CR : Start(c) \/ BindServer(c)
             \/ Deliver \/ Resync \/ UNCHANGED vars
    BY <1>1, LeakFrame
       DEF Start, BindServer, Deliver, Resync, vars, At, k8s, netbox
  <1>2. CASE Step
    BY <1>2, LeakStep
  <1>3. CASE CallFails \/ Crash
    <2>1. faults \in Nat /\ faults' = faults + 1
      BY <1>3, BoundAssumption DEF RefinementInv, TypeOK, CallFails, Crash
    <2> QED
      BY <2>1 DEF LeakInv
  <1>4. ASSUME NEW c \in CR, CreateCR(c) \/ DeleteCR(c) \/ OtherRelease(c)
        PROVE  LeakInv'
    <2>1. PICK v \in Version :
             /\ Store(c, v)
             /\ \/ obj[c].phase = "gone" /\ v.phase = "bare" /\ v.iface = None
                \/ obj[c].phase = "guarded" /\ v.phase = "deleting" /\ v.iface = obj[c].iface
                \/ obj[c].phase = "bare" /\ v.phase \in {"gone", "released"} /\ v.iface = None
                \/ obj[c].phase = "released" /\ v.phase = "gone" /\ v.iface = None
      BY <1>4, Foreigners
    <2>2. \A x \in CR : HasFinalizer(obj[x]) =>
                           HasFinalizer(obj'[x]) /\ obj'[x].iface = obj[x].iface
      BY <2>1 DEF Store, HasFinalizer, RefinementInv, TypeOK
    <2>3. faults' = faults /\ w' = w /\ nb' = nb /\ mine' = mine
      BY <1>4 DEF CreateCR, DeleteCR, OtherRelease, netbox
    <2> QED
      BY <2>2, <2>3, LeakFrame
  <1> QED
    BY <1>1, <1>2, <1>3, <1>4, NoEdits DEF Next, RefinementInv

\* When every call succeeds and operators leave NetBox alone, every record the
\* controller created goes with its object (reconcileDelete,
\* ipupdate_controller.go:116-148), for any objects, addresses and devices.
THEOREM NothingLeaks ==
    ASSUME FreshReads, MaxEdits = 0
    PROVE  Spec => []NoLeak
  <1>1. Init => RefinementInv /\ RecordsInv /\ LeakInv
    BY RefinementInit DEF Init, RecordsInv, LeakInv, At, IdleWorker
  <1>2. RefinementInv /\ RecordsInv /\ LeakInv /\ [Next]_vars
          => RefinementInv' /\ RecordsInv' /\ LeakInv'
    BY RefinementNext, RecordsNext, LeakNext DEF RefinementInv
  <1>3. LeakInv => NoLeak
    BY DEF LeakInv, NoLeak, GoesWithObject, Owns, HasFinalizer
  <1> QED
    BY <1>1, <1>2, <1>3, PTL DEF Spec
=============================================================================
