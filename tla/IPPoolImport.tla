--------------------------- MODULE IPPoolImport ---------------------------
(***************************************************************************)
(* The IPPoolImport controller                                             *)
(* (internal/controller/ippoolimport_controller.go) and the status handler *)
(* all importing controllers share in form (internal/status/status.go):    *)
(* for every NetBox prefix an IPPoolImport selects, it creates an IP pool, *)
(* once.                                                                   *)
(*                                                                         *)
(* cr is the IPPoolImport, pools[n] the pool of name n: the versions the   *)
(* API server has made and the informer cache has not left behind, as in   *)
(* IronCore.  A Get reads the first, a write applies to the last.          *)
(* Addresses are the numbers of Width bits, 32 in the code.                *)
(***************************************************************************)
EXTENDS Integers, Sequences, SequencesExt, FiniteSets

CONSTANTS
    Width,      \* the bits of an address
    None,       \* no name, no number, no address
    Specs,      \* what an IPPoolImport may say: sequences of selectors
    Lists,      \* what NetBox may answer to a selector: sequences of prefixes
    Query,      \* what selectors ask NetBox for: a region and a role
    InitLists,  \* the answers NetBox may give at first: [Query -> Lists]
    MaxTries,   \* the tries of RetryOnConflict, 5 in the code
    MaxFaults,  \* bound: failed calls and crashes of the manager
    MaxEdits    \* bound: edits by the users and in NetBox

ASSUME WidthAssumption == Width \in Nat
ASSUME InitAssumption == InitLists \subseteq [Query -> Lists]
ASSUME TriesAssumption == MaxTries \in Nat \ {0}
ASSUME BoundAssumption == MaxFaults \in Nat /\ MaxEdits \in Nat

\* 2^n, in a form that can be proved about.
TwoTo[n \in 0..Width] == IF n = 0 THEN 1 ELSE 2 * TwoTo[n - 1]

Addr == 0..TwoTo[Width] - 1

\* [addr, bits]: a prefix, or one address if bits = Width.
CIDR == [addr: Addr, bits: 0..Width]

\* What the selectors and the prefixes say: their other fields only make names.
\* (A negative number of addresses to exclude is one that excludes none.)
AllSelectors == UNION {ToSet(s) : s \in Specs}
AllPrefixes == UNION {ToSet(l) : l \in Lists}

ASSUME DataAssumption ==
    /\ \A s \in Specs : s \in Seq(ToSet(s))
    /\ \A l \in Lists : l \in Seq(ToSet(l))
    /\ \A s \in AllSelectors :
         /\ s.query \in Query
         /\ s.excludeMask \in {None} \cup 0..Width
         /\ s.excluded \in Seq(CIDR)
         /\ s.lastN \in {None} \cup Nat
    /\ \A p \in AllPrefixes : p.net \in CIDR
    /\ None \notin Addr \cup CIDR

VARIABLES
    netbox,  \* what NetBox answers: [Query -> Lists]
    cr,      \* the IPPoolImport
    pools,   \* the IP pools
    w,       \* the Reconcile call in progress
    faults, edits

bounds == <<faults, edits>>
vars   == <<netbox, cr, pools, w, faults, edits>>

-----------------------------------------------------------------------------
(***************************************************************************)
(* Addresses.                                                              *)
(***************************************************************************)
\* The addresses of a prefix.
Block(p) ==
    LET size == TwoTo[Width - p.bits] IN
    {a \in Addr : a \div size = p.addr \div size}

\* netip.Addr: Prev and Next end at the ends of the address space.
Prev(a) == IF a = 0 THEN None ELSE a - 1
NextAddr(a) == IF a = TwoTo[Width] - 1 THEN None ELSE a + 1

\* lastAddrInPrefix: the network address, or-ed with all ones shifted right.
LastAddr(p) ==
    LET size == TwoTo[Width - p.bits]
        masked == p.addr - (p.addr % size) IN
    masked + (TwoTo[Width] - 1) \div TwoTo[p.bits]

\* Mutant: the walk ends with the address space, not with the prefix.
Bug_GetLastNIPs(p, n) ==
    LET walk[i \in 0..n] ==
          IF i = 0 THEN [ips |-> <<>>, current |-> LastAddr(p)]
          ELSE LET r == walk[i - 1] IN
               IF r.current = None THEN r
               ELSE [ips |-> <<r.current>> \o r.ips, current |-> Prev(r.current)] IN
    walk[n].ips

\* getLastNIPs: from the last address down, until n are found or the prefix ends.
GetLastNIPs(p, n) ==
    LET walk[i \in 0..n] ==
          IF i = 0 THEN [ips |-> <<>>, current |-> LastAddr(p)]
          ELSE LET r == walk[i - 1] IN
               IF r.current \notin Block(p) THEN r
               ELSE [ips |-> <<r.current>> \o r.ips, current |-> Prev(r.current)] IN
    walk[n].ips

-----------------------------------------------------------------------------
(***************************************************************************)
(* Names.  A selector is a record [query, nameOverride, namePrefix,        *)
(* excludeMask, excluded, lastN]; a prefix of NetBox a record [net, v6,    *)
(* site, transit, compute]: transit tells its role, compute the number in  *)
(* the name of its VLAN.                                                   *)
(***************************************************************************)
\* The sites of a region differ in the letters left when its name is trimmed.
GenerateIPPoolName(s, p) ==
    CASE s.nameOverride # None -> <<s.nameOverride>>
      [] s.nameOverride = None /\ p.transit /\ p.compute # None ->
             <<s.namePrefix, p.site, p.compute - 1>>
      [] OTHER -> <<s.namePrefix, p.site>>

Name == {GenerateIPPoolName(s, p) : s \in AllSelectors, p \in AllPrefixes}

-----------------------------------------------------------------------------
(***************************************************************************)
(* Objects.  rv is the resourceVersion, which grows with every write.      *)
(***************************************************************************)
Import == [rv: Nat, present: BOOLEAN, spec: Specs, status: {"none", "Ready", "Error"}]

PoolState == [present: BOOLEAN, net: CIDR \cup {None}, gateway: Addr \cup {None},
              excluded: Seq(CIDR)]

NoPool == [present |-> FALSE, net |-> None, gateway |-> None, excluded |-> <<>>]

\* The pool for prefix p.
NewIPPool(s, p) ==
    [present |-> TRUE, net |-> p.net, gateway |-> NextAddr(p.net.addr),
     excluded |->
        (IF s.excludeMask = None THEN <<>>
         ELSE <<[addr |-> p.net.addr, bits |-> s.excludeMask]>>)
        \o s.excluded
        \o (IF s.lastN = None THEN <<>>
            ELSE LET ips == GetLastNIPs(p.net, s.lastN) IN
                 [i \in DOMAIN ips |-> [addr |-> ips[i], bits |-> Width]])]

PC == {"idle", "reload", "list", "pool", "create", "getStatus", "updateStatus"}

\* The calls that leave the process.  A Get reads the cache and cannot fail.
Remote == {"reload", "list", "create", "updateStatus"}

\* selectors, prefixes: those left; result: the state to write to the status;
\* cr: the IPPoolImport it is written to; tries: those made.
IdleWorker == [pc |-> "idle", selectors |-> <<>>, prefixes |-> <<>>,
               result |-> "none", rv |-> 0, tries |-> 0]

Worker == [pc: PC, selectors: Seq(AllSelectors), prefixes: Seq(AllPrefixes),
           result: {"none", "Ready", "Error"}, rv: Nat, tries: 0..MaxTries - 1]

TypeOK ==
    /\ netbox \in [Query -> Lists]
    /\ cr \in Seq(Import) \ {<<>>}
    /\ pools \in [Name -> Seq(PoolState) \ {<<>>}]
    /\ w \in Worker
    /\ w.pc \in {"list", "pool", "create"} => w.selectors # <<>>
    /\ w.pc \in {"pool", "create"} => w.prefixes # <<>>
    /\ w.pc \in {"getStatus", "updateStatus"} <=> w.result \in {"Ready", "Error"}
    /\ faults \in 0..MaxFaults /\ edits \in 0..MaxEdits

Init ==
    /\ netbox \in InitLists
    /\ \E s \in Specs : cr = <<[rv |-> 1, present |-> TRUE, spec |-> s, status |-> "none"]>>
    /\ pools = [n \in Name |-> <<NoPool>>]
    /\ w = IdleWorker
    /\ faults = 0
    /\ edits = 0

StoreImport(v) == cr' = Append(cr, [v EXCEPT !.rv = Last(cr).rv + 1])
StorePool(n, v) == pools' = [pools EXCEPT ![n] = Append(@, v)]

-----------------------------------------------------------------------------
(***************************************************************************)
(* The Reconcile call.                                                     *)
(***************************************************************************)
At(pc) == w.pc = pc
Selector == Head(w.selectors)
Prefix == Head(w.prefixes)
PoolName == GenerateIPPoolName(Selector, Prefix)

\* SetCondition, and UpdateToReady or UpdateToError.
Conclude(result) == w' = [IdleWorker EXCEPT !.pc = "getStatus", !.result = result]

\* Mutant: the error is logged, and the import goes on.
Bug_Fail ==
    IF Len(w.selectors) <= 1 THEN Conclude("Ready")
    ELSE w' = [w EXCEPT !.pc = "list", !.selectors = Tail(@), !.prefixes = <<>>]

\* The first error ends the call: the status tells, and it runs again.
Fail == Conclude("Error")

\* The selectors are worked off one after the other.
Select(selectors) ==
    IF selectors = <<>> THEN Conclude("Ready")
    ELSE w' = [w EXCEPT !.pc = "list", !.selectors = selectors, !.prefixes = <<>>]

\* Mutant: the loop runs once too often.
Bug_NextPrefix ==
    IF w.prefixes # <<>>
    THEN w' = [w EXCEPT !.pc = "pool", !.prefixes = Tail(@)]
    ELSE Select(Tail(w.selectors))

NextPrefix ==
    IF Len(w.prefixes) > 1
    THEN w' = [w EXCEPT !.pc = "pool", !.prefixes = Tail(@)]
    ELSE Select(Tail(w.selectors))

\* Mutant: the name that is not found is no reason to stop.
Bug_Start ==
    /\ At("idle")
    /\ w' = [w EXCEPT !.pc = "reload", !.selectors = Head(cr).spec]
    /\ UNCHANGED <<netbox, cr, pools, bounds>>

\* Reconcile reads the IPPoolImport.  That there is none (any more) is an error as
\* well: it runs again, for ever.
Start ==
    /\ At("idle")
    /\ w' = IF Head(cr).present THEN [w EXCEPT !.pc = "reload", !.selectors = Head(cr).spec]
            ELSE IdleWorker
    /\ UNCHANGED <<netbox, cr, pools, bounds>>

\* The credentials and the NetBox clients.
Reload ==
    /\ At("reload")
    /\ Select(w.selectors)
    /\ UNCHANGED <<netbox, cr, pools, bounds>>

\* Mutant: no prefix, no pool, no error.
Bug_ListPrefixes ==
    /\ At("list")
    /\ LET found == netbox[Selector.query] IN
         IF found = <<>> THEN Select(Tail(w.selectors))
         ELSE w' = [w EXCEPT !.pc = "pool", !.prefixes = found]
    /\ UNCHANGED <<netbox, cr, pools, bounds>>

\* reconcileIPPoolSelection: GetPrefixesByRegionRole; none is an error as well.
ListPrefixes ==
    /\ At("list")
    /\ LET found == netbox[Selector.query] IN
         IF found = <<>> THEN Fail
         ELSE w' = [w EXCEPT !.pc = "pool", !.prefixes = found]
    /\ UNCHANGED <<netbox, cr, pools, bounds>>

\* excludeMask must be longer than the mask of the prefix.
MasksWrong(s, p) == s.excludeMask # None /\ p.net.bits >= s.excludeMask

\* lastAddrInPrefix has no As4 of an IPv6 prefix: it panics.
Panics(s, p) == s.lastN # None /\ p.v6

\* Mutant: a pool that exists ends the loop over the prefixes.
Bug_ReconcileIPPool ==
    /\ At("pool")
    /\ IF Head(pools[PoolName]).present THEN Select(Tail(w.selectors))
       ELSE \/ MasksWrong(Selector, Prefix) /\ Fail
            \/ /\ ~MasksWrong(Selector, Prefix)
               /\ w' = IF Panics(Selector, Prefix) THEN IdleWorker
                       ELSE [w EXCEPT !.pc = "create"]
    /\ UNCHANGED <<netbox, cr, pools, bounds>>

\* reconcileIPPool: a pool that exists is left as it is.  After a panic there is
\* no status, only another run.
ReconcileIPPool ==
    /\ At("pool")
    /\ IF Head(pools[PoolName]).present THEN NextPrefix
       ELSE \/ MasksWrong(Selector, Prefix) /\ Fail
            \/ /\ ~MasksWrong(Selector, Prefix)
               /\ w' = IF Panics(Selector, Prefix) THEN IdleWorker
                       ELSE [w EXCEPT !.pc = "create"]
    /\ UNCHANGED <<netbox, cr, pools, bounds>>

\* The Create is refused if the cache has not yet shown the pool.
CreateIPPool ==
    /\ At("create")
    /\ IF Last(pools[PoolName]).present THEN Fail /\ UNCHANGED pools
       ELSE /\ StorePool(PoolName, NewIPPool(Selector, Prefix))
            /\ NextPrefix
    /\ UNCHANGED <<netbox, cr, bounds>>

\* update: the Get of a try; the status goes to what it finds.
GetForStatus ==
    /\ At("getStatus")
    /\ w' = IF Head(cr).present THEN [w EXCEPT !.pc = "updateStatus", !.rv = Head(cr).rv]
            ELSE IdleWorker
    /\ UNCHANGED <<netbox, cr, pools, bounds>>

\* RetryOnConflict: a conflict is tried again, until the tries are used up.
Conflict ==
    w' = IF w.tries + 1 < MaxTries
         THEN [w EXCEPT !.pc = "getStatus", !.tries = @ + 1]
         ELSE IdleWorker

\* update: the write of a try.
UpdateStatus ==
    /\ At("updateStatus")
    /\ LET c == Last(cr) IN
         IF ~c.present THEN w' = IdleWorker /\ UNCHANGED cr
         ELSE IF c.rv # w.rv THEN Conflict /\ UNCHANGED cr
         ELSE /\ w' = IdleWorker
              /\ IF c.status = w.result THEN UNCHANGED cr
                 ELSE StoreImport([c EXCEPT !.status = w.result])
    /\ UNCHANGED <<netbox, pools, bounds>>

Step ==
    \/ Reload \/ ListPrefixes \/ ReconcileIPPool \/ CreateIPPool
    \/ GetForStatus \/ UpdateStatus

-----------------------------------------------------------------------------
(***************************************************************************)
(* The informers, faults, users and NetBox.                                *)
(***************************************************************************)
DeliverImport ==
    /\ Len(cr) > 1
    /\ cr' = Tail(cr)
    /\ UNCHANGED <<netbox, pools, w, bounds>>

DeliverPool(n) ==
    /\ Len(pools[n]) > 1
    /\ pools' = [pools EXCEPT ![n] = Tail(@)]
    /\ UNCHANGED <<netbox, cr, w, bounds>>

\* The call in progress fails; for the status there is nobody left to tell.
CallFails ==
    /\ w.pc \in Remote
    /\ faults < MaxFaults
    /\ faults' = faults + 1
    /\ IF At("updateStatus") THEN w' = IdleWorker ELSE Fail
    /\ UNCHANGED <<netbox, cr, pools, edits>>

\* The manager dies and starts again with fresh caches.
Crash ==
    /\ faults < MaxFaults
    /\ faults' = faults + 1
    /\ cr' = <<Last(cr)>>
    /\ pools' = [n \in Name |-> <<Last(pools[n])>>]
    /\ w' = IdleWorker
    /\ UNCHANGED <<netbox, edits>>

Edit ==
    /\ edits < MaxEdits
    /\ edits' = edits + 1
    /\ UNCHANGED <<w, faults>>

EditSpec ==
    /\ Edit
    /\ Last(cr).present
    /\ \E s \in Specs \ {Last(cr).spec} : StoreImport([Last(cr) EXCEPT !.spec = s])
    /\ UNCHANGED <<netbox, pools>>

DeleteImport ==
    /\ Edit
    /\ Last(cr).present
    /\ StoreImport([Last(cr) EXCEPT !.present = FALSE])
    /\ UNCHANGED <<netbox, pools>>

\* After a deletion it is made again, perhaps; that is no edit of its own.
CreateImport ==
    /\ ~Last(cr).present
    /\ \E s \in Specs :
         StoreImport([Last(cr) EXCEPT !.present = TRUE, !.spec = s, !.status = "none"])
    /\ UNCHANGED <<netbox, pools, w, bounds>>

EditPrefixes(q) ==
    /\ Edit
    /\ \E l \in Lists \ {netbox[q]} : netbox' = [netbox EXCEPT ![q] = l]
    /\ UNCHANGED <<cr, pools>>

DeletePool(n) ==
    /\ Edit
    /\ Last(pools[n]).present
    /\ StorePool(n, NoPool)
    /\ UNCHANGED <<netbox, cr>>

Next ==
    \/ Start
    \/ Step
    \/ DeliverImport
    \/ \E n \in Name : DeliverPool(n)
    \/ CallFails
    \/ Crash
    \/ EditSpec \/ DeleteImport \/ CreateImport
    \/ \E q \in Query : EditPrefixes(q)
    \/ \E n \in Name : DeletePool(n)

Spec == Init /\ [][Next]_vars

\* Reconcile runs again for ever (RequeueAfter, or backoff after an error), no
\* call hangs and the informers deliver.  Nothing is assumed of users, NetBox or
\* faults.
Fairness ==
    /\ WF_vars(Start \/ Step)
    /\ WF_vars(DeliverImport)
    /\ \A n \in Name : WF_vars(DeliverPool(n))

FairSpec == Spec /\ Fairness

-----------------------------------------------------------------------------
(***************************************************************************)
(* Properties.                                                             *)
(***************************************************************************)
Blocks(prefixes) == UNION {Block(e) : e \in prefixes}

\* The addresses with fewer than n above them.
Highest(p, n) == {a \in Block(p) : Cardinality({b \in Block(p) : b > a}) < n}

\* What the pool of selector s and prefix p must exclude: the addresses under
\* the exclude mask, those listed, and the highest lastN of the prefix.
MustExclude(s, p) ==
    (IF s.excludeMask = None THEN {}
     ELSE Block([addr |-> p.net.addr, bits |-> s.excludeMask]))
    \cup Blocks(ToSet(s.excluded))
    \cup (IF s.lastN = None THEN {} ELSE Highest(p.net, s.lastN))

\* Every pool comes from one selector and one prefix: it offers the prefix, and
\* leaves out exactly what the selector excludes, "should gracefully handle
\* Excluded Last N Addresses larger than usable Prefix size"
\* (ippoolimport_controller_test.go:366); and an exclude mask never leaves out
\* the whole prefix (ippoolimport_controller.go:201).
PoolsExclude ==
    \A n \in Name : LET q == Last(pools[n]) IN
        q.present =>
            \E s \in AllSelectors, p \in AllPrefixes :
                /\ n = GenerateIPPoolName(s, p)
                /\ q.net = p.net
                /\ Blocks(ToSet(q.excluded)) = MustExclude(s, p)
                /\ s.excludeMask # None =>
                     Block(p.net) \ Block([addr |-> p.net.addr, bits |-> s.excludeMask]) # {}

\* A Ready IPPoolImport is no empty promise: while nobody edits, whatever calls
\* failed before, every prefix it selects has its pool, and there are such.
ReadyMeansPooled ==
    LET c == Last(cr) IN
    c.status = "Ready" /\ edits = 0 =>
        \A s \in ToSet(c.spec) :
            /\ netbox[s.query] # <<>>
            /\ \A p \in ToSet(netbox[s.query]) :
                 Last(pools[GenerateIPPoolName(s, p)]).present

\* The selectors of the IPPoolImport with the prefixes NetBox has for them, in
\* the order of the loop.
Work(c, nb) ==
    FlattenSeq([i \in DOMAIN c.spec |->
        LET s == c.spec[i] IN
        IF nb[s.query] = <<>> THEN <<[s |-> s, p |-> None]>>
        ELSE [j \in DOMAIN nb[s.query] |-> [s |-> s, p |-> nb[s.query][j]]]])

NameOf(x) == GenerateIPPoolName(x.s, x.p)
Pool(x) == Last(pools[NameOf(x)])

\* The item fails for as long as things stay as they are, ...
Blocked(x) ==
    IF x.p = None THEN TRUE
    ELSE ~Pool(x).present /\ (MasksWrong(x.s, x.p) \/ Panics(x.s, x.p))

\* ... and says so in the status.
Told(x) == x.p = None \/ MasksWrong(x.s, x.p)

\* The items the loop reaches: none before them fails for good.
Reached(i, c, nb) == \A j \in 1..(i - 1) : ~Blocked(Work(c, nb)[j])

\* A prefix the loop reaches has its pool in the end, whatever was deleted,
\* edited or failed before.
EventuallyPooled ==
    \A n \in Name :
        <>[](/\ Last(cr).present
             /\ LET work == Work(Last(cr), netbox) IN
                \E i \in DOMAIN work :
                    /\ work[i].p # None
                    /\ NameOf(work[i]) = n
                    /\ Reached(i, Last(cr), netbox) /\ ~Blocked(work[i]))
          => <>[](Last(pools[n]).present)

\* An IPPoolImport that was deleted is retried for ever, but every retry ends with
\* the Get: no pool is made for it and no status written any more.
DeletedIsLeftAlone ==
    <>[](~Last(cr).present) => <>[](w.pc = "idle")

\* The status ends up telling whether the import works, although the try that
\* writes it reads a cache that lags and gives up after MaxTries conflicts, and
\* although a call that began before an edit writes what it found before.
StatusTracks ==
    /\ <>[](/\ Last(cr).present
            /\ \A x \in ToSet(Work(Last(cr), netbox)) : ~Blocked(x))
         => <>[](Last(cr).status = "Ready")
    /\ <>[](/\ Last(cr).present
            /\ LET work == Work(Last(cr), netbox) IN
               \E i \in DOMAIN work :
                   Reached(i, Last(cr), netbox) /\ Blocked(work[i]) /\ Told(work[i]))
         => <>[](Last(cr).status = "Error")
=============================================================================
