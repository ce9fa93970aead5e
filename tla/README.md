# TLA+ specifications of argora

argora is a Kubernetes operator that keeps NetBox and the bare-metal resources of a cluster in step. This directory
holds specifications of its controllers, the TLC configurations that check them on small instances, and proofs that
TLAPS checks for every instance. Paths below are relative to the repository; `controller/` is `src/internal/controller/`.

    tlasany IPUpdate.tla                                         # parse
    tlc -workers 2 -config IPUpdate_faults.cfg MCIPUpdate        # model-check
    tlapm IPUpdateRefinement.tla                                 # prove

## The system

One process (`cmd/manager/main.go`) runs several reconcilers, each with one worker, against three stores that share no
transaction: the Kubernetes API server, the informer caches fed from it, and NetBox over HTTP. Leader election leaves
one process active. Nothing but what is in those stores survives a restart.

| Part | State | Operations | What makes it correct |
|---|---|---|---|
| **IPUpdate** (`controller/ipupdate_controller.go`) | finalizer and annotations of every `IPAddress`; NetBox address records and primary IPs | add the finalizer; find the target interface through claim, server claim, server and BMC; look up or create the record; set the primary IP; record the ids in annotations; flag conflicts; delete the record, then remove the finalizer | the finalizer covers all work on NetBox; one record per address; a record goes with its object, never with a live one; deletions finish; conflicts are flagged and cleared |
| **IronCore** (`controller/ironcore_controller.go`) | one `BMCSecret` and one `BMC` per active device; status of the `ClusterImport` | list clusters and devices; create or update the secret unless it is annotated `ignore`; patch or create the BMC; make it own the secret; write the status | Ready means imported; ignored secrets are not touched; labels and credentials converge; secrets are owned |
| **Update** (`controller/update_controller.go`) | NetBox devices and interfaces; BMC host names | rename the remote board interface; write platform and OOB address; delete vmk interfaces with their addresses; patch the host name | writes of one controller do not undo the other's; a device converges; one failing device |
| **Metal3** (`controller/metal3_controller.go`) | `BareMetalHost`, BMC secret and network data secret per device of a CAPI `Cluster` | reload and check the credentials; create or update the BMC secret unless it is annotated `ignore`; create the host, then its network data, if there is no host | a host comes after its secret and has its network data in the end; rotated credentials reach the secret; ignored secrets are not touched; one failing device |
| **IPPoolImport** (`controller/ippoolimport_controller.go`) | `GlobalInClusterIPPool`s | a pool per NetBox prefix, without reserved addresses, if there is none of its name; write the status | Ready means every prefix has its pool; a pool excludes exactly what the selector says; deleted imports are left alone |
| **Credentials** (`internal/credentials`) | one struct with BMC user, password and NetBox token, **shared by all reconcilers without a lock** | reload from the mounted file, validate, read | nothing empty is handed on; the struct follows the file |
| **Status handlers** (`internal/status`) | status of the custom resources | re-read, overwrite, retry on conflict | the last outcome is what the status says |
| **NetBox clients** (`internal/netbox`) | none but the HTTP clients, one set per reconciler | lists, creations, updates, deletions by id | an address lookup fails unless exactly one record matches |

The parts interact through the stores: IPUpdate and Update write the same NetBox devices; IronCore creates the BMCs
whose names lead IPUpdate to its devices, and Update patches those BMCs; every reconciler starts by reloading the shared
credentials. The hard behaviours are those of any operator: each call may fail or succeed without its reply arriving,
the process may die between any two of them, the cache shows the past (even of the controller's own writes), patches
carry no precondition, and users and operators change both sides meanwhile. `PROJECT.json` lists the hazards by line.

## Modules

| Module | Models |
|---|---|
| `IPUpdate`, `MCIPUpdate` | the IPUpdate controller, the API server, the watch and the cache, NetBox; small instances of it |
| `GuardedResource` | what a finalizer is for, without any controller: the abstract specification `IPUpdate` implements |
| `IPUpdateProofs` | theorems about `IPUpdate`, however its cache lags: types, finalizer, records, annotations |
| `IPUpdateRefinement` | theorems about `IPUpdate` when its cache has caught up: the refinement, deletions, no leaks |
| `Credentials`, `MCCredentials` | the shared credentials and the reconcilers as their users |
| `CredentialsProofs` | theorems about them |
| `Metal3`, `MCMetal3` | the Metal3 controller, composed with `Credentials`, of whose reconcilers it is one |
| `Metal3Proofs` | theorems about it and about the composition |
| `IronCore`, `MCIronCore` | the IronCore controller, the caches, the garbage collector, users |
| `IronCoreProofs` | theorems about it |
| `DeviceUpdate`, `MCDeviceUpdate` | the Update controller, NetBox, and the IPUpdate controller as another writer of its devices |
| `DeviceUpdateProofs` | theorems about it |
| `IPPoolImport`, `MCIPPoolImport` | the IPPoolImport controller, its arithmetic, and the status handler |
| `IPPoolImportProofs` | theorems about the arithmetic and the controller |
| `VersionSequences` | lemmas about what all of these keep of an object: the versions from the cached one to the current one |

Definitions named `Bug_...` are plausible mistakes in the definition that follows them. No specification uses them; each
shows that a property would notice.

### IPUpdate

A `Reconcile` call is the record `w`: `w.pc` names the next call it makes to the API server or NetBox, the other fields
are its local variables (`snap` is the object it read). Every such call is an action: `Start` (the cached Get and the
branches on deletion and finalizer), `AddFinalizer`, `ReconcileDelete` (lookup and comparison), `DeleteIP`,
`RemoveFinalizer`, `FindDeviceName`, `GetDevice`, `GetInterfaces`, `LookupIP`, `CreateIP`, `PrimaryIP`, `UpdateMetadata`,
`SetConflict`. An early return is `Done`; a returned error is `Fail`, which puts the name back on the queue.

- *Objects.* A version has an incarnation (`gen`, the UID), a phase (`bare`, `guarded` by the finalizer, `deleting`,
  `released` when only a foreign finalizer is left, `gone`) and the annotations. Each write appends the new version to
  `stream`; `Deliver` moves its head into `cache` and enqueues the name. A merge patch (`MergePatch`) writes what differs
  between snapshot and edited copy, to whatever the server holds by then, a recreated object included.
- *NetBox.* `nb` maps ids to address and interface, `primary` is each device's primary IP, `ifaceDev` the device of each
  interface. The lookup is by address alone, as in the code.
- *Environment.* Users create (with a new incarnation) and delete objects; servers are bound; operators add, reassign and
  delete records and recable interfaces; the other finalizer goes. `CallFails` is a call that fails; a reply that is lost
  is the action followed by `CallFails`. `Crash` relists.
- *Left out.* Address syntax, tenant and VRF (the lookup ignores them); the claim chain is read at its latest value;
  other entries of the finalizer list, beyond whether there is another one; annotations edited by hand; NetBox refuses a
  primary IP only if the record is gone; `Resync` is the informer resync, with no period. Two objects whose claims lead to one
  device take turns at its primary IP; `EventuallySynced` accepts the record of either, and its run has one object.

### GuardedResource

`stage` is where an object is in its life, `held` the objects that hold a resource outside the API server. Only a guarded
object may acquire one, an object that is to be deleted keeps its guard until it has released it. `IPUpdate` implements
this (`ImplementsGuardedResource`) with `stage` the phase on the server and `held` the objects `Recorded`: those whose
annotated interface is the one a record of their address is on. That is what the delete pass goes by
(`ipupdate_controller.go:372-385`), and **all** it goes by: a record that was created (line 317) and is not yet annotated
(line 174) is not held, and the refinement says nothing of it. `NoLeak` does, as long as no call fails; finding 5 is what
happens when one does.

### Credentials

Values are numbers of rotations. `Rotate` replaces the mounted file, perhaps with an empty or missing key or with no
JSON at all (`readable` is then false, until the next rotation); `Restart` begins anew with a blank struct. A reconciler reads the file, decodes it into the shared struct
**one field per step**, validates one field per step, then hands on the token (`ReloadNetBox`) and, for the controllers
that set up BMCs, user and password (`ResolveBMCUser`, `ResolveBMCPassword`), which check for empty strings once more. A
read that overlaps a write of another string may return a mixture (`Torn`): a data race in Go. `BMCNotBlank` is what the
second check is for; the token has none (finding 2).

### Metal3

The variables of `Credentials` are variables of this module, and `C == INSTANCE Credentials` with this reconciler alone.
Every reload and every read of a credential **is** an action of `Credentials`; while that module has the reconciler at
`"work"`, `w.pc` of this one says where in `metal3_controller.go` it is. `ImplementsCredentials` checks the composition
both ways: the controller takes no step that `Credentials` forbids, and each of its calls ends, which is the fairness
`Credentials` assumes.

The rest is as in `IronCore`: `secrets[d]` and `hosts[d]` are versions, `GetSecret` and `WriteSecret` the halves of
`CreateOrUpdate`. `networks[d]` is the UID of the owner of the network data, which is created by name and not read back.
A device is active, inactive, or in one of three ways unusable: `broken` (nothing can be made), `noMAC` (the host comes
without its MAC address, which is logged only), `noNetwork` (the host comes without network data). *Left out:* what the
network data says; the CAPI cluster, of which only the name is read (`clusters` counts the NetBox clusters of that name;
any number but one is an error); other reconcilers, which are the subject of `Credentials`.

### IPPoolImport

A call works off `w.selectors` and, for each, `w.prefixes`. The name of a pool is computed from selector and prefix
(`GenerateIPPoolName`), so that two of them can collide as in the code. Addresses are numbers below `2^Width` (`TwoTo`, a recursive function: the provers know nothing of `^`): `LastAddr` and
`GetLastNIPs` are `lastAddrInPrefix` and `getLastNIPs` with the ends of the address space, `PoolsExclude` compares them with
the set of addresses a reader of the selector would expect. An IPv6 prefix with `excludeLastNAddresses` panics, which
controller-runtime turns into a retry. The status is written as `status.go:137` does: a Get from the cache (`GetForStatus`), a
write that conflicts unless that was the current version (`UpdateStatus`), and again, `MaxTries` times; users may delete the
import and make it again between the two. *Left out:* the
conditions in the status, the region and role queries beyond their answers, letters of names.

### IronCore

`secrets[d]` and `bmcs[d]` are the versions of the objects of device `d` from the cached one (first) to the current one
(last): a Get reads the first, a write applies to the last, `DeliverSecret` and `DeliverBMC` drop the first. The worker
`w` has an action per call, as above; `GetSecret` and `WriteSecret` are the two halves of `CreateOrUpdate`, whose Update
is refused unless the version read is current. Gets are served from the cache and do not fail (if the first one of
`CheckIgnore` did, the code would go on to `CreateOrUpdate`, line 278, here as in `Metal3`). NetBox devices are active,
inactive or broken (name, OOB address or region unusable). One `ClusterImport` with one selector stands for the loop over
all; per-selector credentials and BMC host names are left out. The credentials are those of the struct when the call
starts, while the code reads it again for each device (line 309); `Credentials` has those reads. The status is written in
one step that may fail; its cached Get, conflicts and tries are in `IPPoolImport`. `w.kept` is history: the devices whose
secret was annotated `ignore`, for all to see, when the call began and ever since. `IgnoredUntouched` speaks of those only: a secret annotated
*during* a call may still be written by it, for the annotation is looked for in one read and the write goes to another.

### DeviceUpdate

NetBox is `device` (active or not, platform right or not, OOB address, primary IP right or not), `name` (of each
interface) and `on` (the interface of each address); `bmcs` are versions of the BMCs as in `IronCore`. The worker `w`
has an action per call, from the list of devices through renaming, the device write, the deletions of vmk interfaces and
addresses, to the host name of the BMC. NetBox writes a device as a whole, so `UpdateDevice` writes the **listed**
device with two fields changed.

- *Other writers.* `IPUpdateRead` and `IPUpdateWrite` are the two calls of IPUpdate that write a device, for the devices
  in `Claimed`; between them anything may happen, a whole Update included. Each of the two writers puts back what the
  other has changed since it read: `EventuallyUpdated` and `EventuallyPrimary` say that they do not do so for ever.
  Operators edit devices, rename interfaces, move and delete addresses, and change BMCs.
- *NetBox.* Interface names of a device differ, an OOB address has to exist (that it has to be assigned to the device is left
  out), and deleting an interface deletes the
  addresses it still has.
- *Left out.* Fields of a device that neither of the two writes; more than one `Update`, its clusters being one list of
  devices; the lookup of the platform's id, a constant; credentials; as in `IronCore`, the reads and conflicts of the status write.

## Runs

| Run | Question | Instance | Result |
|---|---|---|---|
| `ipupdate_faults` | Does the finalizer cover all work on NetBox, is there one record per address, do annotations tell the truth, does no live object lose its record? | two names that share an address, two incarnations each, two devices, foreign finalizers, one fault anywhere | holds |
| `ipupdate_fresh_cache` | If the cache has always caught up before a call starts, does IPUpdate implement `GuardedResource` for annotated records, and, until the first fault, leave nothing behind? | the same, `FreshReads` | holds (after a fault, an unannotated record may be left: finding 5) |
| `ipupdate_lagging_cache` | ... and if it has not? | one name, no fault | **violated** (finding 1) |
| `ipupdate_converges` | Do live objects, conflicts and deletions come to their end? | one name, two devices, LAG0 on one and LAG1 on the other, two edits of NetBox (a moved interface included), one fault | holds |
| `credentials_live` | Does the struct follow the file, and are no empty BMC credentials handed on? | two reconcilers, two rotations to partial, blank, unreadable or complete files, one restart | holds |
| `credentials_shared` | Is a token handed on never empty? | two reconcilers, one rotation | **violated** (finding 2) |
| `metal3_provides` | Does every device the loop reaches get its host, after its secret, with the current credentials, and is this reconciler one of `Credentials`? | two devices, the first active or broken, the second without a MAC address, one edit, one fault | holds |
| `metal3_network` | Does a host get its network data? | one device, one fault, no edit | **violated** (finding 4) |
| `ironcore_two_devices` | Does Ready mean imported, do import and status converge, who waits for a broken device, are ignored secrets left alone? | two devices in any state, two labels, one edit, one fault | holds |
| `ironcore_owner` | Is the secret owned by its BMC in the end? | one device, one fault, no edit | **violated** (finding 3) |
| `deviceupdate_converges` | Does Ready mean updated, and do devices, primary IP and status converge although IPUpdate and Update write over each other? | two devices, one of them claimed, three interfaces and addresses, one fault, one edit | holds |
| `ippoolimport_pools` | Do pools exclude what they should, does Ready mean pooled, do pools and status converge? | two selectors, prefixes at both ends of eight addresses, too short or IPv6, two tries, one edit, one fault | holds |

*Bounds.* `MaxGen` 2 is what it takes for a stale patch or a stale delete pass to meet a recreated object; two names on
one address bring in the new owner of an address; one fault hits every call, and what it leaves behind is then met by
every later interleaving; two edits set up a conflict and resolve it. Caches lag without bound: up to every version
written. The two names start alike, share the address and are treated alike by every action, so the runs on them use the
symmetry of `CR`; the liveness run does not. Two devices in `IronCore` and `DeviceUpdate` are what it takes for one to
block the other; in the latter one BMC's address has a DNS name and one has none, and one write of IPUpdate suffices to
undo one of Update (and one of Update one of its own); the one that is not claimed may start with its platform right and
no OOB address. In `IPPoolImport`, three bits are what it takes for a prefix at either end of the address space, and one
shorter than its exclusions; two tries to write a status, one of which may conflict, stand for five. In `Credentials`,
`MaxRotations` 3 is what it takes for a file with a missing or empty key, or no JSON, to be followed by a complete one, which
is the premise of `EventuallyCurrent`; 2 is enough for a violation of `TokenRequired`. Deadlock checking
is off for `IPUpdate`, whose runs end when every object is gone and no incarnation is left.

*Fairness.* The worker takes its next step (no call hangs), the work queue serves every name (strong fairness, since
other names may be served between), watches deliver, and the informer resyncs (its default period is ten hours; without
it `ConflictTracked` has no reason to hold). In the other modules reconcilers run again for ever, `RequeueAfter` after
success, backoff after an error, and informers deliver. In `Credentials` a call has finitely many devices: it ends
(strong fairness of `Finish`), which `Metal3` is shown to do. In `DeviceUpdate` the resync of IPUpdate's informer brings
it back to a device whose primary IP stays wrong (`IPUpdateRead`), and its call ends. Nothing is assumed of users,
operators, the garbage collector or faults.

## What is proved

For every set of names, addresses, devices and interfaces and every bound:

| Theorem | Says | Assumes |
|---|---|---|
| `TypeCorrect` of `IPUpdateProofs`, `CredentialsProofs`, `Metal3Proofs`, `IronCoreProofs`, `DeviceUpdateProofs`, `IPPoolImportProofs` | `Spec => []TypeOK`, which includes that the worker has what its next call needs: the device, interface and record of `IPUpdate`, the device of a loop, an interface no address is left behind on | |
| `IPUpdateProofs!FinalizerInvariant` | `Spec => []FinalizerInv` | |
| `IPUpdateProofs!GuardedSafe` | `Spec => []GuardedWhileBusy`: while a call works on NetBox, the API server holds the incarnation it read, with the finalizer | |
| `IPUpdateProofs!RecordsUnique` | `Spec => []OneRecordPerAddress`, however the cache lags | |
| `IPUpdateProofs!DeletesSafe` | `Spec => DeletesOnlyForDeleted`: no live object loses its record, however the cache lags | |
| `IPUpdateProofs!AnnotationsTrue` | `Spec => []AnnotatedHasRecord`, however the cache lags | |
| `IPUpdateRefinement!FinalizerGuards` | `Spec => ImplementsGuardedResource`, for the records objects are annotated with | `FreshReads`, `MaxEdits = 0` |
| `IPUpdateRefinement!DeletesWhenFresh` | `Spec => DeletesWhenAssigned`, which a lagging cache violates (finding 1) | `FreshReads`, `MaxEdits = 0` |
| `IPUpdateRefinement!NothingLeaks` | `Spec => []NoLeak`: nothing is left behind before the first fault | `FreshReads`, `MaxEdits = 0` |
| `IPUpdateRefinement!HeldIsGuarded` | `G!Spec => []G!HeldMeansGuarded`: the abstract specification gives what a finalizer is for | |
| `CredentialsProofs!BMCSafe` | `Spec => []BMCNotBlank`: no empty user or password, however the reconcilers interleave | |
| `CredentialsProofs!TokenSafeAlone` | `Spec => []TokenRequired`, which two reconcilers violate (finding 2) | one reconciler |
| `Metal3Proofs!CredentialsFollowed` | `Spec => C!Spec`: the safety part of `ImplementsCredentials` | |
| `Metal3Proofs!CredentialsSafe` | so the types, `BMCNotBlank` and `TokenRequired` of `Credentials` hold of the composition | |
| `Metal3Proofs!HostSafe` | `Spec => []HostComplete`: a host comes after its secret | |
| `Metal3Proofs!IgnoredSafe`, `IronCoreProofs!IgnoredSafe` | `Spec => IgnoredUntouched`: an ignored secret is left alone | |
| `IronCoreProofs!ReadySafe` | `Spec => []ReadyMeansImported` | |
| `DeviceUpdateProofs!ReadySafe` | `Spec => []ReadyMeansUpdated` | |
| `IPPoolImportProofs!PoolsSafe` | `Spec => []PoolsExclude`: a pool excludes exactly what its selector says, for every width of an address | |
| `IPPoolImportProofs!ReadySafe` | `Spec => []ReadyMeansPooled` | |

Besides these, the proofs use the assumptions on the constants that each module states (`OrderAssumption`: NetBox lists a
device once; `DataAssumption`: selectors and answers are finite lists, prefix lengths at most the width) and the sequence,
finite-set and well-foundedness lemmas of the library. Finding 1 is why three of the theorems need `FreshReads`; with
`MaxEdits = 0` operators leave NetBox alone, without which none of the three is meant.

*The finalizer.* `GuardedWhileBusy` is not inductive: whether the worker may trust its snapshot depends on what the
cache and the stream still hold. The versions of an object are ordered by `Rank` (incarnation, then phase), which no
write lowers (`StoreType`, `VersionOps`). `FinalizerInv` adds to the property that cache and stream hold versions in
order, none above the server's; that one with the finalizer (`guarded`) still stands on the server, as `guarded` or
`deleting` of the same incarnation; and that one which is `deleting`, if the server has moved past it, has already
reached the cache, for only this worker removes the finalizer and it does so from a snapshot. The last part is why a
stale patch never adds the finalizer to, or takes it from, a wrong incarnation. `FinalizerNext` goes through the actions
one by one; lemmas `StoreSorted`, `VersionStore`, `VersionOther` and `SeenDeliver` say what a write and a delivery do to
the parts.

*Records.* `RecordsInv` adds to `OneRecordPerAddress` that at `createIP` there is no record of the address: the lookup
saw none, only the one worker makes any, and what fails or crashes in between starts with another lookup.

*Whose record it is.* A delete pass that reads an old cache may meet an address that somebody else holds by now. What
protects that holder is `AddressInv`. `TurnsInv`: objects with one address do not live at one time, on the server
(`Exclusive`) and, since the watch is one ordered stream, in the cache as it is now and will be after any number of
deliveries (`TakeTurns`, over `Shows`). `AnnotatedSeen`: the cache has shown the incarnation of an annotated version with
the finalizer. So a call that adds a finalizer, which goes by a `bare` version in the cache, finds every annotated version
of that address behind it, and `DoomedBare` holds: while an object lives with the finalizer, no version that is to be
deleted is annotated, of any object with its address. `reconcileDelete` deletes nothing for a version without annotations
(`PathInv`). `ObjectChanges` and `Becomes` name once what can become of an object; the step lemmas go by these instead of
the actions.

*True annotations.* With NetBox unedited there is one right answer per object, the target interface of the device its claim
chain leads to, and the chain, once bound, leads there as long as the object exists (`BoundStays`). `TruthInv` says that
every version of the current incarnation, the snapshot of a call included, has that answer or none (`VersionsRight`: a merge
patch writes differences to a snapshot, so it may keep half of what is there); that what the worker has found so far agrees
(`FoundRight`); and that the record of a live annotated object is there (`RecordsRight`), which no delete pass takes away by
`AddressInv` (`StoredStays`).

*The refinement.* `RefinementInv` says what a caught-up cache is worth. `CacheCurrent`: the last version of an object in the
stream, or the cached one, is the server's, so a call starts from the server's. `DeleteInv` and `NormalInv` keep that true to
the end of the call: a deleted object does not change under the worker, a live one can only be marked for deletion.
`AnnotationInv` (no interface without device, none before the finalizer), `Exclusive` (objects with one address do not live
at one time) and `RecordInv` (what the worker has read of NetBox still holds) then say who has a record at each step, and
`ReleasedInv` that an object only another controller holds has none. The step lemmas map each action to an action of
`GuardedResource` or a stutter: the annotation patch or the record's creation to `Acquire`, the deletion of the record to
`Release`, the patch of the finalizer to `Finish`. `LeakInv` strengthens `NoLeak`: every record this controller made is on the
interface its object is annotated with, or is about to be, and that object has the finalizer.

*Ready.* `ReadyMeansImported`, `ReadyMeansUpdated` and `ReadyMeansPooled` say what a status promises about all devices or
prefixes, and are proved alike, from an invariant that holds until somebody edits (`ImportInv`, `UpdateInv`). It says (1)
that what the cache may show is as good as the current version: no version of a secret, BMC or pool is wrong, and one that
is there is not followed by one that is not (`ObjectsTrue`, `VersionsTrue`); (2) what the worker knows at each step of the
object it is at (`AtDevice`, `Stage`); (3) that the items no longer in its list are done (`Progress`, `SelectorsDone`,
`PrefixesDone`), so that when the list is empty and the result is Ready, all are. In `DeviceUpdate`, where two controllers
write whole devices from snapshots, (1) is `Snapshots`: a device ahead of the worker is as it was listed unless IPUpdate
writes it as well, and both snapshots agree with NetBox on what nobody but an operator changes. The lemmas `...GoesOn`,
`...NextDevice` and `...End` say what the worker's three ways on from a device keep; `VersionSequences` what a write and a
delivery do to the versions.

*Ignored secrets.* `KeptInv`: a secret in `w.kept` is annotated in every version from the cached one to the current one, so
the worker that is at its device has seen the annotation and is past no point where it writes.

*Composition.* `CallMoves` and `CallStep` go through the actions of `Metal3` and name for each the action of `Credentials` it
is, or that it changes none of its variables. What `CredentialsProofs` shows of any set of reconcilers is then cited for
`{Self}` (`CredentialsSafe`), and serves `TypeCorrect` and `HostSafe` as a lemma: the worker is in its loop only while
`Credentials` has it at `"work"`. `HostInv` is (1) to (3) above for hosts and secrets; a host is never deleted by the
controller, so no progress needs to be kept.

*Credentials.* `HandedInv`: whoever is at work on devices and has handed on a password has checked both values, **as read**;
whatever the struct says by now does not matter. `AloneInv` says that the fields a call has found set are still set, which is
so only as long as nobody else writes the struct.

*Pools.* `PoolsExclude` compares a set of addresses with what bit operations and a walk from the last address down
compute, for every `Width`. The lemmas: blocks of a prefix are intervals (`BlockInterval`, from quotients that determine
their numbers, `DivUnique`); a longer mask that agrees is contained (`LongerMask`); the walk of `getLastNIPs` returns as many
addresses as asked for, each one below the last, and stops at the first address (`LastNIPs`); so the blocks of its result are
the highest addresses (`HighestCount`, `PoolExcludes`). Each of these would be an induction; the library's induction theorems
cannot be instantiated here, so `Least` and `Induction` argue over **sets** of numbers instead: a claim that fails somewhere
fails at a least number, and not at its predecessor. `TwoTo` and the walk are recursive functions; that functions with their
defining equations exist is proved the same way (`TwoToExists`, `WalkExists`). `MadeInv` then says that each pool was made by
`NewIPPool` from a selector and a prefix whose masks were compared before.

Model-checked only: liveness (fairness and `ENABLED` are beyond the provers), with the liveness half of
`ImplementsCredentials`. Every invariant and action property of a run that passes is proved.

## Findings

1. *A record can outlive its object* (`ipupdate_controller.go:372`). Deleting an `IPAddress` during its first reconcile
   can show the worker the deletion before its own annotations: it skips NetBox and removes the finalizer. The test at
   `ipupdate_controller_test.go:846` has it deleted.
2. *Unlocked credentials* (`main.go:164`). A reload by one reconciler can empty the token another has just validated
   (`credentials.go:69`).
3. *Owner reference set once or never* (`ironcore_controller.go:233`). If its patch fails after the BMC was created,
   later passes return before it. `ironcore_controller_test.go:194` expects the owner.
4. *Network data made once or never* (`metal3_controller.go:188`). If its lookups or its Create fail after the host was
   created, later passes find the host and return; the host refers to a secret that never comes.
   `metal3_controller_test.go:334` expects it.
5. *A record that was never annotated outlives its object* (`ipupdate_controller.go:372`). The annotations are patched (line
   174) two NetBox calls after the record is created (line 317). If a call in between fails, or the manager dies, and the
   object is deleted before a retry has annotated it, the delete pass finds no annotations, returns without error and the
   finalizer goes. No stale cache is needed, so this is another way than that of finding 1. The test at
   `ipupdate_controller_test.go:884` has the record deleted; the one at line 781 has the deletion skipped for want of
   annotations, for which the code cannot tell its own records from others. There is no run of its own for it: put
   `GoesWithObject` for `NoLeak` in `IPUpdate_fresh_cache.cfg` and TLC finds `CreateIP`, `DeleteCR`, `Crash`, and the delete
   pass, in 17 states. `NoLeak` has `faults = 0` for it.

Two more races are in the models without a run of their own: NetBox deletes by id, so a record reassigned between the
comparison and the deletion is deleted (`ipupdate_controller.go:378-385`), and so are interfaces and addresses moved
after they were listed (`update_controller.go:298`); and a secret annotated `ignore` between two reads of one call is
still written by it (`ironcore_controller.go:278-285`, `metal3_controller.go:374-381`).

## Plan

A second `ClusterImport` in `IronCore`, with other credentials for the same device (`ironcore_controller.go:287`), which its
invariant does not cover yet. Runs are kept to one per question: a module added later merges its instance with one that is there.

## Not modelled

- The wrappers of the NetBox clients beyond what the controllers' steps show of them: one HTTP request each, no state.
- `internal/networkdata`, `api/v1alpha1`: data structures and generated code.
- Flags, schemes, leader election, health and metrics in `cmd/manager`: start-up code of libraries.
- What is wrong by design and has no order of steps to blame: two prefixes that get one pool name
  (`ippoolimport_controller.go:183`; the model has the case, `ReadyMeansPooled` counts the name's pool for both) and the
  panic on an IPv6 prefix (`ippoolimport_controller.go:286`; the model has the step, `StatusTracks` excepts it).
