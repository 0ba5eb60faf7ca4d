# A TLA+ model of PVPool

PVPool keeps pools of initialized Kubernetes volumes and hands them out.  A
`Pool` asks for a number of replicas, each a bound PersistentVolumeClaim whose
volume an init job has run on.  A `Checkout` takes one volume out of a pool and
gives it to its user as a claim of their own.

The code is two controllers and a webhook.  Each controller is a loop that reads
objects from caches, decides, and writes to the API server, one call at a time;
any call can fail, and anything may happen between two calls.  This directory
models that loop: the steps, not the YAML.

Paths below are relative to `src/`; `app/` is `pkg/controller/app/`.

## The system

| Component | State it keeps | Operations | Talks to |
|---|---|---|---|
| Checkout controller (`app/checkout_state.go`, `app/checkout.go`, `pkg/controller/reconciler/checkout.go`) | nothing of its own: the locked claim, the source volume, the user's claim, the copy, the status | Load, ConfigureCheckoutState, Persist, ConfigureCheckout | API server; reads the pool's replicas through `PoolState.Load` |
| Pool controller (`app/pool_state.go`, `app/pool.go`, `pkg/controller/reconciler/pool.go`) | the claims and init jobs of the replicas, the finalizer, the status | Load, Persist (initializing, available, scale, stale), Delete, ConfigurePool | API server |
| Pool replica (`app/pool_replica.go`) | the phase annotation of a claim; the init job | Load, Persist, Delete, Stale, Available, ConfigurePoolReplica | the pool controller and the checkout controller |
| Conditions (`app/condition.go`) | none | UpdateCondition | both statuses |
| Webhooks (`pkg/webhook`, `v1alpha1/validation`) | none | ValidateCreate, ValidateUpdate, RBAC Handle | API server, SubjectAccessReview |
| Wiring (`AddCheckoutReconcilerToManager`, `AddPoolReconcilerToManager`, `pkg/runtime`, `pkg/opt`, `cmd`) | work queue, informers, leader lease (all in libraries) | watches, rate limits, start | everything |
| Certificate controller (`cmd/pvpool-webhook-certificate-controller`) | a secret | create the secret | library reconcilers |

The two controllers never call each other.  They meet in the objects: the pool
controller marks a claim `Available`, the checkout controller re-points the
volume of that claim at a claim of its own, the pool controller later finds a
claim whose volume is gone and replaces it.

How a checkout takes a volume.  The *source* volume belongs to the pool's claim.
The controller creates `<checkout>-locked`, pre-bound to the source
(*lockClaim*); updates the source so that it refers to that claim, is set to
Retain and remembers its reclaim policy in an annotation (*lockVolume*); creates
the user's claim, pre-bound to a *copy* (*claim*); creates the copy, a second
PersistentVolume for the same storage with the original policy (*volume*).  When
the user's claim is bound it deletes the source and the locked claim.

### What is hard

- **Stale caches.**  Claims, volumes, jobs and pools each arrive through an
  informer of their own.  A reconcile can see a claim and not yet the volume
  that was written after it, or the other way round.
- **Failure between calls.**  Four writes and two deletes per checkout, and two
  calls per replica, each of which can be refused (conflict, invalid), fail, or
  be the last before a crash.
- **Races.**  Two checkouts over one volume, two over one claim name, the pool
  discarding the replica that is being taken, two pools with one selector,
  users deleting claims, checkouts and pools at any moment.
- **Liveness.**  Progress depends on which objects are watched and on every
  error being retried.

Each hazard is listed with its line and its properties in `PROJECT.json`.

### What makes each component correct

- Checkout controller: storage is in one hand at a time; a checkout ties up one
  volume; storage is never lost or deleted under its user; the original reclaim
  policy survives; the status tells the truth; a checkout is acquired in the end.
- Pool controller: nothing is offered before it was initialized, nor initialized
  while it is offered; other pools' claims are left alone; the pool settles at
  what was requested and says so only then; what was taken is removed; a deleted
  pool goes with everything it made.
- Webhooks: a volume leaves a pool only for somebody who may use the pool; the
  selector of a pool finds every claim it made; what is admitted of an init job
  is what runs, with a deadline.

## Modules

| Module | Models |
|---|---|
| `Cluster` | claims, volumes, caches, the volume controller, finalizers: Kubernetes as the checkout controller uses it (external) |
| `Checkout` | the checkout controller and the checkout webhooks, their properties (EXTENDS `Cluster`) |
| `Storage` | what the checkout controller promises of each piece of storage |
| `CheckoutRefinement` | theorem: `Checkout` implements `Storage` |
| `CheckoutProofs` | theorems about `Checkout`: the volumes |
| `HandoverProofs` | theorems about `Checkout`: the whole handover, when nobody deletes it |
| `MCCheckout` | instances of `Checkout` |
| `PoolSpec` | a pool's spec, its webhook, and what the controller makes of the templates |
| `PoolController` | the pool controller with pool replicas and init jobs, its properties (EXTENDS `PoolSpec`) |
| `ReplicaLife` | what the pool controller promises of each replica |
| `PoolProofs` | theorems about `PoolController`: the reconcile and its lists |
| `ReplicaProofs` | theorems about `PoolController`: replicas and their init jobs |
| `PoolRefinement` | theorem: `PoolController` implements `ReplicaLife` |
| `MCPool` | instances of `PoolController` |

### Checkout and Cluster

`rec` is the `CheckoutState` of the reconcile in progress and the call it makes
next (`pc`).  `Load(c)` is `CheckoutState.Load` with `ConfigureCheckoutState` up
to the first call: its disjuncts are the ways through it (no checkout, a claim
of somebody else, bound, locked, from the pool, nothing available, no pool).
`LockClaim`, `LockVolume`, `PersistClaim`, `PersistVolume`, `DropVolume`,
`DropClaim` and `WriteStatus` are the calls.  `InvalidClaim` and `WriteFails` are
what the API server may answer instead; both lead to the status, which is
written on every path because it is deferred, and then back to the queue.

`pvc`, `pv` are what the API server stores; `pvcCache`, `pvCache` what was
delivered last.  `SyncPvc` and `SyncPv` deliver one whole kind, so one kind may be
ahead of the other by any amount, and `SyncPvc` queues the checkouts whose
claims changed while `SyncPv` queues nobody, as `reconciler/checkout.go:86-90` says.

A write carries the object as it was loaded and is refused unless that is what
is stored: this stands for `resourceVersion`.  Deletes go by name; if the
object changed since it was loaded they may succeed or be refused, because
whether the library sends a precondition cannot be seen in this repository.

The pools appear as `PoolStock` (a replica becomes available), `PoolDiscard` and
`CreatePool`.  `PoolController` has the rest.  `PoolOf` says whose replica is whose.

`Reclaim` removes a released volume and its storage at once.  With the event
`slowReclaim` the provisioner may also take two steps (`ReclaimInSteps`): the storage
goes first (`DestroyStorage`), its volumes later (`DeleteDestroyed`), and what the
controller does in between, it does to a volume without storage.

A user may name another pool in a checkout at any time (`UserEditsCheckout`): if
the webhooks let them (`ValidateCheckoutUpdate` against the stored status,
`Reviewed` for the use of the new pool).  `granted` remembers who was ever allowed
what; `edited`, that the reconcile in progress works for the spec before, so that
its status will be refused.  The name of the claim a checkout asks for is fixed.

### Storage

A piece of storage is unmade, in a pool, locked for a checkout, given to the claim
that this checkout asks for, or gone.  It can go from lock to claim and back
(the claim is deleted while the lock is there) and be lost at any time; it can
never be given to another claim, locked for two, or come back to the pool.
`Custody` in `Checkout` is the refinement mapping: it reads the two volumes of
the storage, and, while the copy is being made, the reconcile (`InFlight`),
because the source may be gone by then.  A step of `Checkout` is a step of
`Storage` on one piece or a stutter.

### PoolController

`rec` is the `PoolState` of the reconcile in progress.  `Load` reads the caches
and sorts replicas into initializing, available and stale.  The loops of
`Persist` and `Delete` are operators that give the reconciles up to the next call
(`InitializingLoop`, `AvailableLoop`, `Scale`, `StaleLoop`, `DeleteLoop`); a set,
because `Pop` picks at random.  The calls are the actions: `Finalize`,
`SaveClaim`, `CreateJob`, `DropJob`, `DropClaim`, `Unfinalize`, `WriteStatus`,
and what may happen instead of them (`Refused`, `CallFails`, `StatusFails`).

A stored pool carries whether its status is `current` instead of the status
itself, which is a variable of its own: a copy of the pool is outdated exactly if
its spec or finalizer differ or its status is not the last one written.

A spec is `Specs[gen]`: every edit makes a new generation, and the webhook
(`ValidatePoolSpecUpdate`) decides which of them a user gets past it.  `PoolSpec`
keeps of a spec what decides something: the selector as the set of values it
accepts for each label, the labels of the claim template, whether it asks for an
existing volume, its access modes, the limits of the init job, whether its
template names the volume, and whether its pod ever ends.  `refused` marks a
template that the API server will not take although the webhook did.

`ConfiguredClaim` and `ConfiguredJob` are what `ConfigurePoolReplica` makes of them.
It writes the claim's name into the list of volumes of the template itself; when the
template has that volume the list is shared, so all jobs of one reconcile mount
the claim of the replica configured last (`MountedLast`).

Another pool with the same selector has claims of its own, and makes claims its own
that nobody controls (`ForeignClaim`, `AnotherAdopts`), also after this pool loaded
them.

`volume[r]` says whether the volume of a replica still refers to its claim
(`own`) or to a checkout's (`taken`).  `initialized` is the set of replicas on
whose volume an init job has completed; only properties read it.

### ReplicaLife

A replica is new, ready once an init job has completed on its volume, offered once
checkouts may choose it, taken, and may be removed at any time; it never goes back
a step.  `Life` in `PoolController` is the refinement mapping: it reads the stored
claim, its stage, its volume and `initialized`.  What the caches, the reconcile and
the jobs make of a replica is what it hides.

## Runs

All runs but those under "violated" pass.  `Events` and `Late` say what may happen
in a run, everything else always may.

| Run | Instance | Shows |
|---|---|---|
| MCCheckoutRace | 2 checkouts that ask for one claim name, 1 replica, the pool shrinks, templates refused | TypeOK, ExclusiveStorage, StorageSurvives, ReportedByOwner, LockIsFinal, KeepsCustody |
| MCCheckoutCrash | 1 checkout moved between 2 pools of 1 replica, crashes and failing calls | OneVolumePerCheckout, DropAfterHandover, StatusTruthful, NoStorageLost, PoolUseAuthorized |
| MCCheckoutDeleted | 1 checkout, 1 replica, the user deletes the claim or the checkout, crashes, storage deleted before its volumes, 2 generations of claims | RetainBeforeCopy, OriginalPolicyKept, KeepsCustody |
| MCCheckoutLive | 1 checkout, 2 replicas, fair, with resync | EventuallyAcquired, EventuallyNamed |
| MCPoolInit | 1 replica, claims, jobs and volumes late, crashes, failing calls and jobs, another pool that has and adopts claims, a checkout, 8 specs at and beyond the webhook's limits | InitializedBeforeOffered, NoJobOnOffered, OwnClaimsMatch, JobsAsAdmitted, OthersUntouched, TakenIsFinal, KeepsPromise |
| MCPoolSettle | 2 names, init job refused, then corrected, scaled to 2 and back to 1, claims late, fair | SettledAsRequested, EventuallySettled |
| MCPoolRecover | 1 name, init job that never ends, corrected, scaled to 0; a checkout, pool deleted, volumes late, fair, with resync | TypeOK, EventuallySettled, FailureReported, DeletionCompletes |

Violated, by what the code does against what a comment or document says; each is
a finding in `PROJECT.json`:

| Run | Property | What happens |
|---|---|---|
| MCCheckoutInvalid | InvalidOnlyForBadTemplate | a checkout with a good template is stuck as Invalid, its locked claim naming a volume it never locked |
| MCCheckoutReacquire | NewVolumeAfterDeletion | a claim deleted early is created again over storage that was reclaimed |
| MCCheckoutLeak | UnlockedCompletely | the source volume is left behind, set to Retain |
| MCPoolShared | InitializedBeforeOffered | an init job template that names its volume: two jobs mount one claim, the other claim is offered uninitialized |
| MCPoolQuota | EventuallySettled | a quota is full with the claim of a volume that was checked out: the replacement is refused before the old claim would be removed, for ever |

Divergences that no run states, because they are about a number, a name or a moment:
`README.md:89` limits init jobs to 600 seconds and `validation.go:18` to 300.
`CHANGELOG.md:38` says a checkout's spec is immutable once it has selected a volume;
`validation.go:91` looks at the stored status, which a reconcile on lagging caches
clears again, and between the lock and the first status there is none.  A pool
scaled to zero is reported Available once more, because `persistAvailable` sets
the condition before `persistScaleDown` removes the last replica.

Beyond the bounds of a run.  This is known to fail where no run looks (and more with
deletions, see `NoDeletions` under Proofs):

`NoStorageLost` when the user deletes claims, with two replicas.  The user deletes a claim that is bound while its
locked claim is on its way out; a reconcile that still sees that lock makes the
claim again over the same copy.  Once the locked claim is gone, and before the
cache shows the new claim bound, the next reconcile takes a second volume of the
pool and locks it (`checkout_state.go:161-166`); its claim is refused, because a
claim's volume never changes.  Then the claim shows as bound and the second source,
set to Retain, is dropped with its lock (`checkout_state.go:182-188`): its storage
exists and no volume names it.  This takes some forty steps and two generations of
claims; a directed search found it, a run of a few minutes over all of them does not
get there.  So no run with deletions checks `NoStorageLost`; with one replica, where
there is no second volume to take, it would hold and show nothing of this.

`StorageSurvives` when storage goes before its volume (`slowReclaim`).  The pool
discards a replica and the volume is released; a reconcile whose cache of claims
still shows the replica creates its locked claim; the provisioner deletes the storage;
*lockVolume* writes a volume that is as it was loaded, Released, and succeeds.
Nothing in `checkout_state.go` looks at the phase of a volume.

`NoJobOnOffered`, `OthersUntouched` and `TakenIsFinal` when a template names its volume:
in the instance of `MCPoolShared` (with a checkout for the last) the job of one
replica mounts the volume of another one that is offered, taken, or another pool's.
It is the defect of that finding seen from the other volume.

### Bounds

- Two checkouts or two replicas: every property is about one or two of each, and
  a third adds no new kind of conflict; the proofs cover any number.
- `MaxUid`: claims created under one name.  1 where nothing deletes a claim, 2
  where a user does (a first claim, and one that could be confused with it).
  `FewClaims` in `MCCheckoutDeleted` stops expanding after the second lock, when
  lock and first claim are both gone, when the second claim is deleted or has
  outlived the lock, after the deletion of a checkout that has a second claim,
  or neither a lock nor a source that is terminating, and when storage is deleted
  before its volumes and the checkout is deleted or has a second claim.  Each property
  of the run is a theorem without these bounds.  The view
  `Needed` drops what a reconcile loaded and will not read again.
- `Replicas` in the pool bounds how many names exist at once, and a name is used
  again once no trace of it is left (the code takes a fresh UUID).  With none
  left a replica is added in a later reconcile (`Scale`).  MCPoolSettle leaves
  a name to spare for the last generation.
- `Specs` in the order a user tries them: an edit goes to the next spec the webhook
  admits, so a run sees each spec and each of its successors, not every order.
- `granted` keeps a checkout from being moved to the same pool twice
  (`UserEditsCheckout`).
- `Quota` is 9, out of reach, but in MCPoolQuota; `MaxTaken` bounds checkouts in the
  pool's runs to one.
- `Late` names the caches that may lag; the others show each write before anything
  else happens.  Safety is checked with the caches of claims, jobs and volumes late
  in any combination; the pool's cache is in step, and an update on an old copy of the
  pool is refused as in every other cache.
- Symmetry is used in `MCCheckoutRace` over checkouts that differ in nothing but
  their name, and in `MCCheckoutCrash` over pools together with their replicas.
- `CHECK_DEADLOCK FALSE` everywhere: a settled pool and an acquired checkout
  have nothing left to do.

### Fairness

`Fairness` of `Checkout`: the work queue serves every checkout (strong, since one
worker serves them all), a reconcile goes on, informers deliver, the volume
controller acts, the pool exists and fills.  `Resync` stands for the manager's
periodic resync; `EventuallyNamed` fails without it, `EventuallyAcquired` does not.
`Fairness` of `PoolController` is the same, weak, per informer and, per replica, for
what Kubernetes does with it (`Platform(r)`: one of its steps stays enabled until
something is done).  `JobExpires` is the deadline of a job; it is what
`EventuallySettled` and `DeletionCompletes` rest on when a pod never ends.
Users, failures, crashes and checkouts are never obliged to act.

`EventuallySettled` speaks of a pool whose last spec is accepted and whose job
can end.  It is checked with the cache of claims late over two names, and with
the cache of volumes late over one.  Over two names with volumes late it fails: if
a bound claim may always again be seen before its volume, the pool may always again
add a replica and remove one; the code has no defence but that the race is rarely
lost (`app/pool_replica.go:79-84`).  No run covers that.  `FailureReported` is about
the status that reconciles go on overwriting: the failure is told again and again, not
once; with the pool's cache late an informer could hide every status from the next
reconcile for ever, so that cache is in step there.

## Proofs

The proofs hold for any sets of checkouts, replicas, pools, names, specs, labels,
any events, quota, bounds and lagging caches.  They assume `ClusterAssumption`,
`CheckoutAssumption`, `PoolSpecAssumption` and `PoolAssumption` only: the constants
have their types, and names of different kinds differ.

| Module | Theorem | |
|---|---|---|
| CheckoutProofs | TypeCorrect | `Spec => []TypeOK` |
| | Inductive | `Spec => []IInv` |
| | StorageIsExclusive | `Spec => []ExclusiveStorage` |
| | RetainedBeforeCopied | `Spec => []RetainBeforeCopy` |
| | PolicyIsKept | `Spec => []OriginalPolicyKept` |
| | LocksAreFinal | `Spec => LockIsFinal` |
| | PoolUseIsAuthorized | `Spec => []PoolUseAuthorized` |
| HandoverProofs | Handover | `NoDeletions /\ Spec => []HandoverInv` |
| | StorageIsKept | `NoDeletions /\ Spec => []NoStorageLost` |
| | StorageOutlivesThePool | `NoDeletions /\ Spec => []StorageSurvives` |
| | OneVolume | `NoDeletions /\ Spec => []OneVolumePerCheckout` |
| | SourceDroppedLast | `NoDeletions /\ Spec => []DropAfterHandover` |
| | StatusIsTrue | `NoDeletions /\ Spec => []StatusTruthful` |
| | ReportsAreOwn | `NoDeletions /\ Spec => []ReportedByOwner` |
| CheckoutRefinement | ImplementsStorage | `Spec => KeepsCustody` |
| PoolProofs | PoolTypeCorrect | `Spec => []TypeOK` |
| | SettledIsAsRequested | `Spec => []SettledAsRequested` |
| | OwnClaimsAreFound | `Spec => []OwnClaimsMatch` |
| | JobsRunAsAdmitted | `Spec => []JobsAsAdmitted` |
| ReplicaProofs | ReplicasInductive | `Spec => []RInv` |
| | OfferedOnceInitialized | `NoneNamesVolume /\ Spec => []InitializedBeforeOffered` |
| | OfferedIsQuiet | `NoneNamesVolume /\ Spec => []NoJobOnOffered` |
| | OthersAreUntouched | `NoneNamesVolume /\ Spec => OthersUntouched` |
| | TakenStaysTaken | `NoneNamesVolume /\ Spec => TakenIsFinal` |
| PoolRefinement | ImplementsReplicaLife | `NoneNamesVolume /\ Spec => KeepsPromise` |

Two hypotheses on the constants are not about types.  `NoDeletions`: the events
`deleteClaim`, `deleteCheckout` and `slowReclaim` are not among `Events`; every other
event (crashes, errors, refused templates, the pool's discards, moves between pools) is allowed.  The
code keeps the promises of the handover only to a checkout whose claim is left
alone: a copy goes with its claim while the source is still locked, the leftover of
`MCCheckoutLeak` is a second volume, and a claim made again may lose storage (see
Runs); and a volume that outlives its storage can be locked.  TLC refutes `DropAfterHandover`, `StatusTruthful`, `StorageSurvives` and
`ReportedByOwner` as soon as a checkout may be deleted: its claim and copy are
collected while its lock, the source that is being dropped, or the status written last
still says that it has them.
`MCCheckoutRace` and `MCCheckoutCrash`, which check these properties, have no such
events either.  `NoneNamesVolume`: no init job template lists the volume that
the controller adds to it; `MCPoolShared` shows that it is needed.  With it every job
mounts the volume of its own replica (`MountsItsOwn`), so what `NoJobOnOffered`,
`OthersUntouched` and `TakenIsFinal` say of all jobs on a volume (`Mounting`) follows from
what is proved of the job of that replica.

**Checkout.**  `ExclusiveStorage` is not inductive: a reconcile writes the copy
from what it loaded long before.  `IInv` adds what that can be.
`SourcesOK`: a source, stored or cached, is as the pool made it or as a lock leaves
it, nothing in between.  `LoadedOK`: so is the source a reconcile works with, and it
is the pool's or its own checkout's.  `LockHeld`: once *lockVolume* has succeeded,
the source stays with this checkout and no other has a copy of it, because every
other write to it carries an object that is no longer stored.  `ClaimsOK`: locked
claims name sources and users' claims name copies, so the two never mix.
`NotYetMade`: nothing refers to a replica before the pool made it.  Steps that
write no reference (`QuietVolumes`, `VolumesKept`) are handled by one lemma each;
the four that do have one of their own.  `LockIsFinal` follows from the invariant
and one look at each action; `RetainBeforeCopy` and `OriginalPolicyKept` from it
alone.

`PoolUseAuthorized` has an invariant of its own, `AccessInv`: the pool a checkout
names now is granted to it, and so is the pool of every source it has locked, in
the store, in the cache and in the reconcile.  Neither webhook alone gives it: the
reconcile uses the spec it loaded, which may have changed since.

**Handover.**  What happens to the storage of a checkout depends on its claims as much
as on its volumes, and the caches of the two lag independently.  `HandoverInv` adds to `IInv`
what claims say.  `LocksOK`: the locked claim comes first and goes last, it is
there as long as the checkout holds a source or has a claim, unless the
checkout is `Finished`: the cache shows its claim bound and no reconcile of it is
locking, which then stays so.  So a second volume is never taken: a reconcile
reaches the pool only without a locked claim, and whoever had one before is finished.
`UserClaimsOK`: a cached claim is an `Older` one, so what is seen bound is
bound.  `Lockers`: a source that the cache shows locked is locked by that checkout
still or gone for good, which is what makes the deletion by name safe.  `CopiesHeld` and
`DestroyedInPool`: a copy has its claim, and storage is deleted only where no lock
was and no reconcile believes one to be.  `ReconcileOK` and `ReportsOK` carry what was
loaded to the call that relies on it.  The lemmas go by the part of the invariant,
each over all actions, since most actions touch one kind of object.

**Refinement.**  `ImplementsStorage` goes by the actions: the ones that write no
volume leave `Custody` alone, the writes move one piece (`LockVolume` from the pool
to the lock, `PersistVolume` from the lock to the claim), what Kubernetes removes is
`Return` or `Lose`.  It rests on `IInv`.

**PoolController.**  `PInv` describes a reconcile between two calls: `Base` (the
stale and available lists are disjoint, a loaded job comes with its claim, a loaded
claim matches the selector, a settled reconcile counts what was requested), `Listed`
(until the scaling, what is listed was loaded, initializing and available replicas
are told apart and the available ones are bound and marked), `InLoop`
(the loop at hand has in `todo` only replicas of its list), `AtCall` (what the
guards on the way to a call established), `StoredOK` and `SeenOK` (claims and jobs, stored
or cached, were made from an admitted generation and match the selector, which no
admitted update changes).  The loops are sets of reconciles; a lemma per loop shows
that each of them keeps that shape, so that every call needs one argument instead
of one per way to it.  `SettledAsRequested` needs the lists to be disjoint and
`Scale` to be the only place that settles.

**Replicas.**  `InitializedBeforeOffered` and `NoJobOnOffered` are about what is
stored, but the controller acts on a claim and a job it loaded, from two caches, while
both may have changed or gone: a reconcile that does not know of a job that has
completed would start another.  `RInv` says which old copies can exist next to which stored objects.
`ReadyOK`: a job mounts its own volume and nothing, stored, cached or loaded, says it
completed before it did.  `QuietOK`: once anything says so, no other job runs while the
claim is there.  `JobOK` is what makes that inductive: a job the cache has not
seen was never deleted, one that was loaded and is no longer seen is gone, and next
to a claim that was loaded without its job there is no job that completed and went.
`CallOK`: a job is created only for a claim that was just written, and is not
available; the write is refused if the claim is not the one that was
loaded.  `TakenOK` says that a taken replica is marked as available and bound or
lost, so that the initializing loop never has it (`Unoffered` in `PoolProofs`).
`OtherOK` is about a claim that is not this pool's, because another pool has it or may
adopt it: it has no job, and no copy of it says that it was ever this pool's; what is
seen to be another pool's is not loaded.  A reconcile that loaded it before the
adoption is refused the write that comes before any job.  From these the two action
properties follow.  `OthersUntouched` excepts one step, which TLC reaches: a pool that
is being deleted deletes by name what it loaded.

**Refinement of the pool.**  `ImplementsReplicaLife` goes by the actions as well:
`SaveClaim` adds a replica or offers it, `JobCompletes` makes it ready, `TakeVolume`
takes it, `RemoveClaim` ends it, everything else leaves `Life` alone (`Neutral`).
It rests on `RInv` and on `LInv`: a volume that was initialized belongs to a claim of
the pool that is bound, and a replica that is offered is not configured again.  The
latter is no guard in the code but a consequence of how a reconcile sorts what it
loaded (`Unoffered` in `PoolProofs`).

Only model-checked: the liveness properties (out of the prover's reach, as is
ENABLED).  Every safety invariant and action property of a passing run is a theorem.

## Not modelled

- Labels of checkouts, annotations other than the two that matter, capacity, CSI
  readOnly, events, messages, rate limits, transition times of conditions.
- A compare-and-write by content instead of by version: an object that was
  changed and changed back counts as unchanged.
- Binding writes the claim and the volume in one step.
- The repository does not promise that the source of a checkout deleted between lock
  and handover goes.  It stays, set to Retain, and no property flags it.
- The checkout object is read directly, not through a cache; a deleted checkout or
  pool is not created again.
- Of a checkout's spec only the pool changes.  `claimName` and the claim template
  are constants.  A changed claim name would make the controller copy the
  locked volume a second time under the name the first copy has, which the API server
  refuses for ever.
- Users delete a claim only after it is bound.  The volume of a claim never
  changes once set (the API server forbids it).
- In `PoolController`, checkouts appear only as `TakeVolume`, a terminating init
  job does not complete, and errors while loading (`PoolState.Load`) are left out;
  they end a reconcile before it does anything.
- The syntax of labels, annotations and selectors, which the webhook leaves to the
  library; requests that the webhook cannot decode.
- Two leaders at the same time, the webhook server, certificates, options,
  generated code, manifests: wiring and declarations without steps of their own.

## Plan

1. *Done:* `Cluster`, `Checkout` with its webhooks, `Storage`, `PoolSpec`,
   `PoolController`, `ReplicaLife`, their runs; a theorem for every safety invariant
   and action property that a passing run checks, and both refinements.
2. Proofs: the promises of the handover for a checkout that may be deleted, as far
   as they hold then (`NoStorageLost` unless the claim is deleted), and with a
   provisioner that takes two steps, as far as they hold with it.
3. `PVPool`: both controllers over one set of claims and volumes, replacing
   `PoolStock`, `PoolDiscard` and `TakeVolume` by the real actions.  Each controller's
   module already contains what the other does to it, so this is a check of these
   three actions rather than of new behaviour.
