---------------------------- MODULE PoolController ----------------------------
(***************************************************************************)
(* The pool controller: it keeps as many initialized, bound claims as the  *)
(* pool requests.  A replica is a claim and the init job that runs on its  *)
(* volume once before the replica is offered to checkouts.                 *)
(*                                                                         *)
(* A reconcile loads what the caches show and sorts the replicas into      *)
(* initializing, available and stale.  Then, one API call after another,   *)
(* it persists the first two, adds or removes one replica, removes the     *)
(* stale ones, and writes the status.  Any call may be refused, fail, or   *)
(* be the last before a crash.  Claims, jobs, volumes and the pool reach   *)
(* the controller through separate caches.                                 *)
(*                                                                         *)
(* Checkouts appear only as the step that takes the volume of an available *)
(* replica; module Checkout has that in full.                              *)
(***************************************************************************)
EXTENDS PoolSpec, Sequences, FiniteSets

CONSTANTS
  Replicas,   \* names of replicas: bound on how many exist at a time
  Us,         \* the pool, as a controller of claims
  Another,    \* another pool with the same selector
  Nobody,     \* the controller of a claim that has none
  Specs,      \* the specs a user may give the pool, by generation
  Quota,      \* how many claims the namespace may hold (a ResourceQuota)
  MaxTaken,   \* bound: how many volumes checkouts may take
  Events,     \* which optional events the environment takes part in
  Late        \* bound: the caches that may lag; the others show at once
              \* what is stored

AllEvents == {"crash", "error", "jobFails", "foreign", "deletePool", "resync"}

ASSUME PoolAssumption ==
  /\ Us # Another /\ Nobody \notin {Us, Another} \cup Replicas
  /\ IsFiniteSet(Replicas)
  /\ Specs \in Seq(PoolSpecs) /\ Specs # <<>>
  /\ Quota \in Nat /\ MaxTaken \in Nat
  /\ Events \subseteq AllEvents
  /\ Late \subseteq {"pool", "claims", "jobs", "volumes"}

VARIABLES
  pool, claim, job, volume,                        \* stored by the API server
  poolCache, claimCache, jobCache, volumeCache,    \* last seen by informers
  status,       \* the status of the pool, as it was written last
  initialized,  \* replicas whose volume an init job has completed on
  taken,        \* how many volumes checkouts took
  rec,          \* the reconcile in progress
  queued        \* whether the pool waits in the work queue

caches == <<poolCache, claimCache, jobCache, volumeCache>>
history == <<initialized, taken>>
stored == <<pool, claim, job, volume>>
vars == <<stored, status, caches, history, rec, queued>>

-----------------------------------------------------------------------------
(* Objects *)

Metas == {"absent", "live", "terminating"}
Generations == 0 .. Len(Specs)
Stages == {"none", "Initializing", "Available"}
AvailableValues == {"Unknown", "False", "True"}
SettlementValues == {"Unknown", "Invalid", "InitJobFailed", "Settled"}

Statuses == [gen : Generations, replicas : Nat, available : Nat,
             Available : AvailableValues, Settlement : SettlementValues]

(* Of the status in a copy of the pool it matters only whether it is the   *)
(* one written last.                                                       *)
Pools == [meta : Metas, gen : Generations, finalizer : BOOLEAN,
          current : BOOLEAN]
Claims == [meta : Metas, controller : {Us, Another, Nobody},
           phase : {"none", "Pending", "Bound", "Lost"}, stage : Stages,
           labels : Labels, dynamic : BOOLEAN]

(* A job runs a template of the pool on the volume of a replica.           *)
Jobs == [meta : Metas, cond : {"none", "Running", "Complete", "Failed"},
         template : MountJobs, mounts : Replicas \cup {Nobody}]

(* The volume of a replica: none yet, the claim's own, or one that refers  *)
(* to the claim of a checkout.                                             *)
Volumes == {"none", "own", "taken"}

NoStatus == [gen |-> 0, replicas |-> 0, available |-> 0,
             Available |-> "Unknown", Settlement |-> "Unknown"]
NoPool == [meta |-> "absent", gen |-> 0, finalizer |-> FALSE,
           current |-> TRUE]
NoClaim == [meta |-> "absent", controller |-> Nobody, phase |-> "none",
            stage |-> "none", labels |-> [k \in Keys |-> Unset],
            dynamic |-> FALSE]
NoJob == [meta |-> "absent", cond |-> "none", 
          template |-> DefaultPoolReplicaInitJob, mounts |-> Nobody]

Exists(o) == o.meta # "absent"
Terminating(o) == [o EXCEPT !.meta = "terminating"]
Running(j) == j.meta = "live" /\ j.cond = "Running"
JobSpec(j) == ConfiguredJob(j.template)

Calls == {"finalize", "saveClaim", "createJob", "dropJob", "dropClaim",
          "unfinalize", "status"}
Loops == {"none", "initializing", "available", "scaleUp", "scaleDown",
          "stale", "delete"}

(* A reconcile: its next call, what it loaded, the lists it sorted that    *)
(* into, the conditions it found, the loop it is in, the replicas this     *)
(* loop has left, the replica the next call is for, and the replica whose  *)
(* claim was written last into the template's own list of volumes.         *)
Recs == [at           : {"idle"} \cup Calls,
         pool         : Pools,
         claim        : [Replicas -> Claims],
         job          : [Replicas -> Jobs],
         initializing : SUBSET Replicas,
         available    : SUBSET Replicas,
         stale        : SUBSET Replicas,
         Available    : AvailableValues,
         Settlement   : SettlementValues,
         loop         : Loops,
         todo         : SUBSET Replicas,
         r            : Replicas \cup {Nobody},
         mounted      : Replicas \cup {Nobody},
         failed       : BOOLEAN]

Idle == [at |-> "idle", pool |-> NoPool,
         claim |-> [r \in Replicas |-> NoClaim],
         job |-> [r \in Replicas |-> NoJob],
         initializing |-> {}, available |-> {}, stale |-> {},
         Available |-> "Unknown", Settlement |-> "Unknown", 
         loop |-> "none", todo |-> {}, r |-> Nobody, mounted |-> Nobody,
         failed |-> FALSE]

(* Type invariant: stored, cached and loaded objects are API objects, and  *)
(* a call for a replica has a replica.                                     *)
TypeOK ==
  /\ pool \in Pools /\ poolCache \in Pools
  /\ claim \in [Replicas -> Claims] /\ claimCache \in [Replicas -> Claims]
  /\ job \in [Replicas -> Jobs] /\ jobCache \in [Replicas -> Jobs]
  /\ volume \in [Replicas -> Volumes] /\ volumeCache \in [Replicas -> Volumes]
  /\ status \in Statuses /\ initialized \subseteq Replicas
  /\ taken \in 0 .. MaxTaken
  /\ rec \in Recs /\ queued \in BOOLEAN
  /\ rec.at \in {"saveClaim", "createJob", "dropJob", "dropClaim"}
       => rec.r \in Replicas
  /\ rec.at # "idle" => rec.pool.gen > 0

Init ==
  /\ ValidatePoolSpec(Specs[1])
  /\ pool = [NoPool EXCEPT !.meta = "live", !.gen = 1]
  /\ claim = [r \in Replicas |-> NoClaim] /\ claimCache = claim
  /\ job = [r \in Replicas |-> NoJob] /\ jobCache = job
  /\ volume = [r \in Replicas |-> "none"] /\ volumeCache = volume
  /\ poolCache = pool
  /\ status = NoStatus /\ initialized = {} /\ taken = 0
  /\ rec = Idle /\ queued = TRUE

-----------------------------------------------------------------------------
(* Load *)

(* Mutant: the controller of a claim is not looked at. *)
SeenAnyController(r) ==
  /\ Exists(claimCache[r])
  /\ claimCache[r].phase = "Bound" => volumeCache[r] = "own"

(* The list by selector, PoolReplica.Load and the ownership check: a bound *)
(* claim counts only with the volume that names it back, and a claim of    *)
(* another controller never.                                               *)
Seen(r) ==
  /\ Exists(claimCache[r])
  /\ Matches(Specs[poolCache.gen].selector, claimCache[r].labels)
  /\ claimCache[r].phase = "Bound" => volumeCache[r] = "own"
  /\ claimCache[r].controller # Another

(* Mutant: a claim that lost its volume is kept. *)
StaleUnlessLost(c, j) == c.meta = "terminating" \/ j.cond = "Failed"

Stale(c, j) ==
  c.meta = "terminating" \/ c.phase = "Lost" \/ j.cond = "Failed"

(* PoolState.Load: the caches' objects, sorted by what the replicas are    *)
(* worth.                                                                  *)
Loaded ==
  LET seen == {r \in Replicas : Seen(r)}
      stale == {r \in seen : Stale(claimCache[r], jobCache[r])}
      available == {r \in seen \ stale : /\ claimCache[r].phase = "Bound"
                                         /\ claimCache[r].stage = "Available"}
  IN [Idle EXCEPT 
        !.at = "finalize", !.pool = poolCache,
        !.claim = [r \in Replicas |-> 
                     IF r \in seen THEN claimCache[r] ELSE NoClaim], 
        !.job = [r \in Replicas |-> IF r \in seen THEN jobCache[r] ELSE NoJob],
        !.stale = stale, !.available = available,
        !.initializing = seen \ (stale \cup available)]

(* Mutant: a pool that is gone is reconciled. *)
LoadDeleted ==
  /\ rec.at = "idle" /\ queued
  /\ queued' = FALSE
  /\ rec' = Loaded
  /\ UNCHANGED <<stored, status, caches, history>>

Load ==
  /\ rec.at = "idle" /\ queued
  /\ queued' = FALSE
  /\ rec' = IF Exists(poolCache) THEN Loaded ELSE rec
  /\ UNCHANGED <<stored, status, caches, history>>

-----------------------------------------------------------------------------
(* Between two calls: the loops of Persist and Delete.  Each operator gives *)
(* the reconciles that the given one may become, up to its next call.      *)

(* A new replica has a name nobody ever used; a name of which no trace is  *)
(* left is as good.                                                        *)
Unused(r) ==
  /\ ~Exists(claim[r]) /\ ~Exists(claimCache[r]) /\ ~Exists(rec.claim[r])
  /\ ~Exists(job[r]) /\ ~Exists(jobCache[r])
  /\ volume[r] = "none" /\ volumeCache[r] = "none"

(* Mutant: any job marks the replica as initialized. *)
MarkedWithAnyJob(l, r) ==
  IF l.loop \notin {"initializing", "scaleUp"} THEN l.claim[r].stage
  ELSE IF Exists(l.job[r]) THEN "Available" ELSE "Initializing"

(* Mutant: a replica that is available is configured anew. *)
MarkedAnew(l, r) ==
  IF l.job[r].cond = "Complete" THEN "Available" ELSE "Initializing"

(* The stage ConfigurePoolReplica gives a replica before it is persisted. *)
Marked(l, r) ==
  IF l.loop \notin {"initializing", "scaleUp"} THEN l.claim[r].stage
  ELSE IF l.job[r].cond = "Complete" THEN "Available" ELSE "Initializing"

Offered(l, r) == l.claim[r].phase = "Bound" /\ Marked(l, r) = "Available"

(* What a reconcile that makes no more calls for replicas still needs. *)
Ending(l) == [Idle EXCEPT !.at = "status", !.pool = l.pool,
                !.initializing = l.initializing, !.available = l.available,
                !.stale = l.stale, !.Available = l.Available,
                !.Settlement = l.Settlement, !.failed = l.failed]
Failed(l) == [Ending(l) EXCEPT !.failed = TRUE]

Call(l, at, rs) == {[l EXCEPT !.at = at, !.r = r, !.todo = @ \ {r}] : r \in rs}

(* Mutant: a failed init job is not reported. *)
StaleLoopQuietly(l) ==
  IF l.todo = {} THEN {Ending(l)} ELSE Call(l, "dropJob", l.todo)

(* persistStale *)
StaleLoop(l) ==
  IF l.todo = {} THEN {Ending(l)}
  ELSE {[m EXCEPT !.Settlement = IF m.job[m.r].cond = "Failed"
                                 THEN "InitJobFailed" ELSE @] :
          m \in Call(l, "dropJob", l.todo)}

(* What was loaded of the other replicas is not looked at again. *)
ToStale(l) ==
  StaleLoop([l EXCEPT !.loop = "stale", !.todo = l.stale,
     !.claim = [r \in Replicas |-> IF r \in l.stale THEN @[r] ELSE NoClaim],
     !.job = [r \in Replicas |-> IF r \in l.stale THEN @[r] ELSE NoJob]])

(* Mutant: replicas that are still initializing count as settled. *)
SettledEarly(l) == [l EXCEPT !.Settlement = "Settled"]

Settled(l) ==
  IF l.initializing = {} THEN [l EXCEPT !.Settlement = "Settled"] ELSE l

(* persistScale: one replica more, one less, or none.  Bound: with no name *)
(* left a replica is added in a later reconcile.                           *)
Scale(l) ==
  LET actual == Cardinality(l.available \cup l.initializing)
      request == Request(Specs[l.pool.gen])
      unused == {r \in Replicas : Unused(r)}
  IN CASE actual < request /\ unused = {} -> ToStale(l)
       [] actual < request /\ unused # {} ->
            Call([l EXCEPT !.loop = "scaleUp"], "saveClaim", unused)
       [] actual > request ->
            Call([l EXCEPT !.loop = "scaleDown"], "dropJob",
                 IF l.initializing # {} THEN l.initializing ELSE l.available)
       [] actual = request -> ToStale(Settled(l))

(* persistAvailable *)
AvailableLoop(l) ==
  IF l.todo = {} THEN Scale(l) ELSE Call(l, "dropJob", l.todo)

(* persistInitializing *)
InitializingLoop(l) ==
  IF l.todo = {} 
  THEN AvailableLoop([l EXCEPT !.loop = "available", !.todo = l.available])
  ELSE Call(l, "dropJob", {r \in l.todo : Offered(l, r)})
         \cup Call(l, "saveClaim", {r \in l.todo : ~Offered(l, r)})

(* Delete, for a pool that is being deleted *)
DeleteLoop(l) ==
  IF l.todo = {} THEN {[l EXCEPT !.at = "unfinalize"]} 
                 ELSE Call(l, "dropJob", l.todo)

(* The last call for the replica at hand has succeeded. *)
Done(l) ==
  LET r == l.r
      without == [l EXCEPT !.initializing = @ \ {r}, !.available = @ \ {r},
                           !.stale = @ \ {r}]
  IN CASE l.loop = "initializing" -> 
            InitializingLoop(
              IF Offered(l, r) 
              THEN [without EXCEPT !.available = l.available \cup {r}] ELSE l)
       [] l.loop = "available" -> AvailableLoop([l EXCEPT !.Available = "True"])
       [] l.loop = "scaleUp" ->
            ToStale([l EXCEPT !.initializing = @ \cup {r}])
       [] l.loop = "scaleDown" -> ToStale(without)
       [] l.loop = "stale" -> StaleLoop(without)
       [] l.loop = "delete" -> DeleteLoop(without)

-----------------------------------------------------------------------------
(* The calls *)

(* ConfigurePoolReplica writes the claim of a replica into the list of     *)
(* volumes of the job's template.  A template that has the volume already  *)
(* is not copied, so the last replica configured is in all their jobs.     *)
MountedLast(p) ==
  LET uninitialized == {r \in rec.initializing : rec.job[r].cond # "Complete"}
  IN IF InitJob(Specs[p.gen]).namesVolume /\ uninitialized # {}
     THEN uninitialized ELSE {Nobody}

(* ConfigurePoolState, then the first loop of Persist. *)
Configured(p) ==
  UNION {InitializingLoop(
           [rec EXCEPT !.pool = p, !.loop = "initializing", 
              !.todo = rec.initializing, !.mounted = last,
              !.Available = IF Specs[p.gen].replicas = 0 THEN "False" ELSE @]) :
           last \in MountedLast(p)}

Finalize ==
  /\ rec.at = "finalize"
  /\ \/ /\ rec.pool.meta = "live" /\ rec.pool.finalizer
        /\ rec' \in Configured(rec.pool)
        /\ UNCHANGED pool
     \/ /\ rec.pool.meta = "live" /\ ~rec.pool.finalizer
        /\ pool = rec.pool
        /\ pool' = [pool EXCEPT !.finalizer = TRUE]
        /\ rec' \in Configured(pool')
     \/ /\ rec.pool.meta = "terminating"
        /\ rec' \in DeleteLoop([rec EXCEPT !.loop = "delete", !.todo =
                     rec.initializing \cup rec.available \cup rec.stale])
        /\ UNCHANGED pool
  /\ UNCHANGED <<claim, job, volume, status, caches, history, queued>>

Unfinalize ==
  /\ rec.at = "unfinalize"
  /\ pool = rec.pool
  /\ pool' = NoPool
  /\ rec' = Idle
  /\ UNCHANGED <<claim, job, volume, status, caches, history, queued>>

Wanted == Specs[rec.pool.gen]

(* The claim Persist writes: owned by the pool, with its stage and the     *)
(* labels of the template.                                                 *)
Written(r) ==
  LET old == rec.claim[r] 
      new == IF Exists(old) THEN old 
             ELSE [NoClaim EXCEPT !.meta = "live", !.phase = "Pending",
                     !.dynamic = ConfiguredClaim(Wanted.template).dynamic]
  IN [new EXCEPT !.controller = Us, !.stage = Marked(rec, r),
                 !.labels = Merged(@, Wanted.template.labels)]

NewJob(r) == 
  [meta |-> "live", cond |-> "Running", template |-> InitJob(Wanted),
   mounts |-> IF rec.loop = "initializing" /\ rec.mounted # Nobody
              THEN rec.mounted ELSE r]

(* What the API server refuses as invalid. *)
BadClaim == 
  /\ ~Exists(rec.claim[rec.r])
  /\ \/ Wanted.refused = "claim" 
     \/ ConfiguredClaim(Wanted.template).modes = {}
BadJob == Wanted.refused = "job"

(* A new claim beyond the quota is forbidden, which is not invalid. *)
OverQuota ==
  /\ ~Exists(rec.claim[rec.r])
  /\ Cardinality({r \in Replicas : Exists(claim[r])}) >= Quota

(* Mutant: the version of the claim is not compared. *)
SaveClaimBlindly ==
  /\ rec.at = "saveClaim" /\ ~BadClaim /\ ~OverQuota
  /\ claim' = [claim EXCEPT ![rec.r] = Written(rec.r)]
  /\ LET l == [rec EXCEPT !.claim[rec.r] = Written(rec.r)] IN
     rec' \in IF Offered(l, rec.r) \/ Exists(rec.job[rec.r]) 
              THEN Done(l) ELSE {[l EXCEPT !.at = "createJob"]}
  /\ UNCHANGED <<pool, job, volume, status, caches, history, queued>>

(* Mutant: only a new claim gets a job. *)
SaveClaimOnlyNewJob ==
  /\ rec.at = "saveClaim" /\ ~BadClaim /\ ~OverQuota
  /\ claim[rec.r] = rec.claim[rec.r]
  /\ claim' = [claim EXCEPT ![rec.r] = Written(rec.r)]
  /\ LET l == [rec EXCEPT !.claim[rec.r] = Written(rec.r)] IN
     rec' \in IF Offered(l, rec.r) \/ Exists(rec.claim[rec.r])
              THEN Done(l) ELSE {[l EXCEPT !.at = "createJob"]}
  /\ UNCHANGED <<pool, job, volume, status, caches, history, queued>>

(* An existing job is left alone: it can not be reconfigured. *)
SaveClaim ==
  /\ rec.at = "saveClaim" /\ ~BadClaim /\ ~OverQuota
  /\ claim[rec.r] = rec.claim[rec.r]
  /\ claim' = [claim EXCEPT ![rec.r] = Written(rec.r)]
  /\ LET l == [rec EXCEPT !.claim[rec.r] = Written(rec.r)] IN
     rec' \in IF Offered(l, rec.r) \/ Exists(rec.job[rec.r]) 
              THEN Done(l) ELSE {[l EXCEPT !.at = "createJob"]}
  /\ UNCHANGED <<pool, job, volume, status, caches, history, queued>>

CreateJob ==
  /\ rec.at = "createJob" /\ ~BadJob
  /\ ~Exists(job[rec.r])
  /\ job' = [job EXCEPT ![rec.r] = NewJob(rec.r)]
  /\ rec' \in Done(rec)
  /\ UNCHANGED <<pool, claim, volume, status, caches, history, queued>>

DropJob ==
  /\ rec.at = "dropJob"
  /\ IF Exists(rec.job[rec.r]) /\ Exists(job[rec.r])
     THEN job' = [job EXCEPT ![rec.r] = Terminating(@)] ELSE UNCHANGED job
  /\ rec' = [rec EXCEPT !.at = IF rec.loop \in {"initializing", "available"}
                               THEN "saveClaim" ELSE "dropClaim"]
  /\ UNCHANGED <<pool, claim, volume, status, caches, history, queued>>

DropClaim ==
  /\ rec.at = "dropClaim"
  /\ IF Exists(claim[rec.r])
     THEN claim' = [claim EXCEPT ![rec.r] = Terminating(@)]
     ELSE UNCHANGED claim
  /\ rec' \in Done(rec)
  /\ UNCHANGED <<pool, job, volume, status, caches, history, queued>>

(* The template is invalid: reported only for a new replica. *)
Refused ==
  /\ \/ rec.at = "saveClaim" /\ BadClaim
     \/ rec.at = "createJob" /\ BadJob
  /\ rec' = IF rec.loop = "scaleUp" 
            THEN [Failed(rec) EXCEPT !.Settlement = "Invalid"] 
            ELSE Failed(rec)
  /\ UNCHANGED <<stored, status, caches, history, queued>>

(* The object written is not the one that was loaded, or one too many. *)
Outdated ==
  \/ /\ rec.at = "finalize" /\ rec.pool.meta = "live" /\ ~rec.pool.finalizer
     /\ pool # rec.pool
  \/ rec.at = "unfinalize" /\ pool # rec.pool
  \/ rec.at = "saveClaim" /\ (OverQuota \/ claim[rec.r] # rec.claim[rec.r])
  \/ rec.at = "createJob" /\ Exists(job[rec.r])
  \/ rec.at = "dropJob" /\ Exists(rec.job[rec.r])
       /\ job[rec.r] \notin {rec.job[rec.r], NoJob}
  \/ rec.at = "dropClaim" /\ claim[rec.r] \notin {rec.claim[rec.r], NoClaim}

CallFails ==
  /\ rec.at \in Calls \ {"status"}
  /\ Outdated \/ "error" \in Events
  /\ rec' = Failed(rec)
  /\ UNCHANGED <<stored, status, caches, history, queued>>

-----------------------------------------------------------------------------
(* ConfigurePool and PersistStatus, deferred: they run on every path but   *)
(* write nothing for a pool that is being deleted.                         *)

NewStatus ==
  [gen |-> rec.pool.gen,
   replicas |-> Cardinality(rec.available) + Cardinality(rec.initializing)
                  + Cardinality(rec.stale),
   available |-> Cardinality(rec.available),
   Available |-> rec.Available,
   Settlement |-> rec.Settlement]

WriteStatus ==
  /\ rec.at = "status"
  /\ \/ rec.pool.meta = "terminating" /\ UNCHANGED <<status, poolCache>>
     \/ /\ rec.pool.meta = "live" /\ pool = rec.pool
        /\ status' = NewStatus
        /\ poolCache' = [poolCache EXCEPT !.current = @ /\ status' = status]
  /\ queued' = (queued \/ rec.failed)
  /\ rec' = Idle
  /\ UNCHANGED <<stored, claimCache, jobCache, volumeCache, history>>

StatusFails ==
  /\ rec.at = "status" /\ rec.pool.meta = "live"
  /\ pool # rec.pool \/ "error" \in Events
  /\ queued' = TRUE
  /\ rec' = Idle
  /\ UNCHANGED <<stored, status, caches, history>>

Step ==
  \/ Load \/ Finalize \/ Unfinalize
  \/ SaveClaim \/ CreateJob \/ DropJob \/ DropClaim
  \/ Refused \/ WriteStatus
Fail == CallFails \/ StatusFails

-----------------------------------------------------------------------------
(* Informers.  The pool, its claims and the init jobs, which carry an      *)
(* annotation naming the pool, queue it; volumes do not.                   *)

SyncPool ==
  /\ poolCache # pool
  /\ poolCache' = pool /\ queued' = TRUE
  /\ UNCHANGED <<stored, status, history, rec>>
  /\ UNCHANGED <<claimCache, jobCache, volumeCache>>

SyncClaims ==
  /\ claimCache # claim
  /\ claimCache' = claim
  /\ queued' = (queued \/ \E r \in Replicas : 
                   /\ claim[r] # claimCache[r]
                   /\ Us \in {claim[r].controller, claimCache[r].controller})
  /\ UNCHANGED <<stored, status, history, rec>>
  /\ UNCHANGED <<poolCache, jobCache, volumeCache>>

SyncJobs ==
  /\ jobCache # job
  /\ jobCache' = job /\ queued' = TRUE
  /\ UNCHANGED <<stored, status, history, rec>>
  /\ UNCHANGED <<poolCache, claimCache, volumeCache>>

SyncVolumes ==
  /\ volumeCache # volume
  /\ volumeCache' = volume
  /\ UNCHANGED <<stored, status, history, rec, queued>>
  /\ UNCHANGED <<poolCache, claimCache, jobCache>>

(* The process stops anywhere and another lists everything anew. *)
Crash ==
  /\ "crash" \in Events /\ rec.at # "idle"
  /\ rec' = Idle /\ queued' = TRUE
  /\ poolCache' = pool /\ claimCache' = claim 
  /\ jobCache' = job /\ volumeCache' = volume
  /\ UNCHANGED <<stored, status, history>>

(* No cache that must not lag does. *)
Prompt ==
  /\ "pool" \in Late \/ poolCache = pool
  /\ "claims" \in Late \/ claimCache = claim
  /\ "jobs" \in Late \/ jobCache = job
  /\ "volumes" \in Late \/ volumeCache = volume

Informers == SyncPool \/ SyncClaims \/ SyncJobs \/ SyncVolumes
Controller == UNCHANGED <<status, caches, rec, queued>>

-----------------------------------------------------------------------------
(* Kubernetes: volumes are provisioned, jobs run, finalizers and the       *)
(* garbage collector remove what was deleted.                              *)

Bind(r) ==
  /\ claim[r].meta = "live" /\ claim[r].phase = "Pending"
  /\ claim[r].dynamic
  /\ claim' = [claim EXCEPT ![r].phase = "Bound"]
  /\ volume' = [volume EXCEPT ![r] = "own"]
  /\ UNCHANGED <<pool, job, history>> /\ Controller

(* A pod starts only once the claim it mounts is bound. *)
JobCompletes(r) ==
  /\ Running(job[r]) /\ ~JobSpec(job[r]).hangs
  /\ claim[job[r].mounts].phase = "Bound"
  /\ job' = [job EXCEPT ![r].cond = "Complete"]
  /\ initialized' = initialized \cup {job[r].mounts}
  /\ UNCHANGED <<pool, claim, volume, taken>> /\ Controller

JobFails(r) ==
  /\ "jobFails" \in Events
  /\ Running(job[r])
  /\ job' = [job EXCEPT ![r].cond = "Failed"]
  /\ UNCHANGED <<pool, claim, volume, history>> /\ Controller

(* A pod that would run for ever is stopped at the deadline of its job.    *)
JobExpires(r) ==
  /\ Running(job[r]) /\ JobSpec(job[r]).hangs
  /\ JobSpec(job[r]).activeDeadlineSeconds # Unset
  /\ job' = [job EXCEPT ![r].cond = "Failed"]
  /\ UNCHANGED <<pool, claim, volume, history>> /\ Controller

(* A job goes once it is deleted or the claim that owns it is gone. *)
RemoveJob(r) ==
  /\ Exists(job[r])
  /\ job[r].meta = "terminating" \/ ~Exists(claim[r])
  /\ job' = [job EXCEPT ![r] = NoJob]
  /\ UNCHANGED <<pool, claim, volume, history>> /\ Controller

(* A running init job blocks the removal of the claim, unless its pod waits *)
(* for the claim to be bound, which never happens.                         *)
RemoveClaim(r) ==
  /\ claim[r].meta = "terminating"
  /\ claim[r].phase = "Pending" 
       \/ \A s \in Replicas : job[s].mounts = r => job[s].cond # "Running"
  /\ claim' = [claim EXCEPT ![r] = NoClaim]
  /\ volume' = [volume EXCEPT ![r] = "none"]
  /\ initialized' = initialized \ {r}
  /\ UNCHANGED <<pool, job, taken>> /\ Controller

LoseClaim(r) ==
  /\ claim[r].phase = "Bound" /\ volume[r] = "taken"
  /\ claim' = [claim EXCEPT ![r].phase = "Lost"]
  /\ UNCHANGED <<pool, job, volume, history>> /\ Controller

(* The claims of a pool that is gone are deleted. *)
Collect(r) ==
  /\ ~Exists(pool)
  /\ claim[r].meta = "live" /\ claim[r].controller = Us
  /\ claim' = [claim EXCEPT ![r] = Terminating(@)]
  /\ UNCHANGED <<pool, job, volume, history>> /\ Controller

Platform(r) ==
  \/ Bind(r) \/ JobCompletes(r) \/ JobExpires(r) \/ RemoveJob(r) 
  \/ RemoveClaim(r) \/ LoseClaim(r) \/ Collect(r)

-----------------------------------------------------------------------------
(* Checkouts, users and another pool *)

(* Checkout.LockVolume. *)
TakeVolume(r) ==
  /\ taken < MaxTaken
  /\ claim[r].controller = Us /\ claim[r].phase = "Bound"
  /\ claim[r].stage = "Available" /\ volume[r] = "own"
  /\ volume' = [volume EXCEPT ![r] = "taken"]
  /\ taken' = taken + 1
  /\ UNCHANGED <<pool, claim, job, initialized>> /\ Controller

(* The webhook compares the new spec with the stored one.  Bound: users    *)
(* try the specs in the order of Specs.                                    *)
UserEdits ==
  /\ pool.meta = "live"
  /\ LET admitted == {g \in Generations : 
            /\ g > pool.gen
            /\ ValidatePoolSpecUpdate(Specs[g], Specs[pool.gen])}
     IN \E g \in admitted :
          /\ \A h \in admitted : g <= h
          /\ pool' = [pool EXCEPT !.gen = g]
  /\ UNCHANGED <<claim, job, volume, history>> /\ Controller

UserDeletesPool ==
  /\ "deletePool" \in Events
  /\ pool.meta = "live"
  /\ pool' = IF pool.finalizer THEN Terminating(pool) ELSE NoPool
  /\ UNCHANGED <<claim, job, volume, history>> /\ Controller

(* A bound claim that matches the selector appears: a replica of another   *)
(* pool, or a claim that nothing controls.                                 *)
ForeignClaim(r) ==
  /\ "foreign" \in Events
  /\ Unused(r) /\ Exists(pool)
  /\ \E c \in {Another, Nobody} :
       claim' = [claim EXCEPT ![r] = 
         [NoClaim EXCEPT !.meta = "live", !.controller = c, !.phase = "Bound",
                         !.labels = Specs[pool.gen].template.labels]]
  /\ volume' = [volume EXCEPT ![r] = "own"]
  /\ UNCHANGED <<pool, job, history>> /\ Controller

(* Another pool that saw such a claim makes it its own. *)
AnotherAdopts(r) ==
  /\ "foreign" \in Events
  /\ claim[r].meta = "live" /\ claim[r].controller = Nobody
  /\ claim' = [claim EXCEPT ![r].controller = Another]
  /\ UNCHANGED <<pool, job, volume, history>> /\ Controller

(* The manager's periodic resync queues the pool. *)
Resync ==
  /\ "resync" \in Events
  /\ ~queued
  /\ queued' = TRUE
  /\ UNCHANGED <<stored, status, caches, history, rec>>

Environment ==
  \/ \E r \in Replicas : 
       TakeVolume(r) \/ ForeignClaim(r) \/ AnotherAdopts(r) \/ JobFails(r)
  \/ UserEdits \/ UserDeletesPool \/ Resync

Next == 
  \/ Informers
  \/ Prompt /\ (Step \/ Fail \/ Crash \/ Environment)
  \/ Prompt /\ \E r \in Replicas : Platform(r)

Spec == Init /\ [][Next]_vars

(* The work queue serves the pool, informers deliver, Kubernetes binds,    *)
(* runs jobs and removes what was deleted.  Nothing obliges users,         *)
(* checkouts, failures or crashes to happen.                               *)
Fairness ==
  /\ WF_vars(Step \/ Fail)
  /\ WF_vars(SyncPool) /\ WF_vars(SyncClaims) 
  /\ WF_vars(SyncJobs) /\ WF_vars(SyncVolumes) /\ WF_vars(Resync)
  /\ \A r \in Replicas : WF_vars(Platform(r))

FairSpec == Spec /\ Fairness

-----------------------------------------------------------------------------
(* Safety *)

Ours(r) == claim[r].controller = Us

(* A replica is offered to checkouts only after an init job has completed  *)
(* on its volume, whichever caches lag (pool_replica.go:191-231).          *)
InitializedBeforeOffered ==
  \A r \in Replicas : 
    Ours(r) /\ claim[r].stage = "Available" => r \in initialized

(* The jobs on the volume of replica r, whatever replicas they are for. *)
Mounting(r) == {s \in Replicas : Exists(job[s]) /\ job[s].mounts = r}

(* No init job runs on a volume that checkouts may take: the claim is      *)
(* written before its job is created, so a reconcile that believes the     *)
(* replica new because its caches lag is refused (pool_replica.go:93-134). *)
(* The job of another replica gets there only with a template that names   *)
(* its volume; then this is false, for the reason MCPoolShared shows.      *)
NoJobOnOffered ==
  \A r \in Replicas : Ours(r) /\ claim[r].stage = "Available" 
    => \A s \in Mounting(r) : ~Running(job[s])

(* Another pool with the same selector keeps its claims, also one it makes *)
(* its own after this pool loaded it: this pool's write is then refused,   *)
(* and no new init job runs on the volume (pool_state.go:90-94,            *)
(* pool_replica.go:96-134).  Only a pool that is being deleted takes along *)
(* what it loaded, whosever it is by now (pool_state.go:36-60).            *)
OthersUntouched ==
  [][\A r \in Replicas : claim[r].controller = Another => 
       /\ \/ claim'[r] = claim[r] 
          \/ claim[r].meta = "terminating"
          \/ rec.at = "dropClaim" /\ rec.loop = "delete"
       /\ Mounting(r)' \subseteq Mounting(r)]_vars

(* A settled status is one in which the generation it names got exactly    *)
(* the replicas it requested (pool_types.go:98-100), whatever failed      *)
(* later in the same reconcile.                                            *)
SettledAsRequested ==
  status.Settlement = "Settled" => 
    status.available = Request(Specs[status.gen])

(* A claim of the pool is one that the pool's selector finds, so that it   *)
(* is counted, used and in the end removed, whatever the labels of the     *)
(* templates were when it was made and since (validation.go:38, 85,        *)
(* pool_replica.go:94).                                                    *)
OwnClaimsMatch ==
  \A r \in Replicas : Exists(pool) /\ Exists(claim[r]) /\ Ours(r) 
    => Matches(Specs[pool.gen].selector, claim[r].labels)

(* What the webhook admits of a mount job is what runs: each field that    *)
(* the template sets is in the job as written, and each limit is set       *)
(* (validation.go:17-19, 46-71, pool_replica.go:204-214).                  *)
JobsAsAdmitted ==
  \A r \in Replicas : Exists(job[r]) =>
    LET written == job[r].template 
    IN /\ \A f \in DOMAIN written : 
             written[f] # Unset => JobSpec(job[r])[f] = written[f]
       /\ ValidateMountJob(JobSpec(job[r]))
       /\ JobSpec(job[r]).activeDeadlineSeconds # Unset

(* The volume a checkout took is never handed to another: its replica is   *)
(* not offered again and no new init job mounts it, it is only removed     *)
(* (pool_replica.go:83-85, 138-142).  As with NoJobOnOffered, a template   *)
(* that names its volume would let the job of another replica mount it.    *)
TakenIsFinal ==
  [][\A r \in Replicas : volume[r] = "taken" => 
       /\ volume'[r] \in {"taken", "none"}
       /\ Mounting(r)' \subseteq Mounting(r)]_vars

(* What ReplicaLife sees of a replica. *)
Life(r) ==
  CASE ~Ours(r) -> "none"
    [] Ours(r) /\ volume[r] = "taken" -> "taken"
    [] Ours(r) /\ volume[r] # "taken" ->
         IF claim[r].stage = "Available" THEN "offered"
         ELSE IF r \in initialized THEN "ready" ELSE "new"

Promise == 
  INSTANCE ReplicaLife WITH Names <- Replicas, 
                            life <- [r \in Replicas |-> Life(r)]

(* Each replica goes its way one step at a time and never back: offered    *)
(* once it is ready it stays so, whatever the caches show of its job, until *)
(* a checkout takes it or it is removed (pool_replica.go:166-231).         *)
KeepsPromise == Promise!Spec

-----------------------------------------------------------------------------
(* Liveness *)

(* The status of a pool at rest, and the claims it is true of. *)
AtRest(g) ==
  LET n == Request(Specs[g]) IN
  /\ status = [gen |-> g, replicas |-> n, available |-> n, 
               Available |-> IF n = 0 THEN "False" ELSE "True", 
               Settlement |-> "Settled"]
  /\ Cardinality({r \in Replicas : Exists(claim[r]) /\ Ours(r)}) = n

(* Once users and checkouts leave the pool alone it settles at the number  *)
(* of replicas requested last, and says so: a template that was invalid    *)
(* left half a replica behind, one that hung left a job that never ends,   *)
(* and the cache of the claims, or that of the volumes while there is one  *)
(* name for a replica, showed what was long past.                          *)
EventuallySettled ==
  \A g \in Generations \ {0} : 
    Specs[g].refused = "nothing" /\ ~InitJob(Specs[g]).hangs
      => (<>[](pool.gen = g) => <>[]AtRest(g))

(* A pool whose init jobs can only fail goes on replacing replicas, and    *)
(* its user is told so again and again (pool_state.go:163-170).            *)
FailureReported ==
  \A g \in Generations \ {0} : 
    Specs[g].refused = "nothing" /\ InitJob(Specs[g]).hangs 
         /\ Request(Specs[g]) > 0
      => (<>[](pool.gen = g) => []<>(status.Settlement = "InitJobFailed"))

(* A deleted pool goes, with every claim it controlled and every job.      *)
DeletionCompletes ==
  pool.meta # "live" ~> 
    [](/\ ~Exists(pool)
       /\ \A r \in Replicas : ~Ours(r) /\ ~Exists(job[r]))

=============================================================================
