----------------------------- MODULE PoolProofs -----------------------------
(***************************************************************************)
(* Theorems about the pool controller, for every number of replicas, every *)
(* sequence of specs, any quota, every choice of environment events and    *)
(* any delay of the caches.                                                *)
(***************************************************************************)
EXTENDS PoolController, FiniteSetTheorems, TLAPS

-----------------------------------------------------------------------------
(* Specs *)

Selector == Specs[1].selector

(* What the webhook let a user store as generation g. *)
SpecOK(g) ==
  /\ g \in 1 .. Len(Specs)
  /\ ValidatePoolSpec(Specs[g])
  /\ Specs[g].selector = Selector

(* No mount job names the volume it wants its claim in. *)
NoneNamesVolume == 
  \A g \in 1 .. Len(Specs) : ~InitJob(Specs[g]).namesVolume

LEMMA SpecTypes ==
  ASSUME NEW g \in 1 .. Len(Specs)
  PROVE  /\ Specs[g] \in PoolSpecs
         /\ Request(Specs[g]) \in Nat
         /\ Specs[g].template.labels \in Labels
         /\ InitJob(Specs[g]) \in MountJobs
         /\ ConfiguredClaim(Specs[g].template).dynamic = TRUE
<1>1. Specs[g] \in PoolSpecs
  BY PoolAssumption
<1>2. Request(Specs[g]) \in Nat
  BY <1>1 DEF PoolSpecs, Request
<1>3. Specs[g].template \in ClaimTemplates
  BY <1>1 DEF PoolSpecs
<1>4. Specs[g].template.labels \in Labels
  BY <1>3 DEF ClaimTemplates
<1>5. DefaultPoolReplicaInitJob \in MountJobs
  BY DEF DefaultPoolReplicaInitJob, MountJobs, MountJobMaxBackoffLimit
<1>6. InitJob(Specs[g]) \in MountJobs
  BY <1>1, <1>5 DEF InitJob, PoolSpecs
<1> QED BY <1>1, <1>2, <1>4, <1>6 DEF ConfiguredClaim

LEMMA MergedTypes ==
  ASSUME NEW a \in Labels, NEW b \in Labels
  PROVE  /\ Merged(a, b) \in Labels
         /\ \A s : Matches(s, a) /\ Matches(s, b) => Matches(s, Merged(a, b))
BY DEF Merged, Labels, Matches

LEMMA ZeroTypes == 
  /\ NoPool \in Pools /\ NoClaim \in Claims /\ NoJob \in Jobs 
  /\ NoStatus \in Statuses /\ Idle \in Recs
  /\ ~Exists(NoClaim) /\ ~Exists(NoJob) /\ ~Exists(NoPool)
<1>1. 0 \in Generations
  BY PoolAssumption DEF Generations
<1>2. NoPool \in Pools
  BY <1>1 DEF NoPool, Pools, Metas
<1>3. [k \in Keys |-> Unset] \in Labels
  BY DEF Labels
<1>4. NoClaim \in Claims
  BY <1>3 DEF NoClaim, Claims, Metas, Stages
<1>5. NoJob \in Jobs
  <2>1. DefaultPoolReplicaInitJob \in MountJobs
    BY DEF DefaultPoolReplicaInitJob, MountJobs, MountJobMaxBackoffLimit
  <2> QED BY <2>1 DEF NoJob, Jobs, Metas
<1>6. NoStatus \in Statuses
  BY <1>1 DEF NoStatus, Statuses, AvailableValues, SettlementValues
<1>7. Idle \in Recs
  BY <1>2, <1>4, <1>5 DEF Idle, Recs, AvailableValues, SettlementValues, Loops
<1>8. ~Exists(NoClaim) /\ ~Exists(NoJob) /\ ~Exists(NoPool)
  BY DEF Exists, NoClaim, NoJob, NoPool
<1> QED BY <1>2, <1>4, <1>5, <1>6, <1>7, <1>8

-----------------------------------------------------------------------------
(* The shape of a reconcile *)

ReplicaCalls == {"saveClaim", "createJob", "dropJob", "dropClaim"}

(* What holds of a reconcile wherever it is. *)
Base(l) ==
  /\ l \in Recs /\ SpecOK(l.pool.gen)
  /\ l.stale \cap l.available = {}
  /\ l.Settlement = "Settled" => 
       Cardinality(l.available) = Request(Specs[l.pool.gen])
  /\ \A r \in Replicas : 
       /\ Exists(l.job[r]) => Exists(l.claim[r])
       /\ ~Exists(l.job[r]) => l.job[r].cond = "none"
       /\ Exists(l.claim[r]) => Matches(Selector, l.claim[r].labels)
  /\ NoneNamesVolume => l.mounted = Nobody

(* Until the scaling step every replica in the lists was loaded, and the   *)
(* available ones are offered.                                             *)
Listed(l) ==
  /\ l.initializing \cap l.available = {}
  /\ \A r \in l.initializing \cup l.available : Exists(l.claim[r])
  /\ \A r \in l.available : 
       l.claim[r].phase = "Bound" /\ l.claim[r].stage = "Available"

(* The replicas a loop still has to visit were loaded, and those the       *)
(* initializing loop has to visit were not offered.                        *)
Unoffered(c) == c.stage = "Available" => c.phase \notin {"Bound", "Lost"}
OldOK(l) == 
  \A r \in l.stale : Exists(l.claim[r]) /\ Stale(l.claim[r], l.job[r])
Ahead(l) ==
  /\ \A r \in l.todo : Exists(l.claim[r])
  /\ OldOK(l)
  /\ l.loop = "initializing" => \A r \in l.todo : Unoffered(l.claim[r])

(* The claims of these replicas were loaded or written as the pool's own.  *)
Owned(l, rs) == \A r \in rs : l.claim[r].controller = Us

(* Whose claims the loop has written before it came to the replica at hand. *)
Visited(l) == 
  CASE l.loop = "initializing" -> l.initializing \ l.todo
    [] l.loop = "available" -> l.initializing \cup (l.available \ l.todo)
    [] OTHER -> {}

(* The loop a call for a replica belongs to. *)
InLoop(l) ==
  /\ l.r \in Replicas \ l.todo
  /\ l.loop \in Loops \ {"none"}
  /\ Ahead(l)
  /\ l.loop = "initializing" =>
       Listed(l) /\ l.r \in l.initializing /\ l.todo \subseteq l.initializing
  /\ l.loop = "available" => 
       Listed(l) /\ l.r \in l.available /\ l.todo \subseteq l.available
  /\ Owned(l, Visited(l) \ {l.r})
  /\ l.loop = "scaleUp" => ~Exists(l.job[l.r])
  /\ l.loop = "scaleDown" => Owned(l, {l.r})
  /\ l.loop = "stale" => l.r \in l.stale /\ l.todo \subseteq l.stale
  /\ l.loop # "stale" => l.Settlement # "Settled"

AtCall(l) ==
  /\ l.at \in ReplicaCalls
  /\ InLoop(l)
  /\ l.at = "saveClaim" => l.loop \in {"initializing", "available", "scaleUp"}
  /\ l.at = "createJob" => 
       /\ l.loop \in {"initializing", "scaleUp"}
       /\ Exists(l.claim[l.r]) /\ l.claim[l.r].stage = "Initializing"
       /\ Owned(l, {l.r})
       /\ ~Exists(l.job[l.r])
  /\ l.at = "dropJob" => l.loop # "scaleUp"
  /\ l.at = "dropClaim" => l.loop \in {"scaleDown", "stale", "delete"}
  /\ l.at \in {"dropJob", "dropClaim"} => Exists(l.claim[l.r])
  /\ l.at \in {"dropJob", "saveClaim"} /\ l.loop = "initializing" => 
       Unoffered(l.claim[l.r])
  /\ l.at = "saveClaim" /\ l.loop = "scaleUp" => ~Exists(l.claim[l.r])

RecOK(l) ==
  \/ l = Idle
  \/ /\ Base(l)
     /\ \/ l.at \in {"status", "unfinalize"}
        \/ /\ l.at = "finalize" /\ l.loop = "none"
           /\ l.Settlement # "Settled" /\ Listed(l)
           /\ OldOK(l)
           /\ \A r \in l.initializing : Unoffered(l.claim[r])
        \/ AtCall(l)

(* What one reconcile keeps when it goes on as another: it may forget what *)
(* it loaded, and turn to a replica it did not load only if that is new.   *)
Kept(l, m) ==
  /\ \A r \in Replicas :
       \/ m.claim[r] = l.claim[r] /\ m.job[r] = l.job[r]
       \/ m.claim[r] = NoClaim /\ m.job[r] = NoJob
  /\ m.at # "createJob"
  /\ m.at = "saveClaim" /\ ~Exists(m.claim[m.r]) => 
       Unused(m.r) /\ ~Exists(l.claim[m.r])

LEMMA CallTypes ==
  ASSUME NEW l \in Recs, NEW at \in Calls, NEW rs \in SUBSET Replicas,
         NEW m \in Call(l, at, rs)
  PROVE  /\ m \in Recs /\ m.at = at /\ m.r \in rs /\ m.todo = l.todo \ {m.r}
         /\ m.pool = l.pool /\ m.claim = l.claim /\ m.job = l.job
         /\ m.initializing = l.initializing /\ m.available = l.available
         /\ m.stale = l.stale /\ m.Available = l.Available
         /\ m.Settlement = l.Settlement /\ m.loop = l.loop 
         /\ m.mounted = l.mounted /\ m.failed = l.failed
<1>1. PICK r \in rs : m = [l EXCEPT !.at = at, !.r = r, !.todo = @ \ {r}]
  BY DEF Call
<1> QED BY <1>1 DEF Recs

LEMMA BaseKept ==
  ASSUME NEW l, Base(l), NEW m \in Recs,
         m.pool = l.pool, m.claim = l.claim, m.job = l.job,
         m.available = l.available, m.stale = l.stale,
         m.Settlement \in {l.Settlement, "InitJobFailed"}, 
         m.mounted = l.mounted
  PROVE  Base(m)
BY DEF Base

LEMMA EndingOK ==
  ASSUME NEW l, Base(l)
  PROVE  /\ Ending(l) \in Recs /\ Base(Ending(l)) /\ RecOK(Ending(l))
         /\ Kept(l, Ending(l)) 
         /\ Failed(l) \in Recs /\ Base(Failed(l)) /\ RecOK(Failed(l)) 
         /\ Kept(l, Failed(l))
         /\ Ending(l).pool = l.pool /\ Ending(l).at = "status"
         /\ Ending(l).Settlement = l.Settlement
<1>1. l \in Recs
  BY DEF Base
<1> DEFINE e == Ending(l)
<1>2. /\ e \in Recs /\ Failed(l) \in Recs
      /\ e.pool = l.pool /\ e.available = l.available /\ e.stale = l.stale
      /\ e.Settlement = l.Settlement /\ e.mounted = Nobody
      /\ e.claim = [r \in Replicas |-> NoClaim] 
      /\ e.job = [r \in Replicas |-> NoJob] /\ e.at = "status"
  BY <1>1, ZeroTypes DEF Ending, Failed, Recs, Idle, Calls
<1>3. /\ Failed(l).pool = l.pool /\ Failed(l).available = l.available 
      /\ Failed(l).stale = l.stale /\ Failed(l).Settlement = l.Settlement 
      /\ Failed(l).mounted = Nobody /\ Failed(l).at = "status"
      /\ Failed(l).claim = [r \in Replicas |-> NoClaim] 
      /\ Failed(l).job = [r \in Replicas |-> NoJob] 
  BY <1>1, <1>2 DEF Failed, Recs
<1> HIDE DEF e
<1>4. Base(e) /\ Base(Failed(l))
  BY <1>2, <1>3, ZeroTypes DEF Base, NoJob
<1> QED BY <1>2, <1>3, <1>4 DEF RecOK, Kept, e

(* Each loop goes on to a call it may make, or to the end. *)
GoesOn(l, ms) == \A m \in ms : RecOK(m) /\ Kept(l, m)

LEMMA KeptTransitive ==
  ASSUME NEW l, NEW m, NEW ms, m.claim = l.claim, m.job = l.job,
         GoesOn(m, ms)
  PROVE  GoesOn(l, ms)
BY DEF GoesOn, Kept

LEMMA StaleLoopOK ==
  ASSUME NEW l, Base(l), l.loop = "stale", l.todo \subseteq l.stale, OldOK(l)
  PROVE  /\ GoesOn(l, StaleLoop(l))
         /\ \A n \in StaleLoop(l) : n.at # "saveClaim"
<1> l \in Recs
  BY DEF Base
<1>1. CASE l.todo = {}
  BY <1>1, EndingOK DEF StaleLoop, GoesOn
<1>2. ASSUME l.todo # {}, NEW n \in StaleLoop(l)
      PROVE  RecOK(n) /\ Kept(l, n) /\ n.at # "saveClaim"
  <2>1. PICK m \in Call(l, "dropJob", l.todo) :
          n = [m EXCEPT !.Settlement = IF m.job[m.r].cond = "Failed"
                                       THEN "InitJobFailed" ELSE @]
    BY <1>2 DEF StaleLoop
  <2>2. l.todo \in SUBSET Replicas /\ "dropJob" \in Calls
    BY DEF Recs, Calls
  <2>3. /\ m \in Recs /\ m.at = "dropJob" /\ m.r \in l.todo
        /\ m.todo = l.todo \ {m.r} /\ m.pool = l.pool /\ m.claim = l.claim
        /\ m.job = l.job /\ m.available = l.available /\ m.stale = l.stale
        /\ m.Settlement = l.Settlement /\ m.loop = "stale"
        /\ m.mounted = l.mounted
    BY <2>1, <2>2, CallTypes
  <2>4. /\ n \in Recs /\ n.at = "dropJob" /\ n.r = m.r
        /\ n.todo = m.todo /\ n.pool = m.pool /\ n.claim = m.claim
        /\ n.job = m.job /\ n.available = m.available /\ n.stale = m.stale
        /\ n.Settlement \in {m.Settlement, "InitJobFailed"} 
        /\ n.loop = "stale" /\ n.mounted = m.mounted
    BY <2>1, <2>3 DEF Recs, SettlementValues
  <2>5. Base(n)
    BY <2>3, <2>4, BaseKept
  <2>6. AtCall(n)
    BY <2>2, <2>3, <2>4 
       DEF AtCall, InLoop, Ahead, OldOK, Owned, Visited, ReplicaCalls, Loops
  <2> QED BY <2>3, <2>4, <2>5, <2>6 DEF RecOK, Kept
<1> QED BY <1>1, <1>2 DEF GoesOn

LEMMA ToStaleOK ==
  ASSUME NEW l, Base(l), OldOK(l)
  PROVE  GoesOn(l, ToStale(l))
<1> DEFINE m == [l EXCEPT !.loop = "stale", !.todo = l.stale,
     !.claim = [r \in Replicas |-> IF r \in l.stale THEN @[r] ELSE NoClaim],
     !.job = [r \in Replicas |-> IF r \in l.stale THEN @[r] ELSE NoJob]]
<1>1. l \in Recs
  BY DEF Base
<1>2. /\ m \in Recs /\ m.loop = "stale" /\ m.todo = l.stale
      /\ m.claim = 
           [r \in Replicas |-> IF r \in l.stale THEN l.claim[r] ELSE NoClaim]
      /\ m.job = 
           [r \in Replicas |-> IF r \in l.stale THEN l.job[r] ELSE NoJob]
      /\ m.pool = l.pool /\ m.available = l.available /\ m.stale = l.stale
      /\ m.Settlement = l.Settlement /\ m.mounted = l.mounted
  BY <1>1, ZeroTypes DEF Recs, Loops
<1>3. ToStale(l) = StaleLoop(m)
  BY DEF ToStale
<1> HIDE DEF m
<1>4. Base(m)
  BY <1>2, ZeroTypes DEF Base, NoJob
<1>5. l.stale \subseteq Replicas
  BY <1>1 DEF Recs
<1>6. OldOK(m)
  BY <1>2, <1>5 DEF OldOK
<1>7. /\ GoesOn(m, StaleLoop(m)) 
      /\ \A n \in StaleLoop(m) : n.at # "saveClaim"
  BY <1>2, <1>4, <1>6, StaleLoopOK
<1> QED BY <1>2, <1>3, <1>7 DEF GoesOn, Kept

(* A name without a trace is not one the reconcile has loaded. *)
NewUnloaded(l) == \A r \in Replicas : Unused(r) => ~Exists(l.claim[r])

LEMMA ScaleOK ==
  ASSUME NEW l, Base(l), Listed(l), NewUnloaded(l), l.todo = {}, 
         OldOK(l), Owned(l, l.initializing \cup l.available), 
         l.Settlement # "Settled"
  PROVE  GoesOn(l, Scale(l))
<1> DEFINE actual == Cardinality(l.available \cup l.initializing)
           request == Request(Specs[l.pool.gen])
           unused == {r \in Replicas : Unused(r)}
           up == [l EXCEPT !.loop = "scaleUp"]
           down == [l EXCEPT !.loop = "scaleDown"]
           chosen == 
             IF l.initializing # {} THEN l.initializing ELSE l.available
<1>1. l \in Recs
  BY DEF Base
<1>2. /\ up \in Recs /\ up.loop = "scaleUp" /\ up.Settlement = l.Settlement
      /\ up.pool = l.pool /\ up.claim = l.claim /\ up.job = l.job
      /\ up.available = l.available /\ up.stale = l.stale 
      /\ up.mounted = l.mounted /\ up.todo = {}
  BY <1>1 DEF Recs, Loops
<1>3. /\ down \in Recs /\ down.loop = "scaleDown" 
      /\ down.Settlement = l.Settlement
      /\ down.pool = l.pool /\ down.claim = l.claim /\ down.job = l.job
      /\ down.available = l.available /\ down.stale = l.stale 
      /\ down.mounted = l.mounted /\ down.todo = {}
  BY <1>1 DEF Recs, Loops
<1>4. Scale(l) = 
        CASE actual < request /\ unused = {} -> ToStale(l)
          [] actual < request /\ unused # {} -> Call(up, "saveClaim", unused)
          [] actual > request -> Call(down, "dropJob", chosen)
          [] actual = request -> ToStale(Settled(l))
  BY DEF Scale
<1>5. actual \in Nat /\ request \in Nat
  <2>1. /\ IsFiniteSet(Replicas) 
        /\ l.available \cup l.initializing \subseteq Replicas
    BY <1>1, PoolAssumption DEF Recs
  <2>2. IsFiniteSet(l.available \cup l.initializing)
    BY <2>1, FS_Subset
  <2> QED BY <2>2, FS_CardinalityType, SpecTypes DEF Base, SpecOK
<1>6. /\ chosen \subseteq Replicas /\ unused \subseteq Replicas
      /\ \A r \in chosen : Exists(l.claim[r]) /\ Owned(l, {r})
  BY <1>1 DEF Recs, Listed, Owned
<1>7. \A r \in unused : ~Exists(l.claim[r]) /\ Unused(r)
  BY DEF NewUnloaded
<1>8. CASE actual = request
  <2> DEFINE m == Settled(l)
  <2>1. /\ m \in Recs /\ m.pool = l.pool /\ m.claim = l.claim 
        /\ m.job = l.job /\ m.available = l.available /\ m.stale = l.stale 
        /\ m.mounted = l.mounted
    BY <1>1 DEF Settled, Recs, SettlementValues
  <2>2. m.Settlement = "Settled" => 
          Cardinality(m.available) = Request(Specs[m.pool.gen])
    <3>1. CASE l.initializing = {}
      BY <1>8, <2>1, <3>1
    <3>2. CASE l.initializing # {}
      BY <3>2 DEF Settled
    <3> QED BY <3>1, <3>2
  <2>3. Base(m)
    <3> HIDE DEF m
    <3> QED BY <2>1, <2>2 DEF Base
  <2>4. GoesOn(m, ToStale(m))
    BY <2>1, <2>3, ToStaleOK DEF OldOK
  <2>5. Scale(l) = ToStale(m)
    BY <1>4, <1>5, <1>8
  <2> HIDE DEF m
  <2> QED BY <2>1, <2>4, <2>5, KeptTransitive
<1> HIDE DEF actual, request, unused, up, down, chosen
<1>9. CASE actual < request /\ unused = {}
  BY <1>4, <1>5, <1>9, ToStaleOK
<1>10. CASE actual < request /\ unused # {}
  <2>1. Scale(l) = Call(up, "saveClaim", unused)
    BY <1>4, <1>5, <1>10
  <2>2. ASSUME NEW m \in Call(up, "saveClaim", unused)
        PROVE  RecOK(m) /\ Kept(l, m)
    <3>0. unused \in SUBSET Replicas /\ "saveClaim" \in Calls
      BY <1>6 DEF Calls
    <3>1. /\ m \in Recs /\ m.at = "saveClaim" /\ m.r \in unused 
          /\ m.todo = up.todo \ {m.r} /\ m.pool = up.pool
          /\ m.claim = up.claim /\ m.job = up.job
          /\ m.available = up.available /\ m.stale = up.stale
          /\ m.Settlement = up.Settlement /\ m.loop = up.loop
          /\ m.mounted = up.mounted
      BY <1>2, <2>2, <3>0, CallTypes
    <3>2. Base(m)
      BY <1>2, <3>1, BaseKept
    <3>3. AtCall(m)
      <4>1. m.r \in Replicas /\ ~Exists(m.job[m.r])
        BY <1>2, <1>6, <1>7, <3>1 DEF Base
      <4> QED BY <1>2, <1>7, <3>1, <4>1 
              DEF AtCall, InLoop, Ahead, OldOK, Owned, Visited, ReplicaCalls, 
                  Loops
    <3> QED BY <1>2, <1>7, <3>1, <3>2, <3>3 DEF RecOK, Kept
  <2> QED BY <2>1, <2>2 DEF GoesOn
<1>11. CASE actual > request
  <2>1. Scale(l) = Call(down, "dropJob", chosen)
    BY <1>4, <1>5, <1>11
  <2>2. ASSUME NEW m \in Call(down, "dropJob", chosen)
        PROVE  RecOK(m) /\ Kept(l, m)
    <3>0. chosen \in SUBSET Replicas /\ "dropJob" \in Calls
      BY <1>6 DEF Calls
    <3>1. /\ m \in Recs /\ m.at = "dropJob" /\ m.r \in chosen
          /\ m.todo = down.todo \ {m.r} /\ m.pool = down.pool
          /\ m.claim = down.claim /\ m.job = down.job
          /\ m.available = down.available /\ m.stale = down.stale
          /\ m.Settlement = down.Settlement /\ m.loop = down.loop
          /\ m.mounted = down.mounted
      BY <1>3, <2>2, <3>0, CallTypes
    <3>2. Base(m)
      BY <1>3, <3>1, BaseKept
    <3>3. AtCall(m)
      BY <1>3, <1>6, <3>1 
         DEF AtCall, InLoop, Ahead, OldOK, Owned, Visited, ReplicaCalls, Loops
    <3> QED BY <1>3, <3>1, <3>2, <3>3 DEF RecOK, Kept
  <2> QED BY <2>1, <2>2 DEF GoesOn
<1> QED BY <1>5, <1>8, <1>9, <1>10, <1>11

LEMMA DeleteLoopOK ==
  ASSUME NEW l, Base(l), Ahead(l), l.loop = "delete", 
         l.Settlement # "Settled"
  PROVE  GoesOn(l, DeleteLoop(l))
<1> l \in Recs
  BY DEF Base
<1>1. CASE l.todo = {}
  <2> DEFINE m == [l EXCEPT !.at = "unfinalize"]
  <2>1. /\ m \in Recs /\ m.at = "unfinalize" /\ m.pool = l.pool 
        /\ m.claim = l.claim /\ m.job = l.job /\ m.available = l.available 
        /\ m.stale = l.stale /\ m.Settlement = l.Settlement 
        /\ m.mounted = l.mounted
    BY DEF Recs, Calls
  <2> HIDE DEF m
  <2>2. Base(m)
    BY <2>1, BaseKept
  <2> QED BY <1>1, <2>1, <2>2 DEF DeleteLoop, GoesOn, RecOK, Kept, m
<1>2. ASSUME l.todo # {}, NEW m \in DeleteLoop(l)
      PROVE  RecOK(m) /\ Kept(l, m)
  <2>1. l.todo \in SUBSET Replicas /\ "dropJob" \in Calls
    BY DEF Recs, Calls
  <2>2. /\ m \in Recs /\ m.at = "dropJob" /\ m.r \in l.todo
        /\ m.todo = l.todo \ {m.r} /\ m.pool = l.pool /\ m.claim = l.claim
        /\ m.job = l.job /\ m.available = l.available /\ m.stale = l.stale
        /\ m.Settlement = l.Settlement /\ m.loop = "delete"
        /\ m.mounted = l.mounted
    BY <1>2, <2>1, CallTypes DEF DeleteLoop
  <2>3. Base(m)
    BY <2>2, BaseKept
  <2>4. AtCall(m)
    BY <2>1, <2>2 
       DEF AtCall, InLoop, Ahead, OldOK, Owned, Visited, ReplicaCalls, Loops
  <2> QED BY <2>2, <2>3, <2>4 DEF RecOK, Kept
<1> QED BY <1>1, <1>2 DEF GoesOn

LEMMA AvailableLoopOK ==
  ASSUME NEW l, Base(l), Listed(l), Ahead(l), NewUnloaded(l), 
         l.loop = "available", l.todo \subseteq l.available, 
         Owned(l, Visited(l)), l.Settlement # "Settled"
  PROVE  GoesOn(l, AvailableLoop(l))
<1> l \in Recs
  BY DEF Base
<1>1. CASE l.todo = {}
  BY <1>1, ScaleOK DEF AvailableLoop, Ahead, Visited
<1>2. ASSUME l.todo # {}, NEW m \in AvailableLoop(l)
      PROVE  RecOK(m) /\ Kept(l, m)
  <2>1. l.todo \in SUBSET Replicas /\ "dropJob" \in Calls
    BY DEF Recs, Calls
  <2>2. /\ m \in Recs /\ m.at = "dropJob" /\ m.r \in l.todo
        /\ m.todo = l.todo \ {m.r} /\ m.pool = l.pool /\ m.claim = l.claim
        /\ m.job = l.job /\ m.available = l.available /\ m.stale = l.stale
        /\ m.Settlement = l.Settlement /\ m.loop = "available"
        /\ m.mounted = l.mounted /\ m.initializing = l.initializing
    BY <1>2, <2>1, CallTypes DEF AvailableLoop
  <2>3. Base(m)
    BY <2>2, BaseKept
  <2>4. AtCall(m)
    <3>1. Owned(m, Visited(m) \ {m.r})
      BY <2>1, <2>2 DEF Owned, Visited
    <3> QED BY <2>1, <2>2, <3>1 
            DEF AtCall, InLoop, Ahead, OldOK, ReplicaCalls, Loops, Listed
  <2> QED BY <2>2, <2>3, <2>4 DEF RecOK, Kept
<1> QED BY <1>1, <1>2 DEF GoesOn

LEMMA InitializingLoopOK ==
  ASSUME NEW l, Base(l), Listed(l), Ahead(l), NewUnloaded(l), 
         l.loop = "initializing", l.todo \subseteq l.initializing, 
         Owned(l, Visited(l)), l.Settlement # "Settled"
  PROVE  GoesOn(l, InitializingLoop(l))
<1> l \in Recs
  BY DEF Base
<1>1. CASE l.todo = {}
  <2> DEFINE m == [l EXCEPT !.loop = "available", !.todo = l.available]
  <2>1. /\ m \in Recs /\ m.loop = "available" /\ m.todo = l.available 
        /\ m.pool = l.pool /\ m.claim = l.claim /\ m.job = l.job 
        /\ m.available = l.available /\ m.initializing = l.initializing
        /\ m.stale = l.stale /\ m.Settlement = l.Settlement 
        /\ m.mounted = l.mounted
    BY DEF Recs, Loops
  <2>2. InitializingLoop(l) = AvailableLoop(m)
    BY <1>1 DEF InitializingLoop
  <2> HIDE DEF m
  <2>3. Base(m)
    BY <2>1, BaseKept
  <2>4. /\ Listed(m) /\ Ahead(m) /\ NewUnloaded(m)
        /\ Owned(m, Visited(m))
    BY <1>1, <2>1 DEF Listed, Ahead, OldOK, NewUnloaded, Owned, Visited
  <2>5. GoesOn(m, AvailableLoop(m))
    BY <2>1, <2>3, <2>4, AvailableLoopOK
  <2> QED BY <2>1, <2>2, <2>5, KeptTransitive
<1>2. ASSUME l.todo # {}, NEW m \in InitializingLoop(l)
      PROVE  RecOK(m) /\ Kept(l, m)
  <2> DEFINE ready == {r \in l.todo : Offered(l, r)}
             waiting == {r \in l.todo : ~Offered(l, r)}
  <2>1. /\ ready \in SUBSET Replicas /\ waiting \in SUBSET Replicas 
        /\ "dropJob" \in Calls /\ "saveClaim" \in Calls
        /\ l.todo \in SUBSET Replicas
    BY DEF Recs, Calls
  <2>2. m \in Call(l, "dropJob", ready) \/ m \in Call(l, "saveClaim", waiting)
    BY <1>2 DEF InitializingLoop
  <2> HIDE DEF ready, waiting
  <2>3. /\ m \in Recs /\ m.at \in {"dropJob", "saveClaim"} 
        /\ m.r \in ready \cup waiting
        /\ m.todo = l.todo \ {m.r} /\ m.pool = l.pool /\ m.claim = l.claim
        /\ m.job = l.job /\ m.available = l.available /\ m.stale = l.stale
        /\ m.Settlement = l.Settlement /\ m.loop = "initializing"
        /\ m.mounted = l.mounted /\ m.initializing = l.initializing
    BY <2>1, <2>2, CallTypes
  <2>4. m.r \in l.todo
    BY <2>3 DEF ready, waiting
  <2>5. Base(m)
    BY <2>3, BaseKept
  <2>6. AtCall(m)
    <3>1. Owned(m, Visited(m) \ {m.r})
      BY <2>1, <2>3, <2>4 DEF Owned, Visited
    <3> QED BY <2>1, <2>3, <2>4, <3>1 
            DEF AtCall, InLoop, Ahead, OldOK, ReplicaCalls, Loops, Listed
  <2>7. Exists(m.claim[m.r])
    BY <2>3, <2>4 DEF Listed
  <2> QED BY <2>3, <2>5, <2>6, <2>7 DEF RecOK, Kept
<1> QED BY <1>1, <1>2 DEF GoesOn

(* After the last call for a replica. *)
LEMMA DoneOK ==
  ASSUME NEW l, Base(l), InLoop(l), 
         l.loop \in {"initializing", "available"} => 
           NewUnloaded(l) /\ Owned(l, {l.r}),
         l.loop = "initializing" /\ Offered(l, l.r) => 
           l.claim[l.r].stage = "Available"
  PROVE  GoesOn(l, Done(l))
<1> DEFINE r == l.r
           without == [l EXCEPT !.initializing = @ \ {r}, 
                         !.available = @ \ {r}, !.stale = @ \ {r}]
           moved == [without EXCEPT !.available = l.available \cup {r}]
           served == [l EXCEPT !.Available = "True"]
           added == [l EXCEPT !.initializing = @ \cup {r}]
<1>1. l \in Recs /\ r \in Replicas
  BY DEF Base, InLoop
<1>2. /\ without \in Recs /\ without.pool = l.pool /\ without.claim = l.claim 
      /\ without.job = l.job /\ without.available = l.available \ {r}
      /\ without.stale = l.stale \ {r} /\ without.Settlement = l.Settlement
      /\ without.loop = l.loop /\ without.todo = l.todo
      /\ without.mounted = l.mounted
      /\ without.initializing = l.initializing \ {r}
  BY <1>1 DEF Recs
<1>3. /\ moved \in Recs /\ moved.pool = l.pool /\ moved.claim = l.claim 
      /\ moved.job = l.job /\ moved.available = l.available \cup {r}
      /\ moved.stale = l.stale \ {r} /\ moved.Settlement = l.Settlement
      /\ moved.loop = l.loop /\ moved.todo = l.todo
      /\ moved.mounted = l.mounted
      /\ moved.initializing = l.initializing \ {r}
  BY <1>1, <1>2 DEF Recs
<1>4. /\ served \in Recs /\ served.pool = l.pool /\ served.claim = l.claim 
      /\ served.job = l.job /\ served.available = l.available
      /\ served.stale = l.stale /\ served.Settlement = l.Settlement
      /\ served.loop = l.loop /\ served.todo = l.todo
      /\ served.mounted = l.mounted
      /\ served.initializing = l.initializing
  BY <1>1 DEF Recs, AvailableValues
<1>5. /\ added \in Recs /\ added.pool = l.pool /\ added.claim = l.claim 
      /\ added.job = l.job /\ added.available = l.available
      /\ added.stale = l.stale /\ added.Settlement = l.Settlement
      /\ added.mounted = l.mounted
  BY <1>1 DEF Recs
<1>6. Done(l) = 
        CASE l.loop = "initializing" -> 
               InitializingLoop(IF Offered(l, r) THEN moved ELSE l)
          [] l.loop = "available" -> AvailableLoop(served)
          [] l.loop = "scaleUp" -> ToStale(added)
          [] l.loop = "scaleDown" -> ToStale(without)
          [] l.loop = "stale" -> StaleLoop(without)
          [] l.loop = "delete" -> DeleteLoop(without)
  BY DEF Done
<1>7. l.loop \in {"initializing", "available", "scaleUp", "scaleDown", 
                  "stale", "delete"}
  BY DEF InLoop, Loops
<1> HIDE DEF without, moved, served, added, r
<1>8. CASE l.loop = "initializing"
  <2>0. Listed(l) /\ r \in l.initializing /\ l.todo \subseteq l.initializing
        /\ l.Settlement # "Settled" /\ r \notin l.todo
        /\ Owned(l, Visited(l))
    BY <1>8 DEF InLoop, Owned, r
  <2>1. CASE Offered(l, r)
    <3>1. Done(l) = InitializingLoop(moved)
      BY <1>6, <1>8, <2>1
    <3>2. Base(moved)
      BY <1>3, <2>0 DEF Base
    <3>3. Listed(moved)
      <4>1. l.claim[r].phase = "Bound" /\ l.claim[r].stage = "Available"
        BY <1>8, <2>1 DEF Offered, r
      <4> QED BY <1>3, <2>0, <4>1 DEF Listed
    <3>4. /\ NewUnloaded(moved) /\ Ahead(moved) 
          /\ Owned(moved, Visited(moved))
      BY <1>3, <1>8, <2>0 DEF NewUnloaded, InLoop, Ahead, OldOK, Owned, Visited
    <3>5. moved.todo \subseteq moved.initializing
      BY <1>3, <2>0
    <3>6. GoesOn(moved, InitializingLoop(moved))
      BY <1>3, <1>8, <2>0, <3>2, <3>3, <3>4, <3>5, InitializingLoopOK
    <3> QED BY <1>3, <3>1, <3>6, KeptTransitive
  <2>2. CASE ~Offered(l, r)
    <3>1. Done(l) = InitializingLoop(l)
      BY <1>6, <1>8, <2>2
    <3> QED BY <1>8, <2>0, <3>1, InitializingLoopOK DEF InLoop
  <2> QED BY <2>1, <2>2
<1>9. CASE l.loop = "available"
  <2>1. Done(l) = AvailableLoop(served)
    BY <1>6, <1>9
  <2>2. Base(served) 
    BY <1>4, BaseKept
  <2>3. /\ Listed(served) /\ Ahead(served) /\ NewUnloaded(served) 
        /\ served.todo \subseteq served.available
        /\ served.Settlement # "Settled" /\ Owned(served, Visited(served))
    BY <1>4, <1>9 
       DEF InLoop, Listed, Ahead, OldOK, NewUnloaded, Owned, Visited
  <2>4. GoesOn(served, AvailableLoop(served))
    BY <1>4, <1>9, <2>2, <2>3, AvailableLoopOK
  <2> QED BY <1>4, <2>1, <2>4, KeptTransitive
<1>10. CASE l.loop = "scaleUp"
  <2>1. Done(l) = ToStale(added)
    BY <1>6, <1>10
  <2>2. Base(added) 
    BY <1>5, BaseKept
  <2>3. OldOK(added)
    BY <1>5 DEF InLoop, Ahead, OldOK
  <2> QED BY <1>5, <2>1, <2>2, <2>3, ToStaleOK, KeptTransitive
<1>11. ASSUME l.loop # "stale" PROVE Base(without)
  BY <1>2, <1>11 DEF Base, InLoop
<1>12. /\ OldOK(without)
       /\ l.loop # "initializing" => Ahead(without)
  BY <1>2 DEF InLoop, Ahead, OldOK
<1>13. CASE l.loop = "scaleDown"
  <2>1. Done(l) = ToStale(without)
    BY <1>6, <1>13
  <2> QED BY <1>2, <1>11, <1>13, <1>12, <2>1, ToStaleOK, KeptTransitive
<1>14. CASE l.loop = "stale"
  <2>1. Done(l) = StaleLoop(without)
    BY <1>6, <1>14
  <2>2. r \in l.stale /\ l.todo \subseteq l.stale /\ r \notin l.todo
    BY <1>14 DEF InLoop, r
  <2>3. without.available = l.available
    BY <1>2, <2>2 DEF Base
  <2>4. Base(without)
    BY <1>2, <2>3 DEF Base
  <2>5. without.todo \subseteq without.stale
    BY <1>2, <2>2
  <2> QED BY <1>2, <1>14, <1>12, <2>1, <2>4, <2>5, StaleLoopOK, 
             KeptTransitive
<1>15. CASE l.loop = "delete"
  <2>1. Done(l) = DeleteLoop(without)
    BY <1>6, <1>15
  <2>2. without.Settlement # "Settled"
    BY <1>2, <1>15 DEF InLoop
  <2> QED BY <1>2, <1>11, <1>15, <1>12, <2>1, <2>2, DeleteLoopOK, 
             KeptTransitive
<1> QED BY <1>7, <1>8, <1>9, <1>10, <1>13, <1>14, <1>15

-----------------------------------------------------------------------------
(* The inductive invariant *)

AbsentIsZero(js) == 
  \A r \in Replicas : ~Exists(js[r]) => js[r].cond = "none"

StoredOK ==
  /\ Exists(pool) => SpecOK(pool.gen)
  /\ \A r \in Replicas : 
       /\ Exists(claim[r]) /\ Ours(r) => Matches(Selector, claim[r].labels)
       /\ Exists(job[r]) => 
            /\ job[r].mounts \in Replicas
            /\ \E g \in 1 .. Len(Specs) : 
                 SpecOK(g) /\ job[r].template = InitJob(Specs[g])
  /\ AbsentIsZero(job)
  
SeenOK == 
  /\ Exists(poolCache) => SpecOK(poolCache.gen)
  /\ AbsentIsZero(jobCache)

PInv == TypeOK /\ StoredOK /\ SeenOK /\ RecOK(rec) /\ SettledAsRequested

LEMMA RecTypes ==
  ASSUME NEW l, RecOK(l)
  PROVE  /\ l \in Recs
         /\ l.at \in ReplicaCalls => l.r \in Replicas
         /\ l.at # "idle" => l.pool.gen > 0
         /\ l.at # "idle" => Base(l)
         /\ l.at \in ReplicaCalls => AtCall(l)
         /\ l.at = "finalize" => 
              /\ l.loop = "none" /\ l.Settlement # "Settled" /\ Listed(l)
              /\ OldOK(l)
              /\ \A r \in l.initializing : Unoffered(l.claim[r])
         /\ \A r \in Replicas : 
              /\ Exists(l.job[r]) => Exists(l.claim[r])
              /\ ~Exists(l.job[r]) => l.job[r].cond = "none"
<1>1. CASE l = Idle
  BY <1>1, ZeroTypes DEF Idle, ReplicaCalls, NoJob
<1>2. CASE Base(l) /\ l.at \in {"status", "unfinalize"}
  BY <1>2 DEF Base, ReplicaCalls, SpecOK
<1>3. CASE /\ Base(l) /\ l.at = "finalize" /\ l.loop = "none"
           /\ l.Settlement # "Settled" /\ Listed(l) /\ OldOK(l)
           /\ \A r \in l.initializing : Unoffered(l.claim[r])
  BY <1>3 DEF Base, ReplicaCalls, SpecOK
<1>4. CASE Base(l) /\ AtCall(l)
  BY <1>4 DEF Base, ReplicaCalls, SpecOK, AtCall, InLoop
<1> QED BY <1>1, <1>2, <1>3, <1>4 DEF RecOK

LEMMA InitPInv == Init => PInv
<1> SUFFICES ASSUME Init PROVE PInv OBVIOUS
<1>1. 1 \in 1 .. Len(Specs) /\ 1 \in Generations
  BY PoolAssumption DEF Generations
<1>2. SpecOK(1)
  BY <1>1 DEF SpecOK, Init, Selector
<1>3. pool \in Pools /\ pool.gen = 1 /\ poolCache = pool
  BY <1>1, ZeroTypes DEF Init, Pools, NoPool, Metas
<1>4. TypeOK
  <2>1. 0 \in 0 .. MaxTaken
    BY PoolAssumption
  <2> QED BY <1>3, <2>1, ZeroTypes DEF TypeOK, Init, Volumes, Idle
<1>5. StoredOK /\ SeenOK
  BY <1>2, <1>3, ZeroTypes 
     DEF StoredOK, SeenOK, AbsentIsZero, Init, NoJob
<1>6. RecOK(rec) /\ SettledAsRequested
  BY DEF Init, RecOK, SettledAsRequested, NoStatus
<1> QED BY <1>4, <1>5, <1>6 DEF PInv

LEMMA LoadStep ==
  ASSUME PInv, Load
  PROVE  PInv'
<1> DEFINE seen == {r \in Replicas : Seen(r)}
           stale == {r \in seen : Stale(claimCache[r], jobCache[r])}
           available == {r \in seen \ stale : 
                           /\ claimCache[r].phase = "Bound"
                           /\ claimCache[r].stage = "Available"}
<1>1. CASE ~Exists(poolCache)
  BY <1>1 DEF Load, PInv, TypeOK, StoredOK, SeenOK, AbsentIsZero, Ours,
     SettledAsRequested, stored, caches, history
<1>2. CASE Exists(poolCache)
  <2>1. SpecOK(poolCache.gen) /\ poolCache \in Pools
    BY <1>2 DEF PInv, SeenOK, TypeOK
  <2>2. /\ claimCache \in [Replicas -> Claims] 
        /\ jobCache \in [Replicas -> Jobs]
    BY DEF PInv, TypeOK
  <2>3. Loaded = 
     [Idle EXCEPT 
        !.at = "finalize", !.pool = poolCache,
        !.claim = [r \in Replicas |-> 
                     IF r \in seen THEN claimCache[r] ELSE NoClaim], 
        !.job = [r \in Replicas |-> IF r \in seen THEN jobCache[r] ELSE NoJob],
        !.stale = stale, !.available = available,
        !.initializing = seen \ (stale \cup available)]
    BY DEF Loaded
  <2>4. \A r \in seen : 
          Exists(claimCache[r]) /\ Matches(Selector, claimCache[r].labels)
    BY <2>1 DEF Seen, SpecOK
  <2>5. \A r \in available : claimCache[r].phase = "Bound" 
                               /\ claimCache[r].stage = "Available"
    OBVIOUS
  <2>6. /\ seen \subseteq Replicas /\ stale \subseteq seen 
        /\ available \subseteq seen \ stale
    OBVIOUS
  <2>7. /\ \A r \in seen \ (stale \cup available) : 
             Unoffered(claimCache[r])
        /\ \A r \in stale : Stale(claimCache[r], jobCache[r])
    BY DEF Unoffered, Stale
  <2> HIDE DEF seen, stale, available
  <2>8. /\ Loaded \in Recs
        /\ Loaded.at = "finalize" /\ Loaded.pool = poolCache
        /\ Loaded.claim = [r \in Replicas |-> 
                     IF r \in seen THEN claimCache[r] ELSE NoClaim]
        /\ Loaded.job = 
             [r \in Replicas |-> IF r \in seen THEN jobCache[r] ELSE NoJob]
        /\ Loaded.stale = stale /\ Loaded.available = available
        /\ Loaded.initializing = seen \ (stale \cup available)
        /\ Loaded.loop = "none" /\ Loaded.Settlement = "Unknown"
        /\ Loaded.mounted = Nobody
    BY <2>1, <2>2, <2>3, <2>6, ZeroTypes DEF Idle, Recs, Calls
  <2>9. Base(Loaded)
    BY <2>1, <2>4, <2>6, <2>8, ZeroTypes 
       DEF Base, NoJob, PInv, SeenOK, AbsentIsZero
  <2>10. Listed(Loaded)
    BY <2>4, <2>5, <2>6, <2>8 DEF Listed
  <2>11. RecOK(Loaded)
    BY <2>4, <2>6, <2>8, <2>9, <2>10, <2>7 DEF RecOK, OldOK
  <2>12. RecOK(rec)' /\ queued' \in BOOLEAN
    BY <1>2, <2>11 DEF Load
  <2>13. UNCHANGED <<stored, status, caches, history>>
    BY DEF Load
  <2> QED BY <2>12, <2>13, RecTypes 
          DEF PInv, TypeOK, StoredOK, SeenOK, AbsentIsZero, Ours,
              SettledAsRequested, stored, caches, history, ReplicaCalls
<1> QED BY <1>1, <1>2

(* A step of the reconcile alone. *)
LEMMA QuietStep ==
  ASSUME PInv, RecOK(rec'), queued' \in BOOLEAN,
         UNCHANGED <<stored, status, caches, history>>
  PROVE  PInv'
BY RecTypes 
   DEF PInv, TypeOK, StoredOK, SeenOK, AbsentIsZero, Ours, 
       SettledAsRequested, stored, caches, history, ReplicaCalls

LEMMA ConfiguredOK ==
  ASSUME PInv, rec.at = "finalize", NEW p \in Pools, p.gen = rec.pool.gen,
         NEW m \in Configured(p)
  PROVE  RecOK(m) /\ Kept(rec, m)
<1>0. /\ Base(rec) /\ Listed(rec) /\ rec.Settlement # "Settled" 
      /\ rec \in Recs /\ OldOK(rec)
      /\ \A r \in rec.initializing : Unoffered(rec.claim[r])
  BY RecTypes DEF PInv
<1>1. PICK last \in MountedLast(p) : 
        m \in InitializingLoop(
                [rec EXCEPT !.pool = p, !.loop = "initializing", 
                   !.todo = rec.initializing, !.mounted = last,
                   !.Available = 
                      IF Specs[p.gen].replicas = 0 THEN "False" ELSE @])
  BY DEF Configured
<1> DEFINE l == [rec EXCEPT !.pool = p, !.loop = "initializing", 
                   !.todo = rec.initializing, !.mounted = last,
                   !.Available = 
                      IF Specs[p.gen].replicas = 0 THEN "False" ELSE @]
<1>2. last \in Replicas \cup {Nobody}
  BY <1>0 DEF MountedLast, Recs
<1>3. SpecOK(p.gen)
  BY <1>0 DEF Base
<1>4. NoneNamesVolume => last = Nobody
  BY <1>3 DEF MountedLast, NoneNamesVolume, SpecOK
<1>5. /\ l \in Recs /\ l.pool = p /\ l.loop = "initializing"
      /\ l.todo = rec.initializing /\ l.mounted = last
      /\ l.claim = rec.claim /\ l.job = rec.job /\ l.stale = rec.stale
      /\ l.available = rec.available /\ l.initializing = rec.initializing 
      /\ l.Settlement = rec.Settlement
  BY <1>0, <1>2 DEF Recs, Loops, AvailableValues
<1>6. m \in InitializingLoop(l)
  BY <1>1
<1> HIDE DEF l
<1>7. Base(l)
  BY <1>0, <1>3, <1>4, <1>5 DEF Base
<1>8. /\ Listed(l) /\ Ahead(l) /\ NewUnloaded(l)
      /\ Owned(l, Visited(l))
  BY <1>0, <1>5 
     DEF Listed, Ahead, OldOK, NewUnloaded, Unused, Owned, Visited
<1>9. GoesOn(l, InitializingLoop(l))
  BY <1>0, <1>5, <1>7, <1>8, InitializingLoopOK
<1> QED BY <1>5, <1>6, <1>9, KeptTransitive DEF GoesOn

LEMMA FinalizeStep ==
  ASSUME PInv, Finalize
  PROVE  PInv' /\ Kept(rec, rec')
<1>0. /\ Base(rec) /\ Listed(rec) /\ rec.Settlement # "Settled" 
      /\ rec \in Recs /\ OldOK(rec)
  BY RecTypes DEF PInv, Finalize
<1>1. /\ UNCHANGED <<claim, job, volume, status, caches, history, queued>>
      /\ queued \in BOOLEAN
  BY DEF Finalize, PInv, TypeOK
<1>2. CASE rec' \in Configured(rec.pool) /\ UNCHANGED pool
  <2>1. rec.pool \in Pools
    BY <1>0 DEF Recs
  <2>2. RecOK(rec') /\ Kept(rec, rec')
    BY <1>2, <2>1, ConfiguredOK DEF Finalize
  <2> QED BY <1>1, <1>2, <2>2, QuietStep DEF stored
<1>3. CASE /\ pool = rec.pool /\ rec.pool.meta = "live"
           /\ pool' = [pool EXCEPT !.finalizer = TRUE]
           /\ rec' \in Configured(pool')
  <2>1. pool' \in Pools /\ pool'.gen = pool.gen /\ pool'.meta = pool.meta
    BY <1>3 DEF PInv, TypeOK, Pools
  <2>2. RecOK(rec') /\ Kept(rec, rec')
    BY <1>3, <2>1, ConfiguredOK DEF Finalize
  <2> QED BY <1>1, <2>1, <2>2, RecTypes 
          DEF PInv, TypeOK, StoredOK, SeenOK, AbsentIsZero, Ours, Exists,
              SettledAsRequested, caches, history, ReplicaCalls
<1>4. CASE /\ rec' \in DeleteLoop([rec EXCEPT !.loop = "delete", !.todo =
                          rec.initializing \cup rec.available \cup rec.stale])
           /\ UNCHANGED pool
  <2> DEFINE l == [rec EXCEPT !.loop = "delete", !.todo =
                          rec.initializing \cup rec.available \cup rec.stale]
  <2>1. /\ l \in Recs /\ l.loop = "delete" /\ l.pool = rec.pool 
        /\ l.claim = rec.claim /\ l.job = rec.job /\ l.stale = rec.stale
        /\ l.available = rec.available /\ l.mounted = rec.mounted 
        /\ l.Settlement = rec.Settlement
        /\ l.todo = rec.initializing \cup rec.available \cup rec.stale
    BY <1>0 DEF Recs, Loops
  <2>2. rec' \in DeleteLoop(l)
    BY <1>4
  <2> HIDE DEF l
  <2>3. Base(l)
    BY <1>0, <2>1, BaseKept
  <2>4. Ahead(l)
    BY <1>0, <2>1 DEF Ahead, OldOK, Listed
  <2>5. GoesOn(l, DeleteLoop(l))
    BY <1>0, <2>1, <2>3, <2>4, DeleteLoopOK
  <2>6. RecOK(rec') /\ Kept(rec, rec')
    BY <2>1, <2>2, <2>5, KeptTransitive DEF GoesOn
  <2> QED BY <1>1, <1>4, <2>6, QuietStep DEF stored
<1> QED BY <1>2, <1>3, <1>4 DEF Finalize

LEMMA UnfinalizeStep ==
  ASSUME PInv, Unfinalize
  PROVE  PInv'
<1>1. RecOK(rec')
  BY DEF Unfinalize, RecOK
<1> QED BY <1>1, RecTypes, ZeroTypes
    DEF PInv, TypeOK, StoredOK, SeenOK, AbsentIsZero, Ours, Unfinalize,
        SettledAsRequested, caches, history, ReplicaCalls

(* The claim a reconcile writes belongs to the pool and is one the pool's  *)
(* selector finds: its labels did match, or there were none, and those the *)
(* template gives match too (validation.go:38).                            *)
LEMMA WrittenOK ==
  ASSUME PInv, rec.at = "saveClaim"
  PROVE  /\ Written(rec.r) \in Claims
         /\ Exists(Written(rec.r))
         /\ Matches(Selector, Written(rec.r).labels)
         /\ Written(rec.r).stage = Marked(rec, rec.r)
         /\ Written(rec.r).controller = Us
         /\ Exists(rec.claim[rec.r]) => 
              /\ Written(rec.r).phase = rec.claim[rec.r].phase
              /\ Written(rec.r).meta = rec.claim[rec.r].meta
<1> DEFINE old == rec.claim[rec.r]
           new == IF Exists(old) THEN old 
             ELSE [NoClaim EXCEPT !.meta = "live", !.phase = "Pending",
                     !.dynamic = ConfiguredClaim(Wanted.template).dynamic]
           labels == Merged(new.labels, Wanted.template.labels)
<1>1. /\ rec \in Recs /\ Base(rec) /\ rec.r \in Replicas
      /\ rec.loop \in {"initializing", "available", "scaleUp"}
  BY RecTypes DEF PInv, ReplicaCalls, AtCall
<1>2. /\ rec.pool.gen \in 1 .. Len(Specs) /\ ValidatePoolSpec(Wanted)
      /\ Wanted.selector = Selector
  BY <1>1 DEF Base, SpecOK, Wanted
<1>3. /\ Wanted.template.labels \in Labels
      /\ ConfiguredClaim(Wanted.template).dynamic = TRUE
  BY <1>2, SpecTypes DEF Wanted
<1>4. old \in Claims
  BY <1>1 DEF Recs
<1>5. /\ new \in Claims /\ Exists(new)
      /\ Exists(old) => new = old
      /\ ~Exists(old) => new.labels = [k \in Keys |-> Unset]
  <2>1. CASE Exists(old)
    BY <1>4, <2>1
  <2>2. CASE ~Exists(old)
    BY <1>3, <2>2, ZeroTypes DEF NoClaim, Claims, Metas, Exists
  <2> QED BY <2>1, <2>2
<1>6. new.labels \in Labels
  BY <1>5 DEF Claims
<1>7. labels \in Labels
  BY <1>3, <1>6, MergedTypes
<1>8. Matches(Selector, labels)
  <2>1. Matches(Selector, Wanted.template.labels)
    BY <1>2 DEF ValidatePoolSpec
  <2>2. CASE Exists(old)
    BY <1>1, <1>3, <1>5, <1>6, <2>1, <2>2, MergedTypes DEF Base
  <2>3. CASE ~Exists(old)
    <3>1. labels = Wanted.template.labels
      BY <1>3, <1>5, <2>3 DEF Merged, Labels
    <3> QED BY <2>1, <3>1
  <2> QED BY <2>2, <2>3
<1>9. Marked(rec, rec.r) \in Stages
  BY <1>1, <1>4 DEF Marked, Stages, Claims
<1>10. Written(rec.r) = [new EXCEPT !.controller = Us, 
               !.stage = Marked(rec, rec.r), 
               !.labels = Merged(@, Wanted.template.labels)]
  BY DEF Written
<1> HIDE DEF new, old
<1>11. /\ Written(rec.r) \in Claims
       /\ Written(rec.r).meta = new.meta
       /\ Written(rec.r).phase = new.phase
       /\ Written(rec.r).labels = labels
       /\ Written(rec.r).stage = Marked(rec, rec.r)
       /\ Written(rec.r).controller = Us
  BY <1>5, <1>7, <1>9, <1>10 DEF Claims
<1>12. Exists(Written(rec.r))
  BY <1>5, <1>11 DEF Exists
<1> QED BY <1>5, <1>8, <1>11, <1>12 DEF old

(* Once its claim is written, the reconcile goes on with that claim as     *)
(* loaded, or creates the job of this replica.                             *)
Saved(l, m) ==
  LET w == [l EXCEPT !.claim[l.r] = Written(l.r)] IN
  \/ Kept(w, m)
  \/ m.at = "createJob" /\ m.r = l.r /\ m.claim = w.claim /\ m.job = l.job

LEMMA SaveClaimStep ==
  ASSUME PInv, SaveClaim
  PROVE  PInv' /\ Saved(rec, rec')
<1> DEFINE w == Written(rec.r)
           l == [rec EXCEPT !.claim[rec.r] = w]
<1>1. /\ rec \in Recs /\ Base(rec) /\ AtCall(rec) /\ rec.r \in Replicas
      /\ rec.loop \in {"initializing", "available", "scaleUp"}
      /\ rec.at = "saveClaim" /\ InLoop(rec)
  BY RecTypes DEF PInv, ReplicaCalls, AtCall, SaveClaim
<1>2. /\ w \in Claims /\ Exists(w) /\ Matches(Selector, w.labels)
      /\ w.stage = Marked(rec, rec.r) /\ w.controller = Us
      /\ Exists(rec.claim[rec.r]) => 
           w.phase = rec.claim[rec.r].phase /\ w.meta = rec.claim[rec.r].meta
  BY <1>1, WrittenOK
<1>3. /\ claim' = [claim EXCEPT ![rec.r] = w]
      /\ rec' \in IF Offered(l, rec.r) \/ Exists(rec.job[rec.r]) 
                  THEN Done(l) ELSE {[l EXCEPT !.at = "createJob"]}
      /\ UNCHANGED <<pool, job, volume, status, caches, history, queued>>
  BY DEF SaveClaim
<1> HIDE DEF w
<1>4. /\ l \in Recs /\ l.claim = [rec.claim EXCEPT ![rec.r] = w]
      /\ l.pool = rec.pool /\ l.job = rec.job /\ l.stale = rec.stale 
      /\ l.available = rec.available /\ l.initializing = rec.initializing
      /\ l.loop = rec.loop /\ l.todo = rec.todo /\ l.r = rec.r
      /\ l.mounted = rec.mounted /\ l.Settlement = rec.Settlement
  BY <1>1, <1>2 DEF Recs
<1>5. rec.claim \in [Replicas -> Claims]
  BY <1>1 DEF Recs
<1> HIDE DEF l
<1>6. /\ l.claim[rec.r] = w 
      /\ \A s \in Replicas : s # rec.r => l.claim[s] = rec.claim[s]
  BY <1>1, <1>4, <1>5
<1>7. Base(l)
  BY <1>1, <1>2, <1>4, <1>6 DEF Base
<1>8. Marked(l, rec.r) = w.stage
  BY <1>2, <1>4, <1>6 DEF Marked
<1>9. InLoop(l)
  <2>1. ASSUME rec.loop \in {"initializing", "available"} 
        PROVE  Listed(l)
    <3>1. Listed(rec) /\ rec.r \in rec.initializing \cup rec.available
      BY <1>1, <2>1 DEF InLoop
    <3>2. rec.r \in rec.available => 
            w.phase = "Bound" /\ w.stage = "Available"
      BY <1>1, <1>2, <2>1, <3>1 DEF Listed, Marked, InLoop
    <3> QED BY <1>2, <1>4, <1>6, <3>1, <3>2 DEF Listed
  <2>2. Ahead(l)
    <3>1. rec.todo \subseteq Replicas /\ rec.stale \subseteq Replicas
      BY <1>1 DEF Recs
    <3>2. OldOK(l)
      <4>1. OldOK(rec)
        BY <1>1 DEF InLoop, Ahead
      <4> QED BY <1>2, <1>4, <1>6, <3>1, <4>1 DEF OldOK, Stale
    <3> QED BY <1>1, <1>2, <1>4, <1>6, <3>1, <3>2 DEF Ahead, InLoop
  <2>3. Owned(l, Visited(l) \ {l.r})
    <3>1. Visited(l) = Visited(rec) /\ Visited(rec) \subseteq Replicas
      BY <1>1, <1>4 DEF Visited, Recs
    <3> QED BY <1>1, <1>4, <1>6, <3>1 DEF InLoop, Owned
  <2> QED BY <1>1, <1>4, <2>1, <2>2, <2>3 DEF InLoop
<1>10. RecOK(rec') /\ Saved(rec, rec')
  <2>1. CASE Offered(l, rec.r) \/ Exists(rec.job[rec.r])
    <3>1. rec' \in Done(l)
      BY <1>3, <2>1
    <3>2. l.loop \in {"initializing", "available"} => 
            NewUnloaded(l) /\ Owned(l, {l.r})
      <4> SUFFICES ASSUME rec.loop \in {"initializing", "available"}
                   PROVE  NewUnloaded(l)
        BY <1>2, <1>4, <1>6 DEF Owned
      <4>1. Exists(rec.claim[rec.r])
        BY <1>1 DEF InLoop, Listed
      <4> QED BY <1>6, <4>1 DEF NewUnloaded, Unused
    <3>3. l.loop = "initializing" /\ Offered(l, l.r) => 
            l.claim[l.r].stage = "Available"
      BY <1>4, <1>6, <1>8 DEF Offered
    <3>4. RecOK(rec') /\ Kept(l, rec')
      BY <1>7, <1>9, <3>1, <3>2, <3>3, DoneOK DEF GoesOn
    <3> QED BY <3>4 DEF Saved, l, w
  <2>2. CASE ~Offered(l, rec.r) /\ ~Exists(rec.job[rec.r])
    <3> DEFINE m == [l EXCEPT !.at = "createJob"]
    <3>1. rec' = m
      BY <1>3, <2>2
    <3>2. /\ m \in Recs /\ m.at = "createJob" /\ m.r = l.r 
          /\ m.todo = l.todo /\ m.pool = l.pool /\ m.claim = l.claim
          /\ m.job = l.job /\ m.available = l.available /\ m.stale = l.stale
          /\ m.Settlement = l.Settlement /\ m.loop = l.loop
          /\ m.mounted = l.mounted /\ m.initializing = l.initializing
      BY <1>4 DEF Recs, Calls
    <3> HIDE DEF m
    <3>3. Base(m)
      BY <1>7, <3>2, BaseKept
    <3>4. InLoop(m)
      BY <1>9, <3>2 DEF InLoop, Ahead, OldOK, Listed, Owned, Visited
    <3>5. rec.job[rec.r].cond = "none"
      BY <1>1, <2>2 DEF Base
    <3>6. rec.loop # "available"
      <4> SUFFICES ASSUME rec.loop = "available" PROVE FALSE
        OBVIOUS
      <4>1. l.claim[rec.r].phase = "Bound" 
               /\ l.claim[rec.r].stage = "Available"
        BY <1>4, <1>9 DEF InLoop, Listed
      <4> QED BY <1>6, <1>8, <2>2, <4>1 DEF Offered
    <3>7. w.stage = "Initializing"
      BY <1>1, <1>2, <3>5, <3>6 DEF Marked
    <3>8. AtCall(m)
      BY <1>1, <1>2, <1>4, <1>6, <2>2, <3>2, <3>4, <3>6, <3>7 
         DEF AtCall, ReplicaCalls, Owned
    <3>9. /\ rec'.at = "createJob" /\ rec'.r = rec.r 
          /\ rec'.claim = l.claim /\ rec'.job = rec.job
      BY <1>4, <3>1, <3>2
    <3> QED BY <3>1, <3>3, <3>8, <3>9 DEF RecOK, Saved, l, w
  <2> QED BY <2>1, <2>2
<1>11. claim' \in [Replicas -> Claims]
  BY <1>1, <1>2, <1>3 DEF PInv, TypeOK
<1>12. \A r \in Replicas : Exists(claim'[r]) /\ Ours(r)' => 
         Matches(Selector, claim'[r].labels)
  BY <1>1, <1>2, <1>3 DEF PInv, TypeOK, StoredOK, Ours
<1> QED BY <1>3, <1>10, <1>11, <1>12, RecTypes
    DEF PInv, TypeOK, StoredOK, SeenOK, AbsentIsZero, 
        SettledAsRequested, caches, history, ReplicaCalls

LEMMA NewJobOK ==
  ASSUME PInv, rec.at = "createJob"
  PROVE  /\ NewJob(rec.r) \in Jobs /\ Exists(NewJob(rec.r))
         /\ SpecOK(rec.pool.gen) /\ rec.pool.gen \in 1 .. Len(Specs)
         /\ NewJob(rec.r).template = InitJob(Specs[rec.pool.gen])
         /\ NewJob(rec.r).mounts \in Replicas
         /\ NewJob(rec.r).cond = "Running" /\ NewJob(rec.r).meta = "live"
         /\ NoneNamesVolume => NewJob(rec.r).mounts = rec.r
<1>1. rec \in Recs /\ Base(rec) /\ rec.r \in Replicas
  BY RecTypes DEF PInv, ReplicaCalls, AtCall
<1>2. SpecOK(rec.pool.gen) /\ rec.pool.gen \in 1 .. Len(Specs)
  BY <1>1 DEF Base, SpecOK
<1>3. InitJob(Wanted) \in MountJobs
  BY <1>2, SpecTypes DEF Wanted
<1>4. rec.mounted \in Replicas \cup {Nobody}
  BY <1>1 DEF Recs
<1> QED BY <1>1, <1>2, <1>3, <1>4 
        DEF NewJob, Jobs, Metas, Exists, Wanted, Base

LEMMA CreateJobStep ==
  ASSUME PInv, CreateJob
  PROVE  PInv' /\ Kept(rec, rec')
<1>1. /\ rec \in Recs /\ Base(rec) /\ AtCall(rec) /\ rec.r \in Replicas
      /\ rec.at = "createJob" /\ InLoop(rec)
  BY RecTypes DEF PInv, ReplicaCalls, AtCall, CreateJob
<1>2. RecOK(rec') /\ Kept(rec, rec')
  <2>1. rec.claim[rec.r].stage = "Initializing" 
          /\ rec.job[rec.r].cond = "none"
    BY <1>1 DEF AtCall, Base
  <2>2. rec.loop = "initializing" => ~Offered(rec, rec.r)
    BY <2>1 DEF Offered, Marked
  <2> QED BY <1>1, <2>2, DoneOK 
          DEF CreateJob, GoesOn, NewUnloaded, Unused, AtCall
<1>3. job' = [job EXCEPT ![rec.r] = NewJob(rec.r)]
  BY DEF CreateJob
<1>4. job' \in [Replicas -> Jobs]
  BY <1>1, <1>3, NewJobOK DEF PInv, TypeOK
<1>5. \A r \in Replicas : 
        /\ Exists(job'[r]) => 
             /\ job'[r].mounts \in Replicas
             /\ \E g \in 1 .. Len(Specs) : 
                  SpecOK(g) /\ job'[r].template = InitJob(Specs[g])
        /\ ~Exists(job'[r]) => job'[r].cond = "none"
  BY <1>1, <1>3, NewJobOK DEF PInv, TypeOK, StoredOK, AbsentIsZero
<1> QED BY <1>2, <1>4, <1>5, RecTypes
    DEF PInv, TypeOK, StoredOK, SeenOK, AbsentIsZero, Ours, CreateJob,
        SettledAsRequested, caches, history, ReplicaCalls

LEMMA TerminatingTypes ==
  /\ \A c \in Claims : /\ Terminating(c) \in Claims /\ Exists(Terminating(c))
                       /\ Terminating(c).labels = c.labels
                       /\ Terminating(c).controller = c.controller
                       /\ Terminating(c).stage = c.stage
                       /\ Terminating(c).phase = c.phase
  /\ \A j \in Jobs : /\ Terminating(j) \in Jobs /\ Exists(Terminating(j))
                     /\ Terminating(j).template = j.template
                     /\ Terminating(j).cond = j.cond
                     /\ Terminating(j).mounts = j.mounts
                     /\ Terminating(j).meta = "terminating"
<1>1. ASSUME NEW c \in Claims 
      PROVE  /\ Terminating(c) \in Claims /\ Exists(Terminating(c))
             /\ Terminating(c).labels = c.labels
             /\ Terminating(c).controller = c.controller
             /\ Terminating(c).stage = c.stage
             /\ Terminating(c).phase = c.phase
  BY DEF Terminating, Claims, Metas, Exists
<1>2. ASSUME NEW j \in Jobs
      PROVE  /\ Terminating(j) \in Jobs /\ Exists(Terminating(j))
             /\ Terminating(j).template = j.template
             /\ Terminating(j).cond = j.cond
             /\ Terminating(j).mounts = j.mounts
             /\ Terminating(j).meta = "terminating"
  BY DEF Terminating, Jobs, Metas, Exists
<1> QED BY <1>1, <1>2

LEMMA DropJobStep ==
  ASSUME PInv, DropJob
  PROVE  PInv' /\ Kept(rec, rec')
<1>1. /\ rec \in Recs /\ Base(rec) /\ AtCall(rec) /\ rec.r \in Replicas
      /\ rec.at = "dropJob" /\ InLoop(rec) /\ rec.loop # "scaleUp"
  BY RecTypes DEF PInv, ReplicaCalls, AtCall, DropJob
<1>2. RecOK(rec') /\ Kept(rec, rec')
  <2> DEFINE at == IF rec.loop \in {"initializing", "available"}
                   THEN "saveClaim" ELSE "dropClaim"
             m == [rec EXCEPT !.at = at]
  <2>1. rec' = m
    BY DEF DropJob
  <2>2. /\ m \in Recs /\ m.at = at /\ m.r = rec.r 
        /\ m.todo = rec.todo /\ m.pool = rec.pool /\ m.claim = rec.claim
        /\ m.job = rec.job /\ m.available = rec.available 
        /\ m.stale = rec.stale /\ m.initializing = rec.initializing
        /\ m.Settlement = rec.Settlement /\ m.loop = rec.loop
        /\ m.mounted = rec.mounted 
    BY <1>1 DEF Recs, Calls
  <2>3. /\ at \in {"saveClaim", "dropClaim"}
        /\ at = "saveClaim" => rec.loop \in {"initializing", "available"}
        /\ at = "dropClaim" => rec.loop \in {"scaleDown", "stale", "delete"}
    BY <1>1 DEF InLoop, Loops
  <2> HIDE DEF m, at
  <2>4. Base(m)
    BY <1>1, <2>2, BaseKept
  <2>5. InLoop(m)
    BY <1>1, <2>2 DEF InLoop, Ahead, OldOK, Listed, Owned, Visited
  <2>6. AtCall(m)
    BY <1>1, <2>2, <2>3, <2>5 DEF AtCall, ReplicaCalls, Owned
  <2>7. Kept(rec, m)
    BY <1>1, <2>2, <2>3 DEF Kept, AtCall
  <2> QED BY <2>1, <2>4, <2>6, <2>7 DEF RecOK
<1>3. \A r \in Replicas : 
        \/ job'[r] = job[r] 
        \/ job'[r] = Terminating(job[r]) /\ Exists(job[r])
  BY <1>1 DEF DropJob, PInv, TypeOK
<1>4. job' \in [Replicas -> Jobs]
  <2>1. job[rec.r] \in Jobs
    BY <1>1 DEF PInv, TypeOK
  <2>2. Terminating(job[rec.r]) \in Jobs
    BY <2>1, TerminatingTypes
  <2> QED BY <2>2 DEF DropJob, PInv, TypeOK
<1>5. \A r \in Replicas : 
        /\ Exists(job'[r]) => 
             /\ Exists(job[r]) /\ job'[r].template = job[r].template
             /\ job'[r].mounts = job[r].mounts
        /\ ~Exists(job'[r]) => 
             ~Exists(job[r]) /\ job'[r].cond = job[r].cond
  BY <1>3, TerminatingTypes DEF PInv, TypeOK
<1>6. \A r \in Replicas : 
        /\ Exists(job'[r]) => 
             /\ job'[r].mounts \in Replicas
             /\ \E g \in 1 .. Len(Specs) : 
                  SpecOK(g) /\ job'[r].template = InitJob(Specs[g])
        /\ ~Exists(job'[r]) => job'[r].cond = "none"
  BY <1>5 DEF PInv, StoredOK, AbsentIsZero
<1> QED BY <1>2, <1>4, <1>6, RecTypes
    DEF PInv, TypeOK, StoredOK, SeenOK, AbsentIsZero, Ours, DropJob,
        SettledAsRequested, caches, history, ReplicaCalls

LEMMA DropClaimStep ==
  ASSUME PInv, DropClaim
  PROVE  PInv' /\ Kept(rec, rec')
<1>1. /\ rec \in Recs /\ Base(rec) /\ AtCall(rec) /\ rec.r \in Replicas
      /\ rec.at = "dropClaim" /\ InLoop(rec) 
      /\ rec.loop \in {"scaleDown", "stale", "delete"}
  BY RecTypes DEF PInv, ReplicaCalls, AtCall, DropClaim
<1>2. RecOK(rec') /\ Kept(rec, rec')
  BY <1>1, DoneOK DEF DropClaim, GoesOn
<1>3. Terminating(claim[rec.r]) \in Claims
  BY <1>1, TerminatingTypes DEF PInv, TypeOK
<1>4. claim' \in [Replicas -> Claims]
  BY <1>3 DEF DropClaim, PInv, TypeOK
<1>5. \A r \in Replicas : 
        \/ claim'[r] = claim[r] 
        \/ claim'[r] = Terminating(claim[r]) /\ Exists(claim[r])
  BY <1>1 DEF DropClaim, PInv, TypeOK
<1>6. \A r \in Replicas : Exists(claim'[r]) => 
        /\ Exists(claim[r]) /\ claim'[r].labels = claim[r].labels
        /\ claim'[r].controller = claim[r].controller
  BY <1>5, TerminatingTypes DEF PInv, TypeOK
<1>7. \A r \in Replicas : Exists(claim'[r]) /\ Ours(r)' => 
         Matches(Selector, claim'[r].labels)
  BY <1>6 DEF PInv, StoredOK, Ours
<1> QED BY <1>2, <1>4, <1>7, RecTypes
    DEF PInv, TypeOK, StoredOK, SeenOK, AbsentIsZero, DropClaim,
        SettledAsRequested, caches, history, ReplicaCalls

LEMMA RefusedStep ==
  ASSUME PInv, Refused \/ CallFails
  PROVE  PInv' /\ Kept(rec, rec')
<1>1. Base(rec) /\ queued \in BOOLEAN
  <2>1. rec.at # "idle"
    BY DEF Refused, CallFails, Calls
  <2> QED BY <2>1, RecTypes DEF PInv, TypeOK
<1>2. RecOK(Failed(rec)) /\ Failed(rec) \in Recs /\ Base(Failed(rec))
      /\ Failed(rec).at = "status" /\ Kept(rec, Failed(rec))
  BY <1>1, EndingOK DEF Failed
<1>3. /\ RecOK([Failed(rec) EXCEPT !.Settlement = "Invalid"])
      /\ Kept(rec, [Failed(rec) EXCEPT !.Settlement = "Invalid"])
  <2> DEFINE f == Failed(rec)
             m == [f EXCEPT !.Settlement = "Invalid"]
  <2> HIDE DEF f
  <2>1. f \in Recs /\ Base(f) /\ f.at = "status"
    <3>1. f.at = "status"
      <4>1. Ending(rec).at = "status" /\ Ending(rec) \in Recs
        BY <1>1, EndingOK
      <4> QED BY <4>1 DEF f, Failed, Recs
    <3> QED BY <1>2, <3>1 DEF f
  <2>2. /\ m \in Recs /\ m.at = "status" /\ m.pool = f.pool 
        /\ m.claim = f.claim /\ m.job = f.job /\ m.available = f.available 
        /\ m.stale = f.stale /\ m.Settlement = "Invalid"
        /\ m.mounted = f.mounted 
    BY <2>1 DEF Recs, SettlementValues
  <2> HIDE DEF m
  <2>3. Base(m)
    BY <2>1, <2>2 DEF Base
  <2>4. Kept(rec, m)
    BY <1>2, <2>2 DEF Kept, f
  <2> QED BY <2>2, <2>3, <2>4 DEF RecOK, m, f
<1>4. RecOK(rec') /\ Kept(rec, rec')
  BY <1>2, <1>3 DEF Refused, CallFails
<1>5. UNCHANGED <<stored, status, caches, history, queued>>
  BY DEF Refused, CallFails
<1> QED BY <1>1, <1>4, <1>5, QuietStep

LEMMA WriteStatusStep ==
  ASSUME PInv, WriteStatus
  PROVE  PInv'
<1>1. rec \in Recs /\ Base(rec)
  BY RecTypes DEF PInv, WriteStatus
<1>2. NewStatus \in Statuses
  <2>1. \A s \in SUBSET Replicas : Cardinality(s) \in Nat
    BY PoolAssumption, FS_Subset, FS_CardinalityType
  <2>2. /\ Cardinality(rec.available) \in Nat
        /\ Cardinality(rec.initializing) \in Nat
        /\ Cardinality(rec.stale) \in Nat
    BY <1>1, <2>1 DEF Recs
  <2>3. /\ rec.pool.gen \in Generations /\ rec.Available \in AvailableValues
        /\ rec.Settlement \in SettlementValues
    BY <1>1 DEF Recs, Pools
  <2> QED BY <2>2, <2>3 DEF NewStatus, Statuses
<1>3. status' \in Statuses /\ poolCache' \in Pools
      /\ poolCache'.meta = poolCache.meta /\ poolCache'.gen = poolCache.gen
  <2>1. CASE UNCHANGED <<status, poolCache>>
    BY <2>1 DEF PInv, TypeOK
  <2>2. CASE /\ status' = NewStatus
             /\ poolCache' = 
                  [poolCache EXCEPT !.current = @ /\ status' = status]
    <3>1. (poolCache.current /\ status' = status) \in BOOLEAN
      OBVIOUS
    <3>2. poolCache \in Pools
      BY DEF PInv, TypeOK
    <3> QED BY <1>2, <2>2, <3>1, <3>2 DEF Pools
  <2> QED BY <2>1, <2>2 DEF WriteStatus
<1>4. SettledAsRequested'
  <2>1. CASE status' = status
    BY <2>1 DEF PInv, SettledAsRequested
  <2>2. CASE status' = NewStatus
    BY <1>1, <2>2 DEF NewStatus, Base, SettledAsRequested
  <2> QED BY <2>1, <2>2 DEF WriteStatus
<1>5. RecOK(rec') /\ rec' = Idle
  BY DEF WriteStatus, RecOK
<1>6. queued' \in BOOLEAN
  <2>1. queued \in BOOLEAN /\ rec.failed \in BOOLEAN
    BY <1>1 DEF PInv, TypeOK, Recs
  <2>2. queued' = (queued \/ rec.failed)
    BY DEF WriteStatus
  <2> QED BY <2>1, <2>2
<1>7. /\ UNCHANGED <<pool, claim, job, volume>>
      /\ UNCHANGED <<claimCache, jobCache, volumeCache, initialized, taken>>
  BY DEF WriteStatus, stored, history
<1> QED BY <1>3, <1>4, <1>5, <1>6, <1>7, RecTypes
    DEF PInv, TypeOK, StoredOK, SeenOK, AbsentIsZero, Ours, Exists,
        ReplicaCalls

LEMMA StatusFailsStep ==
  ASSUME PInv, StatusFails
  PROVE  PInv'
BY QuietStep DEF StatusFails, RecOK

LEMMA InformersStep ==
  ASSUME PInv, Informers \/ Crash
  PROVE  PInv'
<1>1. /\ UNCHANGED <<pool, claim, job, volume, status, initialized, taken>>
      /\ poolCache' \in {pool, poolCache} 
      /\ claimCache' \in {claim, claimCache}
      /\ jobCache' \in {job, jobCache} 
      /\ volumeCache' \in {volume, volumeCache}
  BY DEF Informers, SyncPool, SyncClaims, SyncJobs, SyncVolumes, Crash,
     stored, history
<1>2. queued' \in BOOLEAN
  <2>1. CASE SyncClaims
    BY <2>1 DEF SyncClaims
  <2> QED BY <2>1 DEF Informers, SyncPool, SyncJobs, SyncVolumes, Crash, 
          PInv, TypeOK
<1>3. RecOK(rec')
  BY DEF Informers, SyncPool, SyncClaims, SyncJobs, SyncVolumes, Crash,
     PInv, RecOK
<1> QED BY <1>1, <1>2, <1>3, RecTypes
    DEF PInv, TypeOK, StoredOK, SeenOK, AbsentIsZero, Ours,
        SettledAsRequested, ReplicaCalls

-----------------------------------------------------------------------------
(* Kubernetes and the users *)

(* What others than the controller do to a claim: they leave its labels    *)
(* and its controller alone.                                               *)
LEMMA ClaimChange ==
  ASSUME PInv, NEW r \in Replicas, NEW o \in Claims,
         claim' = [claim EXCEPT ![r] = o],
         Exists(o) /\ o.controller = Us => 
           /\ Exists(claim[r]) /\ Ours(r)
           /\ o.labels = claim[r].labels,
         volume' \in [Replicas -> Volumes], initialized' \subseteq Replicas,
         UNCHANGED <<pool, job, taken>>, Controller
  PROVE  PInv'
<1>1. claim' \in [Replicas -> Claims]
  BY DEF PInv, TypeOK
<1>2. \A s \in Replicas : Exists(claim'[s]) /\ Ours(s)' => 
         Matches(Selector, claim'[s].labels)
  BY DEF PInv, TypeOK, StoredOK, Ours
<1> QED BY <1>1, <1>2 
        DEF PInv, TypeOK, StoredOK, SeenOK, AbsentIsZero, Controller, 
            SettledAsRequested, caches

(* What others do to a job: it runs, ends or goes. *)
LEMMA JobChange ==
  ASSUME PInv, NEW r \in Replicas, NEW o \in Jobs,
         job' = [job EXCEPT ![r] = o],
         \/ o = NoJob
         \/ /\ Exists(job[r]) /\ Exists(o)
            /\ o.template = job[r].template /\ o.mounts = job[r].mounts,
         initialized' \subseteq Replicas,
         UNCHANGED <<pool, claim, volume, taken>>, Controller
  PROVE  PInv'
<1>1. job' \in [Replicas -> Jobs]
  BY DEF PInv, TypeOK
<1>2. \A s \in Replicas : 
        /\ Exists(job'[s]) => 
             /\ job'[s].mounts \in Replicas
             /\ \E g \in 1 .. Len(Specs) : 
                  SpecOK(g) /\ job'[s].template = InitJob(Specs[g])
        /\ ~Exists(job'[s]) => job'[s].cond = "none"
  BY ZeroTypes DEF PInv, TypeOK, StoredOK, AbsentIsZero, NoJob
<1> QED BY <1>1, <1>2 
        DEF PInv, TypeOK, StoredOK, SeenOK, AbsentIsZero, Controller, Ours,
            SettledAsRequested, caches

LEMMA PoolChange ==
  ASSUME PInv, pool' \in Pools, Exists(pool') => SpecOK(pool'.gen),
         UNCHANGED <<claim, job, volume, history>>, Controller
  PROVE  PInv'
BY DEF PInv, TypeOK, StoredOK, SeenOK, AbsentIsZero, Controller, Ours,
   SettledAsRequested, caches, history

LEMMA PhaseTypes ==
  ASSUME NEW c \in Claims, NEW p \in {"Bound", "Lost"}
  PROVE  /\ [c EXCEPT !.phase = p] \in Claims
         /\ [c EXCEPT !.phase = p].meta = c.meta
         /\ [c EXCEPT !.phase = p].controller = c.controller
         /\ [c EXCEPT !.phase = p].labels = c.labels
         /\ [c EXCEPT !.phase = p].stage = c.stage
         /\ [c EXCEPT !.phase = p].phase = p
BY DEF Claims

LEMMA CondTypes ==
  ASSUME NEW j \in Jobs, NEW c \in {"Complete", "Failed"}
  PROVE  /\ [j EXCEPT !.cond = c] \in Jobs
         /\ [j EXCEPT !.cond = c].meta = j.meta
         /\ [j EXCEPT !.cond = c].template = j.template
         /\ [j EXCEPT !.cond = c].mounts = j.mounts
         /\ [j EXCEPT !.cond = c].cond = c
BY DEF Jobs

LEMMA PlatformStep ==
  ASSUME PInv, NEW r \in Replicas, Platform(r)
  PROVE  PInv'
<1>1. /\ claim[r] \in Claims /\ job[r] \in Jobs
      /\ volume \in [Replicas -> Volumes] /\ initialized \subseteq Replicas
  BY DEF PInv, TypeOK
<1>10. \A p \in {"Bound", "Lost"} :
         LET o == [claim[r] EXCEPT !.phase = p] IN
         /\ o \in Claims
         /\ Exists(o) /\ o.controller = Us => 
              Exists(claim[r]) /\ Ours(r) /\ o.labels = claim[r].labels
  BY <1>1, PhaseTypes DEF Exists, Ours
<1>2. CASE Bind(r)
  <2>1. volume' \in [Replicas -> Volumes]
    BY <1>1, <1>2 DEF Bind, Volumes
  <2>2. claim' = [claim EXCEPT ![r] = [claim[r] EXCEPT !.phase = "Bound"]]
    BY <1>2 DEF Bind
  <2>3. UNCHANGED <<pool, job, taken>> /\ Controller
        /\ initialized' \subseteq Replicas
    BY <1>1, <1>2 DEF Bind, history
  <2> QED BY <1>10, <2>1, <2>2, <2>3, ClaimChange
<1>3. ASSUME NEW c \in {"Complete", "Failed"}, 
             job' = [job EXCEPT ![r] = [job[r] EXCEPT !.cond = c]], 
             Exists(job[r]), initialized' \subseteq Replicas,
             UNCHANGED <<pool, claim, volume, taken>>, Controller
      PROVE  PInv'
  <2>1. Exists([job[r] EXCEPT !.cond = c])
    BY <1>1, <1>3, CondTypes DEF Exists
  <2> QED BY <1>1, <1>3, <2>1, CondTypes, JobChange
<1>4. CASE JobCompletes(r)
  <2>1. Exists(job[r])
    BY <1>4 DEF JobCompletes, Running, Exists
  <2>2. job[r].mounts \in Replicas
    BY <2>1 DEF PInv, StoredOK
  <2> QED BY <1>1, <1>3, <1>4, <2>1, <2>2 DEF JobCompletes
<1>5. CASE JobExpires(r)
  BY <1>1, <1>3, <1>5 DEF JobExpires, Running, Exists, history
<1>6. CASE RemoveJob(r)
  BY <1>1, <1>6, ZeroTypes, JobChange DEF RemoveJob, history
<1>7. CASE RemoveClaim(r)
  <2>1. volume' \in [Replicas -> Volumes] /\ initialized' \subseteq Replicas
    BY <1>1, <1>7 DEF RemoveClaim, Volumes
  <2> QED BY <1>7, <2>1, ZeroTypes, ClaimChange DEF RemoveClaim
<1>8. CASE LoseClaim(r)
  <2>1. claim' = [claim EXCEPT ![r] = [claim[r] EXCEPT !.phase = "Lost"]]
    BY <1>8 DEF LoseClaim
  <2>2. UNCHANGED <<pool, job, taken>> /\ Controller
        /\ initialized' \subseteq Replicas /\ volume' \in [Replicas -> Volumes]
    BY <1>1, <1>8 DEF LoseClaim, history
  <2> QED BY <1>10, <2>1, <2>2, ClaimChange
<1>9. CASE Collect(r)
  <2>1. claim' = [claim EXCEPT ![r] = Terminating(claim[r])]
        /\ Exists(claim[r])
    BY <1>9 DEF Collect, Exists
  <2> QED BY <1>1, <1>9, <2>1, TerminatingTypes, ClaimChange 
          DEF Collect, Ours, history
<1> QED BY <1>2, <1>4, <1>5, <1>6, <1>7, <1>8, <1>9 DEF Platform

LEMMA EnvironmentStep ==
  ASSUME PInv, Environment
  PROVE  PInv'
<1>1. /\ claim \in [Replicas -> Claims] /\ job \in [Replicas -> Jobs]
      /\ volume \in [Replicas -> Volumes] /\ initialized \subseteq Replicas
      /\ pool \in Pools /\ taken \in 0 .. MaxTaken
  BY DEF PInv, TypeOK
<1>2. ASSUME NEW r \in Replicas, TakeVolume(r) PROVE PInv'
  <2>1. /\ UNCHANGED <<pool, claim, job, initialized>> /\ Controller
        /\ volume' \in [Replicas -> Volumes]
    BY <1>1, <1>2 DEF TakeVolume, Volumes
  <2>2. taken' \in 0 .. MaxTaken
    BY <1>1, <1>2, PoolAssumption DEF TakeVolume
  <2> QED BY <2>1, <2>2
          DEF PInv, TypeOK, StoredOK, SeenOK, AbsentIsZero, Controller, 
              Ours, SettledAsRequested, caches
<1>3. ASSUME NEW r \in Replicas, ForeignClaim(r) PROVE PInv'
  <2>1. PICK c \in {Another, Nobody} : 
          claim' = [claim EXCEPT ![r] = 
            [NoClaim EXCEPT !.meta = "live", !.controller = c, 
                    !.phase = "Bound",
                    !.labels = Specs[pool.gen].template.labels]]
    BY <1>3 DEF ForeignClaim
  <2> DEFINE o == [NoClaim EXCEPT !.meta = "live", !.controller = c, 
                    !.phase = "Bound",
                    !.labels = Specs[pool.gen].template.labels]
  <2>2. pool.gen \in 1 .. Len(Specs)
    BY <1>3 DEF ForeignClaim, PInv, StoredOK, SpecOK
  <2>3. o \in Claims /\ o.controller = c
    BY <2>2, SpecTypes, ZeroTypes DEF Claims, NoClaim, Metas
  <2>4. volume' \in [Replicas -> Volumes] 
    BY <1>1, <1>3 DEF ForeignClaim, Volumes
  <2>5. c # Us
    BY PoolAssumption
  <2> QED BY <1>1, <1>3, <2>1, <2>3, <2>4, <2>5, ClaimChange 
          DEF ForeignClaim, history
<1>4. ASSUME NEW r \in Replicas, JobFails(r) PROVE PInv'
  <2>1. Exists(job[r]) /\ job[r] \in Jobs
    BY <1>1, <1>4 DEF JobFails, Running, Exists
  <2>2. Exists([job[r] EXCEPT !.cond = "Failed"])
    BY <2>1, CondTypes DEF Exists
  <2> QED BY <1>1, <1>4, <2>1, <2>2, CondTypes, JobChange 
          DEF JobFails, history
<1>5. CASE UserEdits
  <2>1. PICK g \in Generations : 
          /\ g > pool.gen
          /\ ValidatePoolSpecUpdate(Specs[g], Specs[pool.gen])
          /\ pool' = [pool EXCEPT !.gen = g]
    BY <1>5 DEF UserEdits
  <2>2. SpecOK(pool.gen)
    BY <1>5 DEF UserEdits, PInv, StoredOK, Exists
  <2>3. g \in 1 .. Len(Specs)
    BY <2>1, <2>2, PoolAssumption DEF Generations, SpecOK
  <2>4. SpecOK(g)
    BY <2>1, <2>2, <2>3 DEF SpecOK, ValidatePoolSpecUpdate
  <2>5. pool' \in Pools /\ pool'.gen = g
    BY <1>1, <2>1 DEF Pools
  <2> QED BY <1>5, <2>4, <2>5, PoolChange DEF UserEdits
<1>6. CASE UserDeletesPool
  <2>1. SpecOK(pool.gen)
    BY <1>6 DEF UserDeletesPool, PInv, StoredOK, Exists
  <2>2. /\ Terminating(pool) \in Pools 
        /\ Terminating(pool).gen = pool.gen
    BY <1>1 DEF Terminating, Pools, Metas
  <2>3. pool' \in Pools /\ (Exists(pool') => pool'.gen = pool.gen)
    BY <1>6, <2>2, ZeroTypes DEF UserDeletesPool
  <2> QED BY <1>6, <2>1, <2>3, PoolChange DEF UserDeletesPool
<1>7. CASE Resync
  BY <1>7, QuietStep DEF Resync, PInv
<1>8. ASSUME NEW r \in Replicas, AnotherAdopts(r) PROVE PInv'
  <2> DEFINE o == [claim[r] EXCEPT !.controller = Another]
  <2>1. claim' = [claim EXCEPT ![r] = o]
    BY <1>8 DEF AnotherAdopts
  <2>2. o \in Claims /\ o.controller # Us
    BY <1>1, PoolAssumption DEF Claims
  <2> QED BY <1>1, <1>8, <2>1, <2>2, ClaimChange 
          DEF AnotherAdopts, history
<1> QED BY <1>2, <1>3, <1>4, <1>5, <1>6, <1>7, <1>8 DEF Environment

LEMMA PInvStep == PInv /\ [Next]_vars => PInv'
<1> SUFFICES ASSUME PInv, [Next]_vars PROVE PInv' OBVIOUS
<1>1. CASE UNCHANGED vars
  <2>1. RecOK(rec') /\ queued' \in BOOLEAN
    BY <1>1 DEF PInv, TypeOK, vars
  <2> QED BY <1>1, <2>1, QuietStep DEF vars
<1>2. CASE Step
  BY <1>2, LoadStep, FinalizeStep, UnfinalizeStep, SaveClaimStep, 
     CreateJobStep, DropJobStep, DropClaimStep, RefusedStep, 
     WriteStatusStep DEF Step
<1>3. CASE Fail
  BY <1>3, RefusedStep, StatusFailsStep DEF Fail
<1>4. CASE Informers \/ Crash
  BY <1>4, InformersStep
<1>5. CASE Environment \/ \E r \in Replicas : Platform(r)
  BY <1>5, EnvironmentStep, PlatformStep
<1> QED BY <1>1, <1>2, <1>3, <1>4, <1>5 DEF Next

THEOREM PoolInductive == Spec => []PInv
BY InitPInv, PInvStep, PTL DEF Spec

(* Type correctness for every value of the constants: what is stored,      *)
(* cached or loaded is always an API object, and a call for a replica is   *)
(* made for one (pool_state.go, pool_replica.go).                          *)
THEOREM PoolTypeCorrect == Spec => []TypeOK
<1>1. PInv => TypeOK
  BY DEF PInv
<1> QED BY <1>1, PoolInductive, PTL

(* A pool that reports Settled had exactly the replicas its generation     *)
(* requests, whatever number that is and however the rest of the reconcile *)
(* fared (pool_state.go:281-303).                                          *)
THEOREM SettledIsAsRequested == Spec => []SettledAsRequested
<1>1. PInv => SettledAsRequested
  BY DEF PInv
<1> QED BY <1>1, PoolInductive, PTL

(* Every claim of a pool stays in reach of the pool's selector: the        *)
(* selector never changes, templates match it, and merging labels that     *)
(* match with labels that match gives labels that match                    *)
(* (validation.go:38, 85, pool_replica.go:94).                             *)
THEOREM OwnClaimsAreFound == Spec => []OwnClaimsMatch
<1>1. PInv => OwnClaimsMatch
  BY DEF PInv, StoredOK, SpecOK, OwnClaimsMatch
<1> QED BY <1>1, PoolInductive, PTL

(* Every init job that exists runs what the webhook admitted: what the     *)
(* template sets it keeps, and no limit is missing or above the maximum    *)
(* (validation.go:46-71, pool_replica.go:204-214).                         *)
THEOREM JobsRunAsAdmitted == Spec => []JobsAsAdmitted
<1>1. ASSUME NEW j \in MountJobs, ValidateMountJob(j)
      PROVE  /\ \A f \in DOMAIN j : j[f] # Unset => ConfiguredJob(j)[f] = j[f]
             /\ ValidateMountJob(ConfiguredJob(j))
             /\ ConfiguredJob(j).activeDeadlineSeconds # Unset
  <2> DEFINE o == ConfiguredJob(j)
  <2>1. Unset \notin Nat
    BY PoolSpecAssumption
  <2>2. /\ j.activeDeadlineSeconds # Unset => 
             j.activeDeadlineSeconds \in Nat /\ j.activeDeadlineSeconds <= 300
        /\ j.backoffLimit # Unset => 
             j.backoffLimit \in Nat /\ j.backoffLimit <= 10
        /\ j.restartPolicy \in {Unset, "Never"}
    BY <1>1 DEF ValidateMountJob, MountJobs, MountJobMaxBackoffLimit,
       MountJobMaxActiveDeadlineSeconds
  <2>3. DOMAIN j = {"restartPolicy", "activeDeadlineSeconds", "backoffLimit",
                    "namesVolume", "hangs"}
    BY DEF MountJobs
  <2>4. /\ o.restartPolicy = "Never"
        /\ o.activeDeadlineSeconds = IF j.activeDeadlineSeconds = Unset
                                     THEN 300 ELSE j.activeDeadlineSeconds
        /\ o.backoffLimit = j.backoffLimit
        /\ o.namesVolume = j.namesVolume /\ o.hangs = j.hangs
    BY <2>2 DEF ConfiguredJob, MountJobs, MountJobMaxBackoffLimit,
       MountJobMaxActiveDeadlineSeconds
  <2> HIDE DEF o
  <2>5. \A f \in DOMAIN j : j[f] # Unset => o[f] = j[f]
    BY <2>2, <2>3, <2>4
  <2>6. ValidateMountJob(o) /\ o.activeDeadlineSeconds # Unset
    BY <2>1, <2>2, <2>4 DEF ValidateMountJob, MountJobMaxBackoffLimit,
       MountJobMaxActiveDeadlineSeconds
  <2> QED BY <2>5, <2>6 DEF o
<1>2. ValidateMountJob(DefaultPoolReplicaInitJob)
  BY PoolSpecAssumption 
     DEF ValidateMountJob, DefaultPoolReplicaInitJob, MountJobMaxBackoffLimit
<1>3. ASSUME NEW g \in 1 .. Len(Specs), SpecOK(g)
      PROVE  ValidateMountJob(InitJob(Specs[g]))
  BY <1>2, <1>3 DEF SpecOK, ValidatePoolSpec, InitJob
<1>4. PInv => JobsAsAdmitted
  BY <1>1, <1>3, SpecTypes DEF PInv, StoredOK, JobsAsAdmitted, JobSpec
<1> QED BY <1>4, PoolInductive, PTL
=============================================================================
