---------------------------- MODULE PoolRefinement ----------------------------
(***************************************************************************)
(* The pool controller implements ReplicaLife, for every number of         *)
(* replicas and every delay of its caches: whatever it does to a replica   *)
(* is one step forward in its life, or its end.                            *)
(***************************************************************************)
EXTENDS ReplicaProofs

Lives == [r \in Replicas |-> Life(r)]

-----------------------------------------------------------------------------
(* What the refinement needs beyond the inductive invariant: a job runs    *)
(* only on a claim of the pool, and only a bound claim was initialized.    *)

LifeOK(r) ==
  /\ Exists(job[r]) /\ Exists(claim[r]) => Ours(r)
  /\ r \in initialized => Ours(r) /\ claim[r].phase \in {"Bound", "Lost"}

LInv == 
  /\ \A r \in Replicas : LifeOK(r)
  /\ rec.at = "createJob" /\ Exists(claim[rec.r]) => Ours(rec.r)

Advances == LInv' /\ [Promise!Next]_Lives

-----------------------------------------------------------------------------
(* Steps of a life *)

LEMMA LifeStays ==
  ASSUME NEW s \in Replicas, 
         claim'[s].controller = claim[s].controller,
         claim'[s].stage = claim[s].stage,
         volume'[s] = "taken" <=> volume[s] = "taken",
         s \in initialized <=> s \in initialized'
  PROVE  Life(s)' = Life(s)
BY DEF Life, Ours

(* One replica is further in its life, or at its end. *)
LEMMA OneMoves ==
  ASSUME NEW r \in Replicas, 
         \A s \in Replicas : s # r => Life(s)' = Life(s),
         \/ Life(r)' = Life(r)
         \/ <<Life(r), Life(r)'>> \in 
              {<<"none", "new">>, <<"new", "ready">>, 
               <<"ready", "offered">>, <<"offered", "taken">>}
         \/ Life(r) # "none" /\ Life(r)' = "none"
  PROVE  [Promise!Next]_Lives
<1> DEFINE a == Life(r)
           b == Life(r)'
<1>1. Lives' = [Lives EXCEPT ![r] = b] /\ Lives[r] = a
  BY DEF Lives
<1>2. CASE b = a
  BY <1>1, <1>2 DEF Lives
<1>3. CASE <<a, b>> \in {<<"none", "new">>, <<"new", "ready">>, 
                         <<"ready", "offered">>, <<"offered", "taken">>}
  <2>1. Promise!Moves(r, a, b)
    BY <1>1 DEF Promise!Moves, Lives
  <2>2. \/ a = "none" /\ b = "new" 
        \/ a = "new" /\ b = "ready"
        \/ a = "ready" /\ b = "offered" 
        \/ a = "offered" /\ b = "taken"
    BY <1>3
  <2> HIDE DEF a, b
  <2>3. \/ Promise!Add(r) \/ Promise!Initialize(r) 
        \/ Promise!Offer(r) \/ Promise!Take(r)
    BY <2>1, <2>2 
       DEF Promise!Add, Promise!Initialize, Promise!Offer, Promise!Take
  <2> QED BY <2>3 DEF Promise!Next
<1>4. CASE a # "none" /\ b = "none"
  <2>1. Promise!Remove(r)
    BY <1>1, <1>4 DEF Promise!Remove, Lives
  <2> QED BY <2>1 DEF Promise!Next
<1> QED BY <1>2, <1>3, <1>4

(* A step that offers, takes, initializes, adds and removes nothing. *)
LEMMA Neutral ==
  ASSUME LInv, initialized' = initialized,
         \A s \in Replicas :
           /\ claim'[s].controller = claim[s].controller
           /\ claim'[s].stage = claim[s].stage
           /\ claim[s].phase \in {"Bound", "Lost"} =>
                claim'[s].phase \in {"Bound", "Lost"}
           /\ Exists(claim'[s]) => Exists(claim[s])
           /\ Exists(job'[s]) => Exists(job[s]),
         \A s \in Replicas : volume'[s] = "taken" <=> volume[s] = "taken",
         rec'.at = "createJob" => 
           rec.at = "createJob" /\ rec'.r = rec.r /\ rec.r \in Replicas
  PROVE  Advances
<1>1. \A s \in Replicas : Life(s)' = Life(s)
  BY LifeStays
<1>2. LInv'
  BY DEF LInv, LifeOK, Ours
<1> QED BY <1>1, <1>2 DEF Advances, Lives

-----------------------------------------------------------------------------
(* The steps that matter to a life *)

(* A claim is written as available only when it is initialized, and once   *)
(* it is offered it is not configured again.                               *)
LEMMA SaveClaimAdvances ==
  ASSUME NoneNamesVolume, PInv, RInv, LInv, SaveClaim
  PROVE  Advances
<1> DEFINE w == Written(rec.r)
<1>1. PICK r \in Replicas : r = rec.r
  BY RecTypes DEF PInv, ReplicaCalls, SaveClaim
<1>2. /\ AtCall(rec) /\ InLoop(rec) /\ rec.at = "saveClaim"
      /\ rec.loop \in {"initializing", "available", "scaleUp"}
  BY RecTypes DEF PInv, ReplicaCalls, AtCall, SaveClaim
<1>3. /\ w \in Claims /\ Exists(w) /\ w.stage = Marked(rec, r) 
      /\ w.controller = Us
      /\ Exists(rec.claim[r]) => w.phase = rec.claim[r].phase
  BY <1>1, <1>2, WrittenOK
<1>4. /\ claim[r] = rec.claim[r]
      /\ claim' = [claim EXCEPT ![r] = w]
      /\ UNCHANGED <<job, volume, initialized>>
  BY <1>1 DEF SaveClaim, history
<1> HIDE DEF w
<1>5. /\ claim'[r] = w
      /\ \A s \in Replicas : s # r => claim'[s] = claim[s]
  BY <1>4 DEF PInv, TypeOK
<1>6. /\ ReplicaOK(r) /\ LifeOK(r) /\ claim[r] \in Claims
      /\ \A s \in Replicas : LifeOK(s)
  BY DEF RInv, LInv, PInv, TypeOK
<1>7. ReplicaOK(r)'
  BY SaveClaimKeeps DEF Keeps, RInv
<1>8. r \in initialized => 
        Ours(r) /\ Exists(claim[r]) /\ w.phase \in {"Bound", "Lost"}
  <2>1. Ours(r) => Exists(claim[r])
    BY <1>6, PoolAssumption DEF ReplicaOK, NoClaim, Ours
  <2> QED BY <1>3, <1>4, <1>6, <2>1 DEF LifeOK
<1>9. LInv'
  <2>1. \A s \in Replicas : LifeOK(s)'
    BY <1>3, <1>4, <1>5, <1>6, <1>8 DEF LifeOK, Ours
  <2>2. rec'.at = "createJob" => rec'.r = r
    BY <1>1, SaveClaimStep DEF Saved, Kept
  <2> QED BY <1>3, <1>5, <2>1, <2>2 DEF LInv, Ours
<1>10. \A s \in Replicas : s # r => Life(s)' = Life(s)
  BY <1>4, <1>5, LifeStays
<1>11. w.stage = "Available" => r \in initialized
  BY <1>3, <1>4, <1>5, <1>7 DEF ReplicaOK, ReadyOK, Completed
<1>12. Ours(r) /\ claim[r].stage = "Available" => w.stage = "Available"
  <2> SUFFICES ASSUME Ours(r), claim[r].stage = "Available"
               PROVE  w.stage = "Available"
    OBVIOUS
  <2>1. Exists(claim[r]) /\ claim[r].phase \in {"Bound", "Lost"}
    BY <1>6 DEF ReplicaOK, ReadyOK, Completed, LifeOK, NoClaim
  <2>2. rec.loop = "available"
    BY <1>1, <1>2, <1>4, <2>1 DEF AtCall, Unoffered
  <2> QED BY <1>3, <1>4, <2>2 DEF Marked
<1>13. \/ Life(r)' = Life(r)
       \/ Life(r) = "none" /\ Life(r)' = "new"
       \/ Life(r) = "ready" /\ Life(r)' = "offered"
  <2>1. CASE volume[r] = "taken"
    BY <1>3, <1>4, <1>5, <1>6, <2>1 DEF ReplicaOK, TakenOK, Life, Ours
  <2>2. CASE volume[r] # "taken" /\ ~Ours(r)
    BY <1>3, <1>4, <1>5, <1>8, <1>11, <2>2 DEF Life, Ours
  <2>3. CASE volume[r] # "taken" /\ Ours(r)
    BY <1>3, <1>4, <1>5, <1>11, <1>12, <2>3 DEF Life, Ours
  <2> QED BY <2>1, <2>2, <2>3
<1>14. [Promise!Next]_Lives
  BY <1>10, <1>13, OneMoves
<1> QED BY <1>9, <1>14 DEF Advances

LEMMA CreateJobAdvances ==
  ASSUME PInv, RInv, LInv, CreateJob
  PROVE  Advances
<1>1. /\ job' = [job EXCEPT ![rec.r] = NewJob(rec.r)]
      /\ rec.at = "createJob" /\ rec'.at # "createJob"
      /\ UNCHANGED <<claim, volume, initialized>>
  BY CreateJobStep DEF CreateJob, history, Kept
<1>2. \A s \in Replicas : Exists(job'[s]) => Exists(job[s]) \/ s = rec.r
  BY <1>1 DEF PInv, TypeOK
<1>3. LInv'
  BY <1>1, <1>2 DEF LInv, LifeOK, Ours
<1>4. \A s \in Replicas : Life(s)' = Life(s)
  BY <1>1, LifeStays
<1> QED BY <1>3, <1>4 DEF Advances, Lives

LEMMA JobCompletesAdvances ==
  ASSUME NoneNamesVolume, PInv, RInv, LInv, NEW r \in Replicas, 
         JobCompletes(r)
  PROVE  Advances
<1>1. ReplicaOK(r) /\ LifeOK(r) /\ job[r] \in Jobs
  BY DEF RInv, LInv, PInv, TypeOK
<1>2. Exists(job[r]) /\ job[r].mounts = r
  BY <1>1 DEF JobCompletes, Running, Exists, ReplicaOK, ReadyOK
<1>3. /\ claim[r].phase = "Bound" /\ Running(job[r])
      /\ initialized' = initialized \cup {r}
      /\ UNCHANGED <<claim, volume, rec>>
  BY <1>2 DEF JobCompletes, Controller
<1>4. Exists(claim[r]) /\ Ours(r)
  BY <1>1, <1>2, <1>3 DEF ReplicaOK, LifeOK, NoClaim
<1>5. claim[r].stage # "Available" /\ volume[r] # "taken"
  BY <1>1, <1>3, <1>4 DEF ReplicaOK, QuietOK, Completed, TakenOK
<1>6. \A s \in Replicas : Exists(job'[s]) => Exists(job[s])
  BY <1>1, <1>2, CondTypes DEF JobCompletes, Exists, PInv, TypeOK
<1>7. LInv'
  BY <1>3, <1>4, <1>6 DEF LInv, LifeOK, Ours
<1>8. \A s \in Replicas : s # r => Life(s)' = Life(s)
  BY <1>3, LifeStays
<1>9. Life(r) \in {"new", "ready"} /\ Life(r)' = "ready"
  BY <1>3, <1>4, <1>5 DEF Life, Ours
<1>10. [Promise!Next]_Lives
  BY <1>8, <1>9, OneMoves
<1> QED BY <1>7, <1>10 DEF Advances

LEMMA RemoveClaimAdvances ==
  ASSUME PInv, RInv, LInv, NEW r \in Replicas, RemoveClaim(r)
  PROVE  Advances
<1>1. /\ initialized' = initialized \ {r} /\ UNCHANGED <<job, rec>>
      /\ claim'[r] = NoClaim
      /\ \A s \in Replicas : s # r => 
           claim'[s] = claim[s] /\ volume'[s] = volume[s]
  BY DEF RemoveClaim, Controller, PInv, TypeOK
<1>2. ~Exists(claim'[r]) /\ claim'[r].controller # Us
  BY <1>1, ZeroTypes, PoolAssumption DEF NoClaim
<1>3. LInv'
  <2>1. rec.at = "createJob" => rec.r \in Replicas
    BY DEF PInv, TypeOK
  <2> QED BY <1>1, <1>2, <2>1 DEF LInv, LifeOK, Ours
<1>4. \A s \in Replicas : s # r => Life(s)' = Life(s)
  BY <1>1, LifeStays
<1>5. Life(r)' = "none"
  BY <1>2 DEF Life, Ours
<1>6. [Promise!Next]_Lives
  BY <1>4, <1>5, OneMoves
<1> QED BY <1>3, <1>6 DEF Advances

LEMMA TakeVolumeAdvances ==
  ASSUME PInv, RInv, LInv, NEW r \in Replicas, TakeVolume(r)
  PROVE  Advances
<1>1. /\ UNCHANGED <<claim, job, initialized, rec>> /\ Ours(r)
      /\ claim[r].stage = "Available" /\ volume[r] = "own"
      /\ volume'[r] = "taken"
      /\ \A s \in Replicas : s # r => volume'[s] = volume[s]
  BY DEF TakeVolume, Controller, Ours, PInv, TypeOK
<1>2. LInv'
  BY <1>1 DEF LInv, LifeOK, Ours
<1>3. \A s \in Replicas : s # r => Life(s)' = Life(s)
  BY <1>1, LifeStays
<1>4. Life(r) = "offered" /\ Life(r)' = "taken"
  BY <1>1 DEF Life, Ours
<1>5. [Promise!Next]_Lives
  BY <1>3, <1>4, OneMoves
<1> QED BY <1>2, <1>5 DEF Advances

(* A claim that appears is of no concern until the pool makes it its own. *)
LEMMA ForeignClaimAdvances ==
  ASSUME PInv, RInv, LInv, NEW r \in Replicas, ForeignClaim(r)
  PROVE  Advances
<1>1. PICK c \in {Another, Nobody} : 
        claim' = [claim EXCEPT ![r] = 
          [NoClaim EXCEPT !.meta = "live", !.controller = c, 
                  !.phase = "Bound",
                  !.labels = Specs[pool.gen].template.labels]]
  BY DEF ForeignClaim
<1>2. /\ Unused(r) /\ UNCHANGED <<job, initialized, rec>>
      /\ volume' = [volume EXCEPT ![r] = "own"]
  BY DEF ForeignClaim, Controller, history
<1>3. /\ claim'[r].controller # Us
      /\ \A s \in Replicas : s # r => 
           claim'[s] = claim[s] /\ volume'[s] = volume[s]
  BY <1>1, <1>2, PoolAssumption DEF PInv, TypeOK, NoClaim
<1>4. ~Ours(r) /\ ~Exists(job[r]) /\ ~Exists(rec.claim[r])
  BY <1>2, PoolAssumption DEF RInv, ReplicaOK, Unused, Ours, NoClaim
<1>5. LInv'
  <2>1. rec.at = "createJob" => rec.r \in Replicas /\ rec.r # r
    BY <1>4, RecTypes DEF PInv, ReplicaCalls, AtCall
  <2> QED BY <1>2, <1>3, <1>4, <2>1 DEF LInv, LifeOK, Ours
<1>6. \A s \in Replicas : s # r => Life(s)' = Life(s)
  BY <1>2, <1>3, LifeStays
<1>7. Life(r)' = Life(r)
  BY <1>3, <1>4 DEF Life, Ours
<1>8. [Promise!Next]_Lives
  BY <1>6, <1>7, OneMoves
<1> QED BY <1>5, <1>8 DEF Advances

LEMMA AnotherAdoptsAdvances ==
  ASSUME PInv, RInv, LInv, NEW r \in Replicas, AnotherAdopts(r)
  PROVE  Advances
<1>1. /\ claim' = [claim EXCEPT ![r] = 
                     [claim[r] EXCEPT !.controller = Another]]
      /\ UNCHANGED <<job, volume, initialized, rec>>
      /\ claim[r] \in Claims /\ claim \in [Replicas -> Claims]
  BY DEF AnotherAdopts, Controller, history, PInv, TypeOK
<1>2. /\ Exists(claim[r]) /\ ~Ours(r) /\ claim'[r].controller # Us
      /\ \A s \in Replicas : s # r => claim'[s] = claim[s]
  BY <1>1, PoolAssumption DEF AnotherAdopts, Ours, Exists, Claims
<1>3. LInv'
  <2>1. rec.at = "createJob" => rec.r # r
    BY <1>2 DEF LInv
  <2>2. rec.at = "createJob" => rec.r \in Replicas
    BY DEF PInv, TypeOK
  <2>3. ~Exists(job[r]) /\ r \notin initialized
    BY <1>2 DEF LInv, LifeOK
  <2> QED BY <1>1, <1>2, <2>1, <2>2, <2>3 DEF LInv, LifeOK, Ours
<1>4. \A s \in Replicas : s # r => Life(s)' = Life(s)
  BY <1>1, <1>2, LifeStays
<1>5. Life(r)' = Life(r)
  BY <1>2 DEF Life, Ours
<1>6. [Promise!Next]_Lives
  BY <1>4, <1>5, OneMoves
<1> QED BY <1>3, <1>6 DEF Advances

-----------------------------------------------------------------------------
(* The steps that do not *)

(* A step of the controller that creates no job and leaves every claim     *)
(* what it was to checkouts, or a step of the rest that does.              *)
LEMMA JobsGo ==
  ASSUME PInv, LInv, UNCHANGED <<claim, volume, initialized>>,
         rec' = rec \/ rec'.at # "createJob",
         \A s \in Replicas : Exists(job'[s]) => Exists(job[s])
  PROVE  Advances
<1>1. rec'.at = "createJob" => 
        rec.at = "createJob" /\ rec'.r = rec.r /\ rec.r \in Replicas
  BY DEF PInv, TypeOK
<1> QED BY <1>1, Neutral

LEMMA ControllerAdvances ==
  ASSUME PInv, LInv,
         Load \/ Finalize \/ Unfinalize \/ Refused \/ CallFails
           \/ WriteStatus \/ StatusFails
  PROVE  Advances
<1>1. UNCHANGED <<claim, job, volume, initialized>>
  BY DEF Load, Finalize, Unfinalize, Refused, CallFails, WriteStatus, 
     StatusFails, stored, history
<1>2. rec' = rec \/ rec'.at # "createJob"
  <2>1. CASE Load
    BY <2>1 DEF Load, Loaded, Idle
  <2>2. CASE Finalize \/ Refused \/ CallFails
    BY <2>2, FinalizeStep, RefusedStep DEF Kept
  <2>3. CASE Unfinalize \/ WriteStatus \/ StatusFails
    BY <2>3 DEF Unfinalize, WriteStatus, StatusFails, Idle
  <2> QED BY <2>1, <2>2, <2>3
<1> QED BY <1>1, <1>2, JobsGo

LEMMA DropJobAdvances ==
  ASSUME PInv, LInv, DropJob
  PROVE  Advances
<1>1. rec'.at # "createJob"
  BY DropJobStep DEF Kept
<1>2. \A s \in Replicas : Exists(job'[s]) => Exists(job[s])
  BY DEF DropJob, PInv, TypeOK
<1>3. UNCHANGED <<claim, volume, initialized>>
  BY DEF DropJob, history
<1> QED BY <1>1, <1>2, <1>3, JobsGo

(* A claim that is deleted is still what it was until it is removed. *)
LEMMA ClaimGoes ==
  ASSUME PInv, LInv, NEW r \in Replicas, Exists(claim[r]),
         claim' = [claim EXCEPT ![r] = Terminating(claim[r])],
         UNCHANGED <<job, volume, initialized>>,
         rec' = rec \/ rec'.at # "createJob"
  PROVE  Advances
<1>1. claim \in [Replicas -> Claims] /\ claim[r] \in Claims
  BY DEF PInv, TypeOK
<1>2. /\ claim'[r] = Terminating(claim[r])
      /\ \A s \in Replicas : s # r => claim'[s] = claim[s]
  BY <1>1
<1>3. /\ claim'[r].controller = claim[r].controller
      /\ claim'[r].stage = claim[r].stage
      /\ claim'[r].phase = claim[r].phase
  BY <1>1, <1>2, TerminatingTypes
<1>4. rec'.at = "createJob" => 
        rec.at = "createJob" /\ rec'.r = rec.r /\ rec.r \in Replicas
  BY DEF PInv, TypeOK
<1> QED BY <1>2, <1>3, <1>4, Neutral

LEMMA DropClaimAdvances ==
  ASSUME PInv, LInv, DropClaim
  PROVE  Advances
<1>1. PICK r \in Replicas : r = rec.r
  BY RecTypes DEF PInv, ReplicaCalls, DropClaim
<1>2. rec'.at # "createJob"
  BY DropClaimStep DEF Kept
<1>3. UNCHANGED <<job, volume, initialized>>
  BY DEF DropClaim, history
<1>4. CASE claim' = claim
  BY <1>2, <1>3, <1>4, JobsGo
<1>5. CASE /\ Exists(claim[r])
           /\ claim' = [claim EXCEPT ![r] = Terminating(claim[r])]
  BY <1>2, <1>3, <1>5, ClaimGoes
<1> QED BY <1>1, <1>4, <1>5 DEF DropClaim

LEMMA PhaseAdvances ==
  ASSUME PInv, RInv, LInv, NEW r \in Replicas, Bind(r) \/ LoseClaim(r)
  PROVE  Advances
<1>1. PICK p \in {"Bound", "Lost"} : 
        claim' = [claim EXCEPT ![r] = [claim[r] EXCEPT !.phase = p]]
  BY DEF Bind, LoseClaim
<1>2. /\ claim'[r] = [claim[r] EXCEPT !.phase = p] /\ claim[r] \in Claims
      /\ \A s \in Replicas : s # r => claim'[s] = claim[s]
  BY <1>1 DEF PInv, TypeOK
<1>3. /\ claim'[r].meta = claim[r].meta /\ claim'[r].stage = claim[r].stage
      /\ claim'[r].controller = claim[r].controller
      /\ claim'[r].phase \in {"Bound", "Lost"}
  BY <1>2, PhaseTypes
<1>4. UNCHANGED <<job, initialized, rec>>
  BY DEF Bind, LoseClaim, history, Controller
<1>5. \A s \in Replicas : volume'[s] = "taken" <=> volume[s] = "taken"
  <2>1. CASE Bind(r)
    <3>1. volume[r] # "taken"
      BY <2>1 DEF Bind, RInv, ReplicaOK, TakenOK
    <3> QED BY <2>1, <3>1 DEF Bind, PInv, TypeOK
  <2>2. CASE LoseClaim(r)
    BY <2>2 DEF LoseClaim
  <2> QED BY <2>1, <2>2
<1>6. \A s \in Replicas : Exists(claim'[s]) => Exists(claim[s])
  BY <1>2, <1>3 DEF Exists
<1>7. rec'.at = "createJob" => 
        rec.at = "createJob" /\ rec'.r = rec.r /\ rec.r \in Replicas
  BY <1>4 DEF PInv, TypeOK
<1> QED BY <1>2, <1>3, <1>4, <1>5, <1>6, <1>7, Neutral

LEMMA JobEndsAdvances ==
  ASSUME PInv, LInv, NEW r \in Replicas, 
         JobFails(r) \/ JobExpires(r) \/ RemoveJob(r)
  PROVE  Advances
<1>1. UNCHANGED <<claim, volume, initialized, rec>>
  BY DEF JobFails, JobExpires, RemoveJob, history, Controller
<1>2. Exists(job[r])
  BY DEF JobFails, JobExpires, RemoveJob, Running, Exists
<1>3. \A s \in Replicas : s # r => job'[s] = job[s]
  BY DEF JobFails, JobExpires, RemoveJob, PInv, TypeOK
<1>4. \A s \in Replicas : Exists(job'[s]) => Exists(job[s])
  BY <1>2, <1>3
<1> QED BY <1>1, <1>4, JobsGo

LEMMA PlatformAdvances ==
  ASSUME NoneNamesVolume, PInv, RInv, LInv, NEW r \in Replicas, Platform(r)
  PROVE  Advances
<1>1. CASE Collect(r)
  <2>1. Exists(claim[r]) /\ UNCHANGED <<job, volume, initialized, rec>>
    BY <1>1 DEF Collect, history, Controller, Exists
  <2> QED BY <1>1, <2>1, ClaimGoes DEF Collect
<1> QED BY <1>1, PhaseAdvances, JobCompletesAdvances, JobEndsAdvances, 
        RemoveClaimAdvances DEF Platform

LEMMA EnvironmentAdvances ==
  ASSUME PInv, RInv, LInv, Environment
  PROVE  Advances
<1>1. CASE UserEdits \/ UserDeletesPool \/ Resync
  <2>1. UNCHANGED <<claim, job, volume, initialized, rec>>
    BY <1>1 DEF UserEdits, UserDeletesPool, Resync, Controller, stored, 
       history
  <2> QED BY <2>1, JobsGo
<1> QED BY <1>1, TakeVolumeAdvances, ForeignClaimAdvances, 
        AnotherAdoptsAdvances, JobEndsAdvances DEF Environment

-----------------------------------------------------------------------------
(* The theorem *)

LEMMA InitAdvances == Init => LInv /\ (Lives = [r \in Replicas |-> "none"])
<1> SUFFICES ASSUME Init PROVE LInv /\ (Lives = [r \in Replicas |-> "none"])
  OBVIOUS
<1>1. \A r \in Replicas : LifeOK(r) /\ Life(r) = "none"
  BY ZeroTypes, PoolAssumption DEF Init, LifeOK, Life, Ours, NoClaim
<1>2. rec.at = "idle"
  BY DEF Init, Idle
<1> QED BY <1>1, <1>2 DEF LInv, Lives

LEMMA StepAdvances == 
  NoneNamesVolume /\ PInv /\ RInv /\ LInv /\ [Next]_vars => Advances
<1> SUFFICES ASSUME NoneNamesVolume, PInv, RInv, LInv, [Next]_vars 
             PROVE  Advances 
  OBVIOUS
<1>1. CASE UNCHANGED vars \/ Informers
  <2>1. UNCHANGED <<claim, job, volume, initialized, rec>>
    BY <1>1 DEF vars, stored, history, Informers, SyncPool, SyncClaims, 
       SyncJobs, SyncVolumes
  <2> QED BY <2>1, JobsGo
<1>2. CASE Crash
  <2>1. /\ UNCHANGED <<claim, job, volume, initialized>> 
        /\ rec'.at # "createJob"
    BY <1>2 DEF Crash, stored, history, Idle
  <2> QED BY <2>1, JobsGo
<1>3. CASE Step \/ Fail
  BY <1>3, ControllerAdvances, SaveClaimAdvances, CreateJobAdvances, 
     DropJobAdvances, DropClaimAdvances DEF Step, Fail
<1>4. CASE Environment \/ \E r \in Replicas : Platform(r)
  BY <1>4, EnvironmentAdvances, PlatformAdvances
<1> QED BY <1>1, <1>2, <1>3, <1>4 DEF Next

(* The pool controller implements ReplicaLife: whatever it believes of a   *)
(* replica, a replica is offered once and never before it is ready, is     *)
(* taken only when offered and is never configured back into an earlier    *)
(* stage (pool_replica.go:166-231).                                        *)
THEOREM ImplementsReplicaLife == NoneNamesVolume /\ Spec => KeepsPromise
<1> SUFFICES ASSUME NoneNamesVolume PROVE Spec => KeepsPromise
  OBVIOUS
<1>1. Init => LInv /\ Promise!Init
  BY InitAdvances DEF Promise!Init, Lives
<1>2. PInv /\ RInv /\ LInv /\ [Next]_vars => LInv' /\ [Promise!Next]_Lives
  BY StepAdvances DEF Advances
<1> QED BY <1>1, <1>2, PoolInductive, ReplicasInductive, PTL 
        DEF Spec, KeepsPromise, Promise!Spec, Lives
=============================================================================
