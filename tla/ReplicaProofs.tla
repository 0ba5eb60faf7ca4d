----------------------------- MODULE ReplicaProofs -----------------------------
(***************************************************************************)
(* Theorems about the replicas of a pool and the jobs that initialize      *)
(* them.  A reconcile works with copies that may be old: what these        *)
(* theorems rest on is which old copies can exist next to which claims.    *)
(***************************************************************************)
EXTENDS PoolProofs

-----------------------------------------------------------------------------
(* The inductive invariant *)

(* A job completed on the replica, as far as anything says so that the     *)
(* controller goes by.                                                     *)
Completed(r) ==
  \/ claim[r].stage = "Available"
  \/ jobCache[r].cond = "Complete" \/ rec.job[r].cond = "Complete"

(* A claim that is not the pool's is bound for as long as it is there, and *)
(* has no job.  Nothing says that it ever was the pool's, or that it goes  *)
(* before it does.  What is known to be another pool's is not loaded.      *)
Foreign(r) == Exists(claim[r]) /\ ~Ours(r)
OtherOK(r) ==
  /\ rec.claim[r].controller # Another
  /\ Foreign(r) =>
       /\ claim[r].phase = "Bound" /\ volume[r] # "taken"
       /\ ~Exists(job[r]) /\ ~Exists(jobCache[r]) /\ ~Exists(rec.job[r])
       /\ \A c \in {claimCache[r], rec.claim[r]} : Exists(c) =>
            /\ c.controller # Us /\ c.phase = "Bound"
            /\ claim[r].meta = "live" => c.meta = "live"

(* Only a replica that was offered is taken, and it stays marked so.       *)
TakenOK(r) ==
  volume[r] = "taken" =>
    /\ Exists(claim[r]) /\ Ours(r)
    /\ claim[r].phase \in {"Bound", "Lost"} /\ claim[r].stage = "Available"

(* A job mounts the volume it is named after, and nothing says that it     *)
(* completed before it did.                                                *)
ReadyOK(r) ==
  NoneNamesVolume =>
    /\ Exists(job[r]) => job[r].mounts = r
    /\ Exists(claim[r]) /\ (Completed(r) \/ job[r].cond = "Complete") 
         => r \in initialized

(* Once a job completed no other runs while the claim is there.            *)
QuietOK(r) == Exists(claim[r]) /\ Completed(r) => ~Running(job[r])

(* Which copies of a job there may be while its claim is there.  A job the *)
(* cache has not seen yet was never deleted; one that was loaded and is no *)
(* longer seen is gone; and next to a claim that was loaded without its    *)
(* job there is no job that ended and went.                                *)
JobOK(r) ==
  Exists(claim[r]) =>
    /\ ~Exists(jobCache[r]) => job[r].meta # "terminating"
    /\ Exists(rec.job[r]) /\ ~Exists(jobCache[r]) => ~Exists(job[r])
    /\ Exists(rec.claim[r]) /\ ~Exists(rec.job[r]) =>
         /\ job[r].meta # "terminating"
         /\ ~Exists(job[r]) => jobCache[r].cond # "Complete"

ReplicaOK(r) ==
  /\ ~Exists(claim[r]) => claim[r] = NoClaim
  /\ OtherOK(r) /\ TakenOK(r) /\ ReadyOK(r) /\ QuietOK(r) /\ JobOK(r)

(* The name of a new replica is without a trace until its claim is         *)
(* written, or somebody else has taken it, and a job is created only for a *)
(* claim that is not available.                                            *)
CallOK ==
  /\ rec.at = "saveClaim" /\ ~Exists(rec.claim[rec.r]) =>
       \/ /\ ~Exists(claim[rec.r]) /\ ~Exists(claimCache[rec.r])
          /\ ~Exists(job[rec.r]) /\ ~Exists(jobCache[rec.r])
       \/ claim[rec.r].meta = "live" /\ claim[rec.r].controller # Us
  /\ rec.at = "createJob" => claim[rec.r].stage # "Available"

RInv == (\A r \in Replicas : ReplicaOK(r)) /\ CallOK

(* What OthersUntouched and TakenIsFinal say of one step, for the job that *)
(* is named after the claim.                                               *)
Untouched ==
  \A r \in Replicas : claim[r].controller = Another => 
    /\ \/ claim'[r] = claim[r] 
       \/ claim[r].meta = "terminating"
       \/ rec.at = "dropClaim" /\ rec.loop = "delete"
    /\ Exists(job'[r]) => Exists(job[r])
Final ==
  \A r \in Replicas : volume[r] = "taken" => 
    /\ volume'[r] \in {"taken", "none"}
    /\ Exists(job'[r]) => Exists(job[r])

Keeps == RInv' /\ Untouched /\ Final

-----------------------------------------------------------------------------
(* A step that leaves a replica alone, but for what the reconcile forgets. *)

RecSame(r) ==
  \/ rec'.claim[r] = rec.claim[r] /\ rec'.job[r] = rec.job[r]
  \/ rec'.claim[r] = NoClaim /\ rec'.job[r] = NoJob

LEMMA NoClaimNobodys == NoClaim.controller \notin {Us, Another}
BY PoolAssumption DEF NoClaim

LEMMA Elsewhere ==
  ASSUME PInv, RInv, NEW s \in Replicas, RecSame(s),
         claim'[s] = claim[s], job'[s] = job[s], volume'[s] = volume[s],
         claimCache'[s] = claimCache[s], jobCache'[s] = jobCache[s],
         s \in initialized => s \in initialized'
  PROVE  ReplicaOK(s)'
<1>1. ReplicaOK(s)
  BY DEF RInv
<1>2. Completed(s)' => Completed(s)
  BY ZeroTypes DEF Completed, RecSame, NoJob
<1>3. OtherOK(s)' 
  BY <1>1, ZeroTypes, NoClaimNobodys 
     DEF ReplicaOK, OtherOK, Foreign, Ours, RecSame
<1>4. TakenOK(s)'
  BY <1>1 DEF ReplicaOK, TakenOK, Ours
<1>5. ReadyOK(s)' /\ QuietOK(s)'
  BY <1>1, <1>2 DEF ReplicaOK, ReadyOK, QuietOK
<1>6. JobOK(s)'
  BY <1>1, ZeroTypes DEF ReplicaOK, JobOK, RecSame
<1> QED BY <1>1, <1>3, <1>4, <1>5, <1>6 DEF ReplicaOK

LEMMA IdleKept == Kept(rec, Idle)
BY DEF Kept, Idle

LEMMA KeptSame ==
  ASSUME Kept(rec, rec') \/ rec' = rec, NEW s \in Replicas
  PROVE  RecSame(s)
BY DEF Kept, RecSame

(* What a type-correct state says about the parts of a replica. *)
LEMMA Parts ==
  ASSUME PInv, NEW r \in Replicas
  PROVE  /\ claim[r] \in Claims /\ job[r] \in Jobs 
         /\ rec.claim[r] \in Claims /\ rec.job[r] \in Jobs
         /\ Exists(rec.job[r]) => Exists(rec.claim[r])
         /\ ~Exists(rec.job[r]) => rec.job[r].cond = "none"
         /\ ~Exists(jobCache[r]) => jobCache[r].cond = "none"
         /\ ~Exists(job[r]) => job[r].cond = "none"
<1>1. RecOK(rec) /\ rec \in Recs
  BY DEF PInv, TypeOK
<1> QED BY <1>1, RecTypes DEF PInv, TypeOK, Recs, StoredOK, SeenOK,
        AbsentIsZero

(* A step in which only the reconcile moves on. *)
LEMMA KeptStep ==
  ASSUME PInv, RInv, Kept(rec, rec') \/ rec' = rec,
         UNCHANGED <<claim, job, volume, claimCache, jobCache, initialized>>
  PROVE  Keeps
<1>1. \A s \in Replicas : RecSame(s)
  BY KeptSame
<1>2. \A s \in Replicas : ReplicaOK(s)'
  BY <1>1, Elsewhere
<1>3. CallOK'
  BY DEF RInv, CallOK, Kept, Unused
<1> QED BY <1>2, <1>3 DEF Keeps, RInv, Untouched, Final
-----------------------------------------------------------------------------
(* The steps of the controller that change what is stored *)

LEMMA LoadKeeps ==
  ASSUME PInv, RInv, Load
  PROVE  Keeps
<1>1. UNCHANGED <<claim, job, volume, claimCache, jobCache, initialized>>
  BY DEF Load, stored, caches, history
<1>2. CASE rec' = rec
  BY <1>1, <1>2, KeptStep
<1>3. CASE rec' = Loaded
  <2>1. /\ rec'.at = "finalize"
        /\ \A s \in Replicas : 
             \/ Seen(s) /\ rec'.claim[s] = claimCache[s] 
                        /\ rec'.job[s] = jobCache[s]
             \/ rec'.claim[s] = NoClaim /\ rec'.job[s] = NoJob
    BY <1>3 DEF Loaded, Idle
  <2>2. ASSUME NEW s \in Replicas PROVE ReplicaOK(s)'
    <3>1. ReplicaOK(s)
      BY DEF RInv
    <3>2. Completed(s)' => Completed(s)
      BY <1>1, <2>1, ZeroTypes DEF Completed, NoJob
    <3>3. OtherOK(s)'
      BY <1>1, <2>1, <3>1, ZeroTypes, NoClaimNobodys 
         DEF ReplicaOK, OtherOK, Foreign, Ours, Seen
    <3>4. JobOK(s)'
      <4>1. ~Exists(jobCache[s]) => jobCache[s].cond = "none"
        BY Parts
      <4> QED BY <1>1, <2>1, <3>1, <4>1, ZeroTypes DEF ReplicaOK, JobOK
    <3> QED BY <1>1, <3>1, <3>2, <3>3, <3>4 
            DEF ReplicaOK, TakenOK, Ours, ReadyOK, QuietOK
  <2>3. CallOK'
    BY <2>1 DEF CallOK
  <2> QED BY <1>1, <2>2, <2>3 DEF Keeps, RInv, Untouched, Final
<1> QED BY <1>2, <1>3 DEF Load

(* The claim that is written is the one that was loaded: a claim of        *)
(* another pool never was, a taken one is not in the initializing loop,    *)
(* and of a new one there is no trace.                                     *)
LEMMA SaveClaimKeeps ==
  ASSUME PInv, RInv, SaveClaim
  PROVE  Keeps
<1> DEFINE w == Written(rec.r)
           l == [rec EXCEPT !.claim[rec.r] = Written(rec.r)]
<1>0. PICK r \in Replicas : r = rec.r
  BY RecTypes DEF PInv, ReplicaCalls, SaveClaim
<1>1. /\ rec \in Recs /\ Base(rec) /\ AtCall(rec) /\ r = rec.r
      /\ rec.loop \in {"initializing", "available", "scaleUp"}
      /\ rec.at = "saveClaim" /\ InLoop(rec)
  BY <1>0, RecTypes DEF PInv, ReplicaCalls, AtCall, SaveClaim
<1>2. /\ w \in Claims /\ Exists(w) /\ w.stage = Marked(rec, r) 
      /\ w.controller = Us
      /\ Exists(rec.claim[r]) => w.phase = rec.claim[r].phase
  BY <1>1, WrittenOK
<1>3. /\ claim[r] = rec.claim[r]
      /\ claim' = [claim EXCEPT ![r] = w]
      /\ UNCHANGED <<job, volume, claimCache, jobCache, initialized>>
  BY <1>1 DEF SaveClaim, caches, history
<1>4. Saved(rec, rec') /\ PInv'
  BY SaveClaimStep
<1>5. /\ l.claim = [rec.claim EXCEPT ![r] = w] /\ l.job = rec.job 
      /\ l.r = r
  BY <1>1 DEF Recs
<1>6. \/ Kept(l, rec')
      \/ rec'.at = "createJob" /\ rec'.r = r /\ rec'.claim = l.claim 
           /\ rec'.job = rec.job
  BY <1>1, <1>4 DEF Saved
<1> HIDE DEF l, w
<1>7. /\ claim'[r] = w
      /\ \A s \in Replicas : s # r => claim'[s] = claim[s]
  BY <1>1, <1>3 DEF PInv, TypeOK
<1>8. /\ l.claim[r] = w
      /\ \A s \in Replicas : s # r => l.claim[s] = rec.claim[s]
  BY <1>1, <1>5 DEF Recs
<1>9. ASSUME NEW s \in Replicas, s # r PROVE ReplicaOK(s)'
  <2>1. RecSame(s)
    BY <1>5, <1>6, <1>8, <1>9 DEF Kept, RecSame
  <2> QED BY <1>3, <1>7, <1>9, <2>1, Elsewhere
<1>10. /\ rec'.job[r] = rec.job[r] \/ rec'.claim[r] = NoClaim
       /\ Exists(rec'.job[r]) => Exists(rec.job[r])
       /\ rec'.job[r].cond = "Complete" => rec.job[r].cond = "Complete"
  BY <1>1, <1>5, <1>6, ZeroTypes DEF Kept, NoJob
<1>11. ReplicaOK(r) /\ CallOK
  BY <1>1 DEF RInv
<1>12. /\ claim[r] \in Claims
       /\ ~Exists(rec.job[r]) => rec.job[r].cond = "none"
       /\ ~Exists(jobCache[r]) => jobCache[r].cond = "none"
       /\ ~Exists(job[r]) => job[r].cond = "none"
  BY <1>1, Parts
<1>13. claim[r].controller # Another
  BY <1>3, <1>11 DEF ReplicaOK, OtherOK
<1>14. Exists(claim'[r]) /\ OtherOK(r)'
  <2>1. rec'.claim[r] \in {w, NoClaim}
    BY <1>1, <1>6, <1>8 DEF Kept
  <2> QED BY <1>2, <1>7, <2>1, PoolAssumption, NoClaimNobodys 
          DEF OtherOK, Foreign, Ours
<1>15. ASSUME ~Exists(claim[r]) PROVE ReplicaOK(r)'
  <2>1. /\ ~Exists(job[r]) /\ ~Exists(jobCache[r])
        /\ ~Exists(rec.job[r])
    BY <1>1, <1>3, <1>11, <1>15, Parts DEF CallOK, Exists
  <2>2. ~Completed(r)'
    <3>1. rec.job[r].cond = "none" /\ w.stage # "Available"
      BY <1>1, <1>2, <1>3, <1>12, <1>15, <2>1 DEF Marked, InLoop, Listed
    <3> QED BY <1>3, <1>7, <1>10, <1>12, <2>1, <3>1 DEF Completed
  <2>3. volume[r] # "taken"
    BY <1>11, <1>15 DEF ReplicaOK, TakenOK
  <2>4. JobOK(r)'
    BY <1>3, <1>10, <1>12, <2>1 DEF JobOK, Exists
  <2>5. TakenOK(r)'
    BY <1>3, <2>3 DEF TakenOK
  <2>6. ReadyOK(r)' /\ QuietOK(r)'
    BY <1>3, <1>12, <2>1, <2>2 DEF ReadyOK, QuietOK
  <2> QED BY <1>14, <2>4, <2>5, <2>6 DEF ReplicaOK
<1>16. ASSUME Exists(claim[r]) PROVE ReplicaOK(r)'
  <2>1. Completed(r)' => Completed(r)
    <3>1. w.stage = "Available" => Completed(r)
      BY <1>1, <1>2, <1>3, <1>12 DEF Marked, Completed
    <3> QED BY <1>3, <1>7, <1>10, <3>1 DEF Completed
  <2>2. TakenOK(r)'
    <3> SUFFICES ASSUME volume[r] = "taken" 
                 PROVE  w.phase \in {"Bound", "Lost"} /\ w.stage = "Available"
      BY <1>2, <1>3, <1>7 DEF TakenOK, Ours
    <3>1. /\ claim[r].phase \in {"Bound", "Lost"} 
          /\ claim[r].stage = "Available"
      BY <1>11 DEF ReplicaOK, TakenOK
    <3>2. rec.loop = "available"
      BY <1>1, <1>3, <1>16, <3>1 DEF AtCall, Unoffered
    <3> QED BY <1>2, <1>3, <1>16, <3>1, <3>2 DEF Marked
  <2>3. JobOK(r)'
    BY <1>3, <1>10, <1>11, <1>16, ZeroTypes DEF ReplicaOK, JobOK
  <2>4. ReadyOK(r)' /\ QuietOK(r)'
    BY <1>3, <1>11, <1>16, <2>1 DEF ReplicaOK, ReadyOK, QuietOK
  <2> QED BY <1>14, <2>2, <2>3, <2>4 DEF ReplicaOK
<1>17. CallOK'
  <2>1. CASE Kept(l, rec')
    <3>1. ASSUME rec'.at = "saveClaim", ~Exists(rec'.claim[rec'.r])
          PROVE  Unused(rec'.r) /\ rec'.r # r
      BY <1>2, <1>8, <2>1, <3>1 DEF Kept
    <3>2. rec'.at = "saveClaim" => rec'.r \in Replicas
      BY <1>4 DEF PInv, TypeOK
    <3>3. rec'.at # "createJob"
      BY <2>1 DEF Kept
    <3> QED BY <1>3, <1>7, <3>1, <3>2, <3>3 DEF CallOK, Unused
  <2>2. CASE /\ rec'.at = "createJob" /\ rec'.r = r /\ rec'.claim = l.claim 
             /\ rec'.job = rec.job
    <3>1. AtCall(rec')
      BY <1>4, <2>2, RecTypes DEF PInv, ReplicaCalls
    <3> QED BY <1>7, <1>8, <2>2, <3>1 DEF CallOK, AtCall
  <2> QED BY <1>6, <2>1, <2>2
<1>18. Untouched /\ Final
  BY <1>3, <1>7, <1>13 DEF Untouched, Final
<1> QED BY <1>9, <1>15, <1>16, <1>17, <1>18 DEF Keeps, RInv

(* A job is created only where none ran before: had one, and were it gone, *)
(* the cache would have shown it when the claim was loaded, or the stage   *)
(* of the claim would tell.                                                *)
LEMMA CreateJobKeeps ==
  ASSUME PInv, RInv, CreateJob
  PROVE  Keeps
<1> DEFINE n == NewJob(rec.r)
<1>0. PICK r \in Replicas : r = rec.r
  BY RecTypes DEF PInv, ReplicaCalls, CreateJob
<1>1. /\ AtCall(rec) /\ r = rec.r /\ rec.at = "createJob"
  BY <1>0, RecTypes DEF PInv, ReplicaCalls, AtCall, CreateJob
<1>2. /\ n.meta = "live" /\ n.cond = "Running" 
      /\ NoneNamesVolume => n.mounts = r
  BY <1>1, NewJobOK
<1>3. /\ ~Exists(job[r]) /\ job' = [job EXCEPT ![r] = n]
      /\ UNCHANGED <<claim, volume, claimCache, jobCache, initialized>>
  BY <1>1 DEF CreateJob, caches, history
<1>4. Kept(rec, rec')
  BY CreateJobStep
<1> HIDE DEF n
<1>5. /\ job'[r] = n
      /\ \A s \in Replicas : s # r => job'[s] = job[s]
  BY <1>1, <1>3 DEF PInv, TypeOK
<1>6. Exists(rec.claim[r]) /\ ~Exists(rec.job[r])
  BY <1>1 DEF AtCall
<1>7. \A s \in Replicas : s # r => ReplicaOK(s)'
  BY <1>3, <1>4, <1>5, KeptSame, Elsewhere
<1>8. ReplicaOK(r) /\ CallOK /\ RecSame(r)
  BY <1>1, <1>4, KeptSame DEF RInv
<1>9. claim[r].stage # "Available"
  BY <1>1, <1>8 DEF CallOK
<1>10. claim[r].controller # Another /\ volume[r] # "taken" /\ ~Foreign(r)
  <2>1. rec.claim[r].controller = Us
    BY <1>1 DEF AtCall, Owned
  <2>2. ~Foreign(r)
    BY <1>6, <1>8, <2>1 DEF ReplicaOK, OtherOK
  <2>3. claim[r].controller # Another
    BY <1>8, <2>2, NoClaimNobodys, PoolAssumption 
       DEF ReplicaOK, Foreign, Ours
  <2> QED BY <1>8, <1>9, <2>2, <2>3 DEF ReplicaOK, TakenOK
<1>11. ~Exists(rec'.job[r])
  BY <1>6, <1>8, ZeroTypes DEF RecSame
<1>12. Exists(claim[r]) => ~Completed(r)'
  <2>1. rec.job[r].cond = "none"
    BY <1>1, <1>6, Parts
  <2>2. rec'.job[r].cond # "Complete"
    BY <1>8, <2>1 DEF RecSame, NoJob
  <2> QED BY <1>3, <1>6, <1>8, <1>9, <2>2 DEF ReplicaOK, JobOK, Completed
<1>13. JobOK(r)'
  BY <1>2, <1>3, <1>5, <1>11 DEF JobOK, Exists
<1>14. ReplicaOK(r)'
  <2>1. OtherOK(r)'
    BY <1>3, <1>8, <1>10, NoClaimNobodys 
       DEF ReplicaOK, OtherOK, Foreign, Ours, RecSame
  <2> QED BY <1>2, <1>3, <1>5, <1>8, <1>10, <1>12, <1>13, <2>1
          DEF ReplicaOK, TakenOK, ReadyOK, QuietOK
<1>15. CallOK'
  <2>1. ASSUME rec'.at = "saveClaim", ~Exists(rec'.claim[rec'.r])
        PROVE  Unused(rec'.r) /\ rec'.r # r /\ rec'.r \in Replicas
    <3>1. PInv'
      BY CreateJobStep
    <3>2. rec'.r \in Replicas
      BY <2>1, <3>1 DEF PInv, TypeOK
    <3> QED BY <1>4, <1>6, <2>1, <3>2 DEF Kept
  <2> QED BY <1>3, <1>4, <1>5, <2>1 DEF CallOK, Unused, Kept
<1>16. Untouched /\ Final
  BY <1>3, <1>5, <1>10 DEF Untouched, Final
<1> QED BY <1>7, <1>14, <1>15, <1>16 DEF Keeps, RInv
(* Only a replica that was loaded loses its job or its claim. *)
LEMMA DropJobKeeps ==
  ASSUME PInv, RInv, DropJob
  PROVE  Keeps
<1>1. Kept(rec, rec')
  BY DropJobStep
<1>2. UNCHANGED <<claim, volume, claimCache, jobCache, initialized>>
  BY DEF DropJob, caches, history
<1>3. PICK r \in Replicas : r = rec.r
  BY RecTypes DEF PInv, ReplicaCalls, DropJob
<1>4. CASE job' = job
  BY <1>1, <1>2, <1>4, KeptStep
<1>5. CASE /\ Exists(rec.job[r]) /\ Exists(job[r])
           /\ job' = [job EXCEPT ![r] = Terminating(@)]
  <2>1. /\ job'[r] = Terminating(job[r])
        /\ \A s \in Replicas : s # r => job'[s] = job[s]
    BY <1>5 DEF PInv, TypeOK
  <2>2. /\ Exists(job'[r]) /\ job'[r].cond = job[r].cond
        /\ job'[r].mounts = job[r].mounts /\ job'[r].meta = "terminating"
    BY <2>1, Parts, TerminatingTypes
  <2>3. \A s \in Replicas : s # r => ReplicaOK(s)'
    BY <1>1, <1>2, <2>1, KeptSame, Elsewhere
  <2>4. ReplicaOK(r) /\ RecSame(r)
    BY <1>1, KeptSame DEF RInv
  <2>5. OtherOK(r)'
    <3>1. ~Foreign(r)
      BY <1>5, <2>4 DEF ReplicaOK, OtherOK
    <3> QED BY <1>2, <2>4, <3>1, NoClaimNobodys
            DEF ReplicaOK, OtherOK, Foreign, Ours, RecSame
  <2>6. Completed(r)' => Completed(r)
    BY <1>2, <2>4, ZeroTypes DEF Completed, RecSame, NoJob
  <2>7. JobOK(r)'
    BY <1>2, <1>5, <2>2, <2>4, ZeroTypes DEF ReplicaOK, JobOK, RecSame
  <2>8. ReadyOK(r)' /\ QuietOK(r)'
    BY <1>2, <1>5, <2>2, <2>4, <2>6 
       DEF ReplicaOK, ReadyOK, QuietOK, Running
  <2>9. ReplicaOK(r)'
    BY <1>2, <2>4, <2>5, <2>7, <2>8 DEF ReplicaOK, TakenOK, Ours
  <2>10. CallOK'
    <3>1. rec'.at = "saveClaim" => Exists(rec'.claim[rec'.r])
      <4>1. /\ rec \in Recs /\ AtCall(rec)
        BY RecTypes DEF PInv, ReplicaCalls, DropJob
      <4>2. rec'.claim = rec.claim /\ rec'.r = rec.r
        BY <4>1 DEF DropJob, Recs
      <4> QED BY <4>1, <4>2 DEF AtCall, DropJob
    <3> QED BY <1>1, <3>1 DEF CallOK, Kept
  <2>11. Untouched /\ Final
    BY <1>2, <1>5, <2>1 DEF Untouched, Final
  <2> QED BY <2>3, <2>9, <2>10, <2>11 DEF Keeps, RInv
<1> QED BY <1>3, <1>4, <1>5 DEF DropJob

LEMMA DropClaimKeeps ==
  ASSUME PInv, RInv, DropClaim
  PROVE  Keeps
<1>1. Kept(rec, rec')
  BY DropClaimStep
<1>2. UNCHANGED <<job, volume, claimCache, jobCache, initialized>>
  BY DEF DropClaim, caches, history
<1>3. PICK r \in Replicas : r = rec.r
  BY RecTypes DEF PInv, ReplicaCalls, DropClaim
<1>4. CASE claim' = claim
  BY <1>1, <1>2, <1>4, KeptStep
<1>5. CASE /\ Exists(claim[r])
           /\ claim' = [claim EXCEPT ![r] = Terminating(@)]
  <2>1. /\ claim'[r] = Terminating(claim[r])
        /\ \A s \in Replicas : s # r => claim'[s] = claim[s]
    BY <1>5 DEF PInv, TypeOK
  <2>2. /\ Exists(claim'[r]) /\ claim'[r].controller = claim[r].controller
        /\ claim'[r].phase = claim[r].phase /\ claim'[r].stage = claim[r].stage
    BY <2>1, Parts, TerminatingTypes
  <2>3. \A s \in Replicas : s # r => ReplicaOK(s)'
    BY <1>1, <1>2, <2>1, KeptSame, Elsewhere
  <2>4. ReplicaOK(r) /\ RecSame(r)
    BY <1>1, KeptSame DEF RInv
  <2>5. Exists(rec.claim[r])
    BY <1>3, RecTypes DEF PInv, ReplicaCalls, DropClaim, AtCall
  <2>6. ASSUME claim[r].controller = Another, claim[r].meta = "live"
        PROVE  rec.at = "dropClaim" /\ rec.loop = "delete"
    <3>1. /\ AtCall(rec) /\ rec.at = "dropClaim" /\ InLoop(rec)
          /\ rec.loop \in {"scaleDown", "stale", "delete"}
      BY <1>3, RecTypes DEF PInv, ReplicaCalls, DropClaim, AtCall
    <3>2. /\ rec.claim[r].controller # Us /\ rec.claim[r].phase = "Bound"
          /\ rec.claim[r].meta = "live" /\ rec.job[r].cond = "none"
      <4>1. Foreign(r)
        BY <1>5, <2>6, PoolAssumption DEF Foreign, Ours
      <4>2. ~Exists(rec.job[r]) => rec.job[r].cond = "none"
        BY Parts
      <4> QED BY <2>4, <2>5, <2>6, <4>1, <4>2 DEF ReplicaOK, OtherOK
    <3>3. rec.loop # "scaleDown"
      BY <1>3, <3>1, <3>2 DEF InLoop, Owned
    <3>4. rec.loop # "stale"
      BY <1>3, <3>1, <3>2 DEF InLoop, Ahead, OldOK, Stale
    <3> QED BY <3>1, <3>3, <3>4
  <2>7. Completed(r)' => Completed(r)
    BY <1>2, <2>2, <2>4, ZeroTypes DEF Completed, RecSame, NoJob
  <2>8. JobOK(r)'
    BY <1>2, <1>5, <2>4, ZeroTypes DEF ReplicaOK, JobOK, RecSame
  <2>9. ReadyOK(r)' /\ QuietOK(r)'
    BY <1>2, <1>5, <2>4, <2>7 DEF ReplicaOK, ReadyOK, QuietOK
  <2>10. TakenOK(r)'
    BY <1>2, <2>2, <2>4 DEF ReplicaOK, TakenOK, Ours
  <2>11. ReplicaOK(r)'
    <3>1. claim'[r].meta = "terminating"
      BY <2>1, Parts DEF Terminating, Claims
    <3>2. OtherOK(r)'
      BY <1>2, <1>5, <2>2, <2>4, <3>1, ZeroTypes, NoClaimNobodys
         DEF ReplicaOK, OtherOK, Foreign, Ours, RecSame
    <3> QED BY <2>2, <2>8, <2>9, <2>10, <3>2 DEF ReplicaOK
  <2>12. CallOK'
    <3>1. ASSUME rec'.at = "saveClaim", ~Exists(rec'.claim[rec'.r])
          PROVE  /\ ~Exists(claim'[rec'.r]) /\ ~Exists(claimCache'[rec'.r])
                 /\ ~Exists(job'[rec'.r]) /\ ~Exists(jobCache'[rec'.r])
      <4>1. PInv'
        BY DropClaimStep
      <4>2. rec'.r \in Replicas
        BY <3>1, <4>1 DEF PInv, TypeOK
      <4>3. Unused(rec'.r)
        BY <1>1, <3>1 DEF Kept
      <4> QED BY <1>2, <1>5, <2>1, <4>2, <4>3 DEF Unused
    <3> QED BY <1>1, <3>1 DEF CallOK, Kept
  <2>13. Untouched /\ Final
    <3>1. claim[r].meta \in {"live", "terminating"}
      BY <1>5, Parts DEF Claims, Metas, Exists
    <3> QED BY <1>2, <2>1, <2>6, <3>1 DEF Untouched, Final
  <2> QED BY <2>3, <2>11, <2>12, <2>13 DEF Keeps, RInv
<1> QED BY <1>3, <1>4, <1>5 DEF DropClaim

-----------------------------------------------------------------------------
(* The caches catch up *)

LEMMA CachesKeep ==
  ASSUME PInv, RInv, Informers \/ Crash
  PROVE  Keeps
<1>1. /\ UNCHANGED <<claim, job, volume, initialized>>
      /\ claimCache' \in {claim, claimCache}
      /\ jobCache' \in {job, jobCache} 
      /\ rec' \in {rec, Idle}
  BY DEF Informers, SyncPool, SyncClaims, SyncJobs, SyncVolumes, Crash,
     stored, history
<1>2. Kept(rec, rec') \/ rec' = rec
  BY <1>1, IdleKept
<1>3. ASSUME NEW s \in Replicas PROVE ReplicaOK(s)'
  <2>1. ReplicaOK(s) /\ RecSame(s)
    BY <1>2, KeptSame DEF RInv
  <2>2. OtherOK(s)' /\ TakenOK(s)'
    BY <1>1, <2>1, ZeroTypes, NoClaimNobodys 
       DEF ReplicaOK, OtherOK, Foreign, TakenOK, Ours, RecSame
  <2>3. Completed(s)' => Completed(s) \/ job[s].cond = "Complete"
    BY <1>1, <2>1, ZeroTypes DEF Completed, RecSame, NoJob
  <2>4. ReadyOK(s)' /\ QuietOK(s)'
    BY <1>1, <2>1, <2>3 DEF ReplicaOK, ReadyOK, QuietOK, Running
  <2>5. JobOK(s)'
    <3>1. ~Exists(job[s]) => job[s].cond = "none"
      BY Parts
    <3>2. ~Exists(job[s]) => job[s].meta # "terminating"
      BY DEF Exists
    <3> QED BY <1>1, <2>1, <3>1, <3>2, ZeroTypes 
            DEF ReplicaOK, JobOK, RecSame
  <2> QED BY <1>1, <2>1, <2>2, <2>4, <2>5 DEF ReplicaOK
<1>4. CallOK'
  BY <1>1 DEF RInv, CallOK, Idle
<1> QED BY <1>1, <1>3, <1>4 DEF Keeps, RInv, Untouched, Final

-----------------------------------------------------------------------------
(* Kubernetes, the checkouts and another pool *)

(* A step of others on the claim of one replica, or on its job. *)
LEMMA ClaimKeeps ==
  ASSUME PInv, RInv, NEW r \in Replicas, Controller, UNCHANGED job,
         \A s \in Replicas : s # r => 
           /\ claim'[s] = claim[s] /\ volume'[s] = volume[s]
           /\ s \in initialized => s \in initialized',
         ReplicaOK(r)', 
         \/ claim'[r] = claim[r] 
         \/ claim[r].controller # Another \/ claim[r].meta = "terminating",
         volume[r] = "taken" => volume'[r] \in {"taken", "none"},
         rec.at = "saveClaim" /\ rec.r = r /\ ~Exists(rec.claim[r]) =>
           \/ /\ ~Exists(claim'[r]) 
              /\ Exists(claim[r]) => claim[r].meta # "live"
           \/ claim'[r] = claim[r]
           \/ claim'[r].meta = "live" /\ claim'[r].controller # Us,
         rec.at = "createJob" /\ rec.r = r => 
           claim'[r].stage \in {claim[r].stage, "none"}
  PROVE  Keeps
<1>1. /\ UNCHANGED <<claimCache, jobCache, rec>>
  BY DEF Controller, caches
<1>2. \A s \in Replicas : s # r => ReplicaOK(s)'
  BY <1>1, Elsewhere DEF RecSame
<1>3. CallOK'
  <2>1. rec.at \in {"saveClaim", "createJob"} => rec.r \in Replicas
    BY DEF PInv, TypeOK
  <2> QED BY <1>1, <2>1 DEF RInv, CallOK, Exists
<1> QED BY <1>2, <1>3 DEF Keeps, RInv, Untouched, Final

LEMMA JobKeeps ==
  ASSUME PInv, RInv, NEW r \in Replicas, Controller, Exists(job[r]),
         UNCHANGED <<claim, volume>>, NEW o, job' = [job EXCEPT ![r] = o],
         \A s \in Replicas : s \in initialized => s \in initialized',
         ReadyOK(r)', QuietOK(r)', JobOK(r)'
  PROVE  Keeps
<1>1. /\ UNCHANGED <<claimCache, jobCache, rec>>
  BY DEF Controller, caches
<1>2. \A s \in Replicas : s # r => job'[s] = job[s]
  BY DEF PInv, TypeOK
<1>3. \A s \in Replicas : s # r => ReplicaOK(s)'
  BY <1>1, <1>2, Elsewhere DEF RecSame
<1>4. ReplicaOK(r)
  BY DEF RInv
<1>5. ~Foreign(r)
  BY <1>4 DEF ReplicaOK, OtherOK
<1>6. ReplicaOK(r)'
  BY <1>1, <1>4, <1>5 DEF ReplicaOK, OtherOK, Foreign, TakenOK, Ours
<1>7. CallOK'
  <2>1. rec.at \in {"saveClaim", "createJob"} => rec.r \in Replicas
    BY DEF PInv, TypeOK
  <2> QED BY <1>1, <1>2, <2>1 DEF RInv, CallOK
<1> QED BY <1>2, <1>3, <1>6, <1>7 DEF Keeps, RInv, Untouched, Final

LEMMA PhaseKeeps ==
  ASSUME PInv, RInv, NEW r \in Replicas, Bind(r) \/ LoseClaim(r)
  PROVE  Keeps
<1> DEFINE p == claim'[r].phase
<1>1. ReplicaOK(r)
  BY DEF RInv
<1>2. /\ UNCHANGED <<job, initialized>> /\ Controller
      /\ UNCHANGED <<claimCache, jobCache, rec>>
  BY DEF Bind, LoseClaim, Controller, caches, history
<1>3. /\ \A s \in Replicas : s # r => 
           claim'[s] = claim[s] /\ volume'[s] = volume[s]
      /\ claim'[r].meta = claim[r].meta /\ claim'[r].stage = claim[r].stage
      /\ claim'[r].controller = claim[r].controller
      /\ \/ claim[r].phase = "Pending" /\ claim[r].meta = "live" 
              /\ p = "Bound" /\ volume'[r] = "own"
         \/ claim[r].phase = "Bound" /\ volume[r] = "taken" 
              /\ p = "Lost" /\ volume'[r] = "taken"
  <2>1. /\ claim \in [Replicas -> Claims] /\ claim[r] \in Claims
        /\ volume \in [Replicas -> Volumes]
    BY DEF PInv, TypeOK
  <2>2. CASE Bind(r)
    <3>1. claim' = [claim EXCEPT ![r] = [claim[r] EXCEPT !.phase = "Bound"]]
      BY <2>2 DEF Bind
    <3> QED BY <2>1, <2>2, <3>1, PhaseTypes DEF Bind
  <2>3. CASE LoseClaim(r)
    <3>1. claim' = [claim EXCEPT ![r] = [claim[r] EXCEPT !.phase = "Lost"]]
      BY <2>3 DEF LoseClaim
    <3> QED BY <2>1, <2>3, <3>1, PhaseTypes DEF LoseClaim
  <2> QED BY <2>2, <2>3
<1>4. claim[r].controller # Another /\ ~Foreign(r) /\ Exists(claim[r])
  BY <1>1, <1>3, PoolAssumption 
     DEF ReplicaOK, OtherOK, Foreign, Ours, TakenOK, Exists
<1>5. /\ Completed(r)' => Completed(r)
      /\ Exists(claim'[r]) 
  BY <1>2, <1>3, <1>4 DEF Completed, Exists
<1>6. volume[r] = "taken" => volume'[r] = "taken"
  BY <1>1, <1>3 DEF ReplicaOK, TakenOK
<1>7. TakenOK(r)'
  BY <1>1, <1>2, <1>3, <1>5 DEF ReplicaOK, TakenOK, Ours
<1>8. ReplicaOK(r)'
  BY <1>1, <1>2, <1>3, <1>4, <1>5, <1>7
     DEF ReplicaOK, OtherOK, Foreign, Ours, ReadyOK, QuietOK, JobOK
<1>9. rec.at = "saveClaim" /\ rec.r = r /\ ~Exists(rec.claim[r]) =>
        claim'[r].meta = "live" /\ claim'[r].controller # Us
  BY <1>3, <1>4 DEF RInv, CallOK
<1> QED BY <1>2, <1>3, <1>4, <1>6, <1>8, <1>9, ClaimKeeps

(* A job that completes did so on the volume it is named after. *)
LEMMA JobEndsKeeps ==
  ASSUME PInv, RInv, NEW r \in Replicas, 
         JobCompletes(r) \/ JobFails(r) \/ JobExpires(r)
  PROVE  Keeps
<1>1. ReplicaOK(r) /\ job[r] \in Jobs /\ job \in [Replicas -> Jobs]
  BY DEF RInv, PInv, TypeOK
<1>2. PICK c \in {"Complete", "Failed"} : 
        /\ job' = [job EXCEPT ![r] = [job[r] EXCEPT !.cond = c]]
        /\ c = "Complete" => initialized' = initialized \cup {job[r].mounts}
        /\ c = "Failed" => initialized' = initialized
  BY DEF JobCompletes, JobFails, JobExpires, history
<1>3. /\ UNCHANGED <<claim, volume>> /\ Controller /\ Running(job[r])
      /\ UNCHANGED <<claimCache, jobCache, rec>>
  BY DEF JobCompletes, JobFails, JobExpires, Controller, caches
<1>4. /\ job'[r].meta = job[r].meta /\ job'[r].mounts = job[r].mounts
      /\ job'[r].cond = c
  BY <1>1, <1>2, CondTypes
<1>5. Exists(job[r]) /\ Exists(job'[r]) /\ job'[r].meta = "live"
  BY <1>3, <1>4 DEF Running, Exists
<1>6. Completed(r)' = Completed(r)
  BY <1>3 DEF Completed
<1>7. ReadyOK(r)'
  BY <1>1, <1>2, <1>3, <1>4, <1>5, <1>6 DEF ReplicaOK, ReadyOK
<1>8. QuietOK(r)'
  BY <1>4 DEF QuietOK, Running
<1>9. JobOK(r)'
  BY <1>1, <1>3, <1>5 DEF ReplicaOK, JobOK
<1> QED BY <1>2, <1>3, <1>5, <1>7, <1>8, <1>9, JobKeeps

LEMMA RemoveJobKeeps ==
  ASSUME PInv, RInv, NEW r \in Replicas, RemoveJob(r)
  PROVE  Keeps
<1>1. ReplicaOK(r) 
  BY DEF RInv
<1>2. /\ job' = [job EXCEPT ![r] = NoJob] /\ Exists(job[r])
      /\ job[r].meta = "terminating" \/ ~Exists(claim[r])
      /\ UNCHANGED <<claim, volume, initialized>> /\ Controller
      /\ UNCHANGED <<claimCache, jobCache, rec>>
  BY DEF RemoveJob, Controller, caches, history
<1>3. job'[r] = NoJob
  BY <1>2 DEF PInv, TypeOK
<1>4. Completed(r)' = Completed(r)
  BY <1>2 DEF Completed
<1>5. ReadyOK(r)' /\ QuietOK(r)'
  BY <1>1, <1>2, <1>3, <1>4, ZeroTypes 
     DEF ReplicaOK, ReadyOK, QuietOK, Running, NoJob
<1>6. JobOK(r)'
  BY <1>1, <1>2, <1>3, ZeroTypes DEF ReplicaOK, JobOK, NoJob
<1> QED BY <1>2, <1>5, <1>6, JobKeeps

LEMMA RemoveClaimKeeps ==
  ASSUME PInv, RInv, NEW r \in Replicas, RemoveClaim(r)
  PROVE  Keeps
<1>1. ReplicaOK(r) 
  BY DEF RInv
<1>2. /\ claim' = [claim EXCEPT ![r] = NoClaim] 
      /\ volume' = [volume EXCEPT ![r] = "none"]
      /\ initialized' = initialized \ {r}
      /\ claim[r].meta = "terminating"
      /\ UNCHANGED job /\ Controller
  BY DEF RemoveClaim
<1>3. /\ claim'[r] = NoClaim /\ volume'[r] = "none"
      /\ \A s \in Replicas : s # r => 
           claim'[s] = claim[s] /\ volume'[s] = volume[s]
  BY <1>2 DEF PInv, TypeOK
<1>5. UNCHANGED <<claimCache, jobCache, rec>>
  BY <1>2 DEF Controller, caches
<1>6. /\ ~Exists(claim'[r]) /\ claim'[r].controller # Another
      /\ claim'[r].stage = "none"
  BY <1>3, ZeroTypes, PoolAssumption DEF NoClaim
<1>7. ReplicaOK(r)'
  <2>1. OtherOK(r)' /\ TakenOK(r)'
    BY <1>1, <1>3, <1>5, <1>6 DEF ReplicaOK, OtherOK, Foreign, TakenOK
  <2>2. QuietOK(r)' /\ JobOK(r)'
    BY <1>6 DEF QuietOK, JobOK
  <2>3. ReadyOK(r)'
    BY <1>1, <1>2, <1>6 DEF ReplicaOK, ReadyOK
  <2> QED BY <1>3, <2>1, <2>2, <2>3 DEF ReplicaOK
<1>8. Exists(claim[r]) => claim[r].meta # "live"
  BY <1>2
<1> QED BY <1>2, <1>3, <1>6, <1>7, <1>8, ClaimKeeps

LEMMA CollectKeeps ==
  ASSUME PInv, RInv, NEW r \in Replicas, Collect(r)
  PROVE  Keeps
<1>1. ReplicaOK(r) 
  BY DEF RInv
<1>2. /\ claim' = [claim EXCEPT ![r] = Terminating(claim[r])] 
      /\ claim[r].meta = "live" /\ claim[r].controller = Us
      /\ UNCHANGED <<job, volume, initialized>> /\ Controller
      /\ UNCHANGED <<claimCache, jobCache, rec>>
  BY DEF Collect, Controller, caches, history
<1>3. /\ claim'[r] = Terminating(claim[r])
      /\ \A s \in Replicas : s # r => claim'[s] = claim[s]
  BY <1>2 DEF PInv, TypeOK
<1>4. /\ Exists(claim'[r]) /\ claim'[r].controller = claim[r].controller
      /\ claim'[r].phase = claim[r].phase /\ claim'[r].stage = claim[r].stage
  BY <1>3, Parts, TerminatingTypes
<1>5. claim[r].controller # Another /\ Exists(claim[r])
  BY <1>2, PoolAssumption DEF Exists
<1>6. Completed(r)' = Completed(r)
  BY <1>2, <1>4 DEF Completed
<1>7. TakenOK(r)'
  BY <1>1, <1>2, <1>4 DEF ReplicaOK, TakenOK, Ours
<1>8. ReplicaOK(r)'
  BY <1>1, <1>2, <1>4, <1>5, <1>6, <1>7
     DEF ReplicaOK, OtherOK, Foreign, Ours, ReadyOK, QuietOK, JobOK
<1>9. ~(rec.at = "saveClaim" /\ rec.r = r /\ ~Exists(rec.claim[r]))
  BY <1>2, <1>5 DEF RInv, CallOK
<1> QED BY <1>2, <1>3, <1>4, <1>5, <1>8, <1>9, ClaimKeeps

LEMMA TakeVolumeKeeps ==
  ASSUME PInv, RInv, NEW r \in Replicas, TakeVolume(r)
  PROVE  Keeps
<1>1. ReplicaOK(r) 
  BY DEF RInv
<1>2. /\ volume' = [volume EXCEPT ![r] = "taken"] 
      /\ claim[r].controller = Us /\ claim[r].phase = "Bound"
      /\ claim[r].stage = "Available" /\ volume[r] = "own"
      /\ UNCHANGED <<claim, job, initialized>> /\ Controller
      /\ UNCHANGED <<claimCache, jobCache, rec>>
  BY DEF TakeVolume, Controller, caches
<1>3. Exists(claim[r])
  BY <1>1, <1>2 DEF ReplicaOK, NoClaim
<1>4. TakenOK(r)'
  BY <1>2, <1>3 DEF TakenOK, Ours
<1>5. Completed(r)' = Completed(r)
  BY <1>2 DEF Completed
<1>6. ReplicaOK(r)'
  BY <1>1, <1>2, <1>4, <1>5, PoolAssumption
     DEF ReplicaOK, OtherOK, Foreign, Ours, ReadyOK, QuietOK, JobOK
<1>7. \A s \in Replicas : s # r => volume'[s] = volume[s]
  BY <1>2 DEF PInv, TypeOK
<1> QED BY <1>2, <1>6, <1>7, ClaimKeeps

LEMMA ForeignClaimKeeps ==
  ASSUME PInv, RInv, NEW r \in Replicas, ForeignClaim(r)
  PROVE  Keeps
<1>1. ReplicaOK(r)
  BY DEF RInv
<1>2. PICK c \in {Another, Nobody} : 
        claim' = [claim EXCEPT ![r] = 
          [NoClaim EXCEPT !.meta = "live", !.controller = c, 
                  !.phase = "Bound",
                  !.labels = Specs[pool.gen].template.labels]]
  BY DEF ForeignClaim
<1>3. /\ volume' = [volume EXCEPT ![r] = "own"] /\ Unused(r)
      /\ UNCHANGED <<job, initialized>> /\ Controller
      /\ UNCHANGED <<claimCache, jobCache, rec>>
  BY DEF ForeignClaim, Controller, caches, history
<1>4. /\ claim'[r].meta = "live" /\ claim'[r].controller = c
      /\ claim'[r].phase = "Bound" /\ claim'[r].stage = "none"
      /\ volume'[r] = "own"
      /\ \A s \in Replicas : s # r => 
           claim'[s] = claim[s] /\ volume'[s] = volume[s]
  BY <1>2, <1>3 DEF PInv, TypeOK, NoClaim
<1>5. Exists(claim'[r]) /\ claim'[r].controller # Us
  BY <1>4, PoolAssumption DEF Exists
<1>6. claim[r].controller # Another
  BY <1>1, <1>3, NoClaimNobodys DEF ReplicaOK, Unused
<1>7. /\ ~Exists(job[r]) /\ ~Exists(jobCache[r]) /\ ~Exists(rec.job[r])
      /\ ~Exists(rec.claim[r]) /\ ~Exists(claimCache[r])
      /\ job[r].cond = "none" /\ jobCache[r].cond = "none" 
      /\ rec.job[r].cond = "none"
  BY <1>3, Parts DEF Unused
<1>8. ~Completed(r)'
  BY <1>3, <1>4, <1>7 DEF Completed
<1>9. OtherOK(r)' /\ TakenOK(r)'
  BY <1>1, <1>3, <1>4, <1>7 DEF ReplicaOK, OtherOK, TakenOK
<1>10. ReadyOK(r)' /\ QuietOK(r)'
  BY <1>3, <1>7, <1>8 DEF ReadyOK, QuietOK
<1>11. JobOK(r)'
  BY <1>3, <1>7 DEF JobOK, Exists
<1>12. ReplicaOK(r)'
  BY <1>5, <1>9, <1>10, <1>11 DEF ReplicaOK
<1>13. volume[r] # "taken"
  BY <1>3 DEF Unused
<1> QED BY <1>3, <1>4, <1>5, <1>6, <1>12, <1>13, ClaimKeeps

LEMMA AnotherAdoptsKeeps ==
  ASSUME PInv, RInv, NEW r \in Replicas, AnotherAdopts(r)
  PROVE  Keeps
<1>1. ReplicaOK(r) /\ claim[r] \in Claims /\ claim \in [Replicas -> Claims]
  BY DEF RInv, PInv, TypeOK
<1>2. /\ claim' = [claim EXCEPT ![r] = 
                     [claim[r] EXCEPT !.controller = Another]]
      /\ claim[r].meta = "live" /\ claim[r].controller = Nobody
      /\ UNCHANGED <<job, volume, initialized>> /\ Controller
      /\ UNCHANGED <<claimCache, jobCache, rec>>
  BY DEF AnotherAdopts, Controller, caches, history
<1>3. /\ claim'[r].controller = Another
      /\ claim'[r].meta = "live" /\ claim'[r].phase = claim[r].phase
      /\ claim'[r].stage = claim[r].stage
      /\ \A s \in Replicas : s # r => claim'[s] = claim[s]
  BY <1>1, <1>2 DEF Claims
<1>4. Foreign(r) /\ Exists(claim'[r]) /\ claim[r].controller # Another
  BY <1>2, <1>3, PoolAssumption DEF Foreign, Ours, Exists
<1>5. Completed(r)' = Completed(r)
  BY <1>2, <1>3 DEF Completed
<1>6. OtherOK(r)' /\ TakenOK(r)'
  BY <1>1, <1>2, <1>3, <1>4 DEF ReplicaOK, OtherOK, TakenOK
<1>7. ReplicaOK(r)'
  BY <1>1, <1>2, <1>4, <1>5, <1>6 
     DEF ReplicaOK, Foreign, ReadyOK, QuietOK, JobOK
<1>8. claim'[r].controller # Us
  BY <1>3, PoolAssumption
<1> QED BY <1>2, <1>3, <1>4, <1>7, <1>8, ClaimKeeps

-----------------------------------------------------------------------------
(* The theorems *)

LEMMA InitRInv == Init => RInv
<1> SUFFICES ASSUME Init PROVE RInv OBVIOUS
<1>1. ASSUME NEW r \in Replicas PROVE ReplicaOK(r)
  <2>1. /\ claim[r] = NoClaim /\ job[r] = NoJob /\ volume[r] = "none"
        /\ rec.claim[r] = NoClaim
    BY DEF Init, Idle
  <2> QED BY <2>1, ZeroTypes, NoClaimNobodys
          DEF ReplicaOK, OtherOK, Foreign, TakenOK, ReadyOK, QuietOK, JobOK,
              NoJob, Running
<1> QED BY <1>1 DEF Init, RInv, CallOK, Idle

LEMMA StepKeeps == PInv /\ RInv /\ [Next]_vars => Keeps
<1> SUFFICES ASSUME PInv, RInv, [Next]_vars PROVE Keeps OBVIOUS
<1>1. CASE UNCHANGED vars
  BY <1>1, KeptStep DEF vars, stored, caches, history
<1>2. CASE Finalize \/ Unfinalize \/ Refused \/ CallFails
  <2>1. Kept(rec, rec')
    BY <1>2, FinalizeStep, RefusedStep, IdleKept DEF Unfinalize
  <2>2. UNCHANGED <<claim, job, volume, claimCache, jobCache, initialized>>
    BY <1>2 DEF Finalize, Unfinalize, Refused, CallFails, stored, caches, 
       history
  <2> QED BY <2>1, <2>2, KeptStep
<1>3. CASE WriteStatus \/ StatusFails
  <2>1. Kept(rec, rec')
    BY <1>3, IdleKept DEF WriteStatus, StatusFails
  <2>2. UNCHANGED <<claim, job, volume, claimCache, jobCache, initialized>>
    BY <1>3 DEF WriteStatus, StatusFails, stored, caches, history
  <2> QED BY <2>1, <2>2, KeptStep
<1>4. CASE UserEdits \/ UserDeletesPool \/ Resync
  <2>1. /\ rec' = rec
        /\ UNCHANGED <<claim, job, volume, claimCache, jobCache, initialized>>
    BY <1>4 DEF UserEdits, UserDeletesPool, Resync, Controller, stored, 
       caches, history
  <2> QED BY <2>1, KeptStep
<1>5. CASE Step
  BY <1>2, <1>3, <1>5, LoadKeeps, SaveClaimKeeps, CreateJobKeeps, 
     DropJobKeeps, DropClaimKeeps DEF Step
<1>6. CASE Informers \/ Crash
  BY <1>6, CachesKeep
<1>7. ASSUME NEW r \in Replicas, Platform(r) PROVE Keeps
  BY <1>7, PhaseKeeps, JobEndsKeeps, RemoveJobKeeps, RemoveClaimKeeps, 
     CollectKeeps DEF Platform
<1>8. CASE Environment
  BY <1>4, <1>8, TakeVolumeKeeps, ForeignClaimKeeps, AnotherAdoptsKeeps,
     JobEndsKeeps DEF Environment
<1> QED BY <1>1, <1>2, <1>3, <1>5, <1>6, <1>7, <1>8 DEF Next, Fail

THEOREM ReplicasInductive == Spec => []RInv
<1>1. PInv /\ RInv /\ [Next]_vars => RInv'
  BY StepKeeps DEF Keeps
<1> QED BY InitRInv, PoolInductive, <1>1, PTL DEF Spec

(* No replica is offered before an init job has completed on its own       *)
(* volume, however old the copies are that the controller goes by          *)
(* (pool_replica.go:191-231).  Of a template that names the volume itself  *)
(* this is false: see MCPoolShared.                                        *)
THEOREM OfferedOnceInitialized ==
  NoneNamesVolume /\ Spec => []InitializedBeforeOffered
<1> SUFFICES ASSUME NoneNamesVolume 
             PROVE  Spec => []InitializedBeforeOffered
  OBVIOUS
<1>1. RInv => InitializedBeforeOffered
  <2> SUFFICES ASSUME RInv, NEW r \in Replicas,
                      claim[r].stage = "Available"
               PROVE  r \in initialized
    BY DEF InitializedBeforeOffered
  <2>1. ReplicaOK(r)
    BY DEF RInv
  <2>2. Exists(claim[r])
    BY <2>1 DEF ReplicaOK, NoClaim
  <2> QED BY <2>1, <2>2 DEF ReplicaOK, ReadyOK, Completed
<1> QED BY <1>1, ReplicasInductive, PTL

(* With such templates each job mounts the volume it is named after, and   *)
(* the step theorems about named jobs are about volumes.                   *)
LEMMA MountsItsOwn ==
  ASSUME NoneNamesVolume, RInv, RInv', NEW r \in Replicas,
         Exists(job'[r]) => Exists(job[r])
  PROVE  Mounting(r)' \subseteq Mounting(r)
<1>1. \A s \in Replicas : /\ Exists(job[s]) => job[s].mounts = s 
                          /\ Exists(job'[s]) => job'[s].mounts = s
  BY DEF RInv, ReplicaOK, ReadyOK
<1> QED BY <1>1 DEF Mounting

(* No init job runs on the volume of a replica that is offered: a job is   *)
(* created only where none has completed, even by a reconcile that         *)
(* believes the replica new (pool_replica.go:112-134).  Of a template that *)
(* names the volume itself this is false as well.                          *)
THEOREM OfferedIsQuiet == NoneNamesVolume /\ Spec => []NoJobOnOffered
<1> SUFFICES ASSUME NoneNamesVolume 
             PROVE  Spec => []NoJobOnOffered
  OBVIOUS
<1>1. RInv => NoJobOnOffered
  <2> SUFFICES ASSUME RInv, NEW r \in Replicas,
                      claim[r].stage = "Available",
                      NEW s \in Replicas, Exists(job[s]), job[s].mounts = r
               PROVE  ~Running(job[s])
    BY DEF NoJobOnOffered, Mounting
  <2>1. ReplicaOK(r) /\ ReplicaOK(s)
    BY DEF RInv
  <2>2. s = r
    BY <2>1 DEF ReplicaOK, ReadyOK
  <2>3. Exists(claim[r])
    BY <2>1 DEF ReplicaOK, NoClaim
  <2> QED BY <2>1, <2>2, <2>3 DEF ReplicaOK, QuietOK, Completed
<1> QED BY <1>1, ReplicasInductive, PTL

(* No step of this pool's controller, nor what follows from one, changes a *)
(* claim of another pool or starts a job on it, but for the claims that a  *)
(* pool being deleted loaded when they were nobody's (pool_state.go:36-60, *)
(* 90-94, pool_replica.go:96-134).                                         *)
THEOREM OthersAreUntouched == NoneNamesVolume /\ Spec => OthersUntouched
<1> SUFFICES ASSUME NoneNamesVolume 
             PROVE  Spec => OthersUntouched
  OBVIOUS
<1>1. PInv /\ RInv /\ [Next]_vars => 
        [\A r \in Replicas : claim[r].controller = Another => 
           /\ \/ claim'[r] = claim[r] 
              \/ claim[r].meta = "terminating"
              \/ rec.at = "dropClaim" /\ rec.loop = "delete"
           /\ Mounting(r)' \subseteq Mounting(r)]_vars
  BY StepKeeps, MountsItsOwn DEF Keeps, Untouched
<1> QED BY <1>1, PoolInductive, ReplicasInductive, PTL 
        DEF Spec, OthersUntouched

(* A volume that a checkout took is never offered again, and no init job   *)
(* starts on it: the claim goes with it (pool_replica.go:83-85, 138-142),  *)
(* if each job mounts the volume of its own replica.                       *)
THEOREM TakenStaysTaken == NoneNamesVolume /\ Spec => TakenIsFinal
<1> SUFFICES ASSUME NoneNamesVolume 
             PROVE  Spec => TakenIsFinal
  OBVIOUS
<1>1. PInv /\ RInv /\ [Next]_vars => 
        [\A r \in Replicas : volume[r] = "taken" => 
           /\ volume'[r] \in {"taken", "none"}
           /\ Mounting(r)' \subseteq Mounting(r)]_vars
  BY StepKeeps, MountsItsOwn DEF Keeps, Final
<1> QED BY <1>1, PoolInductive, ReplicasInductive, PTL 
        DEF Spec, TakenIsFinal
=============================================================================
