--------------------------- MODULE HandoverProofs ---------------------------
(***************************************************************************)
(* The whole handover of a checkout that nobody deletes.  CheckoutProofs   *)
(* follows the volumes: what a source and a copy look like and who may     *)
(* hold them.  The theorems here need the claims as well: what a claim     *)
(* that exists, is bound or is on its way out says of the lock, of the     *)
(* copy and of the caches, and what the caches and the reconcile, which    *)
(* lag behind, may still do.                                               *)
(*                                                                         *)
(* The code keeps these promises only to a checkout whose objects are left *)
(* alone: a user who deletes the claim before the lock is gone, or the     *)
(* collector that deletes the claims of a deleted checkout, takes away     *)
(* what the next reconcile builds on (run MCCheckoutDeleted explores what  *)
(* is left); and it does not look at the phase of a volume, so it may lock *)
(* one that is still there after its storage went.  Races, stale caches,   *)
(* crashes, errors, refused writes, the pool's scaling down and changes of *)
(* the spec are all included.                                              *)
(***************************************************************************)
EXTENDS CheckoutProofs

(* Nobody deletes the checkouts or the claims they were given, and no      *)
(* volume outlives its storage.                                            *)
NoDeletions == 
  Events \cap {"deleteClaim", "deleteCheckout", "slowReclaim"} = {}

-----------------------------------------------------------------------------
(* The inductive invariant *)

(* Claim o is p as it was at some time before. *)
Older(o, p) ==
  Exists(o) => 
    /\ Exists(p) /\ p.uid = o.uid /\ p.vol = o.vol /\ p.owner = o.owner
    /\ o.phase = "Bound" => p.phase = "Bound"

(* The cache shows that c has got its volume: from now on each reconcile   *)
(* of c only unlocks ...                                                   *)
Done(c) == pvcCache[ClaimFor(c)].phase = "Bound"
LocksFor(c) == rec.c = c /\ rec.pc \in Locking

(* ... once the one that may have been going on has ended. *)
Finished(c) == Done(c) /\ ~LocksFor(c)

HasClaim(c) == Exists(pvc[ClaimFor(c)]) /\ pvc[ClaimFor(c)].owner = c
HasLock(c) == Exists(pvc[LockedClaim(c)])

(* Checkout c got a volume in a claim of its own. *)
Reported(c) == \E r \in Replicas : HandedOut(c, r) /\ pvc[ClaimFor(c)].owner = c

AbsentIsZero(claims) == 
  \A n \in ClaimNames : 
    ~Exists(claims[UserClaim(n)]) => claims[UserClaim(n)] = NoPvc

(* A user's claim is never on its way out and always names a copy, which   *)
(* names it back when it is bound.  The cache shows an earlier state of    *)
(* it, so what the cache shows bound is bound.                             *)
UserClaimsOK ==
  /\ AbsentIsZero(pvc) /\ AbsentIsZero(pvcCache)
  /\ \A n \in ClaimNames : 
       LET claim == pvc[UserClaim(n)] IN
       /\ claim.meta # "terminating"
       /\ Exists(claim) => claim.vol \in Copies
       /\ claim.phase = "Bound" => CrossReferenced(UserClaim(n), claim.vol)
       /\ Older(pvcCache[UserClaim(n)], claim)

(* A copy belongs to a claim that exists, and only the owner of that claim *)
(* can hold its source.                                                    *)
CopiesHeld ==
  \A r \in Replicas : Exists(pv[Copy(r)]) =>
    /\ pv[Copy(r)].meta = "live"
    /\ \E n \in ClaimNames : 
         /\ Exists(pvc[UserClaim(n)])
         /\ RefersTo(pv[Copy(r)], UserClaim(n), pvc[UserClaim(n)].uid)
         /\ \A c \in Checkouts : LockedBy(r, c) => pvc[UserClaim(n)].owner = c

(* Storage is deleted only while it is in the pool: nobody holds it, and   *)
(* no reconcile still believes to have locked it.                          *)
DestroyedInPool ==
  \A r \in destroyed :
    /\ uids[PoolClaim(r)] # 0
    /\ ~Exists(pv[Source(r)]) /\ ~Exists(pv[Copy(r)])
    /\ rec.pc \in PastLock => rec.source # Source(r)

(* The locked claim comes first and goes last: it is there from before the *)
(* user's claim exists until c is finished, and while it is, it decides    *)
(* which source c holds and which copy the user's claim names.             *)
LocksOK ==
  \A c \in Checkouts :
    /\ pvc[LockedClaim(c)].meta = "terminating" => Finished(c)
    /\ HasLock(c) => pvc[LockedClaim(c)].vol \in Sources
    /\ HasClaim(c) => HasLock(c) \/ Finished(c)
    /\ \A r \in Replicas : 
         /\ LockedBy(r, c) => 
              \/ HasLock(c) /\ pvc[LockedClaim(c)].vol = Source(r)
              \/ Finished(c)
         /\ LockedBy(r, c) /\ HasClaim(c) => pvc[ClaimFor(c)].vol = Copy(r)
         /\ HasLock(c) /\ HasClaim(c) => 
              (pvc[LockedClaim(c)].vol = Source(r) 
                 <=> pvc[ClaimFor(c)].vol = Copy(r))

(* After lockClaim the reconcile's source is the one its claim locks. *)
HoldsLock == 
  rec.pc \in Locking \ {"lockClaim"} =>
    HasLock(rec.c) /\ pvc[Locked].vol = rec.source

(* A reconcile that locks loaded no bound claim and none of somebody else, *)
(* and goes on to the copy only with the claim that is stored.             *)
ReconcileOK ==
  /\ rec.pc \in Locking =>
       /\ rec.claim.phase # "Bound"
       /\ Exists(rec.claim) => rec.claim.owner = rec.c
       /\ ~Exists(rec.claim) => 
            \A r \in Replicas : rec.source = Source(r) => rec.volume = Copy(r)
  /\ rec.pc = "volume" => HasClaim(rec.c) /\ pvc[Wanted].uid = rec.claim.uid

(* A source that the cache shows locked is locked by that checkout still,  *)
(* or gone for good; so dropVolume deletes no source but its own.          *)
Lockers ==
  /\ \A r \in Replicas, c \in Checkouts : 
       /\ Exists(pvCache[Source(r)])
       /\ pvCache[Source(r)].ref.claim = LockedClaim(c)
       => (Exists(pv[Source(r)]) => LockedBy(r, c))
  /\ rec.pc = "dropVolume" =>
       /\ rec.source \in Sources \cup {NoVolume}
       /\ \A r \in Replicas : rec.source = Source(r) => 
            /\ uids[PoolClaim(r)] # 0
            /\ Exists(pv[Source(r)]) => LockedBy(r, rec.c)

(* What unlocks, and what is or is about to be reported, has happened. *)
ReportsOK ==
  /\ rec.pc \in {"dropVolume", "dropClaim"} => 
       rec.reason = "CheckedOut" /\ Done(rec.c)
  /\ rec.pc # "idle" /\ rec.reason = "CheckedOut" => Reported(rec.c)
  /\ rec.pc # "idle" /\ rec.volume # NoVolume /\ rec.claim.phase = "Bound" =>
       HandedOut(rec.c, rec.volume[2])
  /\ \A c \in Checkouts :
       /\ status[c].reason = "CheckedOut" => Reported(c)
       /\ status[c].claim # NoClaim => HandedOut(c, status[c].volume[2])

HandoverInv ==
  /\ NoDeletions /\ checkouts = Checkouts
  /\ UserClaimsOK /\ CopiesHeld /\ DestroyedInPool
  /\ LocksOK /\ HoldsLock /\ OneVolumePerCheckout
  /\ ReconcileOK /\ Lockers /\ ReportsOK
  /\ DropAfterHandover /\ NoStorageLost

-----------------------------------------------------------------------------
(* What a step may do to the claims, one name at a time *)

LEMMA ClaimNamesDiffer ==
  /\ \A c, d \in Checkouts : LockedClaim(c) = LockedClaim(d) => c = d
  /\ \A n, m \in ClaimNames : UserClaim(n) = UserClaim(m) => n = m
  /\ \A c \in Checkouts, n \in ClaimNames : LockedClaim(c) # UserClaim(n)
  /\ \A r \in Replicas, c \in Checkouts : PoolClaim(r) # LockedClaim(c)
  /\ \A r \in Replicas, n \in ClaimNames : PoolClaim(r) # UserClaim(n)
BY DEF PoolClaim, LockedClaim, UserClaim

OnlyClaim(n) == \A m \in PvcNames : m # n => pvc'[m] = pvc[m]

(* Who writes claims. *)
LEMMA ClaimWriters ==
  ASSUME TypeOK, NoDeletions, checkouts = Checkouts, [Next]_vars
  PROVE  \/ UNCHANGED pvc
         \/ LockClaim \/ PersistClaim \/ DropClaim
         \/ \E n \in PvcNames : Bind(n) \/ LoseClaim(n) \/ RemoveClaim(n)
         \/ \E r \in Replicas : OnlyClaim(PoolClaim(r))
<1>1. CASE UNCHANGED vars
  BY <1>1 DEF vars, clusterVars
<1>2. ASSUME NEW c \in Checkouts, Load(c) PROVE UNCHANGED pvc
  BY <1>2 DEF Load, LoadMissing, LoadConflict, LoadBound, LoadLocked, 
     LoadFromPool, LoadNotAvailable, LoadPoolDoesNotExist, 
     LoadWithoutVolume, Begin, clusterVars
<1>3. ASSUME LockVolume \/ PersistVolume \/ InvalidClaim \/ DropVolume 
               \/ WriteStatus \/ Fail
      PROVE  UNCHANGED pvc
  BY <1>3 DEF LockVolume, PersistVolume, InvalidClaim, DropVolume, 
     WriteStatus, Fail, WriteFails, StatusFails, clusterVars
<1>4. ASSUME SyncPvc \/ SyncPv \/ Crash PROVE UNCHANGED pvc
  BY <1>4 DEF SyncPvc, SyncPv, Crash
<1>5. ASSUME NEW v \in PvNames, Release(v) \/ Reclaim(v) \/ RemoveVolume(v)
      PROVE  UNCHANGED pvc
  BY <1>5 DEF Release, Reclaim, RemoveVolume
<1>6. ASSUME NEW n \in PvcNames, Collect(n) PROVE FALSE
  BY <1>6 DEF Collect
<1>9. ASSUME NEW v \in PvNames, ReclaimInSteps(v) PROVE FALSE
  BY <1>9 DEF ReclaimInSteps, NoDeletions
<1>7. ASSUME NEW r \in Replicas, PoolStock(r) \/ PoolDiscard(r)
      PROVE  OnlyClaim(PoolClaim(r))
  BY <1>7 DEF PoolStock, PoolDiscard, DeleteClaim, OnlyClaim, TypeOK,
     ClusterTypeOK
<1>8. CASE Environment
  <2>1. ASSUME NEW n \in ClaimNames, UserDeletesClaim(n) PROVE FALSE
    BY <2>1 DEF UserDeletesClaim, NoDeletions
  <2>2. ASSUME NEW c \in Checkouts, 
               UserDeletesCheckout(c) \/ UserEditsCheckout(c)
        PROVE  UNCHANGED pvc
    BY <2>2 DEF UserDeletesCheckout, UserEditsCheckout, clusterVars
  <2>3. ASSUME NEW p \in Pools, CreatePool(p) PROVE UNCHANGED pvc
    BY <2>3 DEF CreatePool, clusterVars
  <2>4. ASSUME Resync PROVE UNCHANGED pvc
    BY <2>4 DEF Resync, clusterVars
  <2> QED BY <1>7, <1>8, <2>1, <2>2, <2>3, <2>4 DEF Environment
<1> QED BY <1>1, <1>2, <1>3, <1>4, <1>5, <1>6, <1>8, <1>9
        DEF Next, Write, Platform, VolumeController

(* A claim for a user is created once and keeps what identifies it; it is  *)
(* bound when a volume and it name each other.                             *)
UserClaimStep(n) ==
  LET o == pvc[UserClaim(n)]
      p == pvc'[UserClaim(n)] IN
  /\ Exists(o) => 
       /\ p.meta = o.meta /\ p.uid = o.uid /\ p.vol = o.vol
       /\ p.owner = o.owner 
       /\ p.phase # o.phase => 
            p.phase = "Bound" /\ CrossReferenced(UserClaim(n), o.vol)
  /\ ~Exists(o) => 
       \/ p = o
       \/ /\ PersistClaim /\ UserClaim(n) = Wanted /\ ~Exists(rec.claim)
          /\ p.meta = "live" /\ p.owner = rec.c /\ p.vol = rec.volume
          /\ p.phase = "Pending"

LEMMA UserClaimSteps ==
  ASSUME IInv, HandoverInv, [Next]_vars, NEW n \in ClaimNames
  PROVE  UserClaimStep(n)
<1> DEFINE o == pvc[UserClaim(n)]
<1>0. TypeOK /\ pvc \in [PvcNames -> Pvcs] /\ UserClaim(n) \in PvcNames
  BY NameTypes DEF IInv, TypeOK, ClusterTypeOK
<1>1. CASE pvc'[UserClaim(n)] = pvc[UserClaim(n)]
  BY <1>1 DEF UserClaimStep
<1>2. /\ o.meta # "terminating"
      /\ ~Exists(o) => o = NoPvc
      /\ o.phase = "Bound" => CrossReferenced(UserClaim(n), o.vol)
      /\ Exists(o) => o.vol \in Copies
  BY DEF HandoverInv, UserClaimsOK, AbsentIsZero
<1>3. CASE LockClaim
  <2>1. /\ SaveClaim(Locked, rec.lockedClaim, rec.source) 
        /\ rec.c \in Checkouts /\ Locked \in PvcNames
    BY <1>0, <1>3, RecTypes DEF LockClaim
  <2>2. Locked # UserClaim(n)
    BY <2>1, ClaimNamesDiffer DEF Locked
  <2> QED BY <1>0, <1>1, <2>1, <2>2, ClaimWritten
<1>4. CASE PersistClaim
  <2>1. /\ SaveClaim(Wanted, rec.claim, rec.volume) 
        /\ Wanted \in PvcNames /\ rec.volume \in Copies
    BY <1>0, <1>4, RecTypes DEF PersistClaim, IInv, LoadedOK, Locking
  <2>2. CASE UserClaim(n) # Wanted
    BY <1>0, <1>1, <2>1, <2>2, ClaimWritten
  <2>3. CASE UserClaim(n) = Wanted /\ ~Exists(rec.claim)
    <3>1. /\ ~Exists(o)
          /\ pvc' = [pvc EXCEPT ![Wanted] = 
                              NewPvc(Wanted, rec.c, rec.volume)]
      BY <2>1, <2>3 DEF SaveClaim, CreateClaim
    <3>2. pvc'[UserClaim(n)] = NewPvc(Wanted, rec.c, rec.volume)
      BY <1>0, <2>3, <3>1
    <3> QED BY <1>4, <2>3, <3>1, <3>2 DEF UserClaimStep, NewPvc
  <2>4. CASE UserClaim(n) = Wanted /\ Exists(rec.claim)
    <3>1. /\ o = rec.claim /\ o.vol \in {NoVolume, rec.volume}
          /\ pvc' = [pvc EXCEPT ![Wanted].vol = rec.volume]
      BY <2>1, <2>4 DEF SaveClaim, UpdateClaim, VolumeImmutable
    <3>2. o.vol # NoVolume
      BY <1>2, <2>4, <3>1 DEF Copies, Copy, NoVolume
    <3>3. pvc'[UserClaim(n)] = o
      BY <1>0, <2>4, <3>1, <3>2 DEF Pvcs
    <3> QED BY <1>1, <3>3
  <2> QED BY <2>2, <2>3, <2>4
<1>5. CASE DropClaim
  <2>1. Locked # UserClaim(n)
    BY <1>0, <1>5, RecTypes, ClaimNamesDiffer DEF DropClaim, Locked
  <2> QED BY <1>0, <1>1, <1>5, <2>1 DEF DropClaim
<1>6. ASSUME NEW m \in PvcNames, Bind(m) \/ LoseClaim(m) \/ RemoveClaim(m)
      PROVE  UserClaimStep(n)
  <2>1. CASE m # UserClaim(n)
    BY <1>0, <1>1, <1>6, <2>1 DEF Bind, LoseClaim, RemoveClaim
  <2>2. CASE m = UserClaim(n)
    <3>1. Bind(m)
      BY <1>2, <1>6, <2>2 DEF LoseClaim, RemoveClaim
    <3>2. /\ CrossReferenced(m, o.vol) /\ Exists(o)
          /\ pvc'[UserClaim(n)] = [o EXCEPT !.phase = "Bound"]
      BY <1>0, <2>2, <3>1 DEF Bind, CrossReferenced
    <3> QED BY <1>0, <2>2, <3>2 DEF UserClaimStep, Pvcs
  <2> QED BY <2>1, <2>2
<1>7. ASSUME NEW r \in Replicas, OnlyClaim(PoolClaim(r))
      PROVE  UserClaimStep(n)
  BY <1>0, <1>1, <1>7, ClaimNamesDiffer DEF OnlyClaim
<1> QED BY <1>0, <1>1, <1>3, <1>4, <1>5, <1>6, <1>7, ClaimWriters 
        DEF HandoverInv

(* The claim that locks a source is created by lockClaim, deleted by       *)
(* dropClaim only, and names the same source all the time.                 *)
LockedClaimStep(c) ==
  LET o == pvc[LockedClaim(c)]
      p == pvc'[LockedClaim(c)] IN
  \/ p.meta = o.meta /\ p.vol = o.vol
  \/ DropClaim /\ rec.c = c /\ Exists(o) 
       /\ p.meta = "terminating" /\ p.vol = o.vol
  \/ o.meta = "terminating" /\ ~Exists(p)
  \/ LockClaim /\ rec.c = c /\ ~Exists(o)
       /\ p.meta = "live" /\ p.vol = rec.source

LEMMA LockedClaimSteps ==
  ASSUME IInv, HandoverInv, [Next]_vars, NEW c \in Checkouts
  PROVE  LockedClaimStep(c)
<1> DEFINE o == pvc[LockedClaim(c)]
<1>0. TypeOK /\ pvc \in [PvcNames -> Pvcs] /\ LockedClaim(c) \in PvcNames
  BY NameTypes DEF IInv, TypeOK, ClusterTypeOK
<1>1. CASE pvc'[LockedClaim(c)] = pvc[LockedClaim(c)]
  BY <1>1 DEF LockedClaimStep
<1>2. Exists(o) => o.vol \in Sources
  BY DEF HandoverInv, LocksOK, HasLock
<1>3. CASE LockClaim
  <2>1. /\ SaveClaim(Locked, rec.lockedClaim, rec.source) 
        /\ rec.c \in Checkouts /\ Locked \in PvcNames
    BY <1>0, <1>3, RecTypes DEF LockClaim
  <2>2. CASE c # rec.c
    <3>1. LockedClaim(c) # Locked
      BY <2>1, <2>2, ClaimNamesDiffer DEF Locked
    <3> QED BY <1>0, <1>1, <2>1, <3>1, ClaimWritten
  <2>3. CASE c = rec.c /\ ~Exists(rec.lockedClaim)
    <3>1. /\ ~Exists(o)
          /\ pvc' = [pvc EXCEPT ![Locked] = 
                              NewPvc(Locked, rec.c, rec.source)]
      BY <2>1, <2>3 DEF SaveClaim, CreateClaim, Locked
    <3>2. pvc'[LockedClaim(c)] = NewPvc(Locked, rec.c, rec.source)
      BY <1>0, <2>3, <3>1 DEF Locked
    <3> QED BY <1>3, <2>3, <3>1, <3>2 DEF LockedClaimStep, NewPvc
  <2>4. CASE c = rec.c /\ Exists(rec.lockedClaim)
    <3>1. /\ o = rec.lockedClaim /\ o.vol \in {NoVolume, rec.source}
          /\ pvc' = [pvc EXCEPT ![Locked].vol = rec.source]
      BY <2>1, <2>4 DEF SaveClaim, UpdateClaim, VolumeImmutable, Locked
    <3>2. o.vol # NoVolume
      BY <1>2, <2>4, <3>1 DEF Sources, Source, NoVolume
    <3>3. pvc'[LockedClaim(c)] = o
      BY <1>0, <2>4, <3>1, <3>2 DEF Pvcs, Locked
    <3> QED BY <1>1, <3>3
  <2> QED BY <2>2, <2>3, <2>4
<1>4. CASE PersistClaim
  <2>1. /\ SaveClaim(Wanted, rec.claim, rec.volume) 
        /\ Wanted \in PvcNames /\ rec.c \in Checkouts
    BY <1>0, <1>4, RecTypes DEF PersistClaim
  <2>2. LockedClaim(c) # Wanted
    BY <2>1 DEF Wanted, ClaimFor, LockedClaim, UserClaim
  <2> QED BY <1>0, <1>1, <2>1, <2>2, ClaimWritten
<1>5. CASE DropClaim
  <2>1. rec.c \in Checkouts
    BY <1>0, <1>5, RecTypes DEF DropClaim
  <2>2. CASE UNCHANGED pvc
    BY <1>1, <2>2
  <2>3. CASE /\ Exists(pvc[Locked])
             /\ pvc' = [pvc EXCEPT ![Locked] = Terminating(pvc[Locked])]
    <3>1. CASE c # rec.c
      BY <1>0, <1>1, <2>1, <2>3, <3>1, ClaimNamesDiffer DEF Locked
    <3>2. CASE c = rec.c
      <4>1. pvc'[LockedClaim(c)] = Terminating(o)
        BY <1>0, <2>3, <3>2 DEF Locked
      <4>2. /\ Terminating(o).meta = "terminating" 
            /\ Terminating(o).vol = o.vol
        BY <1>0 DEF Terminating, Pvcs
      <4> QED BY <1>5, <2>3, <3>2, <4>1, <4>2 DEF LockedClaimStep, Locked
    <3> QED BY <3>1, <3>2
  <2> QED BY <1>5, <2>2, <2>3 DEF DropClaim
<1>6. ASSUME NEW m \in PvcNames, Bind(m) \/ LoseClaim(m) \/ RemoveClaim(m)
      PROVE  LockedClaimStep(c)
  <2>1. CASE m # LockedClaim(c)
    BY <1>0, <1>1, <1>6, <2>1 DEF Bind, LoseClaim, RemoveClaim
  <2>2. CASE m = LockedClaim(c) /\ (Bind(m) \/ LoseClaim(m))
    <3>1. PICK p \in {"Bound", "Lost"} : 
            pvc'[LockedClaim(c)] = [o EXCEPT !.phase = p]
      BY <1>0, <2>2 DEF Bind, LoseClaim
    <3> QED BY <1>0, <3>1 DEF LockedClaimStep, Pvcs
  <2>3. CASE m = LockedClaim(c) /\ RemoveClaim(m)
    BY <1>0, <2>3 DEF RemoveClaim, LockedClaimStep, NoPvc, Exists
  <2> QED BY <1>6, <2>1, <2>2, <2>3
<1>7. ASSUME NEW r \in Replicas, OnlyClaim(PoolClaim(r))
      PROVE  LockedClaimStep(c)
  BY <1>0, <1>1, <1>7, ClaimNamesDiffer DEF OnlyClaim
<1> QED BY <1>0, <1>1, <1>3, <1>4, <1>5, <1>6, <1>7, ClaimWriters 
        DEF HandoverInv

-----------------------------------------------------------------------------
(* What a step may do to the volumes *)

LEMMA VolumeWriters ==
  ASSUME TypeOK, NoDeletions, [Next]_vars
  PROVE  \/ UNCHANGED <<pv, destroyed>>
         \/ LockVolume \/ PersistVolume \/ DropVolume
         \/ \E n \in PvcNames : Bind(n)
         \/ \E v \in PvNames : Release(v) \/ Reclaim(v) \/ RemoveVolume(v)
         \/ \E r \in Replicas : PoolStock(r)
<1>1. CASE UNCHANGED vars
  BY <1>1 DEF vars, clusterVars
<1>2. ASSUME NEW c \in Checkouts, Load(c) PROVE UNCHANGED <<pv, destroyed>>
  BY <1>2 DEF Load, LoadMissing, LoadConflict, LoadBound, LoadLocked, 
     LoadFromPool, LoadNotAvailable, LoadPoolDoesNotExist, 
     LoadWithoutVolume, Begin, clusterVars
<1>3. ASSUME LockClaim \/ PersistClaim \/ InvalidClaim \/ DropClaim 
               \/ WriteStatus \/ Fail
      PROVE  UNCHANGED <<pv, destroyed>>
  BY <1>3 DEF LockClaim, PersistClaim, InvalidClaim, DropClaim, 
     WriteStatus, Fail, WriteFails, StatusFails, Persisting, clusterVars
<1>4. ASSUME SyncPvc \/ SyncPv \/ Crash PROVE UNCHANGED <<pv, destroyed>>
  BY <1>4 DEF SyncPvc, SyncPv, Crash
<1>5. ASSUME NEW n \in PvcNames, LoseClaim(n) \/ RemoveClaim(n) \/ Collect(n)
      PROVE  UNCHANGED <<pv, destroyed>>
  BY <1>5 DEF LoseClaim, RemoveClaim, Collect, DeleteClaim
<1>6. CASE Environment
  <2>1. ASSUME NEW c \in Checkouts, 
               UserDeletesCheckout(c) \/ UserEditsCheckout(c)
        PROVE  UNCHANGED <<pv, destroyed>>
    BY <2>1 DEF UserDeletesCheckout, UserEditsCheckout, clusterVars
  <2>2. ASSUME (\E p \in Pools : CreatePool(p)) \/ Resync 
        PROVE  UNCHANGED <<pv, destroyed>>
    BY <2>2 DEF CreatePool, Resync, clusterVars
  <2>3. ASSUME \/ \E r \in Replicas : PoolDiscard(r)
               \/ \E n \in ClaimNames : UserDeletesClaim(n)
        PROVE  UNCHANGED <<pv, destroyed>>
    BY <2>3 DEF PoolDiscard, UserDeletesClaim, DeleteClaim
  <2> QED BY <1>6, <2>1, <2>2, <2>3 DEF Environment
<1>7. ASSUME NEW v \in PvNames, ReclaimInSteps(v) PROVE FALSE
  BY <1>7 DEF ReclaimInSteps, NoDeletions
<1> QED BY <1>1, <1>2, <1>3, <1>4, <1>5, <1>6, <1>7
        DEF Next, Write, Platform, VolumeController

(* A copy is made by volume from the source that the same reconcile        *)
(* locked, and is then left alone: its claim stays.                        *)
CopyStep(r) ==
  LET o == pv[Copy(r)]
      p == pv'[Copy(r)] IN
  /\ Exists(o) => 
       /\ p.meta = o.meta 
       /\ p.ref.claim = o.ref.claim /\ p.ref.uid = o.ref.uid
  /\ ~Exists(o) /\ Exists(p) =>
       /\ PersistVolume /\ rec.source = Source(r)
       /\ p.meta = "live"
       /\ p.ref.claim = Wanted /\ p.ref.uid = rec.claim.uid

LEMMA CopySteps ==
  ASSUME IInv, HandoverInv, [Next]_vars, NEW r \in Replicas
  PROVE  CopyStep(r)
<1> DEFINE o == pv[Copy(r)]
<1>0. /\ TypeOK /\ pv \in [PvNames -> Pvs] /\ Copy(r) \in PvNames
      /\ o \in Pvs /\ NoDeletions
  BY NameTypes DEF IInv, HandoverInv, TypeOK, ClusterTypeOK
<1>1. CASE pv'[Copy(r)] = pv[Copy(r)]
  BY <1>1 DEF CopyStep
<1>2. Exists(o) =>
        /\ o.meta = "live" /\ ~Orphaned(Copy(r))
        /\ \E n \in ClaimNames : 
             RefersTo(o, UserClaim(n), pvc[UserClaim(n)].uid)
  BY DEF HandoverInv, CopiesHeld, Orphaned, RefersTo
<1>3. CASE LockVolume
  <2>1. PICK s \in Replicas : 
          rec.source = Source(s) /\ pv' = [pv EXCEPT ![Source(s)] = LockedSource]
    BY <1>3 DEF LockVolume, PutVolume, IInv, LoadedOK, Locking
  <2> QED BY <1>0, <1>1, <2>1, SourceWritten
<1>4. CASE PersistVolume
  <2>1. PICK s \in Replicas : rec.source = Source(s) /\ rec.volume = Copy(s)
    BY <1>4 DEF PersistVolume, IInv, LoadedOK, Locking, Copies, Source, Copy
  <2>2. /\ pv[Copy(s)] = rec.volumeObj
        /\ pv' = [pv EXCEPT ![Copy(s)] = CopiedVolume]
    BY <1>4, <2>1 DEF PersistVolume, PutVolume
  <2>3. CASE s # r
    BY <1>0, <1>1, <2>2, <2>3, CopyWritten
  <2>4. CASE s = r
    <3>1. /\ pv'[Copy(r)] = CopiedVolume
          /\ CopiedVolume.ref.claim = Wanted
          /\ CopiedVolume.ref.uid = rec.claim.uid
          /\ CopiedVolume.meta = IF Exists(o) THEN o.meta ELSE "live"
      BY <1>0, <2>2, <2>4, CopyWritten DEF CopiedVolume
    <3>2. ASSUME Exists(o) 
          PROVE  o.ref.claim = Wanted /\ o.ref.uid = rec.claim.uid
      <4>1. o.ref.claim = Wanted
        BY <1>4, <2>1, <2>4, <3>2 
           DEF IInv, LockHeld, PersistVolume, PastLock, Wanted
      <4>2. pvc[Wanted].uid = rec.claim.uid
        BY <1>4 DEF HandoverInv, ReconcileOK, PersistVolume
      <4> QED BY <1>2, <3>2, <4>1, <4>2 DEF RefersTo
    <3> QED BY <1>4, <2>1, <2>4, <3>1, <3>2 DEF CopyStep
  <2> QED BY <2>3, <2>4
<1>5. CASE DropVolume
  <2>1. CASE UNCHANGED pv
    BY <1>1, <2>1
  <2>2. CASE pv' = [pv EXCEPT ![rec.source] = Terminating(@)]
               /\ rec.source \in PvNames
    <3>1. rec.source # Copy(r)
      BY <1>5, <2>2, NamesDiffer DEF HandoverInv, Lockers, DropVolume, 
         Sources, Copy, NoVolume
    <3> QED BY <1>0, <1>1, <2>2, <3>1
  <2> QED BY <1>5, <2>1, <2>2 DEF DropVolume, NothingToDrop
<1>6. ASSUME NEW v \in PvNames, NEW p \in {"Bound", "Released"},
             pv' = [pv EXCEPT ![v].phase = p]
      PROVE  CopyStep(r)
  <2>1. /\ pv'[Copy(r)].meta = o.meta /\ pv'[Copy(r)].ref = o.ref
    BY <1>0, <1>6 DEF Pvs
  <2> QED BY <2>1 DEF CopyStep, Exists
<1>7. ASSUME NEW n \in PvcNames, Bind(n) PROVE CopyStep(r)
  BY <1>6, <1>7 DEF Bind, CrossReferenced
<1>8. ASSUME NEW v \in PvNames, Release(v) PROVE CopyStep(r)
  BY <1>6, <1>8 DEF Release
<1>9. ASSUME NEW v \in PvNames, Reclaim(v) \/ RemoveVolume(v)
      PROVE  CopyStep(r)
  <2>1. v # Copy(r)
    BY <1>2, <1>9 DEF Reclaim, Reclaimable, Orphaned, RemoveVolume, Exists
  <2>2. pv' = [pv EXCEPT ![v] = NoPv]
    BY <1>9 DEF Reclaim, RemoveVolume
  <2> QED BY <1>0, <1>1, <2>1, <2>2
<1>10. ASSUME NEW s \in Replicas, PoolStock(s) PROVE CopyStep(r)
  BY <1>0, <1>1, <1>10, SourceWritten DEF PoolStock
<1> QED BY <1>0, <1>1, <1>3, <1>4, <1>5, <1>7, <1>8, <1>9, <1>10, 
           VolumeWriters

(* A source appears when the pool makes it, and goes with its storage or   *)
(* after dropVolume marked it.                                             *)
SourceStep(r) ==
  LET o == pv[Source(r)]
      p == pv'[Source(r)] IN
  /\ ~Exists(o) /\ Exists(p) => PoolStock(r)
  /\ Exists(o) /\ ~Exists(p) => o.meta = "terminating" \/ r \in destroyed'
  /\ p.meta = "terminating" => 
       \/ o.meta = "terminating" 
       \/ DropVolume /\ rec.source = Source(r) /\ Exists(o)
  /\ \A c \in Checkouts : LockedBy(r, c)' =>
       LockedBy(r, c) \/ (LockVolume /\ rec.c = c /\ rec.source = Source(r))
  /\ r \in destroyed' /\ r \notin destroyed =>
       Exists(o) /\ ~Exists(p) /\ Pooled(r, o)
  /\ r \in destroyed => r \in destroyed'

LEMMA SourceSteps ==
  ASSUME IInv, HandoverInv, [Next]_vars, NEW r \in Replicas
  PROVE  SourceStep(r)
<1> DEFINE o == pv[Source(r)]
<1>0. /\ TypeOK /\ pv \in [PvNames -> Pvs] /\ Source(r) \in PvNames
      /\ o \in Pvs /\ NoDeletions
  BY NameTypes DEF IInv, HandoverInv, TypeOK, ClusterTypeOK
<1>1. CASE pv'[Source(r)] = pv[Source(r)] /\ UNCHANGED destroyed
  BY <1>1 DEF SourceStep, LockedBy
<1>2. CASE LockVolume
  <2>0. UNCHANGED destroyed
    BY <1>2 DEF LockVolume, Persisting
  <2>1. PICK s \in Replicas : 
          /\ rec.source = Source(s)
          /\ pv[Source(s)] = rec.sourceObj
          /\ pv' = [pv EXCEPT ![Source(s)] = LockedSource]
          /\ Exists(rec.sourceObj)
    BY <1>2 DEF LockVolume, PutVolume, IInv, LoadedOK, Locking
  <2>2. CASE s # r
    BY <1>0, <1>1, <2>0, <2>1, <2>2, SourceWritten
  <2>3. CASE s = r
    <3>1. /\ pv'[Source(r)] = LockedSource /\ Exists(o)
          /\ LockedSource.meta = o.meta
          /\ LockedSource.ref.claim = LockedClaim(rec.c)
      BY <1>0, <2>1, <2>3, SourceWritten DEF LockedSource, Locked, Pvs
    <3>2. ASSUME NEW c \in Checkouts, LockedBy(r, c)' PROVE c = rec.c
      BY <3>1, <3>2 DEF LockedBy, LockedClaim
    <3> QED BY <1>2, <2>0, <2>1, <2>3, <3>1, <3>2 DEF SourceStep, Exists
  <2> QED BY <2>2, <2>3
<1>3. CASE PersistVolume
  <2>1. PICK s \in Replicas : pv' = [pv EXCEPT ![Copy(s)] = CopiedVolume]
    BY <1>3 DEF PersistVolume, PutVolume, IInv, LoadedOK, Locking, Copies
  <2> QED BY <1>0, <1>1, <1>3, <2>1, CopyWritten 
          DEF PersistVolume, Persisting
<1>4. ASSUME pv'[Source(r)].meta = o.meta, pv'[Source(r)].ref = o.ref,
             UNCHANGED destroyed
      PROVE  SourceStep(r)
  BY <1>4 DEF SourceStep, LockedBy, Exists
<1>5. CASE DropVolume
  <2>0. UNCHANGED destroyed
    BY <1>5 DEF DropVolume, Persisting
  <2>1. CASE UNCHANGED pv
    BY <1>1, <2>0, <2>1
  <2>2. CASE /\ pv' = [pv EXCEPT ![rec.source] = Terminating(@)]
             /\ rec.source \in PvNames /\ Exists(pv[rec.source])
    <3>1. CASE rec.source # Source(r)
      BY <1>0, <1>1, <2>0, <2>2, <3>1
    <3>2. CASE rec.source = Source(r)
      <4>1. pv'[Source(r)] = Terminating(o) /\ Exists(o)
        BY <1>0, <2>2, <3>2
      <4>2. /\ Exists(Terminating(o)) /\ Terminating(o).ref = o.ref
        BY <1>0 DEF Terminating, Exists, Pvs
      <4> QED BY <1>5, <2>0, <3>2, <4>1, <4>2 DEF SourceStep, LockedBy
    <3> QED BY <3>1, <3>2
  <2> QED BY <1>5, <2>1, <2>2 DEF DropVolume, NothingToDrop
<1>6. ASSUME NEW v \in PvNames, NEW p \in {"Bound", "Released"},
             pv' = [pv EXCEPT ![v].phase = p], UNCHANGED destroyed
      PROVE  SourceStep(r)
  <2>1. /\ pv'[Source(r)].meta = o.meta /\ pv'[Source(r)].ref = o.ref
    BY <1>0, <1>6 DEF Pvs
  <2> QED BY <1>4, <1>6, <2>1
<1>7. ASSUME NEW n \in PvcNames, Bind(n) PROVE SourceStep(r)
  BY <1>6, <1>7 DEF Bind, CrossReferenced
<1>8. ASSUME NEW v \in PvNames, Release(v) PROVE SourceStep(r)
  BY <1>6, <1>8 DEF Release
<1>9. ASSUME NEW v \in PvNames, RemoveVolume(v) PROVE SourceStep(r)
  <2>1. CASE v # Source(r)
    BY <1>0, <1>1, <1>9, <2>1 DEF RemoveVolume
  <2>2. CASE v = Source(r)
    <3>1. o.meta = "terminating" /\ pv'[Source(r)] = NoPv
            /\ UNCHANGED destroyed
      BY <1>0, <1>9, <2>2 DEF RemoveVolume
    <3> QED BY <3>1 DEF SourceStep, LockedBy, NoPv, Exists
  <2> QED BY <2>1, <2>2
<1>10. ASSUME NEW v \in PvNames, Reclaim(v) PROVE SourceStep(r)
  <2>1. /\ pv' = [pv EXCEPT ![v] = NoPv]
        /\ destroyed' = destroyed \cup {v[2]}
        /\ Exists(pv[v]) /\ Orphaned(v) /\ pv[v].policy = "Delete"
    BY <1>10 DEF Reclaim, Reclaimable, Orphaned
  <2>2. PICK s \in Replicas : v \in {Source(s), Copy(s)} /\ v[2] = s
    BY DEF PvNames, Source, Copy
  <2>3. v # Copy(s)
    <3>1. Exists(pv[Copy(s)]) => ~Orphaned(Copy(s))
      BY DEF HandoverInv, CopiesHeld, Orphaned, RefersTo
    <3> QED BY <2>1, <3>1
  <2>4. v = Source(s)
    BY <2>2, <2>3
  <2>5. CASE s # r
    <3>1. Source(r) # v
      BY <2>4, <2>5, NamesDiffer
    <3>2. pv'[Source(r)] = o /\ (r \in destroyed' <=> r \in destroyed)
      BY <1>0, <2>1, <2>2, <2>5, <3>1
    <3> QED BY <3>2 DEF SourceStep, LockedBy
  <2>6. CASE s = r
    <3>1. pv'[Source(r)] = NoPv /\ r \in destroyed'
      BY <1>0, <2>1, <2>2, <2>4, <2>6
    <3>2. Pooled(r, o)
      <4>1. SourceOK(r, o)
        BY DEF IInv, SourcesOK
      <4> QED BY <2>1, <2>4, <2>6, <4>1 DEF SourceOK, Taken
    <3> QED BY <2>1, <2>4, <2>6, <3>1, <3>2 
            DEF SourceStep, LockedBy, NoPv, Exists
  <2> QED BY <2>5, <2>6
<1>11. ASSUME NEW s \in Replicas, PoolStock(s) PROVE SourceStep(r)
  <2>0. UNCHANGED destroyed
    BY <1>11 DEF PoolStock
  <2>1. CASE s # r
    BY <1>0, <1>1, <1>11, <2>0, <2>1, SourceWritten DEF PoolStock
  <2>2. CASE s = r
    <3>1. /\ pv'[Source(r)].meta = "live" 
          /\ pv'[Source(r)].ref.claim = PoolClaim(r)
      BY <1>0, <1>11, <2>2, SourceWritten DEF PoolStock
    <3>2. \A c \in Checkouts : ~LockedBy(r, c)'
      BY <2>2, <3>1, ClaimNamesDiffer DEF LockedBy
    <3> QED BY <1>11, <2>0, <2>2, <3>1, <3>2 DEF SourceStep, Exists
  <2> QED BY <2>1, <2>2
<1> QED BY <1>0, <1>1, <1>2, <1>3, <1>5, <1>7, <1>8, <1>9, <1>10, <1>11,
           VolumeWriters

-----------------------------------------------------------------------------
(* What a step may do to the reconcile, the caches and the statuses *)

(* A reconcile starts with what the caches show ... *)
Started(c) ==
  /\ UNCHANGED <<clusterVars, status>>
  /\ rec'.c = c
  /\ \/ /\ rec'.pc = "lockClaim" /\ rec'.reason = "none"
        /\ ~Done(c) /\ ~Conflicting(c)
        /\ rec'.claim = pvcCache[ClaimFor(c)]
        /\ ~Exists(rec'.claim) => 
             \A r \in Replicas : rec'.source = Source(r) => rec'.volume = Copy(r)
     \/ /\ rec'.pc = "dropVolume" /\ rec'.reason = "CheckedOut"
        /\ Done(c) /\ ~Conflicting(c)
        /\ rec'.source = LoadedVolume(LockedClaim(c))
        /\ rec'.volume = LoadedVolume(ClaimFor(c))
     \/ /\ rec'.pc = "status" /\ rec'.reason # "CheckedOut"
        /\ rec'.claim.phase # "Bound"

(* ... and goes on with it until it ends. *)
Moved ==
  /\ rec.pc # "idle"
  /\ rec'.c = rec.c /\ rec'.source = rec.source /\ rec'.volume = rec.volume
  /\ rec'.reason \in {rec.reason, "Invalid"}
  /\ rec'.claim = rec.claim \/ PersistClaim
  /\ \/ LockClaim /\ rec.pc = "lockClaim" /\ rec'.pc = "lockVolume"
     \/ LockVolume /\ rec.pc = "lockVolume" /\ rec'.pc = "claim"
     \/ /\ PersistClaim /\ rec.pc = "claim" /\ rec'.pc = "volume"
        /\ rec'.claim = pvc'[Wanted]
     \/ /\ DropVolume /\ rec.pc = "dropVolume" /\ rec'.pc = "dropClaim"
        /\ rec'.reason = rec.reason
     \/ ~PersistClaim /\ rec'.pc = "status"

ReconcileStep ==
  \/ rec' = rec
  \/ rec'.pc = "idle"
  \/ \E c \in Checkouts : Started(c)
  \/ Moved

LEMMA LoadStarts ==
  ASSUME IInv, HandoverInv, NEW c \in Checkouts, Load(c)
  PROVE  rec' = rec \/ Started(c)
<1>0. UNCHANGED <<clusterVars, status>>
  BY DEF Load, LoadMissing, LoadConflict, LoadBound, LoadLocked, 
     LoadFromPool, LoadNotAvailable, LoadPoolDoesNotExist, 
     LoadWithoutVolume, Begin
<1>1. /\ Loaded(c) \in Recs
      /\ Loaded(c).pc = "lockClaim" /\ Loaded(c).c = c
      /\ Loaded(c).claim = pvcCache[ClaimFor(c)]
      /\ Loaded(c).source = LoadedVolume(LockedClaim(c))
      /\ Loaded(c).volume = LoadedVolume(ClaimFor(c))
      /\ Loaded(c).reason = "none"
  BY LoadedTypes DEF IInv, Loaded
<1>2. ~Exists(pvcCache[ClaimFor(c)]) => LoadedVolume(ClaimFor(c)) = NoVolume
  <2>1. SUFFICES ASSUME pvcCache[ClaimFor(c)] = NoPvc
                 PROVE  LoadedVolume(ClaimFor(c)) = NoVolume
    BY CheckoutAssumption 
       DEF HandoverInv, UserClaimsOK, AbsentIsZero, ClaimFor
  <2>2. NoPvc.vol \notin PvNames
    BY DEF NoPvc, NoVolume, PvNames, Source, Copy
  <2> QED BY <2>1, <2>2 DEF LoadedVolume
<1>3. ASSUME NEW l \in Recs, rec' = Configured(l),
             l.pc = "lockClaim", l.c = c, l.reason = "none",
             l.claim = pvcCache[ClaimFor(c)],
             l.volume = LoadedVolume(ClaimFor(c)),
             ~Conflicting(c), l.claim.phase # "Bound"
      PROVE  Started(c)
  <2>1. /\ rec'.pc = "lockClaim" /\ rec'.c = c /\ rec'.reason = "none"
        /\ rec'.claim = pvcCache[ClaimFor(c)] /\ rec'.source = l.source
    BY <1>3 DEF Configured, Recs
  <2>2. ASSUME NEW r \in Replicas, ~Exists(rec'.claim), 
               rec'.source = Source(r)
        PROVE  rec'.volume = Copy(r)
    <3>1. l.volume = NoVolume
      BY <1>2, <1>3, <2>1, <2>2
    <3>2. rec'.volume = Copy(l.source[2])
      BY <1>3, <3>1 DEF Configured, Recs
    <3>3. Source(r)[2] = r /\ l.source = Source(r)
      BY <2>1, <2>2 DEF Source
    <3> QED BY <3>2, <3>3
  <2> QED BY <1>0, <1>3, <2>1, <2>2 DEF Started, Done
<1>4. CASE LoadMissing(c)
  BY <1>4 DEF LoadMissing
<1>5. CASE LoadConflict(c)
  <2>1. /\ rec'.pc = "status" /\ rec'.c = c /\ rec'.reason = "Conflict"
        /\ rec'.claim = NoPvc
    BY <1>5 DEF LoadConflict, Idle
  <2> QED BY <1>0, <2>1 DEF Started, NoPvc
<1>6. CASE LoadBound(c)
  <2>1. /\ rec' = [Loaded(c) EXCEPT !.pc = "dropVolume", 
                                    !.reason = "CheckedOut"]
        /\ Done(c) /\ ~Conflicting(c)
    BY <1>1, <1>6 DEF LoadBound, Done
  <2> QED BY <1>0, <1>1, <2>1 DEF Started, Recs
<1>7. CASE LoadLocked(c)
  BY <1>1, <1>3, <1>7 DEF LoadLocked
<1>8. CASE LoadFromPool(c)
  <2>1. PICK r \in Replicas : 
          rec' = Configured([Loaded(c) EXCEPT
                    !.source = Source(r), !.sourceObj = pvCache[Source(r)]])
    BY <1>8 DEF LoadFromPool
  <2> DEFINE l == [Loaded(c) EXCEPT
                    !.source = Source(r), !.sourceObj = pvCache[Source(r)]]
  <2>2. /\ l \in Recs /\ l.pc = "lockClaim" /\ l.c = c
        /\ l.claim = pvcCache[ClaimFor(c)] /\ l.reason = "none"
        /\ l.volume = LoadedVolume(ClaimFor(c))
    <3>1. Source(r) \in PvNames /\ pvCache[Source(r)] \in Pvs
      BY NameTypes DEF IInv, TypeOK, ClusterTypeOK
    <3> QED BY <1>1, <3>1 DEF Recs
  <2>3. rec' = Configured(l)
    BY <2>1
  <2>4. ~Conflicting(c) /\ pvcCache[ClaimFor(c)].phase # "Bound"
    BY <1>1, <1>8 DEF LoadFromPool, NeedsPool
  <2> HIDE DEF l
  <2> QED BY <1>3, <2>2, <2>3, <2>4
<1>9. CASE LoadNotAvailable(c) \/ LoadPoolDoesNotExist(c)
  <2>1. PICK why \in {"NotAvailable", "PoolDoesNotExist"} :
          /\ rec' = [Loaded(c) EXCEPT !.pc = "status", !.reason = why,
                                      !.result = "error"]
          /\ Loaded(c).claim.phase # "Bound"
    BY <1>9 DEF LoadNotAvailable, LoadPoolDoesNotExist, LoadWithoutVolume,
       NeedsPool
  <2> QED BY <1>0, <1>1, <2>1 DEF Started, Recs
<1> QED BY <1>4, <1>5, <1>6, <1>7, <1>8, <1>9 DEF Load

LEMMA ReconcileSteps ==
  ASSUME IInv, HandoverInv, [Next]_vars
  PROVE  ReconcileStep
<1>0. rec \in Recs
  BY DEF IInv, TypeOK
<1>1. CASE UNCHANGED rec
  BY <1>1 DEF ReconcileStep
<1>2. ASSUME NEW c \in Checkouts, Load(c) PROVE ReconcileStep
  BY <1>2, LoadStarts DEF ReconcileStep
<1>3. CASE LockClaim
  BY <1>0, <1>3 DEF LockClaim, ReconcileStep, Moved, Recs
<1>4. CASE LockVolume
  BY <1>0, <1>4 DEF LockVolume, ReconcileStep, Moved, Recs
<1>5. CASE PersistClaim
  BY <1>0, <1>5 DEF PersistClaim, ReconcileStep, Moved, Recs
<1>6. CASE PersistVolume
  BY <1>0, <1>6 DEF PersistVolume, PersistClaim, ReconcileStep, Moved, Recs
<1>7. ASSUME NEW why \in {rec.reason, "Invalid"}, Abandon(why), 
             rec.pc # "idle"
      PROVE  ReconcileStep
  <2>1. rec'.pc = "status"
    BY <1>0, <1>7 DEF Abandon, Recs
  <2>2. ~PersistClaim
    BY <1>0, <2>1 DEF PersistClaim, Recs
  <2> QED BY <1>0, <1>7, <2>1, <2>2 DEF Abandon, ReconcileStep, Moved, Recs
<1>8. CASE InvalidClaim \/ WriteFails
  BY <1>7, <1>8 DEF InvalidClaim, WriteFails
<1>9. CASE DropVolume
  BY <1>0, <1>9 DEF DropVolume, Goto, ReconcileStep, Moved, Recs
<1>10. CASE DropClaim
  BY <1>0, <1>10 DEF DropClaim, PersistClaim, Goto, ReconcileStep, Moved, Recs
<1>11. CASE WriteStatus \/ StatusFails \/ Crash
  BY <1>11 DEF WriteStatus, StatusFails, Crash, Idle, ReconcileStep
<1>12. CASE SyncPvc \/ SyncPv
  BY <1>1, <1>12 DEF SyncPvc, SyncPv, ctlVars
<1>13. CASE Platform
  BY <1>1, <1>13 DEF Platform, Collect, ReclaimInSteps, ctlVars
<1>14. CASE Environment
  BY <1>1, <1>14 DEF Environment, CreatePool, PoolStock, PoolDiscard, 
     UserDeletesClaim, UserDeletesCheckout, UserEditsCheckout, Resync,
     ctlVars
<1>15. CASE UNCHANGED vars
  BY <1>1, <1>15 DEF vars, ctlVars
<1> QED BY <1>2, <1>3, <1>4, <1>5, <1>6, <1>8, <1>9, <1>10, <1>11, <1>12,
           <1>13, <1>14, <1>15 DEF Next, Write, Fail

LEMMA CacheSteps ==
  ASSUME [Next]_vars
  PROVE  pvcCache' \in {pvcCache, pvc} /\ pvCache' \in {pvCache, pv}
<1>1. CASE UNCHANGED <<pvcCache, pvCache>>
  BY <1>1
<1>2. CASE UNCHANGED vars
  BY <1>1, <1>2 DEF vars, clusterVars
<1>3. ASSUME NEW c \in Checkouts, Load(c) PROVE UNCHANGED <<pvcCache, pvCache>>
  BY <1>3 DEF Load, LoadMissing, LoadConflict, LoadBound, LoadLocked, 
     LoadFromPool, LoadNotAvailable, LoadPoolDoesNotExist, 
     LoadWithoutVolume, Begin, clusterVars
<1>4. CASE Write \/ Fail
  BY <1>1, <1>4 DEF Write, Fail, LockClaim, LockVolume, PersistClaim, 
     PersistVolume, InvalidClaim, DropVolume, DropClaim, WriteStatus, 
     WriteFails, StatusFails, Persisting, caches, clusterVars
<1>5. CASE SyncPvc \/ SyncPv \/ Crash
  BY <1>5 DEF SyncPvc, SyncPv, Crash
<1>6. CASE Platform
  BY <1>1, <1>6 DEF Platform, VolumeController, Collect, DeleteClaim, Bind, 
     LoseClaim, RemoveClaim, Release, Reclaim, RemoveVolume, 
     ReclaimInSteps, DestroyStorage, DeleteDestroyed, caches
<1>7. CASE Environment
  BY <1>1, <1>7 DEF Environment, CreatePool, PoolStock, PoolDiscard, 
     UserDeletesClaim, UserDeletesCheckout, UserEditsCheckout, Resync,
     DeleteClaim, caches, clusterVars
<1> QED BY <1>1, <1>2, <1>3, <1>4, <1>5, <1>6, <1>7 DEF Next

LEMMA StatusSteps ==
  ASSUME TypeOK, NoDeletions, [Next]_vars
  PROVE  /\ UNCHANGED checkouts
         /\ \/ UNCHANGED status 
            \/ /\ rec.pc = "status" /\ rec'.pc = "idle"
               /\ status' = [status EXCEPT ![rec.c] = NewStatus]
<1>1. CASE UNCHANGED <<checkouts, status>>
  BY <1>1
<1>2. CASE UNCHANGED vars
  BY <1>1, <1>2 DEF vars, ctlVars
<1>3. ASSUME NEW c \in Checkouts, Load(c) 
      PROVE  UNCHANGED <<checkouts, status>>
  BY <1>3 DEF Load, LoadMissing, LoadConflict, LoadBound, LoadLocked, 
     LoadFromPool, LoadNotAvailable, LoadPoolDoesNotExist, 
     LoadWithoutVolume, Begin
<1>4. CASE WriteStatus
  BY <1>4 DEF WriteStatus, Idle
<1>5. CASE LockClaim \/ LockVolume \/ PersistClaim \/ PersistVolume
             \/ InvalidClaim \/ DropVolume \/ DropClaim \/ Fail
  BY <1>1, <1>5 DEF Fail, LockClaim, LockVolume, PersistClaim, 
     PersistVolume, InvalidClaim, DropVolume, DropClaim, 
     WriteFails, StatusFails, Persisting
<1>6. CASE SyncPvc \/ SyncPv \/ Crash
  BY <1>1, <1>6 DEF SyncPvc, SyncPv, Crash, ctlVars
<1>7. CASE Platform
  BY <1>1, <1>7 DEF Platform, Collect, ReclaimInSteps, ctlVars
<1>8. CASE Environment
  BY <1>1, <1>8 DEF Environment, CreatePool, PoolStock, PoolDiscard, 
     UserDeletesClaim, UserDeletesCheckout, UserEditsCheckout, Resync,
     NoDeletions, ctlVars
<1> QED BY <1>1, <1>2, <1>3, <1>4, <1>5, <1>6, <1>7, <1>8 DEF Next, Write

LEMMA UidSteps ==
  ASSUME TypeOK, [Next]_vars, NEW r \in Replicas
  PROVE  \/ uids'[PoolClaim(r)] = uids[PoolClaim(r)]
         \/ /\ PoolStock(r) /\ Exists(pv'[Source(r)]) 
            /\ uids'[PoolClaim(r)] = 1
<1>0. uids \in [PvcNames -> Nat] /\ PoolClaim(r) \in PvcNames
  BY NameTypes DEF TypeOK, ClusterTypeOK
<1>1. CASE UNCHANGED uids
  BY <1>1
<1>2. CASE UNCHANGED vars
  BY <1>2 DEF vars, clusterVars
<1>3. ASSUME NEW c \in Checkouts, Load(c) PROVE UNCHANGED uids
  BY <1>3 DEF Load, LoadMissing, LoadConflict, LoadBound, LoadLocked, 
     LoadFromPool, LoadNotAvailable, LoadPoolDoesNotExist, 
     LoadWithoutVolume, Begin, clusterVars
<1>4. CASE LockClaim \/ PersistClaim
  <2>1. /\ PoolClaim(r) # Locked /\ PoolClaim(r) # Wanted
    BY DEF PoolClaim, Locked, Wanted, LockedClaim, ClaimFor, UserClaim
  <2> QED BY <1>0, <1>4, <2>1 DEF LockClaim, PersistClaim, SaveClaim,
             CreateClaim, UpdateClaim
<1>5. CASE LockVolume \/ PersistVolume \/ InvalidClaim \/ DropVolume
             \/ DropClaim \/ WriteStatus \/ Fail
  BY <1>1, <1>5 DEF Fail, LockVolume, PersistVolume, InvalidClaim, 
     DropVolume, DropClaim, WriteStatus, WriteFails, StatusFails, 
     Persisting, clusterVars
<1>6. CASE SyncPvc \/ SyncPv \/ Crash
  BY <1>1, <1>6 DEF SyncPvc, SyncPv, Crash
<1>7. CASE Platform
  BY <1>1, <1>7 DEF Platform, VolumeController, Collect, DeleteClaim, Bind, 
     LoseClaim, RemoveClaim, Release, Reclaim, RemoveVolume, 
     ReclaimInSteps, DestroyStorage, DeleteDestroyed
<1>8. ASSUME NEW s \in Replicas, PoolStock(s)
      PROVE  \/ uids'[PoolClaim(r)] = uids[PoolClaim(r)]
             \/ /\ PoolStock(r) /\ Exists(pv'[Source(r)]) 
                /\ uids'[PoolClaim(r)] = 1
  <2>1. CASE s = r
    <3>1. uids'[PoolClaim(r)] = 1
      BY <1>0, <1>8, <2>1 DEF PoolStock
    <3>2. Exists(pv'[Source(r)])
      <4>1. pv \in [PvNames -> Pvs] /\ Source(r) \in PvNames
        BY NameTypes DEF TypeOK, ClusterTypeOK
      <4>2. pv'[Source(r)].meta = "live"
        BY <1>8, <2>1, <4>1 DEF PoolStock
      <4> QED BY <4>2 DEF Exists
    <3>3. PoolStock(r)
      BY <1>8, <2>1 DEF PoolStock
    <3> QED BY <3>1, <3>2, <3>3
  <2>2. CASE s # r
    <3>1. PoolClaim(s) # PoolClaim(r)
      BY <2>2 DEF PoolClaim
    <3> QED BY <1>0, <1>8, <3>1 DEF PoolStock
  <2> QED BY <2>1, <2>2
<1>9. CASE Environment
  BY <1>1, <1>8, <1>9 DEF Environment, CreatePool, PoolDiscard, 
     UserDeletesClaim, UserDeletesCheckout, UserEditsCheckout, Resync,
     DeleteClaim, clusterVars
<1> QED BY <1>2, <1>3, <1>4, <1>5, <1>6, <1>7, <1>9 DEF Next, Write

-----------------------------------------------------------------------------
(* What is stable *)

LEMMA UserClaimOf ==
  ASSUME NEW c \in Checkouts
  PROVE  ClaimOf[c] \in ClaimNames /\ ClaimFor(c) = UserClaim(ClaimOf[c])
BY CheckoutAssumption DEF ClaimFor

LEMMA CopyNames == 
  ASSUME NEW x, Copy(x) \in PvNames
  PROVE  x \in Replicas
BY DEF PvNames, Copy, Source

(* A completed pre-bind of a user's claim stays. *)
LEMMA CrossReferenceKept ==
  ASSUME IInv, HandoverInv, [Next]_vars, NEW n \in ClaimNames,
         NEW r \in Replicas, CrossReferenced(UserClaim(n), Copy(r))
  PROVE  CrossReferenced(UserClaim(n), Copy(r))'
<1>1. UserClaimStep(n) /\ CopyStep(r)
  BY UserClaimSteps, CopySteps
<1> QED BY <1>1 
        DEF UserClaimStep, CopyStep, CrossReferenced, RefersTo, Exists

(* What is handed out stays so, and stays reported. *)
LEMMA HandedOutKept ==
  ASSUME IInv, HandoverInv, [Next]_vars, NEW c \in Checkouts, NEW r, 
         HandedOut(c, r)
  PROVE  r \in Replicas /\ HandedOut(c, r)'
<1>1. r \in Replicas
  BY CopyNames DEF HandedOut, Holds, CrossReferenced
<1>2. CrossReferenced(ClaimFor(c), Copy(r))'
  BY <1>1, UserClaimOf, CrossReferenceKept DEF HandedOut, Holds, ClaimFor
<1>3. pvc'[ClaimFor(c)].phase = "Bound"
  <2>1. UserClaimStep(ClaimOf[c])
    BY UserClaimOf, UserClaimSteps
  <2> QED BY <2>1, UserClaimOf 
          DEF UserClaimStep, HandedOut, Holds, CrossReferenced
<1> QED BY <1>1, <1>2, <1>3 DEF HandedOut, Holds

(* A claim stays as it is; a new one is made by claim, over the copy that  *)
(* the reconcile chose.                                                    *)
LEMMA HasClaimKept ==
  ASSUME IInv, HandoverInv, [Next]_vars, NEW c \in Checkouts
  PROVE  /\ HasClaim(c) => 
              /\ HasClaim(c)' 
              /\ pvc'[ClaimFor(c)].vol = pvc[ClaimFor(c)].vol
              /\ pvc'[ClaimFor(c)].uid = pvc[ClaimFor(c)].uid
         /\ HasClaim(c)' /\ ~HasClaim(c) => 
              /\ PersistClaim /\ rec.c = c /\ ~Exists(rec.claim)
              /\ pvc'[ClaimFor(c)].vol = rec.volume
<1>1. UserClaimStep(ClaimOf[c]) /\ ClaimFor(c) = UserClaim(ClaimOf[c])
  BY UserClaimOf, UserClaimSteps
<1>2. ~Exists(pvc[ClaimFor(c)]) => pvc[ClaimFor(c)] = NoPvc
  BY UserClaimOf DEF HandoverInv, UserClaimsOK, AbsentIsZero
<1> QED BY <1>1, <1>2 DEF UserClaimStep, HasClaim, Exists, NoPvc

LEMMA ReportedKept ==
  ASSUME IInv, HandoverInv, [Next]_vars, NEW c \in Checkouts, Reported(c)
  PROVE  Reported(c)'
<1>1. PICK r \in Replicas : HandedOut(c, r) /\ pvc[ClaimFor(c)].owner = c
  BY DEF Reported
<1>2. HasClaim(c)
  BY <1>1 DEF HasClaim, HandedOut, Holds, CrossReferenced
<1>3. HandedOut(c, r)' /\ HasClaim(c)'
  BY <1>1, <1>2, HandedOutKept, HasClaimKept
<1> QED BY <1>3 DEF Reported, HasClaim

(* A claim that the cache shows bound is bound, to a copy that names it. *)
LEMMA DoneBound ==
  ASSUME HandoverInv, NEW c \in Checkouts, Done(c)
  PROVE  /\ Exists(pvcCache[ClaimFor(c)]) /\ Exists(pvc[ClaimFor(c)])
         /\ pvc[ClaimFor(c)].phase = "Bound"
         /\ pvc[ClaimFor(c)].owner = pvcCache[ClaimFor(c)].owner
         /\ pvc[ClaimFor(c)].vol = pvcCache[ClaimFor(c)].vol
         /\ \E r \in Replicas : 
              pvc[ClaimFor(c)].vol = Copy(r) /\ HandedOut(c, r)
<1>1. /\ ~Exists(pvcCache[ClaimFor(c)]) => pvcCache[ClaimFor(c)] = NoPvc
      /\ Older(pvcCache[ClaimFor(c)], pvc[ClaimFor(c)])
      /\ Exists(pvc[ClaimFor(c)]) => pvc[ClaimFor(c)].vol \in Copies
      /\ pvc[ClaimFor(c)].phase = "Bound" => 
           CrossReferenced(ClaimFor(c), pvc[ClaimFor(c)].vol)
  BY UserClaimOf DEF HandoverInv, UserClaimsOK, AbsentIsZero
<1>2. Exists(pvcCache[ClaimFor(c)])
  BY <1>1 DEF Done, NoPvc
<1>3. /\ Exists(pvc[ClaimFor(c)]) /\ pvc[ClaimFor(c)].phase = "Bound"
      /\ pvc[ClaimFor(c)].owner = pvcCache[ClaimFor(c)].owner
      /\ pvc[ClaimFor(c)].vol = pvcCache[ClaimFor(c)].vol
  BY <1>1, <1>2 DEF Done, Older
<1>4. PICK r \in Replicas : pvc[ClaimFor(c)].vol = Copy(r)
  BY <1>1, <1>3 DEF Copies
<1> QED BY <1>1, <1>2, <1>3, <1>4 DEF HandedOut, Holds

LEMMA DoneKept ==
  ASSUME IInv, HandoverInv, [Next]_vars, NEW c \in Checkouts, Done(c)
  PROVE  Done(c)'
<1>1. pvcCache' \in {pvcCache, pvc}
  BY CacheSteps
<1> QED BY <1>1, DoneBound DEF Done

(* A finished checkout never locks again. *)
LEMMA FinishedKept ==
  ASSUME IInv, HandoverInv, [Next]_vars, NEW c \in Checkouts, Finished(c)
  PROVE  Finished(c)'
<1>1. Done(c)'
  BY DoneKept DEF Finished
<1>2. ~LocksFor(c)'
  <2>1. SUFFICES ASSUME rec'.c = c, rec'.pc \in Locking PROVE FALSE
    BY DEF LocksFor
  <2>2. ~(rec.c = c /\ rec.pc \in Locking) /\ Done(c)
    BY DEF Finished, LocksFor
  <2>3. rec' # rec /\ rec'.pc # "idle"
    BY <2>1, <2>2 DEF Locking
  <2>4. \A d \in Checkouts : ~Started(d)
    BY <2>1, <2>2 DEF Started, Locking
  <2>5. Moved
    BY <2>3, <2>4, ReconcileSteps DEF ReconcileStep
  <2> QED BY <2>1, <2>2, <2>5 DEF Moved, Locking
<1> QED BY <1>1, <1>2 DEF Finished

(* A locked claim stays over its source until its checkout is finished; a  *)
(* new one is made by lockClaim, over the reconcile's source.              *)
LEMMA HasLockKept ==
  ASSUME IInv, HandoverInv, [Next]_vars, NEW c \in Checkouts
  PROVE  /\ HasLock(c) => HasLock(c)' \/ Finished(c)
         /\ HasLock(c) /\ HasLock(c)' => 
              pvc'[LockedClaim(c)].vol = pvc[LockedClaim(c)].vol
         /\ HasLock(c)' /\ ~HasLock(c) => 
              /\ LocksFor(c) /\ LockClaim
              /\ pvc'[LockedClaim(c)].vol = rec.source
         /\ pvc'[LockedClaim(c)].meta = "terminating" => Finished(c)
<1>1. LockedClaimStep(c)
  BY LockedClaimSteps
<1>2. pvc[LockedClaim(c)].meta = "terminating" => Finished(c)
  BY DEF HandoverInv, LocksOK
<1>3. DropClaim /\ rec.c = c => Finished(c)
  BY DEF DropClaim, HandoverInv, ReportsOK, Finished, LocksFor, Locking
<1>4. LockClaim /\ rec.c = c => LocksFor(c)
  BY DEF LockClaim, LocksFor, Locking
<1> QED BY <1>1, <1>2, <1>3, <1>4 DEF LockedClaimStep, HasLock, Exists

(* lockClaim and claim succeed only if the claim is there and names what   *)
(* the reconcile wants it to name.                                         *)
LEMMA LockClaimHolds ==
  ASSUME IInv, LockClaim
  PROVE  HasLock(rec.c)' /\ pvc'[Locked].vol = rec.source
<1>1. /\ TypeOK /\ pvc \in [PvcNames -> Pvcs] /\ Locked \in PvcNames
      /\ SaveClaim(Locked, rec.lockedClaim, rec.source)
  BY RecTypes DEF IInv, TypeOK, ClusterTypeOK, LockClaim
<1>2. pvc'[Locked].vol = rec.source
  BY <1>1, ClaimWritten
<1>3. Exists(pvc'[Locked])
  <2>1. CASE CreateClaim(Locked, rec.c, rec.source)
    BY <1>1, <2>1 DEF CreateClaim, NewPvc, Exists
  <2>2. CASE /\ Exists(rec.lockedClaim)
             /\ UpdateClaim(Locked, rec.lockedClaim, rec.source)
    BY <1>1, <2>2 DEF UpdateClaim, Exists, Pvcs
  <2> QED BY <1>1, <2>1, <2>2 DEF SaveClaim
<1>4. rec'.c = rec.c
  BY DEF LockClaim, IInv, TypeOK, Recs
<1> QED BY <1>2, <1>3, <1>4 DEF HasLock, Locked

LEMMA PersistClaimHolds ==
  ASSUME IInv, HandoverInv, PersistClaim
  PROVE  /\ Exists(pvc'[Wanted]) /\ pvc'[Wanted].owner = rec.c
         /\ pvc'[Wanted].phase # "Bound"
<1>1. /\ TypeOK /\ pvc \in [PvcNames -> Pvcs] /\ Wanted \in PvcNames
      /\ SaveClaim(Wanted, rec.claim, rec.volume)
  BY RecTypes DEF IInv, TypeOK, ClusterTypeOK, PersistClaim
<1>2. /\ rec.claim.phase # "Bound"
      /\ Exists(rec.claim) => rec.claim.owner = rec.c
  BY DEF HandoverInv, ReconcileOK, PersistClaim, Locking
<1>3. CASE CreateClaim(Wanted, rec.c, rec.volume)
  BY <1>1, <1>3 DEF CreateClaim, NewPvc, Exists
<1>4. CASE /\ Exists(rec.claim)
           /\ UpdateClaim(Wanted, rec.claim, rec.volume)
  BY <1>1, <1>2, <1>4 DEF UpdateClaim, Exists, Pvcs
<1> QED BY <1>1, <1>3, <1>4 DEF SaveClaim

(* A source never comes back. *)
LEMMA SourceGone ==
  ASSUME IInv, HandoverInv, [Next]_vars, NEW r \in Replicas,
         uids[PoolClaim(r)] # 0
  PROVE  /\ uids'[PoolClaim(r)] # 0
         /\ Exists(pv'[Source(r)]) => Exists(pv[Source(r)])
<1>1. SourceStep(r) /\ ~PoolStock(r)
  BY SourceSteps DEF PoolStock
<1>2. uids'[PoolClaim(r)] = uids[PoolClaim(r)]
  BY <1>1, UidSteps DEF IInv
<1> QED BY <1>1, <1>2 DEF SourceStep

-----------------------------------------------------------------------------
(* The invariant is inductive, part by part *)

LEMMA OlderTrans ==
  \A o, p, q : Older(o, p) /\ Older(p, q) => Older(o, q)
BY DEF Older

LEMMA UserClaimsStep ==
  ASSUME IInv, HandoverInv, [Next]_vars
  PROVE  UserClaimsOK'
<1>1. ASSUME NEW n \in ClaimNames
      PROVE  LET o == pvc[UserClaim(n)]
                 p == pvc'[UserClaim(n)] IN
             /\ ~Exists(p) => p = NoPvc
             /\ p.meta # "terminating"
             /\ Exists(p) => p.vol \in Copies
             /\ p.phase = "Bound" => 
                  CrossReferenced(UserClaim(n), pvc[UserClaim(n)].vol)'
             /\ Older(o, p)
  <2> DEFINE o == pvc[UserClaim(n)]
             p == pvc'[UserClaim(n)]
  <2>1. UserClaimStep(n)
    BY UserClaimSteps
  <2>2. /\ ~Exists(o) => o = NoPvc
        /\ o.meta # "terminating"
        /\ Exists(o) => o.vol \in Copies
        /\ o.phase = "Bound" => CrossReferenced(UserClaim(n), o.vol)
    BY DEF HandoverInv, UserClaimsOK, AbsentIsZero
  <2>3. CASE Exists(o)
    <3>1. /\ p.meta = o.meta /\ p.uid = o.uid /\ p.vol = o.vol
          /\ p.owner = o.owner /\ Exists(p)
          /\ p.phase # o.phase => 
               p.phase = "Bound" /\ CrossReferenced(UserClaim(n), o.vol)
      BY <2>1, <2>3 DEF UserClaimStep, Exists
    <3>2. PICK r \in Replicas : o.vol = Copy(r)
      BY <2>2, <2>3 DEF Copies
    <3>3. p.phase = "Bound" => CrossReferenced(UserClaim(n), Copy(r))
      BY <2>2, <3>1, <3>2
    <3>4. p.phase = "Bound" => CrossReferenced(UserClaim(n), Copy(r))'
      BY <3>3, CrossReferenceKept
    <3>5. p.phase = "Bound" => 
            CrossReferenced(UserClaim(n), pvc[UserClaim(n)].vol)'
      BY <3>1, <3>2, <3>4 DEF CrossReferenced
    <3>6. Older(o, p)
      BY <3>1 DEF Older
    <3> QED BY <2>2, <2>3, <3>1, <3>5, <3>6
  <2>4. CASE ~Exists(o)
    <3>1. \/ p = NoPvc
          \/ /\ PersistClaim
             /\ p.meta = "live" /\ p.vol = rec.volume /\ p.phase = "Pending"
      BY <2>1, <2>2, <2>4 DEF UserClaimStep
    <3>2. PersistClaim => rec.volume \in Copies
      BY DEF PersistClaim, IInv, LoadedOK, Locking
    <3> QED BY <2>4, <3>1, <3>2 DEF NoPvc, Exists, Older
  <2> QED BY <2>3, <2>4
<1>2. pvcCache' \in {pvcCache, pvc}
  BY CacheSteps
<1>3. ASSUME NEW n \in ClaimNames
      PROVE  /\ ~Exists(pvcCache'[UserClaim(n)]) => 
                  pvcCache'[UserClaim(n)] = NoPvc
             /\ Older(pvcCache'[UserClaim(n)], pvc'[UserClaim(n)])
  <2>1. /\ ~Exists(pvc[UserClaim(n)]) => pvc[UserClaim(n)] = NoPvc
        /\ ~Exists(pvcCache[UserClaim(n)]) => pvcCache[UserClaim(n)] = NoPvc
        /\ Older(pvcCache[UserClaim(n)], pvc[UserClaim(n)])
    BY DEF HandoverInv, UserClaimsOK, AbsentIsZero
  <2>2. /\ ~Exists(pvc'[UserClaim(n)]) => pvc'[UserClaim(n)] = NoPvc
        /\ Older(pvc[UserClaim(n)], pvc'[UserClaim(n)])
    BY <1>1
  <2>3. CASE pvcCache' = pvcCache
    BY <2>1, <2>2, <2>3, OlderTrans
  <2>4. CASE pvcCache' = pvc
    BY <2>1, <2>2, <2>4
  <2> QED BY <1>2, <2>3, <2>4
<1> QED BY <1>1, <1>3 DEF UserClaimsOK, AbsentIsZero

(* lockVolume repeated on a source whose copy exists: it was locked by the *)
(* same checkout.                                                          *)
(* Only the checkout that holds a source with a copy can lock it again. *)
LEMMA LockAgain ==
  ASSUME IInv, LockVolume, NEW r \in Replicas, rec.source = Source(r), 
         Exists(pv[Copy(r)])
  PROVE  LockedBy(r, rec.c)
<1>1. PICK s \in Replicas :
        /\ rec.source = Source(s) /\ Exists(rec.sourceObj)
        /\ Pooled(s, rec.sourceObj) \/ Taken(rec.c, rec.sourceObj)
  BY DEF LockVolume, IInv, LoadedOK, Locking
<1>2. s = r /\ pv[Source(r)] = rec.sourceObj
  BY <1>1, NamesDiffer DEF LockVolume, PutVolume
<1>3. PICK c \in Checkouts : LockedBy(r, c)
  BY <1>1, <1>2 DEF IInv, ExclusiveStorage
<1>4. ~Pooled(r, rec.sourceObj)
  BY <1>2, <1>3, ClaimNamesDiffer DEF LockedBy, Pooled
<1> QED BY <1>1, <1>2, <1>4 DEF LockedBy, Taken

LEMMA CopiesStep ==
  ASSUME IInv, HandoverInv, [Next]_vars
  PROVE  CopiesHeld'
<1> SUFFICES ASSUME NEW r \in Replicas, Exists(pv'[Copy(r)])
             PROVE  /\ pv'[Copy(r)].meta = "live"
                    /\ \E n \in ClaimNames : 
                         /\ Exists(pvc'[UserClaim(n)])
                         /\ RefersTo(pv'[Copy(r)], UserClaim(n), 
                                     pvc'[UserClaim(n)].uid)
                         /\ \A c \in Checkouts : 
                              LockedBy(r, c)' => pvc'[UserClaim(n)].owner = c
  BY DEF CopiesHeld
<1>1. CopyStep(r) /\ SourceStep(r)
  BY CopySteps, SourceSteps
<1>2. CASE Exists(pv[Copy(r)])
  <2>1. PICK n \in ClaimNames :
          /\ Exists(pvc[UserClaim(n)])
          /\ RefersTo(pv[Copy(r)], UserClaim(n), pvc[UserClaim(n)].uid)
          /\ \A c \in Checkouts : 
               LockedBy(r, c) => pvc[UserClaim(n)].owner = c
    BY <1>2 DEF HandoverInv, CopiesHeld
  <2>2. /\ Exists(pvc'[UserClaim(n)])
        /\ pvc'[UserClaim(n)].uid = pvc[UserClaim(n)].uid
        /\ pvc'[UserClaim(n)].owner = pvc[UserClaim(n)].owner
    BY <2>1, UserClaimSteps DEF UserClaimStep, Exists
  <2>3. /\ pv'[Copy(r)].meta = "live"
        /\ RefersTo(pv'[Copy(r)], UserClaim(n), pvc[UserClaim(n)].uid)
    BY <1>1, <1>2, <2>1 DEF CopyStep, RefersTo, HandoverInv, CopiesHeld
  <2>4. ASSUME NEW c \in Checkouts, LockedBy(r, c)' PROVE LockedBy(r, c)
    BY <1>1, <1>2, <2>4, LockAgain DEF SourceStep
  <2> QED BY <2>1, <2>2, <2>3, <2>4
<1>3. CASE ~Exists(pv[Copy(r)])
  <2>1. /\ PersistVolume /\ rec.source = Source(r)
        /\ pv'[Copy(r)].meta = "live"
        /\ pv'[Copy(r)].ref.claim = Wanted 
        /\ pv'[Copy(r)].ref.uid = rec.claim.uid
    BY <1>1, <1>3 DEF CopyStep
  <2>2. /\ HasClaim(rec.c) /\ pvc[Wanted].uid = rec.claim.uid
        /\ rec.c \in Checkouts
    BY <2>1 DEF PersistVolume, HandoverInv, ReconcileOK, IInv, TypeOK
  <2>3. pvc' = pvc
    BY <2>1 DEF PersistVolume
  <2>4. ASSUME NEW c \in Checkouts, LockedBy(r, c)' PROVE c = rec.c
    <3>1. ~LockVolume
      BY <2>1 DEF PersistVolume, LockVolume
    <3>2. LockedBy(r, c)
      BY <1>1, <2>4, <3>1 DEF SourceStep
    <3>3. LockedBy(r, rec.c)
      BY <2>1, <3>2 DEF PersistVolume, IInv, LockHeld, PastLock, LockedBy
    <3> QED BY <2>2, <3>2, <3>3, ClaimNamesDiffer DEF LockedBy
  <2>5. ClaimOf[rec.c] \in ClaimNames /\ UserClaim(ClaimOf[rec.c]) = Wanted
    BY <2>2, UserClaimOf DEF Wanted
  <2> QED BY <2>1, <2>2, <2>3, <2>4, <2>5 DEF RefersTo, HasClaim, Wanted
<1> QED BY <1>2, <1>3

LEMMA DestroyedStep ==
  ASSUME IInv, HandoverInv, [Next]_vars
  PROVE  DestroyedInPool'
<1> SUFFICES ASSUME NEW r \in Replicas, r \in destroyed'
             PROVE  /\ uids'[PoolClaim(r)] # 0
                    /\ ~Exists(pv'[Source(r)]) /\ ~Exists(pv'[Copy(r)])
                    /\ rec'.pc \in PastLock => rec'.source # Source(r)
  <2>1. destroyed' \subseteq Replicas
    BY TypeStep DEF IInv, TypeOK, ClusterTypeOK
  <2> QED BY <2>1 DEF DestroyedInPool
<1>1. CopyStep(r) /\ SourceStep(r) /\ ReconcileStep
  BY CopySteps, SourceSteps, ReconcileSteps
<1>2. /\ uids[PoolClaim(r)] # 0
      /\ ~Exists(pv[Copy(r)]) /\ ~Exists(pv'[Source(r)])
      /\ rec.pc \in PastLock => rec.source # Source(r)
  <2>1. CASE r \in destroyed
    <3>1. /\ uids[PoolClaim(r)] # 0
          /\ ~Exists(pv[Source(r)]) /\ ~Exists(pv[Copy(r)])
          /\ rec.pc \in PastLock => rec.source # Source(r)
      BY <2>1 DEF HandoverInv, DestroyedInPool
    <3> QED BY <3>1, SourceGone
  <2>2. CASE r \notin destroyed
    <3>1. /\ Exists(pv[Source(r)]) /\ ~Exists(pv'[Source(r)]) 
          /\ Pooled(r, pv[Source(r)])
      BY <1>1, <2>2 DEF SourceStep
    <3>2. \A c \in Checkouts : ~LockedBy(r, c)
      BY <3>1, ClaimNamesDiffer DEF Pooled, LockedBy
    <3>3. uids[PoolClaim(r)] # 0
      BY <3>1 DEF IInv, NotYetMade
    <3>4. ~Exists(pv[Copy(r)])
      BY <3>1, <3>2 DEF IInv, ExclusiveStorage
    <3>5. rec.pc \in PastLock => rec.source # Source(r)
      <4>1. rec.pc \in PastLock => rec.c \in Checkouts
        BY DEF IInv, TypeOK, PastLock
      <4> QED BY <3>1, <3>2, <4>1 DEF IInv, LockHeld
    <3> QED BY <3>1, <3>3, <3>4, <3>5
  <2> QED BY <2>1, <2>2
<1>3. ~Exists(pv'[Copy(r)])
  BY <1>1, <1>2 DEF CopyStep, PersistVolume, PastLock
<1>4. uids'[PoolClaim(r)] # 0
  BY <1>2, SourceGone
<1>5. ASSUME LockVolume PROVE rec.source # Source(r)
  <2>1. UNCHANGED destroyed
    BY <1>5 DEF LockVolume, Persisting
  <2>2. ~Exists(pv[Source(r)])
    BY <2>1 DEF HandoverInv, DestroyedInPool
  <2>3. Exists(pv[rec.source])
    BY <1>5 DEF LockVolume, PutVolume, IInv, LoadedOK, Locking
  <2> QED BY <2>2, <2>3
<1>6. rec'.pc \in PastLock => rec'.source # Source(r)
  BY <1>1, <1>2, <1>5 DEF ReconcileStep, Started, Moved, PastLock
<1> QED BY <1>2, <1>3, <1>4, <1>6

LEMMA LocksStep ==
  ASSUME IInv, HandoverInv, [Next]_vars
  PROVE  LocksOK' /\ OneVolumePerCheckout'
<1>1. ASSUME NEW c \in Checkouts
      PROVE  /\ pvc'[LockedClaim(c)].meta = "terminating" => Finished(c)'
             /\ HasLock(c)' => pvc'[LockedClaim(c)].vol \in Sources
             /\ HasClaim(c)' => HasLock(c)' \/ Finished(c)'
  <2>1. /\ HasLock(c) => pvc[LockedClaim(c)].vol \in Sources
        /\ HasClaim(c) => HasLock(c) \/ Finished(c)
    BY DEF HandoverInv, LocksOK
  <2>2. pvc'[LockedClaim(c)].meta = "terminating" => Finished(c)'
    BY HasLockKept, FinishedKept
  <2>3. LockClaim => rec.source \in Sources
    BY DEF LockClaim, IInv, LoadedOK, Locking, Sources
  <2>4. HasLock(c)' => pvc'[LockedClaim(c)].vol \in Sources
    BY <2>1, <2>3, HasLockKept
  <2>5. PersistClaim /\ rec.c = c => HasLock(c) /\ ~Finished(c)
    BY DEF PersistClaim, HandoverInv, HoldsLock, Locking, Finished, LocksFor
  <2>6. HasClaim(c)' => HasLock(c)' \/ Finished(c)'
    BY <2>1, <2>5, HasLockKept, HasClaimKept, FinishedKept
  <2> QED BY <2>2, <2>4, <2>6
<1>2. ASSUME NEW c \in Checkouts, NEW r \in Replicas, LockedBy(r, c)
      PROVE  \/ HasLock(c) /\ pvc[LockedClaim(c)].vol = Source(r)
             \/ Finished(c)
  BY <1>2 DEF HandoverInv, LocksOK
<1>3. ASSUME NEW c \in Checkouts, rec.c = c, 
             rec.pc \in Locking \ {"lockClaim"}
      PROVE  /\ HasLock(c) /\ ~Finished(c)
             /\ pvc[LockedClaim(c)].vol = rec.source
  BY <1>3 DEF HandoverInv, HoldsLock, Finished, LocksFor, Locked
<1>4. ASSUME NEW c \in Checkouts, NEW r \in Replicas, 
             LockedBy(r, c)', ~LockedBy(r, c)
      PROVE  LockVolume /\ rec.c = c /\ rec.source = Source(r)
               /\ HasLock(c) /\ ~Finished(c)
               /\ pvc[LockedClaim(c)].vol = Source(r)
  <2>1. LockVolume /\ rec.c = c /\ rec.source = Source(r)
    BY <1>4, SourceSteps DEF SourceStep
  <2> QED BY <1>3, <2>1 DEF LockVolume, Locking
<1>5. ASSUME NEW c \in Checkouts, NEW r \in Replicas, LockedBy(r, c)'
      PROVE  \/ HasLock(c)' /\ pvc'[LockedClaim(c)].vol = Source(r)
             \/ Finished(c)'
  BY <1>2, <1>4, <1>5, HasLockKept, FinishedKept
<1>6. ASSUME NEW c \in Checkouts, HasClaim(c)', ~HasClaim(c)
      PROVE  /\ PersistClaim /\ rec.c = c 
             /\ HasLock(c) /\ ~Finished(c)
             /\ \E s \in Replicas : 
                  /\ pvc[LockedClaim(c)].vol = Source(s)
                  /\ pvc'[ClaimFor(c)].vol = Copy(s)
  <2>1. /\ PersistClaim /\ rec.c = c /\ ~Exists(rec.claim)
        /\ pvc'[ClaimFor(c)].vol = rec.volume
    BY <1>6, HasClaimKept
  <2>2. PICK s \in Replicas : rec.source = Source(s)
    BY <2>1 DEF PersistClaim, IInv, LoadedOK, Locking
  <2>3. rec.volume = Copy(s)
    BY <2>1, <2>2 DEF PersistClaim, HandoverInv, ReconcileOK, Locking
  <2> QED BY <1>3, <2>1, <2>2, <2>3 DEF PersistClaim, Locking
<1>7. ASSUME NEW c \in Checkouts, NEW r \in Replicas
      PROVE  /\ LockedBy(r, c) /\ HasClaim(c) => 
                  pvc[ClaimFor(c)].vol = Copy(r)
             /\ HasLock(c) /\ HasClaim(c) => 
                  (pvc[LockedClaim(c)].vol = Source(r) 
                     <=> pvc[ClaimFor(c)].vol = Copy(r))
  BY DEF HandoverInv, LocksOK
<1>8. ASSUME NEW c \in Checkouts, NEW r \in Replicas, 
             LockedBy(r, c)', HasClaim(c)'
      PROVE  pvc'[ClaimFor(c)].vol = Copy(r)
  <2>1. CASE HasClaim(c) /\ LockedBy(r, c)
    BY <1>7, <2>1, HasClaimKept
  <2>2. CASE HasClaim(c) /\ ~LockedBy(r, c)
    BY <1>4, <1>7, <1>8, <2>2, HasClaimKept
  <2>3. CASE ~HasClaim(c)
    <3>1. PICK s \in Replicas : 
            /\ pvc[LockedClaim(c)].vol = Source(s)
            /\ pvc'[ClaimFor(c)].vol = Copy(s)
      BY <1>6, <1>8, <2>3
    <3>2. ~LockVolume /\ ~Finished(c)
      BY <1>6, <1>8, <2>3 DEF PersistClaim, LockVolume
    <3>3. pvc[LockedClaim(c)].vol = Source(r)
      BY <1>2, <1>4, <1>8, <3>2
    <3> QED BY <3>1, <3>3, NamesDiffer
  <2> QED BY <2>1, <2>2, <2>3
<1>9. ASSUME NEW c \in Checkouts, NEW r \in Replicas, 
             HasLock(c)', HasClaim(c)'
      PROVE  pvc'[LockedClaim(c)].vol = Source(r) 
               <=> pvc'[ClaimFor(c)].vol = Copy(r)
  <2>1. CASE HasLock(c) /\ HasClaim(c)
    BY <1>7, <1>9, <2>1, HasLockKept, HasClaimKept
  <2>2. CASE HasLock(c) /\ ~HasClaim(c)
    <3>1. PICK s \in Replicas : 
            /\ pvc[LockedClaim(c)].vol = Source(s)
            /\ pvc'[ClaimFor(c)].vol = Copy(s)
      BY <1>6, <1>9, <2>2
    <3> QED BY <1>9, <2>2, <3>1, HasLockKept, NamesDiffer
  <2>3. CASE ~HasLock(c)
    <3>1. LockClaim /\ LocksFor(c)
      BY <1>9, <2>3, HasLockKept
    <3>2. ~PersistClaim /\ ~Finished(c)
      BY <3>1 DEF LockClaim, PersistClaim, Finished
    <3>3. ~HasClaim(c)
      BY <2>3, <3>2 DEF HandoverInv, LocksOK
    <3> QED BY <1>9, <3>2, <3>3, HasClaimKept
  <2> QED BY <2>1, <2>2, <2>3
<1>10. LocksOK'
  BY <1>1, <1>5, <1>8, <1>9 DEF LocksOK
<1>11. ASSUME NEW c \in Checkouts, NEW r \in Replicas, NEW s \in Replicas,
              LockedBy(r, c)', LockedBy(s, c)'
       PROVE  r = s
  <2>1. CASE LockedBy(r, c) /\ LockedBy(s, c)
    BY <2>1 DEF HandoverInv, OneVolumePerCheckout
  <2>2. CASE ~LockedBy(r, c) 
    BY <1>2, <1>4, <1>11, <2>2, NamesDiffer
  <2>3. CASE ~LockedBy(s, c) 
    BY <1>2, <1>4, <1>11, <2>3, NamesDiffer
  <2> QED BY <2>1, <2>2, <2>3
<1> QED BY <1>10, <1>11 DEF OneVolumePerCheckout

LEMMA HoldsLockStep ==
  ASSUME IInv, HandoverInv, [Next]_vars
  PROVE  HoldsLock'
<1> SUFFICES ASSUME rec'.pc \in Locking \ {"lockClaim"}
             PROVE  HasLock(rec.c)' /\ pvc'[LockedClaim(rec'.c)].vol = rec'.source
  BY DEF HoldsLock, Locked
<1>1. CASE LockClaim
  <2>1. rec'.source = rec.source /\ rec'.c = rec.c
    BY <1>1 DEF LockClaim, IInv, TypeOK, Recs
  <2> QED BY <1>1, <2>1, LockClaimHolds DEF Locked
<1>2. CASE ~LockClaim
  <2>1. /\ rec.pc \in Locking \ {"lockClaim"}
        /\ rec'.c = rec.c /\ rec'.source = rec.source /\ rec.c \in Checkouts
    <3>1. ReconcileStep
      BY ReconcileSteps
    <3>2. \A c \in Checkouts : ~Started(c)
      BY DEF Started, Locking
    <3>3. rec.pc # "idle" => rec.c \in Checkouts
      BY DEF IInv, TypeOK
    <3> QED BY <1>2, <3>1, <3>2, <3>3 DEF ReconcileStep, Moved, Locking
  <2>2. /\ HasLock(rec.c) /\ ~Finished(rec.c)
        /\ pvc[LockedClaim(rec.c)].vol = rec.source
    BY <2>1 DEF HandoverInv, HoldsLock, Locked, Finished, LocksFor
  <2>3. /\ HasLock(rec'.c)
        /\ Exists(pvc'[LockedClaim(rec'.c)])
        /\ pvc'[LockedClaim(rec'.c)].vol = rec.source
    BY <2>1, <2>2, HasLockKept DEF HasLock
  <2> QED BY <2>1, <2>3 DEF HasLock
<1> QED BY <1>1, <1>2

LEMMA ReconcileOKStep ==
  ASSUME IInv, HandoverInv, [Next]_vars
  PROVE  ReconcileOK'
<1>0. ReconcileStep /\ (rec.pc # "idle" => rec.c \in Checkouts)
  BY ReconcileSteps DEF IInv, TypeOK
<1>1. rec'.pc \in Locking =>
        /\ rec'.claim.phase # "Bound"
        /\ Exists(rec'.claim) => rec'.claim.owner = rec'.c
        /\ ~Exists(rec'.claim) => 
             \A r \in Replicas : 
               rec'.source = Source(r) => rec'.volume = Copy(r)
  <2>1. CASE rec' = rec
    BY <2>1 DEF HandoverInv, ReconcileOK
  <2>2. CASE rec'.pc = "idle"
    BY <2>2 DEF Locking
  <2>3. ASSUME NEW c \in Checkouts, Started(c), rec'.pc \in Locking
        PROVE  /\ rec'.claim.phase # "Bound"
               /\ Exists(rec'.claim) => rec'.claim.owner = rec'.c
               /\ ~Exists(rec'.claim) => 
                    \A r \in Replicas : 
                      rec'.source = Source(r) => rec'.volume = Copy(r)
    BY <2>3 DEF Started, Done, Conflicting, Foreign, Locking
  <2>4. CASE Moved /\ ~PersistClaim
    BY <2>4 DEF Moved, HandoverInv, ReconcileOK, Locking
  <2>5. CASE Moved /\ PersistClaim
    <3>1. rec'.claim = pvc'[Wanted] /\ rec'.c = rec.c
      BY <2>5 DEF PersistClaim, IInv, TypeOK, Recs
    <3> QED BY <2>5, <3>1, PersistClaimHolds
  <2> QED BY <1>0, <2>1, <2>2, <2>3, <2>4, <2>5 DEF ReconcileStep
<1>2. ASSUME rec'.pc = "volume"
      PROVE  /\ Exists(pvc'[ClaimFor(rec'.c)]) 
             /\ pvc'[ClaimFor(rec'.c)].owner = rec'.c
             /\ pvc'[ClaimFor(rec'.c)].uid = rec'.claim.uid
  <2>1. CASE rec' = rec
    <3>1. HasClaim(rec.c) /\ pvc[Wanted].uid = rec.claim.uid
      BY <1>2, <2>1 DEF HandoverInv, ReconcileOK
    <3>2. rec.c \in Checkouts
      BY <1>0, <1>2, <2>1
    <3>3. /\ UserClaimStep(ClaimOf[rec.c]) 
          /\ ClaimFor(rec.c) = UserClaim(ClaimOf[rec.c])
      BY <3>2, UserClaimOf, UserClaimSteps
    <3> QED BY <2>1, <3>1, <3>3 DEF UserClaimStep, HasClaim, Wanted, Exists
  <2>2. \A c \in Checkouts : ~Started(c)
    BY <1>2 DEF Started
  <2>3. CASE Moved
    <3>1. PersistClaim /\ rec'.claim = pvc'[Wanted] /\ rec'.c = rec.c
      BY <1>2, <2>3 DEF Moved
    <3> QED BY <3>1, PersistClaimHolds DEF Wanted
  <2> QED BY <1>0, <1>2, <2>1, <2>2, <2>3 DEF ReconcileStep
<1> QED BY <1>1, <1>2 DEF ReconcileOK, HasClaim, Wanted

LEMMA LockersStep ==
  ASSUME IInv, HandoverInv, [Next]_vars
  PROVE  Lockers'
<1>0. /\ ReconcileStep /\ pvCache' \in {pvCache, pv}
      /\ rec.pc # "idle" => rec.c \in Checkouts
  BY ReconcileSteps, CacheSteps DEF IInv, TypeOK
<1>1. ASSUME NEW r \in Replicas, NEW c \in Checkouts, uids[PoolClaim(r)] # 0,
             Exists(pv[Source(r)]) => LockedBy(r, c),
             Exists(pv'[Source(r)])
      PROVE  LockedBy(r, c)'
  BY <1>1, SourceGone, LockStep
<1>2. ASSUME NEW r \in Replicas, NEW c \in Checkouts, 
             Exists(pvCache'[Source(r)]),
             pvCache'[Source(r)].ref.claim = LockedClaim(c),
             Exists(pv'[Source(r)])
      PROVE  LockedBy(r, c)'
  <2>1. Exists(pv[Source(r)]) => LockedBy(r, c)
    BY <1>0, <1>2 DEF HandoverInv, Lockers, LockedBy
  <2>2. uids[PoolClaim(r)] # 0
    BY <1>0, <1>2 DEF IInv, NotYetMade
  <2> QED BY <1>1, <1>2, <2>1, <2>2
<1>3. ASSUME rec'.pc = "dropVolume"
      PROVE  /\ rec'.source \in Sources \cup {NoVolume}
             /\ \A r \in Replicas : rec'.source = Source(r) => 
                  /\ uids'[PoolClaim(r)] # 0
                  /\ Exists(pv'[Source(r)]) => 
                       pv'[Source(r)].ref.claim = LockedClaim(rec'.c)
  <2>1. CASE rec' = rec
    <3>1. rec.pc = "dropVolume" /\ rec.c \in Checkouts
      BY <1>0, <1>3, <2>1
    <3>2. rec.source \in Sources \cup {NoVolume}
      BY <3>1 DEF HandoverInv, Lockers
    <3>3. ASSUME NEW r \in Replicas, rec.source = Source(r) 
          PROVE  /\ uids'[PoolClaim(r)] # 0
                 /\ Exists(pv'[Source(r)]) => 
                      pv'[Source(r)].ref.claim = LockedClaim(rec'.c)
      <4>1. /\ uids[PoolClaim(r)] # 0
            /\ Exists(pv[Source(r)]) => LockedBy(r, rec.c)
        BY <3>1, <3>3 DEF HandoverInv, Lockers
      <4>2. Exists(pv'[Source(r)]) => 
              pv'[Source(r)].ref.claim = LockedClaim(rec.c)
        BY <1>1, <3>1, <4>1 DEF LockedBy
      <4>3. uids'[PoolClaim(r)] # 0
        BY <4>1, SourceGone
      <4> QED BY <2>1, <4>2, <4>3
    <3> QED BY <2>1, <3>2, <3>3
  <2>2. ASSUME NEW c \in Checkouts, Started(c)
        PROVE  /\ rec'.source \in Sources \cup {NoVolume}
               /\ \A r \in Replicas : rec'.source = Source(r) => 
                    /\ uids'[PoolClaim(r)] # 0
                    /\ Exists(pv'[Source(r)]) => 
                         pv'[Source(r)].ref.claim = LockedClaim(rec'.c)
    <3>1. /\ UNCHANGED <<pv, uids>> /\ rec'.c = c
          /\ rec'.source = LoadedVolume(LockedClaim(c))
      BY <1>3, <2>2 DEF Started, clusterVars
    <3>2. CASE LoadedVolume(LockedClaim(c)) = NoVolume
      BY <3>1, <3>2 DEF Source, NoVolume
    <3>3. CASE LoadedVolume(LockedClaim(c)) # NoVolume
      <4>1. TypeOK /\ ClaimsInv /\ SourcesOK
        BY DEF IInv, ClaimsInv
      <4>2. PICK r \in Replicas :
               /\ LoadedVolume(LockedClaim(c)) = Source(r)
               /\ Exists(pvCache[Source(r)]) 
               /\ Taken(c, pvCache[Source(r)])
        BY <3>3, <4>1, LockedVolumeIsSource
      <4>3. uids[PoolClaim(r)] # 0
        BY <4>2 DEF IInv, NotYetMade
      <4>4. Exists(pv[Source(r)]) => LockedBy(r, c)
        BY <4>2 DEF HandoverInv, Lockers, Taken
      <4>5. \A s \in Replicas : Source(s) = Source(r) => s = r
        BY DEF Source
      <4> QED BY <3>1, <4>2, <4>3, <4>4, <4>5 DEF LockedBy, Sources
    <3> QED BY <3>2, <3>3
  <2>3. ~Moved
    BY <1>3 DEF Moved
  <2> QED BY <1>0, <1>3, <2>1, <2>2, <2>3 DEF ReconcileStep
<1> QED BY <1>2, <1>3 DEF Lockers, LockedBy

(* What a reconcile finds done may be reported. *)
LEMMA DoneReported ==
  ASSUME HandoverInv, NEW c \in Checkouts, Done(c), ~Conflicting(c)
  PROVE  /\ Reported(c)
         /\ LoadedVolume(ClaimFor(c)) # NoVolume => 
              HandedOut(c, LoadedVolume(ClaimFor(c))[2])
<1>1. PICK r \in Replicas : 
        pvc[ClaimFor(c)].vol = Copy(r) /\ HandedOut(c, r)
  BY DoneBound
<1>2. pvc[ClaimFor(c)].owner = c /\ pvcCache[ClaimFor(c)].vol = Copy(r)
  BY <1>1, DoneBound DEF Conflicting, Foreign
<1>3. LoadedVolume(ClaimFor(c)) # NoVolume => 
        LoadedVolume(ClaimFor(c)) = Copy(r)
  BY <1>2 DEF LoadedVolume
<1>4. Copy(r)[2] = r
  BY DEF Copy
<1> QED BY <1>1, <1>2, <1>3, <1>4 DEF Reported

LEMMA ReportsStep ==
  ASSUME IInv, HandoverInv, [Next]_vars
  PROVE  ReportsOK'
<1>0. /\ ReconcileStep /\ TypeOK
      /\ rec.pc # "idle" => rec.c \in Checkouts
  BY ReconcileSteps DEF IInv, TypeOK
<1> DEFINE names == rec'.volume # NoVolume /\ rec'.claim.phase = "Bound"
           Goal == 
             /\ rec'.pc \in {"dropVolume", "dropClaim"} => 
                  rec'.reason = "CheckedOut" /\ Done(rec.c)'
             /\ rec'.reason = "CheckedOut" => Reported(rec.c)'
             /\ names => HandedOut(rec.c, rec.volume[2])'
<1>1. ASSUME NEW c \in Checkouts, rec'.c = c,
             rec'.pc \in {"dropVolume", "dropClaim"} => 
               rec'.reason = "CheckedOut" /\ Done(c),
             rec'.reason = "CheckedOut" => Reported(c),
             names => HandedOut(c, rec'.volume[2])
      PROVE  Goal
  <2>1. Done(c) => Done(c)'
    BY DoneKept
  <2>2. Reported(c) => Reported(c)'
    BY ReportedKept
  <2>3. ASSUME HandedOut(c, rec'.volume[2]) 
        PROVE  HandedOut(rec.c, rec.volume[2])'
    <3>1. PICK r : r = rec'.volume[2]
      OBVIOUS
    <3>2. HandedOut(c, r)'
      BY <2>3, <3>1, HandedOutKept
    <3> QED BY <1>1, <3>1, <3>2 DEF HandedOut, Holds, CrossReferenced, RefersTo,
               ClaimFor
  <2> QED BY <1>1, <2>1, <2>2, <2>3 DEF Done, Reported, HandedOut, Holds, 
             CrossReferenced, RefersTo, ClaimFor
<1>2. ASSUME rec'.pc # "idle" PROVE Goal
  <2>1. CASE rec' = rec
    <3>1. /\ rec.pc \in {"dropVolume", "dropClaim"} => 
               rec.reason = "CheckedOut" /\ Done(rec.c)
          /\ rec.reason = "CheckedOut" => Reported(rec.c)
          /\ rec.volume # NoVolume /\ rec.claim.phase = "Bound" =>
               HandedOut(rec.c, rec.volume[2])
      BY <1>2, <2>1 DEF HandoverInv, ReportsOK
    <3> HIDE DEF Goal
    <3> QED BY <1>0, <1>1, <1>2, <2>1, <3>1
  <2>2. ASSUME NEW c \in Checkouts, Started(c) PROVE Goal
    <3>1. rec'.c = c
      BY <2>2 DEF Started
    <3>2. CASE rec'.pc = "lockClaim"
      <4>1. rec'.reason # "CheckedOut" /\ ~names
        BY <2>2, <3>2 DEF Started, Done
      <4> HIDE DEF Goal, names
      <4> QED BY <1>1, <3>1, <3>2, <4>1
    <3>3. CASE rec'.pc = "dropVolume"
      <4>1. /\ rec'.reason = "CheckedOut" /\ Done(c) /\ ~Conflicting(c)
            /\ rec'.volume = LoadedVolume(ClaimFor(c))
        BY <2>2, <3>3 DEF Started
      <4>2. Reported(c) /\ (names => HandedOut(c, rec'.volume[2]))
        BY <4>1, DoneReported
      <4> HIDE DEF Goal, names
      <4> QED BY <1>1, <3>1, <3>3, <4>1, <4>2
    <3>4. CASE rec'.pc = "status"
      <4>1. rec'.reason # "CheckedOut" /\ ~names
        BY <2>2, <3>4 DEF Started
      <4> HIDE DEF Goal, names
      <4> QED BY <1>1, <3>1, <3>4, <4>1
    <3> QED BY <2>2, <3>2, <3>3, <3>4 DEF Started
  <2>3. CASE Moved
    <3>1. /\ rec.pc \in {"dropVolume", "dropClaim"} => 
               rec.reason = "CheckedOut" /\ Done(rec.c)
          /\ rec.reason = "CheckedOut" => Reported(rec.c)
          /\ rec.volume # NoVolume /\ rec.claim.phase = "Bound" =>
               HandedOut(rec.c, rec.volume[2])
          /\ rec.c \in Checkouts
      BY <1>0, <2>3 DEF HandoverInv, ReportsOK, Moved
    <3>2. /\ rec'.c = rec.c /\ rec'.volume = rec.volume
          /\ rec'.reason = "CheckedOut" => rec.reason = "CheckedOut"
          /\ rec'.pc \in {"dropVolume", "dropClaim"} => 
               rec.pc = "dropVolume" /\ rec'.reason = rec.reason
          /\ rec'.claim = rec.claim \/ PersistClaim
      BY <2>3 DEF Moved
    <3>3. PersistClaim => rec'.claim.phase # "Bound"
      <4>1. PersistClaim => rec'.claim = pvc'[Wanted]
        BY DEF PersistClaim, IInv, TypeOK, Recs
      <4> QED BY <4>1, PersistClaimHolds
    <3>4. names => HandedOut(rec.c, rec'.volume[2])
      BY <3>1, <3>2, <3>3
    <3> HIDE DEF Goal, names
    <3> QED BY <1>1, <3>1, <3>2, <3>4
  <2> HIDE DEF Goal
  <2> QED BY <1>0, <1>2, <2>1, <2>2, <2>3 DEF ReconcileStep
<1>3. ASSUME NEW c \in Checkouts
      PROVE  /\ status'[c].reason = "CheckedOut" => Reported(c)'
             /\ status'[c].claim # NoClaim => 
                  HandedOut(c, status[c].volume[2])'
  <2>1. /\ status'[c].reason = "CheckedOut" => Reported(c)
        /\ status'[c].claim # NoClaim => HandedOut(c, status'[c].volume[2])
    <3>1. /\ status[c].reason = "CheckedOut" => Reported(c)
          /\ status[c].claim # NoClaim => HandedOut(c, status[c].volume[2])
      BY DEF HandoverInv, ReportsOK
    <3>2. CASE status'[c] = status[c]
      BY <3>1, <3>2
    <3>3. CASE /\ rec.pc = "status" /\ c = rec.c
               /\ status' = [status EXCEPT ![rec.c] = NewStatus]
      <4>1. status'[c] = NewStatus
        BY <1>0, <3>3 DEF TypeOK
      <4>2. /\ rec.reason = "CheckedOut" => Reported(rec.c)
            /\ rec.volume # NoVolume /\ rec.claim.phase = "Bound" =>
                 HandedOut(rec.c, rec.volume[2])
        BY <3>3 DEF HandoverInv, ReportsOK
      <4> QED BY <3>3, <4>1, <4>2 DEF NewStatus
    <3> QED BY <1>0, <3>2, <3>3, StatusSteps DEF HandoverInv, TypeOK
  <2>2. Reported(c) => Reported(c)'
    BY ReportedKept
  <2>3. ASSUME HandedOut(c, status'[c].volume[2])
        PROVE  HandedOut(c, status[c].volume[2])'
    <3>1. PICK r : r = status'[c].volume[2]
      OBVIOUS
    <3>2. HandedOut(c, r)'
      BY <2>3, <3>1, HandedOutKept
    <3> QED BY <3>1, <3>2 DEF HandedOut, Holds, CrossReferenced, RefersTo
  <2> QED BY <2>1, <2>2, <2>3
<1> QED BY <1>2, <1>3 DEF ReportsOK


(* A source is marked for deletion only by dropVolume, which has its       *)
(* checkout's bound claim before it.                                       *)
LEMMA DropStep ==
  ASSUME IInv, HandoverInv, [Next]_vars
  PROVE  DropAfterHandover'
<1> SUFFICES ASSUME NEW r \in Replicas, pv'[Source(r)].meta = "terminating"
             PROVE  \E c \in Checkouts : LockedBy(r, c)' /\ HandedOut(c, r)'
  BY DEF DropAfterHandover
<1>1. ASSUME NEW c \in Checkouts, LockedBy(r, c), HandedOut(c, r)
      PROVE  LockedBy(r, c)' /\ HandedOut(c, r)'
  <2>1. Exists(pv'[Source(r)])
    BY DEF Exists
  <2> QED BY <1>1, <2>1, LockStep, HandedOutKept
<1>2. CASE pv[Source(r)].meta = "terminating"
  <2>1. PICK c \in Checkouts : LockedBy(r, c) /\ HandedOut(c, r)
    BY <1>2 DEF HandoverInv, DropAfterHandover
  <2> QED BY <1>1, <2>1
<1>3. CASE DropVolume /\ rec.source = Source(r) /\ Exists(pv[Source(r)])
  <2>1. rec.pc = "dropVolume" /\ rec.c \in Checkouts
    BY <1>3 DEF DropVolume, IInv, TypeOK
  <2>2. LockedBy(r, rec.c)
    BY <1>3, <2>1 DEF HandoverInv, Lockers
  <2>3. Reported(rec.c)
    BY <2>1 DEF HandoverInv, ReportsOK
  <2>4. PICK s \in Replicas : 
          HandedOut(rec.c, s) /\ pvc[ClaimFor(rec.c)].owner = rec.c
    BY <2>3 DEF Reported
  <2>5. HasClaim(rec.c) /\ pvc[ClaimFor(rec.c)].vol = Copy(s)
    BY <2>4 DEF HasClaim, HandedOut, Holds, CrossReferenced
  <2>6. pvc[ClaimFor(rec.c)].vol = Copy(r)
    BY <2>1, <2>2, <2>5 DEF HandoverInv, LocksOK
  <2>7. s = r
    BY <2>5, <2>6 DEF Copy
  <2> QED BY <1>1, <2>1, <2>2, <2>4, <2>7
<1>4. SourceStep(r)
  BY SourceSteps
<1> QED BY <1>2, <1>3, <1>4 DEF SourceStep

(* A source goes with its storage, or after its copy was handed out. *)
LEMMA StorageStep ==
  ASSUME IInv, HandoverInv, [Next]_vars
  PROVE  NoStorageLost'
<1> SUFFICES ASSUME NEW r \in Replicas, uids'[PoolClaim(r)] > 0, 
                    r \notin destroyed'
             PROVE  Exists(pv'[Source(r)]) \/ Exists(pv'[Copy(r)])
  BY DEF NoStorageLost
<1>1. /\ SourceStep(r) /\ CopyStep(r)
      /\ uids'[PoolClaim(r)] = uids[PoolClaim(r)] \/ Exists(pv'[Source(r)])
  BY SourceSteps, CopySteps, UidSteps DEF IInv
<1>2. CASE uids[PoolClaim(r)] > 0
  <2>1. Exists(pv[Source(r)]) \/ Exists(pv[Copy(r)])
    BY <1>1, <1>2 DEF SourceStep, HandoverInv, NoStorageLost
  <2>2. pv[Source(r)].meta = "terminating" => Exists(pv[Copy(r)])
    BY DEF HandoverInv, DropAfterHandover, HandedOut, Holds, CrossReferenced
  <2>3. Exists(pv[Copy(r)]) => Exists(pv'[Copy(r)])
    BY <1>1 DEF CopyStep, Exists
  <2> QED BY <1>1, <2>1, <2>2, <2>3 DEF SourceStep
<1> QED BY <1>1, <1>2

LEMMA HandoverInit == 
  ASSUME NoDeletions, Init
  PROVE  HandoverInv
<1>1. /\ \A n \in ClaimNames : /\ pvc[UserClaim(n)] = NoPvc 
                               /\ pvcCache[UserClaim(n)] = NoPvc
      /\ \A c \in Checkouts : pvc[LockedClaim(c)] = NoPvc
      /\ \A r \in Replicas : /\ pv[Source(r)] = NoPv /\ pv[Copy(r)] = NoPv
                             /\ pvCache[Source(r)] = NoPv
                             /\ uids[PoolClaim(r)] = 0
  BY NameTypes DEF Init, ClusterInit
<1>2. \A c \in Checkouts : pvc[ClaimFor(c)] = NoPvc
  BY <1>1, UserClaimOf
<1>3. ~Exists(NoPvc) /\ ~Exists(NoPv) /\ NoPvc.meta = "absent" 
      /\ NoPv.meta = "absent" /\ NoPvc.phase # "Bound"
  BY DEF Exists, NoPvc, NoPv
<1>4. rec.pc = "idle" /\ destroyed = {} /\ checkouts = Checkouts
  BY DEF Init, ClusterInit, Idle
<1>5. \A c \in Checkouts : status[c].reason # "CheckedOut" 
                           /\ status[c].claim = NoClaim
  BY DEF Init, NoStatus
<1>6. UserClaimsOK
  BY <1>1, <1>3 DEF UserClaimsOK, AbsentIsZero, Older
<1>7. CopiesHeld /\ DestroyedInPool /\ DropAfterHandover /\ NoStorageLost
  BY <1>1, <1>3, <1>4 
     DEF CopiesHeld, DestroyedInPool, DropAfterHandover, NoStorageLost
<1>8. LocksOK /\ OneVolumePerCheckout
  BY <1>1, <1>2, <1>3 
     DEF LocksOK, OneVolumePerCheckout, HasLock, HasClaim, LockedBy
<1>9. HoldsLock /\ ReconcileOK /\ Lockers /\ ReportsOK
  BY <1>1, <1>3, <1>4, <1>5 
     DEF HoldsLock, ReconcileOK, Lockers, ReportsOK, Locking
<1> QED BY <1>4, <1>6, <1>7, <1>8, <1>9 DEF HandoverInv

LEMMA HandoverStep == IInv /\ HandoverInv /\ [Next]_vars => HandoverInv'
<1> SUFFICES ASSUME IInv, HandoverInv, [Next]_vars PROVE HandoverInv' 
  OBVIOUS
<1>1. NoDeletions /\ checkouts' = Checkouts
  BY StatusSteps DEF HandoverInv, IInv
<1> QED BY <1>1, UserClaimsStep, CopiesStep, DestroyedStep, LocksStep, 
           HoldsLockStep, ReconcileOKStep, LockersStep, ReportsStep, 
           DropStep, StorageStep 
        DEF HandoverInv, NoDeletions

(* The handover keeps its invariant (checkout_state.go:111-335). *)
THEOREM Handover == NoDeletions /\ Spec => []HandoverInv
<1>1. NoDeletions /\ Init => HandoverInv
  BY HandoverInit
<1> QED BY <1>1, HandoverStep, Inductive, PTL DEF Spec

-----------------------------------------------------------------------------
(* What the invariant says to the user of a checkout *)

(* Storage that exists can be found: the source is given up only after the *)
(* copy names the storage, and the copy stays (checkout_state.go:160-186). *)
THEOREM StorageIsKept == NoDeletions /\ Spec => []NoStorageLost
<1>1. HandoverInv => NoStorageLost
  BY DEF HandoverInv
<1> QED BY <1>1, Handover, PTL

(* No volume that a checkout locked or was given names deleted storage,    *)
(* however the pool's scaling down races with the lock, if volumes go with *)
(* their storage (checkout_state.go:213-237, 321-332).                     *)
THEOREM StorageOutlivesThePool == NoDeletions /\ Spec => []StorageSurvives
<1>1. HandoverInv => StorageSurvives
  BY DEF HandoverInv, DestroyedInPool, StorageSurvives, LockedBy
<1> QED BY <1>1, Handover, PTL

(* A checkout never holds two sources, however often its reconcile is      *)
(* repeated after a failure or on stale caches (checkout_state.go:161-166, *)
(* 213-237).                                                               *)
THEOREM OneVolume == NoDeletions /\ Spec => []OneVolumePerCheckout
<1>1. HandoverInv => OneVolumePerCheckout
  BY DEF HandoverInv
<1> QED BY <1>1, Handover, PTL

(* The source is deleted only when its storage was handed out to the       *)
(* checkout that locked it (checkout_state.go:180-186).                    *)
THEOREM SourceDroppedLast == NoDeletions /\ Spec => []DropAfterHandover
<1>1. HandoverInv => DropAfterHandover
  BY DEF HandoverInv
<1> QED BY <1>1, Handover, PTL

(* A status that says CheckedOut, or names a claim, tells the truth        *)
(* (checkout.go:9-24).                                                     *)
THEOREM StatusIsTrue == NoDeletions /\ Spec => []StatusTruthful
<1>1. HandoverInv => StatusTruthful
  BY DEF HandoverInv, ReportsOK, Reported, StatusTruthful
<1> QED BY <1>1, Handover, PTL

(* Of checkouts that ask for the same claim only its owner, who locked the *)
(* source of the volume in it, reports it (checkout_state.go:132-139).     *)
THEOREM ReportsAreOwn == NoDeletions /\ Spec => []ReportedByOwner
<1>1. IInv /\ HandoverInv => ReportedByOwner
  <2> SUFFICES ASSUME IInv, HandoverInv, NEW c \in Checkouts,
                      status[c].reason = "CheckedOut"
               PROVE  \E r \in Replicas :
                        /\ HandedOut(c, r) /\ pvc[ClaimFor(c)].owner = c
                        /\ Exists(pv[Source(r)]) => LockedBy(r, c)
    BY DEF ReportedByOwner
  <2>1. PICK r \in Replicas : 
          HandedOut(c, r) /\ pvc[ClaimFor(c)].owner = c
    BY DEF HandoverInv, ReportsOK, Reported
  <2>2. Exists(pv[Copy(r)]) /\ pv[Copy(r)].ref.claim = ClaimFor(c)
    BY <2>1 DEF HandedOut, Holds, CrossReferenced, RefersTo
  <2>3. PICK n \in ClaimNames : 
          /\ pv[Copy(r)].ref.claim = UserClaim(n)
          /\ \A d \in Checkouts : 
               LockedBy(r, d) => pvc[UserClaim(n)].owner = d
    BY <2>2 DEF HandoverInv, CopiesHeld, RefersTo
  <2>4. \A d \in Checkouts : LockedBy(r, d) => d = c
    BY <2>1, <2>2, <2>3
  <2>5. Exists(pv[Source(r)]) => \E d \in Checkouts : LockedBy(r, d)
    BY <2>2 DEF IInv, ExclusiveStorage
  <2> QED BY <2>1, <2>4, <2>5
<1> QED BY <1>1, Inductive, Handover, PTL

=============================================================================
