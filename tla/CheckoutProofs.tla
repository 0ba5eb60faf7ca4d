--------------------------- MODULE CheckoutProofs ---------------------------
(***************************************************************************)
(* Theorems about the checkout controller, for every number of checkouts,  *)
(* replicas and claim names, every choice of environment events and any    *)
(* delay of the caches.                                                    *)
(***************************************************************************)
EXTENDS Checkout, TLAPS

-----------------------------------------------------------------------------
(* Names and objects *)

LEMMA NameTypes ==
  /\ \A r \in Replicas : Source(r) \in PvNames /\ Copy(r) \in PvNames
  /\ \A r \in Replicas : PoolClaim(r) \in PvcNames
  /\ \A c \in Checkouts : LockedClaim(c) \in PvcNames
  /\ \A c \in Checkouts : ClaimFor(c) \in PvcNames
  /\ \A n \in ClaimNames : UserClaim(n) \in PvcNames
BY CheckoutAssumption DEF PvNames, PvcNames, ClaimFor

LEMMA NamesDiffer ==
  \A r, s \in Replicas : 
    /\ Source(r) # Copy(s)
    /\ Source(r) = Source(s) => r = s
    /\ Copy(r) = Copy(s) => r = s
<1> TAKE r, s \in Replicas
<1>1. Source(r)[1] = "source" /\ Copy(s)[1] = "copy"
  BY DEF Source, Copy
<1>2. /\ Source(r)[2] = r /\ Source(s)[2] = s 
      /\ Copy(r)[2] = r /\ Copy(s)[2] = s
  BY DEF Source, Copy
<1> QED BY <1>1, <1>2

(* What a write of one volume does to the others. *)
LEMMA SourceWritten ==
  ASSUME TypeOK, NEW r \in Replicas, NEW o, 
         pv' = [pv EXCEPT ![Source(r)] = o]
  PROVE  /\ pv'[Source(r)] = o
         /\ \A s \in Replicas : s # r => pv'[Source(s)] = pv[Source(s)]
         /\ \A s \in Replicas : pv'[Copy(s)] = pv[Copy(s)]
BY NamesDiffer, NameTypes DEF TypeOK, ClusterTypeOK

LEMMA CopyWritten ==
  ASSUME TypeOK, NEW r \in Replicas, NEW o, 
         pv' = [pv EXCEPT ![Copy(r)] = o]
  PROVE  /\ pv'[Copy(r)] = o
         /\ \A s \in Replicas : s # r => pv'[Copy(s)] = pv[Copy(s)]
         /\ \A s \in Replicas : pv'[Source(s)] = pv[Source(s)]
BY NamesDiffer, NameTypes DEF TypeOK, ClusterTypeOK

LEMMA ZeroTypes == NoPvc \in Pvcs /\ NoPv \in Pvs /\ Idle \in Recs
<1>1. NoPvc \in Pvcs
  BY DEF NoPvc, Pvcs, Metas
<1>2. NoPv \in Pvs
  BY DEF NoPv, NoRef, Pvs, ClaimRefs, Metas
<1>3. Idle \in Recs
  BY <1>1, <1>2 DEF Idle, Recs, Steps, Reasons
<1> QED BY <1>1, <1>2, <1>3

LEMMA TerminatingTypes ==
  /\ \A o \in Pvcs : Terminating(o) \in Pvcs
  /\ \A o \in Pvs : Terminating(o) \in Pvs
<1>1. ASSUME NEW o \in Pvcs PROVE Terminating(o) \in Pvcs
  BY DEF Terminating, Pvcs, Metas
<1>2. ASSUME NEW o \in Pvs PROVE Terminating(o) \in Pvs
  BY DEF Terminating, Pvs, Metas
<1> QED BY <1>1, <1>2

LEMMA LoadedTypes ==
  ASSUME TypeOK
  PROVE  /\ \A n \in PvcNames : LoadedVolume(n) \in PvNames \cup {NoVolume}
         /\ \A v \in PvNames \cup {NoVolume} : VolumeObject(v) \in Pvs
         /\ \A c \in Checkouts : Loaded(c) \in Recs
<1>1. \A n \in PvcNames : LoadedVolume(n) \in PvNames \cup {NoVolume}
  BY DEF LoadedVolume
<1>2. \A v \in PvNames \cup {NoVolume} : VolumeObject(v) \in Pvs
  BY ZeroTypes DEF VolumeObject, TypeOK, ClusterTypeOK
<1>3. ASSUME NEW c \in Checkouts PROVE Loaded(c) \in Recs
  <2>1. /\ pvcCache[LockedClaim(c)] \in Pvcs
        /\ pvcCache[ClaimFor(c)] \in Pvcs
    BY NameTypes DEF TypeOK, ClusterTypeOK
  <2>2. /\ LoadedVolume(LockedClaim(c)) \in PvNames \cup {NoVolume}
        /\ LoadedVolume(ClaimFor(c)) \in PvNames \cup {NoVolume}
    BY <1>1, NameTypes
  <2> QED BY <1>2, <2>1, <2>2 DEF Loaded, Recs, Steps, Reasons
<1> QED BY <1>1, <1>2, <1>3

-----------------------------------------------------------------------------
(* Type correctness *)

LEMMA InitType == Init => TypeOK
<1> SUFFICES ASSUME Init PROVE TypeOK OBVIOUS
<1>1. ClusterTypeOK
  BY ZeroTypes DEF Init, ClusterInit, ClusterTypeOK
<1>2. rec \in Recs /\ (rec.pc # "idle" => rec.c \in Checkouts)
  BY ZeroTypes DEF Init, Idle
<1>3. status \in [Checkouts -> Statuses]
  BY DEF Init, NoStatus, Statuses, Reasons
<1>4. /\ poolRef \in [Checkouts -> Pools] /\ edited \in BOOLEAN
      /\ granted \subseteq Checkouts \X Pools
  <2>1. poolRef \in [Checkouts -> Pools] /\ edited = FALSE
    BY DEF Init
  <2>2. \A c \in Checkouts : <<c, poolRef[c]>> \in Checkouts \X Pools
    BY <2>1
  <2> QED BY <2>1, <2>2 DEF Init
<1>5. /\ checkouts \subseteq Checkouts /\ queue \subseteq Checkouts
      /\ pools \subseteq Pools
  BY DEF Init
<1> QED BY <1>1, <1>2, <1>3, <1>4, <1>5 DEF TypeOK

LEMMA LoadType ==
  ASSUME TypeOK, NEW c \in Checkouts, Load(c)
  PROVE  TypeOK'
<1>1. ClusterTypeOK' /\ queue' \subseteq Checkouts
        /\ UNCHANGED <<checkouts, status, pools, refs>>
  BY DEF Load, LoadMissing, LoadConflict, LoadBound, LoadLocked, LoadFromPool,
     LoadNotAvailable, LoadPoolDoesNotExist, LoadWithoutVolume, Begin,
     TypeOK, ClusterTypeOK, clusterVars, refs
<1>2. Loaded(c) \in Recs /\ Loaded(c).c = c
  BY LoadedTypes DEF Loaded
<1>3. \A l \in Recs : l.source \in PvNames => 
        Configured(l) \in Recs /\ Configured(l).c = l.c
  <2> SUFFICES ASSUME NEW l \in Recs, l.source \in PvNames
               PROVE  Configured(l) \in Recs /\ Configured(l).c = l.c
    OBVIOUS
  <2>1. Copy(l.source[2]) \in PvNames
    BY DEF PvNames, Source, Copy
  <2> QED BY <2>1 DEF Configured, Recs
<1>4. rec' \in Recs /\ (rec'.pc # "idle" => rec'.c \in Checkouts)
  <2>1. CASE LoadMissing(c)
    BY <2>1 DEF LoadMissing, TypeOK
  <2>2. CASE LoadConflict(c)
    BY <2>2, ZeroTypes DEF LoadConflict, Recs, Steps, Reasons
  <2>3. CASE LoadBound(c)
    BY <2>3, <1>2 DEF LoadBound, Recs, Steps, Reasons
  <2>4. CASE LoadLocked(c)
    <3>1. Loaded(c).source \in PvNames
      BY <2>4, <1>2 DEF LoadLocked, Recs
    <3> QED BY <3>1, <2>4, <1>2, <1>3 DEF LoadLocked
  <2>5. CASE LoadFromPool(c)
    <3>1. PICK r \in Replicas : rec' = Configured([Loaded(c) EXCEPT
                    !.source = Source(r), !.sourceObj = pvCache[Source(r)]])
      BY <2>5 DEF LoadFromPool
    <3> DEFINE l == [Loaded(c) EXCEPT
                    !.source = Source(r), !.sourceObj = pvCache[Source(r)]]
    <3>2. pvCache[Source(r)] \in Pvs /\ Source(r) \in PvNames
      BY NameTypes DEF TypeOK, ClusterTypeOK
    <3>3. l \in Recs /\ l.source = Source(r) /\ l.c = c
      BY <3>2, <1>2 DEF Recs
    <3> HIDE DEF l
    <3>4. Configured(l) \in Recs /\ Configured(l).c = c
      BY <3>2, <3>3, <1>3
    <3> QED BY <3>1, <3>4 DEF l
  <2>6. CASE LoadNotAvailable(c) \/ LoadPoolDoesNotExist(c)
    <3>1. PICK why \in {"NotAvailable", "PoolDoesNotExist"} :
            rec' = [Loaded(c) EXCEPT !.pc = "status", !.reason = why,
                                     !.result = "error"]
      BY <2>6 DEF LoadNotAvailable, LoadPoolDoesNotExist, LoadWithoutVolume
    <3> QED BY <3>1, <1>2 DEF Recs, Steps, Reasons
  <2> QED BY <2>1, <2>2, <2>3, <2>4, <2>5, <2>6 DEF Load
<1> QED BY <1>1, <1>4 DEF TypeOK, refs

LEMMA ClaimWriteTypes ==
  ASSUME TypeOK, NEW n \in PvcNames, NEW o \in Checkouts,
         NEW v \in PvNames \cup {NoVolume}, NEW loaded \in Pvcs,
         \/ CreateClaim(n, o, v)
         \/ UpdateClaim(n, loaded, v)
  PROVE  pvc' \in [PvcNames -> Pvcs] /\ uids' \in [PvcNames -> Nat]
<1> USE DEF TypeOK, ClusterTypeOK
<1>1. CASE CreateClaim(n, o, v)
  <2>1. NewPvc(n, o, v) \in Pvcs
    BY DEF NewPvc, Pvcs, Metas
  <2> QED BY <2>1, <1>1 DEF CreateClaim
<1>2. CASE UpdateClaim(n, loaded, v)
  <2>1. [pvc[n] EXCEPT !.vol = v] \in Pvcs
    BY DEF Pvcs
  <2> QED BY <2>1, <1>2 DEF UpdateClaim
<1> QED BY <1>1, <1>2

LEMMA RecTypes ==
  ASSUME TypeOK, rec.pc # "idle"
  PROVE  /\ rec.c \in Checkouts
         /\ Locked \in PvcNames /\ Wanted \in PvcNames
         /\ rec.lockedClaim \in Pvcs /\ rec.claim \in Pvcs
         /\ rec.sourceObj \in Pvs /\ rec.volumeObj \in Pvs
         /\ rec.source \in PvNames \cup {NoVolume}
         /\ rec.volume \in PvNames \cup {NoVolume}
         /\ LockedSource \in Pvs /\ CopiedVolume \in Pvs
<1>1. /\ rec.c \in Checkouts
      /\ rec.lockedClaim \in Pvcs /\ rec.claim \in Pvcs
      /\ rec.sourceObj \in Pvs /\ rec.volumeObj \in Pvs
      /\ rec.source \in PvNames \cup {NoVolume}
      /\ rec.volume \in PvNames \cup {NoVolume}
  BY DEF TypeOK, Recs
<1>2. Locked \in PvcNames /\ Wanted \in PvcNames
  BY <1>1, NameTypes DEF Locked, Wanted
<1>3. SavedPolicy \in {"none", "Delete", "Retain"}
  BY <1>1 DEF SavedPolicy, Pvs
<1>4. rec.lockedClaim.uid \in Nat /\ rec.claim.uid \in Nat
  BY <1>1 DEF Pvcs
<1>5. LockedSource \in Pvs
  BY <1>1, <1>2, <1>3, <1>4 DEF LockedSource, Pvs, ClaimRefs
<1>6. CopiedVolume \in Pvs
  BY <1>1, <1>2, <1>3, <1>4 DEF CopiedVolume, Pvs, ClaimRefs, Metas
<1> QED BY <1>1, <1>2, <1>5, <1>6

LEMMA WriteType ==
  ASSUME TypeOK, Write
  PROVE  TypeOK'
<1> USE DEF TypeOK, ClusterTypeOK, Persisting, caches, refs
<1>1. CASE LockClaim
  <2>1. pvc' \in [PvcNames -> Pvcs] /\ uids' \in [PvcNames -> Nat]
    BY <1>1, RecTypes, ClaimWriteTypes DEF LockClaim, SaveClaim
  <2>2. rec' \in Recs /\ rec'.c \in Checkouts
    BY <1>1, <2>1, RecTypes DEF LockClaim, Recs, Steps
  <2> QED BY <1>1, <2>1, <2>2 DEF LockClaim
<1>2. CASE LockVolume
  <2>1. pv' \in [PvNames -> Pvs]
    BY <1>2, RecTypes DEF LockVolume, PutVolume
  <2>2. rec' \in Recs /\ rec'.c \in Checkouts
    BY <1>2, RecTypes DEF LockVolume, Recs, Steps
  <2> QED BY <1>2, <2>1, <2>2 DEF LockVolume
<1>3. CASE PersistClaim
  <2>1. pvc' \in [PvcNames -> Pvcs] /\ uids' \in [PvcNames -> Nat]
    BY <1>3, RecTypes, ClaimWriteTypes DEF PersistClaim, SaveClaim
  <2>2. rec' \in Recs /\ rec'.c \in Checkouts
    BY <1>3, <2>1, RecTypes DEF PersistClaim, Recs, Steps
  <2> QED BY <1>3, <2>1, <2>2 DEF PersistClaim
<1>4. CASE PersistVolume
  <2>1. pv' \in [PvNames -> Pvs]
    BY <1>4, RecTypes DEF PersistVolume, PutVolume
  <2>2. rec' \in Recs /\ rec'.c \in Checkouts
    BY <1>4, RecTypes DEF PersistVolume, Recs, Steps
  <2> QED BY <1>4, <2>1, <2>2 DEF PersistVolume
<1>5. CASE InvalidClaim
  <2>1. rec' \in Recs /\ rec'.c \in Checkouts
    BY <1>5, RecTypes DEF InvalidClaim, Abandon, Recs, Steps, Reasons
  <2> QED BY <1>5, <2>1 DEF InvalidClaim
<1>6. CASE DropVolume
  <2>1. \A v \in PvNames : Terminating(pv[v]) \in Pvs
    BY TerminatingTypes
  <2>2. pv' \in [PvNames -> Pvs]
    BY <1>6, <2>1 DEF DropVolume, NothingToDrop
  <2>3. rec' \in Recs /\ rec'.c \in Checkouts
    BY <1>6, RecTypes DEF DropVolume, Goto, Recs, Steps
  <2> QED BY <1>6, <2>2, <2>3 DEF DropVolume
<1>7. CASE DropClaim
  <2>1. Terminating(pvc[Locked]) \in Pvcs
    BY <1>7, RecTypes DEF DropClaim, Terminating, Pvcs, Metas
  <2>2. pvc' \in [PvcNames -> Pvcs]
    BY <1>7, <2>1 DEF DropClaim
  <2>3. rec' \in Recs /\ rec'.c \in Checkouts
    BY <1>7, RecTypes DEF DropClaim, Goto, Recs, Steps
  <2> QED BY <1>7, <2>2, <2>3 DEF DropClaim
<1>8. CASE WriteStatus
  <2>1. NewStatus \in Statuses
    BY <1>8, RecTypes DEF WriteStatus, NewStatus, Statuses, Recs
  <2>2. queue' \subseteq Checkouts
    BY <1>8, RecTypes DEF WriteStatus
  <2> QED BY <1>8, <2>1, <2>2, ZeroTypes 
      DEF WriteStatus, Idle, clusterVars
<1> QED BY <1>1, <1>2, <1>3, <1>4, <1>5, <1>6, <1>7, <1>8 DEF Write

LEMMA FailType ==
  ASSUME TypeOK, Fail
  PROVE  TypeOK'
<1> USE DEF TypeOK, ClusterTypeOK, Persisting, caches, refs
<1>1. CASE WriteFails
  <2>1. rec' \in Recs /\ rec'.c \in Checkouts
    BY <1>1, RecTypes DEF WriteFails, Abandon, Recs, Steps
  <2> QED BY <1>1, <2>1 DEF WriteFails
<1>2. CASE StatusFails
  BY <1>2, RecTypes, ZeroTypes DEF StatusFails, Idle, clusterVars
<1> QED BY <1>1, <1>2 DEF Fail

LEMMA InformerType ==
  ASSUME TypeOK, SyncPvc \/ SyncPv \/ Crash
  PROVE  TypeOK'
<1> USE DEF TypeOK, ClusterTypeOK, refs
<1>1. CASE SyncPvc
  BY <1>1 DEF SyncPvc
<1>2. CASE SyncPv
  BY <1>2 DEF SyncPv, ctlVars
<1>3. CASE Crash
  BY <1>3, ZeroTypes DEF Crash, Idle
<1> QED BY <1>1, <1>2, <1>3

LEMMA PlatformType ==
  ASSUME TypeOK, Platform
  PROVE  TypeOK'
<1> USE DEF TypeOK, ClusterTypeOK, caches, ctlVars, refs
<1>1. CASE \E n \in PvcNames : Collect(n)
  <2>1. PICK n \in PvcNames : DeleteClaim(n) /\ UNCHANGED ctlVars
    BY <1>1 DEF Collect
  <2>2. pvc[n] \in Pvcs
    OBVIOUS
  <2>3. Terminating(pvc[n]) \in Pvcs
    BY <2>2 DEF Terminating, Pvcs, Metas
  <2>4. pvc' = [pvc EXCEPT ![n] = Terminating(pvc[n])]
    BY <2>1 DEF DeleteClaim
  <2>5. pvc' \in [PvcNames -> Pvcs]
    BY <2>3, <2>4
  <2> QED BY <2>1, <2>5 DEF DeleteClaim
<1>2. ASSUME NEW n \in PvcNames, UNCHANGED ctlVars,
             Bind(n) \/ LoseClaim(n) \/ RemoveClaim(n)
      PROVE  TypeOK'
  <2>1. CASE Bind(n)
    <3>1. pvc[n].vol \in PvNames
      BY <2>1 DEF Bind, CrossReferenced
    <3>2. pvc[n] \in Pvcs /\ pv[pvc[n].vol] \in Pvs
      BY <3>1
    <3>3. [pvc[n] EXCEPT !.phase = "Bound"] \in Pvcs
      BY <3>2 DEF Pvcs
    <3>4. [pv[pvc[n].vol] EXCEPT !.phase = "Bound"] \in Pvs
      BY <3>2 DEF Pvs
    <3>5. /\ pvc' = [pvc EXCEPT ![n] = [pvc[n] EXCEPT !.phase = "Bound"]]
          /\ pv' = [pv EXCEPT ![pvc[n].vol] = 
                           [pv[pvc[n].vol] EXCEPT !.phase = "Bound"]]
      BY <2>1 DEF Bind
    <3>6. pvc' \in [PvcNames -> Pvcs] /\ pv' \in [PvNames -> Pvs]
      BY <3>3, <3>4, <3>5
    <3> QED BY <2>1, <3>6, <1>2 DEF Bind
  <2>2. CASE LoseClaim(n)
    <3>1. [pvc[n] EXCEPT !.phase = "Lost"] \in Pvcs
      BY DEF Pvcs
    <3> QED BY <2>2, <3>1, <1>2 DEF LoseClaim
  <2>3. CASE RemoveClaim(n)
    BY <2>3, <1>2, ZeroTypes DEF RemoveClaim
  <2> QED BY <1>2, <2>1, <2>2, <2>3
<1>3. ASSUME NEW v \in PvNames, UNCHANGED ctlVars,
             Release(v) \/ Reclaim(v) \/ RemoveVolume(v)
      PROVE  TypeOK'
  <2>1. CASE Release(v)
    <3>1. [pv[v] EXCEPT !.phase = "Released"] \in Pvs
      BY DEF Pvs
    <3> QED BY <2>1, <3>1, <1>3 DEF Release
  <2>2. CASE Reclaim(v)
    <3>1. v[2] \in Replicas
      BY DEF PvNames, Source, Copy
    <3> QED BY <2>2, <3>1, <1>3, ZeroTypes DEF Reclaim
  <2>3. CASE RemoveVolume(v)
    BY <2>3, <1>3, ZeroTypes DEF RemoveVolume
  <2> QED BY <1>3, <2>1, <2>2, <2>3
<1>4. ASSUME NEW v \in PvNames, ReclaimInSteps(v)
      PROVE  TypeOK'
  <2>1. v[2] \in Replicas
    BY DEF PvNames, Source, Copy
  <2>2. Terminating(pv[v]) \in Pvs
    BY TerminatingTypes
  <2> QED BY <1>4, <2>1, <2>2 
          DEF ReclaimInSteps, DestroyStorage, DeleteDestroyed
<1> QED BY <1>1, <1>2, <1>3, <1>4 DEF Platform, VolumeController

LEMMA EnvironmentType ==
  ASSUME TypeOK, Environment
  PROVE  TypeOK'
<1> USE DEF TypeOK, ClusterTypeOK, caches, ctlVars, clusterVars, refs
<1>1. ASSUME NEW n \in PvcNames, DeleteClaim(n), UNCHANGED ctlVars 
      PROVE TypeOK'
  <2>1. Terminating(pvc[n]) \in Pvcs
    BY TerminatingTypes
  <2> QED BY <1>1, <2>1 DEF DeleteClaim
<1>2. CASE \E r \in Replicas : PoolStock(r)
  <2>1. PICK r \in Replicas : PoolStock(r) 
    BY <1>2
  <2>2. /\ PoolClaim(r) \in PvcNames /\ Source(r) \in PvNames
        /\ OriginalPolicy \in {"Delete", "Retain"}
    BY NameTypes, ClusterAssumption DEF PolicyAssumption
  <2> DEFINE claim == [meta |-> "live", owner |-> PoolOf[r], uid |-> 1,
               vol |-> Source(r), phase |-> "Bound", stage |-> "Available"]
             volume == [meta |-> "live", 
               ref |-> [claim |-> PoolClaim(r), uid |-> 1],
               policy |-> OriginalPolicy, saved |-> "none", phase |-> "Bound"]
  <2>3. claim \in Pvcs 
    <3>1. PoolOf[r] \in Pools 
      BY CheckoutAssumption
    <3> QED BY <2>2, <3>1 DEF Pvcs, Metas
  <2>5. volume \in Pvs
    BY <2>2 DEF Pvs, Metas, ClaimRefs
  <2>4. pvc' = [pvc EXCEPT ![PoolClaim(r)] = claim]
        /\ pv' = [pv EXCEPT ![Source(r)] = volume]
        /\ uids' = [uids EXCEPT ![PoolClaim(r)] = 1]
        /\ UNCHANGED <<destroyed, caches, ctlVars>>
    BY <2>1 DEF PoolStock
  <2> HIDE DEF claim, volume
  <2> QED BY <2>3, <2>4, <2>5
<1>3. CASE \E r \in Replicas : PoolDiscard(r)
  BY <1>1, <1>3, NameTypes DEF PoolDiscard
<1>4. CASE \E n \in ClaimNames : UserDeletesClaim(n)
  BY <1>1, <1>4, NameTypes DEF UserDeletesClaim
<1>5. CASE \/ \E p \in Pools : CreatePool(p)
           \/ \E c \in Checkouts : UserDeletesCheckout(c)
           \/ Resync
  BY <1>5 DEF CreatePool, Resync, UserDeletesCheckout, refs
<1>6. CASE \E c \in Checkouts : UserEditsCheckout(c)
  BY <1>6 DEF UserEditsCheckout
<1> QED BY <1>2, <1>3, <1>4, <1>5, <1>6 DEF Environment

LEMMA TypeStep == TypeOK /\ [Next]_vars => TypeOK'
<1> SUFFICES ASSUME TypeOK, [Next]_vars PROVE TypeOK' OBVIOUS
<1>1. CASE UNCHANGED vars
  BY <1>1 DEF vars, clusterVars, caches, ctlVars, refs, TypeOK, ClusterTypeOK
<1>2. CASE Next
  BY <1>2, LoadType, WriteType, FailType, InformerType, PlatformType,
     EnvironmentType DEF Next
<1> QED BY <1>1, <1>2

(* Type correctness for every value of the constants: what is stored,      *)
(* cached or loaded is always an API object, and a reconcile always works  *)
(* on a checkout (checkout_state.go, reconciler/checkout.go).              *)
THEOREM TypeCorrect == Spec => []TypeOK
BY InitType, TypeStep, PTL DEF Spec

-----------------------------------------------------------------------------
(* The inductive invariant.  A source is either as the pool made it or as  *)
(* a lock leaves it; that is so on the server, in the cache and in what a  *)
(* reconcile loaded, and the last two only ever get to the server when     *)
(* they are still what is stored there.                                    *)

Sources == {Source(r) : r \in Replicas}
Copies == {Copy(r) : r \in Replicas}
Locking == {"lockClaim", "lockVolume", "claim", "volume"}
PastLock == {"claim", "volume"}

Pooled(r, o) == 
  o.ref.claim = PoolClaim(r) /\ o.policy = OriginalPolicy /\ o.saved = "none"
Taken(c, o) == 
  /\ o.ref.claim = LockedClaim(c) 
  /\ o.policy = "Retain" /\ o.saved = OriginalPolicy

SourceOK(r, o) == 
  Exists(o) => Pooled(r, o) \/ \E c \in Checkouts : Taken(c, o)

SourcesOK == 
  \A r \in Replicas : 
    SourceOK(r, pv[Source(r)]) /\ SourceOK(r, pvCache[Source(r)])

CopiesOK == 
  \A r \in Replicas : 
    Exists(pv[Copy(r)]) => pv[Copy(r)].policy = OriginalPolicy

(* Locked claims name sources, claims for users name copies. *)
ClaimsOK(claims) ==
  /\ \A c \in Checkouts : 
       claims[LockedClaim(c)].vol \in Sources \cup {NoVolume}
  /\ \A n \in ClaimNames : 
       claims[UserClaim(n)].vol \in Copies \cup {NoVolume}

(* Nothing refers to a replica before the pool made it. *)
NotYetMade ==
  \A r \in Replicas : uids[PoolClaim(r)] = 0 =>
    /\ ~Exists(pv[Source(r)]) /\ ~Exists(pv[Copy(r)])
    /\ ~Exists(pvCache[Source(r)])
    /\ rec.pc \in Locking => rec.source # Source(r)

LoadedOK ==
  rec.pc \in Locking =>
    /\ Exists(rec.sourceObj)
    /\ rec.volume \in Copies
    /\ \E r \in Replicas : 
         /\ rec.source = Source(r)
         /\ Pooled(r, rec.sourceObj) \/ Taken(rec.c, rec.sourceObj)

(* After lockVolume the source stays with the checkout of the reconcile,   *)
(* and no other checkout has made a copy of it.                            *)
LockHeld ==
  rec.pc \in PastLock =>
    /\ Taken(rec.c, rec.sourceObj)
    /\ \A r \in Replicas : rec.source = Source(r) =>
         /\ Exists(pv[Source(r)]) => LockedBy(r, rec.c)
         /\ Exists(pv[Copy(r)]) => pv[Copy(r)].ref.claim = ClaimFor(rec.c)

IInv ==
  /\ TypeOK
  /\ SourcesOK /\ CopiesOK
  /\ ClaimsOK(pvc) /\ ClaimsOK(pvcCache)
  /\ NotYetMade
  /\ LoadedOK /\ LockHeld
  /\ ExclusiveStorage

-----------------------------------------------------------------------------
(* Steps that write no reference: they only mark, bind, release or remove  *)
(* volumes, refresh a cache, or end a reconcile.                           *)

VolumesKept ==
  \A v \in PvNames : Exists(pv'[v]) =>
    /\ Exists(pv[v])
    /\ pv'[v].ref = pv[v].ref
    /\ pv'[v].policy = pv[v].policy /\ pv'[v].saved = pv[v].saved

QuietVolumes ==
  /\ VolumesKept
  /\ pvCache' \in {pvCache, pv}
  /\ \A r \in Replicas : uids'[PoolClaim(r)] = uids[PoolClaim(r)]
  /\ rec' = rec \/ rec'.pc \notin Locking

ClaimsKept ==
  /\ \A n \in PvcNames : pvc'[n].vol \in {pvc[n].vol, NoVolume}
  /\ pvcCache' \in {pvcCache, pvc}

VolumesInv == 
  SourcesOK /\ CopiesOK /\ NotYetMade /\ LoadedOK /\ LockHeld 
    /\ ExclusiveStorage

ClaimsInv == ClaimsOK(pvc) /\ ClaimsOK(pvcCache)

LEMMA VolumesSurvive ==
  ASSUME VolumesInv, QuietVolumes
  PROVE  VolumesInv'
<1> USE NameTypes DEF QuietVolumes
<1>1. ASSUME NEW r \in Replicas
      PROVE  /\ Exists(pv'[Source(r)]) => 
                  /\ Exists(pv[Source(r)])
                  /\ pv'[Source(r)].ref = pv[Source(r)].ref
                  /\ pv'[Source(r)].policy = pv[Source(r)].policy
                  /\ pv'[Source(r)].saved = pv[Source(r)].saved
             /\ Exists(pv'[Copy(r)]) =>
                  /\ Exists(pv[Copy(r)])
                  /\ pv'[Copy(r)].ref = pv[Copy(r)].ref
                  /\ pv'[Copy(r)].policy = pv[Copy(r)].policy
  BY DEF VolumesKept
<1>2. SourcesOK'
  BY <1>1 DEF VolumesInv, SourcesOK, SourceOK, Pooled, Taken
<1>3. CopiesOK'
  BY <1>1 DEF VolumesInv, CopiesOK
<1>4. NotYetMade'
  BY <1>1 DEF VolumesInv, NotYetMade
<1>5. LoadedOK'
  BY DEF VolumesInv, LoadedOK
<1>6. LockHeld'
  BY <1>1 DEF VolumesInv, LockHeld, LockedBy, PastLock, Locking
<1>7. ExclusiveStorage'
  BY <1>1 DEF VolumesInv, ExclusiveStorage, LockedBy
<1> QED BY <1>2, <1>3, <1>4, <1>5, <1>6, <1>7 DEF VolumesInv

LEMMA ClaimsSurvive ==
  ASSUME ClaimsInv, ClaimsKept
  PROVE  ClaimsInv'
BY NameTypes DEF ClaimsInv, ClaimsKept, ClaimsOK

-----------------------------------------------------------------------------
(* The first steps of a reconcile *)

LEMMA LockedVolumeIsSource ==
  ASSUME TypeOK, ClaimsInv, SourcesOK, NEW c \in Checkouts, 
         LoadedVolume(LockedClaim(c)) # NoVolume
  PROVE  \E r \in Replicas : 
           /\ LoadedVolume(LockedClaim(c)) = Source(r)
           /\ Exists(pvCache[Source(r)]) 
           /\ Taken(c, pvCache[Source(r)])
<1>1. PICK r \in Replicas : pvcCache[LockedClaim(c)].vol = Source(r)
  BY DEF LoadedVolume, ClaimsInv, ClaimsOK, Sources
<1>2. /\ LoadedVolume(LockedClaim(c)) = Source(r)
      /\ Exists(pvCache[Source(r)])
      /\ pvCache[Source(r)].ref.claim = LockedClaim(c)
  BY <1>1 DEF LoadedVolume, RefersTo
<1>3. SourceOK(r, pvCache[Source(r)])
  BY DEF SourcesOK
<1>4. Taken(c, pvCache[Source(r)])
  BY <1>2, <1>3 DEF SourceOK, Pooled, Taken, PoolClaim, LockedClaim
<1> QED BY <1>2, <1>4

LEMMA UserVolumeIsCopy ==
  ASSUME ClaimsInv, NEW c \in Checkouts
  PROVE  LoadedVolume(ClaimFor(c)) \in Copies \cup {NoVolume}
BY CheckoutAssumption DEF LoadedVolume, ClaimsInv, ClaimsOK, ClaimFor

LEMMA ConfiguredIsCopy ==
  ASSUME NEW l \in Recs, NEW r \in Replicas, l.source = Source(r), 
         l.volume \in Copies \cup {NoVolume}
  PROVE  /\ Configured(l).volume \in Copies
         /\ Configured(l).source = l.source
         /\ Configured(l).sourceObj = l.sourceObj
         /\ Configured(l).pc = l.pc /\ Configured(l).c = l.c
BY DEF Configured, Copies, Source, Recs

(* A reconcile starts to lock a source it saw in the pool or saw as its    *)
(* own.                                                                    *)
LEMMA StartSurvives ==
  ASSUME VolumesInv, UNCHANGED <<pv, pvCache, uids>>,
         NEW r \in Replicas, rec'.pc = "lockClaim",
         rec'.source = Source(r), rec'.sourceObj = pvCache[Source(r)],
         rec'.volume \in Copies, Exists(pvCache[Source(r)]),
         \/ Pooled(r, pvCache[Source(r)])
         \/ Taken(rec'.c, pvCache[Source(r)])
  PROVE  VolumesInv'
<1>1. SourcesOK' /\ CopiesOK' /\ ExclusiveStorage'
  BY DEF VolumesInv, SourcesOK, CopiesOK, ExclusiveStorage, LockedBy
<1>2. LoadedOK'
  BY DEF LoadedOK
<1>3. LockHeld'
  BY DEF LockHeld, PastLock
<1>4. NotYetMade'
  <2>1. \A s \in Replicas : Source(s) = Source(r) => s = r
    BY DEF Source
  <2> QED BY <2>1 DEF VolumesInv, NotYetMade
<1> QED BY <1>1, <1>2, <1>3, <1>4 DEF VolumesInv

LEMMA LoadVolumes ==
  ASSUME IInv, NEW c \in Checkouts, Load(c)
  PROVE  VolumesInv'
<1>0. VolumesInv /\ ClaimsInv /\ TypeOK
  BY DEF IInv, VolumesInv, ClaimsInv
<1>1. UNCHANGED <<pv, pvCache, uids>>
  BY DEF Load, LoadMissing, LoadConflict, LoadBound, LoadLocked, 
     LoadFromPool, LoadNotAvailable, LoadPoolDoesNotExist, 
     LoadWithoutVolume, Begin, clusterVars
<1>2. Loaded(c) \in Recs
  BY <1>0, LoadedTypes
<1>3. /\ Loaded(c).pc = "lockClaim" /\ Loaded(c).c = c
      /\ Loaded(c).volume \in Copies \cup {NoVolume}
      /\ Loaded(c).source = LoadedVolume(LockedClaim(c))
      /\ Loaded(c).sourceObj = VolumeObject(Loaded(c).source)
  BY <1>0, UserVolumeIsCopy DEF Loaded
<1>4. CASE rec' = rec \/ rec'.pc \notin Locking
  BY <1>0, <1>1, <1>4, VolumesSurvive DEF QuietVolumes, VolumesKept
<1>5. CASE LoadLocked(c)
  <2>1. PICK r \in Replicas : 
           /\ Loaded(c).source = Source(r)
           /\ Exists(pvCache[Source(r)]) 
           /\ Taken(c, pvCache[Source(r)])
    BY <1>0, <1>3, <1>5, LockedVolumeIsSource DEF LoadLocked, VolumesInv
  <2>2. Loaded(c).sourceObj = pvCache[Source(r)]
    BY <1>3, <2>1, NameTypes DEF VolumeObject
  <2>3. rec' = Configured(Loaded(c))
    BY <1>5 DEF LoadLocked
  <2>4. /\ rec'.volume \in Copies /\ rec'.source = Source(r)
        /\ rec'.sourceObj = pvCache[Source(r)]
        /\ rec'.pc = "lockClaim" /\ rec'.c = c
    BY <1>2, <1>3, <2>1, <2>2, <2>3, ConfiguredIsCopy
  <2> QED BY <1>0, <1>1, <2>1, <2>4, StartSurvives
<1>6. CASE LoadFromPool(c)
  <2>1. PICK r \in Replicas : 
          /\ Available(c, r)
          /\ rec' = Configured([Loaded(c) EXCEPT
                    !.source = Source(r), !.sourceObj = pvCache[Source(r)]])
    BY <1>6 DEF LoadFromPool, Oldest
  <2>2. /\ Exists(pvCache[Source(r)])
        /\ pvCache[Source(r)].ref.claim = PoolClaim(r)
    BY <2>1 DEF Available, LoadedVolume, RefersTo, Source, NoVolume
  <2>3. SourceOK(r, pvCache[Source(r)])
    BY <1>0 DEF VolumesInv, SourcesOK
  <2>4. Pooled(r, pvCache[Source(r)])
    BY <2>2, <2>3 DEF SourceOK, Pooled, Taken, PoolClaim, LockedClaim
  <2> DEFINE l == [Loaded(c) EXCEPT
                    !.source = Source(r), !.sourceObj = pvCache[Source(r)]]
  <2>5. /\ l \in Recs /\ l.source = Source(r) /\ l.c = c
        /\ l.sourceObj = pvCache[Source(r)] /\ l.pc = "lockClaim"
        /\ l.volume \in Copies \cup {NoVolume}
    <3>1. Source(r) \in PvNames /\ pvCache[Source(r)] \in Pvs
      BY <1>0, NameTypes DEF TypeOK, ClusterTypeOK
    <3> QED BY <1>2, <1>3, <3>1 DEF Recs
  <2> HIDE DEF l
  <2>6. /\ rec'.volume \in Copies /\ rec'.source = Source(r)
        /\ rec'.sourceObj = pvCache[Source(r)]
        /\ rec'.pc = "lockClaim" /\ rec'.c = c
    BY <2>1, <2>5, ConfiguredIsCopy DEF l
  <2> QED BY <1>0, <1>1, <2>2, <2>4, <2>6, StartSurvives
<1>7. CASE LoadMissing(c)
  BY <1>4, <1>7 DEF LoadMissing
<1>8. CASE LoadConflict(c)
  BY <1>4, <1>8 DEF LoadConflict, Idle, Locking
<1>9. CASE LoadBound(c)
  BY <1>2, <1>4, <1>9 DEF LoadBound, Locking, Recs
<1>10. CASE LoadNotAvailable(c) \/ LoadPoolDoesNotExist(c)
  <2>1. PICK why : rec' = [Loaded(c) EXCEPT !.pc = "status", 
                              !.reason = why, !.result = "error"]
    BY <1>10 DEF LoadNotAvailable, LoadPoolDoesNotExist, LoadWithoutVolume
  <2> QED BY <1>2, <1>4, <2>1 DEF Locking, Recs
<1> QED BY <1>5, <1>6, <1>7, <1>8, <1>9, <1>10 DEF Load

-----------------------------------------------------------------------------
(* The four writes *)

LEMMA SavedIsOriginal ==
  ASSUME NEW r \in Replicas, 
         Pooled(r, rec.sourceObj) \/ Taken(rec.c, rec.sourceObj)
  PROVE  SavedPolicy = OriginalPolicy
<1>1. OriginalPolicy # "none"
  BY ClusterAssumption DEF PolicyAssumption
<1> QED BY <1>1 DEF SavedPolicy, Pooled, Taken

(* lockClaim and claim write a claim and move on; the volumes stay.        *)
LEMMA ClaimWriteVolumes ==
  ASSUME VolumesInv, LockClaim \/ PersistClaim, TypeOK
  PROVE  VolumesInv'
<1>1. /\ UNCHANGED <<pv, pvCache>>
      /\ rec.pc \in Locking /\ rec'.pc \in Locking
      /\ rec'.pc \in PastLock => rec.pc \in PastLock
      /\ rec'.c = rec.c /\ rec'.source = rec.source
      /\ rec'.sourceObj = rec.sourceObj /\ rec'.volume = rec.volume
  BY DEF LockClaim, PersistClaim, Persisting, caches, Locking, PastLock,
     TypeOK, Recs
<1>2. \A r \in Replicas : uids'[PoolClaim(r)] = uids[PoolClaim(r)]
  <2>1. \A r \in Replicas : PoolClaim(r) # Locked /\ PoolClaim(r) # Wanted
    BY DEF PoolClaim, Locked, Wanted, LockedClaim, ClaimFor, UserClaim
  <2>2. uids \in [PvcNames -> Nat]
    BY DEF TypeOK, ClusterTypeOK
  <2> QED BY <2>1, <2>2, NameTypes DEF LockClaim, PersistClaim, SaveClaim,
             CreateClaim, UpdateClaim
<1>3. SourcesOK' /\ CopiesOK' /\ ExclusiveStorage'
  BY <1>1 DEF VolumesInv, SourcesOK, CopiesOK, ExclusiveStorage, LockedBy
<1>4. LoadedOK'
  BY <1>1 DEF VolumesInv, LoadedOK
<1>5. LockHeld'
  BY <1>1 DEF VolumesInv, LockHeld, LockedBy
<1>6. NotYetMade'
  BY <1>1, <1>2 DEF VolumesInv, NotYetMade
<1> QED BY <1>3, <1>4, <1>5, <1>6 DEF VolumesInv

(* lockVolume: what is stored is what was loaded, so either the pool held  *)
(* the source and there is no copy, or this checkout had it already.       *)
LEMMA LockVolumeVolumes ==
  ASSUME VolumesInv, LockVolume, TypeOK
  PROVE  VolumesInv'
<1>1. /\ rec.pc = "lockVolume" /\ rec.pc \in Locking
      /\ pv[rec.source] = rec.sourceObj
      /\ pv' = [pv EXCEPT ![rec.source] = LockedSource]
      /\ UNCHANGED <<pvCache, uids>>
  BY DEF LockVolume, PutVolume, Persisting, caches, Locking
<1>2. /\ rec'.pc = "claim" /\ rec'.c = rec.c /\ rec'.source = rec.source
      /\ rec'.sourceObj = LockedSource /\ rec'.volume = rec.volume
  BY DEF LockVolume, TypeOK, Recs
<1>3. PICK r \in Replicas :
        /\ rec.source = Source(r)
        /\ Pooled(r, rec.sourceObj) \/ Taken(rec.c, rec.sourceObj)
  BY <1>1 DEF VolumesInv, LoadedOK
<1>4. Exists(rec.sourceObj) /\ rec.volume \in Copies /\ rec.c \in Checkouts
  BY <1>1 DEF VolumesInv, LoadedOK, TypeOK
<1>5. Taken(rec.c, LockedSource) /\ Exists(LockedSource)
  <2>1. rec.sourceObj \in Pvs
    BY DEF TypeOK, Recs
  <2> QED BY <1>3, <1>4, <2>1, SavedIsOriginal 
      DEF Taken, LockedSource, Exists, Locked, Pvs
<1>6. /\ pv'[Source(r)] = LockedSource
      /\ \A s \in Replicas : 
           /\ s # r => pv'[Source(s)] = pv[Source(s)]
           /\ pv'[Copy(s)] = pv[Copy(s)]
           /\ Source(s) = Source(r) => s = r
  BY <1>1, <1>3, NamesDiffer, SourceWritten
<1>7. Exists(pv[Copy(r)]) => pv[Copy(r)].ref.claim = ClaimFor(rec.c)
  <2>1. Pooled(r, pv[Source(r)]) \/ Taken(rec.c, pv[Source(r)])
    BY <1>1, <1>3
  <2>2. ASSUME NEW c \in Checkouts, LockedBy(r, c) PROVE c = rec.c
    BY <2>1, <2>2 DEF LockedBy, Pooled, Taken, PoolClaim, LockedClaim
  <2> QED BY <1>1, <1>3, <1>4, <2>2 DEF VolumesInv, ExclusiveStorage
<1>8. SourcesOK'
  BY <1>1, <1>4, <1>5, <1>6 DEF VolumesInv, SourcesOK, SourceOK
<1>9. CopiesOK'
  BY <1>6 DEF VolumesInv, CopiesOK
<1>10. NotYetMade'
  BY <1>1, <1>2, <1>3, <1>6 DEF VolumesInv, NotYetMade
<1>11. LoadedOK'
  BY <1>2, <1>3, <1>4, <1>5 DEF LoadedOK
<1>12. LockHeld'
  BY <1>2, <1>3, <1>5, <1>6, <1>7 DEF LockHeld, LockedBy, Taken
<1>13. ExclusiveStorage'
  BY <1>4, <1>5, <1>6, <1>7 
     DEF VolumesInv, ExclusiveStorage, LockedBy, Taken
<1> QED BY <1>8, <1>9, <1>10, <1>11, <1>12, <1>13 DEF VolumesInv

(* volume: the copy of a source that is held by the same checkout.         *)
LEMMA PersistVolumeVolumes ==
  ASSUME VolumesInv, PersistVolume, TypeOK
  PROVE  VolumesInv'
<1>1. /\ rec.pc \in Locking /\ rec.pc \in PastLock
      /\ rec.volume[2] = rec.source[2]
      /\ pv' = [pv EXCEPT ![rec.volume] = CopiedVolume]
      /\ UNCHANGED <<pvCache, uids>>
  BY DEF PersistVolume, PutVolume, Persisting, caches, Locking, PastLock
<1>2. rec'.pc \notin Locking /\ rec'.pc \notin PastLock
  BY DEF PersistVolume, Locking, PastLock, TypeOK, Recs
<1>3. PICK r \in Replicas :
        /\ rec.source = Source(r)
        /\ Pooled(r, rec.sourceObj) \/ Taken(rec.c, rec.sourceObj)
  BY <1>1 DEF VolumesInv, LoadedOK
<1>4. rec.volume = Copy(r) /\ rec.c \in Checkouts
  BY <1>1, <1>3 DEF VolumesInv, LoadedOK, Copies, Copy, Source, TypeOK,
     Locking
<1>5. /\ CopiedVolume.policy = OriginalPolicy
      /\ CopiedVolume.ref.claim = ClaimFor(rec.c)
  BY <1>3, SavedIsOriginal DEF CopiedVolume, Wanted
<1>6. /\ pv'[Copy(r)] = CopiedVolume
      /\ \A s \in Replicas :
           /\ s # r => pv'[Copy(s)] = pv[Copy(s)]
           /\ pv'[Source(s)] = pv[Source(s)]
  BY <1>1, <1>4, CopyWritten
<1>7. Exists(pv[Source(r)]) => LockedBy(r, rec.c)
  BY <1>1, <1>3 DEF VolumesInv, LockHeld
<1>8. uids[PoolClaim(r)] # 0
  BY <1>1, <1>3 DEF VolumesInv, NotYetMade
<1>9. SourcesOK' 
  BY <1>1, <1>6 DEF VolumesInv, SourcesOK
<1>10. CopiesOK'
  BY <1>5, <1>6 DEF VolumesInv, CopiesOK
<1>11. NotYetMade'
  BY <1>1, <1>2, <1>6, <1>8 DEF VolumesInv, NotYetMade
<1>12. LoadedOK' /\ LockHeld'
  BY <1>2 DEF LoadedOK, LockHeld
<1>13. ExclusiveStorage'
  BY <1>4, <1>5, <1>6, <1>7 DEF VolumesInv, ExclusiveStorage, LockedBy
<1> QED BY <1>9, <1>10, <1>11, <1>12, <1>13 DEF VolumesInv

LEMMA DropVolumeKeepsVolumes ==
  ASSUME TypeOK, DropVolume
  PROVE  VolumesKept
<1>1. CASE UNCHANGED pv
  BY <1>1 DEF VolumesKept
<1>2. CASE ~NothingToDrop
  <2>1. /\ rec.source \in PvNames /\ Exists(pv[rec.source])
        /\ pv' = [pv EXCEPT ![rec.source] = Terminating(pv[rec.source])]
    BY <1>2 DEF NothingToDrop, DropVolume
  <2>2. pv \in [PvNames -> Pvs]
    BY DEF TypeOK, ClusterTypeOK
  <2> QED BY <2>1, <2>2 DEF VolumesKept, Terminating, Pvs
<1> QED BY <1>1, <1>2 DEF DropVolume

LEMMA WriteVolumes ==
  ASSUME IInv, Write \/ Fail
  PROVE  VolumesInv'
<1>1. VolumesInv /\ TypeOK
  BY DEF IInv, VolumesInv
<1>2. CASE LockClaim \/ PersistClaim
  BY <1>1, <1>2, ClaimWriteVolumes
<1>3. CASE LockVolume
  BY <1>1, <1>3, LockVolumeVolumes
<1>4. CASE PersistVolume
  BY <1>1, <1>4, PersistVolumeVolumes
<1>5. CASE InvalidClaim \/ WriteFails
  <2>1. UNCHANGED <<pv, pvCache, uids>> /\ rec'.pc = "status"
    BY <1>1, <1>5 DEF InvalidClaim, WriteFails, Abandon, Persisting, caches,
       TypeOK, Recs
  <2> QED BY <1>1, <2>1, VolumesSurvive DEF QuietVolumes, VolumesKept, Locking
<1>6. CASE DropVolume
  <2>1. UNCHANGED <<pvCache, uids>> /\ rec'.pc = "dropClaim"
    BY <1>1, <1>6 DEF DropVolume, Goto, Persisting, caches, TypeOK, Recs
  <2>2. VolumesKept
    BY <1>1, <1>6, DropVolumeKeepsVolumes
  <2> QED BY <1>1, <2>1, <2>2, VolumesSurvive DEF QuietVolumes, Locking
<1>7. CASE DropClaim
  <2>1. UNCHANGED <<pv, pvCache, uids>> /\ rec'.pc = "status"
    BY <1>1, <1>7 DEF DropClaim, Goto, Persisting, caches, TypeOK, Recs
  <2> QED BY <1>1, <2>1, VolumesSurvive DEF QuietVolumes, VolumesKept, Locking
<1>8. CASE WriteStatus \/ StatusFails
  <2>1. UNCHANGED <<pv, pvCache, uids>> /\ rec'.pc = "idle"
    BY <1>8 DEF WriteStatus, StatusFails, clusterVars, Idle
  <2> QED BY <1>1, <2>1, VolumesSurvive DEF QuietVolumes, VolumesKept, Locking
<1> QED BY <1>2, <1>3, <1>4, <1>5, <1>6, <1>7, <1>8 DEF Write, Fail

-----------------------------------------------------------------------------
(* Everybody else *)

LEMMA InformerVolumes ==
  ASSUME IInv, SyncPvc \/ SyncPv \/ Crash
  PROVE  VolumesInv'
<1>1. VolumesInv
  BY DEF IInv, VolumesInv
<1>2. /\ UNCHANGED <<pv, uids>> /\ pvCache' \in {pvCache, pv}
      /\ rec' = rec \/ rec'.pc \notin Locking
  BY DEF SyncPvc, SyncPv, Crash, ctlVars, Idle, Locking
<1> QED BY <1>1, <1>2, VolumesSurvive DEF QuietVolumes, VolumesKept

LEMMA PlatformKeepsVolumes ==
  ASSUME TypeOK, Platform
  PROVE  VolumesKept
<1>0. pv \in [PvNames -> Pvs]
  BY DEF TypeOK, ClusterTypeOK
<1>1. CASE UNCHANGED pv
  BY <1>1 DEF VolumesKept
<1>2. ASSUME NEW v \in PvNames, NEW p \in {"Bound", "Released"},
             Exists(pv[v]), pv' = [pv EXCEPT ![v].phase = p]
      PROVE  VolumesKept
  BY <1>0, <1>2 DEF VolumesKept, Pvs
<1>3. ASSUME NEW v \in PvNames, pv' = [pv EXCEPT ![v] = NoPv]
      PROVE  VolumesKept
  BY <1>0, <1>3 DEF VolumesKept, NoPv, Exists
<1>4. ASSUME NEW n \in PvcNames, Bind(n) PROVE VolumesKept
  BY <1>2, <1>4 DEF Bind, CrossReferenced
<1>5. ASSUME NEW n \in PvcNames, Collect(n) \/ LoseClaim(n) \/ RemoveClaim(n)
      PROVE  VolumesKept
  BY <1>1, <1>5 DEF Collect, DeleteClaim, LoseClaim, RemoveClaim
<1>6. ASSUME NEW v \in PvNames, Release(v) PROVE VolumesKept
  BY <1>2, <1>6 DEF Release, Orphaned
<1>7. ASSUME NEW v \in PvNames, Reclaim(v) \/ RemoveVolume(v) 
      PROVE  VolumesKept
  BY <1>3, <1>7 DEF Reclaim, RemoveVolume
<1>8. ASSUME NEW v \in PvNames, ReclaimInSteps(v) PROVE VolumesKept
  <2>1. CASE DestroyStorage(v)
    BY <1>1, <2>1 DEF DestroyStorage
  <2>2. CASE DeleteDestroyed(v)
    BY <1>0, <2>2 DEF DeleteDestroyed, VolumesKept, Terminating, Exists, Pvs
  <2> QED BY <1>8, <2>1, <2>2 DEF ReclaimInSteps
<1> QED BY <1>4, <1>5, <1>6, <1>7, <1>8 DEF Platform, VolumeController

LEMMA PlatformVolumes ==
  ASSUME IInv, Platform
  PROVE  VolumesInv'
<1>1. VolumesInv /\ TypeOK
  BY DEF IInv, VolumesInv
<1>2. UNCHANGED <<uids, pvCache, rec>>
  BY DEF Platform, Collect, DeleteClaim, VolumeController, Bind, LoseClaim,
     RemoveClaim, Release, Reclaim, RemoveVolume, ReclaimInSteps,
     DestroyStorage, DeleteDestroyed, caches, ctlVars
<1> QED BY <1>1, <1>2, PlatformKeepsVolumes, VolumesSurvive DEF QuietVolumes

(* A new replica is a pooled source that nothing referred to before.       *)
LEMMA PoolStockVolumes ==
  ASSUME VolumesInv, TypeOK, NEW r \in Replicas, PoolStock(r)
  PROVE  VolumesInv'
<1> DEFINE o == [meta |-> "live", ref |-> [claim |-> PoolClaim(r), uid |-> 1],
                 policy |-> OriginalPolicy, saved |-> "none", 
                 phase |-> "Bound"]
<1>1. /\ uids[PoolClaim(r)] = 0
      /\ uids' = [uids EXCEPT ![PoolClaim(r)] = 1]
      /\ pv' = [pv EXCEPT ![Source(r)] = o]
      /\ UNCHANGED <<pvCache, rec>>
  BY DEF PoolStock, caches, ctlVars
<1>2. Exists(o) /\ Pooled(r, o)
  BY DEF Exists, Pooled
<1> HIDE DEF o
<1>3. /\ pv'[Source(r)] = o
      /\ \A s \in Replicas : s # r => pv'[Source(s)] = pv[Source(s)]
      /\ \A s \in Replicas : pv'[Copy(s)] = pv[Copy(s)]
  BY <1>1, SourceWritten
<1>4. /\ ~Exists(pv[Source(r)]) /\ ~Exists(pv[Copy(r)])
      /\ rec.pc \in Locking => rec.source # Source(r)
  BY <1>1 DEF VolumesInv, NotYetMade
<1>5. \A s \in Replicas : uids'[PoolClaim(s)] = 0 => uids[PoolClaim(s)] = 0 
                                                     /\ s # r
  BY <1>1, NameTypes DEF TypeOK, ClusterTypeOK
<1>6. SourcesOK'
  BY <1>1, <1>2, <1>3 DEF VolumesInv, SourcesOK, SourceOK
<1>7. CopiesOK'
  BY <1>3 DEF VolumesInv, CopiesOK
<1>8. NotYetMade'
  BY <1>1, <1>3, <1>5 DEF VolumesInv, NotYetMade
<1>9. LoadedOK'
  BY <1>1 DEF VolumesInv, LoadedOK
<1>10. LockHeld'
  <2> SUFFICES ASSUME rec.pc \in PastLock, 
                      NEW s \in Replicas, rec.source = Source(s)
               PROVE  /\ Taken(rec.c, rec.sourceObj)
                      /\ Exists(pv'[Source(s)]) => 
                           pv'[Source(s)].ref.claim = LockedClaim(rec.c)
                      /\ Exists(pv'[Copy(s)]) => 
                           pv'[Copy(s)].ref.claim = ClaimFor(rec.c)
    BY <1>1 DEF VolumesInv, LockHeld, LockedBy
  <2>1. s # r
    BY <1>4 DEF Locking, PastLock
  <2> QED BY <1>3, <2>1 DEF VolumesInv, LockHeld, LockedBy
<1>11. ExclusiveStorage'
  <2> SUFFICES ASSUME NEW s \in Replicas, 
                      Exists(pv'[Source(s)]), Exists(pv'[Copy(s)])
               PROVE  \E c \in Checkouts :
                        /\ Exists(pv'[Source(s)]) 
                        /\ pv'[Source(s)].ref.claim = LockedClaim(c)
                        /\ pv'[Copy(s)].ref.claim = ClaimFor(c)
    BY DEF ExclusiveStorage, LockedBy
  <2>1. s # r
    BY <1>3, <1>4
  <2> QED BY <1>3, <2>1 DEF VolumesInv, ExclusiveStorage, LockedBy
<1> QED BY <1>6, <1>7, <1>8, <1>9, <1>10, <1>11 DEF VolumesInv

LEMMA EnvironmentVolumes ==
  ASSUME IInv, Environment
  PROVE  VolumesInv'
<1>1. VolumesInv /\ TypeOK
  BY DEF IInv, VolumesInv
<1>2. CASE \E r \in Replicas : PoolStock(r)
  BY <1>1, <1>2, PoolStockVolumes
<1>3. CASE UNCHANGED <<pv, pvCache, uids, rec>>
  BY <1>1, <1>3, VolumesSurvive DEF QuietVolumes, VolumesKept
<1> QED BY <1>2, <1>3 DEF Environment, CreatePool, PoolDiscard, DeleteClaim,
           UserDeletesClaim, UserDeletesCheckout, 
           UserEditsCheckout, Resync, clusterVars,
           caches, ctlVars

-----------------------------------------------------------------------------
(* What claims name *)

LEMMA ClaimWritten ==
  ASSUME TypeOK, NEW n \in PvcNames, NEW loaded, NEW v, SaveClaim(n, loaded, v)
  PROVE  /\ pvc'[n].vol = v
         /\ \A m \in PvcNames : m # n => pvc'[m] = pvc[m]
<1>1. pvc \in [PvcNames -> Pvcs] /\ pvc[n] \in Pvcs
  BY DEF TypeOK, ClusterTypeOK
<1>2. CASE CreateClaim(n, rec.c, v)
  BY <1>1, <1>2 DEF CreateClaim, NewPvc
<1>3. CASE UpdateClaim(n, loaded, v)
  BY <1>1, <1>3 DEF UpdateClaim, Pvcs
<1> QED BY <1>2, <1>3 DEF SaveClaim

LEMMA LoadClaims ==
  ASSUME IInv, NEW c \in Checkouts, Load(c)
  PROVE  ClaimsInv'
<1>1. UNCHANGED <<pvc, pvcCache>>
  BY DEF Load, LoadMissing, LoadConflict, LoadBound, LoadLocked, 
     LoadFromPool, LoadNotAvailable, LoadPoolDoesNotExist, 
     LoadWithoutVolume, Begin, clusterVars
<1> QED BY <1>1, ClaimsSurvive DEF IInv, ClaimsInv, ClaimsKept

LEMMA WriteClaims ==
  ASSUME IInv, Write \/ Fail
  PROVE  ClaimsInv'
<1>1. ClaimsInv /\ TypeOK /\ pvc \in [PvcNames -> Pvcs]
  BY DEF IInv, ClaimsInv, TypeOK, ClusterTypeOK
<1>2. CASE LockClaim
  <2>1. SaveClaim(Locked, rec.lockedClaim, rec.source) 
        /\ UNCHANGED pvcCache
    BY <1>2 DEF LockClaim, Persisting, caches
  <2>2. rec.source \in Sources /\ Locked \in PvcNames
    BY <1>2, RecTypes DEF LockClaim, IInv, LoadedOK, Locking, Sources
  <2>3. /\ pvc'[Locked].vol \in Sources
        /\ \A m \in PvcNames : m # Locked => pvc'[m] = pvc[m]
    BY <1>1, <2>1, <2>2, ClaimWritten
  <2>4. \A n \in ClaimNames : UserClaim(n) # Locked
    BY DEF UserClaim, Locked, LockedClaim
  <2>5. ClaimsOK(pvc')
    BY <1>1, <2>3, <2>4, NameTypes DEF ClaimsInv, ClaimsOK
  <2> QED BY <1>1, <2>1, <2>5 DEF ClaimsInv, ClaimsOK
<1>3. CASE PersistClaim
  <2>1. SaveClaim(Wanted, rec.claim, rec.volume) /\ UNCHANGED pvcCache
    BY <1>3 DEF PersistClaim, Persisting, caches
  <2>2. rec.volume \in Copies /\ Wanted \in PvcNames
    BY <1>3, RecTypes DEF PersistClaim, IInv, LoadedOK, Locking
  <2>3. /\ pvc'[Wanted].vol \in Copies
        /\ \A m \in PvcNames : m # Wanted => pvc'[m] = pvc[m]
    BY <1>1, <2>1, <2>2, ClaimWritten
  <2>4. \A c \in Checkouts : LockedClaim(c) # Wanted
    BY DEF UserClaim, Wanted, ClaimFor, LockedClaim
  <2>5. ClaimsOK(pvc')
    BY <1>1, <2>3, <2>4, NameTypes DEF ClaimsInv, ClaimsOK
  <2> QED BY <1>1, <2>1, <2>5 DEF ClaimsInv, ClaimsOK
<1>4. CASE DropClaim
  <2>1. UNCHANGED pvcCache /\ Locked \in PvcNames
    BY <1>1, <1>4, RecTypes DEF DropClaim, Persisting, caches
  <2>2. CASE UNCHANGED pvc
    BY <1>1, <2>1, <2>2, ClaimsSurvive DEF ClaimsKept
  <2>3. CASE pvc' = [pvc EXCEPT ![Locked] = Terminating(pvc[Locked])]
    <3>1. Terminating(pvc[Locked]).vol = pvc[Locked].vol
      BY <1>1, <2>1 DEF Terminating, Pvcs
    <3> QED BY <1>1, <2>1, <2>3, <3>1, ClaimsSurvive DEF ClaimsKept
  <2> QED BY <1>4, <2>2, <2>3 DEF DropClaim
<1>5. CASE UNCHANGED <<pvc, pvcCache>>
  BY <1>1, <1>5, ClaimsSurvive DEF ClaimsKept
<1> QED BY <1>2, <1>3, <1>4, <1>5 DEF Write, Fail, LockVolume, PersistVolume,
           InvalidClaim, DropVolume, WriteStatus, WriteFails, StatusFails,
           Persisting, caches, clusterVars

LEMMA OtherClaims ==
  ASSUME IInv, SyncPvc \/ SyncPv \/ Crash \/ Platform \/ Environment
  PROVE  ClaimsInv'
<1>1. ClaimsInv /\ TypeOK /\ pvc \in [PvcNames -> Pvcs]
  BY DEF IInv, ClaimsInv, TypeOK, ClusterTypeOK
<1>2. CASE /\ \A n \in PvcNames : pvc'[n].vol \in {pvc[n].vol, NoVolume} 
           /\ pvcCache' \in {pvcCache, pvc}
  BY <1>1, <1>2, ClaimsSurvive DEF ClaimsKept
<1>3. CASE SyncPvc \/ SyncPv \/ Crash
  BY <1>2, <1>3 DEF SyncPvc, SyncPv, Crash
<1>4. ASSUME NEW n \in PvcNames, NEW p \in {"Bound", "Lost"},
             pvc' = [pvc EXCEPT ![n].phase = p], UNCHANGED pvcCache
      PROVE  ClaimsInv'
  BY <1>1, <1>2, <1>4 DEF Pvcs
<1>5. ASSUME NEW n \in PvcNames, DeleteClaim(n) \/ RemoveClaim(n)
      PROVE  ClaimsInv'
  BY <1>1, <1>2, <1>5 DEF DeleteClaim, RemoveClaim, Terminating, NoPvc,
     Pvcs, caches
<1>6. CASE UNCHANGED <<pvc, pvcCache>>
  BY <1>2, <1>6
<1>7. CASE Platform
  <2>1. ASSUME NEW n \in PvcNames, Bind(n) \/ LoseClaim(n)
        PROVE  ClaimsInv'
    BY <1>4, <2>1 DEF Bind, LoseClaim, caches
  <2>2. ASSUME NEW v \in PvNames, Release(v) \/ Reclaim(v) \/ RemoveVolume(v)
        PROVE  ClaimsInv'
    BY <1>6, <2>2 DEF Release, Reclaim, RemoveVolume, caches
  <2>3. ASSUME NEW v \in PvNames, ReclaimInSteps(v)
        PROVE  ClaimsInv'
    BY <1>6, <2>3 DEF ReclaimInSteps, DestroyStorage, DeleteDestroyed, caches
  <2> QED BY <1>5, <1>7, <2>1, <2>2, <2>3 
          DEF Platform, VolumeController, Collect
<1>8. ASSUME NEW r \in Replicas, PoolStock(r)
      PROVE  ClaimsInv'
  <2>1. /\ \A m \in PvcNames : m # PoolClaim(r) => pvc'[m] = pvc[m]
        /\ UNCHANGED pvcCache
    BY <1>1, <1>8 DEF PoolStock, caches
  <2>2. /\ \A c \in Checkouts : LockedClaim(c) # PoolClaim(r)
        /\ \A n \in ClaimNames : UserClaim(n) # PoolClaim(r)
    BY DEF LockedClaim, UserClaim, PoolClaim
  <2> QED BY <1>1, <2>1, <2>2, NameTypes DEF ClaimsInv, ClaimsOK
<1>9. CASE Environment
  BY <1>5, <1>6, <1>8, <1>9, NameTypes DEF Environment, CreatePool, 
     PoolDiscard, UserDeletesClaim, UserDeletesCheckout, 
     UserEditsCheckout, Resync, clusterVars
<1> QED BY <1>3, <1>7, <1>9

-----------------------------------------------------------------------------
(* The invariant is inductive *)

LEMMA InitIInv == Init => IInv
<1> SUFFICES ASSUME Init PROVE IInv OBVIOUS
<1>1. \A r \in Replicas : 
        /\ ~Exists(pv[Source(r)]) /\ ~Exists(pvCache[Source(r)])
        /\ ~Exists(pv[Copy(r)])
  BY NameTypes DEF Init, ClusterInit, NoPv, Exists
<1>2. rec.pc = "idle"
  BY DEF Init, Idle
<1>3. ClaimsOK(pvc) /\ ClaimsOK(pvcCache)
  BY NameTypes DEF Init, ClusterInit, ClaimsOK, NoPvc
<1>4. SourcesOK /\ CopiesOK /\ NotYetMade /\ ExclusiveStorage
  BY <1>1, <1>2 
     DEF SourcesOK, SourceOK, CopiesOK, NotYetMade, ExclusiveStorage, Locking
<1>5. LoadedOK /\ LockHeld
  BY <1>2 DEF LoadedOK, LockHeld, Locking, PastLock
<1> QED BY <1>3, <1>4, <1>5, InitType DEF IInv

LEMMA IInvStep == IInv /\ [Next]_vars => IInv'
<1> SUFFICES ASSUME IInv, [Next]_vars PROVE IInv' OBVIOUS
<1>1. TypeOK'
  BY TypeStep DEF IInv
<1>2. VolumesInv' /\ ClaimsInv'
  <2>1. CASE UNCHANGED vars
    <3>1. VolumesKept /\ ClaimsKept /\ QuietVolumes
      BY <2>1 DEF vars, clusterVars, ctlVars, VolumesKept, ClaimsKept, 
         QuietVolumes
    <3> QED BY <3>1, VolumesSurvive, ClaimsSurvive 
        DEF IInv, VolumesInv, ClaimsInv
  <2>2. CASE Next
    BY <2>2, LoadVolumes, WriteVolumes, InformerVolumes, PlatformVolumes,
       EnvironmentVolumes, LoadClaims, WriteClaims, OtherClaims DEF Next
  <2> QED BY <2>1, <2>2
<1> QED BY <1>1, <1>2 DEF IInv, VolumesInv, ClaimsInv

(* The inductive invariant holds whatever the caches show, whichever       *)
(* writes fail and wherever the controller crashes.                        *)
THEOREM Inductive == Spec => []IInv
BY InitIInv, IInvStep, PTL DEF Spec

(* Storage is never in two hands (checkout_state.go:111-166, 191-241).     *)
THEOREM StorageIsExclusive == Spec => []ExclusiveStorage
<1>1. IInv => ExclusiveStorage
  BY DEF IInv
<1> QED BY <1>1, Inductive, PTL

(* A source that has a copy survives the loss of its lock, because the     *)
(* copy's checkout holds it and a lock retains (checkout_state.go:332).    *)
THEOREM RetainedBeforeCopied == Spec => []RetainBeforeCopy
<1>1. IInv => RetainBeforeCopy
  <2> SUFFICES ASSUME IInv, NEW r \in Replicas, 
                      Exists(pv[Copy(r)]), Exists(pv[Source(r)])
               PROVE  pv[Source(r)].policy = "Retain"
    BY DEF RetainBeforeCopy
  <2>1. PICK c \in Checkouts : pv[Source(r)].ref.claim = LockedClaim(c)
    BY DEF IInv, ExclusiveStorage, LockedBy
  <2>2. SourceOK(r, pv[Source(r)])
    BY DEF IInv, SourcesOK
  <2> QED BY <2>1, <2>2 
      DEF SourceOK, Pooled, Taken, PoolClaim, LockedClaim
<1> QED BY <1>1, Inductive, PTL

(* Every copy has the reclaim policy of the storage class, and no source   *)
(* forgets it (checkout_state.go:278-285, 301).                            *)
THEOREM PolicyIsKept == Spec => []OriginalPolicyKept
<1>1. IInv => OriginalPolicyKept
  BY DEF IInv, SourcesOK, SourceOK, Pooled, Taken, CopiesOK, 
     OriginalPolicyKept
<1> QED BY <1>1, Inductive, PTL

-----------------------------------------------------------------------------
(* Once locked, locked by the same checkout until it is gone *)

LEMMA LockStep ==
  ASSUME IInv, [Next]_vars, NEW r \in Replicas, NEW c \in Checkouts,
         LockedBy(r, c)
  PROVE  LockedBy(r, c)' \/ ~Exists(pv'[Source(r)])
<1>1. TypeOK /\ VolumesInv
  BY DEF IInv, VolumesInv
<1>2. CASE VolumesKept
  BY <1>2, NameTypes DEF VolumesKept, LockedBy
<1>3. CASE LockVolume
  <2>1. /\ pv[rec.source] = rec.sourceObj
        /\ pv' = [pv EXCEPT ![rec.source] = LockedSource]
    BY <1>3 DEF LockVolume, PutVolume
  <2>2. PICK s \in Replicas :
          /\ rec.source = Source(s)
          /\ Pooled(s, rec.sourceObj) \/ Taken(rec.c, rec.sourceObj)
    BY <1>1, <1>3 DEF VolumesInv, LoadedOK, LockVolume, Locking
  <2>3. /\ pv'[Source(s)] = LockedSource
        /\ \A t \in Replicas : t # s => pv'[Source(t)] = pv[Source(t)]
    BY <1>1, <2>1, <2>2, SourceWritten
  <2>4. CASE r = s
    <3>1. c = rec.c
      BY <2>1, <2>2, <2>4 
         DEF LockedBy, Pooled, Taken, PoolClaim, LockedClaim
    <3>2. rec.sourceObj \in Pvs
      BY <1>1 DEF TypeOK, Recs
    <3>3. LockedSource.ref.claim = LockedClaim(c) /\ Exists(LockedSource)
      BY <2>1, <2>2, <2>4, <3>1, <3>2 
         DEF LockedSource, Locked, Exists, LockedBy, Pvs
    <3> QED BY <2>3, <2>4, <3>3 DEF LockedBy
  <2> QED BY <2>3, <2>4 DEF LockedBy
<1>4. CASE PersistVolume
  <2>1. pv' = [pv EXCEPT ![rec.volume] = CopiedVolume]
    BY <1>4 DEF PersistVolume, PutVolume
  <2>2. PICK s \in Replicas : rec.volume = Copy(s)
    BY <1>1, <1>4 DEF VolumesInv, LoadedOK, PersistVolume, Locking, Copies
  <2>3. pv'[Source(r)] = pv[Source(r)]
    BY <1>1, <2>1, <2>2, CopyWritten
  <2> QED BY <2>3 DEF LockedBy
<1>5. ASSUME NEW s \in Replicas, PoolStock(s)
      PROVE  LockedBy(r, c)'
  <2>1. ~Exists(pv[Source(s)])
    BY <1>1, <1>5 DEF PoolStock, VolumesInv, NotYetMade
  <2>2. pv'[Source(r)] = pv[Source(r)]
    BY <1>1, <1>5, <2>1, SourceWritten DEF PoolStock, LockedBy
  <2> QED BY <2>2 DEF LockedBy
<1>6. CASE UNCHANGED pv
  BY <1>6 DEF LockedBy
<1>7. ASSUME NEW d \in Checkouts, Load(d) PROVE UNCHANGED pv
  BY <1>7 DEF Load, LoadMissing, LoadConflict, LoadBound, LoadLocked, 
     LoadFromPool, LoadNotAvailable, LoadPoolDoesNotExist, 
     LoadWithoutVolume, Begin, clusterVars
<1>8. CASE Write \/ Fail
  <2>1. CASE DropVolume
    BY <1>1, <1>2, <2>1, DropVolumeKeepsVolumes
  <2>2. ASSUME LockClaim \/ PersistClaim \/ InvalidClaim \/ DropClaim 
                 \/ WriteStatus \/ Fail
        PROVE  UNCHANGED pv
    BY <2>2 DEF LockClaim, PersistClaim, InvalidClaim, DropClaim, 
       WriteStatus, Fail, WriteFails, StatusFails, clusterVars
  <2> QED BY <1>3, <1>4, <1>6, <1>8, <2>1, <2>2 DEF Write
<1>9. CASE SyncPvc \/ SyncPv \/ Crash
  BY <1>6, <1>9 DEF SyncPvc, SyncPv, Crash
<1>10. CASE Platform
  BY <1>1, <1>2, <1>10, PlatformKeepsVolumes
<1>11. CASE Environment
  BY <1>5, <1>6, <1>11 DEF Environment, CreatePool, PoolDiscard, 
     DeleteClaim, UserDeletesClaim, UserDeletesCheckout, 
     UserEditsCheckout, Resync, clusterVars
<1>12. CASE UNCHANGED vars
  BY <1>6, <1>12 DEF vars, clusterVars
<1> QED BY <1>6, <1>7, <1>8, <1>9, <1>10, <1>11, <1>12 DEF Next

(* A volume locked for a checkout is never taken over by another checkout  *)
(* or put back under the pool (checkout_state.go:266-345).                 *)
THEOREM LocksAreFinal == Spec => LockIsFinal
<1>1. IInv /\ [Next]_vars =>
        [\A r \in Replicas : \A c \in Checkouts :
           LockedBy(r, c) => LockedBy(r, c)' \/ ~Exists(pv'[Source(r)])]_vars
  BY LockStep
<1> QED BY <1>1, Inductive, PTL DEF Spec, LockIsFinal

-----------------------------------------------------------------------------
(* Who may use which pool.  What a reconcile loaded can be older than the  *)
(* spec of its checkout, so the permission is kept with every volume that  *)
(* is locked, seen locked, or about to be locked.                          *)

AccessInv ==
  /\ \A c \in Checkouts : <<c, poolRef[c]>> \in granted
  /\ PoolUseAuthorized
  /\ \A c \in Checkouts : \A r \in Replicas :
       /\ Exists(pvCache[Source(r)]) 
       /\ pvCache[Source(r)].ref.claim = LockedClaim(c)
       => <<c, PoolOf[r]>> \in granted
  /\ rec.pc \in Locking =>
       \A r \in Replicas : 
         rec.source = Source(r) => <<rec.c, PoolOf[r]>> \in granted

(* Steps that lock no further volume and change no spec. *)
QuietAccess ==
  /\ UNCHANGED <<poolRef, granted>>
  /\ \A r \in Replicas : Exists(pv'[Source(r)]) =>
       Exists(pv[Source(r)]) /\ pv'[Source(r)].ref = pv[Source(r)].ref
  /\ pvCache' \in {pvCache, pv}
  /\ rec'.pc \in Locking =>
       rec.pc \in Locking /\ rec'.c = rec.c /\ rec'.source = rec.source

LEMMA AccessSurvives ==
  ASSUME AccessInv, QuietAccess
  PROVE  AccessInv'
BY DEF AccessInv, QuietAccess, PoolUseAuthorized, LockedBy

LEMMA LoadAccess ==
  ASSUME IInv, AccessInv, NEW c \in Checkouts, Load(c)
  PROVE  AccessInv'
<1>0. VolumesInv /\ ClaimsInv /\ TypeOK
  BY DEF IInv, VolumesInv, ClaimsInv
<1>1. UNCHANGED <<pv, pvCache, poolRef, granted>>
  BY DEF Load, LoadMissing, LoadConflict, LoadBound, LoadLocked, 
     LoadFromPool, LoadNotAvailable, LoadPoolDoesNotExist, 
     LoadWithoutVolume, Begin, clusterVars, refs
<1>2. Loaded(c) \in Recs /\ Loaded(c).c = c
  BY <1>0, LoadedTypes DEF Loaded
<1>3. ASSUME NEW l \in Recs, l.c = c, rec' = Configured(l)
      PROVE  rec'.c = c /\ rec'.source = l.source
  BY <1>3 DEF Configured, Recs
<1>4. ASSUME NEW r \in Replicas, rec'.c = c, rec'.source = Source(r), 
             <<c, PoolOf[r]>> \in granted
      PROVE  AccessInv'
  <2>1. \A s \in Replicas : Source(s) = Source(r) => s = r
    BY DEF Source
  <2> QED BY <1>1, <1>4, <2>1 DEF AccessInv, PoolUseAuthorized, LockedBy
<1>5. CASE LoadLocked(c)
  <2>1. PICK r \in Replicas : 
           /\ Loaded(c).source = Source(r)
           /\ Exists(pvCache[Source(r)]) 
           /\ Taken(c, pvCache[Source(r)])
    BY <1>0, <1>5, LockedVolumeIsSource DEF LoadLocked, VolumesInv, Loaded
  <2>2. <<c, PoolOf[r]>> \in granted
    BY <2>1 DEF AccessInv, Taken
  <2> QED BY <1>2, <1>3, <1>4, <1>5, <2>1, <2>2 DEF LoadLocked
<1>6. CASE LoadFromPool(c)
  <2>1. PICK r \in Replicas : 
          /\ Available(c, r)
          /\ rec' = Configured([Loaded(c) EXCEPT
                    !.source = Source(r), !.sourceObj = pvCache[Source(r)]])
    BY <1>6 DEF LoadFromPool, Oldest
  <2> DEFINE l == [Loaded(c) EXCEPT
                    !.source = Source(r), !.sourceObj = pvCache[Source(r)]]
  <2>2. l \in Recs /\ l.source = Source(r) /\ l.c = c
    <3>1. Source(r) \in PvNames /\ pvCache[Source(r)] \in Pvs
      BY <1>0, NameTypes DEF TypeOK, ClusterTypeOK
    <3> QED BY <1>2, <3>1 DEF Recs
  <2>3. <<c, PoolOf[r]>> \in granted
    BY <2>1 DEF Available, AccessInv
  <2> HIDE DEF l
  <2>4. rec'.c = c /\ rec'.source = Source(r)
    BY <1>3, <2>1, <2>2 DEF l
  <2> QED BY <1>4, <2>3, <2>4
<1>7. CASE rec' = rec \/ rec'.pc \notin Locking
  BY <1>1, <1>7, AccessSurvives DEF QuietAccess
<1>8. CASE LoadMissing(c)
  BY <1>7, <1>8 DEF LoadMissing
<1>9. CASE LoadConflict(c)
  BY <1>7, <1>9 DEF LoadConflict, Idle, Locking
<1>10. CASE LoadBound(c)
  BY <1>2, <1>7, <1>10 DEF LoadBound, Locking, Recs
<1>11. CASE LoadNotAvailable(c) \/ LoadPoolDoesNotExist(c)
  <2>1. PICK why : rec' = [Loaded(c) EXCEPT !.pc = "status", 
                              !.reason = why, !.result = "error"]
    BY <1>11 DEF LoadNotAvailable, LoadPoolDoesNotExist, LoadWithoutVolume
  <2> QED BY <1>2, <1>7, <2>1 DEF Locking, Recs
<1> QED BY <1>5, <1>6, <1>8, <1>9, <1>10, <1>11 DEF Load

LEMMA WriteAccess ==
  ASSUME IInv, AccessInv, Write \/ Fail
  PROVE  AccessInv'
<1>0. VolumesInv /\ TypeOK
  BY DEF IInv, VolumesInv
<1>1. UNCHANGED <<pvCache, poolRef, granted>>
  BY DEF Write, Fail, LockClaim, LockVolume, PersistClaim, PersistVolume,
     InvalidClaim, DropVolume, DropClaim, WriteStatus, WriteFails, 
     StatusFails, Persisting, caches, refs, clusterVars
<1>2. rec'.pc \in Locking =>
        rec.pc \in Locking /\ rec'.c = rec.c /\ rec'.source = rec.source
  <2>0. rec \in Recs
    BY <1>0 DEF TypeOK
  <2>1. CASE LockClaim \/ LockVolume \/ PersistClaim
    BY <2>0, <2>1 DEF LockClaim, LockVolume, PersistClaim, Locking, Recs
  <2>2. CASE PersistVolume \/ InvalidClaim \/ WriteFails
    BY <2>0, <2>2 
       DEF PersistVolume, InvalidClaim, WriteFails, Abandon, Locking, Recs
  <2>3. CASE DropVolume \/ DropClaim
    BY <2>0, <2>3 DEF DropVolume, DropClaim, Goto, Locking, Recs
  <2>4. CASE WriteStatus \/ StatusFails
    BY <2>4 DEF WriteStatus, StatusFails, Idle, Locking
  <2> QED BY <2>1, <2>2, <2>3, <2>4 DEF Write, Fail
<1>3. CASE VolumesKept \/ UNCHANGED pv
  BY <1>1, <1>2, <1>3, NameTypes, AccessSurvives DEF QuietAccess, VolumesKept
<1>4. CASE LockVolume
  <2>1. /\ rec.pc \in Locking
        /\ pv' = [pv EXCEPT ![rec.source] = LockedSource]
    BY <1>4 DEF LockVolume, PutVolume, Locking
  <2>2. PICK r \in Replicas : rec.source = Source(r)
    BY <1>0, <2>1 DEF VolumesInv, LoadedOK
  <2>3. /\ pv'[Source(r)] = LockedSource
        /\ \A s \in Replicas : s # r => pv'[Source(s)] = pv[Source(s)]
    BY <1>0, <2>1, <2>2, SourceWritten
  <2>4. <<rec.c, PoolOf[r]>> \in granted
    BY <2>1, <2>2 DEF AccessInv
  <2>5. rec.sourceObj \in Pvs
    BY <1>0 DEF TypeOK, Recs
  <2>6. LockedSource.ref.claim = LockedClaim(rec.c)
    BY <2>5 DEF LockedSource, Locked, Pvs
  <2>7. \A c \in Checkouts : LockedClaim(c) = LockedClaim(rec.c) => c = rec.c
    BY DEF LockedClaim
  <2>8. PoolUseAuthorized'
    BY <1>1, <2>3, <2>4, <2>6, <2>7 DEF AccessInv, PoolUseAuthorized, LockedBy
  <2> QED BY <1>1, <1>2, <2>8 DEF AccessInv
<1>5. CASE PersistVolume
  <2>1. /\ rec.pc \in Locking
        /\ pv' = [pv EXCEPT ![rec.volume] = CopiedVolume]
    BY <1>5 DEF PersistVolume, PutVolume, Locking
  <2>2. PICK s \in Replicas : rec.volume = Copy(s)
    BY <1>0, <2>1 DEF VolumesInv, LoadedOK, Copies
  <2>3. \A r \in Replicas : pv'[Source(r)] = pv[Source(r)]
    BY <1>0, <2>1, <2>2, CopyWritten
  <2> QED BY <1>1, <1>2, <2>3, AccessSurvives DEF QuietAccess
<1>6. CASE DropVolume
  BY <1>0, <1>3, <1>6, DropVolumeKeepsVolumes
<1>7. ASSUME LockClaim \/ PersistClaim \/ InvalidClaim \/ DropClaim 
               \/ WriteStatus \/ Fail
      PROVE  UNCHANGED pv
  BY <1>7 DEF LockClaim, PersistClaim, InvalidClaim, DropClaim, 
     WriteStatus, Fail, WriteFails, StatusFails, clusterVars
<1> QED BY <1>3, <1>4, <1>5, <1>6, <1>7 DEF Write

LEMMA EnvironmentAccess ==
  ASSUME IInv, AccessInv, Environment
  PROVE  AccessInv'
<1>0. VolumesInv /\ TypeOK
  BY DEF IInv, VolumesInv
<1>1. ASSUME NEW c \in Checkouts, UserEditsCheckout(c)
      PROVE  AccessInv'
  <2>1. PICK p \in Pools, mayUse \in BOOLEAN :
          /\ mayUse
          /\ poolRef' = [poolRef EXCEPT ![c] = p]
          /\ granted' = granted \cup {<<c, p>>}
    BY <1>1 DEF UserEditsCheckout, Reviewed
  <2>2. UNCHANGED <<pv, pvCache, rec>>
    BY <1>1 DEF UserEditsCheckout, clusterVars
  <2>3. \A d \in Checkouts : <<d, poolRef'[d]>> \in granted'
    BY <1>0, <2>1 DEF AccessInv, TypeOK
  <2> QED BY <2>1, <2>2, <2>3 DEF AccessInv, PoolUseAuthorized, LockedBy
<1>2. ASSUME NEW r \in Replicas, PoolStock(r)
      PROVE  AccessInv'
  <2> DEFINE volume == [meta |-> "live", 
               ref |-> [claim |-> PoolClaim(r), uid |-> 1],
               policy |-> OriginalPolicy, saved |-> "none", phase |-> "Bound"]
  <2>1. /\ pv' = [pv EXCEPT ![Source(r)] = volume]
        /\ UNCHANGED <<pvCache, rec, poolRef, granted>>
    BY <1>2 DEF PoolStock, caches, ctlVars, refs
  <2>2. volume.ref.claim = PoolClaim(r)
    OBVIOUS
  <2> HIDE DEF volume
  <2>3. /\ pv'[Source(r)] = volume
        /\ \A s \in Replicas : s # r => pv'[Source(s)] = pv[Source(s)]
    BY <1>0, <2>1, SourceWritten
  <2>4. \A c \in Checkouts : PoolClaim(r) # LockedClaim(c)
    BY DEF PoolClaim, LockedClaim
  <2> QED BY <2>1, <2>2, <2>3, <2>4 
          DEF AccessInv, PoolUseAuthorized, LockedBy
<1>3. CASE UNCHANGED <<pv, pvCache, rec, poolRef, granted>>
  BY <1>3, AccessSurvives DEF QuietAccess
<1> QED BY <1>1, <1>2, <1>3 DEF Environment, CreatePool, PoolDiscard, 
        DeleteClaim, UserDeletesClaim, UserDeletesCheckout, Resync, 
        clusterVars, caches, ctlVars, refs

LEMMA AccessStep == IInv /\ AccessInv /\ [Next]_vars => AccessInv'
<1> SUFFICES ASSUME IInv, AccessInv, [Next]_vars PROVE AccessInv' OBVIOUS
<1>1. CASE SyncPvc \/ SyncPv \/ Crash \/ UNCHANGED vars
  BY <1>1, AccessSurvives DEF QuietAccess, SyncPvc, SyncPv, Crash, vars,
     clusterVars, caches, ctlVars, refs, Idle, Locking
<1>2. CASE Platform
  <2>1. UNCHANGED <<pvCache, ctlVars>>
    BY <1>2 DEF Platform, VolumeController, Collect, DeleteClaim, Bind, 
       LoseClaim, RemoveClaim, Release, Reclaim, RemoveVolume, 
       ReclaimInSteps, DestroyStorage, DeleteDestroyed, caches
  <2>2. VolumesKept
    BY <1>2, PlatformKeepsVolumes DEF IInv
  <2> QED BY <2>1, <2>2, NameTypes, AccessSurvives 
          DEF QuietAccess, VolumesKept, ctlVars, refs
<1> QED BY <1>1, <1>2, LoadAccess, WriteAccess, EnvironmentAccess DEF Next

(* For every number of pools, checkouts and edits: a volume is locked only *)
(* for a checkout that somebody allowed to use its pool has written        *)
(* (webhook/checkout.go:71-140), although the reconcile that locks it may  *)
(* have read another spec than the one stored by then.                     *)
THEOREM PoolUseIsAuthorized == Spec => []PoolUseAuthorized
<1>1. Init => AccessInv
  <2> SUFFICES ASSUME Init PROVE AccessInv OBVIOUS
  <2>1. \A r \in Replicas : 
          ~Exists(pv[Source(r)]) /\ ~Exists(pvCache[Source(r)])
    BY NameTypes DEF Init, ClusterInit, NoPv, Exists
  <2>2. rec.pc \notin Locking
    BY DEF Init, Idle, Locking
  <2>3. \A c \in Checkouts : <<c, poolRef[c]>> \in granted
    BY DEF Init
  <2> QED BY <2>1, <2>2, <2>3 DEF AccessInv, PoolUseAuthorized, LockedBy
<1>2. AccessInv => PoolUseAuthorized
  BY DEF AccessInv
<1> QED BY <1>1, <1>2, AccessStep, Inductive, PTL DEF Spec

=============================================================================
