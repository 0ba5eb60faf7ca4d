------------------------------ MODULE Checkout ------------------------------
(***************************************************************************)
(* The checkout controller: it takes a volume out of the pool and hands it *)
(* to the user of a Checkout as a claim of their own.                      *)
(*                                                                         *)
(* One reconcile loads what the caches show, then makes four writes, each  *)
(* of which may be refused, fail, or be the last before a crash:           *)
(*                                                                         *)
(*    lockClaim   create <checkout>-locked, pre-bound to the source volume *)
(*    lockVolume  point the source volume at that claim, keep its storage  *)
(*    claim       create the user's claim, pre-bound to the copy           *)
(*    volume      create the copy of the source volume                     *)
(*                                                                         *)
(* or, once the user's claim is bound, deletes what locked the source      *)
(* (dropVolume, dropClaim); last it writes the status.  The controller     *)
(* runs one reconcile at a time.  The pool controller appears here only    *)
(* by what it does to available replicas.                                  *)
(***************************************************************************)
EXTENDS Cluster

CONSTANTS
  ClaimOf,       \* the claim name each checkout asks for
  PoolOf,        \* the pool of each replica
  CreationTime,  \* when the claim of each replica was created
  Events         \* which optional events the environment takes part in

AllEvents == {"crash", "error", "deleteClaim", "deleteCheckout", "shrink",
              "badTemplate", "edit", "resync", "slowReclaim"}

ASSUME CheckoutAssumption ==
  /\ ClaimOf \in [Checkouts -> ClaimNames]
  /\ PoolOf \in [Replicas -> Pools]
  /\ CreationTime \in [Replicas -> Nat]
  /\ Events \subseteq AllEvents

VARIABLES
  rec,        \* the reconcile in progress: its position and what it loaded
  queue,      \* checkouts waiting in the work queue
  checkouts,  \* checkouts that exist
  status,     \* the status subresource of each checkout
  pools,      \* pools that exist
  poolRef,    \* the pool in the spec of each checkout
  granted,    \* history: who was allowed to use which pool
  edited      \* whether the spec changed since the reconcile loaded it

refs == <<poolRef, granted, edited>>
ctlVars == <<rec, queue, checkouts, status, pools, refs>>
vars == <<clusterVars, ctlVars>>

-----------------------------------------------------------------------------
Steps == {"idle", "lockClaim", "lockVolume", "claim", "volume",
          "dropVolume", "dropClaim", "status"}
Reasons == {"none", "PoolDoesNotExist", "NotAvailable", "Conflict",
            "Invalid", "CheckedOut"}

Recs == [pc          : Steps,
         c           : Checkouts \cup {Nobody},
         lockedClaim : Pvcs,                      \* LockedPersistentVolumeClaim
         source      : PvNames \cup {NoVolume},   \* LockedPersistentVolume
         sourceObj   : Pvs,
         claim       : Pvcs,                      \* PersistentVolumeClaim
         volume      : PvNames \cup {NoVolume},   \* PersistentVolume
         volumeObj   : Pvs,
         reason      : Reasons,
         result      : {"ok", "error"}]

Statuses == [volume : PvNames \cup {NoVolume},
             claim  : PvcNames \cup {NoClaim},
             reason : Reasons]

(* Type invariant: stored, cached and loaded objects are API objects, the  *)
(* reconcile is at a step of checkout_state.go.                            *)
TypeOK ==
  /\ ClusterTypeOK
  /\ rec \in Recs /\ (rec.pc # "idle" => rec.c \in Checkouts)
  /\ checkouts \subseteq Checkouts /\ queue \subseteq Checkouts
  /\ status \in [Checkouts -> Statuses]
  /\ pools \subseteq Pools
  /\ poolRef \in [Checkouts -> Pools] /\ granted \subseteq Checkouts \X Pools
  /\ edited \in BOOLEAN

Idle == [pc |-> "idle", c |-> Nobody, lockedClaim |-> NoPvc,
         source |-> NoVolume, sourceObj |-> NoPv, claim |-> NoPvc,
         volume |-> NoVolume, volumeObj |-> NoPv, reason |-> "none",
         result |-> "ok"]

NoStatus == [volume |-> NoVolume, claim |-> NoClaim, reason |-> "none"]

Init ==
  /\ ClusterInit
  /\ rec = Idle
  /\ checkouts = Checkouts /\ queue = Checkouts
  /\ status = [c \in Checkouts |-> NoStatus]
  /\ pools \in SUBSET Pools
  /\ poolRef \in [Checkouts -> Pools]
  /\ granted = {<<c, poolRef[c]>> : c \in Checkouts}
  /\ edited = FALSE

-----------------------------------------------------------------------------
(* Load *)

ClaimFor(c) == UserClaim(ClaimOf[c])

(* The volume a cached claim names, if it names the claim back. *)
LoadedVolume(n) ==
  LET v == pvcCache[n].vol IN
  IF /\ v \in PvNames
     /\ Exists(pvCache[v])
     /\ RefersTo(pvCache[v], n, pvcCache[n].uid)
  THEN v ELSE NoVolume

VolumeObject(v) == IF v \in PvNames THEN pvCache[v] ELSE NoPv

Loaded(c) ==
  LET source == LoadedVolume(LockedClaim(c))
      volume == LoadedVolume(ClaimFor(c))
  IN [pc |-> "lockClaim", c |-> c,
      lockedClaim |-> pvcCache[LockedClaim(c)],
      source |-> source, sourceObj |-> VolumeObject(source),
      claim |-> pvcCache[ClaimFor(c)],
      volume |-> volume, volumeObj |-> VolumeObject(volume),
      reason |-> "none", result |-> "ok"]

(* Mutant: the owner of an existing claim is not looked at. *)
ForeignIgnored(n, c) == FALSE

Foreign(n, c) == Exists(pvcCache[n]) /\ pvcCache[n].owner # c

Conflicting(c) == Foreign(LockedClaim(c), c) \/ Foreign(ClaimFor(c), c)

(* A replica of the checkout's pool whose claim is bound both ways, not    *)
(* being deleted, and whose init job has completed.                        *)
Available(c, r) ==
  LET n == PoolClaim(r) IN
  /\ PoolOf[r] = poolRef[c]
  /\ pvcCache[n].meta = "live"
  /\ pvcCache[n].phase = "Bound"
  /\ pvcCache[n].stage = "Available"
  /\ LoadedVolume(n) = Source(r)

Oldest(c, r) ==
  /\ Available(c, r)
  /\ \A s \in Replicas : 
       Available(c, s) => CreationTime[r] <= CreationTime[s]

(* ConfigureCheckoutState names the copy after the source unless the claim *)
(* already has a volume of its own.                                        *)
Configured(l) ==
  IF l.volume = NoVolume THEN [l EXCEPT !.volume = Copy(l.source[2])] ELSE l

Begin(c) ==
  /\ rec.pc = "idle"
  /\ c \in queue
  /\ queue' = queue \ {c}
  /\ UNCHANGED <<clusterVars, checkouts, status, pools, refs>>

LoadMissing(c) ==
  /\ Begin(c)
  /\ c \notin checkouts
  /\ UNCHANGED rec

LoadConflict(c) ==
  /\ Begin(c)
  /\ c \in checkouts
  /\ Conflicting(c)
  /\ rec' = [Idle EXCEPT !.pc = "status", !.c = c,
                         !.reason = "Conflict", !.result = "error"]

(* Mutant: any claim counts as bound. *)
LoadBoundOrPending(c) ==
  /\ Begin(c)
  /\ c \in checkouts /\ ~Conflicting(c)
  /\ Exists(Loaded(c).claim)
  /\ rec' = [Loaded(c) EXCEPT !.pc = "dropVolume", !.reason = "CheckedOut"]

(* Mutant: a checkout that was acquired is not looked at again. *)
LoadBoundOnce(c) ==
  /\ Begin(c)
  /\ c \in checkouts /\ ~Conflicting(c)
  /\ Loaded(c).claim.phase = "Bound"
  /\ rec' = IF status[c].reason = "CheckedOut" THEN rec
            ELSE [Loaded(c) EXCEPT !.pc = "dropVolume", 
                                   !.reason = "CheckedOut"]

LoadBound(c) ==
  /\ Begin(c)
  /\ c \in checkouts /\ ~Conflicting(c)
  /\ Loaded(c).claim.phase = "Bound"
  /\ rec' = [Loaded(c) EXCEPT !.pc = "dropVolume", !.reason = "CheckedOut"]

LoadLocked(c) ==
  /\ Begin(c)
  /\ c \in checkouts /\ ~Conflicting(c)
  /\ Loaded(c).claim.phase # "Bound"
  /\ Loaded(c).source # NoVolume
  /\ rec' = Configured(Loaded(c))

NeedsPool(c) ==
  /\ c \in checkouts /\ ~Conflicting(c)
  /\ Loaded(c).claim.phase # "Bound"
  /\ Loaded(c).source = NoVolume

LoadFromPool(c) ==
  /\ Begin(c)
  /\ NeedsPool(c)
  /\ poolRef[c] \in pools
  /\ \E r \in Replicas :
       /\ Oldest(c, r)
       /\ rec' = Configured([Loaded(c) EXCEPT
                    !.source = Source(r), !.sourceObj = pvCache[Source(r)]])

LoadWithoutVolume(c, why) ==
  /\ Begin(c)
  /\ NeedsPool(c)
  /\ rec' = [Loaded(c) EXCEPT !.pc = "status", !.reason = why,
                              !.result = "error"]

LoadNotAvailable(c) ==
  /\ poolRef[c] \in pools
  /\ \A r \in Replicas : ~Available(c, r)
  /\ LoadWithoutVolume(c, "NotAvailable")

LoadPoolDoesNotExist(c) ==
  /\ poolRef[c] \notin pools
  /\ LoadWithoutVolume(c, "PoolDoesNotExist")

Load(c) ==
  \/ LoadMissing(c) \/ LoadConflict(c) \/ LoadBound(c) \/ LoadLocked(c)
  \/ LoadFromPool(c) \/ LoadNotAvailable(c) \/ LoadPoolDoesNotExist(c)

-----------------------------------------------------------------------------
(* Persist: the four writes that lock a source and hand out its copy *)

Goto(step) == rec' = [rec EXCEPT !.pc = step]
Abandon(why) == 
  rec' = [rec EXCEPT !.pc = "status", !.reason = why, !.result = "error"]

Locked == LockedClaim(rec.c)
Wanted == ClaimFor(rec.c)

(* Mutant: the annotation is set again on every reconcile. *)
PolicySavedAgain == rec.sourceObj.policy

(* The reclaim policy the source had before anything locked it. *)
SavedPolicy == 
  IF rec.sourceObj.saved = "none" THEN rec.sourceObj.policy 
                                  ELSE rec.sourceObj.saved

(* Mutant: the source keeps its reclaim policy. *)
LockedSourceNotRetained ==
  [rec.sourceObj EXCEPT 
     !.ref = [claim |-> Locked, uid |-> rec.lockedClaim.uid],
     !.saved = SavedPolicy]

LockedSource ==
  [rec.sourceObj EXCEPT
     !.ref = [claim |-> Locked, uid |-> rec.lockedClaim.uid],
     !.policy = "Retain",
     !.saved = SavedPolicy]

(* Mutant: the copy keeps the claim reference of its source. *)
CopiedVolumeOfSource ==
  [rec.sourceObj EXCEPT
     !.meta = "live", !.policy = SavedPolicy, !.saved = SavedPolicy]

CopiedVolume ==
  [meta |-> IF Exists(rec.volumeObj) THEN rec.volumeObj.meta ELSE "live",
   ref |-> [claim |-> Wanted, uid |-> rec.claim.uid],
   policy |-> SavedPolicy,
   saved |-> SavedPolicy,
   phase |-> IF Exists(rec.volumeObj) THEN rec.volumeObj.phase
                                      ELSE "Available"]

SaveClaim(n, loaded, v) ==
  \/ ~Exists(loaded) /\ CreateClaim(n, rec.c, v)
  \/ Exists(loaded) /\ UpdateClaim(n, loaded, v)

Persisting == 
  UNCHANGED <<destroyed, caches, queue, checkouts, status, pools, refs>>

(* Mutant: the copy is made before the source is locked. *)
LockClaimThenCopy ==
  /\ rec.pc = "lockClaim"
  /\ SaveClaim(Locked, rec.lockedClaim, rec.source)
  /\ rec' = [rec EXCEPT !.pc = "claim", !.lockedClaim = pvc'[Locked]]
  /\ UNCHANGED pv /\ Persisting

LockClaim ==
  /\ rec.pc = "lockClaim"
  /\ SaveClaim(Locked, rec.lockedClaim, rec.source)
  /\ rec' = [rec EXCEPT !.pc = "lockVolume", !.lockedClaim = pvc'[Locked]]
  /\ UNCHANGED pv /\ Persisting

LockVolume ==
  /\ rec.pc = "lockVolume"
  /\ PutVolume(rec.source, rec.sourceObj, LockedSource)
  /\ rec' = [rec EXCEPT !.pc = "claim", !.sourceObj = LockedSource]
  /\ UNCHANGED <<pvc, uids>> /\ Persisting

PersistClaim ==
  /\ rec.pc = "claim"
  /\ SaveClaim(Wanted, rec.claim, rec.volume)
  /\ rec' = [rec EXCEPT !.pc = "volume", !.claim = pvc'[Wanted]]
  /\ UNCHANGED pv /\ Persisting

(* A volume's storage can never be changed, so a copy is written only from *)
(* the source of the same storage.                                         *)
PersistVolume ==
  /\ rec.pc = "volume"
  /\ rec.volume[2] = rec.source[2]
  /\ PutVolume(rec.volume, rec.volumeObj, CopiedVolume)
  /\ rec' = [rec EXCEPT !.pc = "status", !.volumeObj = CopiedVolume]
  /\ UNCHANGED <<pvc, uids>> /\ Persisting

(* Mutant: an invalid locked claim does not end the reconcile. *)
InvalidClaimIgnored ==
  /\ rec.pc = "lockClaim"
  /\ Exists(rec.lockedClaim) /\ pvc[Locked] = rec.lockedClaim
  /\ VolumeImmutable(rec.lockedClaim, rec.source)
  /\ rec' = [rec EXCEPT !.pc = "lockVolume", !.reason = "Invalid"]
  /\ UNCHANGED <<pvc, pv, uids>> /\ Persisting

(* Only a claim refused as invalid is reported as such: the volume it      *)
(* names already is another one, or what the checkout asks for is refused. *)
InvalidClaim ==
  /\ \/ /\ rec.pc = "lockClaim"
        /\ Exists(rec.lockedClaim) /\ pvc[Locked] = rec.lockedClaim
        /\ VolumeImmutable(rec.lockedClaim, rec.source)
     \/ /\ rec.pc = "claim"
        /\ Exists(rec.claim) /\ pvc[Wanted] = rec.claim
        /\ VolumeImmutable(rec.claim, rec.volume)
     \/ /\ rec.pc = "claim"
        /\ ~Exists(rec.claim) /\ ~Exists(pvc[Wanted])
        /\ "badTemplate" \in Events
  /\ Abandon("Invalid")
  /\ UNCHANGED <<pvc, pv, uids>> /\ Persisting

(* The object written is not the one that was loaded. *)
Stale ==
  \/ rec.pc = "lockClaim" /\ pvc[Locked] # rec.lockedClaim
  \/ rec.pc = "lockVolume" /\ pv[rec.source] # rec.sourceObj
  \/ rec.pc = "claim" /\ pvc[Wanted] # rec.claim
  \/ rec.pc = "volume" /\ \/ pv[rec.volume] # rec.volumeObj
                          \/ rec.volume[2] # rec.source[2]
  \/ rec.pc = "dropVolume" /\ rec.source # NoVolume
       /\ pv[rec.source] \notin {rec.sourceObj, NoPv}
  \/ rec.pc = "dropClaim" /\ Exists(rec.lockedClaim)
       /\ pvc[Locked] \notin {rec.lockedClaim, NoPvc}

WriteFails ==
  /\ rec.pc \notin {"idle", "status"}
  /\ Stale \/ "error" \in Events
  /\ Abandon(rec.reason)
  /\ UNCHANGED <<pvc, pv, uids>> /\ Persisting

-----------------------------------------------------------------------------
(* Persist, once the user's claim is bound: unlock *)

NothingToDrop == rec.source \in PvNames => ~Exists(pv[rec.source])

(* A delete names the object that was loaded.  Whether the API server also *)
(* compares its version is up to the client library: if the object changed *)
(* meanwhile the delete may succeed here or fail as Stale.                 *)
DropVolume ==
  /\ rec.pc = "dropVolume"
  /\ IF NothingToDrop THEN UNCHANGED pv
     ELSE pv' = [pv EXCEPT ![rec.source] = Terminating(@)]
  /\ Goto("dropClaim")
  /\ UNCHANGED <<pvc, uids>> /\ Persisting

DropClaim ==
  /\ rec.pc = "dropClaim"
  /\ IF Exists(rec.lockedClaim) /\ Exists(pvc[Locked])
     THEN pvc' = [pvc EXCEPT ![Locked] = Terminating(@)]
     ELSE UNCHANGED pvc
  /\ Goto("status")
  /\ UNCHANGED <<pv, uids>> /\ Persisting

-----------------------------------------------------------------------------
(* ConfigureCheckout and PersistStatus, deferred: they run on every path *)

(* Mutant: the reference holds the bare name of the claim. *)
NewStatusBareName ==
  [volume |-> rec.volume, claim |-> ClaimOf[rec.c], reason |-> rec.reason]

(* Mutant: the claim is named whether it is bound or not. *)
NewStatusTooEarly ==
  [volume |-> rec.volume,
   claim |-> IF rec.volume # NoVolume THEN Wanted ELSE NoClaim,
   reason |-> rec.reason]

NewStatus ==
  [volume |-> rec.volume,
   claim |-> IF rec.volume # NoVolume /\ rec.claim.phase = "Bound"
             THEN Wanted ELSE NoClaim,
   reason |-> rec.reason]

(* Any error, and any change of the status, puts the checkout back on the  *)
(* queue.                                                                  *)
WriteStatus ==
  /\ rec.pc = "status"
  /\ rec.c \in checkouts /\ ~edited
  /\ status' = [status EXCEPT ![rec.c] = NewStatus]
  /\ queue' = IF rec.result = "error" \/ NewStatus # status[rec.c]
              THEN queue \cup {rec.c} ELSE queue
  /\ rec' = Idle
  /\ UNCHANGED <<clusterVars, checkouts, pools, refs>>

StatusFails ==
  /\ rec.pc = "status"
  /\ rec.c \notin checkouts \/ edited \/ "error" \in Events
  /\ queue' = queue \cup {rec.c}
  /\ rec' = Idle /\ edited' = FALSE
  /\ UNCHANGED <<clusterVars, checkouts, status, pools, poolRef, granted>>

Write ==
  \/ LockClaim \/ LockVolume \/ PersistClaim \/ PersistVolume
  \/ InvalidClaim \/ DropVolume \/ DropClaim \/ WriteStatus
Fail == WriteFails \/ StatusFails

-----------------------------------------------------------------------------
(* Informers: a change of a claim queues its owner, a change of a volume   *)
(* queues nobody.                                                          *)

SyncPvc ==
  /\ pvcCache # pvc
  /\ pvcCache' = pvc
  /\ queue' = queue \cup {c \in checkouts : \E n \in PvcNames :
                            /\ pvc[n] # pvcCache[n]
                            /\ c \in {pvc[n].owner, pvcCache[n].owner}}
  /\ UNCHANGED <<pvc, pv, uids, destroyed, pvCache>>
  /\ UNCHANGED <<rec, checkouts, status, pools, refs>>

SyncPv ==
  /\ pvCache # pv
  /\ pvCache' = pv
  /\ UNCHANGED <<pvc, pv, uids, destroyed, pvcCache, ctlVars>>

(* The manager's periodic resync queues every checkout. *)
Resync ==
  /\ "resync" \in Events
  /\ queue # checkouts
  /\ queue' = queue \cup checkouts
  /\ UNCHANGED <<clusterVars, rec, checkouts, status, pools, refs>>

(* The process stops anywhere and another lists everything anew. *)
Crash ==
  /\ "crash" \in Events
  /\ rec.pc # "idle"
  /\ rec' = Idle /\ edited' = FALSE
  /\ queue' = checkouts
  /\ pvcCache' = pvc /\ pvCache' = pv
  /\ UNCHANGED <<pvc, pv, uids, destroyed, checkouts, status, pools>>
  /\ UNCHANGED <<poolRef, granted>>

-----------------------------------------------------------------------------
(* The pool, the user and the garbage collector *)

CreatePool(p) ==
  /\ p \notin pools
  /\ pools' = pools \cup {p}
  /\ UNCHANGED <<clusterVars, rec, queue, checkouts, status, refs>>

(* A replica becomes available. *)
PoolStock(r) ==
  /\ PoolOf[r] \in pools
  /\ uids[PoolClaim(r)] = 0
  /\ uids' = [uids EXCEPT ![PoolClaim(r)] = 1]
  /\ pvc' = [pvc EXCEPT ![PoolClaim(r)] =
       [meta |-> "live", owner |-> PoolOf[r], uid |-> 1,
        vol |-> Source(r), phase |-> "Bound", stage |-> "Available"]]
  /\ pv' = [pv EXCEPT ![Source(r)] =
       [meta |-> "live", ref |-> [claim |-> PoolClaim(r), uid |-> 1],
        policy |-> OriginalPolicy, saved |-> "none", phase |-> "Bound"]]
  /\ UNCHANGED <<destroyed, caches, ctlVars>>

(* The pool deletes a replica: it scales down, or finds that the replica   *)
(* lost its volume.                                                        *)
PoolDiscard(r) ==
  /\ "shrink" \in Events
  /\ DeleteClaim(PoolClaim(r))
  /\ UNCHANGED ctlVars

(* The user deletes the claim they were given. *)
UserDeletesClaim(n) ==
  /\ "deleteClaim" \in Events
  /\ pvc[UserClaim(n)].phase = "Bound"
  /\ DeleteClaim(UserClaim(n))
  /\ UNCHANGED ctlVars

UserDeletesCheckout(c) ==
  /\ "deleteCheckout" \in Events
  /\ c \in checkouts
  /\ checkouts' = checkouts \ {c}
  /\ queue' = queue \cup {c}
  /\ UNCHANGED <<clusterVars, rec, status, pools, refs>>

(* Mutant: only the creation of a checkout is reviewed. *)
ReviewedOnCreate(operation, mayUse) == operation = "create" => mayUse

(* The second webhook: whoever creates or changes a checkout must be       *)
(* allowed to use the pool it names then.                                  *)
Reviewed(operation, mayUse) == 
  operation \in {"create", "update"} => mayUse

(* The first webhook: the spec is fixed while the status names a volume.   *)
ValidateCheckoutUpdate(c, new) ==
  status[c].volume # NoVolume => new = poolRef[c]

(* A user, who may or may not use pool p, names it in the checkout.        *)
(* Bound: no checkout is moved to a pool twice.                            *)
UserEditsCheckout(c) ==
  /\ "edit" \in Events
  /\ c \in checkouts
  /\ \E p \in Pools, mayUse \in BOOLEAN :
       /\ p # poolRef[c] /\ <<c, p>> \notin granted
       /\ ValidateCheckoutUpdate(c, p)
       /\ Reviewed("update", mayUse)
       /\ poolRef' = [poolRef EXCEPT ![c] = p]
       /\ granted' = IF mayUse THEN granted \cup {<<c, p>>} ELSE granted
  /\ edited' = (edited \/ rec.c = c)
  /\ queue' = queue \cup {c}
  /\ UNCHANGED <<clusterVars, rec, checkouts, status, pools>>

Collect(n) ==
  /\ pvc[n].owner \in Checkouts \ checkouts
  /\ DeleteClaim(n)
  /\ UNCHANGED ctlVars

(* The storage of a reclaimed volume and the volume go one after the other. *)
ReclaimInSteps(v) ==
  /\ "slowReclaim" \in Events
  /\ DestroyStorage(v) \/ DeleteDestroyed(v)
  /\ UNCHANGED ctlVars

Platform ==
  \/ VolumeController /\ UNCHANGED ctlVars
  \/ \E v \in PvNames : ReclaimInSteps(v)
  \/ \E n \in PvcNames : Collect(n)

Environment ==
  \/ \E p \in Pools : CreatePool(p)
  \/ \E r \in Replicas : PoolStock(r) \/ PoolDiscard(r)
  \/ \E n \in ClaimNames : UserDeletesClaim(n)
  \/ \E c \in Checkouts : UserDeletesCheckout(c) \/ UserEditsCheckout(c)
  \/ Resync

Next ==
  \/ \E c \in Checkouts : Load(c)
  \/ Write \/ Fail
  \/ SyncPvc \/ SyncPv \/ Crash
  \/ Platform \/ Environment

Spec == Init /\ [][Next]_vars

(* The work queue serves every item, informers deliver, the volume         *)
(* controller acts, the pool fills.  Nothing obliges users, failures,      *)
(* crashes or the pool's scaling down to happen.                           *)
Fairness ==
  /\ \A c \in Checkouts : SF_vars(Load(c))
  /\ WF_vars(Write \/ Fail)
  /\ WF_vars(SyncPvc) /\ WF_vars(SyncPv)
  /\ WF_vars(VolumeController /\ UNCHANGED ctlVars)
  /\ \A p \in Pools : WF_vars(CreatePool(p))
  /\ \A r \in Replicas : WF_vars(PoolStock(r))
  /\ WF_vars(Resync)

FairSpec == Spec /\ Fairness

-----------------------------------------------------------------------------
(* Safety *)

LockedBy(r, c) == 
  Exists(pv[Source(r)]) /\ pv[Source(r)].ref.claim = LockedClaim(c)

(* Claim n is bound to volume v and v still names it. *)
Holds(n, v) == pvc[n].phase = "Bound" /\ CrossReferenced(n, v)

HandedOut(c, r) == Holds(ClaimFor(c), Copy(r))

(* While a copy of a volume exists, deleting the claim that locks its      *)
(* source cannot take the storage away: the source is already set to       *)
(* Retain when the copy is written (checkout_state.go:330-332).            *)
RetainBeforeCopy ==
  \A r \in Replicas :
    Exists(pv[Copy(r)]) /\ Exists(pv[Source(r)])
      => pv[Source(r)].policy = "Retain"

(* The reclaim policy of the storage class survives the detour through     *)
(* Retain, however often the configuration is repeated: a volume of the    *)
(* pool and every copy carry it (checkout_state.go:278-285, 301).          *)
OriginalPolicyKept ==
  \A r \in Replicas :
    /\ Exists(pv[Copy(r)]) => pv[Copy(r)].policy = OriginalPolicy
    /\ Exists(pv[Source(r)]) =>
         pv[Source(r)].policy = OriginalPolicy
           \/ pv[Source(r)].saved = OriginalPolicy

(* Storage is never in two hands: while the pool still holds a source      *)
(* there is no copy of it, and a copy belongs to the checkout that locked  *)
(* the source, whatever the caches showed the others.                      *)
ExclusiveStorage ==
  \A r \in Replicas : 
    Exists(pv[Source(r)]) /\ Exists(pv[Copy(r)]) =>
      \E c \in Checkouts : 
        LockedBy(r, c) /\ pv[Copy(r)].ref.claim = ClaimFor(c)

(* Of checkouts that ask for the same claim name only the one that owns    *)
(* the claim, and locked the source of the volume in it, reports it        *)
(* (checkout_state.go:132-139).                                            *)
ReportedByOwner ==
  \A c \in Checkouts : status[c].reason = "CheckedOut" =>
    \E r \in Replicas :
      /\ HandedOut(c, r) /\ pvc[ClaimFor(c)].owner = c
      /\ Exists(pv[Source(r)]) => LockedBy(r, c)

(* A checkout locks one volume at a time: repeating the reconcile after a  *)
(* failure, a crash or on stale caches never ties up a second one.         *)
OneVolumePerCheckout ==
  \A c \in Checkouts : \A r, s \in Replicas :
    LockedBy(r, c) /\ LockedBy(s, c) => r = s

(* A volume leaves a pool only for a checkout that somebody allowed to use *)
(* the pool has written, whenever the spec is changed: before the first    *)
(* volume is selected or while a stale cache leaves the status without one *)
(* (webhook/checkout.go:71-140, validation.go:90-97).                      *)
PoolUseAuthorized ==
  \A c \in Checkouts : \A r \in Replicas :
    LockedBy(r, c) => <<c, PoolOf[r]>> \in granted

(* The source is given up only after its storage has been handed out       *)
(* (checkout_state.go:180-186).                                            *)
DropAfterHandover ==
  \A r \in Replicas :
    pv[Source(r)].meta = "terminating" =>
      \E c \in Checkouts : LockedBy(r, c) /\ HandedOut(c, r)

(* Storage that was provisioned and not deleted is still named by a        *)
(* volume, so that somebody can find it.                                   *)
NoStorageLost ==
  \A r \in Replicas :
    uids[PoolClaim(r)] > 0 /\ r \notin destroyed
      => Exists(pv[Source(r)]) \/ Exists(pv[Copy(r)])

(* No volume that a checkout locked or handed out names deleted storage,   *)
(* however the pool's removal of the replica races with the lock, if the   *)
(* provisioner removes volume and storage at once.  If it takes two steps  *)
(* ("slowReclaim") nothing keeps a reconcile on old caches from locking a  *)
(* volume in between: the code never looks at the phase of the volume      *)
(* (checkout_state.go:321-332).                                            *)
StorageSurvives ==
  \A r \in destroyed : 
    ~Exists(pv[Copy(r)]) /\ \A c \in Checkouts : ~LockedBy(r, c)

(* A checkout that reports CheckedOut has a bound claim, and the volume    *)
(* and claim it names are the ones bound (checkout.go:9-24).  A status     *)
(* that a reconcile on old caches cleared names nothing and is truthful;   *)
(* EventuallyNamed says that it does not stay so.                          *)
StatusTruthful ==
  \A c \in Checkouts :
    /\ status[c].reason = "CheckedOut" => \E r \in Replicas : HandedOut(c, r)
    /\ status[c].claim # NoClaim => HandedOut(c, status[c].volume[2])

(* A volume locked for a checkout is never taken over by another checkout  *)
(* or put back under the pool.                                             *)
LockIsFinal ==
  [][\A r \in Replicas : \A c \in Checkouts :
       LockedBy(r, c) => LockedBy(r, c)' \/ ~Exists(pv'[Source(r)])]_vars

-----------------------------------------------------------------------------
(* The abstract specification *)

(* From lockVolume on the reconcile itself holds the storage: it can still *)
(* make the copy when the source is gone.                                  *)
InFlight(r) == rec.pc \in {"claim", "volume"} /\ rec.source = Source(r)

(* The source and the copy of storage r tell who has it. *)
Custody(r) ==
  LET source == pv[Source(r)] 
      copy == pv[Copy(r)] IN
  IF uids[PoolClaim(r)] = 0 THEN <<"unmade", "none">>
  ELSE IF Exists(copy) THEN <<"given", copy.ref.claim>>
  ELSE IF InFlight(r) THEN <<"locked", rec.c>>
  ELSE IF ~Exists(source) THEN <<"gone", "none">>
  ELSE IF source.ref.claim = PoolClaim(r) THEN <<"pool", "none">>
  ELSE <<"locked", source.ref.claim[2]>>

Promise == 
  INSTANCE Storage WITH Pieces <- Replicas, 
                        Checkouts <- Checkouts,
                        ClaimOf <- [c \in Checkouts |-> ClaimFor(c)],
                        custody <- [r \in Replicas |-> Custody(r)]

(* However reconciles fail, crash or read stale caches, and whoever else   *)
(* deletes what: each step changes the custody of one volume at most, and  *)
(* only in a way that Storage allows (checkout_state.go:205-236, 270-345). *)
KeepsCustody == Promise!Spec

-----------------------------------------------------------------------------
(* Liveness *)

(* With a volume for it in the pool a checkout is acquired, for good: a    *)
(* reconcile that found nothing, was refused or read stale caches is       *)
(* repeated until one succeeds.                                            *)
EventuallyAcquired ==
  \A c \in Checkouts : <>[](status[c].reason = "CheckedOut")

(* The status of an acquired checkout names the claim in the end.  Nothing *)
(* but the periodic resync guarantees it: no event queues a checkout whose *)
(* last reconcile saw the claim bound before it saw the volume.            *)
EventuallyNamed ==
  \A c \in Checkouts : <>[](status[c].claim = ClaimFor(c))

-----------------------------------------------------------------------------
(* What the documentation says and the code does not keep *)

(* Invalid is "used to indicate that the PVC template for this checkout is *)
(* invalid" (checkout_types.go:64-65).  Here only of a checkout that has   *)
(* not locked the volume its locked claim names.                           *)
InvalidOnlyForBadTemplate ==
  \A c \in Checkouts : status[c].reason = "Invalid" =>
    \/ "badTemplate" \in Events
    \/ \E r \in Replicas :
         pvc[LockedClaim(c)].vol = Source(r) /\ LockedBy(r, c)

(* "A checkout always acquires a new volume from the pool if the claim of  *)
(* the volume it references is deleted" (CHANGELOG.md:43): a second claim  *)
(* is never backed by storage that went with the first.                    *)
NewVolumeAfterDeletion ==
  \A c \in Checkouts : \A r \in destroyed : 
    pvc[ClaimFor(c)].uid > 1 => ~HandedOut(c, r)

(* "Now that we've allocated everything, we no longer need the locked PV   *)
(* (must be manually deleted) or PVC" (checkout_state.go:180-181): when    *)
(* the locked claim is gone the controller has deleted the source too.     *)
UnlockedCompletely ==
  \A c \in Checkouts : \A r \in Replicas :
    HandedOut(c, r) /\ ~Exists(pvc[LockedClaim(c)]) /\ LockedBy(r, c)
      => pv[Source(r)].meta = "terminating"

=============================================================================
