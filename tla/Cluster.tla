------------------------------- MODULE Cluster -------------------------------
(***************************************************************************)
(* The part of Kubernetes that pvpool writes to and reads from: claims     *)
(* (PersistentVolumeClaims), volumes (PersistentVolumes), the informer     *)
(* caches the controllers read, the persistent volume controller, the      *)
(* protection finalizers and the garbage collector.                        *)
(*                                                                         *)
(* None of this code is in the repository.  Every definition is external   *)
(* and says only what pvpool relies on.                                    *)
(*                                                                         *)
(*  - A claim is named <<"pool", r>> (a replica of a pool),                *)
(*    <<"locked", c>> (the temporary claim of checkout c) or <<"claim", n>> *)
(*    (the claim a checkout hands to its user).                            *)
(*  - A volume is named <<"source", r>> (provisioned for replica r) or     *)
(*    <<"copy", r>> (pvpool-<uid of the source>); both name the same       *)
(*    storage, r.                                                          *)
(*  - An update carries the object as it was loaded and is refused unless  *)
(*    that is still the object stored (resourceVersion).                   *)
(***************************************************************************)
EXTENDS Naturals

CONSTANTS
  Checkouts,      \* Checkout resources
  Replicas,       \* replicas of the pools, hence pieces of storage
  ClaimNames,     \* names of user-visible claims
  Pools,          \* pools, as owners of claims
  Nobody,         \* the owner of a claim that does not exist
  OriginalPolicy, \* reclaim policy the storage class gives to new volumes
  MaxUid          \* bound: how many claims may ever be created under one name

OwnersAssumption == 
  /\ Pools \cap Checkouts = {}
  /\ Nobody \notin Checkouts \cup Pools
PolicyAssumption == OriginalPolicy \in {"Delete", "Retain"}
MaxUidAssumption == MaxUid \in Nat

ASSUME ClusterAssumption == 
  OwnersAssumption /\ PolicyAssumption /\ MaxUidAssumption

VARIABLES
  pvc,        \* claims stored by the API server, by name
  pv,         \* volumes stored by the API server, by name
  uids,       \* how many claims have been created under each name
  destroyed,  \* storage that the provisioner has deleted
  pvcCache,   \* the claims as the informer last delivered them
  pvCache     \* the volumes as the informer last delivered them

clusterVars == <<pvc, pv, uids, destroyed, pvcCache, pvCache>>
caches == <<pvcCache, pvCache>>

-----------------------------------------------------------------------------
(* Names *)

PoolClaim(r) == <<"pool", r>>
LockedClaim(c) == <<"locked", c>>
UserClaim(n) == <<"claim", n>>
Source(r) == <<"source", r>>
Copy(r) == <<"copy", r>>

PvcNames == {PoolClaim(r) : r \in Replicas}
              \cup {LockedClaim(c) : c \in Checkouts}
              \cup {UserClaim(n) : n \in ClaimNames}
PvNames == {Source(r) : r \in Replicas} \cup {Copy(r) : r \in Replicas}

NoClaim == <<"none", "none">>
NoVolume == <<"none", "none">>

-----------------------------------------------------------------------------
(* Objects.  An object that does not exist is the zero value a client holds *)
(* after a load that found nothing.                                         *)

Metas == {"absent", "live", "terminating"}

Pvcs == [meta  : Metas,
         owner : Checkouts \cup Pools \cup {Nobody},
         uid   : Nat,
         vol   : PvNames \cup {NoVolume},
         phase : {"none", "Pending", "Bound", "Lost"},
         stage : {"none", "Initializing", "Available"}]

ClaimRefs == [claim : PvcNames \cup {NoClaim}, uid : Nat]

Pvs == [meta   : Metas,
        ref    : ClaimRefs,
        policy : {"none", "Delete", "Retain"},
        saved  : {"none", "Delete", "Retain"},
        phase  : {"none", "Available", "Bound", "Released"}]

NoPvc == [meta |-> "absent", owner |-> Nobody, uid |-> 0, vol |-> NoVolume,
          phase |-> "none", stage |-> "none"]
NoRef == [claim |-> NoClaim, uid |-> 0]
NoPv == [meta |-> "absent", ref |-> NoRef, policy |-> "none",
         saved |-> "none", phase |-> "none"]

Exists(o) == o.meta # "absent"

ClusterTypeOK ==
  /\ pvc \in [PvcNames -> Pvcs] /\ pvcCache \in [PvcNames -> Pvcs]
  /\ pv \in [PvNames -> Pvs] /\ pvCache \in [PvNames -> Pvs]
  /\ uids \in [PvcNames -> Nat]
  /\ destroyed \subseteq Replicas

ClusterInit ==
  /\ pvc = [n \in PvcNames |-> NoPvc] /\ pvcCache = pvc
  /\ pv = [v \in PvNames |-> NoPv] /\ pvCache = pv
  /\ uids = [n \in PvcNames |-> 0]
  /\ destroyed = {}

-----------------------------------------------------------------------------
(* The API server's answer to a write *)

(* The claim a create stores: it gets the next uid of its name. *)
NewPvc(n, o, v) == [meta |-> "live", owner |-> o, uid |-> uids[n] + 1,
                    vol |-> v, phase |-> "Pending", stage |-> "none"]

(* Create claim n for owner o, pre-bound to volume v. *)
CreateClaim(n, o, v) ==
  /\ ~Exists(pvc[n])
  /\ uids[n] < MaxUid
  /\ pvc' = [pvc EXCEPT ![n] = NewPvc(n, o, v)]
  /\ uids' = [uids EXCEPT ![n] = @ + 1]

(* The volume of a claim may be set once. *)
VolumeImmutable(loaded, v) == loaded.vol \notin {NoVolume, v}

(* Update claim n, loaded earlier, to be pre-bound to volume v. *)
UpdateClaim(n, loaded, v) ==
  /\ pvc[n] = loaded
  /\ ~VolumeImmutable(loaded, v)
  /\ pvc' = [pvc EXCEPT ![n].vol = v]
  /\ UNCHANGED uids

(* Mutant: the write does not compare versions. *)
PutVolumeBlindly(v, loaded, o) == pv' = [pv EXCEPT ![v] = o]

(* Update (or create, when loaded is NoPv) volume v to the object o. *)
PutVolume(v, loaded, o) ==
  /\ pv[v] = loaded
  /\ pv' = [pv EXCEPT ![v] = o]

(* A delete that finds the object only marks it: both kinds have a         *)
(* protection finalizer.                                                   *)
Terminating(o) == [o EXCEPT !.meta = "terminating"]

-----------------------------------------------------------------------------
(* The persistent volume controller *)

RefersTo(o, n, u) == o.ref.claim = n /\ o.ref.uid = u

(* Claim n names volume v and v names claim n: a completed pre-bind. *)
CrossReferenced(n, v) ==
  v \in PvNames /\ Exists(pvc[n]) /\ Exists(pv[v])
    /\ pvc[n].vol = v /\ RefersTo(pv[v], n, pvc[n].uid)

Bind(n) ==
  /\ pvc[n].phase = "Pending"
  /\ CrossReferenced(n, pvc[n].vol)
  /\ pvc' = [pvc EXCEPT ![n].phase = "Bound"]
  /\ pv' = [pv EXCEPT ![pvc[n].vol].phase = "Bound"]
  /\ UNCHANGED <<uids, destroyed, caches>>

(* A bound claim whose volume is gone or has been given to another claim. *)
LoseClaim(n) ==
  /\ pvc[n].phase = "Bound"
  /\ ~CrossReferenced(n, pvc[n].vol)
  /\ pvc' = [pvc EXCEPT ![n].phase = "Lost"]
  /\ UNCHANGED <<pv, uids, destroyed, caches>>

(* The claim a volume refers to is gone. *)
Orphaned(v) ==
  /\ Exists(pv[v])
  /\ pv[v].ref.uid > 0
  /\ pv[v].ref.claim \in PvcNames
  /\ pvc[pv[v].ref.claim].uid # pv[v].ref.uid

Release(v) ==
  /\ Orphaned(v)
  /\ pv[v].phase # "Released"
  /\ pv' = [pv EXCEPT ![v].phase = "Released"]
  /\ UNCHANGED <<pvc, uids, destroyed, caches>>

Reclaimable(v) ==
  Orphaned(v) /\ pv[v].phase = "Released" /\ pv[v].policy = "Delete"

(* A released volume with policy Delete goes, and its storage with it. *)
Reclaim(v) ==
  /\ Reclaimable(v)
  /\ pv' = [pv EXCEPT ![v] = NoPv]
  /\ destroyed' = destroyed \cup {v[2]}
  /\ UNCHANGED <<pvc, uids, caches>>

(* A provisioner that is seen at work: it deletes the storage first and    *)
(* the volume after it, by name, whoever has claimed the volume meanwhile. *)
(* A volume without storage may as well be deleted by hand.                *)
DestroyStorage(v) ==
  /\ Reclaimable(v)
  /\ v[2] \notin destroyed
  /\ destroyed' = destroyed \cup {v[2]}
  /\ UNCHANGED <<pvc, pv, uids, caches>>

DeleteDestroyed(v) ==
  /\ pv[v].meta = "live" /\ v[2] \in destroyed
  /\ pv' = [pv EXCEPT ![v] = Terminating(@)]
  /\ UNCHANGED <<pvc, uids, destroyed, caches>>

(* The protection finalizers let a deleted object go: a volume once it is  *)
(* not bound, a claim once no pod uses it (pods come and go as they like). *)
RemoveVolume(v) ==
  /\ pv[v].meta = "terminating" /\ pv[v].phase # "Bound"
  /\ pv' = [pv EXCEPT ![v] = NoPv]
  /\ UNCHANGED <<pvc, uids, destroyed, caches>>

RemoveClaim(n) ==
  /\ pvc[n].meta = "terminating"
  /\ pvc' = [pvc EXCEPT ![n] = NoPvc]
  /\ UNCHANGED <<pv, uids, destroyed, caches>>

(* Delete claim n from outside the modelled controllers. *)
DeleteClaim(n) ==
  /\ pvc[n].meta = "live"
  /\ pvc' = [pvc EXCEPT ![n] = Terminating(@)]
  /\ UNCHANGED <<pv, uids, destroyed, caches>>

VolumeController ==
  \/ \E n \in PvcNames : Bind(n) \/ LoseClaim(n) \/ RemoveClaim(n)
  \/ \E v \in PvNames : Release(v) \/ Reclaim(v) \/ RemoveVolume(v)

=============================================================================
