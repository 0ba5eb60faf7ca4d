----------------------------- MODULE MCCheckout -----------------------------
(* Instances of Checkout for TLC. *)
EXTENDS Checkout, TLC

CONSTANTS c1, c2, r1, r2, n1, n2, p1, p2

(* Each checkout asks for a claim of its own; all ask for the same one. *)
ClaimEach == [c \in Checkouts |-> IF c = c1 THEN n1 ELSE n2]
SameClaim == [c \in Checkouts |-> n1]

(* One pool, or one for each replica. *)
OnePool == [r \in Replicas |-> p1]
PoolEach == [r \in Replicas |-> IF r = r1 THEN p1 ELSE p2]

(* Replica r1 is the older one; both were created in the same second. *)
OlderFirst == [r \in Replicas |-> IF r = r1 THEN 1 ELSE 2]
SameTime == [r \in Replicas |-> 1]

(* Exchanging the checkouts changes nothing when they ask for the same     *)
(* claim.                                                                  *)
Exchange == Permutations(Checkouts)

(* Exchanging pools together with their replicas changes nothing.          *)
ExchangePools == 
  {f \in Permutations(Pools \cup Replicas) : 
     \A r \in Replicas : f[r] \in Replicas /\ PoolOf[f[r]] = f[PoolOf[r]]}

(* Bound: states in which c1 has locked a second time, or lost lock and    *)
(* claim, in which its second claim is deleted or has outlived the lock,   *)
(* in which c1 was deleted and has two claims, or neither a lock nor a     *)
(* source that is on its way out, or in which storage is deleted before    *)
(* the volumes that name it and c1 is deleted or has a second claim, are   *)
(* checked and not expanded.  What the run checks is proved without it.    *)
FewClaims ==
  /\ uids[LockedClaim(c1)] <= 1
  /\ uids[LockedClaim(c1)] = 1 /\ uids[UserClaim(n1)] = 1 =>
       Exists(pvc[LockedClaim(c1)]) \/ Exists(pvc[UserClaim(n1)])
         \/ c1 \notin checkouts
  /\ uids[UserClaim(n1)] = 2 =>
       pvc[UserClaim(n1)].meta = "live" /\ Exists(pvc[LockedClaim(c1)])
  /\ c1 \notin checkouts => 
       /\ uids[UserClaim(n1)] <= 1
       /\ \/ Exists(pvc[LockedClaim(c1)])
          \/ \E r \in Replicas : pv[Source(r)].meta = "terminating"
  /\ \A r \in destroyed : 
       Exists(pv[Source(r)]) \/ Exists(pv[Copy(r)]) =>
         c1 \in checkouts /\ uids[UserClaim(n1)] <= 1

(* What a reconcile still reads of what it loaded.  States that differ in  *)
(* nothing but the rest have the same future.                              *)
Unlocking == rec.pc \in {"dropVolume", "dropClaim", "status"}
Needed ==
  <<[rec EXCEPT
       !.lockedClaim = IF rec.pc \in {"claim", "volume", "status"} 
                       THEN NoPvc ELSE @,
       !.source = IF rec.pc \in {"dropClaim", "status"} THEN NoVolume ELSE @,
       !.sourceObj = IF rec.pc \in {"dropClaim", "status"} THEN NoPv ELSE @,
       !.claim = IF Unlocking THEN [NoPvc EXCEPT !.phase = rec.claim.phase]
                              ELSE @,
       !.volumeObj = IF Unlocking THEN NoPv ELSE @],
    clusterVars, queue, checkouts, status, pools, refs>>
=============================================================================
