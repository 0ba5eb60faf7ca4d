------------------------------- MODULE Storage -------------------------------
(***************************************************************************)
(* What the checkout controller promises of each piece of storage, without *)
(* claims, volumes, caches or reconciles: it is in one custody at a time,  *)
(* leaves the pool for one checkout only, is given to the claim that this  *)
(* checkout asks for and to no other, and goes for good.                   *)
(***************************************************************************)
CONSTANTS
  Pieces,     \* pieces of storage
  Checkouts,  \* Checkout resources
  ClaimOf     \* the claim name each checkout asks for

VARIABLE custody

Unmade == <<"unmade", "none">>
InPool == <<"pool", "none">>
LockedFor(c) == <<"locked", c>>
GivenTo(n) == <<"given", n>>
Gone == <<"gone", "none">>

Init == custody = [p \in Pieces |-> Unmade]

Moves(p, from, to) ==
  custody[p] = from /\ custody' = [custody EXCEPT ![p] = to]

(* The pool has a new replica. *)
Stock(p) == Moves(p, Unmade, InPool)

(* A checkout takes the replica out of the pool. *)
Lock(p, c) == Moves(p, InPool, LockedFor(c))

(* The claim of the checkout gets it. *)
Give(p, c) == Moves(p, LockedFor(c), GivenTo(ClaimOf[c]))

(* The claim is deleted before the lock is: the checkout has it back. *)
Return(p, c) == Moves(p, GivenTo(ClaimOf[c]), LockedFor(c))

(* No volume names it any more. *)
Lose(p) ==
  custody[p] # Unmade /\ custody' = [custody EXCEPT ![p] = Gone]

Next ==
  \E p \in Pieces :
    \/ Stock(p) \/ Lose(p)
    \/ \E c \in Checkouts : Lock(p, c) \/ Give(p, c) \/ Return(p, c)

Spec == Init /\ [][Next]_custody
=============================================================================
