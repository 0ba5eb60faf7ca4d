------------------------------ MODULE ReplicaLife ------------------------------
(***************************************************************************)
(* What the pool controller promises of each replica, without caches,      *)
(* reconciles, jobs or claims: it is new until its volume is initialized,  *)
(* ready until it is offered, offered until a checkout takes its volume,   *)
(* and never goes back a step.  It may be removed at any time.             *)
(***************************************************************************)
CONSTANT Names     \* names of replicas

VARIABLE life      \* what has become of each

Init == life = [n \in Names |-> "none"]

Moves(n, from, to) ==
  life[n] = from /\ life' = [life EXCEPT ![n] = to]

(* The pool has one replica more. *)
Add(n) == Moves(n, "none", "new")

(* An init job has completed on its volume. *)
Initialize(n) == Moves(n, "new", "ready")

(* Checkouts may choose it. *)
Offer(n) == Moves(n, "ready", "offered")

(* A checkout has its volume. *)
Take(n) == Moves(n, "offered", "taken")

Remove(n) == life[n] # "none" /\ life' = [life EXCEPT ![n] = "none"]

Next ==
  \E n \in Names : 
    Add(n) \/ Initialize(n) \/ Offer(n) \/ Take(n) \/ Remove(n)

Spec == Init /\ [][Next]_life
=============================================================================
