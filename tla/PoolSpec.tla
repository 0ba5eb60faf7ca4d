------------------------------- MODULE PoolSpec -------------------------------
(***************************************************************************)
(* What a user writes in a Pool, what the webhook admits of it, and what   *)
(* the controller makes of the templates.  Nothing here has state.         *)
(*                                                                         *)
(* A label set gives every key a value or leaves it Unset; a selector says *)
(* for every key what it accepts, which covers matchLabels and the four    *)
(* operators of matchExpressions.                                          *)
(***************************************************************************)
EXTENDS Naturals

CONSTANTS
  Keys,    \* label keys
  Values,  \* label values
  Unset    \* a label or an optional field without a value

ASSUME PoolSpecAssumption == Unset \notin Nat \cup Values \cup STRING

Labels == [Keys -> Values \cup {Unset}]
Anything == Values \cup {Unset}
Selectors == [Keys -> SUBSET Anything]

Matches(selector, labels) == \A k \in Keys : labels[k] \in selector[k]
EmptySelector(selector) == \A k \in Keys : selector[k] = Anything

(* LabelAnnotateFrom: the labels of an object after the template's are set. *)
Merged(labels, template) ==
  [k \in Keys |-> IF template[k] = Unset THEN labels[k] ELSE template[k]]

-----------------------------------------------------------------------------
(* The claim template says whether it asks for a volume that exists (by    *)
(* name, by selector, or with the storage class "") and in which modes it  *)
(* is accessed.                                                            *)
ClaimTemplates == [labels : Labels, static : BOOLEAN,
                   modes : SUBSET {"ReadWriteOnce", "ReadWriteMany"}]

(* The mount job: what of it is limited, whether it names the volume it    *)
(* wants the claim in, and whether its pod runs until it is stopped.       *)
MountJobs == [restartPolicy         : {Unset, "Never", "OnFailure"},
              activeDeadlineSeconds : {Unset} \cup Nat,
              backoffLimit          : {Unset} \cup Nat,
              namesVolume           : BOOLEAN,
              hangs                 : BOOLEAN]

(* refused says which template the API server will not accept, for a       *)
(* reason the webhook does not look at.                                    *)
PoolSpecs == [replicas : {Unset} \cup Nat,
              selector : Selectors,
              template : ClaimTemplates,
              initJob  : {Unset} \cup MountJobs,
              refused  : {"nothing", "claim", "job"}]

-----------------------------------------------------------------------------
(* The webhook *)

MountJobMaxActiveDeadlineSeconds == 300
MountJobMaxBackoffLimit == 10

(* Mutant: the limit that README.md:89 gives. *)
ValidateMountJobUpTo600(job) ==
  /\ job.restartPolicy \in {Unset, "Never"}
  /\ job.activeDeadlineSeconds # Unset => job.activeDeadlineSeconds <= 600
  /\ job.backoffLimit # Unset => job.backoffLimit <= MountJobMaxBackoffLimit

ValidateMountJob(job) ==
  /\ job.restartPolicy \in {Unset, "Never"}
  /\ job.activeDeadlineSeconds # Unset =>
       job.activeDeadlineSeconds <= MountJobMaxActiveDeadlineSeconds
  /\ job.backoffLimit # Unset => job.backoffLimit <= MountJobMaxBackoffLimit

ValidatePoolSpec(spec) ==
  /\ ~EmptySelector(spec.selector)
  /\ Matches(spec.selector, spec.template.labels)
  /\ spec.initJob # Unset => ValidateMountJob(spec.initJob)

(* Mutant: the selector may change. *)
ValidateUpdateAsCreate(new, old) == ValidatePoolSpec(new)

ValidatePoolSpecUpdate(new, old) ==
  ValidatePoolSpec(new) /\ new.selector = old.selector

-----------------------------------------------------------------------------
(* The controller *)

Request(spec) == IF spec.replicas = Unset THEN 1 ELSE spec.replicas

(* A new claim always asks for dynamic provisioning. *)
ConfiguredClaim(template) ==
  [dynamic |-> TRUE, 
   modes |-> IF template.modes = {} THEN {"ReadWriteOnce"} ELSE template.modes]

DefaultPoolReplicaInitJob ==
  [restartPolicy |-> Unset, activeDeadlineSeconds |-> Unset,
   backoffLimit |-> MountJobMaxBackoffLimit, namesVolume |-> FALSE,
   hangs |-> FALSE]

InitJob(spec) ==
  IF spec.initJob = Unset THEN DefaultPoolReplicaInitJob ELSE spec.initJob

(* Mutant: a job without a deadline does not get one. *)
ConfiguredJobNoDeadline(job) ==
  [job EXCEPT
     !.restartPolicy = IF @ = Unset THEN "Never" ELSE @,
     !.backoffLimit = IF @ # Unset /\ @ > MountJobMaxBackoffLimit
                      THEN MountJobMaxBackoffLimit ELSE @]

ConfiguredJob(job) ==
  [job EXCEPT
     !.restartPolicy = IF @ = Unset THEN "Never" ELSE @,
     !.activeDeadlineSeconds =
         IF @ = Unset \/ @ > MountJobMaxActiveDeadlineSeconds
         THEN MountJobMaxActiveDeadlineSeconds ELSE @,
     !.backoffLimit = IF @ # Unset /\ @ > MountJobMaxBackoffLimit
                      THEN MountJobMaxBackoffLimit ELSE @]
=============================================================================
