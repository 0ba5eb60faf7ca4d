------------------------------- MODULE MCPool -------------------------------
(* Small instances of PoolController for TLC. *)
EXTENDS PoolController

CONSTANTS app, tier, web, blue, green

(* A pool that leaves every optional field out, except that its claims ask *)
(* for a volume that exists and that they are labelled.  Its selector      *)
(* looks at one of the two labels.                                         *)
Label(v) == [k \in Keys |-> IF k = app THEN web ELSE v]
Plain == 
  [replicas |-> Unset, 
   selector |-> [k \in Keys |-> IF k = app THEN {web} ELSE Anything],
   template |-> [labels |-> Label(Unset), static |-> TRUE, modes |-> {}],
   initJob |-> Unset, refused |-> "nothing"]

Two == [Plain EXCEPT !.replicas = 2]
None == [Plain EXCEPT !.replicas = 0]
NoJobAccepted == [Plain EXCEPT !.refused = "job"]

(* Every field at its limit. *)
Full == 
  [Plain EXCEPT 
     !.template.labels = Label(blue),
     !.initJob = [restartPolicy |-> "Never", activeDeadlineSeconds |-> 300,
                  backoffLimit |-> 10, namesVolume |-> FALSE, hangs |-> FALSE]]
NoClaimAccepted == [Full EXCEPT !.refused = "claim"]
NamingVolume == [Full EXCEPT !.replicas = 2, !.initJob.namesVolume = TRUE]
Hanging == 
  [Full EXCEPT !.initJob.hangs = TRUE, !.initJob.activeDeadlineSeconds = Unset]

(* Specs the webhook must refuse. *)
TooLate == [Full EXCEPT !.initJob.activeDeadlineSeconds = 301]
TooOften == [Full EXCEPT !.initJob.backoffLimit = 11]
OnFailure == [Full EXCEPT !.initJob.restartPolicy = "OnFailure"]
Unlabelled == [Plain EXCEPT !.template.labels = [k \in Keys |-> Unset]]
Reselected == 
  [Plain EXCEPT 
     !.selector = [k \in Keys |-> IF k = app THEN Anything ELSE {green}],
     !.template.labels = [k \in Keys |-> IF k = app THEN Unset ELSE green]]
SelectsAll == [Plain EXCEPT !.selector = [k \in Keys |-> Anything]]

AlwaysPlain == <<Plain>>
SharedVolume == <<NamingVolume>>
Admission == <<NoClaimAccepted, TooLate, TooOften, OnFailure, Unlabelled, 
               Reselected, SelectsAll, Full>>
Scaling == <<NoJobAccepted, Two, Plain>>
Recovering == <<Hanging, Plain, None>>
=============================================================================
