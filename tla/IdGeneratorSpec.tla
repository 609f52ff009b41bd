-------------------------- MODULE IdGeneratorSpec ---------------------------
(* What a generator of ids promises: the id it gives is not in use.        *)
CONSTANT Ids

VARIABLES
  used,  \* the ids that have been given and not been freed
  given  \* the id that was given last

Init == used = {} /\ given \notin Ids

Get == \E v \in Ids \ used : used' = used \cup {v} /\ given' = v
Free == \E v \in used : used' = used \ {v} /\ given' = given

Next == Get \/ Free

Spec == Init /\ [][Next]_<<used, given>>
=============================================================================
