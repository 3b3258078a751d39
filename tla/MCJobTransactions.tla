--------------------------- MODULE MCJobTransactions ---------------------------
(* Instances of JobTransactions for TLC. *)
EXTENDS JobTransactions, TLC

CONSTANTS j1, j2

(* j1 is the more urgent job; each has one attempt before it fails. *)
Urgency == [j \in Job |-> IF j = j1 THEN 1 ELSE 2]
Limits == [j \in Job |-> 1]

(* Single jobs, and a batch. *)
Orders == {<<j1>>, <<j2, j1>>}

(* j1 may be claimed twice, j2 once. *)
SecondClaim == attempt_count[j2] < 2

Symmetry == Permutations(Session) \cup Permutations(WorkerId)
================================================================================
