------------------------------ MODULE MCJobQueue ------------------------------
(* Instances of JobQueue for TLC. *)
EXTENDS JobQueue, TLC

CONSTANTS MCMax   \* max_attempts of every job

(* Every worker its own id. *)
OwnIds == [w \in Worker |-> w]

SameLimit == [j \in Job |-> MCMax]

WorkerSymmetry == Permutations(Worker)

(* Jobs are interchangeable only where all of them have a handler.         *)
Symmetry == Permutations(Worker) \cup Permutations(Job)
===============================================================================
