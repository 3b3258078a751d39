--------------------------- MODULE MCWorkerRegistry ---------------------------
(* Instances of WorkerRegistry for TLC. *)
EXTENDS WorkerRegistry

OwnIds == [w \in Worker |-> w]

(* Two processes that run main.py give their first worker the same id.     *)
SharedId == [w \in Worker |-> CHOOSE id \in WorkerId : TRUE]
===============================================================================
