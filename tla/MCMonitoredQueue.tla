--------------------------- MODULE MCMonitoredQueue ---------------------------
(* Instances of MonitoredQueue for TLC. *)
EXTENDS MonitoredQueue

CONSTANTS MCMax   \* max_attempts of every job

(* Every worker its own id. *)
OwnIds == [w \in Worker |-> w]

SameLimit == [j \in Job |-> MCMax]
===============================================================================
