----------------------------- MODULE LeaseTiming -----------------------------
(***************************************************************************)
(* When does a lease outlive the work it covers?  One attempt at one job   *)
(* in real time: the poll loop of the worker (_execute and fail_job) next  *)
(* to its _lease_renewal_loop.  JobQueue leaves the answer open as the     *)
(* fault "expire"; here it is a condition on the configuration.            *)
(*                                                                         *)
(* Clocks are countdowns: lease_left is lease_expires_at - NOW(), left and *)
(* round_left bound how long the two coroutines may still take over what   *)
(* they await.  A statement takes effect and returns within Delay; waiting *)
(* for a pool connection or for the event loop is part of that.  Delays    *)
(* may be shorter, so only upper bounds are modelled.                      *)
(***************************************************************************)
EXTENDS Integers

CONSTANTS
  Lease,       \* lease_duration_sec
  Interval,    \* lease_renewal_interval_sec
  Delay,       \* longest time a statement takes
  MaxMisses    \* renewals that may fail in a row

ASSUME LeaseTimingAssumption ==
  /\ Lease \in Nat /\ Interval \in Nat /\ Delay \in Nat /\ MaxMisses \in Nat

VARIABLES
  pc,           \* the statement the poll loop awaits
  left,         \* time the poll loop has left for it
  renewal,      \* what the renewal loop awaits: the next renewal, or its answer
  round_left,   \* time the renewal loop has left for it
  misses,       \* renewals that failed since the last success
  lease_left    \* time the lease has left; negative when it has run out

vars == <<pc, left, renewal, round_left, misses, lease_left>>

(* The statements before the handler, in order, and those after it.        *)
Setup == <<"claim_job", "log_claimed", "mark_running", "log_started", "heartbeat_busy">>
Failing == <<"count_failed", "read_attempts", "update">>

Statement == {Setup[i] : i \in 1..5} \cup {Failing[i] : i \in 1..3} \cup {"complete"}

TypeOK ==
  /\ pc \in Statement \cup {"poll", "handler"}
  /\ left \in 0..Delay
  /\ renewal \in {"off", "waiting", "answer"}
  /\ round_left \in 0..(Interval + Delay + Delay)
  /\ misses \in 0..MaxMisses
  /\ lease_left \in Int
  /\ renewal # "off" <=> pc = "handler"

Init ==
  /\ pc = "poll"
  /\ left = 0
  /\ renewal = "off"
  /\ round_left = 0
  /\ misses = 0
  /\ lease_left = 0

-------------------------------------------------------------------------------
Await(statement) == pc' = statement /\ left' = Delay

(* claim_next_job takes effect; its answer is still to come.               *)
Claim ==
  /\ pc = "poll"
  /\ Await("claim_job")
  /\ lease_left' = Lease
  /\ UNCHANGED <<renewal, round_left, misses>>

Prepare ==
  /\ \E i \in 1..4 : pc = Setup[i] /\ Await(Setup[i + 1])
  /\ UNCHANGED <<renewal, round_left, misses, lease_left>>

(* A round of the renewal loop: sleep(interval), then the UPDATE.          *)
EnterHandler ==
  /\ pc = "heartbeat_busy"
  /\ pc' = "handler" /\ left' = 0
  /\ renewal' = "waiting"
  /\ round_left' = Interval + Delay
  /\ misses' = 0
  /\ UNCHANGED lease_left

NoHandler ==
  /\ pc = "heartbeat_busy"
  /\ Await("count_failed")
  /\ UNCHANGED <<renewal, round_left, misses, lease_left>>

(* Mutation: the function returns TRUE without having set lease_expires_at. *)
RenewNothing ==
  /\ renewal = "waiting"
  /\ renewal' = "answer"
  /\ round_left' = Delay + Delay
  /\ misses' = 0
  /\ UNCHANGED <<pc, left, lease_left>>

Renew ==
  /\ renewal = "waiting"
  /\ lease_left' = Lease
  /\ renewal' = "answer"
  /\ round_left' = Delay + Delay
  /\ misses' = 0
  /\ UNCHANGED <<pc, left>>

(* The answer arrives and the lease_renewed event is logged, or that       *)
(* raises: the loop sleeps again in either case.                           *)
NextRound ==
  /\ renewal = "answer"
  /\ renewal' = "waiting"
  /\ round_left' = Interval + Delay
  /\ UNCHANGED <<pc, left, misses, lease_left>>

(* The UPDATE raises without effect: the exception is logged, that is all. *)
Miss ==
  /\ renewal = "waiting"
  /\ misses < MaxMisses
  /\ misses' = misses + 1
  /\ round_left' = Interval + Delay
  /\ UNCHANGED <<pc, left, renewal, lease_left>>

(* Mutation: lease_task is not cancelled.                                  *)
LeaveHandlerRenewing ==
  /\ pc = "handler"
  /\ Await("complete") \/ Await("count_failed")
  /\ UNCHANGED <<renewal, round_left, misses, lease_left>>

(* The handler returns or raises; lease_task is cancelled.  A renewal that *)
(* was already sent may still take effect, but it could only prolong the   *)
(* lease: leaving it out is on the safe side.                              *)
LeaveHandler ==
  /\ pc = "handler"
  /\ Await("complete") \/ Await("count_failed")
  /\ renewal' = "off"
  /\ round_left' = 0
  /\ UNCHANGED <<misses, lease_left>>

Fail ==
  /\ \E i \in 1..2 : pc = Failing[i] /\ Await(Failing[i + 1])
  /\ UNCHANGED <<renewal, round_left, misses, lease_left>>

(* The UPDATE of complete_job or fail_job takes effect: the row is free.   *)
Report ==
  /\ pc \in {"complete", "update"}
  /\ pc' = "poll"
  /\ left' = 0
  /\ UNCHANGED <<renewal, round_left, misses, lease_left>>

(* A statement raises without effect: complete_job's exception leads to    *)
(* fail_job, any other one ends the attempt and leaves the row to expire.  *)
Raise ==
  /\ pc \in Statement
  /\ IF pc = "complete" THEN Await("count_failed") ELSE pc' = "poll" /\ left' = 0
  /\ UNCHANGED <<renewal, round_left, misses, lease_left>>

(* Time passes unless a coroutine has used up what it had left.            *)
Tick ==
  /\ pc # "poll"
  /\ pc # "handler" => left > 0
  /\ renewal # "off" => round_left > 0
  /\ left' = IF pc = "handler" THEN left ELSE left - 1
  /\ round_left' = IF renewal = "off" THEN 0 ELSE round_left - 1
  /\ lease_left' = lease_left - 1
  /\ UNCHANGED <<pc, renewal, misses>>

Next ==
  \/ Claim \/ Prepare \/ NoHandler \/ EnterHandler
  \/ Renew \/ NextRound \/ Miss
  \/ LeaveHandler \/ Fail \/ Report \/ Raise
  \/ Tick

Spec == Init /\ [][Next]_vars
-------------------------------------------------------------------------------
(* recover_expired_leases (lease_expires_at < NOW()) never finds the row   *)
(* while the worker is at it: from claim_job's commit to the UPDATE of     *)
(* complete_job or fail_job, whatever renewals fail on the way.            *)
NoPhantomExpiry == pc # "poll" => lease_left >= 0

(* What the configuration must provide: five statements up to the handler, *)
(* MaxMisses failed rounds and one more that comes too late, and four      *)
(* statements from complete_job to fail_job's UPDATE.                      *)
LeaseIsLongEnough == Lease >= (MaxMisses + 1) * (Interval + Delay) + 9 * Delay
===============================================================================
