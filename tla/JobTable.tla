------------------------------- MODULE JobTable -------------------------------
(***************************************************************************)
(* The jobs table of schema.sql and the SQL statements the program runs on *)
(* it, one action per statement.  Every statement is a transaction of its  *)
(* own (asyncpg runs each call in autocommit mode), so each is atomic and  *)
(* everything may happen between two of them.                              *)
(*                                                                         *)
(* One variable per column that some WHERE clause or branch reads.  Clock  *)
(* values are abstracted to what the statements compare with NOW(): a      *)
(* lease is "valid" or "expired", a job is "due" or scheduled for "later". *)
(* Priority and the order of scheduled_at are abstracted away: any due     *)
(* pending row may be the one ORDER BY ... SKIP LOCKED yields.             *)
(***************************************************************************)
EXTENDS Naturals

CONSTANTS
  Job,           \* the rows the table may hold
  WorkerId,      \* the values of column worker_id
  Null,          \* SQL NULL
  MaxAttempts,   \* column max_attempts of each job, fixed at enqueue
  AttemptLimit   \* largest value of column attempt_count (2^31 - 1 in PostgreSQL)

ASSUME JobTableAssumption ==
  /\ Null \notin Job
  /\ Null \notin WorkerId
  /\ MaxAttempts \in [Job -> Nat]
  /\ AttemptLimit \in Nat

VARIABLES
  status,            \* "absent" until the row is inserted, then job_status
  worker_id,         \* the worker the row is leased to, or Null
  lease,             \* lease_expires_at: "none" (NULL), "valid" or "expired"
  attempt_count,     \* claims so far
  scheduled,         \* scheduled_at: "due" or "later"
  completed_events   \* rows of job_events with event_type 'completed'

jobs == <<status, worker_id, lease, attempt_count, scheduled, completed_events>>

Status == {"absent", "pending", "claimed", "running",
           "completed", "failed", "dead_letter"}

Leased == {"claimed", "running"}

TableTypeOK ==
  /\ status \in [Job -> Status]
  /\ worker_id \in [Job -> WorkerId \cup {Null}]
  /\ lease \in [Job -> {"none", "valid", "expired"}]
  /\ attempt_count \in [Job -> 0..AttemptLimit]
  /\ scheduled \in [Job -> {"due", "later"}]
  /\ completed_events \in [Job -> Nat]

TableInit ==
  /\ status = [j \in Job |-> "absent"]
  /\ worker_id = [j \in Job |-> Null]
  /\ lease = [j \in Job |-> "none"]
  /\ attempt_count = [j \in Job |-> 0]
  /\ scheduled = [j \in Job |-> "due"]
  /\ completed_events = [j \in Job |-> 0]

-------------------------------------------------------------------------------
(* INSERT ... ON CONFLICT: a second enqueue of the same key changes only   *)
(* updated_at, so it is no step of this table.                             *)
InsertJob(j, when) ==
  /\ status[j] = "absent"
  /\ status' = [status EXCEPT ![j] = "pending"]
  /\ scheduled' = [scheduled EXCEPT ![j] = when]
  /\ UNCHANGED <<worker_id, lease, attempt_count, completed_events>>

Claimable(j) == status[j] = "pending" /\ scheduled[j] = "due"

(* Mutation: the UPDATE forgets attempt_count + 1.                         *)
ClaimUncounted(j, id) ==
  /\ Claimable(j)
  /\ status' = [status EXCEPT ![j] = "claimed"]
  /\ worker_id' = [worker_id EXCEPT ![j] = id]
  /\ lease' = [lease EXCEPT ![j] = "valid"]
  /\ UNCHANGED <<attempt_count, scheduled, completed_events>>

(* The body of claim_next_job once SELECT ... FOR UPDATE has picked row j. *)
ClaimNextJob(j, id) ==
  /\ Claimable(j)
  /\ attempt_count[j] < AttemptLimit
  /\ status' = [status EXCEPT ![j] = "claimed"]
  /\ worker_id' = [worker_id EXCEPT ![j] = id]
  /\ lease' = [lease EXCEPT ![j] = "valid"]
  /\ attempt_count' = [attempt_count EXCEPT ![j] = attempt_count[j] + 1]
  /\ UNCHANGED <<scheduled, completed_events>>

MarkRunning(j, id) ==
  /\ status' = IF worker_id[j] = id /\ status[j] = "claimed"
               THEN [status EXCEPT ![j] = "running"] ELSE status
  /\ UNCHANGED <<worker_id, lease, attempt_count, scheduled, completed_events>>

(* The WHERE clause names the job only: neither owner nor status.          *)
CompleteJob(j) ==
  /\ status' = [status EXCEPT ![j] = "completed"]
  /\ worker_id' = [worker_id EXCEPT ![j] = Null]
  /\ UNCHANGED <<lease, attempt_count, scheduled, completed_events>>

LogCompleted(j) ==
  /\ completed_events' = [completed_events EXCEPT ![j] = completed_events[j] + 1]
  /\ UNCHANGED <<status, worker_id, lease, attempt_count, scheduled>>

(* Mutation: the UPDATE forgets worker_id = NULL.                          *)
RequeueKeepsOwner(j) ==
  /\ status' = [status EXCEPT ![j] = "pending"]
  /\ lease' = [lease EXCEPT ![j] = "none"]
  /\ scheduled' = [scheduled EXCEPT ![j] = "later"]
  /\ UNCHANGED <<worker_id, attempt_count, completed_events>>

(* fail_job's UPDATE for an attempt that is retried ...                    *)
RequeueJob(j) ==
  /\ status' = [status EXCEPT ![j] = "pending"]
  /\ worker_id' = [worker_id EXCEPT ![j] = Null]
  /\ lease' = [lease EXCEPT ![j] = "none"]
  /\ scheduled' = [scheduled EXCEPT ![j] = "later"]
  /\ UNCHANGED <<attempt_count, completed_events>>

(* ... and for the last one.                                               *)
FailJob(j) ==
  /\ status' = [status EXCEPT ![j] = "failed"]
  /\ worker_id' = [worker_id EXCEPT ![j] = Null]
  /\ UNCHANGED <<lease, attempt_count, scheduled, completed_events>>

(* Mutation: the WHERE clause forgets worker_id = p_worker_id.             *)
RenewableByAnyone(j, id) == status[j] \in Leased

(* The WHERE clause of renew_job_lease.                                    *)
Renewable(j, id) == worker_id[j] = id /\ status[j] \in Leased

RenewJobLease(j, id) ==
  /\ lease' = IF Renewable(j, id) THEN [lease EXCEPT ![j] = "valid"] ELSE lease
  /\ UNCHANGED <<status, worker_id, attempt_count, scheduled, completed_events>>

(* Mutations: the WHERE clause forgets the lease, the status, or 'claimed'. *)
RecoverableUnexpired(j) == status[j] \in Leased
RecoverableAnyStatus(j) == lease[j] = "expired"
RecoverableRunning(j) == status[j] = "running" /\ lease[j] = "expired"

(* The WHERE clause of recover_expired_leases.                             *)
Recoverable(j) == status[j] \in Leased /\ lease[j] = "expired"

(* A sweep writes the rows S that its snapshot showed to match and that    *)
(* still do: some of the matching ones, as a lease may run out meanwhile.  *)
RecoverExpiredLeases(S) ==
  /\ \A j \in S : Recoverable(j)
  /\ status' = [j \in Job |-> IF j \in S THEN "pending" ELSE status[j]]
  /\ worker_id' = [j \in Job |-> IF j \in S THEN Null ELSE worker_id[j]]
  /\ lease' = [j \in Job |-> IF j \in S THEN "none" ELSE lease[j]]
  /\ UNCHANGED <<attempt_count, scheduled, completed_events>>

(* The WHERE clause of process_dead_letters.                               *)
Exhausted(j) == status[j] = "failed" /\ attempt_count[j] >= MaxAttempts[j]

ProcessDeadLetters(S) ==
  /\ \A j \in S : Exhausted(j)
  /\ status' = [j \in Job |-> IF j \in S THEN "dead_letter" ELSE status[j]]
  /\ UNCHANGED <<worker_id, lease, attempt_count, scheduled, completed_events>>

-------------------------------------------------------------------------------
(* NOW() passes lease_expires_at; complete_job and fail_job's last UPDATE  *)
(* leave that column set.                                                  *)
LeaseRunsOut(j) ==
  /\ lease[j] = "valid"
  /\ lease' = [lease EXCEPT ![j] = "expired"]
  /\ UNCHANGED <<status, worker_id, attempt_count, scheduled, completed_events>>

(* NOW() reaches scheduled_at.                                             *)
BecomeDue(j) ==
  /\ scheduled[j] = "later"
  /\ scheduled' = [scheduled EXCEPT ![j] = "due"]
  /\ UNCHANGED <<status, worker_id, lease, attempt_count, completed_events>>

(* The table as all its users change it together.                          *)
AtomicStatement ==
  \/ \E j \in Job :
       \/ \E when \in {"due", "later"} : InsertJob(j, when)
       \/ \E id \in WorkerId :
            ClaimNextJob(j, id) \/ MarkRunning(j, id) \/ RenewJobLease(j, id)
       \/ CompleteJob(j) \/ LogCompleted(j) \/ RequeueJob(j) \/ FailJob(j)
       \/ LeaseRunsOut(j) \/ BecomeDue(j)
  \/ \E S \in SUBSET Job : RecoverExpiredLeases(S) \/ ProcessDeadLetters(S)

StatementByStatement == TableInit /\ [][AtomicStatement]_jobs
===============================================================================
