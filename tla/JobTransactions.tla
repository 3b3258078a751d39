---------------------------- MODULE JobTransactions ----------------------------
(***************************************************************************)
(* The statements of JobTable as PostgreSQL runs them under READ           *)
(* COMMITTED, several at once: a statement picks its rows by WHERE in a    *)
(* snapshot, locks them one by one, checks WHERE again on the committed    *)
(* version of each row it has locked, and writes when it commits.          *)
(* JobTable's variables are the committed rows; what a session has written *)
(* and not committed is seen by nobody and is implied by its locks.        *)
(*                                                                         *)
(* JobTable and JobQueue take every statement for one atomic step.  This   *)
(* module is why they may: Serializable, below.  Any session may issue any *)
(* statement with any worker's id, on any job that was ever claimed.  A    *)
(* row stands for its idempotency_key: an INSERT in flight locks the key,  *)
(* and absent rows match no WHERE clause.                                  *)
(***************************************************************************)
EXTENDS JobTable, Sequences

CONSTANTS
  Session,    \* pooled connections that run a statement
  Priority,   \* column priority of each job; the smallest goes first
  Batches     \* what producers enqueue: sequences of jobs

ASSUME JobTransactionsAssumption ==
  /\ Priority \in [Job -> Nat]
  /\ Batches \subseteq Seq(Job)
  /\ \A b \in Batches : b # <<>>

VARIABLES
  stmt,     \* the statement a session runs, or "idle"
  by,       \* the worker_id that statement names, or Null
  todo,     \* rows that matched WHERE in its snapshot and are not visited yet
  held,     \* rows it has locked and found to match
  rest,     \* the jobs enqueue_batch has still to insert after this one
  enqueued_events   \* rows of job_events with event_type 'enqueued'

sessions == <<stmt, by, todo, held, rest>>
vars == <<jobs, sessions, enqueued_events>>

Sweeps == {"recover_expired_leases", "process_dead_letters"}
ByWorker == {"claim_next_job", "mark_running", "renew_job_lease"}
ById == {"mark_running", "renew_job_lease", "complete_job", "requeue_job", "fail_job"}
Running == Sweeps \cup ByWorker \cup ById \cup {"insert"}

TypeOK ==
  /\ TableTypeOK
  /\ stmt \in [Session -> Running \cup {"idle", "log_enqueued"}]
  /\ by \in [Session -> WorkerId \cup {Null}]
  /\ todo \in [Session -> SUBSET Job]
  /\ held \in [Session -> SUBSET Job]
  /\ rest \in [Session -> Seq(Job)]
  /\ enqueued_events \in [Job -> Nat]
  /\ \A s \in Session :
       /\ stmt[s] \in ByWorker => by[s] \in WorkerId
       /\ stmt[s] \in {"idle", "log_enqueued"} => held[s] = {}
       /\ stmt[s] = "idle" => todo[s] = {}

Init ==
  /\ TableInit
  /\ stmt = [s \in Session |-> "idle"]
  /\ by = [s \in Session |-> Null]
  /\ todo = [s \in Session |-> {}]
  /\ held = [s \in Session |-> {}]
  /\ rest = [s \in Session |-> <<>>]
  /\ enqueued_events = [j \in Job |-> 0]

-------------------------------------------------------------------------------
(* The WHERE clause of statement k; an upsert takes the row as it is.      *)
Matches(k, j, id) ==
  CASE k = "insert" -> TRUE
    [] k = "claim_next_job" -> Claimable(j) /\ attempt_count[j] < AttemptLimit
    [] k = "mark_running" -> worker_id[j] = id /\ status[j] = "claimed"
    [] k = "renew_job_lease" -> Renewable(j, id)
    [] k = "recover_expired_leases" -> Recoverable(j)
    [] k = "process_dead_letters" -> Exhausted(j)
    [] OTHER -> status[j] # "absent"

Row(j) ==
  [status |-> status[j], worker_id |-> worker_id[j], lease |-> lease[j],
   attempt_count |-> attempt_count[j], scheduled |-> scheduled[j]]

(* Row r once statement k has written it: the SET clauses, and VALUES.     *)
Written(k, id, when, r) ==
  CASE k = "insert" -> IF r.status = "absent"
                       THEN [r EXCEPT !.status = "pending", !.scheduled = when] ELSE r
    [] k = "claim_next_job" -> [r EXCEPT !.status = "claimed", !.worker_id = id,
                                         !.lease = "valid", !.attempt_count = @ + 1]
    [] k = "mark_running" -> [r EXCEPT !.status = "running"]
    [] k = "renew_job_lease" -> [r EXCEPT !.lease = "valid"]
    [] k = "complete_job" -> [r EXCEPT !.status = "completed", !.worker_id = Null]
    [] k = "requeue_job" -> [r EXCEPT !.status = "pending", !.worker_id = Null,
                                      !.lease = "none", !.scheduled = "later"]
    [] k = "fail_job" -> [r EXCEPT !.status = "failed", !.worker_id = Null]
    [] k = "recover_expired_leases" -> [r EXCEPT !.status = "pending",
                                                 !.worker_id = Null, !.lease = "none"]
    [] k = "process_dead_letters" -> [r EXCEPT !.status = "dead_letter"]

Write(s, when) ==
  LET after == [j \in Job |-> IF j \in held[s]
                              THEN Written(stmt[s], by[s], when, Row(j)) ELSE Row(j)]
  IN  /\ status' = [j \in Job |-> after[j].status]
      /\ worker_id' = [j \in Job |-> after[j].worker_id]
      /\ lease' = [j \in Job |-> after[j].lease]
      /\ attempt_count' = [j \in Job |-> after[j].attempt_count]
      /\ scheduled' = [j \in Job |-> after[j].scheduled]
      /\ UNCHANGED completed_events

Locked(j, s) == \E t \in Session \ {s} : j \in held[t]

(* A claim takes its rows in ORDER BY order, other scans in any order.     *)
NextInScan(s, j) ==
  /\ j \in todo[s]
  /\ stmt[s] = "claim_next_job" => \A i \in todo[s] : Priority[j] <= Priority[i]

-------------------------------------------------------------------------------
(* A statement starts: the rows its snapshot shows to match.               *)
Begin(s, k, id, scope) ==
  /\ stmt[s] = "idle"
  /\ stmt' = [stmt EXCEPT ![s] = k]
  /\ by' = [by EXCEPT ![s] = id]
  /\ todo' = [todo EXCEPT ![s] = {j \in scope : Matches(k, j, id)}]
  /\ UNCHANGED <<jobs, held, rest, enqueued_events>>

(* Job ids are known to workers from their claims.                         *)
Issue(s) ==
  \/ \E k \in Sweeps : Begin(s, k, Null, Job)
  \/ \E id \in WorkerId : Begin(s, "claim_next_job", id, Job)
  \/ \E j \in Job :
       /\ attempt_count[j] > 0
       /\ \/ \E k \in ById \ ByWorker : Begin(s, k, Null, {j})
          \/ \E k \in ById \cap ByWorker, id \in WorkerId : Begin(s, k, id, {j})

EnqueueBatch(s, batch) ==
  /\ stmt[s] = "idle"
  /\ stmt' = [stmt EXCEPT ![s] = "insert"]
  /\ todo' = [todo EXCEPT ![s] = {Head(batch)}]
  /\ rest' = [rest EXCEPT ![s] = Tail(batch)]
  /\ UNCHANGED <<jobs, by, held, enqueued_events>>

(* Mutation: without FOR UPDATE the row is taken as the snapshot shows it. *)
VisitUnchecked(s, j) ==
  /\ stmt[s] \in Running
  /\ NextInScan(s, j)
  /\ ~Locked(j, s)
  /\ held' = [held EXCEPT ![s] = @ \cup {j}]
  /\ todo' = [todo EXCEPT ![s] = IF stmt[s] = "claim_next_job" THEN {} ELSE @ \ {j}]
  /\ UNCHANGED <<jobs, stmt, by, rest, enqueued_events>>

(* The row lock is free, or has come free: the row is locked if it still   *)
(* matches.  A claim wants one row only.                                   *)
Visit(s, j) ==
  /\ stmt[s] \in Running
  /\ NextInScan(s, j)
  /\ ~Locked(j, s)
  /\ IF Matches(stmt[s], j, by[s])
     THEN /\ held' = [held EXCEPT ![s] = @ \cup {j}]
          /\ todo' = [todo EXCEPT ![s] = IF stmt[s] = "claim_next_job" THEN {} ELSE @ \ {j}]
     ELSE /\ todo' = [todo EXCEPT ![s] = @ \ {j}]
          /\ UNCHANGED held
  /\ UNCHANGED <<jobs, stmt, by, rest, enqueued_events>>

(* SKIP LOCKED.  The row of an event that is being inserted is locked too, *)
(* by the foreign key.                                                     *)
SkipLocked(s, j) ==
  /\ stmt[s] = "claim_next_job"
  /\ NextInScan(s, j)
  /\ Locked(j, s) \/ \E t \in Session : stmt[t] = "log_enqueued" /\ j \in todo[t]
  /\ todo' = [todo EXCEPT ![s] = @ \ {j}]
  /\ UNCHANGED <<jobs, stmt, by, held, rest, enqueued_events>>

(* Mutation: a batch is one transaction.                                   *)
LocksOfBatch(s) == IF rest[s] # <<>> THEN held[s] ELSE {}

(* What stays locked after a statement: nothing, each call autocommits.    *)
LocksKept(s) == {}

(* The statement has returned: enqueue_batch goes on to its next job.      *)
Proceed(s) ==
  IF rest[s] = <<>>
  THEN /\ stmt' = [stmt EXCEPT ![s] = "idle"]
       /\ todo' = [todo EXCEPT ![s] = {}]
       /\ by' = [by EXCEPT ![s] = Null]
       /\ UNCHANGED rest
  ELSE /\ stmt' = [stmt EXCEPT ![s] = "insert"]
       /\ todo' = [todo EXCEPT ![s] = {Head(rest[s])}]
       /\ rest' = [rest EXCEPT ![s] = Tail(rest[s])]
       /\ UNCHANGED by

(* Mutation: the event is logged whether or not the row was new.           *)
InsertedOrFound(s) == stmt[s] = "insert"

(* RETURNING ... (xmax = 0) AS inserted                                    *)
Inserted(s) == stmt[s] = "insert" /\ \E j \in held[s] : status[j] = "absent"

Commit(s) ==
  /\ stmt[s] \in Running
  /\ todo[s] = {}
  /\ \E when \in {"due", "later"} : Write(s, when)
  /\ held' = [held EXCEPT ![s] = LocksKept(s)]
  /\ IF Inserted(s)
     THEN /\ stmt' = [stmt EXCEPT ![s] = "log_enqueued"]
          /\ todo' = [todo EXCEPT ![s] = held[s]]
          /\ UNCHANGED <<by, rest>>
     ELSE Proceed(s)
  /\ UNCHANGED enqueued_events

(* enqueue's event is a second transaction.  Its foreign key waits for a   *)
(* claim that holds the row FOR UPDATE.                                    *)
LogEnqueued(s) ==
  /\ stmt[s] = "log_enqueued"
  /\ \A t \in Session : stmt[t] = "claim_next_job" => held[t] \cap todo[s] = {}
  /\ enqueued_events' = [j \in Job |-> enqueued_events[j] + IF j \in todo[s] THEN 1 ELSE 0]
  /\ Proceed(s)
  /\ UNCHANGED <<jobs, held>>

(* A crash, a lost connection, a cancellation or a timeout rolls back; the *)
(* caller sees an exception, and an enqueue_batch ends there.  So does     *)
(* PostgreSQL with one session of a deadlock.                              *)
Abort(s) ==
  /\ stmt[s] # "idle"
  /\ stmt' = [stmt EXCEPT ![s] = "idle"]
  /\ by' = [by EXCEPT ![s] = Null]
  /\ todo' = [todo EXCEPT ![s] = {}]
  /\ held' = [held EXCEPT ![s] = {}]
  /\ rest' = [rest EXCEPT ![s] = <<>>]
  /\ UNCHANGED <<jobs, enqueued_events>>

(* A set of sessions each of which waits for locks of the others.          *)
Deadlocked(D) ==
  \A s \in D :
    /\ stmt[s] \in Running \ {"claim_next_job"}
    /\ todo[s] # {}
    /\ \A j \in todo[s] : \E t \in D \ {s} : j \in held[t]
    /\ \E t \in D \ {s} : todo[t] \cap held[s] # {}

(* Time passes under the locks.                                            *)
Time(j) ==
  /\ LeaseRunsOut(j) \/ BecomeDue(j)
  /\ UNCHANGED <<sessions, enqueued_events>>

Advance(s) ==
  \/ \E j \in Job : Visit(s, j) \/ SkipLocked(s, j)
  \/ Commit(s)
  \/ LogEnqueued(s)

Next ==
  \/ \E s \in Session :
       \/ Issue(s) \/ \E batch \in Batches : EnqueueBatch(s, batch)
       \/ Advance(s) \/ Abort(s)
  \/ \E j \in Job : Time(j)

Spec == Init /\ [][Next]_vars
-------------------------------------------------------------------------------
(* What concurrent statements do to the table, they do one after another:  *)
(* each commit is one atomic statement on the rows committed before it.    *)
(* In particular no job is claimed that is not pending and due (SKIP       *)
(* LOCKED and the check after the lock keep two claims apart), no renewed  *)
(* or completed job is recovered, and no key is inserted twice.            *)
Serializable == StatementByStatement

(* However often a job is enqueued, alone or in batches that fail half way *)
(* and are sent again, its 'enqueued' event is logged at most once.        *)
LoggedAtMostOnce == \A j \in Job : enqueued_events[j] <= 1

(* Statements deadlock only if they are sweeps, whose callers (the         *)
(* recovery loops) survive being the victim: nothing a poll loop or a      *)
(* producer issues waits while it holds a lock, enqueue_batch included.    *)
OnlySweepsDeadlock ==
  \A D \in SUBSET Session : Deadlocked(D) => \A s \in D : stmt[s] \in Sweeps
===============================================================================
