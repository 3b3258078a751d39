------------------------------- MODULE JobQueue -------------------------------
(***************************************************************************)
(* Workers (worker.py) running against the jobs table through QueueManager *)
(* (queue_manager.py).  A worker is three coroutines - poll loop, recovery *)
(* loop and heartbeat loop - plus a lease renewal task while a handler     *)
(* runs.  A step is one SQL statement or one handler outcome; the program  *)
(* counter pc names the statement the poll loop awaits next.  Statements   *)
(* on the workers registry (heartbeats, counters) and event rows other     *)
(* than 'completed' are steps that leave this state alone: they are points *)
(* at which the worker can crash, be cancelled or see an exception.        *)
(*                                                                         *)
(* What can go wrong is a parameter.  Faults is the set of kinds of fault  *)
(* a behaviour may contain, MaxFaults how many in all:                     *)
(*   "crash"   the worker's process dies; it may be started again          *)
(*   "cancel"  the worker's task is cancelled while its process lives on   *)
(*   "stop"    Worker.stop: the poll loop ends between two jobs            *)
(*   "error"   a statement raises, whether or not it took effect; raised   *)
(*             by register_worker, the worker ends and its process does not*)
(*   "expire"  a lease runs out although its worker is still at work       *)
(***************************************************************************)
EXTENDS JobTable, FiniteSets

CONSTANTS
  Worker,      \* Worker objects
  IdOf,        \* the worker_id each was given
  Handled,     \* jobs whose job_type has a registered handler
  Faults,
  MaxFaults,
  MaxLate      \* bound on the workers that have renewals inflight

ASSUME JobQueueAssumption ==
  /\ IdOf \in [Worker -> WorkerId]
  /\ Handled \subseteq Job
  /\ MaxFaults \in Nat
  /\ MaxLate \in Nat

VARIABLES
  pc,          \* where the poll loop is
  job,         \* the ClaimedJob of _execute: its job_id ...
  token,       \* ... and its attempt_count
  renewing,    \* jobs for which a _lease_renewal_loop task is alive
  inflight,    \* jobs whose renewal was sent before its task was cancelled
  recovery,    \* the next statement of the recovery loop
  faults       \* faults so far

local == <<pc, job, token, renewing, inflight, recovery>>
vars == <<jobs, local, faults>>

Executing == {"log_claimed", "mark_running", "log_started", "heartbeat_busy"}
Reporting == {"complete", "log_completed", "count_processed"}
Failing   == {"count_failed", "read_attempts", "requeue", "give_up", "log_outcome"}
Busy == Executing \cup {"handler"} \cup Reporting \cup Failing \cup {"heartbeat_idle"}

(* "off": no process, one is being started.  "ended": Worker.start is over *)
(* and nothing in the program calls it again.                              *)
Down == {"off", "ended"}

TypeOK ==
  /\ TableTypeOK
  /\ pc \in [Worker -> Busy \cup Down \cup {"poll"}]
  /\ job \in [Worker -> Job \cup {Null}]
  /\ \A w \in Worker : pc[w] \in Busy => job[w] \in Job
  /\ token \in [Worker -> 0..AttemptLimit]
  /\ renewing \in [Worker -> SUBSET Job]
  /\ inflight \in [Worker -> SUBSET Job]
  /\ recovery \in [Worker -> {"recover", "dead_letters"}]
  /\ faults \in 0..MaxFaults

Init ==
  /\ TableInit
  /\ pc = [w \in Worker |-> "off"]
  /\ job = [w \in Worker |-> Null]
  /\ token = [w \in Worker |-> 0]
  /\ renewing = [w \in Worker |-> {}]
  /\ inflight = [w \in Worker |-> {}]
  /\ recovery = [w \in Worker |-> "recover"]
  /\ faults = 0

-------------------------------------------------------------------------------
Fault(kind) ==
  /\ kind \in Faults
  /\ faults < MaxFaults
  /\ faults' = faults + 1

(* Mutation: the job is dropped before the finally clause has run.         *)
GotoDropsJob(w, to) ==
  /\ pc' = [pc EXCEPT ![w] = to]
  /\ job' = IF to \in Busy \ {"heartbeat_idle"} THEN job ELSE [job EXCEPT ![w] = Null]
  /\ token' = IF to \in Busy THEN token ELSE [token EXCEPT ![w] = 0]

(* Back in the poll loop the ClaimedJob is out of scope.                   *)
Goto(w, to) ==
  /\ pc' = [pc EXCEPT ![w] = to]
  /\ job' = IF to \in Busy THEN job ELSE [job EXCEPT ![w] = Null]
  /\ token' = IF to \in Busy THEN token ELSE [token EXCEPT ![w] = 0]

(* Where an exception takes the worker: within try to the except clause,   *)
(* from there through finally; outside try to the poll loop's handler.     *)
OnException(w) ==
  CASE pc[w] \in Reporting -> "count_failed"
    [] pc[w] \in Failing -> IF job[w] \in Handled THEN "heartbeat_idle" ELSE "poll"
    [] OTHER -> "poll"

(* The statement took effect: it returns, or its answer is lost.           *)
Finish(w, to) ==
  \/ Goto(w, to) /\ UNCHANGED faults
  \/ Fault("error") /\ Goto(w, OnException(w))

(* The statement raises and took no effect.                                *)
Raise(w) ==
  /\ pc[w] \in Busy \ {"handler"}
  /\ Fault("error")
  /\ Goto(w, OnException(w))
  /\ UNCHANGED <<jobs, renewing, inflight, recovery>>

(* A statement that touches no row of this model.                          *)
Bookkeep(w, from, to) ==
  /\ pc[w] = from
  /\ Finish(w, to)
  /\ UNCHANGED <<jobs, renewing, inflight, recovery>>

-------------------------------------------------------------------------------
(* Producers *)
Enqueue(j) ==
  /\ \E when \in {"due", "later"} : InsertJob(j, when)
  /\ UNCHANGED <<local, faults>>

(* Worker life cycle: register_worker, then the loops.  When it raises,    *)
(* start ends, gather(return_exceptions=True) keeps the exception and the  *)
(* process goes on without this worker.                                    *)
Start(w) ==
  /\ pc[w] = "off"
  /\ \/ Goto(w, "poll") /\ UNCHANGED faults
     \/ Fault("error") /\ Goto(w, "ended")
  /\ UNCHANGED <<jobs, renewing, inflight, recovery>>

Stop(w) ==
  /\ pc[w] = "poll"
  /\ Fault("stop")
  /\ Goto(w, "ended")
  /\ recovery' = [recovery EXCEPT ![w] = "recover"]
  /\ UNCHANGED <<jobs, renewing, inflight>>

(* The process dies, and its tasks with it.                                *)
Crash(w) ==
  /\ pc[w] # "off"
  /\ Fault("crash")
  /\ Goto(w, "off")
  /\ renewing' = [renewing EXCEPT ![w] = {}]
  /\ recovery' = [recovery EXCEPT ![w] = "recover"]
  /\ UNCHANGED <<jobs, inflight>>

(* CancelledError is no Exception: only the finally clause sees it, and    *)
(* nothing there cancels lease_task.                                       *)
Cancel(w) ==
  /\ pc[w] \notin Down
  /\ Fault("cancel")
  /\ Goto(w, "ended")
  /\ recovery' = [recovery EXCEPT ![w] = "recover"]
  /\ UNCHANGED <<jobs, renewing, inflight>>

(* The operator replaces the process of a worker that has ended.           *)
Deploy(w) ==
  /\ pc[w] = "ended"
  /\ Goto(w, "off")
  /\ renewing' = [renewing EXCEPT ![w] = {}]
  /\ UNCHANGED <<jobs, inflight, recovery, faults>>

(* The poll loop: claim_job *)
PollEmpty(w) ==
  /\ pc[w] = "poll"
  /\ \A j \in Job : ~Claimable(j)
  /\ UNCHANGED vars

Claim(w, j) ==
  /\ pc[w] = "poll"
  /\ ClaimNextJob(j, IdOf[w])
  /\ \/ /\ pc' = [pc EXCEPT ![w] = "log_claimed"]
        /\ job' = [job EXCEPT ![w] = j]
        /\ token' = [token EXCEPT ![w] = attempt_count'[j]]
        /\ UNCHANGED faults
     \/ Fault("error") /\ UNCHANGED <<pc, job, token>>
  /\ UNCHANGED <<renewing, inflight, recovery>>

(* _execute up to the handler *)
LogClaimed(w) == Bookkeep(w, "log_claimed", "mark_running")

StartRunning(w) ==
  /\ pc[w] = "mark_running"
  /\ MarkRunning(job[w], IdOf[w])
  /\ Finish(w, "log_started")
  /\ UNCHANGED <<renewing, inflight, recovery>>

LogStarted(w) == Bookkeep(w, "log_started", "heartbeat_busy")

NoHandler(w) ==
  /\ job[w] \notin Handled
  /\ Bookkeep(w, "heartbeat_busy", "count_failed")

EnterHandler(w) ==
  /\ pc[w] = "heartbeat_busy"
  /\ job[w] \in Handled
  /\ Goto(w, "handler")
  /\ renewing' = [renewing EXCEPT ![w] = renewing[w] \cup {job[w]}]
  /\ UNCHANGED <<jobs, inflight, recovery, faults>>

(* The handler returns, or raises; either way lease_task is cancelled, but *)
(* not awaited: a renewal it has sent may be still on its way.             *)
LeaveHandler(w) ==
  /\ pc[w] = "handler"
  /\ \E to \in {"complete", "count_failed"} : Goto(w, to)
  /\ renewing' = [renewing EXCEPT ![w] = renewing[w] \ {job[w]}]
  /\ \/ UNCHANGED inflight
     \/ /\ Cardinality({v \in Worker : inflight[v] # {}}) < MaxLate
        /\ inflight' = [inflight EXCEPT ![w] = inflight[w] \cup (renewing[w] \cap {job[w]})]
  /\ UNCHANGED <<jobs, recovery, faults>>

(* Success: complete_job, increment_worker_stats *)
Complete(w) ==
  /\ pc[w] = "complete"
  /\ CompleteJob(job[w])
  /\ Finish(w, "log_completed")
  /\ UNCHANGED <<renewing, inflight, recovery>>

RecordCompletion(w) ==
  /\ pc[w] = "log_completed"
  /\ LogCompleted(job[w])
  /\ Finish(w, "count_processed")
  /\ UNCHANGED <<renewing, inflight, recovery>>

CountProcessed(w) == Bookkeep(w, "count_processed", "heartbeat_idle")

(* Failure: increment_worker_stats, then fail_job's SELECT, branch, UPDATE *)
CountFailed(w) == Bookkeep(w, "count_failed", "read_attempts")

(* Mutations: the branch is taken one attempt too early, or too late.      *)
ReadAttemptsEarly(w) ==
  /\ pc[w] = "read_attempts"
  /\ Bookkeep(w, "read_attempts",
       IF attempt_count[job[w]] + 1 < MaxAttempts[job[w]] THEN "requeue" ELSE "give_up")

ReadAttemptsLate(w) ==
  /\ pc[w] = "read_attempts"
  /\ Bookkeep(w, "read_attempts",
       IF attempt_count[job[w]] <= MaxAttempts[job[w]] THEN "requeue" ELSE "give_up")

ReadAttempts(w) ==
  /\ pc[w] = "read_attempts"
  /\ Bookkeep(w, "read_attempts",
       IF attempt_count[job[w]] < MaxAttempts[job[w]] THEN "requeue" ELSE "give_up")

Requeue(w) ==
  /\ pc[w] = "requeue"
  /\ RequeueJob(job[w])
  /\ Finish(w, "log_outcome")
  /\ UNCHANGED <<renewing, inflight, recovery>>

GiveUp(w) ==
  /\ pc[w] = "give_up"
  /\ FailJob(job[w])
  /\ Finish(w, "log_outcome")
  /\ UNCHANGED <<renewing, inflight, recovery>>

(* Without a handler _execute returns before its try statement.            *)
LogOutcome(w) ==
  Bookkeep(w, "log_outcome", IF job[w] \in Handled THEN "heartbeat_idle" ELSE "poll")

HeartbeatIdle(w) == Bookkeep(w, "heartbeat_idle", "poll")

(* One round of _lease_renewal_loop; the task ends when no row matched.    *)
Renew(w, j) ==
  /\ j \in renewing[w]
  /\ RenewJobLease(j, IdOf[w])
  /\ renewing' = IF Renewable(j, IdOf[w]) THEN renewing
                 ELSE [renewing EXCEPT ![w] = renewing[w] \ {j}]
  /\ UNCHANGED <<pc, job, token, inflight, recovery, faults>>

(* A renewal of a cancelled task arrives after all, or is lost with it.    *)
LateRenewal(w, j) ==
  /\ j \in inflight[w]
  /\ RenewJobLease(j, IdOf[w]) \/ UNCHANGED jobs
  /\ inflight' = [inflight EXCEPT ![w] = inflight[w] \ {j}]
  /\ UNCHANGED <<pc, job, token, renewing, recovery, faults>>

(* The recovery loop: two statements per round; an exception ends a round. *)
Recover(w, S) ==
  /\ pc[w] \notin Down
  /\ recovery[w] = "recover"
  /\ RecoverExpiredLeases(S)
  /\ \/ recovery' = [recovery EXCEPT ![w] = "dead_letters"] /\ UNCHANGED faults
     \/ Fault("error") /\ UNCHANGED recovery
  /\ UNCHANGED <<pc, job, token, renewing, inflight>>

BuryFailed(w, S) ==
  /\ pc[w] \notin Down
  /\ recovery[w] = "dead_letters"
  /\ \/ ProcessDeadLetters(S) /\ UNCHANGED faults
     \/ Fault("error") /\ UNCHANGED jobs
  /\ recovery' = [recovery EXCEPT ![w] = "recover"]
  /\ UNCHANGED <<pc, job, token, renewing, inflight>>

(* Time.  A worker that executes j or runs a renewal task for it keeps the *)
(* lease alive unless renewals come too late (module LeaseTiming says when *)
(* they do not).                                                           *)
KeptAlive(j) ==
  \E w \in Worker :
    /\ worker_id[j] = IdOf[w]
    /\ j \in renewing[w] \/ (pc[w] \in Busy /\ job[w] = j)

ExpireLease(j) ==
  /\ LeaseRunsOut(j)
  /\ IF KeptAlive(j) THEN Fault("expire") ELSE UNCHANGED faults
  /\ UNCHANGED local

Tick(j) ==
  /\ BecomeDue(j)
  /\ UNCHANGED <<local, faults>>

-------------------------------------------------------------------------------
PollLoop(w) ==
  \/ \E j \in Job : Claim(w, j)
  \/ LogClaimed(w) \/ StartRunning(w) \/ LogStarted(w)
  \/ NoHandler(w) \/ EnterHandler(w) \/ LeaveHandler(w)
  \/ Complete(w) \/ RecordCompletion(w) \/ CountProcessed(w)
  \/ CountFailed(w) \/ ReadAttempts(w) \/ Requeue(w) \/ GiveUp(w) \/ LogOutcome(w)
  \/ HeartbeatIdle(w)

RecoveryLoop(w) == \E S \in SUBSET Job : Recover(w, S) \/ BuryFailed(w, S)

Next ==
  \/ \E w \in Worker :
       \/ Start(w) \/ Stop(w) \/ Crash(w) \/ Cancel(w) \/ Deploy(w) \/ Raise(w)
       \/ PollEmpty(w) \/ PollLoop(w) \/ RecoveryLoop(w)
       \/ \E j \in Job : Renew(w, j) \/ LateRenewal(w, j)
  \/ \E j \in Job : Enqueue(j) \/ ExpireLease(j) \/ Tick(j)

Spec == Init /\ [][Next]_vars

(* Some recovery loop takes row j along.                                   *)
SweepUp(j) ==
  \E w \in Worker, S \in SUBSET Job :
    j \in S /\ (Recover(w, S) \/ BuryFailed(w, S))

(* Every coroutine of a live worker keeps running, handlers terminate, a   *)
(* process that died is started again (restart: on-failure) and time       *)
(* passes.  Sweeps follow each other, and one that starts when a row       *)
(* matches takes it along: it may miss the row, but not for ever.          *)
(* Producers, faults and renewals owe nothing, nor does the operator: a    *)
(* worker that has ended may stay so (Deploy).                             *)
Fairness ==
  /\ \A w \in Worker : WF_vars(Start(w)) /\ WF_vars(PollLoop(w))
                       /\ WF_vars(RecoveryLoop(w))
  /\ \A j \in Job : WF_vars(ExpireLease(j)) /\ WF_vars(Tick(j))
                    /\ SF_vars(SweepUp(j))

FairSpec == Spec /\ Fairness
-------------------------------------------------------------------------------
(* Whatever goes wrong *)

(* No two workers ever hold the same ClaimedJob: a claim of a job carries  *)
(* an attempt number no other worker's claim of that job carries           *)
(* (claim_next_job increments attempt_count in the claiming transaction).  *)
ClaimUnique ==
  \A v, w \in Worker :
    v # w /\ pc[v] \in Busy /\ pc[w] \in Busy /\ job[v] = job[w]
      => token[v] # token[w]

(* A job is written off only after it used up its attempts, although       *)
(* fail_job decides on an attempt_count it read in an earlier transaction. *)
FailedIsExhausted ==
  \A j \in Job :
    status[j] \in {"failed", "dead_letter"} => attempt_count[j] >= MaxAttempts[j]

(* A row names a worker exactly while it is claimed or running, and then   *)
(* has a lease that can run out: no UPDATE strands a row where neither     *)
(* claim_next_job nor recover_expired_leases would ever find it.           *)
LeasedIsRecoverable ==
  \A j \in Job :
    /\ status[j] \in Leased <=> worker_id[j] # Null
    /\ status[j] \in Leased => lease[j] # "none"

(* Recovery never looks at max_attempts, so a job may be attempted more    *)
(* often than that, but each fault, a late renewal included, buys it one   *)
(* more attempt at most.                                                   *)
ExtraAttemptsBounded ==
  \A j \in Job : attempt_count[j] <= MaxAttempts[j] + faults

(* At-least-once, in numbers: the completions of a job that are recorded   *)
(* and those its running handlers may still add are one, and one more for  *)
(* each fault at most.  complete_job asks neither who reports nor whether  *)
(* the job is completed already.                                           *)
RepeatsBounded ==
  \A j \in Job :
    completed_events[j] + Cardinality({w \in Worker : pc[w] = "handler" /\ job[w] = j})
      <= 1 + faults

(* The check worker_id = ... AND status ... of mark_running and            *)
(* renew_job_lease passes only for the latest claim of the job: a worker   *)
(* whose lease was taken over can neither mark the job running nor renew.  *)
(* (One renewal too late to be cancelled may prolong the same worker's     *)
(* next claim of the job, as LateRenewal says.)                            *)
(* Needs distinct worker ids and no "cancel".                              *)
OwnerCheckIsFence ==
  \A w \in Worker :
    /\ pc[w] \in Busy /\ Renewable(job[w], IdOf[w]) => token[w] = attempt_count[job[w]]
    /\ \A j \in renewing[w] :
         Renewable(j, IdOf[w]) => pc[w] = "handler" /\ job[w] = j

-------------------------------------------------------------------------------
(* As long as no lease runs out under a live worker ("expire") *)

(* A job's handler runs in at most one worker at a time.                   *)
HandlerExclusion ==
  \A v, w \in Worker :
    v # w /\ pc[v] = "handler" /\ pc[w] = "handler" => job[v] # job[w]

(* What fail_job read still holds when it writes: SELECT and UPDATE are    *)
(* two transactions, yet the branch taken is the right one at the UPDATE.  *)
RetryDecisionCurrent ==
  \A w \in Worker :
    /\ pc[w] = "requeue" => attempt_count[job[w]] < MaxAttempts[job[w]]
    /\ pc[w] = "give_up" => attempt_count[job[w]] >= MaxAttempts[job[w]]

(* ... and as long as no statement raises either ("error") *)

(* A job is recorded as completed at most once.                            *)
AtMostOneCompletion == \A j \in Job : completed_events[j] <= 1

(* complete_job and fail_job update a row whatever its status; still, a    *)
(* completed or dead-lettered job never leaves that status.                *)
SettledIsFinal ==
  [][\A j \in Job :
       status[j] \in {"completed", "dead_letter"} => status'[j] = status[j]]_vars

(* QueueManager and its workers implement the backend contract: every      *)
(* UPDATE that names nothing but the job id still hits a row leased to the *)
(* worker that issues it, and takes the branch the contract prescribes.    *)
Backend == INSTANCE QueueBackend WITH
  Holder <- WorkerId, state <- status, holder <- worker_id, attempts <- attempt_count
ImplementsBackend == Backend!Spec

(* Once enqueued, a job ends up completed or dead-lettered for good,       *)
(* whatever finitely many crashes, errors and late renewals come between,  *)
(* unless every worker has ended (stopped, or its registration raised) and *)
(* is not deployed again.                                                  *)
EventuallySettled ==
  []<>(\E w \in Worker : pc[w] # "ended") =>
    \A j \in Job :
      (status[j] # "absent") ~> [](status[j] \in {"completed", "dead_letter"})
===============================================================================
