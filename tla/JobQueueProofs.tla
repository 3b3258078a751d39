---------------------------- MODULE JobQueueProofs ----------------------------
(***************************************************************************)
(* Proofs about JobQueue for any set of workers and jobs, any number of    *)
(* faults and any max_attempts.                                            *)
(***************************************************************************)
EXTENDS JobQueue, TLAPS

-------------------------------------------------------------------------------
(* Types *)

PC == Busy \cup Down \cup {"poll"}

LocalTypeOK ==
  /\ pc \in [Worker -> PC]
  /\ job \in [Worker -> Job \cup {Null}]
  /\ \A w \in Worker : pc[w] \in Busy => job[w] \in Job
  /\ token \in [Worker -> 0..AttemptLimit]

(* Moving the poll loop keeps its variables well typed: it enters Busy     *)
(* with a job only from Busy.                                              *)
LEMMA GotoType ==
  ASSUME LocalTypeOK, NEW w \in Worker, NEW to \in PC,
         to \in Busy => pc[w] \in Busy, Goto(w, to)
  PROVE  LocalTypeOK'
<1>1. 0 \in 0..AttemptLimit
  BY JobTableAssumption
<1>2. CASE to \in Busy
  BY <1>2 DEF LocalTypeOK, Goto
<1>3. CASE to \notin Busy
  BY <1>1, <1>3 DEF LocalTypeOK, Goto
<1>4. QED
  BY <1>2, <1>3

(* An exception leads to a place of the poll loop.                         *)
LEMMA OnExceptionType ==
  ASSUME NEW w \in Worker
  PROVE  /\ OnException(w) \in PC
         /\ OnException(w) \in Busy => pc[w] \in Busy
BY DEF OnException, PC, Busy, Executing, Reporting, Failing

LEMMA FaultType ==
  ASSUME faults \in 0..MaxFaults, NEW kind, Fault(kind)
  PROVE  faults' \in 0..MaxFaults
BY JobQueueAssumption DEF Fault

LEMMA FinishType ==
  ASSUME LocalTypeOK, faults \in 0..MaxFaults, NEW w \in Worker, NEW to \in PC,
         pc[w] \in Busy, Finish(w, to)
  PROVE  LocalTypeOK' /\ faults' \in 0..MaxFaults
<1>1. CASE Goto(w, to) /\ UNCHANGED faults
  BY <1>1, GotoType
<1>2. CASE Fault("error") /\ Goto(w, OnException(w))
  BY <1>2, GotoType, FaultType, OnExceptionType
<1>3. QED
  BY <1>1, <1>2 DEF Finish

(* Every statement on the jobs table keeps its columns well typed.         *)
LEMMA StatementType ==
  ASSUME TableTypeOK, NEW j \in Job
  PROVE  /\ \A when \in {"due", "later"} : InsertJob(j, when) => TableTypeOK'
         /\ CompleteJob(j) => TableTypeOK'
         /\ LogCompleted(j) => TableTypeOK'
         /\ RequeueJob(j) => TableTypeOK'
         /\ FailJob(j) => TableTypeOK'
         /\ LeaseRunsOut(j) => TableTypeOK'
         /\ BecomeDue(j) => TableTypeOK'
<1> USE JobTableAssumption DEF TableTypeOK, Status
<1>1. \A when \in {"due", "later"} : InsertJob(j, when) => TableTypeOK'
  BY DEF InsertJob
<1>2. CompleteJob(j) => TableTypeOK'
  BY DEF CompleteJob
<1>3. LogCompleted(j) => TableTypeOK'
  BY DEF LogCompleted
<1>4. RequeueJob(j) => TableTypeOK'
  BY DEF RequeueJob
<1>5. FailJob(j) => TableTypeOK'
  BY DEF FailJob
<1>6. LeaseRunsOut(j) => TableTypeOK'
  BY DEF LeaseRunsOut
<1>7. BecomeDue(j) => TableTypeOK'
  BY DEF BecomeDue
<1>8. QED
  BY <1>1, <1>2, <1>3, <1>4, <1>5, <1>6, <1>7

LEMMA OwnerStatementType ==
  ASSUME TableTypeOK, NEW j \in Job, NEW id \in WorkerId
  PROVE  /\ ClaimNextJob(j, id) => TableTypeOK' /\ attempt_count'[j] \in 0..AttemptLimit
         /\ MarkRunning(j, id) => TableTypeOK'
         /\ RenewJobLease(j, id) => TableTypeOK'
<1> USE JobTableAssumption DEF TableTypeOK, Status
<1>1. ClaimNextJob(j, id) => TableTypeOK' /\ attempt_count'[j] \in 0..AttemptLimit
  BY DEF ClaimNextJob
<1>2. MarkRunning(j, id) => TableTypeOK'
  BY DEF MarkRunning
<1>3. RenewJobLease(j, id) => TableTypeOK'
  BY DEF RenewJobLease
<1>4. QED
  BY <1>1, <1>2, <1>3

LEMMA SweepType ==
  ASSUME TableTypeOK
  PROVE  \A S \in SUBSET Job :
           RecoverExpiredLeases(S) \/ ProcessDeadLetters(S) => TableTypeOK'
<1> USE JobTableAssumption DEF TableTypeOK, Status
<1>1. ASSUME NEW S \in SUBSET Job, RecoverExpiredLeases(S)
      PROVE  TableTypeOK'
  BY <1>1 DEF RecoverExpiredLeases
<1>2. ASSUME NEW S \in SUBSET Job, ProcessDeadLetters(S)
      PROVE  TableTypeOK'
  BY <1>2 DEF ProcessDeadLetters
<1>3. QED
  BY <1>1, <1>2

(* The steps of the poll loop that leave the jobs table alone, apart from  *)
(* entering and leaving the handler.                                       *)
Bookkeeping(w) ==
  \/ LogClaimed(w) \/ LogStarted(w) \/ NoHandler(w) \/ CountProcessed(w)
  \/ CountFailed(w) \/ ReadAttempts(w) \/ LogOutcome(w) \/ HeartbeatIdle(w)

LEMMA BookkeepingIsBookkeep ==
  ASSUME NEW w \in Worker, Bookkeeping(w)
  PROVE  \E from \in Busy \ {"handler"}, to \in PC : Bookkeep(w, from, to)
<1>1. CASE LogClaimed(w) \/ LogStarted(w) \/ NoHandler(w) \/ CountProcessed(w)
  BY <1>1 DEF LogClaimed, LogStarted, NoHandler, CountProcessed,
       PC, Busy, Executing, Reporting, Failing
<1>2. CASE CountFailed(w) \/ HeartbeatIdle(w)
  BY <1>2 DEF CountFailed, HeartbeatIdle, PC, Busy, Executing, Reporting, Failing
<1>3. CASE ReadAttempts(w)
  <2> DEFINE to == IF attempt_count[job[w]] < MaxAttempts[job[w]]
                   THEN "requeue" ELSE "give_up"
  <2>1. Bookkeep(w, "read_attempts", to)
    BY <1>3 DEF ReadAttempts
  <2>2. to \in PC /\ "read_attempts" \in Busy \ {"handler"}
    BY DEF PC, Busy, Failing
  <2>3. QED
    BY <2>1, <2>2
<1>4. CASE LogOutcome(w)
  <2> DEFINE to == IF job[w] \in Handled THEN "heartbeat_idle" ELSE "poll"
  <2>1. Bookkeep(w, "log_outcome", to)
    BY <1>4 DEF LogOutcome
  <2>2. to \in PC /\ "log_outcome" \in Busy \ {"handler"}
    BY DEF PC, Busy, Failing
  <2>3. QED
    BY <2>1, <2>2
<1>5. QED
  BY <1>1, <1>2, <1>3, <1>4 DEF Bookkeeping

LoopsTypeOK ==
  /\ renewing \in [Worker -> SUBSET Job]
  /\ inflight \in [Worker -> SUBSET Job]
  /\ recovery \in [Worker -> {"recover", "dead_letters"}]
  /\ faults \in 0..MaxFaults

LEMMA TypeParts == TypeOK <=> TableTypeOK /\ LocalTypeOK /\ LoopsTypeOK
BY DEF TypeOK, LocalTypeOK, LoopsTypeOK, PC

LEMMA FrameType ==
  ASSUME TableTypeOK, LocalTypeOK
  PROVE  /\ UNCHANGED jobs => TableTypeOK'
         /\ UNCHANGED <<pc, job, token>> => LocalTypeOK'
BY DEF jobs, TableTypeOK, LocalTypeOK

(* TypeOK holds throughout: in particular a worker that is past claim_job  *)
(* always has a job, whatever exception took it where it is.               *)
THEOREM TypeCorrect == Spec => []TypeOK
<1> USE JobTableAssumption, JobQueueAssumption
<1>1. Init => TypeOK
  BY DEF Init, TableInit, TypeOK, TableTypeOK, Status, Down, Busy, Executing, Reporting, Failing
<1>2. ASSUME TypeOK, [Next]_vars
      PROVE  TypeOK'
  <2>0. TableTypeOK /\ LocalTypeOK /\ LoopsTypeOK
    BY <1>2, TypeParts
  <2> SUFFICES TableTypeOK' /\ LocalTypeOK' /\ LoopsTypeOK'
    BY DEF TypeOK, LocalTypeOK, LoopsTypeOK, PC
  <2>a. /\ {"off", "ended", "poll"} \subseteq PC /\ {"off", "ended", "poll"} \cap Busy = {}
        /\ {"log_claimed", "mark_running", "log_started", "handler", "complete",
            "log_completed", "count_processed", "count_failed", "requeue",
            "give_up", "log_outcome"} \subseteq Busy \cap PC
    BY DEF PC, Down, Busy, Executing, Reporting, Failing
  <2>1. ASSUME NEW w \in Worker, Start(w) \/ Stop(w) \/ Crash(w) \/ Cancel(w) \/ Deploy(w)
        PROVE  TableTypeOK' /\ LocalTypeOK' /\ LoopsTypeOK'
    <3>1. TableTypeOK'
      BY <2>0, <2>1, FrameType DEF Start, Stop, Crash, Cancel, Deploy
    <3>2. LocalTypeOK'
      BY <2>0, <2>1, <2>a, GotoType DEF Start, Stop, Crash, Cancel, Deploy
    <3>3. LoopsTypeOK'
      BY <2>0, <2>1, FaultType DEF LoopsTypeOK, Start, Stop, Crash, Cancel, Deploy
    <3>4. QED
      BY <3>1, <3>2, <3>3
  <2>2. ASSUME NEW w \in Worker, Raise(w)
        PROVE  TableTypeOK' /\ LocalTypeOK' /\ LoopsTypeOK'
    <3>1. TableTypeOK' /\ LocalTypeOK'
      BY <2>0, <2>2, FrameType, GotoType, OnExceptionType DEF Raise
    <3>2. LoopsTypeOK'
      BY <2>0, <2>2, FaultType DEF LoopsTypeOK, Raise
    <3>3. QED
      BY <3>1, <3>2
  <2>3. ASSUME NEW w \in Worker, PollEmpty(w)
        PROVE  TableTypeOK' /\ LocalTypeOK' /\ LoopsTypeOK'
    BY <2>0, <2>3, FrameType DEF PollEmpty, vars, local, LoopsTypeOK
  <2>4. ASSUME NEW w \in Worker, NEW j \in Job, Claim(w, j)
        PROVE  TableTypeOK' /\ LocalTypeOK' /\ LoopsTypeOK'
    <3>1. TableTypeOK' /\ attempt_count'[j] \in 0..AttemptLimit
      BY <2>0, <2>4, OwnerStatementType DEF Claim
    <3>2. LocalTypeOK'
      BY <2>0, <2>4, <2>a, <3>1 DEF Claim, LocalTypeOK
    <3>3. LoopsTypeOK'
      BY <2>0, <2>4, FaultType DEF LoopsTypeOK, Claim
    <3>4. QED
      BY <3>1, <3>2, <3>3
  <2>5. ASSUME NEW w \in Worker, Bookkeeping(w)
        PROVE  TableTypeOK' /\ LocalTypeOK' /\ LoopsTypeOK'
    <3>1. PICK from \in Busy \ {"handler"}, to \in PC : Bookkeep(w, from, to)
      BY <2>5, BookkeepingIsBookkeep
    <3>2. LocalTypeOK' /\ faults' \in 0..MaxFaults
      BY <2>0, <3>1, FinishType DEF Bookkeep, LoopsTypeOK
    <3>3. QED
      BY <2>0, <3>1, <3>2, FrameType DEF Bookkeep, LoopsTypeOK
  <2>6. ASSUME NEW w \in Worker, EnterHandler(w) \/ LeaveHandler(w)
        PROVE  TableTypeOK' /\ LocalTypeOK' /\ LoopsTypeOK'
    <3>1. pc[w] \in Busy /\ job[w] \in Job
      BY <2>0, <2>6 DEF EnterHandler, LeaveHandler, LocalTypeOK, Busy, Executing
    <3>2. LocalTypeOK'
      BY <2>0, <2>6, <2>a, <3>1, GotoType DEF EnterHandler, LeaveHandler
    <3>3. TableTypeOK' /\ LoopsTypeOK'
      BY <2>0, <2>6, <3>1, FrameType DEF EnterHandler, LeaveHandler, LoopsTypeOK
    <3>4. QED
      BY <3>2, <3>3
  <2>7. ASSUME NEW w \in Worker,
               StartRunning(w) \/ Complete(w) \/ RecordCompletion(w) \/ Requeue(w) \/ GiveUp(w)
        PROVE  TableTypeOK' /\ LocalTypeOK' /\ LoopsTypeOK'
    <3>1. pc[w] \in Busy /\ job[w] \in Job
      BY <2>0, <2>7, <2>a
         DEF StartRunning, Complete, RecordCompletion, Requeue, GiveUp, LocalTypeOK
    <3>2. LocalTypeOK' /\ faults' \in 0..MaxFaults
      BY <2>0, <2>7, <2>a, <3>1, FinishType
         DEF StartRunning, Complete, RecordCompletion, Requeue, GiveUp, LoopsTypeOK
    <3>3. TableTypeOK'
      BY <2>0, <2>7, <3>1, StatementType, OwnerStatementType
         DEF StartRunning, Complete, RecordCompletion, Requeue, GiveUp
    <3>4. LoopsTypeOK'
      BY <2>0, <2>7, <3>2
         DEF StartRunning, Complete, RecordCompletion, Requeue, GiveUp, LoopsTypeOK
    <3>5. QED
      BY <3>2, <3>3, <3>4
  <2>8. ASSUME NEW w \in Worker, RecoveryLoop(w)
        PROVE  TableTypeOK' /\ LocalTypeOK' /\ LoopsTypeOK'
    <3>1. TableTypeOK' /\ LocalTypeOK'
      BY <2>0, <2>8, SweepType, FrameType DEF RecoveryLoop, Recover, BuryFailed
    <3>2. LoopsTypeOK'
      BY <2>0, <2>8, FaultType DEF RecoveryLoop, Recover, BuryFailed, LoopsTypeOK
    <3>3. QED
      BY <3>1, <3>2
  <2>9. ASSUME NEW w \in Worker, NEW j \in Job, Renew(w, j) \/ LateRenewal(w, j)
        PROVE  TableTypeOK' /\ LocalTypeOK' /\ LoopsTypeOK'
    <3>1. TableTypeOK' /\ LocalTypeOK'
      BY <2>0, <2>9, OwnerStatementType, FrameType DEF Renew, LateRenewal
    <3>2. LoopsTypeOK'
      BY <2>0, <2>9 DEF Renew, LateRenewal, LoopsTypeOK
    <3>3. QED
      BY <3>1, <3>2
  <2>10. ASSUME NEW j \in Job, Enqueue(j) \/ ExpireLease(j) \/ Tick(j)
         PROVE  TableTypeOK' /\ LocalTypeOK' /\ LoopsTypeOK'
    <3>1. TableTypeOK'
      BY <2>0, <2>10, StatementType DEF Enqueue, ExpireLease, Tick
    <3>2. LocalTypeOK'
      BY <2>0, <2>10, FrameType DEF Enqueue, ExpireLease, Tick, local
    <3>3. LoopsTypeOK'
      BY <2>0, <2>10, FaultType DEF Enqueue, ExpireLease, Tick, local, LoopsTypeOK
    <3>4. QED
      BY <3>1, <3>2, <3>3
  <2>11. CASE UNCHANGED vars
    BY <2>0, <2>11, FrameType DEF vars, local, LoopsTypeOK
  <2>12. QED
    BY <1>2, <2>1, <2>2, <2>3, <2>4, <2>5, <2>6, <2>7, <2>8, <2>9, <2>10, <2>11
       DEF Next, PollLoop, Bookkeeping
<1>3. QED
  BY <1>1, <1>2, PTL DEF Spec

-------------------------------------------------------------------------------
(* The jobs table under the workers' steps *)

(* Whatever the workers do, the table changes by one of its statements.    *)
TableNext == AtomicStatement \/ UNCHANGED jobs

LEMMA StepIsTableStep ==
  ASSUME TypeOK, [Next]_vars
  PROVE  TableNext
<1> USE JobQueueAssumption DEF TableNext, AtomicStatement
<1>1. ASSUME NEW w \in Worker,
             Start(w) \/ Stop(w) \/ Crash(w) \/ Cancel(w) \/ Deploy(w) \/ Raise(w) \/ PollEmpty(w)
             \/ EnterHandler(w) \/ LeaveHandler(w)
      PROVE  TableNext
  BY <1>1 DEF Start, Stop, Crash, Cancel, Deploy, Raise, PollEmpty, EnterHandler, LeaveHandler, vars
<1>2. ASSUME NEW w \in Worker, Bookkeeping(w)
      PROVE  TableNext
  BY <1>2, BookkeepingIsBookkeep DEF Bookkeep
<1>3. ASSUME NEW w \in Worker, NEW j \in Job,
             Claim(w, j) \/ Renew(w, j) \/ LateRenewal(w, j)
      PROVE  TableNext
  BY <1>3 DEF Claim, Renew, LateRenewal
<1>4. ASSUME NEW w \in Worker,
             StartRunning(w) \/ Complete(w) \/ RecordCompletion(w) \/ Requeue(w) \/ GiveUp(w)
      PROVE  TableNext
  <2>1. job[w] \in Job /\ IdOf[w] \in WorkerId
    BY <1>4 DEF StartRunning, Complete, RecordCompletion, Requeue, GiveUp,
         TypeOK, Busy, Executing, Reporting, Failing
  <2>2. QED
    BY <1>4, <2>1 DEF StartRunning, Complete, RecordCompletion, Requeue, GiveUp
<1>5. ASSUME NEW w \in Worker, RecoveryLoop(w)
      PROVE  TableNext
  BY <1>5 DEF RecoveryLoop, Recover, BuryFailed
<1>6. ASSUME NEW j \in Job, Enqueue(j) \/ ExpireLease(j) \/ Tick(j)
      PROVE  TableNext
  BY <1>6 DEF Enqueue, ExpireLease, Tick
<1>7. CASE UNCHANGED vars
  BY <1>7 DEF vars
<1>8. QED
  BY <1>1, <1>2, <1>3, <1>4, <1>5, <1>6, <1>7 DEF Next, PollLoop, Bookkeeping

(* The workers change the table by its statements and by nothing else; the *)
(* transactions of module JobTransactions implement the same table.        *)
THEOREM QueueRunsStatements == Spec => StatementByStatement
<1>1. Init => TableInit
  BY DEF Init
<1>2. TypeOK /\ [Next]_vars => [AtomicStatement]_jobs
  BY StepIsTableStep DEF TableNext
<1> QED
  BY <1>1, <1>2, TypeCorrect, PTL DEF Spec, StatementByStatement

(* A row names a worker exactly while it is claimed or running, and then   *)
(* its lease can run out: no statement strands a row.                      *)
THEOREM LeasedRecoverable == Spec => []LeasedIsRecoverable
<1>1. Init => LeasedIsRecoverable
  <2>1. ASSUME Init, NEW j \in Job
        PROVE  status[j] \notin Leased /\ worker_id[j] = Null
    BY <2>1 DEF Init, TableInit, Leased
  <2>2. QED
    BY <2>1 DEF LeasedIsRecoverable
<1>2. ASSUME TypeOK, LeasedIsRecoverable, [Next]_vars
      PROVE  LeasedIsRecoverable'
  <2> USE JobTableAssumption DEF TypeOK, TableTypeOK, Status, LeasedIsRecoverable, Leased
  <2>0. TableNext
    BY <1>2, StepIsTableStep
  <2>1. CASE UNCHANGED jobs
    BY <1>2, <2>1 DEF jobs
  <2>2. ASSUME NEW j \in Job, NEW when \in {"due", "later"}, InsertJob(j, when)
        PROVE  LeasedIsRecoverable'
    BY <1>2, <2>2 DEF InsertJob
  <2>3. ASSUME NEW j \in Job, NEW id \in WorkerId, ClaimNextJob(j, id)
        PROVE  LeasedIsRecoverable'
    BY <1>2, <2>3 DEF ClaimNextJob
  <2>4. ASSUME NEW j \in Job, NEW id \in WorkerId, MarkRunning(j, id)
        PROVE  LeasedIsRecoverable'
    BY <1>2, <2>4 DEF MarkRunning
  <2>5. ASSUME NEW j \in Job, NEW id \in WorkerId, RenewJobLease(j, id)
        PROVE  LeasedIsRecoverable'
    BY <1>2, <2>5 DEF RenewJobLease
  <2>6. ASSUME NEW j \in Job, CompleteJob(j) \/ FailJob(j)
        PROVE  LeasedIsRecoverable'
    BY <1>2, <2>6 DEF CompleteJob, FailJob
  <2>7. ASSUME NEW j \in Job, RequeueJob(j)
        PROVE  LeasedIsRecoverable'
    BY <1>2, <2>7 DEF RequeueJob
  <2>8. ASSUME NEW j \in Job, LogCompleted(j) \/ LeaseRunsOut(j) \/ BecomeDue(j)
        PROVE  LeasedIsRecoverable'
    BY <1>2, <2>8 DEF LogCompleted, LeaseRunsOut, BecomeDue
  <2>9. ASSUME NEW S \in SUBSET Job, RecoverExpiredLeases(S)
        PROVE  LeasedIsRecoverable'
    BY <1>2, <2>9 DEF RecoverExpiredLeases, Recoverable
  <2>10. ASSUME NEW S \in SUBSET Job, ProcessDeadLetters(S)
         PROVE  LeasedIsRecoverable'
    BY <1>2, <2>10 DEF ProcessDeadLetters, Exhausted
  <2>11. QED
    BY <2>0, <2>1, <2>2, <2>3, <2>4, <2>5, <2>6, <2>7, <2>8, <2>9, <2>10
       DEF TableNext, AtomicStatement
<1>3. QED
  BY <1>1, <1>2, TypeCorrect, PTL DEF Spec

-------------------------------------------------------------------------------
(* Claims *)

(* attempt_count never goes down: a claim adds one, nothing else writes it. *)
LEMMA AttemptsGrow ==
  ASSUME TypeOK, [Next]_vars, NEW j \in Job
  PROVE  attempt_count[j] <= attempt_count'[j]
<1> USE JobTableAssumption DEF TypeOK, TableTypeOK
<1>1. attempt_count \in [Job -> Nat]
  OBVIOUS
<1>2. ASSUME NEW i \in Job, NEW id \in WorkerId, ClaimNextJob(i, id)
      PROVE  attempt_count[j] <= attempt_count'[j]
  BY <1>1, <1>2 DEF ClaimNextJob
<1>3. ASSUME UNCHANGED attempt_count
      PROVE  attempt_count[j] <= attempt_count'[j]
  BY <1>1, <1>3
<1>4. \/ UNCHANGED attempt_count
      \/ \E i \in Job, id \in WorkerId : ClaimNextJob(i, id)
  BY StepIsTableStep DEF TableNext, AtomicStatement, jobs, InsertJob, MarkRunning, RenewJobLease,
       CompleteJob, LogCompleted, RequeueJob, FailJob, LeaseRunsOut, BecomeDue,
       RecoverExpiredLeases, ProcessDeadLetters
<1>5. QED
  BY <1>2, <1>3, <1>4

(* A worker that is past claim_job in the next state either was already,   *)
(* with the same ClaimedJob, or claims in this step.                       *)
SameClaim(v) == pc[v] \in Busy /\ job'[v] = job[v] /\ token'[v] = token[v]

NewClaim(v) ==
  \E j \in Job :
    /\ ClaimNextJob(j, IdOf[v])
    /\ pc' = [pc EXCEPT ![v] = "log_claimed"]
    /\ job' = [job EXCEPT ![v] = j]
    /\ token' = [token EXCEPT ![v] = attempt_count'[j]]

LEMMA GotoKeepsClaims ==
  ASSUME TypeOK, NEW w \in Worker, NEW to, to \in Busy => pc[w] \in Busy, Goto(w, to)
  PROVE  \A v \in Worker : pc'[v] \in Busy => SameClaim(v)
BY DEF TypeOK, Goto, SameClaim

LEMMA ClaimsKept ==
  ASSUME TypeOK, [Next]_vars
  PROVE  \/ \A v \in Worker : pc'[v] \in Busy => SameClaim(v)
         \/ \E w \in Worker : NewClaim(w)
<1> DEFINE Kept == \A v \in Worker : pc'[v] \in Busy => SameClaim(v)
<1>0. "off" \notin Busy /\ "ended" \notin Busy /\ "poll" \notin Busy
  BY DEF Busy, Executing, Reporting, Failing
<1>1. ASSUME NEW w \in Worker, Start(w) \/ Stop(w) \/ Crash(w) \/ Cancel(w) \/ Deploy(w)
      PROVE  Kept
  BY <1>0, <1>1, GotoKeepsClaims DEF Start, Stop, Crash, Cancel, Deploy
<1>2. ASSUME NEW w \in Worker, Raise(w)
      PROVE  Kept
  BY <1>2, GotoKeepsClaims DEF Raise
<1>3. ASSUME UNCHANGED <<pc, job, token>>
      PROVE  Kept
  BY <1>3 DEF SameClaim
<1>4. ASSUME NEW w \in Worker, NEW j \in Job, Claim(w, j)
      PROVE  Kept \/ NewClaim(w)
  BY <1>3, <1>4 DEF Claim, NewClaim
<1>5. ASSUME NEW w \in Worker, NEW to, pc[w] \in Busy, Finish(w, to)
      PROVE  Kept
  BY <1>5, GotoKeepsClaims DEF Finish
<1>6. ASSUME NEW w \in Worker, Bookkeeping(w)
      PROVE  Kept
  BY <1>5, <1>6, BookkeepingIsBookkeep DEF Bookkeep
<1>7. ASSUME NEW w \in Worker, EnterHandler(w) \/ LeaveHandler(w)
      PROVE  Kept
  BY <1>7, GotoKeepsClaims DEF EnterHandler, LeaveHandler, Busy, Executing
<1>8. ASSUME NEW w \in Worker,
             StartRunning(w) \/ Complete(w) \/ RecordCompletion(w) \/ Requeue(w) \/ GiveUp(w)
      PROVE  Kept
  <2>1. pc[w] \in Busy
    BY <1>8 DEF StartRunning, Complete, RecordCompletion, Requeue, GiveUp,
         Busy, Executing, Reporting, Failing
  <2>2. QED
    BY <1>5, <1>8, <2>1 DEF StartRunning, Complete, RecordCompletion, Requeue, GiveUp
<1>9. QED
  BY <1>1, <1>2, <1>3, <1>4, <1>6, <1>7, <1>8
     DEF Next, PollLoop, Bookkeeping, RecoveryLoop, PollEmpty, Recover, BuryFailed,
         Renew, LateRenewal, Enqueue, ExpireLease, Tick, vars, local

(* A ClaimedJob is no younger than the row it was taken from.              *)
ClaimIsPast ==
  \A w \in Worker : pc[w] \in Busy => token[w] <= attempt_count[job[w]]

(* No two workers ever hold the same ClaimedJob (claim_next_job).          *)
THEOREM ClaimsUnique == Spec => []ClaimUnique
<1> DEFINE IInv == ClaimIsPast /\ ClaimUnique
<1>1. Init => IInv
  BY DEF Init, ClaimIsPast, ClaimUnique, Busy, Executing, Reporting, Failing
<1>2. ASSUME TypeOK, TypeOK', IInv, [Next]_vars
      PROVE  IInv'
  <2>0. \A v \in Worker : pc[v] \in Busy =>
          /\ job[v] \in Job
          /\ token[v] \in Nat
          /\ attempt_count[job[v]] \in Nat
          /\ attempt_count'[job[v]] \in Nat
          /\ attempt_count[job[v]] <= attempt_count'[job[v]]
    BY <1>2, AttemptsGrow, JobTableAssumption DEF TypeOK, TableTypeOK
  <2>1. ASSUME \A v \in Worker : pc'[v] \in Busy => SameClaim(v)
        PROVE  IInv'
    <3>1. ClaimIsPast'
      BY <1>2, <2>0, <2>1 DEF ClaimIsPast, SameClaim
    <3>2. ClaimUnique'
      BY <1>2, <2>1 DEF ClaimUnique, SameClaim
    <3>3. QED
      BY <3>1, <3>2
  <2>2. ASSUME NEW w \in Worker, NewClaim(w)
        PROVE  IInv'
    <3>1. PICK j \in Job :
            /\ ClaimNextJob(j, IdOf[w])
            /\ pc' = [pc EXCEPT ![w] = "log_claimed"]
            /\ job' = [job EXCEPT ![w] = j]
            /\ token' = [token EXCEPT ![w] = attempt_count'[j]]
      BY <2>2 DEF NewClaim
    <3>2. /\ attempt_count[j] \in Nat
          /\ attempt_count'[j] = attempt_count[j] + 1
      BY <1>2, <3>1, JobTableAssumption DEF ClaimNextJob, TypeOK, TableTypeOK
    <3>3. job'[w] = j /\ token'[w] = attempt_count'[j]
      BY <1>2, <3>1 DEF TypeOK
    <3>4. \A v \in Worker \ {w} : pc'[v] = pc[v] /\ job'[v] = job[v] /\ token'[v] = token[v]
      BY <1>2, <3>1 DEF TypeOK
    <3>5. ClaimIsPast'
      <4>1. ASSUME NEW v \in Worker, pc'[v] \in Busy
            PROVE  token'[v] <= attempt_count'[job'[v]]
        <5>1. CASE v = w
          BY <3>2, <3>3, <5>1
        <5>2. CASE v # w
          BY <1>2, <2>0, <3>4, <4>1, <5>2 DEF ClaimIsPast
        <5>3. QED
          BY <5>1, <5>2
      <4>2. QED
        BY <4>1 DEF ClaimIsPast
    <3>6. ASSUME NEW v \in Worker \ {w}, pc'[v] \in Busy, job'[v] = j
          PROVE  token'[v] # token'[w]
      <4>1. token[v] <= attempt_count[j] /\ token[v] \in Nat
        BY <1>2, <2>0, <3>4, <3>6 DEF ClaimIsPast
      <4>2. QED
        BY <3>2, <3>3, <3>4, <4>1
    <3>7. ClaimUnique'
      BY <1>2, <3>3, <3>4, <3>6 DEF ClaimUnique
    <3>8. QED
      BY <3>5, <3>7
  <2>3. QED
    BY <1>2, <2>1, <2>2, ClaimsKept
<1>3. QED
  BY <1>1, <1>2, TypeCorrect, PTL DEF Spec

-------------------------------------------------------------------------------
(* Owner checks *)

(* Only a claim puts a worker's id into a row or changes its attempts.     *)
OwnerKept(j) ==
  /\ attempt_count'[j] = attempt_count[j]
  /\ worker_id'[j] \in {worker_id[j], Null}

LEMMA OwnerOnlyByClaim ==
  ASSUME TypeOK, [Next]_vars, NEW j \in Job
  PROVE  OwnerKept(j) \/ \E w \in Worker : Claim(w, j)
<1> USE DEF OwnerKept
<1>1. ASSUME UNCHANGED <<attempt_count, worker_id>>
      PROVE  OwnerKept(j)
  BY <1>1
<1>2. ASSUME NEW w \in Worker, NEW i \in Job, Claim(w, i)
      PROVE  OwnerKept(j) \/ \E v \in Worker : Claim(v, j)
  <2>1. CASE i = j
    BY <1>2, <2>1
  <2>2. CASE i # j
    BY <1>2, <2>2 DEF Claim, ClaimNextJob, TypeOK, TableTypeOK
  <2>3. QED
    BY <2>1, <2>2
<1>3. ASSUME NEW w \in Worker, Complete(w) \/ Requeue(w) \/ GiveUp(w)
      PROVE  OwnerKept(j)
  BY <1>3 DEF Complete, Requeue, GiveUp, CompleteJob, RequeueJob, FailJob, TypeOK, TableTypeOK
<1>4. ASSUME NEW S \in SUBSET Job, RecoverExpiredLeases(S)
      PROVE  OwnerKept(j)
  BY <1>4 DEF RecoverExpiredLeases
<1>5. ASSUME NEW w \in Worker,
             Start(w) \/ Stop(w) \/ Crash(w) \/ Cancel(w) \/ Deploy(w) \/ Raise(w) \/ PollEmpty(w)
             \/ EnterHandler(w) \/ LeaveHandler(w)
      PROVE  OwnerKept(j)
  BY <1>1, <1>5 DEF Start, Stop, Crash, Cancel, Deploy, Raise, PollEmpty, EnterHandler, LeaveHandler,
                    vars, jobs
<1>6. ASSUME NEW w \in Worker, Bookkeeping(w)
      PROVE  OwnerKept(j)
  BY <1>1, <1>6, BookkeepingIsBookkeep DEF Bookkeep, jobs
<1>7. ASSUME NEW w \in Worker, StartRunning(w) \/ RecordCompletion(w)
      PROVE  OwnerKept(j)
  BY <1>1, <1>7 DEF StartRunning, RecordCompletion, MarkRunning, LogCompleted
<1>8. ASSUME NEW w \in Worker, RecoveryLoop(w)
      PROVE  OwnerKept(j)
  BY <1>1, <1>4, <1>8 DEF RecoveryLoop, Recover, BuryFailed, ProcessDeadLetters, jobs
<1>9. ASSUME NEW w \in Worker, NEW i \in Job, Renew(w, i) \/ LateRenewal(w, i)
      PROVE  OwnerKept(j)
  BY <1>1, <1>9 DEF Renew, LateRenewal, RenewJobLease, jobs
<1>10. ASSUME NEW i \in Job, Enqueue(i) \/ ExpireLease(i) \/ Tick(i)
       PROVE  OwnerKept(j)
  BY <1>1, <1>10 DEF Enqueue, ExpireLease, Tick, InsertJob, LeaseRunsOut, BecomeDue
<1>11. CASE UNCHANGED vars
  BY <1>1, <1>11 DEF vars, jobs
<1>12. QED
  BY <1>2, <1>3, <1>5, <1>6, <1>7, <1>8, <1>9, <1>10, <1>11 DEF Next, PollLoop, Bookkeeping

(* A busy worker whose id its row names has the latest claim of that row.  *)
OwnerIsLatest ==
  \A w \in Worker :
    pc[w] \in Busy /\ worker_id[job[w]] = IdOf[w] => token[w] = attempt_count[job[w]]

LEMMA OwnerStaysLatest ==
  ASSUME \A v, w \in Worker : v # w => IdOf[v] # IdOf[w],
         TypeOK, OwnerIsLatest, [Next]_vars
  PROVE  OwnerIsLatest'
<1> SUFFICES ASSUME NEW w \in Worker, pc'[w] \in Busy, worker_id'[job'[w]] = IdOf[w]
             PROVE  token'[w] = attempt_count'[job'[w]]
  BY DEF OwnerIsLatest
<1>0. "poll" \notin Busy /\ IdOf[w] # Null
  BY JobTableAssumption, JobQueueAssumption DEF Busy, Executing, Reporting, Failing
<1>1. CASE SameClaim(w)
  <2>1. job[w] \in Job /\ pc[w] \in Busy
    BY <1>1 DEF SameClaim, TypeOK
  <2>2. CASE OwnerKept(job[w])
    BY <1>0, <1>1, <2>1, <2>2 DEF OwnerKept, SameClaim, OwnerIsLatest
  <2>3. ASSUME NEW v \in Worker, Claim(v, job[w])
        PROVE  FALSE
    <3>1. worker_id'[job[w]] = IdOf[v]
      BY <2>1, <2>3 DEF Claim, ClaimNextJob, TypeOK, TableTypeOK
    <3>2. v = w
      BY <1>1, <3>1 DEF SameClaim
    <3>3. QED
      BY <1>0, <2>1, <2>3, <3>2 DEF Claim
  <2>4. QED
    BY <2>1, <2>2, <2>3, OwnerOnlyByClaim
<1>2. ASSUME NEW v \in Worker, NewClaim(v)
      PROVE  token'[w] = attempt_count'[job'[w]]
  <2>1. PICK j \in Job :
          /\ ClaimNextJob(j, IdOf[v])
          /\ pc' = [pc EXCEPT ![v] = "log_claimed"]
          /\ job' = [job EXCEPT ![v] = j]
          /\ token' = [token EXCEPT ![v] = attempt_count'[j]]
    BY <1>2 DEF NewClaim
  <2>2. CASE w = v
    BY <2>1, <2>2 DEF TypeOK
  <2>3. CASE w # v
    <3>1. pc[w] \in Busy /\ job'[w] = job[w] /\ token'[w] = token[w]
      BY <2>1, <2>3 DEF TypeOK
    <3>2. SameClaim(w)
      BY <3>1 DEF SameClaim
    <3>3. QED
      BY <1>1, <3>2
  <2>4. QED
    BY <2>2, <2>3
<1>3. QED
  BY <1>1, <1>2, ClaimsKept

(* A renewal task belongs to the handler its worker runs.                  *)
RenewsForHandler ==
  \A w \in Worker : \A j \in renewing[w] : pc[w] = "handler" /\ job[w] = j

(* Away from the handler there is no renewal task to be left behind.       *)
LEMMA GotoLeavesNoRenewal ==
  ASSUME TypeOK, RenewsForHandler, NEW w \in Worker, pc[w] # "handler",
         NEW to, Goto(w, to), UNCHANGED renewing
  PROVE  RenewsForHandler'
<1>1. renewing[w] = {}
  BY DEF RenewsForHandler
<1>2. \A v \in Worker \ {w} : pc'[v] = pc[v] /\ job'[v] = job[v]
  BY DEF Goto, TypeOK
<1>3. QED
  BY <1>1, <1>2 DEF RenewsForHandler

LEMMA FinishLeavesNoRenewal ==
  ASSUME TypeOK, RenewsForHandler, NEW w \in Worker, pc[w] # "handler",
         NEW to, Finish(w, to), UNCHANGED renewing
  PROVE  RenewsForHandler'
BY GotoLeavesNoRenewal DEF Finish

LEMMA RenewalsStayOwn ==
  ASSUME "cancel" \notin Faults, TypeOK, RenewsForHandler, [Next]_vars
  PROVE  RenewsForHandler'
<1>1. ASSUME NEW w \in Worker, Start(w) \/ Stop(w)
      PROVE  RenewsForHandler'
  BY <1>1, GotoLeavesNoRenewal DEF Start, Stop, local
<1>2. ASSUME NEW w \in Worker, Crash(w) \/ Deploy(w)
      PROVE  RenewsForHandler'
  <2>1. renewing'[w] = {}
    BY <1>2 DEF Crash, Deploy, TypeOK
  <2>2. \A v \in Worker \ {w} : pc'[v] = pc[v] /\ job'[v] = job[v] /\ renewing'[v] = renewing[v]
    BY <1>2 DEF Crash, Deploy, Goto, TypeOK
  <2>3. QED
    BY <2>1, <2>2 DEF RenewsForHandler
<1>3. ASSUME NEW w \in Worker, Cancel(w)
      PROVE  FALSE
  BY <1>3 DEF Cancel, Fault
<1>4. ASSUME NEW w \in Worker, Raise(w)
      PROVE  RenewsForHandler'
  BY <1>4, GotoLeavesNoRenewal DEF Raise
<1>5. ASSUME NEW w \in Worker, Bookkeeping(w)
      PROVE  RenewsForHandler'
  BY <1>5, BookkeepingIsBookkeep, FinishLeavesNoRenewal DEF Bookkeep
<1>6. ASSUME NEW w \in Worker,
             StartRunning(w) \/ Complete(w) \/ RecordCompletion(w) \/ Requeue(w) \/ GiveUp(w)
      PROVE  RenewsForHandler'
  BY <1>6, FinishLeavesNoRenewal DEF StartRunning, Complete, RecordCompletion, Requeue, GiveUp
<1>7. ASSUME NEW w \in Worker, NEW j \in Job, Claim(w, j)
      PROVE  RenewsForHandler'
  <2>1. renewing[w] = {}
    BY <1>7 DEF Claim, RenewsForHandler
  <2>2. \A v \in Worker \ {w} : pc'[v] = pc[v] /\ job'[v] = job[v]
    BY <1>7 DEF Claim, TypeOK
  <2>3. renewing' = renewing
    BY <1>7 DEF Claim
  <2>4. QED
    BY <2>1, <2>2, <2>3 DEF RenewsForHandler
<1>8. ASSUME NEW w \in Worker, EnterHandler(w)
      PROVE  RenewsForHandler'
  <2>1. renewing[w] = {}
    BY <1>8 DEF EnterHandler, RenewsForHandler
  <2>2. pc'[w] = "handler" /\ job'[w] = job[w] /\ renewing'[w] = {job[w]}
    BY <1>8, <2>1 DEF EnterHandler, Goto, TypeOK, Busy
  <2>3. \A v \in Worker \ {w} : pc'[v] = pc[v] /\ job'[v] = job[v] /\ renewing'[v] = renewing[v]
    BY <1>8 DEF EnterHandler, Goto, TypeOK
  <2>4. QED
    BY <2>2, <2>3 DEF RenewsForHandler
<1>9. ASSUME NEW w \in Worker, LeaveHandler(w)
      PROVE  RenewsForHandler'
  <2>1. renewing'[w] = {}
    BY <1>9 DEF LeaveHandler, RenewsForHandler, TypeOK
  <2>2. \A v \in Worker \ {w} : pc'[v] = pc[v] /\ job'[v] = job[v] /\ renewing'[v] = renewing[v]
    BY <1>9 DEF LeaveHandler, Goto, TypeOK
  <2>3. QED
    BY <2>1, <2>2 DEF RenewsForHandler
<1>10. ASSUME NEW w \in Worker, NEW j \in Job, Renew(w, j)
       PROVE  RenewsForHandler'
  <2>1. /\ pc' = pc /\ job' = job
        /\ \A v \in Worker : renewing'[v] \subseteq renewing[v]
    BY <1>10 DEF Renew, TypeOK
  <2>2. QED
    BY <2>1 DEF RenewsForHandler
<1>11. ASSUME UNCHANGED <<pc, job, renewing>>
       PROVE  RenewsForHandler'
  BY <1>11 DEF RenewsForHandler
<1>12. QED
  BY <1>1, <1>2, <1>3, <1>4, <1>5, <1>6, <1>7, <1>8, <1>9, <1>10, <1>11
     DEF Next, PollLoop, Bookkeeping, RecoveryLoop, PollEmpty, Recover, BuryFailed,
         LateRenewal, Enqueue, ExpireLease, Tick, vars, local

(* With distinct ids and nothing but cancellation excluded: a worker whose *)
(* lease was taken over passes no owner check of mark_running or           *)
(* renew_job_lease, and renewals are sent for running handlers only.       *)
THEOREM OwnerChecksFence ==
  ASSUME \A v, w \in Worker : v # w => IdOf[v] # IdOf[w], "cancel" \notin Faults
  PROVE  Spec => []OwnerCheckIsFence
<1> DEFINE IInv == OwnerIsLatest /\ RenewsForHandler
<1>1. Init => IInv
  BY DEF Init, OwnerIsLatest, RenewsForHandler, Busy, Executing, Reporting, Failing
<1>2. TypeOK /\ IInv /\ [Next]_vars => IInv'
  BY OwnerStaysLatest, RenewalsStayOwn
<1>3. IInv => OwnerCheckIsFence
  BY DEF OwnerIsLatest, RenewsForHandler, OwnerCheckIsFence, Renewable
<1>4. QED
  BY <1>1, <1>2, <1>3, TypeCorrect, PTL DEF Spec

-------------------------------------------------------------------------------
(* fail_job's decision *)

Decided == {"requeue", "give_up"}

DecisionKept(v) == pc'[v] = pc[v] /\ job'[v] = job[v]

DecisionMade(v) ==
  /\ pc[v] = "read_attempts"
  /\ job'[v] = job[v]
  /\ UNCHANGED jobs
  /\ pc'[v] = "requeue" => attempt_count[job[v]] < MaxAttempts[job[v]]
  /\ pc'[v] = "give_up" => ~(attempt_count[job[v]] < MaxAttempts[job[v]])

LEMMA ExceptionDecidesNothing ==
  ASSUME NEW w \in Worker
  PROVE  OnException(w) \notin Decided
BY DEF OnException, Decided, Reporting, Failing

LEMMA GotoDecidesNothing ==
  ASSUME TypeOK, NEW w \in Worker, NEW to, to \notin Decided, Goto(w, to)
  PROVE  \A v \in Worker : pc'[v] \in Decided => DecisionKept(v)
BY DEF TypeOK, Goto, DecisionKept

(* Only fail_job's branch takes a worker to one of its two UPDATEs.        *)
LEMMA DecisionStep ==
  ASSUME TypeOK, [Next]_vars
  PROVE  \A v \in Worker : pc'[v] \in Decided => DecisionKept(v) \/ DecisionMade(v)
<1> DEFINE Kept == \A v \in Worker : pc'[v] \in Decided => DecisionKept(v)
           Ok == \A v \in Worker : pc'[v] \in Decided => DecisionKept(v) \/ DecisionMade(v)
<1>1. ASSUME NEW w \in Worker, Start(w) \/ Stop(w) \/ Crash(w) \/ Cancel(w) \/ Deploy(w)
      PROVE  Kept
  BY <1>1, GotoDecidesNothing DEF Start, Stop, Crash, Cancel, Deploy, Decided
<1>2. ASSUME NEW w \in Worker, Raise(w)
      PROVE  Kept
  BY <1>2, GotoDecidesNothing, ExceptionDecidesNothing DEF Raise
<1>3. ASSUME UNCHANGED <<pc, job>>
      PROVE  Kept
  BY <1>3 DEF DecisionKept
<1>4. ASSUME NEW w \in Worker, NEW j \in Job, Claim(w, j)
      PROVE  Kept
  BY <1>4 DEF Claim, Decided, DecisionKept, TypeOK
<1>5. ASSUME NEW w \in Worker, NEW to, to \notin Decided, Finish(w, to)
      PROVE  Kept
  BY <1>5, GotoDecidesNothing, ExceptionDecidesNothing DEF Finish
<1>6. ASSUME NEW w \in Worker,
             LogClaimed(w) \/ LogStarted(w) \/ NoHandler(w) \/ CountProcessed(w)
             \/ CountFailed(w) \/ HeartbeatIdle(w)
      PROVE  Kept
  BY <1>5, <1>6 DEF LogClaimed, LogStarted, NoHandler, CountProcessed, CountFailed,
       HeartbeatIdle, Bookkeep, Decided
<1>7. ASSUME NEW w \in Worker, LogOutcome(w)
      PROVE  Kept
  <2>1. (IF job[w] \in Handled THEN "heartbeat_idle" ELSE "poll") \notin Decided
    BY DEF Decided
  <2>2. QED
    BY <1>5, <1>7, <2>1 DEF LogOutcome, Bookkeep
<1>8. ASSUME NEW w \in Worker, EnterHandler(w) \/ LeaveHandler(w)
      PROVE  Kept
  BY <1>8, GotoDecidesNothing DEF EnterHandler, LeaveHandler, Decided
<1>9. ASSUME NEW w \in Worker,
             StartRunning(w) \/ Complete(w) \/ RecordCompletion(w) \/ Requeue(w) \/ GiveUp(w)
      PROVE  Kept
  BY <1>5, <1>9 DEF StartRunning, Complete, RecordCompletion, Requeue, GiveUp, Decided
<1>10. ASSUME NEW w \in Worker, ReadAttempts(w)
       PROVE  Ok
  <2> DEFINE to == IF attempt_count[job[w]] < MaxAttempts[job[w]]
                   THEN "requeue" ELSE "give_up"
  <2>1. pc[w] = "read_attempts" /\ UNCHANGED jobs /\ Finish(w, to)
    BY <1>10 DEF ReadAttempts, Bookkeep
  <2>2. CASE Goto(w, to)
    BY <2>1, <2>2 DEF Goto, TypeOK, DecisionKept, DecisionMade, Busy, Failing
  <2>3. CASE Goto(w, OnException(w))
    BY <2>3, GotoDecidesNothing, ExceptionDecidesNothing
  <2>4. QED
    BY <2>1, <2>2, <2>3 DEF Finish
<1>11. QED
  BY <1>1, <1>2, <1>3, <1>4, <1>6, <1>7, <1>8, <1>9, <1>10
     DEF Next, PollLoop, RecoveryLoop, PollEmpty, Recover, BuryFailed,
         Renew, LateRenewal, Enqueue, ExpireLease, Tick, vars, local

(* Only fail_job's last UPDATE puts a job among the failed ones.           *)
LEMMA FailedOnlyByGiveUp ==
  ASSUME TypeOK, [Next]_vars, NEW j \in Job,
         status'[j] \in {"failed", "dead_letter"}
  PROVE  \/ status[j] \in {"failed", "dead_letter"}
         \/ \E w \in Worker : pc[w] = "give_up" /\ job[w] = j
<1> DEFINE Ok == \/ status[j] \in {"failed", "dead_letter"}
                 \/ \E w \in Worker : pc[w] = "give_up" /\ job[w] = j
<1> USE DEF TypeOK, TableTypeOK
<1>1. ASSUME UNCHANGED status PROVE Ok
  BY <1>1
<1>2. ASSUME UNCHANGED jobs PROVE Ok
  BY <1>1, <1>2 DEF jobs
<1>3. ASSUME NEW w \in Worker, Bookkeeping(w)
      PROVE  Ok
  BY <1>2, <1>3, BookkeepingIsBookkeep DEF Bookkeep
<1>4. ASSUME NEW w \in Worker, NEW i \in Job,
             Claim(w, i) \/ Renew(w, i) \/ LateRenewal(w, i)
      PROVE  Ok
  BY <1>4 DEF Claim, Renew, LateRenewal, ClaimNextJob, RenewJobLease, jobs
<1>5. ASSUME NEW w \in Worker,
             StartRunning(w) \/ Complete(w) \/ RecordCompletion(w) \/ Requeue(w)
      PROVE  Ok
  BY <1>5 DEF StartRunning, Complete, RecordCompletion, Requeue,
       MarkRunning, CompleteJob, LogCompleted, RequeueJob
<1>6. ASSUME NEW w \in Worker, GiveUp(w)
      PROVE  Ok
  BY <1>6 DEF GiveUp, FailJob
<1>7. ASSUME NEW w \in Worker, RecoveryLoop(w)
      PROVE  Ok
  BY <1>7 DEF RecoveryLoop, Recover, BuryFailed, RecoverExpiredLeases,
       ProcessDeadLetters, Exhausted, jobs
<1>8. ASSUME NEW i \in Job, Enqueue(i) \/ ExpireLease(i) \/ Tick(i)
      PROVE  Ok
  BY <1>8 DEF Enqueue, ExpireLease, Tick, InsertJob, LeaseRunsOut, BecomeDue
<1>9. QED
  BY <1>2, <1>3, <1>4, <1>5, <1>6, <1>7, <1>8
     DEF Next, PollLoop, Bookkeeping, Start, Stop, Crash, Cancel, Deploy, Raise, PollEmpty,
         EnterHandler, LeaveHandler, vars

GiveUpIsDue ==
  \A w \in Worker : pc[w] = "give_up" => attempt_count[job[w]] >= MaxAttempts[job[w]]

(* A job is written off only after it used up its attempts: attempt_count  *)
(* cannot shrink between fail_job's SELECT and its UPDATE.                 *)
THEOREM FailedExhausted == Spec => []FailedIsExhausted
<1> DEFINE IInv == GiveUpIsDue /\ FailedIsExhausted
<1>1. Init => IInv
  BY DEF Init, TableInit, GiveUpIsDue, FailedIsExhausted
<1>2. ASSUME TypeOK, TypeOK', IInv, [Next]_vars
      PROVE  IInv'
  <2>0. \A j \in Job : /\ attempt_count[j] \in Nat /\ attempt_count'[j] \in Nat
                       /\ MaxAttempts[j] \in Nat
                       /\ attempt_count[j] <= attempt_count'[j]
    BY <1>2, AttemptsGrow, JobTableAssumption DEF TypeOK, TableTypeOK
  <2>1. ASSUME NEW w \in Worker, pc'[w] = "give_up"
        PROVE  attempt_count'[job'[w]] >= MaxAttempts[job'[w]]
    <3>1. job'[w] \in Job
      BY <1>2, <2>1 DEF TypeOK, Busy, Failing
    <3>2. CASE DecisionKept(w)
      BY <1>2, <2>0, <2>1, <3>1, <3>2 DEF DecisionKept, GiveUpIsDue
    <3>3. CASE DecisionMade(w)
      BY <2>0, <2>1, <3>1, <3>3 DEF DecisionMade
    <3>4. QED
      BY <1>2, <2>1, <3>2, <3>3, DecisionStep DEF Decided
  <2>2. ASSUME NEW j \in Job, status'[j] \in {"failed", "dead_letter"}
        PROVE  attempt_count'[j] >= MaxAttempts[j]
    <3>1. attempt_count[j] >= MaxAttempts[j]
      BY <1>2, <2>2, FailedOnlyByGiveUp DEF GiveUpIsDue, FailedIsExhausted
    <3>2. QED
      BY <2>0, <3>1
  <2>3. QED
    BY <2>1, <2>2 DEF GiveUpIsDue, FailedIsExhausted
<1>3. QED
  BY <1>1, <1>2, TypeCorrect, PTL DEF Spec

-------------------------------------------------------------------------------
(* No lease runs out under a live worker *)

(* From claim_job to the UPDATE that ends the attempt a worker works on    *)
(* the row; AfterComplete is where an exception raised by the second half  *)
(* of complete_job or by increment_worker_stats can take it.               *)
AfterComplete == {"log_completed", "count_processed", "count_failed",
                  "read_attempts", "requeue", "give_up"}
Working == Executing \cup {"handler", "complete"} \cup AfterComplete

Holds(w) ==
  /\ status[job[w]] \in Leased
  /\ worker_id[job[w]] = IdOf[w]
  /\ lease[job[w]] = "valid"

(* A working worker has the latest claim of its job, and holds its row     *)
(* unless it has itself completed it.                                      *)
Good(w) ==
  /\ token[w] = attempt_count[job[w]]
  /\ Holds(w) \/ (pc[w] \in AfterComplete /\ status[job[w]] = "completed")

WorkersHoldJobs == \A w \in Worker : pc[w] \in Working => Good(w)

(* The row of a worker that is not moving stays as good as it was.         *)
RowKept(v) ==
  /\ pc'[v] = pc[v] /\ job'[v] = job[v] /\ token'[v] = token[v]
  /\ attempt_count'[job[v]] = attempt_count[job[v]]
  /\ status'[job[v]] = status[job[v]] \/ {status[job[v]], status'[job[v]]} \subseteq Leased
  /\ worker_id'[job[v]] = worker_id[job[v]]
  /\ completed_events'[job[v]] = completed_events[job[v]]
  /\ Holds(v) => lease'[job[v]] = "valid"

LEMMA RowKeptGood ==
  ASSUME NEW v, Good(v), RowKept(v)
  PROVE  Good(v)'
BY DEF Good, RowKept, Holds, Leased

LEMMA WorkingIsBusy ==
  /\ Working \subseteq Busy
  /\ "off" \notin Working /\ "ended" \notin Working /\ "poll" \notin Working
  /\ "log_outcome" \notin Working
  /\ "heartbeat_idle" \notin Working
BY DEF Working, AfterComplete, Busy, Executing, Reporting, Failing

(* A move of the poll loop that leaves the table alone.                    *)
LEMMA GotoKeepsGood ==
  ASSUME TypeOK, WorkersHoldJobs, NEW w \in Worker, NEW to, Goto(w, to), UNCHANGED jobs,
         to \in Working => pc[w] \in Working,
         to \in Working /\ pc[w] \in AfterComplete => to \in AfterComplete
  PROVE  WorkersHoldJobs'
<1>1. ASSUME NEW v \in Worker, pc'[v] \in Working
      PROVE  Good(v)'
  <2>1. pc[v] \in Working /\ Good(v) /\ job'[v] = job[v] /\ token'[v] = token[v]
    BY <1>1, WorkingIsBusy DEF WorkersHoldJobs, Goto, TypeOK
  <2>2. pc[v] \in AfterComplete => pc'[v] \in AfterComplete
    BY <1>1 DEF Goto, TypeOK
  <2>3. QED
    BY <2>1, <2>2 DEF Good, Holds, jobs
<1>2. QED
  BY <1>1 DEF WorkersHoldJobs

LEMMA ExceptionKeepsGood ==
  ASSUME NEW w \in Worker
  PROVE  OnException(w) \in Working =>
           /\ pc[w] \in Working
           /\ OnException(w) = "count_failed" /\ "count_failed" \in AfterComplete
           /\ pc[w] \in Reporting
BY DEF OnException, Working, AfterComplete, Executing, Reporting, Failing

LEMMA BookkeepingKeepsGood ==
  ASSUME TypeOK, WorkersHoldJobs, NEW w \in Worker, Bookkeeping(w)
  PROVE  WorkersHoldJobs'
<1>1. ASSUME NEW from, NEW to, Bookkeep(w, from, to),
             to \in Working => from \in Working,
             to \in Working /\ from \in AfterComplete => to \in AfterComplete
      PROVE  WorkersHoldJobs'
  BY <1>1, GotoKeepsGood, ExceptionKeepsGood DEF Bookkeep, Finish
<1>2. CASE LogClaimed(w) \/ LogStarted(w) \/ NoHandler(w) \/ CountProcessed(w)
           \/ CountFailed(w) \/ HeartbeatIdle(w)
  BY <1>1, <1>2, WorkingIsBusy
     DEF LogClaimed, LogStarted, NoHandler, CountProcessed, CountFailed, HeartbeatIdle,
         Working, AfterComplete, Executing
<1>3. CASE ReadAttempts(w)
  <2> DEFINE to == IF attempt_count[job[w]] < MaxAttempts[job[w]]
                   THEN "requeue" ELSE "give_up"
  <2>1. Bookkeep(w, "read_attempts", to)
    BY <1>3 DEF ReadAttempts
  <2>2. to \in AfterComplete /\ "read_attempts" \in Working
    BY DEF AfterComplete, Working
  <2>3. QED
    BY <1>1, <2>1, <2>2
<1>4. CASE LogOutcome(w)
  <2> DEFINE to == IF job[w] \in Handled THEN "heartbeat_idle" ELSE "poll"
  <2>1. Bookkeep(w, "log_outcome", to) /\ to \notin Working
    BY <1>4, WorkingIsBusy DEF LogOutcome
  <2>2. QED
    BY <1>1, <2>1
<1>5. QED
  BY <1>2, <1>3, <1>4 DEF Bookkeeping

(* Two working workers work on different jobs.                             *)
LEMMA WorkingApart ==
  ASSUME WorkersHoldJobs, ClaimUnique, NEW v \in Worker, NEW w \in Worker, v # w,
         pc[v] \in Working, pc[w] \in Working
  PROVE  job[v] # job[w]
BY WorkingIsBusy DEF WorkersHoldJobs, Good, ClaimUnique

(* A statement about one's own job leaves the rows of all others alone.    *)
LEMMA OwnStatementKeepsOthers ==
  ASSUME TypeOK, WorkersHoldJobs, ClaimUnique, NEW w \in Worker, NEW v \in Worker, v # w,
         pc[v] \in Working, pc[w] \in Working,
         pc'[v] = pc[v], job'[v] = job[v], token'[v] = token[v],
         \/ MarkRunning(job[w], IdOf[w]) \/ CompleteJob(job[w]) \/ LogCompleted(job[w])
         \/ RequeueJob(job[w]) \/ FailJob(job[w])
  PROVE  RowKept(v)
<1>1. job[v] \in Job /\ job[w] \in Job /\ job[v] # job[w]
  BY WorkingApart, WorkingIsBusy DEF TypeOK
<1>2. QED
  BY <1>1 DEF TypeOK, TableTypeOK, RowKept, Holds,
       MarkRunning, CompleteJob, LogCompleted, RequeueJob, FailJob

LEMMA OwnStatementKeepsGood ==
  ASSUME TypeOK, WorkersHoldJobs, ClaimUnique, NEW w \in Worker,
         StartRunning(w) \/ Complete(w) \/ RecordCompletion(w) \/ Requeue(w) \/ GiveUp(w)
  PROVE  WorkersHoldJobs'
<1>1. /\ pc[w] \in Working /\ Good(w) /\ job[w] \in Job
      /\ OnException(w) = IF pc[w] \in {"complete", "log_completed"} THEN "count_failed"
                          ELSE IF pc[w] = "mark_running" THEN "poll"
                          ELSE IF job[w] \in Handled THEN "heartbeat_idle" ELSE "poll"
  BY WorkingIsBusy DEF StartRunning, Complete, RecordCompletion, Requeue, GiveUp,
       TypeOK, WorkersHoldJobs, Working, AfterComplete, Executing, OnException, Reporting, Failing
<1>2. PICK to : Goto(w, to)
  BY DEF StartRunning, Complete, RecordCompletion, Requeue, GiveUp, Finish
<1>3. ASSUME NEW v \in Worker \ {w}, pc'[v] \in Working
      PROVE  Good(v)'
  <2>1. pc'[v] = pc[v] /\ job'[v] = job[v] /\ token'[v] = token[v]
    BY <1>2, <1>3 DEF Goto, TypeOK
  <2>2. RowKept(v)
    BY <1>1, <1>3, <2>1, OwnStatementKeepsOthers
       DEF StartRunning, Complete, RecordCompletion, Requeue, GiveUp
  <2>3. QED
    BY <1>3, <2>1, <2>2, RowKeptGood DEF WorkersHoldJobs
<1>4. ASSUME pc'[w] \in Working
      PROVE  Good(w)'
  <2>1. pc'[w] = to /\ job'[w] = job[w] /\ token'[w] = token[w]
    BY <1>2, <1>4, WorkingIsBusy DEF Goto, TypeOK
  <2>2. CASE StartRunning(w)
    <3>1. Holds(w)
      BY <1>1, <2>2 DEF StartRunning, Good, AfterComplete
    <3>2. QED
      BY <1>1, <2>1, <2>2, <3>1
         DEF StartRunning, MarkRunning, Good, Holds, Leased, TypeOK, TableTypeOK
  <2>3. CASE Complete(w)
    <3>1. pc'[w] \in {"log_completed", "count_failed"}
      BY <1>1, <2>3 DEF Complete, Finish, Goto, TypeOK
    <3>2. QED
      BY <1>1, <2>1, <2>3, <3>1
         DEF Complete, CompleteJob, Good, AfterComplete, TypeOK, TableTypeOK
  <2>4. CASE RecordCompletion(w)
    <3>1. pc'[w] \in {"count_processed", "count_failed"}
      BY <1>1, <2>4 DEF RecordCompletion, Finish, Goto, TypeOK
    <3>2. QED
      BY <1>1, <2>1, <2>4, <3>1
         DEF RecordCompletion, LogCompleted, Good, Holds, AfterComplete
  <2>5. CASE Requeue(w) \/ GiveUp(w)
    <3>1. pc'[w] \in {"log_outcome", "heartbeat_idle", "poll"}
      BY <1>1, <2>5 DEF Requeue, GiveUp, Finish, Goto, TypeOK
    <3>2. QED
      BY <1>4, <3>1, WorkingIsBusy
  <2>6. QED
    BY <2>2, <2>3, <2>4, <2>5
<1>5. QED
  BY <1>3, <1>4 DEF WorkersHoldJobs

LEMMA ClaimKeepsRows ==
  ASSUME TypeOK, WorkersHoldJobs, NEW w \in Worker, NEW j \in Job, Claim(w, j),
         NEW v \in Worker, pc[v] \in Working,
         pc'[v] = pc[v], job'[v] = job[v], token'[v] = token[v]
  PROVE  RowKept(v)
<1>1. job[v] \in Job /\ job[v] # j
  BY WorkingIsBusy
     DEF Claim, ClaimNextJob, Claimable, TypeOK, WorkersHoldJobs, Good, Holds, Leased
<1>2. QED
  BY <1>1 DEF Claim, ClaimNextJob, RowKept, Holds, TypeOK, TableTypeOK

LEMMA ClaimKeepsGood ==
  ASSUME TypeOK, WorkersHoldJobs, NEW w \in Worker, NEW j \in Job, Claim(w, j)
  PROVE  WorkersHoldJobs'
<1>1. ASSUME NEW v \in Worker, pc[v] \in Working, pc'[v] = pc[v],
             job'[v] = job[v], token'[v] = token[v]
      PROVE  Good(v)'
  BY <1>1, ClaimKeepsRows, RowKeptGood DEF WorkersHoldJobs
<1>2. CASE UNCHANGED <<pc, job, token>>
  BY <1>1, <1>2 DEF WorkersHoldJobs
<1>3. CASE /\ pc' = [pc EXCEPT ![w] = "log_claimed"]
           /\ job' = [job EXCEPT ![w] = j]
           /\ token' = [token EXCEPT ![w] = attempt_count'[j]]
  <2>1. Good(w)'
    BY <1>3 DEF Claim, ClaimNextJob, Good, Holds, Leased, TypeOK, TableTypeOK
  <2>2. \A v \in Worker \ {w} : pc'[v] = pc[v] /\ job'[v] = job[v] /\ token'[v] = token[v]
    BY <1>3 DEF TypeOK
  <2>3. QED
    BY <1>1, <2>1, <2>2 DEF WorkersHoldJobs
<1>4. QED
  BY <1>2, <1>3 DEF Claim

(* The recovery loops, renewals, producers and time.                       *)
Environment ==
  \/ \E w \in Worker : RecoveryLoop(w)
  \/ \E w \in Worker, j \in Job : Renew(w, j) \/ LateRenewal(w, j)
  \/ \E j \in Job : Enqueue(j) \/ ExpireLease(j) \/ Tick(j)

LEMMA EnvironmentMovesNoWorker == Environment => UNCHANGED <<pc, job, token>>
BY DEF Environment, RecoveryLoop, Recover, BuryFailed, Renew, LateRenewal, Enqueue, ExpireLease,
       Tick, local

(* They leave the row of a working worker alone; here "expire" matters.    *)
LEMMA EnvironmentKeepsRows ==
  ASSUME "expire" \notin Faults, TypeOK, WorkersHoldJobs, Environment,
         NEW v \in Worker, pc[v] \in Working
  PROVE  RowKept(v)
<1>0. /\ job[v] \in Job /\ Good(v) /\ pc[v] \in Busy
      /\ (status[job[v]] \in Leased /\ Holds(v)) \/ status[job[v]] = "completed"
  BY WorkingIsBusy DEF TypeOK, WorkersHoldJobs, Good, Holds
<1>1. UNCHANGED <<pc, job, token>>
  BY EnvironmentMovesNoWorker
<1>2. ASSUME NEW w \in Worker, RecoveryLoop(w)
      PROVE  RowKept(v)
  <2>1. ASSUME NEW S \in SUBSET Job, RecoverExpiredLeases(S)
        PROVE  RowKept(v)
    BY <1>0, <1>1, <2>1
       DEF RecoverExpiredLeases, Recoverable, RowKept, Holds, Leased, TypeOK, TableTypeOK
  <2>2. ASSUME NEW S \in SUBSET Job, ProcessDeadLetters(S)
        PROVE  RowKept(v)
    BY <1>0, <1>1, <2>2
       DEF ProcessDeadLetters, Exhausted, RowKept, Holds, Leased, TypeOK, TableTypeOK
  <2>3. CASE UNCHANGED jobs
    BY <1>1, <2>3 DEF jobs, RowKept, Holds
  <2>4. QED
    BY <1>2, <2>1, <2>2, <2>3 DEF RecoveryLoop, Recover, BuryFailed
<1>3. ASSUME NEW w \in Worker, NEW j \in Job, Renew(w, j) \/ LateRenewal(w, j)
      PROVE  RowKept(v)
  <2>1. CASE RenewJobLease(j, IdOf[w])
    BY <1>0, <1>1, <2>1 DEF RenewJobLease, RowKept, Holds, TypeOK, TableTypeOK
  <2>2. CASE UNCHANGED jobs
    BY <1>1, <2>2 DEF jobs, RowKept, Holds
  <2>3. QED
    BY <1>3, <2>1, <2>2 DEF Renew, LateRenewal
<1>4. ASSUME NEW j \in Job, Enqueue(j)
      PROVE  RowKept(v)
  BY <1>0, <1>1, <1>4
     DEF Enqueue, InsertJob, RowKept, Holds, Leased, TypeOK, TableTypeOK
<1>5. ASSUME NEW j \in Job, ExpireLease(j)
      PROVE  RowKept(v)
  <2>1. ~Fault("expire")
    BY DEF Fault
  <2>2. Holds(v) => job[v] # j
    BY <1>0, <1>5, <2>1 DEF ExpireLease, KeptAlive, Holds
  <2>3. QED
    BY <1>0, <1>1, <1>5, <2>2
       DEF ExpireLease, LeaseRunsOut, RowKept, Holds, TypeOK, TableTypeOK
<1>6. ASSUME NEW j \in Job, Tick(j)
      PROVE  RowKept(v)
  BY <1>1, <1>6 DEF Tick, BecomeDue, RowKept, Holds
<1>7. QED
  BY <1>2, <1>3, <1>4, <1>5, <1>6 DEF Environment

LEMMA EnvironmentKeepsGood ==
  ASSUME "expire" \notin Faults, TypeOK, WorkersHoldJobs, Environment
  PROVE  WorkersHoldJobs'
BY EnvironmentMovesNoWorker, EnvironmentKeepsRows, RowKeptGood DEF WorkersHoldJobs

(* A working worker holds the row of its job until it has reported.        *)
THEOREM WorkersHoldTheirJobs ==
  ASSUME "expire" \notin Faults
  PROVE  Spec => []WorkersHoldJobs
<1>1. Init => WorkersHoldJobs
  BY WorkingIsBusy DEF Init, WorkersHoldJobs
<1>2. ASSUME TypeOK, ClaimUnique, WorkersHoldJobs, [Next]_vars
      PROVE  WorkersHoldJobs'
  <2>1. ASSUME NEW w \in Worker, Start(w) \/ Stop(w) \/ Crash(w) \/ Cancel(w) \/ Deploy(w)
        PROVE  WorkersHoldJobs'
    BY <1>2, <2>1, GotoKeepsGood, WorkingIsBusy DEF Start, Stop, Crash, Cancel, Deploy
  <2>2. ASSUME NEW w \in Worker, Raise(w)
        PROVE  WorkersHoldJobs'
    BY <1>2, <2>2, GotoKeepsGood, ExceptionKeepsGood DEF Raise
  <2>3. ASSUME NEW w \in Worker, Bookkeeping(w)
        PROVE  WorkersHoldJobs'
    BY <1>2, <2>3, BookkeepingKeepsGood
  <2>4. ASSUME NEW w \in Worker, EnterHandler(w) \/ LeaveHandler(w)
        PROVE  WorkersHoldJobs'
    BY <1>2, <2>4, GotoKeepsGood
       DEF EnterHandler, LeaveHandler, Working, AfterComplete, Executing
  <2>5. ASSUME NEW w \in Worker,
               StartRunning(w) \/ Complete(w) \/ RecordCompletion(w) \/ Requeue(w) \/ GiveUp(w)
        PROVE  WorkersHoldJobs'
    BY <1>2, <2>5, OwnStatementKeepsGood
  <2>6. ASSUME NEW w \in Worker, NEW j \in Job, Claim(w, j)
        PROVE  WorkersHoldJobs'
    BY <1>2, <2>6, ClaimKeepsGood
  <2>7. CASE UNCHANGED vars
    BY <1>2, <2>7 DEF vars, local, jobs, WorkersHoldJobs, Good, Holds
  <2>8. QED
    BY <1>2, <2>1, <2>2, <2>3, <2>4, <2>5, <2>6, <2>7, EnvironmentKeepsGood
       DEF Next, PollLoop, Bookkeeping, PollEmpty, Environment
<1>3. QED
  BY <1>1, <1>2, TypeCorrect, ClaimsUnique, PTL DEF Spec

(* A job's handler runs in at most one worker at a time, however workers   *)
(* crash, are cancelled or fail: while the first one runs it, the row      *)
(* stays leased to it.                                                     *)
THEOREM HandlersExclusive ==
  ASSUME "expire" \notin Faults
  PROVE  Spec => []HandlerExclusion
<1>1. ASSUME WorkersHoldJobs, ClaimUnique
      PROVE  HandlerExclusion
  BY <1>1, WorkingApart DEF HandlerExclusion, Working
<1>2. QED
  BY <1>1, WorkersHoldTheirJobs, ClaimsUnique, PTL

(* What fail_job read still holds when it writes: nobody claims the job    *)
(* between its SELECT and its UPDATE.                                      *)
THEOREM RetryDecisionsCurrent ==
  ASSUME "expire" \notin Faults
  PROVE  Spec => []RetryDecisionCurrent
<1>1. Init => RetryDecisionCurrent
  BY DEF Init, RetryDecisionCurrent
<1>2. ASSUME TypeOK, TypeOK', WorkersHoldJobs, WorkersHoldJobs', RetryDecisionCurrent, [Next]_vars
      PROVE  RetryDecisionCurrent'
  <2>1. ASSUME NEW v \in Worker, pc'[v] \in Decided, DecisionKept(v)
        PROVE  attempt_count'[job'[v]] = attempt_count[job[v]]
    <3>1. token'[v] = token[v]
      <4>1. pc'[v] \in Busy /\ pc'[v] # "log_claimed"
        BY <2>1 DEF Decided, Busy, Failing
      <4>2. CASE \A u \in Worker : pc'[u] \in Busy => SameClaim(u)
        BY <4>1, <4>2 DEF SameClaim
      <4>3. ASSUME NEW w \in Worker, NewClaim(w)
            PROVE  token'[v] = token[v]
        BY <1>2, <4>1, <4>3 DEF NewClaim, TypeOK
      <4>4. QED
        BY <1>2, <4>2, <4>3, ClaimsKept
    <3>2. pc[v] \in Working /\ pc'[v] \in Working
      BY <2>1 DEF DecisionKept, Decided, Working, AfterComplete
    <3>3. QED
      BY <1>2, <3>1, <3>2 DEF WorkersHoldJobs, Good
  <2>2. ASSUME NEW v \in Worker, pc'[v] \in Decided
        PROVE  /\ pc'[v] = "requeue" => attempt_count'[job'[v]] < MaxAttempts[job'[v]]
               /\ pc'[v] = "give_up" => attempt_count'[job'[v]] >= MaxAttempts[job'[v]]
    <3>1. CASE DecisionKept(v)
      BY <1>2, <2>1, <2>2, <3>1 DEF DecisionKept, RetryDecisionCurrent
    <3>2. CASE DecisionMade(v)
      <4>1. job[v] \in Job /\ attempt_count' = attempt_count
        BY <1>2, <3>2 DEF DecisionMade, jobs, TypeOK, Busy, Failing
      <4>2. attempt_count[job[v]] \in Nat /\ MaxAttempts[job[v]] \in Nat
        BY <1>2, <4>1, JobTableAssumption DEF TypeOK, TableTypeOK
      <4>3. QED
        BY <3>2, <4>1, <4>2 DEF DecisionMade
    <3>3. QED
      BY <1>2, <2>2, <3>1, <3>2, DecisionStep
  <2>3. QED
    BY <2>2 DEF RetryDecisionCurrent, Decided
<1>3. QED
  BY <1>1, <1>2, TypeCorrect, WorkersHoldTheirJobs, PTL DEF Spec

-------------------------------------------------------------------------------
(* ... and no statement raises *)

Done == {"log_completed", "count_processed"}

(* Only a worker that reports success is past the UPDATE of its row.       *)
Exact(w) ==
  /\ pc[w] \in Done => status[job[w]] = "completed"
  /\ pc[w] \in Working \ Done => Holds(w)
  /\ pc[w] = "log_completed" => completed_events[job[w]] = 0

EventsExact ==
  \A j \in Job : status[j] # "completed" => completed_events[j] = 0

ReportsExact ==
  (\A w \in Worker : Exact(w)) /\ EventsExact /\ AtMostOneCompletion

LEMMA RowKeptExact ==
  ASSUME NEW v, Exact(v), RowKept(v)
  PROVE  Exact(v)'
BY DEF Exact, RowKept, Holds, Leased, Working, Done, AfterComplete

(* The row of a worker that is about to write.                             *)
LEMMA WriterHolds ==
  ASSUME TypeOK, ReportsExact, NEW w \in Worker,
         StartRunning(w) \/ Complete(w) \/ Requeue(w) \/ GiveUp(w)
  PROVE  job[w] \in Job /\ Holds(w)
BY WorkingIsBusy DEF StartRunning, Complete, Requeue, GiveUp, TypeOK, ReportsExact, Exact,
     Working, Done, AfterComplete, Executing

LEMMA RecorderCompleted ==
  ASSUME TypeOK, ReportsExact, NEW w \in Worker, RecordCompletion(w)
  PROVE  job[w] \in Job /\ status[job[w]] = "completed" /\ completed_events[job[w]] = 0
BY DEF RecordCompletion, TypeOK, ReportsExact, Exact, Done, Busy, Reporting

Settled(j) == status[j] \in {"completed", "dead_letter"}

(* One step of SettledIsFinal.                                             *)
LEMMA SettledStays ==
  ASSUME TypeOK, ReportsExact, [Next]_vars, NEW j \in Job, Settled(j)
  PROVE  status'[j] = status[j]
<1> USE DEF TypeOK, TableTypeOK, Settled
<1>1. ASSUME UNCHANGED status PROVE status'[j] = status[j]
  BY <1>1
<1>2. ASSUME UNCHANGED jobs PROVE status'[j] = status[j]
  BY <1>1, <1>2 DEF jobs
<1>3. ASSUME NEW w \in Worker, Bookkeeping(w)
      PROVE  status'[j] = status[j]
  BY <1>2, <1>3, BookkeepingIsBookkeep DEF Bookkeep
<1>4. ASSUME NEW w \in Worker, NEW i \in Job,
             Claim(w, i) \/ Renew(w, i) \/ LateRenewal(w, i)
      PROVE  status'[j] = status[j]
  BY <1>4 DEF Claim, Renew, LateRenewal, ClaimNextJob, Claimable, RenewJobLease, jobs
<1>5. ASSUME NEW w \in Worker, StartRunning(w) \/ Complete(w) \/ Requeue(w) \/ GiveUp(w)
      PROVE  status'[j] = status[j]
  <2>1. job[w] \in Job /\ job[w] # j
    BY <1>5, WriterHolds DEF Holds, Leased
  <2>2. QED
    BY <1>5, <2>1 DEF StartRunning, Complete, Requeue, GiveUp,
         MarkRunning, CompleteJob, RequeueJob, FailJob
<1>6. ASSUME NEW w \in Worker, RecordCompletion(w)
      PROVE  status'[j] = status[j]
  BY <1>1, <1>6 DEF RecordCompletion, LogCompleted
<1>7. ASSUME NEW w \in Worker, RecoveryLoop(w)
      PROVE  status'[j] = status[j]
  BY <1>2, <1>7 DEF RecoveryLoop, Recover, BuryFailed, RecoverExpiredLeases, Recoverable,
       Leased, ProcessDeadLetters, Exhausted
<1>8. ASSUME NEW i \in Job, Enqueue(i) \/ ExpireLease(i) \/ Tick(i)
      PROVE  status'[j] = status[j]
  BY <1>8 DEF Enqueue, ExpireLease, Tick, InsertJob, LeaseRunsOut, BecomeDue
<1>9. QED
  BY <1>2, <1>3, <1>4, <1>5, <1>6, <1>7, <1>8
     DEF Next, PollLoop, Bookkeeping, Start, Stop, Crash, Cancel, Deploy, Raise, PollEmpty,
         EnterHandler, LeaveHandler, vars

(* 'completed' rows appear only for jobs that are completed, and one each. *)
LEMMA EventsStayExact ==
  ASSUME TypeOK, ReportsExact, [Next]_vars
  PROVE  EventsExact' /\ AtMostOneCompletion'
<1>1. ASSUME UNCHANGED completed_events
      PROVE  EventsExact' /\ AtMostOneCompletion'
  BY <1>1, SettledStays DEF ReportsExact, EventsExact, AtMostOneCompletion, Settled
<1>2. ASSUME NEW w \in Worker, RecordCompletion(w)
      PROVE  EventsExact' /\ AtMostOneCompletion'
  <2>1. job[w] \in Job /\ status[job[w]] = "completed" /\ completed_events[job[w]] = 0
    BY <1>2, RecorderCompleted
  <2>2. QED
    BY <1>2, <2>1 DEF RecordCompletion, LogCompleted, ReportsExact, EventsExact,
         AtMostOneCompletion, TypeOK, TableTypeOK
<1>3. ASSUME NEW w \in Worker, NEW j \in Job,
             Claim(w, j) \/ Renew(w, j) \/ LateRenewal(w, j)
      PROVE  UNCHANGED completed_events
  BY <1>3 DEF Claim, Renew, LateRenewal, ClaimNextJob, RenewJobLease, jobs
<1>4. ASSUME NEW w \in Worker, StartRunning(w) \/ Complete(w) \/ Requeue(w) \/ GiveUp(w)
      PROVE  UNCHANGED completed_events
  BY <1>4 DEF StartRunning, Complete, Requeue, GiveUp,
       MarkRunning, CompleteJob, RequeueJob, FailJob
<1>5. ASSUME NEW w \in Worker, RecoveryLoop(w)
      PROVE  UNCHANGED completed_events
  BY <1>5 DEF RecoveryLoop, Recover, BuryFailed, RecoverExpiredLeases, ProcessDeadLetters, jobs
<1>6. ASSUME NEW j \in Job, Enqueue(j) \/ ExpireLease(j) \/ Tick(j)
      PROVE  UNCHANGED completed_events
  BY <1>6 DEF Enqueue, ExpireLease, Tick, InsertJob, LeaseRunsOut, BecomeDue
<1>7. ASSUME NEW w \in Worker, Bookkeeping(w)
      PROVE  UNCHANGED completed_events
  BY <1>7, BookkeepingIsBookkeep DEF Bookkeep, jobs
<1>8. QED
  BY <1>1, <1>2, <1>3, <1>4, <1>5, <1>6, <1>7
     DEF Next, PollLoop, Bookkeeping, Start, Stop, Crash, Cancel, Deploy, Raise, PollEmpty,
         EnterHandler, LeaveHandler, vars, jobs

(* A move of the poll loop that leaves the table alone.                    *)
LEMMA GotoKeepsExact ==
  ASSUME TypeOK, NEW w \in Worker, NEW to, Goto(w, to), UNCHANGED jobs,
         \A v \in Worker : Exact(v),
         to \in Working => pc[w] \in Working /\ (to \in Done <=> pc[w] \in Done),
         to # "log_completed"
  PROVE  \A v \in Worker : Exact(v)'
<1>1. ASSUME NEW v \in Worker \ {w}
      PROVE  Exact(v)'
  BY <1>1 DEF Goto, TypeOK, Exact, Holds, jobs
<1>2. Exact(w)'
  <2>1. pc'[w] = to /\ (to \in Working => job'[w] = job[w])
    BY WorkingIsBusy DEF Goto, TypeOK
  <2>2. Done \subseteq Working
    BY DEF Done, Working, AfterComplete
  <2>3. QED
    BY <2>1, <2>2 DEF Exact, Holds, jobs
<1>3. QED
  BY <1>1, <1>2

LEMMA NoException ==
  ASSUME "error" \notin Faults
  PROVE  /\ \A w \in Worker : ~Raise(w)
         /\ \A w, to : Finish(w, to) => Goto(w, to)
BY DEF Raise, Finish, Fault

LEMMA BookkeepingKeepsExact ==
  ASSUME "error" \notin Faults, TypeOK, NEW w \in Worker, Bookkeeping(w),
         \A v \in Worker : Exact(v)
  PROVE  \A v \in Worker : Exact(v)'
<1>1. ASSUME NEW from, NEW to, Bookkeep(w, from, to), to # "log_completed",
             to \in Working => from \in Working /\ (to \in Done <=> from \in Done)
      PROVE  \A v \in Worker : Exact(v)'
  BY <1>1, GotoKeepsExact, NoException DEF Bookkeep
<1>2. CASE LogClaimed(w) \/ LogStarted(w) \/ NoHandler(w) \/ CountProcessed(w)
           \/ CountFailed(w) \/ HeartbeatIdle(w)
  BY <1>1, <1>2, WorkingIsBusy
     DEF LogClaimed, LogStarted, NoHandler, CountProcessed, CountFailed, HeartbeatIdle,
         Working, AfterComplete, Executing, Done
<1>3. CASE ReadAttempts(w)
  <2> DEFINE to == IF attempt_count[job[w]] < MaxAttempts[job[w]]
                   THEN "requeue" ELSE "give_up"
  <2>1. Bookkeep(w, "read_attempts", to)
    BY <1>3 DEF ReadAttempts
  <2>2. "read_attempts" \in Working \ Done /\ to \in Working \ Done /\ to # "log_completed"
    BY DEF AfterComplete, Working, Done
  <2>3. QED
    BY <1>1, <2>1, <2>2
<1>4. CASE LogOutcome(w)
  <2> DEFINE to == IF job[w] \in Handled THEN "heartbeat_idle" ELSE "poll"
  <2>1. Bookkeep(w, "log_outcome", to) /\ to \notin Working /\ to # "log_completed"
    BY <1>4, WorkingIsBusy DEF LogOutcome
  <2>2. QED
    BY <1>1, <2>1
<1>5. QED
  BY <1>2, <1>3, <1>4 DEF Bookkeeping

LEMMA OwnStatementKeepsExact ==
  ASSUME "error" \notin Faults, TypeOK, WorkersHoldJobs, ClaimUnique, ReportsExact,
         NEW w \in Worker,
         StartRunning(w) \/ Complete(w) \/ RecordCompletion(w) \/ Requeue(w) \/ GiveUp(w)
  PROVE  \A v \in Worker : Exact(v)'
<1>1. pc[w] \in Working /\ job[w] \in Job /\ Exact(w)
  BY WorkingIsBusy DEF StartRunning, Complete, RecordCompletion, Requeue, GiveUp,
       TypeOK, ReportsExact, Working, AfterComplete, Executing
<1>2. PICK to : Goto(w, to)
  BY NoException DEF StartRunning, Complete, RecordCompletion, Requeue, GiveUp
<1>3. ASSUME NEW v \in Worker \ {w}
      PROVE  Exact(v)'
  <2>1. pc'[v] = pc[v] /\ job'[v] = job[v] /\ token'[v] = token[v] /\ Exact(v)
    BY <1>2, <1>3 DEF Goto, TypeOK, ReportsExact
  <2>2. CASE pc[v] \in Working
    <3>1. RowKept(v)
      BY <1>1, <1>3, <2>1, <2>2, OwnStatementKeepsOthers
         DEF StartRunning, Complete, RecordCompletion, Requeue, GiveUp
    <3>2. QED
      BY <2>1, <3>1, RowKeptExact
  <2>3. CASE pc[v] \notin Working
    BY <2>1, <2>3 DEF Exact, Working, AfterComplete, Done
  <2>4. QED
    BY <2>2, <2>3
<1>4. Exact(w)'
  <2>1. CASE StartRunning(w)
    <3>1. Holds(w) /\ pc'[w] = "log_started" /\ job'[w] = job[w]
      BY <2>1, WriterHolds, NoException DEF StartRunning, Goto, TypeOK, Busy, Executing
    <3>2. QED
      BY <1>1, <2>1, <3>1
         DEF StartRunning, MarkRunning, Exact, Holds, Leased, Done, TypeOK, TableTypeOK
  <2>2. CASE Complete(w)
    <3>1. Holds(w) /\ pc'[w] = "log_completed" /\ job'[w] = job[w]
      BY <2>2, WriterHolds, NoException DEF Complete, Goto, TypeOK, Busy, Reporting
    <3>2. completed_events[job[w]] = 0
      BY <1>1, <3>1 DEF ReportsExact, EventsExact, Holds, Leased
    <3>3. QED
      BY <1>1, <2>2, <3>1, <3>2
         DEF Complete, CompleteJob, Exact, Done, TypeOK, TableTypeOK
  <2>3. CASE RecordCompletion(w)
    <3>1. pc'[w] = "count_processed" /\ job'[w] = job[w]
      BY <2>3, NoException DEF RecordCompletion, Goto, TypeOK, Busy, Reporting
    <3>2. QED
      BY <2>3, <3>1, RecorderCompleted DEF RecordCompletion, LogCompleted, Exact, Done
  <2>4. CASE Requeue(w) \/ GiveUp(w)
    <3>1. pc'[w] = "log_outcome"
      BY <2>4, NoException DEF Requeue, GiveUp, Goto, TypeOK
    <3>2. QED
      BY <3>1, WorkingIsBusy DEF Exact, Done
  <2>5. QED
    BY <2>1, <2>2, <2>3, <2>4
<1>5. QED
  BY <1>3, <1>4

LEMMA ClaimKeepsExact ==
  ASSUME TypeOK, WorkersHoldJobs, ReportsExact, NEW w \in Worker, NEW j \in Job, Claim(w, j)
  PROVE  \A v \in Worker : Exact(v)'
<1>1. ASSUME NEW v \in Worker, pc'[v] = pc[v], job'[v] = job[v], token'[v] = token[v]
      PROVE  Exact(v)'
  <2>1. CASE pc[v] \in Working
    BY <1>1, <2>1, ClaimKeepsRows, RowKeptExact DEF ReportsExact
  <2>2. CASE pc[v] \notin Working
    BY <1>1, <2>2 DEF Exact, Working, AfterComplete, Done
  <2>3. QED
    BY <2>1, <2>2
<1>2. CASE UNCHANGED <<pc, job, token>>
  BY <1>1, <1>2
<1>3. CASE /\ pc' = [pc EXCEPT ![w] = "log_claimed"]
           /\ job' = [job EXCEPT ![w] = j]
           /\ token' = [token EXCEPT ![w] = attempt_count'[j]]
  <2>1. Exact(w)'
    BY <1>3 DEF Claim, ClaimNextJob, Exact, Holds, Leased, Done, TypeOK, TableTypeOK
  <2>2. \A v \in Worker \ {w} : pc'[v] = pc[v] /\ job'[v] = job[v] /\ token'[v] = token[v]
    BY <1>3 DEF TypeOK
  <2>3. QED
    BY <1>1, <2>1, <2>2
<1>4. QED
  BY <1>2, <1>3 DEF Claim

LEMMA EnvironmentKeepsExact ==
  ASSUME "expire" \notin Faults, TypeOK, WorkersHoldJobs, ReportsExact, Environment
  PROVE  \A v \in Worker : Exact(v)'
<1>1. ASSUME NEW v \in Worker, pc[v] \in Working
      PROVE  Exact(v)'
  BY <1>1, EnvironmentKeepsRows, RowKeptExact DEF ReportsExact
<1>2. ASSUME NEW v \in Worker, pc[v] \notin Working
      PROVE  Exact(v)'
  BY <1>2, EnvironmentMovesNoWorker DEF Exact, Working, AfterComplete, Done
<1>3. QED
  BY <1>1, <1>2

THEOREM ReportsAreExact ==
  ASSUME "expire" \notin Faults, "error" \notin Faults
  PROVE  Spec => []ReportsExact
<1>1. Init => ReportsExact
  BY WorkingIsBusy DEF Init, TableInit, ReportsExact, Exact, EventsExact, AtMostOneCompletion, Done
<1>2. ASSUME TypeOK, ClaimUnique, WorkersHoldJobs, ReportsExact, [Next]_vars
      PROVE  ReportsExact'
  <2>0. \A v \in Worker : Exact(v)
    BY <1>2 DEF ReportsExact
  <2> SUFFICES \A v \in Worker : Exact(v)'
    BY <1>2, EventsStayExact DEF ReportsExact
  <2>1. ASSUME NEW w \in Worker, Start(w) \/ Stop(w) \/ Crash(w) \/ Cancel(w) \/ Deploy(w)
        PROVE  \A v \in Worker : Exact(v)'
    BY <1>2, <2>0, <2>1, GotoKeepsExact, WorkingIsBusy DEF Start, Stop, Crash, Cancel, Deploy
  <2>2. ASSUME NEW w \in Worker, EnterHandler(w) \/ LeaveHandler(w)
        PROVE  \A v \in Worker : Exact(v)'
    BY <1>2, <2>0, <2>2, GotoKeepsExact
       DEF EnterHandler, LeaveHandler, Working, AfterComplete, Executing, Done
  <2>3. CASE UNCHANGED vars
    BY <2>0, <2>3 DEF vars, local, jobs, Exact, Holds
  <2>4. QED
    BY <1>2, <2>0, <2>1, <2>2, <2>3, NoException, BookkeepingKeepsExact,
       OwnStatementKeepsExact, ClaimKeepsExact, EnvironmentKeepsExact
       DEF Next, PollLoop, Bookkeeping, PollEmpty, Environment
<1>3. QED
  BY <1>1, <1>2, TypeCorrect, ClaimsUnique, WorkersHoldTheirJobs, PTL DEF Spec

(* A job is recorded as completed at most once: neither a late report of a *)
(* crashed or cancelled attempt nor a retry adds a second event.           *)
THEOREM CompletedOnce ==
  ASSUME "expire" \notin Faults, "error" \notin Faults
  PROVE  Spec => []AtMostOneCompletion
<1>1. ReportsExact => AtMostOneCompletion
  BY DEF ReportsExact
<1>2. QED
  BY <1>1, ReportsAreExact, PTL

(* A completed or dead-lettered job never leaves that status, although     *)
(* complete_job and fail_job name nothing but the job in their WHERE.      *)
THEOREM SettledForGood ==
  ASSUME "expire" \notin Faults, "error" \notin Faults
  PROVE  Spec => SettledIsFinal
<1>1. ASSUME TypeOK, ReportsExact, [Next]_vars
      PROVE  [\A j \in Job : status[j] \in {"completed", "dead_letter"}
                               => status'[j] = status[j]]_vars
  BY <1>1, SettledStays DEF Settled
<1>2. QED
  BY <1>1, TypeCorrect, ReportsAreExact, PTL DEF Spec, SettledIsFinal

(* Each step of the queue is a step of the backend contract, or none.      *)
LEMMA StepIsBackendStep ==
  ASSUME TypeOK, ReportsExact, RetryDecisionCurrent, [Next]_vars
  PROVE  [Backend!Next]_(Backend!vars)
<1> DEFINE Step == Backend!Next
           Stutter == UNCHANGED <<status, worker_id, attempt_count>>
<1> USE JobQueueAssumption
<1>1. ASSUME UNCHANGED jobs PROVE Stutter
  BY <1>1 DEF jobs
<1>2. ASSUME NEW w \in Worker, Bookkeeping(w)
      PROVE  Stutter
  BY <1>1, <1>2, BookkeepingIsBookkeep DEF Bookkeep
<1>3. ASSUME NEW w \in Worker, NEW j \in Job, Claim(w, j)
      PROVE  Step
  <2>1. Backend!ClaimJob(j, IdOf[w])
    BY <1>3 DEF Claim, ClaimNextJob, Claimable, Backend!ClaimJob
  <2>2. QED
    BY <2>1 DEF Backend!Next
<1>4. ASSUME NEW w \in Worker, StartRunning(w)
      PROVE  Step \/ Stutter
  <2>1. job[w] \in Job /\ Holds(w) /\ MarkRunning(job[w], IdOf[w])
    BY <1>4, WriterHolds DEF StartRunning
  <2>2. CASE status[job[w]] = "claimed"
    <3>1. Backend!MarkRunning(job[w], IdOf[w])
      BY <2>1, <2>2 DEF MarkRunning, Holds, Backend!MarkRunning
    <3>2. QED
      BY <2>1, <3>1 DEF Backend!Next
  <2>3. CASE status[job[w]] # "claimed"
    BY <2>1, <2>3 DEF MarkRunning
  <2>4. QED
    BY <2>2, <2>3
<1>5. ASSUME NEW w \in Worker, Complete(w)
      PROVE  Step
  <2>1. job[w] \in Job /\ Holds(w)
    BY <1>5, WriterHolds
  <2>2. Backend!CompleteJob(job[w], IdOf[w])
    BY <1>5, <2>1 DEF Complete, CompleteJob, Holds, Leased,
         Backend!CompleteJob, Backend!Held, Backend!InProgress, Backend!Release
  <2>3. QED
    BY <2>1, <2>2 DEF Backend!Next
<1>6. ASSUME NEW w \in Worker, Requeue(w)
      PROVE  Step
  <2>1. job[w] \in Job /\ Holds(w) /\ attempt_count[job[w]] < MaxAttempts[job[w]]
    BY <1>6, WriterHolds DEF Requeue, RetryDecisionCurrent
  <2>2. Backend!RetryJob(job[w], IdOf[w])
    BY <1>6, <2>1 DEF Requeue, RequeueJob, Holds, Leased,
         Backend!RetryJob, Backend!Held, Backend!InProgress, Backend!Release
  <2>3. QED
    BY <2>1, <2>2 DEF Backend!Next
<1>7. ASSUME NEW w \in Worker, GiveUp(w)
      PROVE  Step
  <2>1. job[w] \in Job /\ Holds(w) /\ attempt_count[job[w]] >= MaxAttempts[job[w]]
    BY <1>7, WriterHolds DEF GiveUp, RetryDecisionCurrent
  <2>2. Backend!FailJob(job[w], IdOf[w])
    BY <1>7, <2>1 DEF GiveUp, FailJob, Holds, Leased,
         Backend!FailJob, Backend!Held, Backend!InProgress, Backend!Release
  <2>3. QED
    BY <2>1, <2>2 DEF Backend!Next
<1>8. ASSUME NEW w \in Worker, RecordCompletion(w)
      PROVE  Stutter
  BY <1>8 DEF RecordCompletion, LogCompleted
<1>9. ASSUME NEW S \in SUBSET Job, RecoverExpiredLeases(S)
      PROVE  Step
  <2>1. Backend!RecoverExpiredLeases(S)
    BY <1>9 DEF RecoverExpiredLeases, Recoverable, Leased,
         Backend!RecoverExpiredLeases, Backend!InProgress
  <2>2. QED
    BY <2>1 DEF Backend!Next
<1>10. ASSUME NEW S \in SUBSET Job, ProcessDeadLetters(S)
       PROVE  Step
  <2>1. Backend!ProcessDeadLetters(S)
    BY <1>10 DEF ProcessDeadLetters, Exhausted, Backend!ProcessDeadLetters
  <2>2. QED
    BY <2>1 DEF Backend!Next
<1>11. ASSUME NEW w \in Worker, RecoveryLoop(w)
       PROVE  Step \/ Stutter
  BY <1>1, <1>9, <1>10, <1>11 DEF RecoveryLoop, Recover, BuryFailed
<1>12. ASSUME NEW w \in Worker, NEW j \in Job, Renew(w, j) \/ LateRenewal(w, j)
       PROVE  Stutter
  BY <1>1, <1>12 DEF Renew, LateRenewal, RenewJobLease
<1>13. ASSUME NEW j \in Job, Enqueue(j)
       PROVE  Step
  <2>1. Backend!Enqueue(j)
    BY <1>13 DEF Enqueue, InsertJob, Backend!Enqueue
  <2>2. QED
    BY <2>1 DEF Backend!Next
<1>14. ASSUME NEW j \in Job, ExpireLease(j) \/ Tick(j)
       PROVE  Stutter
  BY <1>14 DEF ExpireLease, Tick, LeaseRunsOut, BecomeDue
<1>15. QED
  BY <1>1, <1>2, <1>3, <1>4, <1>5, <1>6, <1>7, <1>8, <1>11, <1>12, <1>13, <1>14
     DEF Next, PollLoop, Bookkeeping, Start, Stop, Crash, Cancel, Deploy, Raise, PollEmpty,
         EnterHandler, LeaveHandler, vars, Backend!vars

(* Workers on the jobs table implement the contract of                     *)
(* abstract_backend.py, crashes and cancellations included: every write    *)
(* comes from the holder of the job and takes the prescribed branch.       *)
THEOREM QueueImplementsBackend ==
  ASSUME "expire" \notin Faults, "error" \notin Faults
  PROVE  Spec => ImplementsBackend
<1>1. Init => Backend!Init
  BY DEF Init, TableInit, Backend!Init
<1>2. QED
  BY <1>1, StepIsBackendStep, TypeCorrect, ReportsAreExact, RetryDecisionsCurrent, PTL
     DEF Spec, ImplementsBackend, Backend!Spec
===============================================================================
