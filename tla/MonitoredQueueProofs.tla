------------------------- MODULE MonitoredQueueProofs -------------------------
(***************************************************************************)
(* Proofs about MonitoredQueue.  Neither program disturbs the other, so    *)
(* JobQueue's theorems hold of the composition.  Where they say that the   *)
(* workers keep the backend contract, the exporter finds the tables to     *)
(* change as PrometheusExporter has them change, and what is proved there  *)
(* of its counters holds beside real workers.                              *)
(***************************************************************************)
EXTENDS MonitoredQueue, JobQueueProofs

(* PrometheusExporter once more, with the theorems proved about it.        *)
Proved == INSTANCE PrometheusExporterProofs WITH
  Holder <- WorkerId, Worker <- WorkerId,
  state <- status, holder <- worker_id, attempts <- attempt_count

-------------------------------------------------------------------------------
(* The contract is one module, under three names. *)

LEMMA SameContract ==
  /\ Backend!Next <=> Exporter!Queue!Next
  /\ Backend!Next <=> Proved!Queue!Next
<1> USE DEF
      Backend!Next, Exporter!Queue!Next, Proved!Queue!Next,
      Backend!Enqueue, Exporter!Queue!Enqueue, Proved!Queue!Enqueue,
      Backend!ClaimJob, Exporter!Queue!ClaimJob, Proved!Queue!ClaimJob,
      Backend!MarkRunning, Exporter!Queue!MarkRunning, Proved!Queue!MarkRunning,
      Backend!CompleteJob, Exporter!Queue!CompleteJob, Proved!Queue!CompleteJob,
      Backend!RetryJob, Exporter!Queue!RetryJob, Proved!Queue!RetryJob,
      Backend!FailJob, Exporter!Queue!FailJob, Proved!Queue!FailJob,
      Backend!Release, Exporter!Queue!Release, Proved!Queue!Release,
      Backend!Held, Exporter!Queue!Held, Proved!Queue!Held,
      Backend!InProgress, Exporter!Queue!InProgress, Proved!Queue!InProgress,
      Backend!RecoverExpiredLeases, Exporter!Queue!RecoverExpiredLeases,
      Proved!Queue!RecoverExpiredLeases, Backend!ProcessDeadLetters,
      Exporter!Queue!ProcessDeadLetters, Proved!Queue!ProcessDeadLetters
<1>1. Backend!Next <=> Exporter!Queue!Next
  OBVIOUS
<1>2. Backend!Next <=> Proved!Queue!Next
  OBVIOUS
<1> QED
  BY <1>1, <1>2

(* So is the exporter, under two.                                          *)
LEMMA SamePages ==
  /\ Exporter!Page = Proved!Page
  /\ Exporter!Nothing = Proved!Nothing
BY DEF Exporter!Status, Proved!Status, Exporter!Page, Proved!Page,
       Exporter!Nothing, Proved!Nothing

LEMMA SameExporterSteps ==
  /\ \A id : Exporter!WorkersChange(id) <=> Proved!WorkersChange(id)
  /\ Exporter!Scrape <=> Proved!Scrape
  /\ Exporter!ScrapeFails <=> Proved!ScrapeFails
  /\ Exporter!Restart <=> Proved!Restart
<1> USE DEF Exporter!tables, Proved!tables, Exporter!queue, Proved!queue,
            Exporter!Nothing, Proved!Nothing
<1>1. \A id : Exporter!WorkersChange(id) <=> Proved!WorkersChange(id)
  BY DEF Exporter!WorkersChange, Proved!WorkersChange
<1>2. Exporter!Scrape <=> Proved!Scrape
  BY DEF Exporter!Scrape, Proved!Scrape, Exporter!Wake, Proved!Wake,
         Exporter!CountByStatus, Proved!CountByStatus,
         Exporter!CountActiveWorkers, Proved!CountActiveWorkers,
         Exporter!ThroughputAndTiming, Proved!ThroughputAndTiming,
         Exporter!Publish, Proved!Publish
<1>3. Exporter!ScrapeFails <=> Proved!ScrapeFails
  BY DEF Exporter!ScrapeFails, Proved!ScrapeFails
<1>4. Exporter!Restart <=> Proved!Restart
  BY DEF Exporter!Restart, Proved!Restart
<1> QED
  BY <1>1, <1>2, <1>3, <1>4

LEMMA SameExporter ==
  /\ Exporter!Init <=> Proved!Init
  /\ Exporter!TypeOK <=> Proved!TypeOK
  /\ [Exporter!Next]_(Exporter!vars) => [Proved!Next]_(Proved!vars)
<1>1. Exporter!Init <=> Proved!Init
  BY SamePages DEF Exporter!Init, Proved!Init, Exporter!Queue!Init, Proved!Queue!Init
<1>2. Exporter!TypeOK <=> Proved!TypeOK
  BY SamePages DEF Exporter!TypeOK, Proved!TypeOK, Exporter!Status, Proved!Status
<1>3. Exporter!JobsChange <=> Proved!JobsChange
  BY SameContract DEF Exporter!JobsChange, Proved!JobsChange
<1>4. Exporter!Next <=> Proved!Next
  BY <1>3, SameExporterSteps DEF Exporter!Next, Proved!Next
<1>5. UNCHANGED Exporter!vars => UNCHANGED Proved!vars
  BY DEF Exporter!vars, Proved!vars, Exporter!tables, Proved!tables,
         Exporter!queue, Proved!queue
<1> QED
  BY <1>1, <1>2, <1>4, <1>5

-------------------------------------------------------------------------------
(* The two programs side by side *)

(* The exporter writes nothing that a worker reads.                        *)
LEMMA QueueUndisturbed ==
  ASSUME [MonitoredNext]_allvars
  PROVE  [Next]_vars
<1>1. CASE ExporterStep
  <2>1. UNCHANGED Exporter!queue
    BY <1>1 DEF ExporterStep, Exporter!WorkersChange, Exporter!Scrape, Exporter!Wake,
         Exporter!CountByStatus, Exporter!CountActiveWorkers, Exporter!ThroughputAndTiming,
         Exporter!Publish, Exporter!ScrapeFails, Exporter!Restart, Exporter!tables
  <2> QED
    BY <1>1, <2>1 DEF ExporterStep, Exporter!queue, vars, jobs
<1>2. CASE UNCHANGED allvars
  BY <1>2 DEF allvars
<1> QED
  BY <1>1, <1>2 DEF MonitoredNext

LEMMA QueueRuns == MonitoredSpec => Spec
BY QueueUndisturbed, PTL DEF MonitoredSpec, MonitoredInit, Spec

(* Whatever fails on either side, workers and exporter keep their types.   *)
THEOREM MonitoredTypeCorrect == MonitoredSpec => []MonitoredTypeOK
<1>1. MonitoredInit => Exporter!TypeOK
  BY Proved!InvInit, SameExporter, MonitoredQueueAssumption DEF MonitoredInit, Proved!Inv
<1>2. ASSUME TypeOK', Exporter!TypeOK, [MonitoredNext]_allvars
      PROVE  Exporter!TypeOK'
  <2>1. CASE UNCHANGED monitor
    BY <1>2, <2>1 DEF monitor, Exporter!TypeOK, Exporter!Status, TypeOK, TableTypeOK, Status
  <2>2. CASE ExporterStep
    <3>1. Proved!Next
      BY <2>2, SameExporterSteps DEF ExporterStep, Proved!Next
    <3>2. Proved!TypeOK'
      BY <1>2, <3>1, Proved!TypeNext, SameExporter, MonitoredQueueAssumption
    <3> QED
      BY <3>2, SamePages DEF Exporter!TypeOK, Proved!TypeOK, Exporter!Status, Proved!Status
  <2> QED
    BY <1>2, <2>1, <2>2 DEF MonitoredNext, allvars
<1> QED
  BY <1>1, <1>2, QueueRuns, TypeCorrect, PTL DEF MonitoredSpec, MonitoredTypeOK

(* A step of the workers is one that the exporter's model has foreseen.    *)
LEMMA StepIsExporterStep ==
  ASSUME TypeOK, TypeOK', ReportsExact, RetryDecisionCurrent, [MonitoredNext]_allvars
  PROVE  [Exporter!Next]_(Exporter!vars)
<1>1. CASE Next /\ UNCHANGED monitor
  <2>1. Backend!Next \/ UNCHANGED Backend!vars
    BY <1>1, StepIsBackendStep
  <2>2. CASE Backend!Next
    <3>1. \A j \in Job : attempt_count'[j] <= AttemptLimit
      BY JobTableAssumption DEF TypeOK, TableTypeOK
    <3>2. Exporter!JobsChange
      BY <1>1, <2>2, <3>1, SameContract DEF Exporter!JobsChange, monitor
    <3> QED
      BY <3>2 DEF Exporter!Next
  <2>3. CASE UNCHANGED Backend!vars
    BY <1>1, <2>3 DEF Backend!vars, Exporter!vars, Exporter!tables, Exporter!queue, monitor
  <2> QED
    BY <2>1, <2>2, <2>3
<1>2. CASE ExporterStep
  BY <1>2 DEF ExporterStep, Exporter!Next
<1>3. CASE UNCHANGED allvars
  BY <1>3 DEF allvars, vars, jobs, monitor, Exporter!vars, Exporter!tables, Exporter!queue
<1> QED
  BY <1>1, <1>2, <1>3 DEF MonitoredNext

(* The exporter's own specification knows of the workers no more than the  *)
(* contract of abstract_backend.py, and that is what JobQueue implements:  *)
(* what is proved of the exporter holds beside the real workers.           *)
LEMMA MonitorRunsExporter ==
  ASSUME "expire" \notin Faults, "error" \notin Faults
  PROVE  MonitoredSpec => Exporter!Spec
<1>1. MonitoredInit => Exporter!Init
  BY DEF MonitoredInit
<1> QED
  BY <1>1, StepIsExporterStep, QueueRuns, TypeCorrect, ReportsAreExact, RetryDecisionsCurrent,
     PTL DEF MonitoredSpec, Exporter!Spec

(* For any number of jobs and workers: the counters of completed and of    *)
(* dead-lettered jobs never decrease from one page to the next, although   *)
(* complete_job and fail_job name nothing but the job id while the round   *)
(* reads.                                                                  *)
THEOREM MonitoredCountersGrow ==
  ASSUME "expire" \notin Faults, "error" \notin Faults
  PROVE  MonitoredSpec => CountersNeverDecrease
<1>1. Exporter!Spec => Proved!Spec
  BY SameExporter, PTL DEF Exporter!Spec, Proved!Spec
<1>2. Proved!Spec => Proved!CountersNeverDecrease
  BY Proved!SettledCountersGrow, MonitoredQueueAssumption DEF IsFiniteSet, Proved!IsFiniteSet
<1>3. [\A s \in Proved!Settled : Proved!NeverDecreases(s)]_metrics
        => [\A s \in Exporter!Settled : Exporter!NeverDecreases(s)]_metrics
  BY DEF Proved!Settled, Exporter!Settled, Proved!NeverDecreases, Exporter!NeverDecreases,
         Proved!Exported, Exporter!Exported, Proved!Cardinality, Exporter!Cardinality
<1> QED
  BY <1>1, <1>2, <1>3, MonitorRunsExporter, PTL
     DEF CountersNeverDecrease, Proved!CountersNeverDecrease,
         Exporter!CountersNeverDecrease
===============================================================================
