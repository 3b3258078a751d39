----------------------- MODULE PrometheusExporterProofs -----------------------
(***************************************************************************)
(* Proofs about PrometheusExporter: the types, and that the counters of    *)
(* settled jobs never decrease, for any number of jobs and workers.  The   *)
(* argument: no step of QueueBackend leaves a settled status, so each      *)
(* settled job of the page is one in what the running round has read, and  *)
(* each of those is one in the table.                                      *)
(***************************************************************************)
EXTENDS PrometheusExporter, FiniteSetTheorems, TLAPS

(* Every job that p shows settled is so in the table f.                    *)
Behind(p, f) == \A j \in Job : \A s \in Settled : p[j] = s => f[j] = s

PagesBehind ==
  /\ Behind(stats.jobs, state)
  /\ metrics # NoPage =>
       /\ Behind(metrics.jobs, state)
       /\ at \notin {"asleep", "counts"} => Behind(metrics.jobs, stats.jobs)

Inv == TypeOK /\ PagesBehind

-------------------------------------------------------------------------------
(* What QueueBackend's steps do to the jobs: types stay, and a settled job *)
(* stays settled.                                                          *)
LEMMA JobsSettle ==
  ASSUME state \in [Job -> Status], [Queue!Next]_queue
  PROVE  /\ state' \in [Job -> Status]
         /\ Behind(state, state')
<1> USE DEF Behind, Settled, Status
<1>1. CASE UNCHANGED queue
  BY <1>1 DEF queue
<1>2. CASE Queue!Next
  <2>1. ASSUME NEW j \in Job,
               \/ Queue!Enqueue(j)
               \/ \E h \in Holder :
                    \/ Queue!ClaimJob(j, h) \/ Queue!MarkRunning(j, h)
                    \/ Queue!CompleteJob(j, h) \/ Queue!RetryJob(j, h) \/ Queue!FailJob(j, h)
        PROVE  /\ state' \in [Job -> Status]
               /\ Behind(state, state')
    BY <2>1 DEF Queue!Enqueue, Queue!ClaimJob, Queue!MarkRunning, Queue!CompleteJob,
                Queue!RetryJob, Queue!FailJob, Queue!Release, Queue!Held, Queue!InProgress
  <2>2. ASSUME NEW S \in SUBSET Job,
               Queue!RecoverExpiredLeases(S) \/ Queue!ProcessDeadLetters(S)
        PROVE  /\ state' \in [Job -> Status]
               /\ Behind(state, state')
    BY <2>2 DEF Queue!RecoverExpiredLeases, Queue!ProcessDeadLetters, Queue!InProgress
  <2> QED BY <1>2, <2>1, <2>2 DEF Queue!Next
<1> QED BY <1>1, <1>2 DEF queue, Queue!vars

LEMMA BehindTransitive ==
  ASSUME NEW p, NEW q, NEW r, Behind(p, q), Behind(q, r)
  PROVE  Behind(p, r)
BY DEF Behind

LEMMA BehindItself == ASSUME NEW p PROVE Behind(p, p)
BY DEF Behind

LEMMA NothingIsBehind ==
  /\ Nothing \in Page
  /\ \A f : Behind(Nothing.jobs, f)
BY DEF Nothing, Page, Status, Behind, Settled

LEMMA InvInit ==
  ASSUME MaxErrors \in Nat, Init
  PROVE  Inv
<1>1. state \in [Job -> Status]
  BY DEF Init, Queue!Init, Status
<1>2. TypeOK
  BY <1>1, NothingIsBehind DEF Init, TypeOK
<1>3. PagesBehind
  BY NothingIsBehind DEF Init, PagesBehind
<1> QED BY <1>2, <1>3 DEF Inv

LEMMA TypeNext ==
  ASSUME MaxErrors \in Nat, TypeOK, [Next]_vars
  PROVE  TypeOK'
<1>1. CASE JobsChange
  BY <1>1, JobsSettle DEF JobsChange, TypeOK
<1>2. ASSUME NEW w \in Worker, WorkersChange(w) PROVE TypeOK'
  BY <1>2 DEF WorkersChange, TypeOK, queue
<1>3. CASE Wake \/ ThroughputAndTiming
  BY <1>3 DEF Wake, ThroughputAndTiming, TypeOK, tables, queue
<1>4. CASE CountByStatus
  BY <1>4 DEF CountByStatus, TypeOK, Page, tables, queue
<1>5. CASE CountActiveWorkers
  BY <1>5 DEF CountActiveWorkers, TypeOK, Page, tables, queue
<1>6. CASE Publish
  BY <1>6, NothingIsBehind DEF Publish, TypeOK, Page, tables, queue
<1>7. CASE ScrapeFails \/ Restart
  BY <1>7, NothingIsBehind DEF ScrapeFails, Restart, TypeOK, tables, queue
<1>8. CASE UNCHANGED vars
  BY <1>8 DEF vars, tables, queue, TypeOK
<1> QED BY <1>1, <1>2, <1>3, <1>4, <1>5, <1>6, <1>7, <1>8 DEF Next, Scrape

LEMMA InvNext ==
  ASSUME MaxErrors \in Nat, Inv, [Next]_vars
  PROVE  Inv'
<1> USE DEF Inv
<1>1. TypeOK'
  BY TypeNext
<1> SUFFICES PagesBehind'
  BY <1>1
<1>2. CASE JobsChange
  <2>1. Behind(state, state')
    BY <1>2, JobsSettle DEF JobsChange, TypeOK
  <2>2. Behind(stats.jobs, state')
    BY <2>1, BehindTransitive DEF PagesBehind
  <2>3. metrics # NoPage => Behind(metrics.jobs, state')
    BY <2>1, BehindTransitive DEF PagesBehind
  <2> QED BY <1>2, <2>2, <2>3 DEF JobsChange, PagesBehind
<1>3. ASSUME NEW w \in Worker, WorkersChange(w) PROVE PagesBehind'
  BY <1>3 DEF WorkersChange, PagesBehind, queue
<1>4. CASE Wake \/ ThroughputAndTiming
  BY <1>4 DEF Wake, ThroughputAndTiming, PagesBehind, tables, queue
<1>5. CASE CountByStatus
  <2>1. stats'.jobs = state
    BY <1>5 DEF CountByStatus, TypeOK, Page
  <2> QED BY <1>5, <2>1, BehindItself DEF CountByStatus, PagesBehind, tables, queue
<1>6. CASE CountActiveWorkers
  <2>1. stats'.jobs = stats.jobs
    BY <1>6 DEF CountActiveWorkers, TypeOK, Page
  <2> QED BY <1>6, <2>1 DEF CountActiveWorkers, PagesBehind, tables, queue
<1>7. CASE Publish
  <2>1. metrics'.jobs = stats.jobs
    BY <1>7 DEF Publish, TypeOK, Page
  <2> QED BY <1>7, <2>1, NothingIsBehind DEF Publish, PagesBehind, tables, queue
<1>8. CASE ScrapeFails \/ Restart
  BY <1>8, NothingIsBehind DEF ScrapeFails, Restart, PagesBehind, tables, queue
<1>9. CASE UNCHANGED vars
  BY <1>9 DEF vars, tables, queue, PagesBehind
<1> QED BY <1>2, <1>3, <1>4, <1>5, <1>6, <1>7, <1>8, <1>9 DEF Next, Scrape

(* A page that is behind another shows no larger number of settled jobs.   *)
LEMMA BehindIsFewer ==
  ASSUME IsFiniteSet(Job), NEW p, NEW q, NEW s \in Settled, Behind(p.jobs, q.jobs)
  PROVE  Exported(p, s) <= Exported(q, s)
<1> DEFINE P == {j \in Job : p.jobs[j] = s}
           Q == {j \in Job : q.jobs[j] = s}
<1>1. P \subseteq Q
  BY DEF Behind
<1>2. IsFiniteSet(Q)
  BY FS_Subset
<1>3. Cardinality(P) <= Cardinality(Q)
  BY <1>1, <1>2, FS_Subset
<1> QED BY <1>3 DEF Exported

-------------------------------------------------------------------------------
(* The exporter's state is well typed, and a round starts from nothing.    *)
THEOREM TypeCorrect ==
  ASSUME MaxErrors \in Nat
  PROVE  Spec => []TypeOK
<1>1. Inv => TypeOK
  BY DEF Inv
<1> QED BY <1>1, InvInit, InvNext, PTL DEF Spec

(* However many jobs there are and whatever happens to them while a round  *)
(* of collect_loop reads, no counter of settled jobs ever goes back.       *)
THEOREM SettledCountersGrow ==
  ASSUME IsFiniteSet(Job), MaxErrors \in Nat
  PROVE  Spec => CountersNeverDecrease
<1>1. Inv /\ [Next]_vars => [\A s \in Settled : NeverDecreases(s)]_metrics
  <2> SUFFICES ASSUME Inv, Next, metrics' # metrics, NEW s \in Settled,
                      metrics # NoPage, metrics' # NoPage
               PROVE  Exported(metrics, s) <= Exported(metrics', s)
    BY DEF vars, NeverDecreases, Exported
  <2>1. Publish
    BY DEF Next, JobsChange, WorkersChange, Scrape, Wake, CountByStatus,
           CountActiveWorkers, ThroughputAndTiming, ScrapeFails, Restart
  <2>2. metrics'.jobs = stats.jobs
    BY <2>1 DEF Publish, Inv, TypeOK, Page
  <2>3. Behind(metrics.jobs, stats.jobs)
    BY <2>1 DEF Publish, Inv, PagesBehind
  <2> QED BY <2>2, <2>3, BehindIsFewer
<1> QED BY <1>1, InvInit, InvNext, PTL DEF Spec, CountersNeverDecrease
===============================================================================
