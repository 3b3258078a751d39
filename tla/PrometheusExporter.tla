-------------------------- MODULE PrometheusExporter --------------------------
(***************************************************************************)
(* prometheus_exporter.py: collect_loop reads the jobs and workers tables  *)
(* through QueueManager, one statement at a time and with no transaction   *)
(* around them, and then replaces _metrics, the dict that MetricsHandler   *)
(* renders for Prometheus.  The jobs change as QueueBackend lets them      *)
(* change; MonitoredQueue puts real workers in its place.  The count of a  *)
(* status is represented by what was counted: the rows the statement's     *)
(* snapshot showed.  Throughput and timings are left out, and so are queue *)
(* names.                                                                  *)
(***************************************************************************)
EXTENDS Naturals, FiniteSets

CONSTANTS
  Job, Holder, Null, MaxAttempts,   \* as in QueueBackend
  Worker,         \* ids of the workers table
  NoPage,         \* the empty _metrics of a started exporter
  AttemptLimit,   \* bound on the claims of a job
  MaxErrors       \* bound on failed scrapes and restarts

VARIABLES
  state, holder, attempts,   \* the jobs, as in QueueBackend
  beat,      \* rows of workers: "absent", or the age of last_heartbeat
  at,        \* the statement collect_loop awaits, or "asleep"
  stats,     \* what the round has read so far
  metrics,   \* _metrics
  errors     \* failed scrapes and restarts so far

queue == <<state, holder, attempts>>
tables == <<queue, beat>>
vars == <<tables, at, stats, metrics, errors>>

Queue == INSTANCE QueueBackend

Status == {"absent", "pending", "claimed", "running", "completed", "failed", "dead_letter"}
Settled == {"completed", "dead_letter"}

Page == [jobs : [Job -> Status], active : SUBSET Worker, workers : SUBSET Worker]

Nothing == [jobs |-> [j \in Job |-> "absent"], active |-> {}, workers |-> {}]

TypeOK ==
  /\ state \in [Job -> Status]
  /\ beat \in [Worker -> {"absent", "recent", "stale"}]
  /\ at \in {"asleep", "counts", "active_workers", "rates", "all_workers"}
  /\ stats \in Page
  /\ at \in {"asleep", "counts"} => stats = Nothing
  /\ metrics \in Page \cup {NoPage}
  /\ errors \in 0..MaxErrors

Init ==
  /\ Queue!Init
  /\ beat = [w \in Worker |-> "absent"]
  /\ at = "asleep"
  /\ stats = Nothing
  /\ metrics = NoPage
  /\ errors = 0

-------------------------------------------------------------------------------
(* The tables change under the exporter. *)
JobsChange ==
  /\ Queue!Next
  /\ \A j \in Job : attempts'[j] <= AttemptLimit
  /\ UNCHANGED <<beat, at, stats, metrics, errors>>

(* register_worker, heartbeat, deregister_worker, and thirty seconds       *)
(* without a heartbeat.                                                    *)
WorkersChange(w) ==
  /\ \/ beat' = [beat EXCEPT ![w] = "recent"]
     \/ beat[w] # "absent" /\ \E b \in {"absent", "stale"} : beat' = [beat EXCEPT ![w] = b]
  /\ UNCHANGED <<queue, at, stats, metrics, errors>>

Wake ==
  /\ at = "asleep"
  /\ at' = "counts"
  /\ UNCHANGED <<tables, stats, metrics, errors>>

(* get_queue_stats: all six counts in one statement, then three more.      *)
CountByStatus ==
  /\ at = "counts"
  /\ at' = "active_workers"
  /\ stats' = [stats EXCEPT !.jobs = state]
  /\ UNCHANGED <<tables, metrics, errors>>

CountActiveWorkers ==
  /\ at = "active_workers"
  /\ at' = "rates"
  /\ stats' = [stats EXCEPT !.active = {w \in Worker : beat[w] = "recent"}]
  /\ UNCHANGED <<tables, metrics, errors>>

ThroughputAndTiming ==
  /\ at = "rates"
  /\ at' = "all_workers"
  /\ UNCHANGED <<tables, stats, metrics, errors>>

(* Mutation: a zero is taken for a missing value, and the old one stays.   *)
PublishNonzero ==
  /\ at = "all_workers"
  /\ at' = "asleep"
  /\ metrics' = [jobs |-> stats.jobs,
                 active |-> IF stats.active = {} /\ metrics # NoPage
                            THEN metrics.active ELSE stats.active,
                 workers |-> {w \in Worker : beat[w] # "absent"}]
  /\ stats' = Nothing
  /\ UNCHANGED <<tables, errors>>

(* get_all_workers, after which _metrics is replaced as a whole.           *)
Publish ==
  /\ at = "all_workers"
  /\ at' = "asleep"
  /\ metrics' = [stats EXCEPT !.workers = {w \in Worker : beat[w] # "absent"}]
  /\ stats' = Nothing
  /\ UNCHANGED <<tables, errors>>

(* Mutation: what the failed round has read is kept for the next one.      *)
ScrapeFailsHalfway ==
  /\ at # "asleep"
  /\ errors < MaxErrors
  /\ errors' = errors + 1
  /\ at' = "asleep"
  /\ UNCHANGED <<tables, stats, metrics>>

(* A statement raises: the round is lost, the old _metrics stays.          *)
ScrapeFails ==
  /\ at # "asleep"
  /\ errors < MaxErrors
  /\ errors' = errors + 1
  /\ at' = "asleep"
  /\ stats' = Nothing
  /\ UNCHANGED <<tables, metrics>>

(* The exporter's process dies and is started again.                       *)
Restart ==
  /\ errors < MaxErrors
  /\ errors' = errors + 1
  /\ at' = "asleep"
  /\ stats' = Nothing
  /\ metrics' = NoPage
  /\ UNCHANGED tables

Scrape == Wake \/ CountByStatus \/ CountActiveWorkers \/ ThroughputAndTiming \/ Publish

Next ==
  \/ JobsChange
  \/ \E w \in Worker : WorkersChange(w)
  \/ Scrape
  \/ ScrapeFails
  \/ Restart

Spec == Init /\ [][Next]_vars

(* collect_loop keeps running and its statements are answered.             *)
FairSpec == Spec /\ WF_vars(Scrape)
-------------------------------------------------------------------------------
(* The value of the metric that counts status s.                           *)
Exported(page, s) == Cardinality({j \in Job : page.jobs[j] = s})

NeverDecreases(s) ==
  metrics # NoPage /\ metrics' # NoPage => Exported(metrics, s) <= Exported(metrics', s)

(* jobqueue_completed_total and jobqueue_dead_letter_total, typed counter, *)
(* never decrease from one page to the next, although each page counts     *)
(* rows that other processes update, in a state of its own.                *)
CountersNeverDecrease == [][\A s \in Settled : NeverDecreases(s)]_metrics

(* The same of jobqueue_failed_total, "Cumulative permanently failed       *)
(* jobs": process_dead_letters empties the status it counts.               *)
FailedNeverDecreases == [][NeverDecreases("failed")]_metrics

(* Once the tables stay as they are, /metrics eventually says so for good, *)
(* whatever scrapes failed before: jobqueue_active_workers falls to 0 when *)
(* the last worker is gone, as the alert NoActiveWorkers needs.            *)
PageFollows ==
  <>[][FALSE]_tables =>
    <>[](metrics = [jobs |-> state, active |-> {w \in Worker : beat[w] = "recent"},
                    workers |-> {w \in Worker : beat[w] # "absent"}])
===============================================================================
