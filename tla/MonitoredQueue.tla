---------------------------- MODULE MonitoredQueue ----------------------------
(***************************************************************************)
(* The Prometheus exporter beside the workers, on one database: the table  *)
(* that JobQueue's workers write is the one that collect_loop reads, one   *)
(* statement at a time.  Rows of workers come and go as in                 *)
(* PrometheusExporter; module WorkerRegistry says who writes them.         *)
(***************************************************************************)
EXTENDS JobQueue

CONSTANTS NoPage, MaxErrors   \* as in PrometheusExporter

ASSUME MonitoredQueueAssumption ==
  /\ IsFiniteSet(Job)
  /\ MaxErrors \in Nat

VARIABLES beat, at, stats, metrics, errors   \* as in PrometheusExporter

Exporter == INSTANCE PrometheusExporter WITH
  Holder <- WorkerId, Worker <- WorkerId,
  state <- status, holder <- worker_id, attempts <- attempt_count

monitor == <<beat, at, stats, metrics, errors>>
allvars == <<vars, monitor>>

MonitoredInit == Init /\ Exporter!Init

(* The exporter only reads: what it shares with the workers stays as it is *)
(* by its own actions, and the rest because it cannot reach it.            *)
ExporterStep ==
  /\ \/ \E id \in WorkerId : Exporter!WorkersChange(id)
     \/ Exporter!Scrape
     \/ Exporter!ScrapeFails
     \/ Exporter!Restart
  /\ UNCHANGED <<lease, scheduled, completed_events, local, faults>>

MonitoredNext ==
  \/ Next /\ UNCHANGED monitor
  \/ ExporterStep

MonitoredSpec == MonitoredInit /\ [][MonitoredNext]_allvars

(* Only the exporter owes anything: collect_loop keeps running.            *)
MonitoredFairSpec == MonitoredSpec /\ WF_allvars(ExporterStep /\ Exporter!Scrape)
-------------------------------------------------------------------------------
(* Everything the workers and the exporter keep has its type, and a round  *)
(* of collect_loop starts from nothing.                                    *)
MonitoredTypeOK == TypeOK /\ Exporter!TypeOK

(* jobqueue_completed_total and jobqueue_dead_letter_total never decrease  *)
(* from one page to the next, with complete_job and fail_job writing rows  *)
(* by their id alone while a round reads.                                  *)
CountersNeverDecrease == Exporter!CountersNeverDecrease

(* Once workers and jobs have come to rest the page agrees with the        *)
(* tables for good.                                                        *)
PageFollows == Exporter!PageFollows

(* jobqueue_failed_total, typed counter as well, never decreases.          *)
FailedNeverDecreases == Exporter!FailedNeverDecreases
===============================================================================
