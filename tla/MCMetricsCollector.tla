-------------------------- MODULE MCMetricsCollector --------------------------
(* The instance of MetricsCollector for TLC; Collector.cfg bounds it.      *)
EXTENDS MetricsCollector
===============================================================================
