----------------------------- MODULE MCLeaseTiming -----------------------------
(* Instances of LeaseTiming for TLC. *)
EXTENDS LeaseTiming

(* The lease is as short as LeaseIsLongEnough allows.                      *)
TightLease == (MaxMisses + 1) * (Interval + Delay) + 9 * Delay
===============================================================================
