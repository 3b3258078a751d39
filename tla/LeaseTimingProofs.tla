-------------------------- MODULE LeaseTimingProofs --------------------------
(***************************************************************************)
(* A lease of (MaxMisses + 1) rounds of renewal and nine statements never  *)
(* runs out under a worker, for every lease, interval and delay.  The      *)
(* inductive invariant LeaseCovers says at each point of the attempt how   *)
(* much of the lease is left: enough for the current wait, and for         *)
(* everything that may still come before the next renewal or the report.   *)
(***************************************************************************)
EXTENDS LeaseTiming, TLAPS

(* The time n rounds of the renewal loop may take.                         *)
Rounds(n) == n * (Interval + Delay)

BeforeHandler ==
  /\ pc = "claim_job"      => lease_left >= left + 8 * Delay + Rounds(MaxMisses + 1)
  /\ pc = "log_claimed"    => lease_left >= left + 7 * Delay + Rounds(MaxMisses + 1)
  /\ pc = "mark_running"   => lease_left >= left + 6 * Delay + Rounds(MaxMisses + 1)
  /\ pc = "log_started"    => lease_left >= left + 5 * Delay + Rounds(MaxMisses + 1)
  /\ pc = "heartbeat_busy" => lease_left >= left + 4 * Delay + Rounds(MaxMisses + 1)

DuringHandler ==
  /\ renewal = "waiting" =>
       lease_left >= round_left + Rounds(MaxMisses - misses) + 4 * Delay
  /\ renewal = "answer" =>
       /\ lease_left >= round_left + Rounds(MaxMisses + 1) + 4 * Delay
       /\ misses = 0

AfterHandler ==
  /\ pc = "complete"      => lease_left >= left + 3 * Delay
  /\ pc = "count_failed"  => lease_left >= left + 2 * Delay
  /\ pc = "read_attempts" => lease_left >= left + Delay
  /\ pc = "update"        => lease_left >= left

LeaseCovers == BeforeHandler /\ DuringHandler /\ AfterHandler

-------------------------------------------------------------------------------
(* A round more takes one interval and one statement more, and rounds take *)
(* no negative time: all the arithmetic of products the proof needs.       *)
LEMMA OneRoundMore ==
  ASSUME NEW n \in Nat
  PROVE  /\ Rounds(n) \in Nat
         /\ Rounds(n + 1) = Rounds(n) + Interval + Delay
BY LeaseTimingAssumption DEF Rounds

LEMMA RoundsLeft ==
  ASSUME TypeOK
  PROVE  /\ Rounds(MaxMisses - misses) \in Nat
         /\ Rounds(MaxMisses) \in Nat
         /\ Rounds(MaxMisses + 1) \in Nat
         /\ Rounds(MaxMisses + 1) = Rounds(MaxMisses) + Interval + Delay
         /\ misses = 0 => Rounds(MaxMisses - misses) = Rounds(MaxMisses)
         /\ misses < MaxMisses =>
              /\ Rounds(MaxMisses - (misses + 1)) \in Nat
              /\ Rounds(MaxMisses - misses)
                   = Rounds(MaxMisses - (misses + 1)) + Interval + Delay
<1> USE LeaseTimingAssumption
<1>1. MaxMisses - misses \in Nat /\ MaxMisses \in Nat
  BY DEF TypeOK
<1>2. misses = 0 => MaxMisses - misses = MaxMisses
  OBVIOUS
<1>3. ASSUME misses < MaxMisses
      PROVE  /\ MaxMisses - (misses + 1) \in Nat
             /\ MaxMisses - misses = (MaxMisses - (misses + 1)) + 1
  BY <1>3, <1>1 DEF TypeOK
<1>4. ASSUME misses < MaxMisses
      PROVE  /\ Rounds(MaxMisses - (misses + 1)) \in Nat
             /\ Rounds(MaxMisses - misses)
                  = Rounds(MaxMisses - (misses + 1)) + Interval + Delay
  BY ONLY <1>3, <1>4, OneRoundMore
<1>5. Rounds(MaxMisses + 1) \in Nat
  BY OneRoundMore
<1> QED
  BY <1>1, <1>2, <1>4, <1>5, OneRoundMore

(* Whatever the configuration: the coroutines take turns as the program    *)
(* counters say, and a renewal task is alive exactly while a handler runs. *)
THEOREM TypeCorrect == Spec => []TypeOK
<1> USE LeaseTimingAssumption
<1>1. Init => TypeOK
  BY DEF Init, TypeOK, Statement
<1>2. TypeOK /\ [Next]_vars => TypeOK'
  <2> SUFFICES ASSUME TypeOK, [Next]_vars PROVE TypeOK'
    OBVIOUS
  <2> USE DEF TypeOK, Statement, Setup, Failing, Await
  <2>1. CASE Claim
    BY <2>1 DEF Claim
  <2>2. CASE Prepare
    BY <2>2 DEF Prepare
  <2>3. CASE NoHandler
    BY <2>3 DEF NoHandler
  <2>4. CASE EnterHandler
    BY <2>4 DEF EnterHandler
  <2>5. CASE Renew
    BY <2>5 DEF Renew
  <2>6. CASE NextRound
    BY <2>6 DEF NextRound
  <2>7. CASE Miss
    BY <2>7 DEF Miss
  <2>8. CASE LeaveHandler
    BY <2>8 DEF LeaveHandler
  <2>9. CASE Fail
    BY <2>9 DEF Fail
  <2>10. CASE Report
    BY <2>10 DEF Report
  <2>11. CASE Raise
    BY <2>11 DEF Raise
  <2>12. CASE Tick
    BY <2>12 DEF Tick
  <2>13. CASE UNCHANGED vars
    BY <2>13 DEF vars
  <2> QED
    BY <2>1, <2>2, <2>3, <2>4, <2>5, <2>6, <2>7, <2>8, <2>9, <2>10, <2>11, <2>12,
       <2>13 DEF Next
<1> QED
  BY <1>1, <1>2, PTL DEF Spec

(* If the lease is as long as LeaseIsLongEnough asks, it never runs out    *)
(* between claim_job's commit and the UPDATE of complete_job or fail_job,  *)
(* so recover_expired_leases never takes a job from a worker at work.      *)
THEOREM LeaseSuffices ==
  ASSUME LeaseIsLongEnough
  PROVE  Spec => []NoPhantomExpiry
<1> USE LeaseTimingAssumption
<1>1. Init => LeaseCovers
  BY DEF Init, LeaseCovers, BeforeHandler, DuringHandler, AfterHandler
<1>2. TypeOK /\ TypeOK' /\ LeaseCovers /\ [Next]_vars => LeaseCovers'
  <2> SUFFICES ASSUME TypeOK, TypeOK', LeaseCovers, [Next]_vars PROVE LeaseCovers'
    OBVIOUS
  <2>a. /\ Rounds(MaxMisses - misses) \in Nat
        /\ Rounds(MaxMisses) \in Nat
        /\ Rounds(MaxMisses + 1) \in Nat
        /\ Rounds(MaxMisses + 1) = Rounds(MaxMisses) + Interval + Delay
        /\ misses = 0 => Rounds(MaxMisses - misses) = Rounds(MaxMisses)
        /\ misses < MaxMisses =>
             /\ Rounds(MaxMisses - (misses + 1)) \in Nat
             /\ Rounds(MaxMisses - misses)
                  = Rounds(MaxMisses - (misses + 1)) + Interval + Delay
    BY RoundsLeft
  <2>b. Lease >= Rounds(MaxMisses + 1) + 9 * Delay
    BY LeaseIsLongEnough DEF LeaseIsLongEnough, Rounds
  <2>c. /\ left \in Int /\ round_left \in Int /\ lease_left \in Int
        /\ 0 <= left /\ left <= Delay /\ 0 <= round_left
    BY DEF TypeOK
  <2>d. /\ (renewal = "off" <=> pc # "handler")
        /\ renewal' = "off" <=> pc' # "handler"
    BY DEF TypeOK
  <2> USE <2>c DEF LeaseCovers, BeforeHandler, DuringHandler, AfterHandler
  <2>1. CASE Claim
    BY <2>1, <2>a, <2>b, <2>d DEF Claim, Await
  <2>2. CASE Prepare
    BY <2>2, <2>a, <2>d DEF Prepare, Await, Setup
  <2>3. CASE NoHandler
    BY <2>3, <2>a, <2>d DEF NoHandler, Await
  <2>4. CASE EnterHandler
    <3>1. Rounds(MaxMisses - misses') = Rounds(MaxMisses)
      BY <2>4 DEF EnterHandler
    <3> QED
      BY <2>4, <2>a, <3>1 DEF EnterHandler
  <2>5. CASE Renew
    BY <2>5, <2>a, <2>b, <2>d DEF Renew
  <2>6. CASE NextRound
    <3>1. Rounds(MaxMisses - misses') = Rounds(MaxMisses)
      BY <2>6, <2>a DEF NextRound
    <3> QED
      BY <2>6, <2>a, <2>d, <3>1 DEF NextRound
  <2>7. CASE Miss
    <3>1. Rounds(MaxMisses - misses') = Rounds(MaxMisses - (misses + 1))
      BY <2>7 DEF Miss
    <3>2. /\ pc' \notin Statement
          /\ renewal' = "waiting"
          /\ round_left' = Interval + Delay
          /\ lease_left' = lease_left
      BY <2>7, <2>d DEF Miss, Statement, Setup, Failing
    <3>3. lease_left >= Rounds(MaxMisses - misses) + 4 * Delay
      BY <2>7, <2>a DEF Miss
    <3>4. lease_left' >= round_left' + Rounds(MaxMisses - misses') + 4 * Delay
      BY <2>7, <2>a, <3>1, <3>2, <3>3 DEF Miss
    <3> QED
      BY <3>2, <3>4 DEF Statement, Setup, Failing
  <2>8. CASE LeaveHandler
    <3>1. lease_left >= 4 * Delay
      BY <2>8, <2>a, <2>d DEF LeaveHandler, TypeOK
    <3> QED
      BY <2>8, <3>1 DEF LeaveHandler, Await
  <2>9. CASE Fail
    BY <2>9, <2>a, <2>d DEF Fail, Await, Failing
  <2>10. CASE Report
    BY <2>10, <2>d DEF Report
  <2>11. CASE Raise
    BY <2>11, <2>d DEF Raise, Await, Statement
  <2>12. CASE Tick
    BY <2>12, <2>a, <2>d DEF Tick
  <2>13. CASE UNCHANGED vars
    BY <2>13 DEF vars
  <2> QED
    BY <2>1, <2>2, <2>3, <2>4, <2>5, <2>6, <2>7, <2>8, <2>9, <2>10, <2>11, <2>12,
       <2>13 DEF Next
<1>3. TypeOK /\ LeaseCovers => NoPhantomExpiry
  BY RoundsLeft
     DEF TypeOK, LeaseCovers, BeforeHandler, DuringHandler, AfterHandler,
         NoPhantomExpiry, Statement, Setup, Failing
<1> QED
  BY <1>1, <1>2, <1>3, TypeCorrect, PTL DEF Spec
===============================================================================
