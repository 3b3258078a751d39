----------------------------- MODULE QueueBackend -----------------------------
(***************************************************************************)
(* What abstract_backend.py asks of any queue backend, as seen by the      *)
(* workers: who may move a job from which status to which.  A job in       *)
(* progress has a holder, and only the holder's report moves it on;        *)
(* recover_expired_leases may take any set of jobs back.  Leases, event    *)
(* rows and the steps of a worker are below this level.                    *)
(***************************************************************************)
EXTENDS Naturals

CONSTANTS Job, Holder, Null, MaxAttempts

VARIABLES state, holder, attempts

vars == <<state, holder, attempts>>

InProgress == {"claimed", "running"}

Held(j, h) == state[j] \in InProgress /\ holder[j] = h

Init ==
  /\ state = [j \in Job |-> "absent"]
  /\ holder = [j \in Job |-> Null]
  /\ attempts = [j \in Job |-> 0]

(* Job j reaches state s in nobody's hands.                                *)
Release(j, s) ==
  /\ state' = [state EXCEPT ![j] = s]
  /\ holder' = [holder EXCEPT ![j] = Null]
  /\ UNCHANGED attempts

-------------------------------------------------------------------------------
Enqueue(j) ==
  /\ state[j] = "absent"
  /\ state' = [state EXCEPT ![j] = "pending"]
  /\ UNCHANGED <<holder, attempts>>

ClaimJob(j, h) ==
  /\ state[j] = "pending"
  /\ state' = [state EXCEPT ![j] = "claimed"]
  /\ holder' = [holder EXCEPT ![j] = h]
  /\ attempts' = [attempts EXCEPT ![j] = attempts[j] + 1]

MarkRunning(j, h) ==
  /\ state[j] = "claimed"
  /\ holder[j] = h
  /\ state' = [state EXCEPT ![j] = "running"]
  /\ UNCHANGED <<holder, attempts>>

CompleteJob(j, h) == Held(j, h) /\ Release(j, "completed")

RetryJob(j, h) ==
  Held(j, h) /\ attempts[j] < MaxAttempts[j] /\ Release(j, "pending")

FailJob(j, h) ==
  Held(j, h) /\ attempts[j] >= MaxAttempts[j] /\ Release(j, "failed")

RecoverExpiredLeases(S) ==
  /\ \A j \in S : state[j] \in InProgress
  /\ state' = [j \in Job |-> IF j \in S THEN "pending" ELSE state[j]]
  /\ holder' = [j \in Job |-> IF j \in S THEN Null ELSE holder[j]]
  /\ UNCHANGED attempts

ProcessDeadLetters(S) ==
  /\ \A j \in S : state[j] = "failed" /\ attempts[j] >= MaxAttempts[j]
  /\ state' = [j \in Job |-> IF j \in S THEN "dead_letter" ELSE state[j]]
  /\ UNCHANGED <<holder, attempts>>

Next ==
  \/ \E j \in Job :
       \/ Enqueue(j)
       \/ \E h \in Holder :
            \/ ClaimJob(j, h) \/ MarkRunning(j, h)
            \/ CompleteJob(j, h) \/ RetryJob(j, h) \/ FailJob(j, h)
  \/ \E S \in SUBSET Job : RecoverExpiredLeases(S) \/ ProcessDeadLetters(S)

Spec == Init /\ [][Next]_vars
===============================================================================
