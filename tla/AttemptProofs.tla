----------------------------- MODULE AttemptProofs -----------------------------
(***************************************************************************)
(* Proofs that every fault buys a job one extra attempt at most            *)
(* (ExtraAttemptsBounded of JobQueue) and one repeated completion at most  *)
(* (RepeatsBounded), for any finite set of workers and any assignment of   *)
(* ids.                                                                    *)
(*                                                                         *)
(* The attempts made are not all there is to bound: a worker that lost its *)
(* lease may be about to requeue a job that is no longer its own, and a    *)
(* row without a worker will be claimed again.  Debt adds both up.  That   *)
(* stale workers are no more than the faults is what pays when one of them *)
(* reads attempt_count, or turns the current holder into a stale one: both *)
(* happen below max_attempts only.                                         *)
(*                                                                         *)
(* Completions are bounded the same way: to those recorded, Budget adds    *)
(* the workers that may still record one, and one for a row that is open   *)
(* to a claim.  A claim turns the open row into such a worker, a requeue   *)
(* turns the worker back, and recording uses it up; a second worker needs  *)
(* a lease that ran out under the first, or an exception that sends a      *)
(* completed job to fail_job.                                              *)
(***************************************************************************)
EXTENDS JobQueueProofs, FiniteSetTheorems

(* A worker with a ClaimedJob that it has yet to report.                   *)
Owing == Executing \cup {"handler", "complete", "count_failed", "read_attempts",
                         "requeue", "give_up"}

OnJob(j) == {w \in Worker : pc[w] \in Owing /\ job[w] = j}

Current(w, j) ==
  /\ status[j] \in Leased
  /\ lease[j] = "valid"
  /\ token[w] = attempt_count[j]

Stale(j) == {w \in OnJob(j) : ~Current(w, j)}

(* Stale workers that have decided to put the job back.                    *)
Returning(j) == {w \in Stale(j) : pc[w] = "requeue"}

(* The row waits for its next claim, or will do so once it is recovered.   *)
Loose(j) ==
  \/ status[j] = "pending"
  \/ status[j] \in Leased /\ \A w \in OnJob(j) : ~Current(w, j)

Room(j) == attempt_count[j] < MaxAttempts[j]

Debt(j) ==
  /\ Cardinality(Stale(j)) <= faults
  /\ attempt_count[j] + Cardinality(Returning(j)) + (IF Loose(j) THEN 1 ELSE 0)
       <= MaxAttempts[j] + faults

-------------------------------------------------------------------------------
(* What a step may do to the debt of a job *)

(* Nobody becomes stale.                                                   *)
Calm(j) ==
  /\ attempt_count'[j] = attempt_count[j]
  /\ Stale(j)' \subseteq Stale(j)
  /\ faults' >= faults
  /\ Room(j) \/ (Returning(j)' \subseteq Returning(j) /\ (Loose(j)' => Loose(j)))

(* One worker becomes stale, or loses the row, by a fault.                 *)
Paid(j) ==
  /\ attempt_count'[j] = attempt_count[j]
  /\ \E x \in Worker : Stale(j)' \subseteq Stale(j) \cup {x}
  /\ faults' = faults + 1
  /\ Room(j) \/ Returning(j)' \subseteq Returning(j)

(* A stale worker reports, which may make another one stale.               *)
Swapped(j) ==
  /\ attempt_count'[j] = attempt_count[j]
  /\ \E w \in Stale(j), x \in Worker :
       /\ Stale(j)' \subseteq (Stale(j) \ {w}) \cup {x}
       /\ \/ Room(j)
          \/ w \in Returning(j) /\ Returning(j)' \subseteq Returning(j) \ {w}
          \/ Returning(j)' \subseteq Returning(j) /\ ~Loose(j)'
  /\ faults' = faults

Claimed(j) ==
  /\ Loose(j)
  /\ attempt_count'[j] = attempt_count[j] + 1
  /\ Stale(j)' \subseteq Stale(j)
  /\ Returning(j)' \subseteq Returning(j)
  /\ \/ ~Loose(j)' /\ faults' = faults
     \/ faults' = faults + 1

LEMMA StaleFinite ==
  ASSUME IsFiniteSet(Worker), NEW j
  PROVE  /\ IsFiniteSet(Stale(j)) /\ Cardinality(Stale(j)) \in Nat
         /\ IsFiniteSet(Returning(j)) /\ Cardinality(Returning(j)) \in Nat
         /\ Cardinality(Returning(j)) <= Cardinality(Stale(j))
<1>1. Stale(j) \in SUBSET Worker /\ Returning(j) \in SUBSET Stale(j)
  BY DEF Stale, Returning, OnJob
<1>2. IsFiniteSet(Stale(j))
  BY <1>1, FS_Subset
<1> QED
  BY <1>1, <1>2, FS_Subset, FS_CardinalityType

LEMMA StaleFiniteNext ==
  ASSUME IsFiniteSet(Worker), NEW j
  PROVE  /\ IsFiniteSet(Stale(j)') /\ Cardinality(Stale(j)') \in Nat
         /\ IsFiniteSet(Returning(j)') /\ Cardinality(Returning(j)') \in Nat
         /\ Cardinality(Returning(j)') <= Cardinality(Stale(j)')
<1>1. Stale(j)' \in SUBSET Worker /\ Returning(j)' \in SUBSET Stale(j)'
  BY DEF Stale, Returning, OnJob
<1>2. IsFiniteSet(Stale(j)')
  BY <1>1, FS_Subset
<1> QED
  BY <1>1, <1>2, FS_Subset, FS_CardinalityType

(* None of these steps leaves more debt than it pays for.                  *)
LEMMA DebtKept ==
  ASSUME IsFiniteSet(Worker), NEW j \in Job, TypeOK, TypeOK', Debt(j),
         Calm(j) \/ Paid(j) \/ Swapped(j) \/ Claimed(j)
  PROVE  Debt(j)'
<1> DEFINE a == attempt_count[j]
           b == attempt_count'[j]
           m == MaxAttempts[j]
           f == faults
           g == faults'
           s == Cardinality(Stale(j))
           t == Cardinality(Stale(j)')
           r == Cardinality(Returning(j))
           q == Cardinality(Returning(j)')
           n == IF Loose(j) THEN 1 ELSE 0
           k == IF Loose(j)' THEN 1 ELSE 0
<1>1. /\ a \in Nat /\ b \in Nat /\ m \in Nat /\ f \in Nat /\ g \in Nat
      /\ s \in Nat /\ t \in Nat /\ r \in Nat /\ q \in Nat /\ r <= s /\ q <= t
      /\ n \in 0..1 /\ k \in 0..1
  BY StaleFinite, StaleFiniteNext, JobTableAssumption, JobQueueAssumption
     DEF TypeOK, TableTypeOK
<1>2. s <= f /\ a + r + n <= m + f
  BY DEF Debt
<1> SUFFICES t <= g /\ b + q + k <= m + g
  BY DEF Debt
<1>3. CASE Calm(j)
  <2>1. b = a /\ t <= s /\ g >= f
    BY <1>3, StaleFinite, FS_Subset DEF Calm
  <2>2. CASE Room(j)
    <3>1. a < m
      BY <2>2 DEF Room
    <3> HIDE DEF a, b, m, f, g, s, t, r, q, n, k
    <3> QED
      BY <1>1, <1>2, <2>1, <3>1
  <2>3. CASE ~Room(j)
    <3>1. q <= r /\ k <= n
      BY <1>3, <2>3, StaleFinite, FS_Subset DEF Calm
    <3> HIDE DEF a, b, m, f, g, s, t, r, q, n, k
    <3> QED
      BY <1>1, <1>2, <2>1, <3>1
  <2> QED
    BY <2>2, <2>3
<1>4. CASE Paid(j)
  <2>1. b = a /\ g = f + 1
    BY <1>4 DEF Paid
  <2>2. t <= s + 1
    <3>1. PICK x \in Worker : Stale(j)' \subseteq Stale(j) \cup {x}
      BY <1>4 DEF Paid
    <3>2. /\ IsFiniteSet(Stale(j) \cup {x})
          /\ Cardinality(Stale(j) \cup {x}) \in {s, s + 1}
      BY StaleFinite, FS_AddElement
    <3>3. t <= Cardinality(Stale(j) \cup {x})
      BY <3>1, <3>2, FS_Subset
    <3>4. Cardinality(Stale(j) \cup {x}) \in Nat
      BY <3>2, FS_CardinalityType
    <3> HIDE DEF s, t
    <3> QED
      BY <1>1, <3>2, <3>3, <3>4
  <2>3. CASE Room(j)
    <3>1. a < m
      BY <2>3 DEF Room
    <3> HIDE DEF a, b, m, f, g, s, t, r, q, n, k
    <3> QED
      BY <1>1, <1>2, <2>1, <2>2, <3>1
  <2>4. CASE ~Room(j)
    <3>1. q <= r
      BY <1>4, <2>4, StaleFinite, FS_Subset DEF Paid
    <3> HIDE DEF a, b, m, f, g, s, t, r, q, n, k
    <3> QED
      BY <1>1, <1>2, <2>1, <2>2, <3>1
  <2> QED
    BY <2>3, <2>4
<1>5. CASE Swapped(j)
  <2>1. b = a /\ g = f
    BY <1>5 DEF Swapped
  <2>2. PICK w \in Stale(j), x \in Worker :
          /\ Stale(j)' \subseteq (Stale(j) \ {w}) \cup {x}
          /\ \/ Room(j)
             \/ w \in Returning(j) /\ Returning(j)' \subseteq Returning(j) \ {w}
             \/ Returning(j)' \subseteq Returning(j) /\ ~Loose(j)'
    BY <1>5 DEF Swapped
  <2>3. t <= s
    <3>1. /\ IsFiniteSet(Stale(j) \ {w})
          /\ Cardinality(Stale(j) \ {w}) = s - 1
      BY StaleFinite, FS_RemoveElement
    <3>2. /\ IsFiniteSet((Stale(j) \ {w}) \cup {x})
          /\ Cardinality((Stale(j) \ {w}) \cup {x}) \in {s - 1, (s - 1) + 1}
      BY <3>1, FS_AddElement
    <3>3. t <= Cardinality((Stale(j) \ {w}) \cup {x})
      BY <2>2, <3>2, FS_Subset
    <3>4. Cardinality((Stale(j) \ {w}) \cup {x}) \in Nat
      BY <3>2, FS_CardinalityType
    <3> HIDE DEF s, t
    <3> QED
      BY <1>1, <3>2, <3>3, <3>4
  <2>4. CASE Room(j)
    <3>1. a < m
      BY <2>4 DEF Room
    <3> HIDE DEF a, b, m, f, g, s, t, r, q, n, k
    <3> QED
      BY <1>1, <1>2, <2>1, <2>3, <3>1
  <2>5. CASE w \in Returning(j) /\ Returning(j)' \subseteq Returning(j) \ {w}
    <3>1. /\ IsFiniteSet(Returning(j) \ {w})
          /\ Cardinality(Returning(j) \ {w}) = r - 1
      BY <2>5, StaleFinite, FS_RemoveElement
    <3>2. q <= r - 1
      BY <2>5, <3>1, FS_Subset
    <3> HIDE DEF a, b, m, f, g, s, t, r, q, n, k
    <3> QED
      BY <1>1, <1>2, <2>1, <2>3, <3>2
  <2>6. CASE Returning(j)' \subseteq Returning(j) /\ ~Loose(j)'
    <3>1. q <= r /\ k = 0
      BY <2>6, StaleFinite, FS_Subset
    <3> HIDE DEF a, b, m, f, g, s, t, r, q, n, k
    <3> QED
      BY <1>1, <1>2, <2>1, <2>3, <3>1
  <2> QED
    BY <2>2, <2>4, <2>5, <2>6
<1>6. CASE Claimed(j)
  <2>1. b = a + 1 /\ t <= s /\ q <= r /\ n = 1
    BY <1>6, StaleFinite, FS_Subset DEF Claimed
  <2>2. (k = 0 /\ g = f) \/ g = f + 1
    BY <1>6 DEF Claimed
  <2> HIDE DEF a, b, m, f, g, s, t, r, q, n, k
  <2> QED
    BY <1>1, <1>2, <2>1, <2>2
<1> QED
  BY <1>3, <1>4, <1>5, <1>6

-------------------------------------------------------------------------------
(* What attempt numbers say *)

(* A ClaimedJob carries a number of an attempt that was made, its latest   *)
(* holder is the one the row names, and that holder, once it has decided   *)
(* to retry, was right to.                                                 *)
Ledger ==
  /\ \A j \in Job : status[j] = "absent" => attempt_count[j] = 0
  /\ \A w \in Worker : pc[w] \in Busy =>
       /\ token[w] # 0
       /\ token[w] <= attempt_count[job[w]]
       /\ token[w] = attempt_count[job[w]] =>
            /\ worker_id[job[w]] \in {IdOf[w], Null}
            /\ pc[w] = "requeue" => Room(job[w])

LEMMA AbsentStaysUncounted ==
  ASSUME TypeOK, [Next]_vars, NEW j \in Job, status'[j] = "absent"
  PROVE  status[j] = "absent" /\ attempt_count'[j] = attempt_count[j]
<1> USE DEF TypeOK, TableTypeOK
<1>1. TableNext
  BY StepIsTableStep
<1>2. ASSUME NEW i \in Job, NEW id \in WorkerId,
             ClaimNextJob(i, id) \/ MarkRunning(i, id) \/ RenewJobLease(i, id)
      PROVE  status[j] = "absent" /\ attempt_count'[j] = attempt_count[j]
  BY <1>2 DEF ClaimNextJob, MarkRunning, RenewJobLease
<1>3. ASSUME NEW i \in Job, NEW when, InsertJob(i, when)
      PROVE  status[j] = "absent" /\ attempt_count'[j] = attempt_count[j]
  BY <1>3 DEF InsertJob
<1>4. ASSUME NEW i \in Job, CompleteJob(i) \/ LogCompleted(i) \/ RequeueJob(i) \/ FailJob(i)
      PROVE  status[j] = "absent" /\ attempt_count'[j] = attempt_count[j]
  BY <1>4 DEF CompleteJob, LogCompleted, RequeueJob, FailJob
<1>5. ASSUME NEW i \in Job, LeaseRunsOut(i) \/ BecomeDue(i)
      PROVE  status[j] = "absent" /\ attempt_count'[j] = attempt_count[j]
  BY <1>5 DEF LeaseRunsOut, BecomeDue
<1>6. ASSUME NEW S \in SUBSET Job, RecoverExpiredLeases(S) \/ ProcessDeadLetters(S)
      PROVE  status[j] = "absent" /\ attempt_count'[j] = attempt_count[j]
  BY <1>6 DEF RecoverExpiredLeases, Recoverable, ProcessDeadLetters, Exhausted
<1>7. CASE UNCHANGED jobs
  BY <1>7 DEF jobs
<1> QED
  BY <1>1, <1>2, <1>3, <1>4, <1>5, <1>6, <1>7 DEF TableNext, AtomicStatement

LEMMA LedgerKept ==
  ASSUME TypeOK, TypeOK', Ledger, [Next]_vars
  PROVE  Ledger'
<1> DEFINE Entry(w) ==
      /\ token'[w] # 0
      /\ token'[w] <= attempt_count'[job'[w]]
      /\ token'[w] = attempt_count'[job'[w]] =>
           /\ worker_id'[job'[w]] \in {IdOf[w], Null}
           /\ pc'[w] = "requeue" => attempt_count'[job'[w]] < MaxAttempts[job'[w]]
<1>1. ASSUME NEW w \in Worker, pc'[w] \in Busy, SameClaim(w)
      PROVE  Entry(w)
  <2> DEFINE j == job[w]
  <2>1. /\ pc[w] \in Busy /\ j \in Job /\ job'[w] = j /\ token'[w] = token[w]
        /\ token[w] \in Nat /\ attempt_count[j] \in Nat /\ attempt_count'[j] \in Nat
    BY <1>1, JobTableAssumption DEF SameClaim, TypeOK, TableTypeOK
  <2>2. attempt_count[j] <= attempt_count'[j]
    BY <2>1, AttemptsGrow
  <2>3. token[w] # 0 /\ token[w] <= attempt_count[j]
    BY <2>1 DEF Ledger
  <2>4. token'[w] # 0 /\ token'[w] <= attempt_count'[j]
    BY <2>1, <2>2, <2>3
  <2>5. ASSUME token'[w] = attempt_count'[j]
        PROVE  /\ worker_id'[j] \in {IdOf[w], Null}
               /\ pc'[w] = "requeue" => attempt_count'[j] < MaxAttempts[j]
    <3>1. token[w] = attempt_count[j] /\ attempt_count'[j] = attempt_count[j]
      BY <2>1, <2>2, <2>3, <2>5
    <3>2. OwnerKept(j)
      <4>1. ASSUME NEW v \in Worker, Claim(v, j)
            PROVE  FALSE
        BY <2>1, <3>1, <4>1 DEF Claim, ClaimNextJob, TypeOK, TableTypeOK
      <4> QED
        BY <2>1, <4>1, OwnerOnlyByClaim
    <3>3. worker_id'[j] \in {IdOf[w], Null}
      BY <2>1, <3>1, <3>2 DEF OwnerKept, Ledger
    <3>4. ASSUME pc'[w] = "requeue"
          PROVE  attempt_count[j] < MaxAttempts[j]
      <4>1. DecisionKept(w) \/ DecisionMade(w)
        BY <3>4, DecisionStep DEF Decided
      <4>2. CASE DecisionKept(w)
        BY <2>1, <3>1, <3>4, <4>2 DEF DecisionKept, Ledger, Room
      <4>3. CASE DecisionMade(w)
        BY <3>4, <4>3 DEF DecisionMade
      <4> QED
        BY <4>1, <4>2, <4>3
    <3> QED
      BY <3>1, <3>3, <3>4
  <2> QED
    BY <2>1, <2>4, <2>5
<1>2. ASSUME NEW w \in Worker, NEW v \in Worker, NewClaim(v), pc'[w] \in Busy
      PROVE  Entry(w)
  <2>1. PICK j \in Job :
          /\ ClaimNextJob(j, IdOf[v])
          /\ pc' = [pc EXCEPT ![v] = "log_claimed"]
          /\ job' = [job EXCEPT ![v] = j]
          /\ token' = [token EXCEPT ![v] = attempt_count'[j]]
    BY <1>2 DEF NewClaim
  <2>2. CASE w = v
    <3>1. /\ attempt_count[j] \in Nat /\ attempt_count'[j] = attempt_count[j] + 1
          /\ worker_id'[j] = IdOf[w]
      BY <2>1, <2>2, JobTableAssumption DEF ClaimNextJob, TypeOK, TableTypeOK
    <3>2. pc'[w] = "log_claimed" /\ job'[w] = j /\ token'[w] = attempt_count'[j]
      BY <2>1, <2>2 DEF TypeOK
    <3> QED
      BY <3>1, <3>2
  <2>3. CASE w # v
    <3>1. pc[w] \in Busy /\ job'[w] = job[w] /\ token'[w] = token[w]
      BY <1>2, <2>1, <2>3 DEF TypeOK
    <3> QED
      BY <1>1, <1>2, <3>1 DEF SameClaim
  <2> QED
    BY <2>2, <2>3
<1>3. ASSUME NEW w \in Worker, pc'[w] \in Busy
      PROVE  Entry(w)
  BY <1>1, <1>2, <1>3, ClaimsKept
<1>4. ASSUME NEW j \in Job, status'[j] = "absent"
      PROVE  attempt_count'[j] = 0
  BY <1>4, AbsentStaysUncounted DEF Ledger
<1> QED
  BY <1>3, <1>4 DEF Ledger, Room

-------------------------------------------------------------------------------
(* What statements and moves do to the workers on a job *)

(* The row keeps its current holder, and its place in the queue.           *)
RowCalm(j) ==
  /\ attempt_count'[j] = attempt_count[j]
  /\ (\E v \in OnJob(j) : Current(v, j)) => status'[j] \in Leased /\ lease'[j] = "valid"
  /\ status'[j] = "pending" =>
       status[j] = "pending" \/ (status[j] \in Leased /\ lease[j] # "valid")
  /\ status'[j] \in Leased => status[j] \in Leased

LEMMA CalmStatements ==
  ASSUME TypeOK, NEW j \in Job
  PROVE  /\ UNCHANGED jobs => RowCalm(j)
         /\ \A S \in SUBSET Job :
              RecoverExpiredLeases(S) \/ ProcessDeadLetters(S) => RowCalm(j)
         /\ \A i \in Job, id \in WorkerId :
              MarkRunning(i, id) \/ RenewJobLease(i, id) => RowCalm(j)
         /\ \A i \in Job : LogCompleted(i) \/ BecomeDue(i) => RowCalm(j)
         /\ \A i \in Job \ {j} :
              \/ \E when \in {"due", "later"} : InsertJob(i, when)
              \/ \E id \in WorkerId : ClaimNextJob(i, id)
              \/ CompleteJob(i) \/ RequeueJob(i) \/ FailJob(i) \/ LeaseRunsOut(i)
              => RowCalm(j)
<1> USE DEF TypeOK, TableTypeOK, RowCalm, Current, Leased
<1>0. ASSUME UNCHANGED jobs
      PROVE  RowCalm(j)
  BY <1>0 DEF jobs
<1>1. ASSUME NEW S \in SUBSET Job, RecoverExpiredLeases(S) \/ ProcessDeadLetters(S)
      PROVE  RowCalm(j)
  BY <1>1 DEF RecoverExpiredLeases, Recoverable, ProcessDeadLetters, Exhausted
<1>2. ASSUME NEW i \in Job, NEW id \in WorkerId, MarkRunning(i, id) \/ RenewJobLease(i, id)
      PROVE  RowCalm(j)
  BY <1>2 DEF MarkRunning, RenewJobLease, Renewable
<1>3. ASSUME NEW i \in Job, LogCompleted(i) \/ BecomeDue(i)
      PROVE  RowCalm(j)
  BY <1>3 DEF LogCompleted, BecomeDue
<1>4. ASSUME NEW i \in Job \ {j},
             \/ \E when \in {"due", "later"} : InsertJob(i, when)
             \/ \E id \in WorkerId : ClaimNextJob(i, id)
             \/ CompleteJob(i) \/ RequeueJob(i) \/ FailJob(i) \/ LeaseRunsOut(i)
      PROVE  RowCalm(j)
  <2>1. status'[j] = status[j] /\ lease'[j] = lease[j] /\ attempt_count'[j] = attempt_count[j]
    BY <1>4 DEF InsertJob, ClaimNextJob, CompleteJob, RequeueJob, FailJob, LeaseRunsOut
  <2> QED
    BY <2>1
<1> QED
  BY <1>0, <1>1, <1>2, <1>3, <1>4

LEMMA LooseKept ==
  ASSUME NEW j \in Job, RowCalm(j), OnJob(j) \subseteq OnJob(j)',
         \A v \in OnJob(j) : token'[v] = token[v]
  PROVE  Loose(j)' => Loose(j)
<1>1. \A v \in OnJob(j) : Current(v, j) => Current(v, j)'
  BY DEF RowCalm, Current
<1> QED
  BY <1>1 DEF Loose, RowCalm, Current

LEMMA CalmStep ==
  ASSUME NEW j \in Job, RowCalm(j), OnJob(j)' = OnJob(j), faults' >= faults,
         \A v \in OnJob(j) : /\ token'[v] = token[v]
                             /\ pc'[v] = "requeue" => pc[v] = "requeue" \/ Room(j)
  PROVE  Calm(j)
<1>1. \A v \in OnJob(j) : Current(v, j) => Current(v, j)'
  BY DEF RowCalm, Current
<1>2. Stale(j)' \subseteq Stale(j)
  BY <1>1 DEF Stale
<1>3. Room(j) \/ Returning(j)' \subseteq Returning(j)
  BY <1>2 DEF Returning, Stale
<1>4. Loose(j)' => Loose(j)
  BY LooseKept
<1> QED
  BY <1>2, <1>3, <1>4 DEF Calm, RowCalm

(* The workers other than w, and where w goes.                             *)
OthersStay(w) ==
  \A v \in Worker \ {w} : pc'[v] = pc[v] /\ job'[v] = job[v] /\ token'[v] = token[v]

LEMMA GotoOnly ==
  ASSUME TypeOK, NEW w \in Worker, NEW to, Goto(w, to)
  PROVE  /\ OthersStay(w)
         /\ pc'[w] = to
         /\ to \in Busy => job'[w] = job[w] /\ token'[w] = token[w]
         /\ job'[w] \in {job[w], Null}
BY DEF TypeOK, Goto, OthersStay

LEMMA OwingIsBusy == Owing \subseteq Busy
BY DEF Owing, Busy, Executing, Reporting, Failing

LEMMA GotoKeepsWorkers ==
  ASSUME TypeOK, NEW w \in Worker, NEW to, Goto(w, to), NEW j \in Job,
         job[w] = j => (pc[w] \in Owing <=> to \in Owing)
  PROVE  OnJob(j)' = OnJob(j) /\ \A v \in OnJob(j) : token'[v] = token[v]
<1>1. /\ OthersStay(w) /\ pc'[w] = to
      /\ to \in Owing => job'[w] = job[w] /\ token'[w] = token[w]
      /\ job'[w] \in {job[w], Null}
  BY GotoOnly, OwingIsBusy
<1>2. OnJob(j)' = OnJob(j)
  BY <1>1, JobTableAssumption DEF OnJob, OthersStay
<1> QED
  BY <1>1, <1>2 DEF OnJob, OthersStay

LEMMA GotoStep ==
  ASSUME TypeOK, NEW w \in Worker, NEW to, Goto(w, to), NEW j \in Job, RowCalm(j),
         faults' >= faults, job[w] = j => (pc[w] \in Owing <=> to \in Owing),
         to = "requeue" => pc[w] = "requeue" \/ Room(job[w])
  PROVE  Calm(j)
<1>1. OnJob(j)' = OnJob(j) /\ \A v \in OnJob(j) : token'[v] = token[v]
  BY GotoKeepsWorkers
<1>2. \A v \in OnJob(j) : pc'[v] = "requeue" => pc[v] = "requeue" \/ Room(j)
  BY GotoOnly DEF OnJob, OthersStay
<1> QED
  BY <1>1, <1>2, CalmStep

LEMMA PaidStep ==
  ASSUME NEW j \in Job, RowCalm(j), NEW w \in Worker, OthersStay(w),
         pc'[w] # "requeue", faults' = faults + 1
  PROVE  Paid(j)
<1>1. ASSUME NEW v \in Worker \ {w}, v \in Stale(j)'
      PROVE  v \in Stale(j)
  BY <1>1 DEF Stale, OnJob, OthersStay, RowCalm, Current
<1>2. Stale(j)' \subseteq Stale(j) \cup {w}
  BY <1>1 DEF Stale, OnJob
<1>3. Returning(j)' \subseteq Returning(j)
  BY <1>1 DEF Returning, Stale, OnJob, OthersStay
<1> QED
  BY <1>2, <1>3 DEF Paid, RowCalm

LEMMA ExceptionRequeuesNothing ==
  ASSUME NEW w \in Worker
  PROVE  OnException(w) # "requeue"
BY DEF OnException, Reporting, Failing

LEMMA FinishStep ==
  ASSUME TypeOK, NEW w \in Worker, NEW to, Finish(w, to), NEW j \in Job, RowCalm(j),
         job[w] = j => (pc[w] \in Owing <=> to \in Owing),
         to = "requeue" => Room(job[w])
  PROVE  Calm(j) \/ Paid(j)
<1>1. CASE Goto(w, to) /\ UNCHANGED faults
  <2>1. faults' >= faults
    BY <1>1, JobQueueAssumption DEF TypeOK
  <2> QED
    BY <1>1, <2>1, GotoStep
<1>2. CASE Fault("error") /\ Goto(w, OnException(w))
  BY <1>2, GotoOnly, PaidStep, ExceptionRequeuesNothing DEF Fault
<1> QED
  BY <1>1, <1>2 DEF Finish

-------------------------------------------------------------------------------
(* Reports, expiry and claims *)

(* A job has one current holder at most.                                   *)
LEMMA OneCurrent ==
  ASSUME ClaimUnique, NEW j \in Job, NEW v \in OnJob(j), NEW w \in OnJob(j),
         Current(v, j), Current(w, j)
  PROVE  v = w
BY OwingIsBusy DEF ClaimUnique, OnJob, Current

LEMMA CurrentDecidedRightly ==
  ASSUME Ledger, NEW j \in Job, NEW v \in OnJob(j), Current(v, j), pc[v] = "requeue"
  PROVE  Room(j)
BY OwingIsBusy DEF Ledger, OnJob, Current

(* complete_job and fail_job's UPDATEs take the job from whoever has it.   *)
ReportsOn(w, j) ==
  /\ w \in OnJob(j)
  /\ OthersStay(w)
  /\ attempt_count'[j] = attempt_count[j]
  /\ status'[j] \notin Leased
  /\ status'[j] = "pending" => pc[w] = "requeue"

LEMMA ReportStep ==
  ASSUME Ledger, ClaimUnique, faults \in Nat, NEW j \in Job, NEW w \in Worker,
         ReportsOn(w, j), w \notin OnJob(j)', faults' = faults
  PROVE  Calm(j) \/ Swapped(j)
<1> USE DEF ReportsOn
<1>1. ASSUME NEW v \in Stale(j)'
      PROVE  v # w /\ v \in OnJob(j) /\ pc'[v] = pc[v]
  BY <1>1 DEF Stale, OnJob, OthersStay
<1>2. pc[w] # "requeue" => ~Loose(j)'
  BY DEF Loose
<1>3. CASE w \notin Stale(j)
  <2>1. Current(w, j)
    BY <1>3 DEF Stale
  <2>2. Stale(j)' \subseteq Stale(j)
    BY <1>1, <2>1, OneCurrent DEF Stale
  <2>3. Returning(j)' \subseteq Returning(j)
    BY <1>1, <2>2 DEF Returning
  <2>4. pc[w] = "requeue" => Room(j)
    BY <2>1, CurrentDecidedRightly
  <2> QED
    BY <1>2, <2>2, <2>3, <2>4 DEF Calm
<1>4. CASE w \in Stale(j) /\ \E x \in OnJob(j) : Current(x, j)
  <2>1. PICK x \in OnJob(j) : Current(x, j)
    BY <1>4
  <2>2. Stale(j)' \subseteq (Stale(j) \ {w}) \cup {x}
    BY <1>1, <2>1, OneCurrent DEF Stale
  <2>3. CASE pc[x] = "requeue"
    <3>1. Room(j)
      BY <2>1, <2>3, CurrentDecidedRightly
    <3> QED
      BY <1>4, <2>1, <2>2, <3>1 DEF Swapped, OnJob
  <2>4. CASE pc[x] # "requeue"
    <3>1. Returning(j)' \subseteq Returning(j) \ {w}
      BY <1>1, <2>2, <2>4 DEF Returning
    <3>2. pc[w] = "requeue" => w \in Returning(j)
      BY <1>4 DEF Returning
    <3>3. \/ w \in Returning(j) /\ Returning(j)' \subseteq Returning(j) \ {w}
          \/ Returning(j)' \subseteq Returning(j) /\ ~Loose(j)'
      BY <1>2, <3>1, <3>2
    <3> QED
      BY <1>4, <2>1, <2>2, <3>3 DEF Swapped, OnJob
  <2> QED
    BY <2>3, <2>4
<1>5. CASE w \in Stale(j) /\ ~\E x \in OnJob(j) : Current(x, j)
  <2>1. Stale(j)' \subseteq Stale(j) \ {w}
    BY <1>1, <1>5 DEF Stale
  <2>2. Returning(j)' \subseteq Returning(j) \ {w}
    BY <1>1, <2>1 DEF Returning
  <2>3. pc[w] = "requeue" => w \in Returning(j)
    BY <1>5 DEF Returning
  <2>4. \/ w \in Returning(j) /\ Returning(j)' \subseteq Returning(j) \ {w}
        \/ Returning(j)' \subseteq Returning(j) /\ ~Loose(j)'
    BY <1>2, <2>2, <2>3
  <2> QED
    BY <1>5, <2>1, <2>4 DEF Swapped
<1> QED
  BY <1>3, <1>4, <1>5

LEMMA FailedReportStep ==
  ASSUME Ledger, ClaimUnique, NEW j \in Job, NEW w \in Worker, ReportsOn(w, j),
         w \in OnJob(j)' => pc'[w] # "requeue", faults' = faults + 1
  PROVE  Paid(j)
<1> USE DEF ReportsOn
<1>1. ASSUME NEW v \in Stale(j)'
      PROVE  v \in OnJob(j) /\ (v # w => pc'[v] = pc[v])
  BY <1>1 DEF Stale, OnJob, OthersStay
<1>2. w \notin Returning(j)'
  BY DEF Returning, Stale
<1>3. CASE \E x \in OnJob(j) : Current(x, j)
  <2>1. PICK x \in OnJob(j) : Current(x, j)
    BY <1>3
  <2>2. Stale(j)' \subseteq Stale(j) \cup {x}
    BY <1>1, <2>1, OneCurrent DEF Stale
  <2>3. pc[x] # "requeue" => Returning(j)' \subseteq Returning(j)
    BY <1>1, <1>2, <2>2 DEF Returning
  <2>4. pc[x] = "requeue" => Room(j)
    BY <2>1, CurrentDecidedRightly
  <2> QED
    BY <2>1, <2>2, <2>3, <2>4 DEF Paid, OnJob
<1>4. CASE ~\E x \in OnJob(j) : Current(x, j)
  <2>1. Stale(j)' \subseteq Stale(j)
    BY <1>1, <1>4 DEF Stale
  <2>2. Returning(j)' \subseteq Returning(j)
    BY <1>1, <1>2, <2>1 DEF Returning
  <2> QED
    BY <2>1, <2>2 DEF Paid
<1> QED
  BY <1>3, <1>4

(* The lease of a current holder runs out by a fault only.                 *)
LEMMA HolderLosesLease ==
  ASSUME Ledger, LeasedIsRecoverable, NEW j \in Job, ExpireLease(j),
         NEW x \in OnJob(j), Current(x, j)
  PROVE  faults' = faults + 1
<1>1. worker_id[j] = IdOf[x]
  BY OwingIsBusy DEF OnJob, Current, Ledger, LeasedIsRecoverable
<1>2. KeptAlive(j)
  BY <1>1, OwingIsBusy DEF KeptAlive, OnJob
<1> QED
  BY <1>2 DEF ExpireLease, Fault

LEMMA ExpireStep ==
  ASSUME TypeOK, Ledger, ClaimUnique, LeasedIsRecoverable, NEW j \in Job, ExpireLease(j)
  PROVE  Calm(j) \/ Paid(j)
<1>1. /\ status' = status /\ attempt_count' = attempt_count /\ lease[j] = "valid"
      /\ pc' = pc /\ job' = job /\ token' = token
      /\ IF KeptAlive(j) THEN faults' = faults + 1 ELSE faults' = faults
  BY DEF ExpireLease, LeaseRunsOut, Fault, local
<1>2. OnJob(j)' = OnJob(j)
  BY <1>1 DEF OnJob
<1>3. CASE \E x \in OnJob(j) : Current(x, j)
  <2>1. PICK x \in OnJob(j) : Current(x, j)
    BY <1>3
  <2>3. faults' = faults + 1
    BY <2>1, HolderLosesLease
  <2>4. Stale(j)' \subseteq Stale(j) \cup {x}
    BY <1>2, <2>1, OneCurrent DEF Stale
  <2>5. pc[x] # "requeue" => Returning(j)' \subseteq Returning(j)
    BY <1>1, <2>4 DEF Returning
  <2>6. pc[x] = "requeue" => Room(j)
    BY <2>1, CurrentDecidedRightly
  <2> QED
    BY <1>1, <2>1, <2>3, <2>4, <2>5, <2>6 DEF Paid, OnJob
<1>4. CASE ~\E x \in OnJob(j) : Current(x, j)
  <2>1. RowCalm(j)
    BY <1>1, <1>4 DEF RowCalm
  <2>2. faults' >= faults
    BY <1>1, JobQueueAssumption DEF TypeOK
  <2> QED
    BY <1>1, <1>2, <2>1, <2>2, CalmStep
<1> QED
  BY <1>3, <1>4

LEMMA ClaimStep ==
  ASSUME TypeOK, NEW j \in Job, NEW w \in Worker, Claim(w, j)
  PROVE  Claimed(j)
<1>1. /\ status[j] = "pending" /\ status'[j] = "claimed" /\ lease'[j] = "valid"
      /\ attempt_count'[j] = attempt_count[j] + 1
  BY DEF Claim, ClaimNextJob, Claimable, TypeOK, TableTypeOK
<1>2. Loose(j) /\ Stale(j) = OnJob(j)
  BY <1>1 DEF Loose, Stale, Current, Leased
<1>3. CASE /\ pc' = [pc EXCEPT ![w] = "log_claimed"]
           /\ job' = [job EXCEPT ![w] = j]
           /\ token' = [token EXCEPT ![w] = attempt_count'[j]]
           /\ UNCHANGED faults
  <2>1. /\ OthersStay(w) /\ pc'[w] = "log_claimed" /\ job'[w] = j
        /\ token'[w] = attempt_count'[j]
    BY <1>3 DEF TypeOK, OthersStay
  <2>2. w \in OnJob(j)' /\ Current(w, j)'
    BY <1>1, <2>1 DEF OnJob, Current, Owing, Executing, Leased
  <2>3. Stale(j)' \subseteq Stale(j) /\ Returning(j)' \subseteq Returning(j)
    BY <1>2, <2>1, <2>2 DEF Stale, OnJob, OthersStay, Returning
  <2>4. ~Loose(j)'
    BY <1>1, <2>2 DEF Loose
  <2> QED
    BY <1>1, <1>2, <1>3, <2>3, <2>4 DEF Claimed
<1>4. CASE Fault("error") /\ UNCHANGED <<pc, job, token>>
  <2>1. OnJob(j)' = OnJob(j)
    BY <1>4 DEF OnJob
  <2>2. Stale(j)' \subseteq Stale(j) /\ Returning(j)' \subseteq Returning(j)
    BY <1>2, <1>4, <2>1 DEF Stale, Returning
  <2> QED
    BY <1>1, <1>2, <1>4, <2>2 DEF Claimed, Fault
<1> QED
  BY <1>3, <1>4 DEF Claim

-------------------------------------------------------------------------------
(* Every step *)

LEMMA BookkeepingMoves ==
  ASSUME TypeOK, NEW w \in Worker, Bookkeeping(w)
  PROVE  /\ UNCHANGED jobs /\ pc[w] \in Busy
         /\ \E to : /\ Finish(w, to)
                    /\ pc[w] \in Owing <=> to \in Owing
                    /\ to = "requeue" => Room(job[w])
                    /\ to # "log_completed"
<1> USE DEF Bookkeep
<1>1. UNCHANGED jobs /\ pc[w] \in Busy
  BY BookkeepingIsBookkeep
<1>2. CASE LogClaimed(w) \/ LogStarted(w) \/ NoHandler(w) \/ CountFailed(w)
  BY <1>1, <1>2 DEF LogClaimed, LogStarted, NoHandler, CountFailed, Owing, Executing
<1>3. CASE CountProcessed(w) \/ HeartbeatIdle(w)
  BY <1>1, <1>3 DEF CountProcessed, HeartbeatIdle, Owing, Executing
<1>4. CASE LogOutcome(w)
  <2> DEFINE to == IF job[w] \in Handled THEN "heartbeat_idle" ELSE "poll"
  <2>1. pc[w] = "log_outcome" /\ Finish(w, to)
    BY <1>4 DEF LogOutcome
  <2>2. "log_outcome" \notin Owing /\ to \notin Owing /\ to \notin {"requeue", "log_completed"}
    BY DEF Owing, Executing
  <2> HIDE DEF to
  <2> QED
    BY <1>1, <2>1, <2>2
<1>5. CASE ReadAttempts(w)
  <2> DEFINE to == IF attempt_count[job[w]] < MaxAttempts[job[w]]
                   THEN "requeue" ELSE "give_up"
  <2>1. pc[w] = "read_attempts" /\ Finish(w, to)
    BY <1>5 DEF ReadAttempts
  <2>2. pc[w] \in Owing /\ to \in Owing /\ to # "log_completed"
    BY <2>1 DEF Owing
  <2>3. to = "requeue" => Room(job[w])
    BY DEF Room
  <2> HIDE DEF to
  <2> QED
    BY <1>1, <2>1, <2>2, <2>3
<1> QED
  BY <1>2, <1>3, <1>4, <1>5 DEF Bookkeeping

LEMMA BookkeepingStep ==
  ASSUME TypeOK, NEW w \in Worker, Bookkeeping(w), NEW j \in Job
  PROVE  Calm(j) \/ Paid(j)
<1>1. RowCalm(j)
  BY BookkeepingMoves, CalmStatements
<1> QED
  BY <1>1, BookkeepingMoves, FinishStep

LEMMA ReportingStep ==
  ASSUME TypeOK, Ledger, ClaimUnique, NEW w \in Worker,
         Complete(w) \/ Requeue(w) \/ GiveUp(w), NEW j \in Job
  PROVE  Calm(j) \/ Paid(j) \/ Swapped(j)
<1> DEFINE to == IF pc[w] = "complete" THEN "log_completed" ELSE "log_outcome"
<1>1. /\ pc[w] \in {"complete", "requeue", "give_up"} /\ Finish(w, to)
      /\ \/ CompleteJob(job[w])
         \/ RequeueJob(job[w]) /\ pc[w] = "requeue"
         \/ FailJob(job[w])
  BY DEF Complete, Requeue, GiveUp
<1>2. to \notin Owing /\ to # "requeue"
  BY DEF Owing, Executing
<1>3. job[w] \in Job /\ pc[w] \in Owing
  BY <1>1, OwingIsBusy DEF Owing, TypeOK
<1> HIDE DEF to
<1>4. CASE job[w] # j
  <2>1. RowCalm(j)
    BY <1>1, <1>3, <1>4, CalmStatements
  <2> QED
    BY <1>1, <1>2, <1>4, <2>1, FinishStep
<1>5. CASE job[w] = j
  <2>1. OthersStay(w)
    BY <1>1, GotoOnly DEF Finish
  <2>2. ReportsOn(w, j)
    BY <1>1, <1>3, <1>5, <2>1
       DEF ReportsOn, OnJob, CompleteJob, RequeueJob, FailJob, Leased, TypeOK, TableTypeOK
  <2>3. CASE Goto(w, to) /\ UNCHANGED faults
    <3>1. w \notin OnJob(j)'
      BY <1>2, <2>3, GotoOnly DEF OnJob
    <3>2. faults \in Nat
      BY JobQueueAssumption DEF TypeOK
    <3> QED
      BY <2>2, <2>3, <3>1, <3>2, ReportStep
  <2>4. CASE Fault("error") /\ Goto(w, OnException(w))
    <3>1. pc'[w] # "requeue" /\ faults' = faults + 1
      BY <2>4, GotoOnly, ExceptionRequeuesNothing DEF Fault
    <3> QED
      BY <2>2, <3>1, FailedReportStep
  <2> QED
    BY <1>1, <2>3, <2>4 DEF Finish
<1> QED
  BY <1>4, <1>5

LEMMA ClaimElsewhereStep ==
  ASSUME TypeOK, NEW w \in Worker, NEW i \in Job, Claim(w, i), NEW j \in Job \ {i}
  PROVE  Calm(j)
<1>1. RowCalm(j)
  BY CalmStatements, JobQueueAssumption DEF Claim
<1>2. /\ OthersStay(w)
      /\ w \notin OnJob(j) /\ w \notin OnJob(j)'
  BY DEF Claim, TypeOK, OthersStay, OnJob, Owing, Executing
<1>3. OnJob(j)' = OnJob(j)
  BY <1>2 DEF OnJob, OthersStay
<1>4. faults' >= faults
  BY JobQueueAssumption DEF Claim, Fault, TypeOK
<1>5. \A v \in OnJob(j) : token'[v] = token[v] /\ pc'[v] = pc[v]
  BY <1>2 DEF OnJob, OthersStay
<1> QED
  BY <1>1, <1>3, <1>4, <1>5, CalmStep

LEMMA InsertStep ==
  ASSUME TypeOK, Ledger, NEW j \in Job, MaxAttempts[j] >= 1,
         NEW when, InsertJob(j, when), UNCHANGED <<local, faults>>
  PROVE  Calm(j)
<1>1. attempt_count[j] = 0 /\ attempt_count'[j] = 0
  BY DEF InsertJob, Ledger
<1>2. OnJob(j) = {}
  <2> SUFFICES ASSUME NEW v \in OnJob(j) PROVE FALSE
    OBVIOUS
  <2>1. v \in Worker /\ pc[v] \in Busy /\ job[v] = j
    BY OwingIsBusy DEF OnJob
  <2>2. token[v] # 0 /\ token[v] <= 0 /\ token[v] \in Nat
    BY <1>1, <2>1, JobTableAssumption DEF Ledger, TypeOK
  <2> QED
    BY <2>2
<1>3. Stale(j)' = {}
  BY <1>2 DEF Stale, OnJob, local
<1>4. Room(j)
  BY <1>1, JobTableAssumption DEF Room
<1>5. faults' >= faults
  BY JobQueueAssumption DEF TypeOK
<1> QED
  BY <1>1, <1>3, <1>4, <1>5 DEF Calm

LEMMA LocalCalmStep ==
  ASSUME TypeOK, NEW j \in Job, RowCalm(j), UNCHANGED <<pc, job, token>>, faults' >= faults
  PROVE  Calm(j)
<1>1. OnJob(j)' = OnJob(j)
  BY DEF OnJob
<1> QED
  BY <1>1, CalmStep

LEMMA EveryStep ==
  ASSUME TypeOK, Ledger, ClaimUnique, LeasedIsRecoverable, [Next]_vars,
         NEW j \in Job, MaxAttempts[j] >= 1
  PROVE  Calm(j) \/ Paid(j) \/ Swapped(j) \/ Claimed(j)
<1>0. /\ faults \in Nat /\ faults >= faults /\ faults + 1 >= faults
      /\ {"off", "ended", "poll"} \cap Owing = {} /\ "requeue" \notin {"off", "ended", "poll"}
  BY JobQueueAssumption DEF TypeOK, Owing, Executing
<1>1. ASSUME NEW w \in Worker, Start(w) \/ Deploy(w)
      PROVE  Calm(j)
  <2>1. RowCalm(j)
    BY <1>1, CalmStatements DEF Start, Deploy
  <2>2. PICK to \in {"poll", "ended", "off"} :
          Goto(w, to) /\ pc[w] \in {"off", "ended"} /\ faults' >= faults
    BY <1>0, <1>1 DEF Start, Deploy, Fault
  <2> QED
    BY <1>0, <2>1, <2>2, GotoStep
<1>2. ASSUME NEW w \in Worker, Stop(w) \/ Crash(w) \/ Cancel(w) \/ Raise(w)
      PROVE  Paid(j)
  <2>1. RowCalm(j)
    BY <1>2, CalmStatements DEF Stop, Crash, Cancel, Raise
  <2>2. \E to : Goto(w, to) /\ to # "requeue"
    BY <1>2, ExceptionRequeuesNothing DEF Stop, Crash, Cancel, Raise
  <2>3. faults' = faults + 1
    BY <1>2 DEF Stop, Crash, Cancel, Raise, Fault
  <2> QED
    BY <2>1, <2>2, <2>3, GotoOnly, PaidStep
<1>3. ASSUME NEW w \in Worker, NEW i \in Job, Claim(w, i)
      PROVE  Calm(j) \/ Claimed(j)
  BY <1>3, ClaimStep, ClaimElsewhereStep
<1>4. ASSUME NEW w \in Worker, Bookkeeping(w)
      PROVE  Calm(j) \/ Paid(j)
  BY <1>4, BookkeepingStep
<1>5. ASSUME NEW w \in Worker, StartRunning(w) \/ RecordCompletion(w)
      PROVE  Calm(j) \/ Paid(j)
  <2>1. job[w] \in Job /\ IdOf[w] \in WorkerId
    BY <1>5, JobQueueAssumption DEF StartRunning, RecordCompletion, TypeOK, Busy,
                                    Executing, Reporting
  <2>2. RowCalm(j)
    BY <1>5, <2>1, CalmStatements DEF StartRunning, RecordCompletion
  <2>3. CASE StartRunning(w)
    BY <2>2, <2>3, FinishStep DEF StartRunning, Owing, Executing
  <2>4. CASE RecordCompletion(w)
    BY <2>2, <2>4, FinishStep DEF RecordCompletion, Owing, Executing
  <2> QED
    BY <1>5, <2>3, <2>4
<1>6. ASSUME NEW w \in Worker, EnterHandler(w) \/ LeaveHandler(w)
      PROVE  Calm(j)
  <2>1. RowCalm(j)
    BY <1>6, CalmStatements DEF EnterHandler, LeaveHandler
  <2>2. PICK to : /\ Goto(w, to)
                  /\ pc[w] \in Owing /\ to \in Owing /\ to # "requeue"
    BY <1>6 DEF EnterHandler, LeaveHandler, Owing, Executing
  <2>3. faults' >= faults
    BY <1>0, <1>6 DEF EnterHandler, LeaveHandler
  <2> QED
    BY <2>1, <2>2, <2>3, GotoStep
<1>7. ASSUME NEW w \in Worker, Complete(w) \/ Requeue(w) \/ GiveUp(w)
      PROVE  Calm(j) \/ Paid(j) \/ Swapped(j)
  BY <1>7, ReportingStep
<1>8. ASSUME NEW w \in Worker, RecoveryLoop(w)
      PROVE  Calm(j)
  <2>1. RowCalm(j)
    BY <1>8, CalmStatements DEF RecoveryLoop, Recover, BuryFailed
  <2>2. UNCHANGED <<pc, job, token>> /\ faults' >= faults
    BY <1>0, <1>8 DEF RecoveryLoop, Recover, BuryFailed, Fault
  <2> QED
    BY <2>1, <2>2, LocalCalmStep
<1>9. ASSUME NEW w \in Worker, NEW i \in Job, Renew(w, i) \/ LateRenewal(w, i)
      PROVE  Calm(j)
  <2>1. RowCalm(j)
    BY <1>9, CalmStatements, JobQueueAssumption DEF Renew, LateRenewal
  <2> QED
    BY <1>0, <1>9, <2>1, LocalCalmStep DEF Renew, LateRenewal
<1>10. ASSUME NEW i \in Job, Enqueue(i)
       PROVE  Calm(j)
  <2>1. CASE i = j
    BY <1>10, <2>1, InsertStep DEF Enqueue
  <2>2. CASE i # j
    <3>1. RowCalm(j)
      BY <1>10, <2>2, CalmStatements DEF Enqueue
    <3> QED
      BY <1>0, <1>10, <3>1, LocalCalmStep DEF Enqueue, local
  <2> QED
    BY <2>1, <2>2
<1>11. ASSUME NEW i \in Job, ExpireLease(i)
       PROVE  Calm(j) \/ Paid(j)
  <2>1. CASE i = j
    BY <1>11, <2>1, ExpireStep
  <2>2. CASE i # j
    <3>1. RowCalm(j)
      BY <1>11, <2>2, CalmStatements DEF ExpireLease
    <3>2. UNCHANGED <<pc, job, token>> /\ faults' >= faults
      BY <1>0, <1>11 DEF ExpireLease, local, Fault
    <3> QED
      BY <3>1, <3>2, LocalCalmStep
  <2> QED
    BY <2>1, <2>2
<1>12. ASSUME NEW i \in Job, Tick(i)
       PROVE  Calm(j)
  <2>1. RowCalm(j)
    BY <1>12, CalmStatements DEF Tick
  <2> QED
    BY <1>0, <1>12, <2>1, LocalCalmStep DEF Tick, local
<1>13. ASSUME UNCHANGED vars
       PROVE  Calm(j)
  <2>1. RowCalm(j)
    BY <1>13, CalmStatements DEF vars
  <2> QED
    BY <1>0, <1>13, <2>1, LocalCalmStep DEF vars, local
<1>14. ASSUME NEW w \in Worker, PollEmpty(w)
       PROVE  Calm(j)
  BY <1>13, <1>14 DEF PollEmpty
<1> QED
  BY <1>1, <1>2, <1>3, <1>4, <1>5, <1>6, <1>7, <1>8, <1>9, <1>10, <1>11, <1>12, <1>13, <1>14
     DEF Next, PollLoop, Bookkeeping

LEMMA DebtInit ==
  ASSUME Init, NEW j \in Job
  PROVE  Debt(j)
<1>1. /\ attempt_count[j] = 0 /\ status[j] = "absent" /\ faults = 0
      /\ MaxAttempts[j] \in Nat
  BY JobTableAssumption DEF Init, TableInit
<1>2. Stale(j) = {} /\ Returning(j) = {}
  BY DEF Init, Returning, Stale, OnJob, Owing, Executing
<1>3. ~Loose(j)
  BY <1>1 DEF Loose, Leased
<1> QED
  BY <1>1, <1>2, <1>3, FS_EmptySet DEF Debt

(* However many workers share however few ids, and whatever goes wrong, a  *)
(* job that is allowed at least one attempt is attempted no more often     *)
(* than max_attempts and once more for each fault: recover_expired_leases, *)
(* which does not look at max_attempts, and fail_job, which looks at it a  *)
(* transaction early, do not add up to more.                               *)
THEOREM ExtraAttempts ==
  ASSUME IsFiniteSet(Worker), \A j \in Job : MaxAttempts[j] >= 1
  PROVE  Spec => []ExtraAttemptsBounded
<1> DEFINE IInv == Ledger /\ \A j \in Job : Debt(j)
<1>1. Init => IInv
  <2>1. Init => Ledger
    BY DEF Init, TableInit, Ledger, Busy, Executing, Reporting, Failing
  <2> QED
    BY <2>1, DebtInit
<1>2. TypeOK /\ TypeOK' /\ ClaimUnique /\ LeasedIsRecoverable /\ IInv /\ [Next]_vars => IInv'
  <2> SUFFICES ASSUME TypeOK, TypeOK', ClaimUnique, LeasedIsRecoverable, IInv, [Next]_vars
               PROVE  IInv'
    OBVIOUS
  <2>1. Ledger'
    BY LedgerKept
  <2>2. ASSUME NEW j \in Job
        PROVE  Debt(j)'
    BY EveryStep, DebtKept
  <2> QED
    BY <2>1, <2>2
<1>3. TypeOK /\ IInv => ExtraAttemptsBounded
  <2> SUFFICES ASSUME TypeOK, IInv, NEW j \in Job
               PROVE  attempt_count[j] <= MaxAttempts[j] + faults
    BY DEF ExtraAttemptsBounded
  <2> DEFINE a == attempt_count[j]
             r == Cardinality(Returning(j))
             k == IF Loose(j) THEN 1 ELSE 0
             m == MaxAttempts[j]
  <2>1. a + r + k <= m + faults
    BY DEF Debt
  <2>2. a \in Nat /\ r \in Nat /\ k \in 0..1 /\ m \in Nat /\ faults \in Nat
    BY StaleFinite, JobTableAssumption, JobQueueAssumption DEF TypeOK, TableTypeOK
  <2> HIDE DEF a, r, k, m
  <2>3. a <= m + faults
    BY <2>1, <2>2
  <2> QED
    BY <2>3 DEF a, m
<1> QED
  BY <1>1, <1>2, <1>3, TypeCorrect, ClaimsUnique, LeasedRecoverable, PTL DEF Spec

-------------------------------------------------------------------------------
(* What faults cost in completions *)

(* A worker that may still record a completion of the job.                 *)
MayComplete(j) ==
  {w \in Worker : pc[w] \in Owing \cup {"log_completed"} /\ job[w] = j}

(* The job may still be claimed by somebody else.                          *)
Open(j) == status[j] = "absent" \/ Loose(j)

(* Completions made, those under way, and the one that a claim may add.    *)
Budget(j) ==
  completed_events[j] + Cardinality(MayComplete(j)) + (IF Open(j) THEN 1 ELSE 0)
    <= 1 + faults

(* What a step may do to the budget of a job.                              *)
Saved(j) ==
  /\ completed_events'[j] = completed_events[j]
  /\ MayComplete(j)' \subseteq MayComplete(j)
  /\ Loose(j)' => Open(j)
  /\ faults' >= faults

HandedBack(j) ==
  /\ completed_events'[j] = completed_events[j]
  /\ \E w \in MayComplete(j) : MayComplete(j)' \subseteq MayComplete(j) \ {w}
  /\ faults' = faults

TakenUp(j) ==
  /\ completed_events'[j] = completed_events[j]
  /\ \E w \in Worker : MayComplete(j)' \subseteq MayComplete(j) \cup {w}
  /\ Open(j) /\ ~Open(j)'
  /\ faults' = faults

Recorded(j) ==
  /\ completed_events'[j] = completed_events[j] + 1
  /\ \E w \in MayComplete(j) : MayComplete(j)' \subseteq MayComplete(j) \ {w}
  /\ Loose(j)' => Open(j)
  /\ faults' = faults

(* A fault loses a worker and frees the row, or else lets a completion     *)
(* that is recorded already be reported as a failure.                      *)
Bought(j) ==
  /\ \/ /\ completed_events'[j] = completed_events[j]
        /\ MayComplete(j)' \subseteq MayComplete(j)
     \/ /\ completed_events'[j] = completed_events[j] + 1
        /\ MayComplete(j)' \subseteq MayComplete(j)
        /\ Loose(j)' => Open(j)
     \/ /\ completed_events'[j] = completed_events[j]
        /\ \E w \in Worker : MayComplete(j)' \subseteq MayComplete(j) \cup {w}
        /\ Loose(j)' => Open(j)
  /\ faults' = faults + 1

LEMMA MayCompleteFinite ==
  ASSUME IsFiniteSet(Worker), NEW j
  PROVE  /\ IsFiniteSet(MayComplete(j)) /\ Cardinality(MayComplete(j)) \in Nat
         /\ IsFiniteSet(MayComplete(j)') /\ Cardinality(MayComplete(j)') \in Nat
<1>1. MayComplete(j) \in SUBSET Worker /\ MayComplete(j)' \in SUBSET Worker
  BY DEF MayComplete
<1> QED
  BY <1>1, FS_Subset, FS_CardinalityType

LEMMA BudgetKept ==
  ASSUME IsFiniteSet(Worker), NEW j \in Job, TypeOK, TypeOK', Budget(j),
         status'[j] = "absent" => status[j] = "absent",
         Saved(j) \/ HandedBack(j) \/ TakenUp(j) \/ Recorded(j) \/ Bought(j)
  PROVE  Budget(j)'
<1> DEFINE c == completed_events[j]
           d == completed_events'[j]
           m == Cardinality(MayComplete(j))
           n == Cardinality(MayComplete(j)')
           k == IF Open(j) THEN 1 ELSE 0
           l == IF Open(j)' THEN 1 ELSE 0
           f == faults
           g == faults'
<1>1. /\ c \in Nat /\ d \in Nat /\ m \in Nat /\ n \in Nat /\ f \in Nat /\ g \in Nat
      /\ k \in 0..1 /\ l \in 0..1
  BY MayCompleteFinite, JobQueueAssumption DEF TypeOK, TableTypeOK
<1>2. c + m + k <= 1 + f
  BY DEF Budget
<1> SUFFICES d + n + l <= 1 + g
  BY DEF Budget
<1>3. MayComplete(j)' \subseteq MayComplete(j) => n <= m
  BY MayCompleteFinite, FS_Subset
<1>4. ASSUME NEW w \in MayComplete(j), MayComplete(j)' \subseteq MayComplete(j) \ {w}
      PROVE  n <= m - 1
  <2>1. /\ IsFiniteSet(MayComplete(j) \ {w})
        /\ Cardinality(MayComplete(j) \ {w}) = m - 1
    BY MayCompleteFinite, FS_RemoveElement
  <2> QED
    BY <1>4, <2>1, FS_Subset
<1>5. ASSUME NEW w \in Worker, MayComplete(j)' \subseteq MayComplete(j) \cup {w}
      PROVE  n <= m + 1
  <2>1. /\ IsFiniteSet(MayComplete(j) \cup {w})
        /\ Cardinality(MayComplete(j) \cup {w}) \in {m, m + 1}
    BY MayCompleteFinite, FS_AddElement
  <2>2. n <= Cardinality(MayComplete(j) \cup {w})
    BY <1>5, <2>1, FS_Subset
  <2>3. Cardinality(MayComplete(j) \cup {w}) \in Nat
    BY <2>1, FS_CardinalityType
  <2> HIDE DEF m, n
  <2> QED
    BY <1>1, <2>1, <2>2, <2>3
<1>6. (Loose(j)' => Open(j)) => l <= k
  BY DEF Open
<1>7. CASE Saved(j)
  <2>1. d = c /\ n <= m /\ l <= k /\ g >= f
    BY <1>3, <1>6, <1>7 DEF Saved
  <2> HIDE DEF c, d, m, n, k, l, f, g
  <2> QED
    BY <1>1, <1>2, <2>1
<1>8. CASE HandedBack(j)
  <2>1. d = c /\ n <= m - 1 /\ g = f
    BY <1>4, <1>8 DEF HandedBack
  <2> HIDE DEF c, d, m, n, k, l, f, g
  <2> QED
    BY <1>1, <1>2, <2>1
<1>9. CASE TakenUp(j)
  <2>1. d = c /\ n <= m + 1 /\ k = 1 /\ l = 0 /\ g = f
    BY <1>5, <1>9 DEF TakenUp
  <2> HIDE DEF c, d, m, n, k, l, f, g
  <2> QED
    BY <1>1, <1>2, <2>1
<1>10. CASE Recorded(j)
  <2>1. d = c + 1 /\ n <= m - 1 /\ l <= k /\ g = f
    BY <1>4, <1>6, <1>10 DEF Recorded
  <2> HIDE DEF c, d, m, n, k, l, f, g
  <2> QED
    BY <1>1, <1>2, <2>1
<1>11. CASE Bought(j)
  <2>1. /\ g = f + 1
        /\ \/ d = c /\ n <= m
           \/ d = c + 1 /\ n <= m /\ l <= k
           \/ d = c /\ n <= m + 1 /\ l <= k
    BY <1>3, <1>5, <1>6, <1>11 DEF Bought
  <2> HIDE DEF c, d, m, n, k, l, f, g
  <2> QED
    BY <1>1, <1>2, <2>1
<1> QED
  BY <1>7, <1>8, <1>9, <1>10, <1>11

-------------------------------------------------------------------------------
(* Every step keeps the budget *)

LEMMA EventsByRecording ==
  ASSUME TypeOK, [Next]_vars
  PROVE  UNCHANGED completed_events \/ \E w \in Worker : RecordCompletion(w)
<1>1. ASSUME NEW w \in Worker, NEW j \in Job,
             Claim(w, j) \/ Renew(w, j) \/ LateRenewal(w, j)
      PROVE  UNCHANGED completed_events
  BY <1>1 DEF Claim, Renew, LateRenewal, ClaimNextJob, RenewJobLease, jobs
<1>2. ASSUME NEW w \in Worker, StartRunning(w) \/ Complete(w) \/ Requeue(w) \/ GiveUp(w)
      PROVE  UNCHANGED completed_events
  BY <1>2 DEF StartRunning, Complete, Requeue, GiveUp,
       MarkRunning, CompleteJob, RequeueJob, FailJob
<1>3. ASSUME NEW w \in Worker, RecoveryLoop(w)
      PROVE  UNCHANGED completed_events
  BY <1>3 DEF RecoveryLoop, Recover, BuryFailed, RecoverExpiredLeases, ProcessDeadLetters, jobs
<1>4. ASSUME NEW j \in Job, Enqueue(j) \/ ExpireLease(j) \/ Tick(j)
      PROVE  UNCHANGED completed_events
  BY <1>4 DEF Enqueue, ExpireLease, Tick, InsertJob, LeaseRunsOut, BecomeDue
<1>5. ASSUME NEW w \in Worker, Bookkeeping(w)
      PROVE  UNCHANGED completed_events
  BY <1>5, BookkeepingIsBookkeep DEF Bookkeep, jobs
<1>6. ASSUME NEW w \in Worker,
             Start(w) \/ Stop(w) \/ Crash(w) \/ Cancel(w) \/ Deploy(w) \/ Raise(w)
             \/ PollEmpty(w) \/ EnterHandler(w) \/ LeaveHandler(w)
      PROVE  UNCHANGED completed_events
  BY <1>6 DEF Start, Stop, Crash, Cancel, Deploy, Raise, PollEmpty, EnterHandler, LeaveHandler,
       vars, jobs
<1>7. CASE UNCHANGED vars
  BY <1>7 DEF vars, jobs
<1> QED
  BY <1>1, <1>2, <1>3, <1>4, <1>5, <1>6, <1>7 DEF Next, PollLoop, Bookkeeping

(* The poll loop moves on, and the row of the job stays what it was.       *)
LEMMA GotoSaves ==
  ASSUME TypeOK, NEW w \in Worker, NEW to, Goto(w, to), NEW j \in Job, RowCalm(j),
         completed_events'[j] = completed_events[j], faults' >= faults,
         job[w] = j => (pc[w] \in Owing <=> to \in Owing) /\ to # "log_completed"
  PROVE  Saved(j)
<1>1. OnJob(j)' = OnJob(j) /\ \A v \in OnJob(j) : token'[v] = token[v]
  BY GotoKeepsWorkers
<1>2. Loose(j)' => Open(j)
  BY <1>1, LooseKept DEF Open
<1>3. MayComplete(j)' \subseteq MayComplete(j)
  <2> SUFFICES ASSUME NEW v \in MayComplete(j)' PROVE v \in MayComplete(j)
    OBVIOUS
  <2>1. CASE v \in OnJob(j)'
    BY <1>1, <2>1 DEF OnJob, MayComplete
  <2>2. CASE v \notin OnJob(j)'
    <3>1. v \in Worker /\ pc'[v] = "log_completed" /\ job'[v] = j
      BY <2>2 DEF OnJob, MayComplete
    <3>2. v # w
      BY <3>1, GotoOnly, JobTableAssumption
    <3> QED
      BY <3>1, <3>2, GotoOnly DEF OthersStay, MayComplete
  <2> QED
    BY <2>1, <2>2
<1> QED
  BY <1>2, <1>3 DEF Saved

(* The poll loop stays where it is, and so does the row.                   *)
LEMMA LocalSaves ==
  ASSUME NEW j \in Job, RowCalm(j), UNCHANGED <<pc, job, token>>,
         completed_events'[j] = completed_events[j], faults' >= faults
  PROVE  Saved(j)
<1>1. OnJob(j)' = OnJob(j) /\ MayComplete(j)' = MayComplete(j)
  BY DEF OnJob, MayComplete
<1>2. Loose(j)' => Open(j)
  BY <1>1, LooseKept DEF Open
<1> QED
  BY <1>1, <1>2 DEF Saved

(* A worker goes down.                                                     *)
LEMMA DownBuys ==
  ASSUME TypeOK, NEW w \in Worker, NEW to \in {"off", "ended"}, Goto(w, to), NEW j \in Job,
         completed_events'[j] = completed_events[j], faults' = faults + 1
  PROVE  Bought(j)
<1>1. OthersStay(w) /\ pc'[w] \in {"off", "ended"}
  BY GotoOnly
<1>2. MayComplete(j)' \subseteq MayComplete(j)
  BY <1>1 DEF MayComplete, OthersStay, Owing, Executing
<1> QED
  BY <1>2 DEF Bought

(* An exception ends the attempt or leads to the except clause; the latter *)
(* gives a worker back to the job after increment_worker_stats only.       *)
LEMMA ExceptionBuys ==
  ASSUME TypeOK, NEW w \in Worker, pc[w] \in Busy, Goto(w, OnException(w)), NEW j \in Job,
         completed_events'[j] = completed_events[j], faults' = faults + 1,
         pc[w] = "count_processed" => RowCalm(j)
  PROVE  Bought(j)
<1>1. OthersStay(w) /\ pc'[w] = OnException(w) /\ job'[w] \in {job[w], Null}
  BY GotoOnly
<1>2. CASE pc[w] # "count_processed"
  <2>1. pc[w] \in Owing \cup {"log_completed"}
        \/ OnException(w) \notin Owing \cup {"log_completed"}
    BY <1>2 DEF OnException, Owing, Busy, Executing, Reporting, Failing
  <2>2. MayComplete(j)' \subseteq MayComplete(j)
    BY <1>1, <2>1, JobTableAssumption DEF MayComplete, OthersStay
  <2> QED
    BY <2>2 DEF Bought
<1>3. CASE pc[w] = "count_processed"
  <2>1. MayComplete(j)' \subseteq MayComplete(j) \cup {w}
    BY <1>1 DEF MayComplete, OthersStay
  <2>2. w \notin OnJob(j)
    BY <1>3 DEF OnJob, Owing, Executing
  <2>3. /\ OnJob(j) \subseteq OnJob(j)'
        /\ \A v \in OnJob(j) : token'[v] = token[v]
    BY <1>1, <2>2 DEF OnJob, OthersStay
  <2>4. Loose(j)' => Open(j)
    BY <1>3, <2>3, LooseKept DEF Open
  <2> QED
    BY <2>1, <2>4 DEF Bought
<1> QED
  BY <1>2, <1>3

LEMMA FinishBuys ==
  ASSUME TypeOK, NEW w \in Worker, pc[w] \in Busy, NEW to, Finish(w, to), NEW j \in Job,
         RowCalm(j), completed_events'[j] = completed_events[j],
         job[w] = j => (pc[w] \in Owing <=> to \in Owing) /\ to # "log_completed"
  PROVE  Saved(j) \/ Bought(j)
<1>1. CASE Goto(w, to) /\ UNCHANGED faults
  <2>1. faults' >= faults
    BY <1>1, JobQueueAssumption DEF TypeOK
  <2> QED
    BY <1>1, <2>1, GotoSaves
<1>2. CASE Fault("error") /\ Goto(w, OnException(w))
  BY <1>2, ExceptionBuys DEF Fault
<1> QED
  BY <1>1, <1>2 DEF Finish

LEMMA BookkeepingBuys ==
  ASSUME TypeOK, NEW w \in Worker, Bookkeeping(w), NEW j \in Job
  PROVE  Saved(j) \/ Bought(j)
<1>1. RowCalm(j)
  BY BookkeepingMoves, CalmStatements
<1>2. completed_events'[j] = completed_events[j]
  BY BookkeepingMoves DEF jobs
<1> QED
  BY <1>1, <1>2, BookkeepingMoves, FinishBuys

(* complete_job and the UPDATEs of fail_job.  Only a requeue opens the row *)
(* again, and the worker that puts it back is done with it.                *)
LEMMA ReportBudget ==
  ASSUME TypeOK, NEW w \in Worker, Complete(w) \/ Requeue(w) \/ GiveUp(w), NEW j \in Job,
         completed_events'[j] = completed_events[j]
  PROVE  Saved(j) \/ HandedBack(j) \/ Bought(j)
<1> DEFINE to == IF pc[w] = "complete" THEN "log_completed" ELSE "log_outcome"
<1>1. /\ pc[w] \in {"complete", "requeue", "give_up"} /\ Finish(w, to)
      /\ \/ CompleteJob(job[w])
         \/ RequeueJob(job[w]) /\ pc[w] = "requeue"
         \/ FailJob(job[w])
  BY DEF Complete, Requeue, GiveUp
<1>2. job[w] \in Job /\ pc[w] \in Owing /\ pc[w] \in Busy
  BY <1>1, OwingIsBusy DEF Owing, TypeOK
<1>3. pc[w] = "requeue" => to \notin Owing \cup {"log_completed"}
  BY DEF Owing, Executing
<1> HIDE DEF to
<1>4. CASE job[w] # j
  <2>1. RowCalm(j)
    BY <1>1, <1>2, <1>4, CalmStatements
  <2> QED
    BY <1>1, <1>2, <1>4, <2>1, FinishBuys
<1>5. CASE job[w] = j /\ Goto(w, to) /\ UNCHANGED faults
  <2>1. OthersStay(w) /\ pc'[w] = to
    BY <1>5, GotoOnly
  <2>2. w \in MayComplete(j) /\ MayComplete(j)' \subseteq MayComplete(j)
    BY <1>2, <1>5, <2>1 DEF MayComplete, OthersStay
  <2>3. CASE pc[w] = "requeue"
    <3>1. MayComplete(j)' \subseteq MayComplete(j) \ {w}
      BY <1>3, <2>1, <2>2, <2>3 DEF MayComplete
    <3> QED
      BY <1>5, <2>2, <3>1 DEF HandedBack
  <2>4. CASE pc[w] # "requeue"
    <3>1. status'[j] \in {"completed", "failed"}
      BY <1>1, <1>5, <2>4 DEF CompleteJob, FailJob, TypeOK, TableTypeOK
    <3>2. ~Loose(j)'
      BY <3>1 DEF Loose, Leased
    <3>3. faults' >= faults
      BY <1>5, JobQueueAssumption DEF TypeOK
    <3> QED
      BY <2>2, <3>2, <3>3 DEF Saved
  <2> QED
    BY <2>3, <2>4
<1>6. CASE Fault("error") /\ Goto(w, OnException(w))
  BY <1>1, <1>2, <1>6, ExceptionBuys DEF Fault
<1> QED
  BY <1>1, <1>4, <1>5, <1>6 DEF Finish

(* A worker that recorded a completion is through with the job, unless the *)
(* answer of the INSERT is lost: then it goes on to report a failure.      *)
LEMMA RecordBudget ==
  ASSUME TypeOK, NEW w \in Worker, RecordCompletion(w), NEW j \in Job
  PROVE  Saved(j) \/ Recorded(j) \/ Bought(j)
<1>1. pc[w] = "log_completed" /\ LogCompleted(job[w]) /\ Finish(w, "count_processed")
  BY DEF RecordCompletion
<1>2. job[w] \in Job /\ pc[w] \in Busy /\ pc[w] \notin Owing /\ "count_processed" \notin Owing
  BY <1>1 DEF TypeOK, Busy, Reporting, Owing, Executing
<1>3. RowCalm(j)
  BY <1>1, <1>2, CalmStatements
<1>4. CASE job[w] # j
  <2>1. completed_events'[j] = completed_events[j]
    BY <1>1, <1>2, <1>4 DEF LogCompleted, TypeOK, TableTypeOK
  <2> QED
    BY <1>1, <1>2, <1>3, <1>4, <2>1, FinishBuys
<1>5. CASE job[w] = j
  <2>1. completed_events'[j] = completed_events[j] + 1
    BY <1>1, <1>5 DEF LogCompleted, TypeOK, TableTypeOK
  <2>2. w \in MayComplete(j) /\ w \notin OnJob(j)
    BY <1>1, <1>2, <1>5 DEF MayComplete, OnJob
  <2>3. OthersStay(w)
    BY <1>1, GotoOnly DEF Finish
  <2>4. MayComplete(j)' \subseteq MayComplete(j)
    BY <2>2, <2>3 DEF MayComplete, OthersStay
  <2>5. OnJob(j) \subseteq OnJob(j)' /\ \A v \in OnJob(j) : token'[v] = token[v]
    BY <2>2, <2>3 DEF OnJob, OthersStay
  <2>6. Loose(j)' => Open(j)
    BY <1>3, <2>5, LooseKept DEF Open
  <2>7. CASE Goto(w, "count_processed") /\ UNCHANGED faults
    <3>1. pc'[w] = "count_processed"
      BY <2>7, GotoOnly
    <3>2. MayComplete(j)' \subseteq MayComplete(j) \ {w}
      BY <1>2, <2>4, <3>1 DEF MayComplete
    <3> QED
      BY <2>1, <2>2, <2>6, <2>7, <3>2 DEF Recorded
  <2>8. CASE Fault("error") /\ Goto(w, OnException(w))
    BY <2>1, <2>4, <2>6, <2>8 DEF Bought, Fault
  <2> QED
    BY <1>1, <2>7, <2>8 DEF Finish
<1> QED
  BY <1>4, <1>5

LEMMA ClaimBudget ==
  ASSUME TypeOK, NEW w \in Worker, NEW i \in Job, Claim(w, i), NEW j \in Job
  PROVE  Saved(j) \/ TakenUp(j) \/ Bought(j)
<1>1. /\ OthersStay(w) /\ completed_events'[j] = completed_events[j]
      /\ pc[w] = "poll" /\ IdOf[w] \in WorkerId
  BY JobQueueAssumption DEF Claim, ClaimNextJob, TypeOK, OthersStay
<1>2. CASE i # j
  <2>1. RowCalm(j)
    BY <1>1, <1>2, CalmStatements DEF Claim
  <2>2. /\ w \notin OnJob(j) /\ w \notin OnJob(j)'
        /\ w \notin MayComplete(j) /\ w \notin MayComplete(j)'
    BY <1>2 DEF Claim, TypeOK, OnJob, MayComplete, Owing, Executing
  <2>3. /\ OnJob(j)' = OnJob(j) /\ MayComplete(j)' = MayComplete(j)
        /\ \A v \in OnJob(j) : token'[v] = token[v]
    BY <1>1, <2>2 DEF OnJob, MayComplete, OthersStay
  <2>4. Loose(j)' => Open(j)
    BY <2>1, <2>3, LooseKept DEF Open
  <2>5. faults' >= faults
    BY JobQueueAssumption DEF Claim, Fault, TypeOK
  <2> QED
    BY <1>1, <2>3, <2>4, <2>5 DEF Saved
<1>3. CASE i = j
  <2>1. /\ status[j] = "pending" /\ status'[j] = "claimed" /\ lease'[j] = "valid"
    BY <1>3 DEF Claim, ClaimNextJob, Claimable, TypeOK, TableTypeOK
  <2>2. CASE /\ pc' = [pc EXCEPT ![w] = "log_claimed"]
             /\ job' = [job EXCEPT ![w] = j]
             /\ token' = [token EXCEPT ![w] = attempt_count'[j]]
             /\ UNCHANGED faults
    <3>1. w \in OnJob(j)' /\ Current(w, j)'
      BY <2>1, <2>2 DEF TypeOK, OnJob, Current, Owing, Executing, Leased
    <3>2. Open(j) /\ ~Open(j)'
      BY <2>1, <3>1 DEF Open, Loose, Leased
    <3>3. MayComplete(j)' \subseteq MayComplete(j) \cup {w}
      BY <1>1 DEF MayComplete, OthersStay
    <3> QED
      BY <1>1, <2>2, <3>2, <3>3 DEF TakenUp
  <2>3. CASE Fault("error") /\ UNCHANGED <<pc, job, token>>
    <3>1. MayComplete(j)' \subseteq MayComplete(j)
      BY <2>3 DEF MayComplete
    <3> QED
      BY <1>1, <2>3, <3>1 DEF Bought, Fault
  <2> QED
    BY <1>3, <2>2, <2>3 DEF Claim
<1> QED
  BY <1>2, <1>3

LEMMA InsertSaves ==
  ASSUME NEW j \in Job, NEW when, InsertJob(j, when), UNCHANGED <<local, faults>>,
         faults \in Nat
  PROVE  Saved(j)
<1>1. MayComplete(j)' = MayComplete(j)
  BY DEF MayComplete, local
<1> QED
  BY <1>1 DEF Saved, InsertJob, Open

LEMMA ExpireBudget ==
  ASSUME TypeOK, Ledger, LeasedIsRecoverable, NEW j \in Job, ExpireLease(j)
  PROVE  Saved(j) \/ Bought(j)
<1>1. /\ status' = status /\ attempt_count' = attempt_count
      /\ lease[j] = "valid" /\ completed_events' = completed_events
      /\ UNCHANGED <<pc, job, token>> /\ faults' >= faults
  BY JobQueueAssumption DEF ExpireLease, LeaseRunsOut, Fault, local, TypeOK
<1>2. CASE \E x \in OnJob(j) : Current(x, j)
  <2>1. faults' = faults + 1
    BY <1>2, HolderLosesLease
  <2>2. MayComplete(j)' \subseteq MayComplete(j)
    BY <1>1 DEF MayComplete
  <2> QED
    BY <1>1, <2>1, <2>2 DEF Bought
<1>3. CASE ~\E x \in OnJob(j) : Current(x, j)
  <2>1. RowCalm(j)
    BY <1>1, <1>3 DEF RowCalm
  <2> QED
    BY <1>1, <2>1, LocalSaves
<1> QED
  BY <1>2, <1>3

LEMMA EveryStepBudgeted ==
  ASSUME TypeOK, Ledger, LeasedIsRecoverable, [Next]_vars, NEW j \in Job
  PROVE  Saved(j) \/ HandedBack(j) \/ TakenUp(j) \/ Recorded(j) \/ Bought(j)
<1>0. /\ faults \in Nat /\ faults >= faults /\ faults + 1 >= faults
      /\ {"off", "ended", "poll"} \cap Owing = {}
      /\ "log_completed" \notin {"off", "ended", "poll"}
  BY JobQueueAssumption DEF TypeOK, Owing, Executing
<1>1. ASSUME NEW w \in Worker, RecordCompletion(w)
      PROVE  Saved(j) \/ Recorded(j) \/ Bought(j)
  BY <1>1, RecordBudget
<1>2. CASE completed_events'[j] = completed_events[j]
  <2>1. ASSUME NEW w \in Worker, Start(w) \/ Deploy(w)
        PROVE  Saved(j)
    <3>1. RowCalm(j)
      BY <2>1, CalmStatements DEF Start, Deploy
    <3>2. PICK to \in {"poll", "ended", "off"} :
            Goto(w, to) /\ pc[w] \in {"off", "ended"} /\ faults' >= faults
      BY <1>0, <2>1 DEF Start, Deploy, Fault
    <3> QED
      BY <1>0, <1>2, <3>1, <3>2, GotoSaves
  <2>2. ASSUME NEW w \in Worker, Stop(w) \/ Crash(w) \/ Cancel(w)
        PROVE  Bought(j)
    BY <1>2, <2>2, DownBuys DEF Stop, Crash, Cancel, Fault
  <2>3. ASSUME NEW w \in Worker, Raise(w)
        PROVE  Bought(j)
    <3>1. RowCalm(j)
      BY <2>3, CalmStatements DEF Raise
    <3> QED
      BY <1>2, <2>3, <3>1, ExceptionBuys DEF Raise, Fault
  <2>4. ASSUME NEW w \in Worker, NEW i \in Job, Claim(w, i)
        PROVE  Saved(j) \/ TakenUp(j) \/ Bought(j)
    BY <2>4, ClaimBudget
  <2>5. ASSUME NEW w \in Worker, Bookkeeping(w)
        PROVE  Saved(j) \/ Bought(j)
    BY <2>5, BookkeepingBuys
  <2>6. ASSUME NEW w \in Worker, StartRunning(w)
        PROVE  Saved(j) \/ Bought(j)
    <3>1. /\ pc[w] = "mark_running" /\ Finish(w, "log_started")
          /\ MarkRunning(job[w], IdOf[w])
      BY <2>6 DEF StartRunning
    <3>2. /\ pc[w] \in Owing /\ "log_started" \in Owing /\ pc[w] \in Busy
          /\ job[w] \in Job /\ IdOf[w] \in WorkerId
      BY <3>1, OwingIsBusy, JobQueueAssumption DEF Owing, Executing, TypeOK
    <3>3. RowCalm(j)
      BY <3>1, <3>2, CalmStatements
    <3> QED
      BY <1>2, <3>1, <3>2, <3>3, FinishBuys
  <2>7. ASSUME NEW w \in Worker, EnterHandler(w) \/ LeaveHandler(w)
        PROVE  Saved(j)
    <3>1. RowCalm(j)
      BY <2>7, CalmStatements DEF EnterHandler, LeaveHandler
    <3>2. PICK to : /\ Goto(w, to)
                    /\ pc[w] \in Owing /\ to \in Owing /\ to # "log_completed"
      BY <2>7 DEF EnterHandler, LeaveHandler, Owing, Executing
    <3>3. faults' >= faults
      BY <1>0, <2>7 DEF EnterHandler, LeaveHandler
    <3> QED
      BY <1>2, <3>1, <3>2, <3>3, GotoSaves
  <2>8. ASSUME NEW w \in Worker, Complete(w) \/ Requeue(w) \/ GiveUp(w)
        PROVE  Saved(j) \/ HandedBack(j) \/ Bought(j)
    BY <1>2, <2>8, ReportBudget
  <2>9. ASSUME NEW w \in Worker, RecoveryLoop(w)
        PROVE  Saved(j)
    <3>1. RowCalm(j)
      BY <2>9, CalmStatements DEF RecoveryLoop, Recover, BuryFailed
    <3>2. UNCHANGED <<pc, job, token>> /\ faults' >= faults
      BY <1>0, <2>9 DEF RecoveryLoop, Recover, BuryFailed, Fault
    <3> QED
      BY <1>2, <3>1, <3>2, LocalSaves
  <2>10. ASSUME NEW w \in Worker, NEW i \in Job, Renew(w, i) \/ LateRenewal(w, i)
         PROVE  Saved(j)
    <3>1. RowCalm(j)
      BY <2>10, CalmStatements, JobQueueAssumption DEF Renew, LateRenewal
    <3> QED
      BY <1>0, <1>2, <2>10, <3>1, LocalSaves DEF Renew, LateRenewal
  <2>11. ASSUME NEW i \in Job, Enqueue(i)
         PROVE  Saved(j)
    <3>1. CASE i = j
      BY <1>0, <2>11, <3>1, InsertSaves DEF Enqueue
    <3>2. CASE i # j
      <4>1. RowCalm(j)
        BY <2>11, <3>2, CalmStatements DEF Enqueue
      <4> QED
        BY <1>0, <1>2, <2>11, <4>1, LocalSaves DEF Enqueue, local
    <3> QED
      BY <3>1, <3>2
  <2>12. ASSUME NEW i \in Job, ExpireLease(i)
         PROVE  Saved(j) \/ Bought(j)
    <3>1. CASE i = j
      BY <2>12, <3>1, ExpireBudget
    <3>2. CASE i # j
      <4>1. RowCalm(j)
        BY <2>12, <3>2, CalmStatements DEF ExpireLease
      <4>2. UNCHANGED <<pc, job, token>> /\ faults' >= faults
        BY <1>0, <2>12 DEF ExpireLease, local, Fault
      <4> QED
        BY <1>2, <4>1, <4>2, LocalSaves
    <3> QED
      BY <3>1, <3>2
  <2>13. ASSUME NEW i \in Job, Tick(i)
         PROVE  Saved(j)
    <3>1. RowCalm(j)
      BY <2>13, CalmStatements DEF Tick
    <3> QED
      BY <1>0, <1>2, <2>13, <3>1, LocalSaves DEF Tick, local
  <2>14. ASSUME UNCHANGED vars
         PROVE  Saved(j)
    <3>1. RowCalm(j)
      BY <2>14, CalmStatements DEF vars
    <3> QED
      BY <1>0, <1>2, <2>14, <3>1, LocalSaves DEF vars, local
  <2>15. ASSUME NEW w \in Worker, PollEmpty(w)
         PROVE  Saved(j)
    BY <2>14, <2>15 DEF PollEmpty
  <2> QED
    BY <1>1, <2>1, <2>2, <2>3, <2>4, <2>5, <2>6, <2>7, <2>8, <2>9, <2>10, <2>11,
       <2>12, <2>13, <2>14, <2>15 DEF Next, PollLoop, Bookkeeping
<1> QED
  BY <1>1, <1>2, EventsByRecording

LEMMA BudgetInit ==
  ASSUME Init, NEW j \in Job
  PROVE  Budget(j)
<1>1. completed_events[j] = 0 /\ status[j] = "absent" /\ faults = 0
  BY DEF Init, TableInit
<1>2. MayComplete(j) = {}
  BY DEF Init, MayComplete, Owing, Executing
<1> QED
  BY <1>1, <1>2, FS_EmptySet DEF Budget, Open

(* However many workers share however few ids, and whatever goes wrong, a  *)
(* job is completed at most once and once more for each fault, counting    *)
(* the handlers that still run for it: complete_job, which asks neither    *)
(* who reports nor what the row says, repeats no completion that a fault   *)
(* has not paid for.                                                       *)
THEOREM CompletionsBounded ==
  ASSUME IsFiniteSet(Worker)
  PROVE  Spec => []RepeatsBounded
<1> DEFINE IInv == Ledger /\ \A j \in Job : Budget(j)
<1>1. Init => IInv
  <2>1. Init => Ledger
    BY DEF Init, TableInit, Ledger, Busy, Executing, Reporting, Failing
  <2> QED
    BY <2>1, BudgetInit
<1>2. TypeOK /\ TypeOK' /\ LeasedIsRecoverable /\ IInv /\ [Next]_vars => IInv'
  <2> SUFFICES ASSUME TypeOK, TypeOK', LeasedIsRecoverable, IInv, [Next]_vars
               PROVE  IInv'
    OBVIOUS
  <2>1. Ledger'
    BY LedgerKept
  <2>2. ASSUME NEW j \in Job
        PROVE  Budget(j)'
    BY EveryStepBudgeted, AbsentStaysUncounted, BudgetKept
  <2> QED
    BY <2>1, <2>2
<1>3. TypeOK /\ IInv => RepeatsBounded
  <2> SUFFICES ASSUME TypeOK, IInv, NEW j \in Job
               PROVE  completed_events[j]
                        + Cardinality({w \in Worker : pc[w] = "handler" /\ job[w] = j})
                          <= 1 + faults
    BY DEF RepeatsBounded
  <2> DEFINE R == {w \in Worker : pc[w] = "handler" /\ job[w] = j}
             c == completed_events[j]
             m == Cardinality(MayComplete(j))
             r == Cardinality(R)
             k == IF Open(j) THEN 1 ELSE 0
  <2>1. c + m + k <= 1 + faults
    BY DEF Budget
  <2>2. R \subseteq MayComplete(j)
    BY DEF MayComplete, Owing
  <2>3. r \in Nat /\ r <= m
    BY <2>2, MayCompleteFinite, FS_Subset, FS_CardinalityType
  <2>4. c \in Nat /\ m \in Nat /\ k \in 0..1 /\ faults \in Nat
    BY MayCompleteFinite, JobQueueAssumption DEF TypeOK, TableTypeOK
  <2> HIDE DEF c, m, r, k
  <2>5. c + r <= 1 + faults
    BY <2>1, <2>3, <2>4
  <2> QED
    BY <2>5 DEF c, r
<1> QED
  BY <1>1, <1>2, <1>3, TypeCorrect, LeasedRecoverable, PTL DEF Spec
================================================================================
