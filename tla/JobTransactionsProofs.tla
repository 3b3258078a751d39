------------------------- MODULE JobTransactionsProofs -------------------------
(***************************************************************************)
(* Concurrent statements are serializable, for any number of sessions,     *)
(* jobs and worker ids.  The invariant that carries it is LockInv: a       *)
(* locked row has one holder and still matches the WHERE clause of the     *)
(* holder's statement, because nobody else can write it and time alone     *)
(* makes no row stop matching.                                             *)
(***************************************************************************)
EXTENDS JobTransactions, SequenceTheorems, TLAPS

(* Statements that name their row.                                         *)
Single == ById \cup {"insert"}

OwnLocks(s) ==
  /\ \A j \in held[s] : Matches(stmt[s], j, by[s])
  /\ stmt[s] = "claim_next_job" => /\ \A i, j \in held[s] : i = j
                                   /\ held[s] # {} => todo[s] = {}
  /\ stmt[s] \in Single => \A i, j \in held[s] \cup todo[s] : i = j
  /\ held[s] \cap todo[s] = {}

LockInv ==
  /\ \A s \in Session : OwnLocks(s)
  /\ \A s, t \in Session : s # t => held[s] \cap held[t] = {}

(* Whoever is about to log the insertion of a row is the only one and the  *)
(* first.                                                                  *)
LogInv ==
  /\ \A j \in Job : enqueued_events[j] <= 1
  /\ \A j \in Job : status[j] = "absent" => enqueued_events[j] = 0
  /\ \A s \in Session : stmt[s] = "log_enqueued" =>
       /\ \A j \in todo[s] : status[j] # "absent" /\ enqueued_events[j] = 0
       /\ \A t \in Session : s # t /\ stmt[t] = "log_enqueued" => todo[s] \cap todo[t] = {}

-------------------------------------------------------------------------------
RowType == [status : Status, worker_id : WorkerId \cup {Null},
            lease : {"none", "valid", "expired"}, attempt_count : 0..AttemptLimit,
            scheduled : {"due", "later"}]

LEMMA RowTyped == ASSUME TypeOK, NEW j \in Job PROVE Row(j) \in RowType
BY DEF TypeOK, TableTypeOK, Row, RowType

(* A row that matches a statement may be written by it.                    *)
LEMMA WrittenTyped ==
  ASSUME TypeOK, NEW s \in Session, stmt[s] \in Running, NEW j \in Job,
         NEW when \in {"due", "later"}, Matches(stmt[s], j, by[s])
  PROVE  Written(stmt[s], by[s], when, Row(j)) \in RowType
<1> DEFINE r == Row(j)
<1>1. r \in RowType
  BY RowTyped
<1>a. stmt[s] = "claim_next_job" => r.attempt_count + 1 \in 0..AttemptLimit
  BY JobTableAssumption DEF Matches, Row, TypeOK, TableTypeOK
<1>b. by[s] \in WorkerId \cup {Null}
  BY DEF TypeOK
<1> HIDE DEF r
<1>c. stmt[s] = "claim_next_job" => by[s] \in WorkerId
  BY DEF TypeOK, ByWorker
<1>2. CASE stmt[s] = "insert"
  BY <1>1, <1>2 DEF Written, RowType, Status, r
<1>3. CASE stmt[s] = "claim_next_job"
  BY <1>1, <1>3, <1>a, <1>c DEF Written, RowType, Status, r
<1>4. CASE stmt[s] \in Running \ {"insert", "claim_next_job"}
  BY <1>1, <1>4 DEF Written, RowType, Status, r, Running, Sweeps, ByWorker, ById
<1> QED
  BY <1>2, <1>3, <1>4 DEF Running, ByWorker

(* The rows after a commit: those held as written, the others as before.   *)
LEMMA WriteRows ==
  ASSUME TypeOK, NEW s \in Session, NEW when \in {"due", "later"}, Write(s, when),
         stmt[s] \in Running, \A j \in held[s] : Matches(stmt[s], j, by[s])
  PROVE  /\ TableTypeOK'
         /\ \A j \in Job \ held[s] :
              /\ status'[j] = status[j]
              /\ worker_id'[j] = worker_id[j]
              /\ lease'[j] = lease[j]
              /\ attempt_count'[j] = attempt_count[j]
              /\ scheduled'[j] = scheduled[j]
         /\ \A j \in held[s] : Row(j)' = Written(stmt[s], by[s], when, Row(j))
<1> DEFINE after(j) == IF j \in held[s] THEN Written(stmt[s], by[s], when, Row(j)) ELSE Row(j)
<1>0. held[s] \subseteq Job
  BY DEF TypeOK
<1>1. \A j \in Job : after(j) \in RowType
  BY <1>0, RowTyped, WrittenTyped
<1>2. /\ status' = [j \in Job |-> after(j).status]
      /\ worker_id' = [j \in Job |-> after(j).worker_id]
      /\ lease' = [j \in Job |-> after(j).lease]
      /\ attempt_count' = [j \in Job |-> after(j).attempt_count]
      /\ scheduled' = [j \in Job |-> after(j).scheduled]
      /\ completed_events' = completed_events
  BY DEF Write
<1>3. ASSUME NEW j \in Job
      PROVE  /\ after(j).status \in Status
             /\ after(j).worker_id \in WorkerId \cup {Null}
             /\ after(j).lease \in {"none", "valid", "expired"}
             /\ after(j).attempt_count \in 0..AttemptLimit
             /\ after(j).scheduled \in {"due", "later"}
             /\ after(j) = [status |-> after(j).status, worker_id |-> after(j).worker_id,
                            lease |-> after(j).lease, attempt_count |-> after(j).attempt_count,
                            scheduled |-> after(j).scheduled]
  <2> after(j) \in RowType
    BY <1>1
  <2> HIDE DEF after
  <2> QED
    BY DEF RowType
<1>4. \A j \in held[s] : Row(j)' = after(j)
  <2> TAKE j \in held[s]
  <2> j \in Job
    BY <1>0
  <2>1. after(j) = [status |-> after(j).status, worker_id |-> after(j).worker_id,
                    lease |-> after(j).lease, attempt_count |-> after(j).attempt_count,
                    scheduled |-> after(j).scheduled]
    BY <1>3
  <2> HIDE DEF after
  <2> QED
    BY <1>2, <2>1 DEF Row
<1>5. \A j \in Job \ held[s] : after(j) = Row(j)
  OBVIOUS
<1>6. TableTypeOK'
  <2> HIDE DEF after
  <2> QED
    BY <1>2, <1>3 DEF TableTypeOK, TypeOK
<1>7. \A j \in Job \ held[s] :
              /\ status'[j] = status[j]
              /\ worker_id'[j] = worker_id[j]
              /\ lease'[j] = lease[j]
              /\ attempt_count'[j] = attempt_count[j]
              /\ scheduled'[j] = scheduled[j]
  <2> HIDE DEF after
  <2> QED
    BY <1>2, <1>5 DEF Row
<1> QED
  BY <1>4, <1>6, <1>7

(* Where an insertion or a log entry leads: the end, or the next job.      *)
LEMMA ProceedTyped ==
  ASSUME TypeOK, NEW s \in Session, Proceed(s)
  PROVE  /\ stmt' \in [Session -> Running \cup {"idle", "log_enqueued"}]
         /\ by' \in [Session -> WorkerId \cup {Null}]
         /\ todo' \in [Session -> SUBSET Job]
         /\ rest' \in [Session -> Seq(Job)]
         /\ stmt'[s] \in {"idle", "insert"}
         /\ stmt'[s] = "idle" => todo'[s] = {}
         /\ \A i, j \in todo'[s] : i = j
         /\ \A t \in Session \ {s} :
              stmt'[t] = stmt[t] /\ by'[t] = by[t] /\ todo'[t] = todo[t]
<1>1. CASE rest[s] = <<>>
  BY <1>1 DEF Proceed, TypeOK
<1>2. CASE rest[s] # <<>>
  <2>1. rest[s] \in Seq(Job)
    BY DEF TypeOK
  <2>2. Head(rest[s]) \in Job /\ Tail(rest[s]) \in Seq(Job)
    BY <1>2, <2>1, HeadTailProperties
  <2>3. "insert" \in Running
    BY DEF Running
  <2>4. /\ stmt' = [stmt EXCEPT ![s] = "insert"]
        /\ todo' = [todo EXCEPT ![s] = {Head(rest[s])}]
        /\ rest' = [rest EXCEPT ![s] = Tail(rest[s])]
        /\ by' = by
    BY <1>2 DEF Proceed
  <2>5. /\ stmt \in [Session -> Running \cup {"idle", "log_enqueued"}]
        /\ by \in [Session -> WorkerId \cup {Null}]
        /\ todo \in [Session -> SUBSET Job]
        /\ rest \in [Session -> Seq(Job)]
    BY DEF TypeOK
  <2>6. rest' \in [Session -> Seq(Job)]
    BY <2>2, <2>4, <2>5, Zenon
  <2> QED
    BY <2>2, <2>3, <2>4, <2>5, <2>6
<1> QED
  BY <1>1, <1>2


Inv == TypeOK /\ LockInv /\ LogInv

(* A row goes on matching while its columns stay, or only time passes.     *)
LEMMA StillMatches ==
  ASSUME NEW t \in Session, NEW j \in Job, Matches(stmt[t], j, by[t]),
         stmt'[t] = stmt[t], by'[t] = by[t], status'[j] = status[j],
         worker_id'[j] = worker_id[j], attempt_count'[j] = attempt_count[j],
         lease[j] = "expired" => lease'[j] = "expired",
         scheduled[j] = "due" => scheduled'[j] = "due"
  PROVE  Matches(stmt[t], j, by[t])'
BY DEF Matches, Claimable, Renewable, Recoverable, Exhausted

(* OwnLocks of a session that the step leaves alone.                       *)
LEMMA OthersKeep ==
  ASSUME TypeOK, LockInv, NEW t \in Session, UNCHANGED jobs,
         stmt'[t] = stmt[t], by'[t] = by[t], todo'[t] = todo[t], held'[t] = held[t]
  PROVE  OwnLocks(t)'
<1>1. \A j \in held[t] : j \in Job
  BY DEF TypeOK
<1>2. OwnLocks(t)
  BY DEF LockInv
<1>3. \A j \in held[t] : Matches(stmt[t], j, by[t])'
  BY <1>1, <1>2, StillMatches DEF OwnLocks, jobs
<1> QED
  BY <1>2, <1>3 DEF OwnLocks

-------------------------------------------------------------------------------
LEMMA BeginKeeps ==
  ASSUME Inv, NEW s \in Session, NEW k \in Running \ {"insert"},
         NEW id \in WorkerId \cup {Null}, k \in ByWorker => id \in WorkerId,
         NEW scope \in SUBSET Job, k \in ById => \A i, j \in scope : i = j,
         Begin(s, k, id, scope)
  PROVE  Inv'
<1> USE DEF Inv
<1>1. /\ stmt' = [stmt EXCEPT ![s] = k]
      /\ by' = [by EXCEPT ![s] = id]
      /\ todo' = [todo EXCEPT ![s] = {j \in scope : Matches(k, j, id)}]
      /\ held' = held /\ held[s] = {} /\ stmt[s] = "idle"
      /\ UNCHANGED <<jobs, rest, enqueued_events>>
  BY DEF Begin, TypeOK
<1>2. TypeOK'
  <2>1. {j \in scope : Matches(k, j, id)} \in SUBSET Job
    OBVIOUS
  <2>2. k \notin {"idle", "log_enqueued"}
    BY DEF Running, Sweeps, ByWorker, ById
  <2> QED
    BY <1>1, <2>1, <2>2 DEF TypeOK, TableTypeOK, jobs
<1>3. LockInv'
  <2>1. \A t \in Session : OwnLocks(t)'
    <3> TAKE t \in Session
    <3>1. CASE t = s
      BY <1>1, <3>1 DEF OwnLocks, TypeOK, Single
    <3>2. CASE t # s
      BY <1>1, <3>2, OthersKeep DEF TypeOK
    <3> QED
      BY <3>1, <3>2
  <2>2. \A t, u \in Session : t # u => held'[t] \cap held'[u] = {}
    BY <1>1 DEF LockInv
  <2> QED
    BY <2>1, <2>2 DEF LockInv
<1>4. LogInv'
  <2>1. k # "log_enqueued"
    BY DEF Running, Sweeps, ByWorker, ById
  <2> QED
    BY <1>1, <2>1 DEF LogInv, TypeOK, jobs
<1> QED
  BY <1>2, <1>3, <1>4

LEMMA EnqueueKeeps ==
  ASSUME Inv, NEW s \in Session, NEW batch \in Batches, EnqueueBatch(s, batch)
  PROVE  Inv'
<1> USE DEF Inv
<1>0. /\ Head(batch) \in Job
      /\ Tail(batch) \in Seq(Job)
  BY JobTransactionsAssumption, HeadTailProperties
<1>1. /\ stmt' = [stmt EXCEPT ![s] = "insert"]
      /\ todo' = [todo EXCEPT ![s] = {Head(batch)}]
      /\ rest' = [rest EXCEPT ![s] = Tail(batch)]
      /\ by' = by /\ held' = held /\ held[s] = {} /\ stmt[s] = "idle"
      /\ UNCHANGED <<jobs, enqueued_events>>
  BY DEF EnqueueBatch, TypeOK
<1>2. TypeOK'
  <2>1. rest' \in [Session -> Seq(Job)]
    BY <1>0, <1>1 DEF TypeOK
  <2>2. "insert" \in Running /\ "insert" \notin ByWorker
    BY DEF Running, ByWorker
  <2> QED
    BY <1>0, <1>1, <2>1, <2>2 DEF TypeOK, TableTypeOK, jobs
<1>3. LockInv'
  <2>1. \A t \in Session : OwnLocks(t)'
    <3> TAKE t \in Session
    <3>1. CASE t = s
      BY <1>1, <3>1 DEF OwnLocks, TypeOK, Single
    <3>2. CASE t # s
      BY <1>1, <3>2, OthersKeep DEF TypeOK
    <3> QED
      BY <3>1, <3>2
  <2>2. \A t, u \in Session : t # u => held'[t] \cap held'[u] = {}
    BY <1>1 DEF LockInv
  <2> QED
    BY <2>1, <2>2 DEF LockInv
<1>4. LogInv'
  BY <1>1 DEF LogInv, TypeOK, jobs
<1> QED
  BY <1>2, <1>3, <1>4

(* Locking a row and passing over one: Visit and SkipLocked.               *)
LEMMA VisitKeeps ==
  ASSUME Inv, NEW s \in Session, NEW j \in Job, Visit(s, j) \/ SkipLocked(s, j)
  PROVE  Inv'
<1> USE DEF Inv
<1>1. /\ stmt[s] \in Running /\ j \in todo[s]
      /\ UNCHANGED <<jobs, stmt, by, rest, enqueued_events>>
  BY DEF Visit, SkipLocked, NextInScan, Running, ByWorker
<1>2. \A t \in Session \ {s} : todo'[t] = todo[t] /\ held'[t] = held[t]
  BY DEF Visit, SkipLocked, TypeOK
<1>3. /\ todo' \in [Session -> SUBSET Job]
      /\ held' \in [Session -> SUBSET Job]
  <2>1. /\ todo \in [Session -> SUBSET Job] /\ held \in [Session -> SUBSET Job]
        /\ todo[s] \ {j} \in SUBSET Job
        /\ held[s] \cup {j} \in SUBSET Job
        /\ {} \in SUBSET Job
    BY DEF TypeOK
  <2>2. CASE SkipLocked(s, j)
    BY <2>1, <2>2 DEF SkipLocked
  <2>3. CASE Visit(s, j) /\ ~Matches(stmt[s], j, by[s])
    BY <2>1, <2>3 DEF Visit
  <2>4. CASE Visit(s, j) /\ Matches(stmt[s], j, by[s]) /\ stmt[s] = "claim_next_job"
    BY <2>1, <2>4 DEF Visit
  <2>5. CASE Visit(s, j) /\ Matches(stmt[s], j, by[s]) /\ stmt[s] # "claim_next_job"
    BY <2>1, <2>5 DEF Visit
  <2> QED
    BY <2>2, <2>3, <2>4, <2>5
<1>4. todo'[s] \subseteq todo[s] \ {j} /\ held'[s] \subseteq held[s] \cup {j}
  BY DEF Visit, SkipLocked, TypeOK
<1>5. j \in held'[s] \ held[s] =>
        /\ Matches(stmt[s], j, by[s])
        /\ \A t \in Session \ {s} : j \notin held[t]
        /\ stmt[s] = "claim_next_job" => todo'[s] = {}
  BY DEF Visit, SkipLocked, TypeOK, Locked
<1>r. stmt[s] \notin {"idle", "log_enqueued"}
  BY <1>1 DEF Running, Sweeps, ByWorker, ById
<1>6. TypeOK'
  BY <1>1, <1>2, <1>3, <1>r DEF TypeOK, TableTypeOK, jobs
<1>7. LockInv'
  <2>1. OwnLocks(s)
    BY DEF LockInv
  <2>2. \A i \in Job : Matches(stmt[s], i, by[s]) => Matches(stmt[s], i, by[s])'
    BY <1>1, StillMatches DEF jobs
  <2>3. \A i \in held'[s] : Matches(stmt[s], i, by[s])'
    BY <1>3, <1>4, <1>5, <2>1, <2>2 DEF OwnLocks
  <2>4. stmt[s] = "claim_next_job" => held[s] = {}
    BY <1>1, <2>1 DEF OwnLocks
  <2>5. OwnLocks(s)'
    BY <1>1, <1>4, <1>5, <2>1, <2>3, <2>4 DEF OwnLocks
  <2>6. \A t \in Session \ {s} : OwnLocks(t)'
    BY <1>1, <1>2, OthersKeep
  <2>7. \A t, u \in Session : t # u => held[t] \cap held[u] = {}
    BY DEF LockInv
  <2>8. \A t \in Session \ {s} : held'[s] \cap held'[t] = {}
    BY <1>2, <1>4, <1>5, <2>7
  <2>9. \A t, u \in Session : t # u => held'[t] \cap held'[u] = {}
    BY <1>2, <2>7, <2>8
  <2> QED
    BY <2>5, <2>6, <2>9 DEF LockInv
<1>8. LogInv'
  BY <1>1, <1>2, <1>r DEF LogInv, TypeOK, jobs
<1> QED
  BY <1>6, <1>7, <1>8

LEMMA AbortKeeps ==
  ASSUME Inv, NEW s \in Session, Abort(s)
  PROVE  Inv'
<1> USE DEF Inv
<1>0. <<>> \in Seq(Job)
  BY EmptySeq
<1>1. /\ stmt' = [stmt EXCEPT ![s] = "idle"]
      /\ by' = [by EXCEPT ![s] = Null]
      /\ todo' = [todo EXCEPT ![s] = {}]
      /\ held' = [held EXCEPT ![s] = {}]
      /\ rest' = [rest EXCEPT ![s] = <<>>]
      /\ UNCHANGED <<jobs, enqueued_events>>
  BY DEF Abort
<1>2. TypeOK'
  <2>1. rest' \in [Session -> Seq(Job)]
    BY <1>0, <1>1 DEF TypeOK
  <2>2. "idle" \notin ByWorker
    BY DEF ByWorker
  <2> QED
    BY <1>1, <2>1, <2>2 DEF TypeOK, TableTypeOK, jobs
<1>3. LockInv'
  <2>1. OwnLocks(s)'
    BY <1>1 DEF OwnLocks, TypeOK, Single, ById
  <2>2. \A t \in Session \ {s} : OwnLocks(t)'
    BY <1>1, OthersKeep DEF TypeOK
  <2>3. \A t, u \in Session : t # u => held'[t] \cap held'[u] = {}
    BY <1>1 DEF LockInv, TypeOK
  <2> QED
    BY <2>1, <2>2, <2>3 DEF LockInv
<1>4. LogInv'
  BY <1>1 DEF LogInv, TypeOK, jobs
<1> QED
  BY <1>2, <1>3, <1>4

LEMMA TimeKeeps ==
  ASSUME Inv, NEW j \in Job, Time(j)
  PROVE  Inv'
<1> USE DEF Inv
<1>1. /\ UNCHANGED <<status, worker_id, attempt_count, completed_events,
                     sessions, enqueued_events>>
      /\ lease' \in [Job -> {"none", "valid", "expired"}]
      /\ scheduled' \in [Job -> {"due", "later"}]
      /\ \A i \in Job : lease[i] = "expired" => lease'[i] = "expired"
      /\ \A i \in Job : scheduled[i] = "due" => scheduled'[i] = "due"
  BY DEF Time, LeaseRunsOut, BecomeDue, TypeOK, TableTypeOK
<1>2. TypeOK'
  BY <1>1 DEF TypeOK, TableTypeOK, sessions
<1>3. LockInv'
  <2>1. \A t \in Session : OwnLocks(t)'
    <3> TAKE t \in Session
    <3>1. OwnLocks(t) /\ held[t] \subseteq Job
      BY DEF LockInv, TypeOK
    <3>2. \A i \in held[t] : Matches(stmt[t], i, by[t])'
      BY <1>1, <3>1, StillMatches DEF OwnLocks, sessions
    <3> QED
      BY <1>1, <3>1, <3>2 DEF OwnLocks, sessions
  <2> QED
    BY <1>1, <2>1 DEF LockInv, sessions
<1>4. LogInv'
  BY <1>1 DEF LogInv, sessions
<1> QED
  BY <1>2, <1>3, <1>4

-------------------------------------------------------------------------------
(* After a commit: the table, and the sessions.                            *)
LEMMA CommitKeeps ==
  ASSUME Inv, NEW s \in Session, Commit(s)
  PROVE  Inv'
<1> USE DEF Inv
<1>0. /\ stmt[s] \in Running /\ todo[s] = {}
      /\ held' = [held EXCEPT ![s] = {}]
      /\ UNCHANGED enqueued_events
      /\ OwnLocks(s) /\ held[s] \subseteq Job
  BY DEF Commit, LocksKept, LockInv, TypeOK
<1>1. PICK when \in {"due", "later"} : Write(s, when)
  BY DEF Commit
<1>2. /\ TableTypeOK'
      /\ \A j \in Job \ held[s] :
           /\ status'[j] = status[j]
           /\ worker_id'[j] = worker_id[j]
           /\ lease'[j] = lease[j]
           /\ attempt_count'[j] = attempt_count[j]
           /\ scheduled'[j] = scheduled[j]
      /\ \A j \in held[s] : Row(j)' = Written(stmt[s], by[s], when, Row(j))
  BY <1>0, <1>1, WriteRows DEF OwnLocks
<1>3. /\ stmt' \in [Session -> Running \cup {"idle", "log_enqueued"}]
      /\ by' \in [Session -> WorkerId \cup {Null}]
      /\ todo' \in [Session -> SUBSET Job]
      /\ rest' \in [Session -> Seq(Job)]
      /\ stmt'[s] \in {"idle", "insert", "log_enqueued"}
      /\ stmt'[s] = "idle" => todo'[s] = {}
      /\ stmt'[s] # "log_enqueued" => \A i, j \in todo'[s] : i = j
      /\ stmt'[s] = "log_enqueued" => Inserted(s) /\ todo'[s] = held[s]
      /\ \A t \in Session \ {s} :
           stmt'[t] = stmt[t] /\ by'[t] = by[t] /\ todo'[t] = todo[t]
  <2>1. CASE Inserted(s)
    BY <1>0, <2>1 DEF Commit, TypeOK
  <2>2. CASE ~Inserted(s)
    BY <2>2, ProceedTyped DEF Commit
  <2> QED
    BY <2>1, <2>2
<1>4. TypeOK'
  <2>1. \A t \in Session \ {s} : held'[t] = held[t]
    BY <1>0 DEF TypeOK
  <2>2. held' \in [Session -> SUBSET Job] /\ held'[s] = {}
    BY <1>0 DEF TypeOK
  <2>3. enqueued_events' \in [Job -> Nat]
    BY <1>0 DEF TypeOK
  <2>4. stmt'[s] \notin ByWorker
    BY <1>3 DEF ByWorker
  <2>5. \A t \in Session :
          /\ stmt'[t] \in ByWorker => by'[t] \in WorkerId
          /\ stmt'[t] \in {"idle", "log_enqueued"} => held'[t] = {}
          /\ stmt'[t] = "idle" => todo'[t] = {}
    BY <1>3, <2>1, <2>2, <2>4 DEF TypeOK
  <2> QED
    BY <1>2, <1>3, <2>2, <2>3, <2>5 DEF TypeOK
<1>5. LockInv'
  <2>1. OwnLocks(s)'
    BY <1>0, <1>3 DEF OwnLocks, TypeOK, Single, ById
  <2>2. ASSUME NEW t \in Session \ {s} PROVE OwnLocks(t)'
    <3>1. OwnLocks(t) /\ held[t] \subseteq Job /\ held[t] \cap held[s] = {}
      BY DEF LockInv, TypeOK
    <3>2. held'[t] = held[t]
      BY <1>0 DEF TypeOK
    <3>3. \A j \in held[t] : Matches(stmt[t], j, by[t])'
      BY <1>2, <1>3, <3>1, StillMatches DEF OwnLocks
    <3> QED
      BY <1>3, <3>1, <3>2, <3>3 DEF OwnLocks
  <2>3. \A t, u \in Session : t # u => held'[t] \cap held'[u] = {}
    BY <1>0 DEF LockInv, TypeOK
  <2> QED
    BY <2>1, <2>2, <2>3 DEF LockInv
<1>6. LogInv'
  <2>1. ASSUME NEW j \in Job PROVE status'[j] = "absent" => status[j] = "absent"
    <3>1. CASE j \notin held[s]
      BY <1>2, <3>1
    <3>2. CASE j \in held[s]
      BY <1>0, <1>2, <3>2 DEF Row, Written, Running, Sweeps, ByWorker, ById
    <3> QED
      BY <3>1, <3>2
  <2>2. ASSUME stmt'[s] = "log_enqueued"
        PROVE  \A j \in todo'[s] :
                 status[j] = "absent" /\ status'[j] # "absent" /\ j \in Job
    <3>1. stmt[s] = "insert" /\ todo'[s] = held[s]
      BY <1>3, <2>2 DEF Inserted
    <3>2. \A j \in held[s] : status[j] = "absent"
      BY <1>0, <1>3, <2>2, <3>1 DEF Inserted, OwnLocks, Single
    <3>3. \A j \in held[s] : status'[j] # "absent"
      BY <1>2, <3>1, <3>2 DEF Row, Written
    <3> QED
      BY <1>0, <3>1, <3>2, <3>3
  <2>3. \A j \in Job : status[j] = "absent" => enqueued_events[j] = 0
    BY DEF LogInv
  <2>4. ASSUME NEW t \in Session, NEW j \in Job, stmt'[t] = "log_enqueued", j \in todo'[t]
        PROVE  status'[j] # "absent" /\ enqueued_events[j] = 0
    <3>1. CASE t = s
      BY <2>2, <2>3, <2>4, <3>1
    <3>2. CASE t # s
      BY <1>3, <2>1, <2>4, <3>2 DEF LogInv
    <3> QED
      BY <3>1, <3>2
  <2>5. ASSUME NEW t \in Session \ {s}, stmt[t] = "log_enqueued", stmt'[s] = "log_enqueued"
        PROVE  todo'[s] \cap todo[t] = {}
    BY <2>2, <2>5 DEF LogInv
  <2>6. ASSUME NEW t \in Session, NEW u \in Session, t # u,
               stmt'[t] = "log_enqueued", stmt'[u] = "log_enqueued"
        PROVE  todo'[t] \cap todo'[u] = {}
    <3>1. CASE t = s
      BY <1>3, <2>5, <2>6, <3>1
    <3>2. CASE u = s
      BY <1>3, <2>5, <2>6, <3>2
    <3>3. CASE t # s /\ u # s
      BY <1>3, <2>6, <3>3 DEF LogInv
    <3> QED
      BY <3>1, <3>2, <3>3
  <2>7. \A t \in Session : todo'[t] \subseteq Job
    BY <1>3
  <2> QED
    BY <1>0, <2>1, <2>3, <2>4, <2>6, <2>7 DEF LogInv
<1> QED
  BY <1>4, <1>5, <1>6

LEMMA LogKeeps ==
  ASSUME Inv, NEW s \in Session, LogEnqueued(s)
  PROVE  Inv'
<1> USE DEF Inv
<1>1. /\ stmt[s] = "log_enqueued" /\ held[s] = {}
      /\ enqueued_events' =
           [j \in Job |-> enqueued_events[j] + IF j \in todo[s] THEN 1 ELSE 0]
      /\ UNCHANGED <<jobs, held>>
  BY DEF LogEnqueued, TypeOK
<1>2. /\ stmt' \in [Session -> Running \cup {"idle", "log_enqueued"}]
      /\ by' \in [Session -> WorkerId \cup {Null}]
      /\ todo' \in [Session -> SUBSET Job]
      /\ rest' \in [Session -> Seq(Job)]
      /\ stmt'[s] \in {"idle", "insert"}
      /\ stmt'[s] = "idle" => todo'[s] = {}
      /\ \A i, j \in todo'[s] : i = j
      /\ \A t \in Session \ {s} :
           stmt'[t] = stmt[t] /\ by'[t] = by[t] /\ todo'[t] = todo[t]
  BY ProceedTyped DEF LogEnqueued
<1>3. TypeOK'
  <2>1. enqueued_events' \in [Job -> Nat]
    BY <1>1 DEF TypeOK
  <2>2. stmt'[s] \notin ByWorker
    BY <1>2 DEF ByWorker
  <2>3. TableTypeOK'
    BY <1>1 DEF TypeOK, TableTypeOK, jobs
  <2>4. \A t \in Session :
          /\ stmt'[t] \in ByWorker => by'[t] \in WorkerId
          /\ stmt'[t] \in {"idle", "log_enqueued"} => held'[t] = {}
          /\ stmt'[t] = "idle" => todo'[t] = {}
    BY <1>1, <1>2, <2>2 DEF TypeOK
  <2> QED
    BY <1>1, <1>2, <2>1, <2>3, <2>4 DEF TypeOK
<1>4. LockInv'
  <2>1. OwnLocks(s)'
    BY <1>1, <1>2 DEF OwnLocks
  <2>2. \A t \in Session \ {s} : OwnLocks(t)'
    BY <1>1, <1>2, OthersKeep
  <2> QED
    BY <1>1, <2>1, <2>2 DEF LockInv
<1>5. LogInv'
  <2>1. \A j \in Job : j \notin todo[s] => enqueued_events'[j] = enqueued_events[j]
    BY <1>1 DEF TypeOK
  <2>2. \A j \in todo[s] : enqueued_events'[j] = 1 /\ status[j] # "absent"
    BY <1>1 DEF LogInv, TypeOK
  <2>3. \A j \in Job : status'[j] = status[j]
    BY <1>1 DEF jobs
  <2>4. \A t \in Session \ {s} : stmt[t] = "log_enqueued" => todo[s] \cap todo[t] = {}
    BY <1>1 DEF LogInv
  <2>5. \A j \in Job : enqueued_events'[j] <= 1
    BY <2>1, <2>2 DEF LogInv
  <2>6. \A j \in Job : status'[j] = "absent" => enqueued_events'[j] = 0
    BY <2>1, <2>2, <2>3 DEF LogInv
  <2>7. \A t \in Session : stmt'[t] = "log_enqueued" =>
          t # s /\ stmt[t] = "log_enqueued" /\ todo'[t] = todo[t] /\ todo[t] \subseteq Job
    BY <1>2 DEF TypeOK
  <2> QED
    BY <2>1, <2>3, <2>4, <2>5, <2>6, <2>7 DEF LogInv
<1> QED
  BY <1>3, <1>4, <1>5

-------------------------------------------------------------------------------
LEMMA Inductive == Inv /\ [Next]_vars => Inv'
<1> SUFFICES ASSUME Inv, [Next]_vars PROVE Inv'
  OBVIOUS
<1>1. ASSUME NEW s \in Session, Issue(s) PROVE Inv'
  <2>a. /\ Sweeps \subseteq Running \ {"insert"} /\ Sweeps \cap (ByWorker \cup ById) = {}
        /\ ById \subseteq Running \ {"insert"}
        /\ "claim_next_job" \in Running \ {"insert"} /\ "claim_next_job" \notin ById
    BY DEF Sweeps, Running, ByWorker, ById
  <2>1. CASE \E k \in Sweeps : Begin(s, k, Null, Job)
    BY <2>a, <2>1, BeginKeeps
  <2>2. CASE \E id \in WorkerId : Begin(s, "claim_next_job", id, Job)
    BY <2>a, <2>2, BeginKeeps
  <2>3. CASE \E j \in Job, k \in ById \ ByWorker : Begin(s, k, Null, {j})
    <3> PICK j \in Job, k \in ById \ ByWorker : Begin(s, k, Null, {j})
      BY <2>3
    <3>1. k \in Running \ {"insert"} /\ k \notin ByWorker /\ {j} \in SUBSET Job
      BY <2>a
    <3> QED
      BY <3>1, BeginKeeps
  <2>4. CASE \E j \in Job, k \in ById \cap ByWorker, id \in WorkerId : Begin(s, k, id, {j})
    <3> PICK j \in Job, k \in ById \cap ByWorker, id \in WorkerId : Begin(s, k, id, {j})
      BY <2>4
    <3>1. k \in Running \ {"insert"} /\ {j} \in SUBSET Job
      BY <2>a
    <3> QED
      BY <3>1, BeginKeeps
  <2> QED
    BY <1>1, <2>1, <2>2, <2>3, <2>4 DEF Issue
<1>2. CASE UNCHANGED vars
  <2>1. TypeOK'
    BY <1>2 DEF Inv, TypeOK, TableTypeOK, vars, jobs, sessions
  <2>2. LockInv'
    BY <1>2, OthersKeep DEF Inv, LockInv, vars, sessions
  <2>3. LogInv'
    BY <1>2 DEF Inv, LogInv, vars, jobs, sessions
  <2> QED
    BY <2>1, <2>2, <2>3 DEF Inv
<1> QED
  BY <1>1, <1>2, EnqueueKeeps, VisitKeeps, CommitKeeps, LogKeeps, AbortKeeps, TimeKeeps
  DEF Next, Advance

LEMMA Safety == Spec => []Inv
<1>1. Init => Inv
  <2> SUFFICES ASSUME Init PROVE Inv
    OBVIOUS
  <2>1. TableTypeOK
    BY JobTableAssumption DEF Init, TableInit, TableTypeOK, Status
  <2>2. <<>> \in Seq(Job)
    BY EmptySeq
  <2>3. TypeOK
    BY <2>1, <2>2 DEF Init, TypeOK, ByWorker
  <2>4. LockInv /\ LogInv
    BY DEF Init, LockInv, OwnLocks, LogInv, Single, ById
  <2> QED
    BY <2>3, <2>4 DEF Inv
<1> QED
  BY <1>1, Inductive, PTL DEF Spec

(* The state is well typed; an idle session holds no lock.                 *)
THEOREM TypeCorrect == Spec => []TypeOK
BY Safety, PTL DEF Inv

(* The 'enqueued' event of a job is logged at most once, however many      *)
(* producers send the job however often.                                   *)
THEOREM LoggedOnce == Spec => []LoggedAtMostOnce
<1>1. Inv => LoggedAtMostOnce
  BY DEF Inv, LogInv, LoggedAtMostOnce
<1> QED
  BY <1>1, Safety, PTL

(* Only recover_expired_leases and process_dead_letters can deadlock.      *)
THEOREM DeadlocksAreSweeps == Spec => []OnlySweepsDeadlock
<1>1. Inv => OnlySweepsDeadlock
  <2> SUFFICES ASSUME Inv, NEW D \in SUBSET Session, Deadlocked(D), NEW s \in D
               PROVE  stmt[s] \in Sweeps
    BY DEF OnlySweepsDeadlock
  <2>1. PICK i \in todo[s] : TRUE
    BY DEF Deadlocked
  <2>2. PICK t \in D : todo[t] \cap held[s] # {}
    BY DEF Deadlocked
  <2>3. PICK j \in held[s] : TRUE
    BY <2>2
  <2>4. OwnLocks(s)
    BY DEF Inv, LockInv
  <2>5. stmt[s] \notin Single
    BY <2>1, <2>3, <2>4 DEF OwnLocks
  <2> QED
    BY <2>5 DEF Deadlocked, Single, Running, ByWorker, ById
<1> QED
  BY <1>1, Safety, PTL

-------------------------------------------------------------------------------
(* A commit is one atomic statement on the rows committed before it.       *)
LEMMA CommitIsAtomic ==
  ASSUME Inv, NEW s \in Session, Commit(s)
  PROVE  AtomicStatement \/ UNCHANGED jobs
<1> USE DEF Inv
<1>0. /\ stmt[s] \in Running /\ OwnLocks(s) /\ held[s] \subseteq Job
      /\ stmt[s] \in ByWorker => by[s] \in WorkerId
  BY DEF Commit, LockInv, TypeOK
<1>1. PICK when \in {"due", "later"} : Write(s, when)
  BY DEF Commit
<1>2. /\ TableTypeOK'
      /\ \A j \in Job \ held[s] :
           /\ status'[j] = status[j]
           /\ worker_id'[j] = worker_id[j]
           /\ lease'[j] = lease[j]
           /\ attempt_count'[j] = attempt_count[j]
           /\ scheduled'[j] = scheduled[j]
      /\ \A j \in held[s] : Row(j)' = Written(stmt[s], by[s], when, Row(j))
  BY <1>0, <1>1, WriteRows DEF OwnLocks
<1>3. completed_events' = completed_events
  BY <1>1 DEF Write
<1>4. /\ status \in [Job -> Status] /\ status' \in [Job -> Status]
      /\ worker_id \in [Job -> WorkerId \cup {Null}] /\ worker_id' \in [Job -> WorkerId \cup {Null}]
      /\ lease \in [Job -> {"none", "valid", "expired"}]
      /\ lease' \in [Job -> {"none", "valid", "expired"}]
      /\ attempt_count \in [Job -> 0..AttemptLimit] /\ attempt_count' \in [Job -> 0..AttemptLimit]
      /\ scheduled \in [Job -> {"due", "later"}] /\ scheduled' \in [Job -> {"due", "later"}]
  BY <1>2 DEF TypeOK, TableTypeOK
<1>5. CASE held[s] = {}
  <2>1. UNCHANGED <<status, worker_id, lease, attempt_count, scheduled>>
    BY <1>2, <1>4, <1>5
  <2> QED
    BY <1>3, <2>1 DEF jobs
<1>6. CASE stmt[s] \notin Sweeps /\ held[s] # {}
  <2>1. PICK j \in Job : held[s] = {j}
    <3>1. stmt[s] \in Single \cup {"claim_next_job"}
      BY <1>0, <1>6 DEF Single, Running, ByWorker, ById
    <3>2. \A i, j \in held[s] : i = j
      BY <1>0, <3>1 DEF OwnLocks
    <3> QED
      BY <1>0, <1>6, <3>2
  <2>2. /\ Matches(stmt[s], j, by[s])
        /\ Row(j)' = Written(stmt[s], by[s], when, Row(j))
    BY <1>0, <1>2, <2>1 DEF OwnLocks
  <2> DEFINE r == Written(stmt[s], by[s], when, Row(j))
  <2>3. /\ status' = [status EXCEPT ![j] = r.status]
        /\ worker_id' = [worker_id EXCEPT ![j] = r.worker_id]
        /\ lease' = [lease EXCEPT ![j] = r.lease]
        /\ attempt_count' = [attempt_count EXCEPT ![j] = r.attempt_count]
        /\ scheduled' = [scheduled EXCEPT ![j] = r.scheduled]
    <3>1. /\ status'[j] = r.status /\ worker_id'[j] = r.worker_id /\ lease'[j] = r.lease
          /\ attempt_count'[j] = r.attempt_count /\ scheduled'[j] = r.scheduled
      <4> HIDE DEF r
      <4>1. Row(j)' = r
        BY <2>2 DEF r
      <4> QED
        BY <4>1 DEF Row
    <3> HIDE DEF r
    <3> QED
      BY <1>2, <1>4, <2>1, <3>1
  <2>4. CASE stmt[s] = "insert"
    <3>1. CASE status[j] = "absent"
      <4>1. InsertJob(j, when)
        BY <1>3, <1>4, <2>3, <2>4, <3>1 DEF InsertJob, Written, Row
      <4> QED
        BY <4>1 DEF AtomicStatement
    <3>2. CASE status[j] # "absent"
      <4>1. UNCHANGED <<status, worker_id, lease, attempt_count, scheduled>>
        BY <1>4, <2>3, <2>4, <3>2 DEF Written, Row
      <4> QED
        BY <1>3, <4>1 DEF jobs
    <3> QED
      BY <3>1, <3>2
  <2>5. CASE stmt[s] = "claim_next_job"
    <3>1. ClaimNextJob(j, by[s])
      <4>1. Claimable(j) /\ attempt_count[j] < AttemptLimit
        BY <2>2, <2>5 DEF Matches
      <4>2. /\ r.status = "claimed"
            /\ r.worker_id = by[s]
            /\ r.lease = "valid"
            /\ r.attempt_count = attempt_count[j] + 1
            /\ r.scheduled = scheduled[j]
        BY <2>5 DEF Written, Row
      <4> HIDE DEF r
      <4>3. UNCHANGED <<scheduled, completed_events>>
        BY <1>3, <1>4, <2>3, <4>2
      <4> QED
        BY <2>3, <4>1, <4>2, <4>3 DEF ClaimNextJob
    <3> QED
      BY <1>0, <2>5, <3>1 DEF AtomicStatement, ByWorker
  <2>6. CASE stmt[s] = "mark_running"
    <3>1. MarkRunning(j, by[s])
      <4>1. worker_id[j] = by[s] /\ status[j] = "claimed"
        BY <2>2, <2>6 DEF Matches
      <4>2. /\ r.status = "running"
            /\ r.worker_id = worker_id[j]
            /\ r.lease = lease[j]
            /\ r.attempt_count = attempt_count[j]
            /\ r.scheduled = scheduled[j]
        BY <2>6 DEF Written, Row
      <4> HIDE DEF r
      <4>3. UNCHANGED <<worker_id, lease, attempt_count, scheduled, completed_events>>
        BY <1>3, <1>4, <2>3, <4>2
      <4> QED
        BY <2>3, <4>1, <4>2, <4>3 DEF MarkRunning
    <3> QED
      BY <1>0, <2>6, <3>1 DEF AtomicStatement, ByWorker
  <2>7. CASE stmt[s] = "renew_job_lease"
    <3>1. RenewJobLease(j, by[s])
      <4>1. Renewable(j, by[s])
        BY <2>2, <2>7 DEF Matches
      <4>2. /\ r.status = status[j]
            /\ r.worker_id = worker_id[j]
            /\ r.lease = "valid"
            /\ r.attempt_count = attempt_count[j]
            /\ r.scheduled = scheduled[j]
        BY <2>7 DEF Written, Row
      <4> HIDE DEF r
      <4>3. UNCHANGED <<status, worker_id, attempt_count, scheduled, completed_events>>
        BY <1>3, <1>4, <2>3, <4>2
      <4> QED
        BY <2>3, <4>1, <4>2, <4>3 DEF RenewJobLease
    <3> QED
      BY <1>0, <2>7, <3>1 DEF AtomicStatement, ByWorker
  <2>8. CASE stmt[s] = "complete_job"
    <3>1. CompleteJob(j)
      BY <1>3, <1>4, <2>3, <2>8 DEF CompleteJob, Written, Row
    <3> QED
      BY <3>1 DEF AtomicStatement
  <2>9. CASE stmt[s] = "requeue_job"
    <3>1. RequeueJob(j)
      BY <1>3, <1>4, <2>3, <2>9 DEF RequeueJob, Written, Row
    <3> QED
      BY <3>1 DEF AtomicStatement
  <2>10. CASE stmt[s] = "fail_job"
    <3>1. FailJob(j)
      BY <1>3, <1>4, <2>3, <2>10 DEF FailJob, Written, Row
    <3> QED
      BY <3>1 DEF AtomicStatement
  <2> QED
    BY <1>0, <1>6, <2>4, <2>5, <2>6, <2>7, <2>8, <2>9, <2>10 DEF Running, ByWorker, ById
<1>7. CASE stmt[s] = "recover_expired_leases"
  <2>1. \A j \in held[s] : Row(j)' = [Row(j) EXCEPT !.status = "pending",
                                                    !.worker_id = Null, !.lease = "none"]
    BY <1>2, <1>7 DEF Written
  <2>2. \A j \in held[s] :
          /\ status'[j] = "pending" /\ worker_id'[j] = Null /\ lease'[j] = "none"
          /\ attempt_count'[j] = attempt_count[j] /\ scheduled'[j] = scheduled[j]
    BY <2>1 DEF Row
  <2>3. \A j \in held[s] : Recoverable(j)
    BY <1>0, <1>7 DEF OwnLocks, Matches
  <2>4. RecoverExpiredLeases(held[s])
    BY <1>0, <1>2, <1>3, <1>4, <2>2, <2>3 DEF RecoverExpiredLeases
  <2> QED
    BY <1>0, <2>4 DEF AtomicStatement
<1>8. CASE stmt[s] = "process_dead_letters"
  <2>1. \A j \in held[s] : Row(j)' = [Row(j) EXCEPT !.status = "dead_letter"]
    BY <1>2, <1>8 DEF Written
  <2>2. \A j \in held[s] :
          /\ status'[j] = "dead_letter" /\ worker_id'[j] = worker_id[j] /\ lease'[j] = lease[j]
          /\ attempt_count'[j] = attempt_count[j] /\ scheduled'[j] = scheduled[j]
    BY <2>1 DEF Row
  <2>3. \A j \in held[s] : Exhausted(j)
    BY <1>0, <1>8 DEF OwnLocks, Matches
  <2>4. ProcessDeadLetters(held[s])
    BY <1>0, <1>2, <1>3, <1>4, <2>2, <2>3 DEF ProcessDeadLetters
  <2> QED
    BY <1>0, <2>4 DEF AtomicStatement
<1> QED
  BY <1>5, <1>6, <1>7, <1>8 DEF Sweeps

(* Whatever statements run at once, the table changes as if they ran one   *)
(* after the other: what JobTable and JobQueue assume of every statement.  *)
THEOREM StatementsSerialize == Spec => Serializable
<1>1. Init => TableInit
  BY DEF Init
<1>2. Inv /\ [Next]_vars => [AtomicStatement]_jobs
  <2> SUFFICES ASSUME Inv, Next PROVE AtomicStatement \/ UNCHANGED jobs
    BY DEF vars
  <2>1. ASSUME NEW s \in Session, Issue(s) PROVE UNCHANGED jobs
    BY <2>1 DEF Issue, Begin
  <2>2. ASSUME NEW s \in Session, Advance(s) PROVE AtomicStatement \/ UNCHANGED jobs
    BY <2>2, CommitIsAtomic DEF Advance, Visit, SkipLocked, LogEnqueued
  <2>3. ASSUME NEW j \in Job, Time(j) PROVE AtomicStatement
    BY <2>3 DEF Time, AtomicStatement
  <2> QED
    BY <2>1, <2>2, <2>3 DEF Next, EnqueueBatch, Abort
<1> QED
  BY <1>1, <1>2, Safety, PTL DEF Spec, Serializable, StatementByStatement
================================================================================
