---------------------------- MODULE WorkerRegistry ----------------------------
(***************************************************************************)
(* The workers table and what keeps it current: registration, the         *)
(* heartbeats that the poll loop sends around a job and the heartbeat loop *)
(* sends every few seconds, and the deregistration of main.py's shutdown.  *)
(* Both loops write the same row from the same _current_job, and the      *)
(* heartbeat loop's statement may take effect long after it was composed.  *)
(* Several Worker objects may have one id: main.py numbers its workers, so *)
(* two processes that run it use the same ids and share the rows.          *)
(*                                                                         *)
(* Which job claim_job hands out is left open (JobQueue models that), and  *)
(* so are the counters of the row.  Clock: a heartbeat is "recent" or      *)
(* older than the 30 seconds of get_queue_stats, which pass at any time: a *)
(* heartbeat may raise, or hang until its timeout.                         *)
(*                                                                         *)
(* Faults is the set of kinds of fault, MaxFaults how many in all:         *)
(*   "crash"        the process dies; its rows stay                        *)
(*   "shutdown"     main.py cancels the worker's task and calls stop       *)
(*   "error"        a heartbeat or a registration raises                   *)
(*   "early_error"  a statement of _execute before its try block raises    *)
(***************************************************************************)
EXTENDS Naturals

CONSTANTS
  Worker, WorkerId,
  IdOf,        \* the worker_id each Worker was given
  Job, Null,
  Handled,     \* jobs whose job_type has a registered handler
  Faults, MaxFaults,
  MaxClaims    \* bound on the jobs claimed in a behaviour

ASSUME WorkerRegistryAssumption ==
  /\ IdOf \in [Worker -> WorkerId]
  /\ Null \notin Job
  /\ Handled \subseteq Job
  /\ MaxFaults \in Nat
  /\ MaxClaims \in Nat

VARIABLES
  registered,   \* whether the table has a row for the id
  row_status,   \* column status
  row_job,      \* column current_job_id
  beat,         \* column last_heartbeat: "recent" or "stale"
  pc,           \* where the poll loop is
  current,      \* the worker's _current_job
  hb,           \* the heartbeat loop: "off", "asleep" or "sending" ...
  hb_job,       \* ... a heartbeat that says this job, or none
  leaving,      \* whether stop must still delete the row, or has done so
  remover,      \* not in the code: who deleted the id's row last
  faults, claims

rows == <<registered, row_status, row_job, beat>>
vars == <<rows, pc, current, hb, hb_job, leaving, remover, faults, claims>>

TypeOK ==
  /\ registered \in [WorkerId -> BOOLEAN]
  /\ row_status \in [WorkerId -> {"idle", "busy"}]
  /\ row_job \in [WorkerId -> Job \cup {Null}]
  /\ beat \in [WorkerId -> {"recent", "stale"}]
  /\ pc \in [Worker -> {"off", "ended", "register", "poll", "heartbeat_busy", "handler",
                        "report", "give_up", "heartbeat_idle", "last_heartbeat"}]
  /\ current \in [Worker -> Job \cup {Null}]
  /\ \A w \in Worker :
       pc[w] \in {"heartbeat_busy", "handler", "report", "give_up"} => current[w] \in Job
  /\ hb \in [Worker -> {"off", "asleep", "sending"}]
  /\ hb_job \in [Worker -> Job \cup {Null}]
  /\ leaving \in [Worker -> {"no", "requested", "done"}]
  /\ remover \in [WorkerId -> Worker \cup {Null}]
  /\ faults \in 0..MaxFaults
  /\ claims \in 0..MaxClaims

Init ==
  /\ registered = [id \in WorkerId |-> FALSE]
  /\ row_status = [id \in WorkerId |-> "idle"]
  /\ row_job = [id \in WorkerId |-> Null]
  /\ beat = [id \in WorkerId |-> "stale"]
  /\ pc = [w \in Worker |-> "off"]
  /\ current = [w \in Worker |-> Null]
  /\ hb = [w \in Worker |-> "off"]
  /\ hb_job = [w \in Worker |-> Null]
  /\ leaving = [w \in Worker |-> "no"]
  /\ remover = [id \in WorkerId |-> Null]
  /\ faults = 0
  /\ claims = 0

-------------------------------------------------------------------------------
Fault(kind) ==
  /\ kind \in Faults
  /\ faults < MaxFaults
  /\ faults' = faults + 1

(* register_worker: a row left by a crash keeps its current_job_id.        *)
Upsert(id) ==
  /\ registered' = [registered EXCEPT ![id] = TRUE]
  /\ row_status' = [row_status EXCEPT ![id] = "idle"]
  /\ row_job' = IF registered[id] THEN row_job ELSE [row_job EXCEPT ![id] = Null]
  /\ beat' = [beat EXCEPT ![id] = "recent"]

(* Mutation: the heartbeat inserts a missing row.                          *)
BeatAndInsert(id, j) ==
  /\ registered' = [registered EXCEPT ![id] = TRUE]
  /\ row_status' = [row_status EXCEPT ![id] = IF j = Null THEN "idle" ELSE "busy"]
  /\ row_job' = [row_job EXCEPT ![id] = j]
  /\ beat' = [beat EXCEPT ![id] = "recent"]

(* heartbeat: an UPDATE, so a missing row stays missing.                   *)
Beat(id, j) ==
  IF registered[id]
  THEN /\ row_status' = [row_status EXCEPT ![id] = IF j = Null THEN "idle" ELSE "busy"]
       /\ row_job' = [row_job EXCEPT ![id] = j]
       /\ beat' = [beat EXCEPT ![id] = "recent"]
       /\ UNCHANGED registered
  ELSE UNCHANGED rows

Goto(w, to) == pc' = [pc EXCEPT ![w] = to]

(* A statement that took effect returns, or its answer is lost (kind).     *)
Finish(kind, w, to, raised) ==
  \/ Goto(w, to) /\ UNCHANGED faults
  \/ Fault(kind) /\ Goto(w, raised)

-------------------------------------------------------------------------------
(* Worker.start *)
Start(w) ==
  /\ pc[w] = "off"
  /\ leaving[w] # "requested"
  /\ Goto(w, "register")
  /\ current' = [current EXCEPT ![w] = Null]
  /\ leaving' = [leaving EXCEPT ![w] = "no"]
  /\ UNCHANGED <<rows, hb, hb_job, remover, faults, claims>>

(* If registering raises, start ends before any loop has begun; the        *)
(* process goes on without this worker.                                    *)
Register(w) ==
  /\ pc[w] = "register"
  /\ Upsert(IdOf[w])
  /\ \/ /\ Goto(w, "poll")
        /\ hb' = [hb EXCEPT ![w] = "asleep"]
        /\ UNCHANGED faults
     \/ /\ Fault("error")
        /\ Goto(w, "ended")
        /\ UNCHANGED hb
  /\ UNCHANGED <<current, hb_job, leaving, remover, claims>>

(* The poll loop and _execute *)
Claim(w, j) ==
  /\ pc[w] = "poll"
  /\ claims < MaxClaims
  /\ claims' = claims + 1
  /\ Goto(w, "heartbeat_busy")
  /\ current' = [current EXCEPT ![w] = j]
  /\ UNCHANGED <<rows, hb, hb_job, leaving, remover, faults>>

HeartbeatBusy(w) ==
  /\ pc[w] = "heartbeat_busy"
  /\ Beat(IdOf[w], current[w])
  /\ Finish("early_error", w, IF current[w] \in Handled THEN "handler" ELSE "give_up", "poll")
  /\ UNCHANGED <<current, hb, hb_job, leaving, remover, claims>>

(* Without a handler _execute returns before try ... finally.              *)
GiveUp(w) ==
  /\ pc[w] = "give_up"
  /\ Goto(w, "poll")
  /\ UNCHANGED <<rows, current, hb, hb_job, leaving, remover, faults, claims>>

(* Mutation: _current_job = None before the outcome is reported.           *)
LeaveHandlerIdle(w) ==
  /\ pc[w] = "handler"
  /\ Goto(w, "report")
  /\ current' = [current EXCEPT ![w] = Null]
  /\ UNCHANGED <<rows, hb, hb_job, leaving, remover, faults, claims>>

LeaveHandler(w) ==
  /\ pc[w] = "handler"
  /\ Goto(w, "report")
  /\ UNCHANGED <<rows, current, hb, hb_job, leaving, remover, faults, claims>>

(* The outcome has been reported, or that raised: the finally clause.      *)
Report(w) ==
  /\ pc[w] = "report"
  /\ Goto(w, "heartbeat_idle")
  /\ current' = [current EXCEPT ![w] = Null]
  /\ UNCHANGED <<rows, hb, hb_job, leaving, remover, faults, claims>>

HeartbeatIdle(w) ==
  /\ pc[w] = "heartbeat_idle"
  /\ Beat(IdOf[w], Null)
  /\ Finish("error", w, "poll", "poll")
  /\ UNCHANGED <<current, hb, hb_job, leaving, remover, claims>>

(* A statement raises and took no effect.                                  *)
Raise(w) ==
  /\ \/ pc[w] = "register" /\ Fault("error") /\ Goto(w, "ended")
     \/ pc[w] = "heartbeat_busy" /\ Fault("early_error") /\ Goto(w, "poll")
     \/ pc[w] = "heartbeat_idle" /\ Fault("error") /\ Goto(w, "poll")
  /\ UNCHANGED <<rows, current, hb, hb_job, leaving, remover, claims>>

(* Mutation: status and job are read before the loop, not in it.           *)
ComposeOnce(w) ==
  /\ hb[w] = "asleep"
  /\ hb' = [hb EXCEPT ![w] = "sending"]
  /\ UNCHANGED <<rows, pc, current, hb_job, leaving, remover, faults, claims>>

(* The heartbeat loop: status and job are read, then sent.                 *)
ComposeHeartbeat(w) ==
  /\ hb[w] = "asleep"
  /\ hb' = [hb EXCEPT ![w] = "sending"]
  /\ hb_job' = [hb_job EXCEPT ![w] = current[w]]
  /\ UNCHANGED <<rows, pc, current, leaving, remover, faults, claims>>

(* Mutation: an exception ends the loop.                                   *)
SendHeartbeatOnce(w) ==
  /\ hb[w] = "sending"
  /\ \/ Beat(IdOf[w], hb_job[w]) /\ hb' = [hb EXCEPT ![w] = "asleep"] /\ UNCHANGED faults
     \/ Fault("error") /\ hb' = [hb EXCEPT ![w] = "off"] /\ UNCHANGED rows
  /\ UNCHANGED <<pc, current, hb_job, leaving, remover, claims>>

SendHeartbeat(w) ==
  /\ hb[w] = "sending"
  /\ hb' = [hb EXCEPT ![w] = "asleep"]
  /\ \/ Beat(IdOf[w], hb_job[w]) /\ UNCHANGED faults
     \/ Fault("error") /\ UNCHANGED rows
  /\ UNCHANGED <<pc, current, hb_job, leaving, remover, claims>>

-------------------------------------------------------------------------------
(* Mutation: stop is called before the worker's task is cancelled.         *)
ShutdownUncancelled(w) ==
  /\ pc[w] # "off"
  /\ leaving[w] = "no"
  /\ Fault("shutdown")
  /\ leaving' = [leaving EXCEPT ![w] = "requested"]
  /\ UNCHANGED <<rows, pc, current, hb, hb_job, remover, claims>>

(* main.py's shutdown cancels the worker's task; a poll loop within try    *)
(* still runs the finally clause and its heartbeat, for which main does    *)
(* not wait: Worker.start ends with the first of its loops.                *)
Shutdown(w) ==
  /\ pc[w] # "off"
  /\ leaving[w] = "no"
  /\ Fault("shutdown")
  /\ Goto(w, IF pc[w] \in {"handler", "report"} THEN "last_heartbeat" ELSE "off")
  /\ current' = [current EXCEPT ![w] = IF pc[w] \in {"handler", "report"} THEN Null
                                       ELSE current[w]]
  /\ hb' = [hb EXCEPT ![w] = "off"]
  /\ leaving' = [leaving EXCEPT ![w] = "requested"]
  /\ UNCHANGED <<rows, hb_job, remover, claims>>

(* Nobody waits for it: it may come late, or find the pool closing.        *)
LastHeartbeat(w) ==
  /\ pc[w] = "last_heartbeat"
  /\ Beat(IdOf[w], Null) \/ UNCHANGED rows
  /\ Goto(w, "off")
  /\ UNCHANGED <<current, hb, hb_job, leaving, remover, faults, claims>>

Deregister(w) ==
  /\ leaving[w] = "requested"
  /\ registered' = [registered EXCEPT ![IdOf[w]] = FALSE]
  /\ leaving' = [leaving EXCEPT ![w] = "done"]
  /\ remover' = [remover EXCEPT ![IdOf[w]] = w]
  /\ UNCHANGED <<row_status, row_job, beat, pc, current, hb, hb_job, faults, claims>>

Crash(w) ==
  /\ pc[w] # "off" \/ leaving[w] = "requested"
  /\ Fault("crash")
  /\ Goto(w, "off")
  /\ current' = [current EXCEPT ![w] = Null]
  /\ hb' = [hb EXCEPT ![w] = "off"]
  /\ leaving' = [leaving EXCEPT ![w] = "no"]
  /\ UNCHANGED <<rows, hb_job, remover, claims>>

(* Thirty seconds without a heartbeat, for whatever reason.                *)
HeartbeatAges(id) ==
  /\ registered[id]
  /\ beat[id] = "recent"
  /\ beat' = [beat EXCEPT ![id] = "stale"]
  /\ UNCHANGED <<registered, row_status, row_job, pc, current, hb, hb_job, leaving,
                 remover, faults, claims>>

-------------------------------------------------------------------------------
PollLoop(w) ==
  \/ Register(w) \/ HeartbeatBusy(w) \/ GiveUp(w) \/ Report(w)
  \/ HeartbeatIdle(w) \/ LastHeartbeat(w)

HeartbeatLoop(w) == ComposeHeartbeat(w) \/ SendHeartbeat(w)

Next ==
  \/ \E w \in Worker :
       \/ Start(w) \/ PollLoop(w) \/ LeaveHandler(w) \/ HeartbeatLoop(w)
       \/ \E j \in Job : Claim(w, j)
       \/ Raise(w) \/ Crash(w) \/ Shutdown(w) \/ Deregister(w)
  \/ \E id \in WorkerId : HeartbeatAges(id)

Spec == Init /\ [][Next]_vars

(* Statements are answered and loops scheduled; handlers may take for ever *)
(* and the queue may stay empty.                                           *)
Fairness ==
  \A w \in Worker : WF_vars(PollLoop(w)) /\ WF_vars(HeartbeatLoop(w))

FairSpec == Spec /\ Fairness
-------------------------------------------------------------------------------
Namesakes(w) == {v \in Worker \ {w} : IdOf[v] = IdOf[w]}

(* Registered, and neither ended nor cancelled: the loops are meant to run. *)
Up(w) == pc[w] \notin {"off", "ended", "register", "last_heartbeat"}

(* A worker that runs has a row, whatever crashes, restarts, registers or  *)
(* deregisters beside it, unless another process with the same id was shut *)
(* down and deleted the row they share: the worker's own stop never takes  *)
(* the row from under its loops, as main.py cancels them first.            *)
LiveIsRegistered ==
  \A w \in Worker :
    Up(w) => registered[IdOf[w]] \/ remover[IdOf[w]] \in Namesakes(w)

(* Once stop has deleted the row for every worker that uses it, it stays   *)
(* deleted until one of them starts again, although the heartbeat of a     *)
(* finally clause may come later.                                          *)
StoppedIsGone ==
  \A w \in Worker :
    (\A v \in Namesakes(w) \cup {w} : leaving[v] = "done") => ~registered[IdOf[w]]

(* A worker that runs and keeps its row is not missing from the active     *)
(* workers of get_queue_stats for good: its heartbeat loop outlives        *)
(* heartbeats that raise, and makes an old one recent again.               *)
LiveIsShown ==
  \A w \in Worker :
    Up(w) ~> ~Up(w) \/ ~registered[IdOf[w]] \/ beat[IdOf[w]] = "recent"

(* What the row says of a worker's job, for good.                          *)
ShownAs(w, j) ==
  /\ row_job[IdOf[w]] = j
  /\ row_status[IdOf[w]] = IF j = Null THEN "idle" ELSE "busy"

(* Once _current_job stays what it is and no other worker uses the row,    *)
(* the row eventually agrees with it for good, although the two loops, and *)
(* a namesake's last heartbeat, may overwrite newer heartbeats with older  *)
(* ones; or the row is gone, deleted by a namesake that left.              *)
RegistryFollows ==
  \A w \in Worker : \A j \in Job \cup {Null} :
    <>[](/\ hb[w] # "off" /\ current[w] = j
         /\ \A v \in Namesakes(w) : pc[v] \in {"off", "ended"})
      => <>[](ShownAs(w, j) \/ ~registered[IdOf[w]])

(* A worker that stays in its poll loop without a job is eventually shown  *)
(* as idle for good.                                                       *)
IdleIsShown ==
  \A w \in Worker : <>[](pc[w] = "poll") => <>[]ShownAs(w, Null)
===============================================================================
