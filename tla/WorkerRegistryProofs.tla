------------------------- MODULE WorkerRegistryProofs -------------------------
(***************************************************************************)
(* The registry is right about live and stopped workers, for any number of *)
(* workers, any assignment of ids to them and whatever faults occur.  The  *)
(* invariant that carries it is LeavingIsOver: once stop may delete the    *)
(* row, nothing but the last heartbeat of the finally clause is left of    *)
(* the worker, and that is an UPDATE.                                      *)
(***************************************************************************)
EXTENDS WorkerRegistry, TLAPS

LeavingIsOver ==
  \A w \in Worker :
    leaving[w] # "no" => pc[w] \in {"off", "last_heartbeat"}

RegistryInv == LeavingIsOver /\ LiveIsRegistered /\ StoppedIsGone

-------------------------------------------------------------------------------
(* What the statements do to the rows of other ids, and to their own.      *)
LEMMA BeatRows ==
  ASSUME TypeOK, NEW id \in WorkerId, NEW j \in Job \cup {Null}, Beat(id, j)
  PROVE  /\ registered' = registered
         /\ row_status' \in [WorkerId -> {"idle", "busy"}]
         /\ row_job' \in [WorkerId -> Job \cup {Null}]
         /\ beat' \in [WorkerId -> {"recent", "stale"}]
BY DEF TypeOK, Beat, rows

LEMMA UpsertRows ==
  ASSUME TypeOK, NEW id \in WorkerId, Upsert(id)
  PROVE  /\ registered' = [registered EXCEPT ![id] = TRUE]
         /\ row_status' \in [WorkerId -> {"idle", "busy"}]
         /\ row_job' \in [WorkerId -> Job \cup {Null}]
         /\ beat' = [beat EXCEPT ![id] = "recent"]
BY DEF TypeOK, Upsert

(* The state is well typed, and a worker past claim_job has a current job. *)
THEOREM TypeCorrect == Spec => []TypeOK
<1> USE WorkerRegistryAssumption
<1>1. Init => TypeOK
  BY DEF Init, TypeOK
<1>2. TypeOK /\ [Next]_vars => TypeOK'
  <2> SUFFICES ASSUME TypeOK, [Next]_vars PROVE TypeOK'
    OBVIOUS
  <2>a. \A w \in Worker : IdOf[w] \in WorkerId
    OBVIOUS
  <2>1. ASSUME NEW w \in Worker, Start(w) PROVE TypeOK'
    BY <2>1 DEF TypeOK, Start, Goto, rows
  <2>2. ASSUME NEW w \in Worker, Register(w) PROVE TypeOK'
    <3>1. /\ registered' \in [WorkerId -> BOOLEAN]
          /\ row_status' \in [WorkerId -> {"idle", "busy"}]
          /\ row_job' \in [WorkerId -> Job \cup {Null}]
          /\ beat' \in [WorkerId -> {"recent", "stale"}]
      <4>1. Upsert(IdOf[w])
        BY <2>2 DEF Register
      <4>2. /\ registered' = [registered EXCEPT ![IdOf[w]] = TRUE]
            /\ row_status' \in [WorkerId -> {"idle", "busy"}]
            /\ row_job' \in [WorkerId -> Job \cup {Null}]
            /\ beat' = [beat EXCEPT ![IdOf[w]] = "recent"]
        BY <4>1, <2>a, UpsertRows
      <4> QED
        BY <4>2 DEF TypeOK
    <3> QED
      BY <2>2, <3>1 DEF TypeOK, Register, Goto, Fault
  <2>3. ASSUME NEW w \in Worker, HeartbeatBusy(w) PROVE TypeOK'
    <3>1. current[w] \in Job \cup {Null}
      BY DEF TypeOK
    <3> QED
      BY <2>3, <2>a, <3>1, BeatRows DEF TypeOK, HeartbeatBusy, Finish, Goto, Fault
  <2>4. ASSUME NEW w \in Worker, GiveUp(w) PROVE TypeOK'
    BY <2>4 DEF TypeOK, GiveUp, Goto, rows
  <2>5. ASSUME NEW w \in Worker, Report(w) PROVE TypeOK'
    BY <2>5 DEF TypeOK, Report, Goto, rows
  <2>6. ASSUME NEW w \in Worker, HeartbeatIdle(w) PROVE TypeOK'
    BY <2>6, <2>a, BeatRows DEF TypeOK, HeartbeatIdle, Finish, Goto, Fault
  <2>7. ASSUME NEW w \in Worker, LastHeartbeat(w) PROVE TypeOK'
    <3>1. CASE Beat(IdOf[w], Null)
      BY <2>7, <2>a, <3>1, BeatRows DEF TypeOK, LastHeartbeat, Goto
    <3>2. CASE UNCHANGED rows
      BY <2>7, <3>2 DEF TypeOK, LastHeartbeat, Goto, rows
    <3> QED
      BY <2>7, <3>1, <3>2 DEF LastHeartbeat
  <2>8. ASSUME NEW w \in Worker, LeaveHandler(w) PROVE TypeOK'
    BY <2>8 DEF TypeOK, LeaveHandler, Goto, rows
  <2>9. ASSUME NEW w \in Worker, ComposeHeartbeat(w) PROVE TypeOK'
    BY <2>9 DEF TypeOK, ComposeHeartbeat, rows
  <2>10. ASSUME NEW w \in Worker, SendHeartbeat(w) PROVE TypeOK'
    <3>1. hb_job[w] \in Job \cup {Null}
      BY DEF TypeOK
    <3>2. CASE Beat(IdOf[w], hb_job[w]) /\ UNCHANGED faults
      BY <2>10, <2>a, <3>1, <3>2, BeatRows DEF TypeOK, SendHeartbeat
    <3>3. CASE Fault("error") /\ UNCHANGED rows
      BY <2>10, <3>3 DEF TypeOK, SendHeartbeat, Fault, rows
    <3> QED
      BY <2>10, <3>2, <3>3 DEF SendHeartbeat
  <2>11. ASSUME NEW w \in Worker, NEW j \in Job, Claim(w, j) PROVE TypeOK'
    BY <2>11 DEF TypeOK, Claim, Goto, rows
  <2>12. ASSUME NEW w \in Worker, Raise(w) PROVE TypeOK'
    BY <2>12 DEF TypeOK, Raise, Fault, Goto, rows
  <2>13. ASSUME NEW w \in Worker, Crash(w) PROVE TypeOK'
    BY <2>13 DEF TypeOK, Crash, Fault, Goto, rows
  <2>14. ASSUME NEW w \in Worker, Shutdown(w) PROVE TypeOK'
    BY <2>14 DEF TypeOK, Shutdown, Fault, Goto, rows
  <2>15. ASSUME NEW w \in Worker, Deregister(w) PROVE TypeOK'
    BY <2>15, <2>a DEF TypeOK, Deregister
  <2>16. ASSUME NEW id \in WorkerId, HeartbeatAges(id) PROVE TypeOK'
    BY <2>16 DEF TypeOK, HeartbeatAges
  <2>17. CASE UNCHANGED vars
    BY <2>17 DEF TypeOK, vars, rows
  <2> QED
    BY <2>1, <2>2, <2>3, <2>4, <2>5, <2>6, <2>7, <2>8, <2>9, <2>10, <2>11, <2>12,
       <2>13, <2>14, <2>15, <2>16, <2>17 DEF Next, PollLoop, HeartbeatLoop
<1> QED
  BY <1>1, <1>2, PTL DEF Spec

(* RegistryInv is inductive.  Only Register makes a worker one that is up, *)
(* only Deregister deletes a row, and whoever deletes is not up itself: if *)
(* the row was that of a worker that is up, a namesake took it.            *)
LEMMA RegistryInvStep ==
  ASSUME TypeOK, RegistryInv, [Next]_vars
  PROVE  RegistryInv'
<1> USE WorkerRegistryAssumption
<1> USE DEF RegistryInv, LeavingIsOver, LiveIsRegistered, StoppedIsGone, Namesakes, Up
<1>a. \A w \in Worker : IdOf[w] \in WorkerId
  OBVIOUS
<1>1. ASSUME NEW w \in Worker, Start(w) PROVE RegistryInv'
  BY <1>1 DEF TypeOK, Start, Goto, rows
<1>2. ASSUME NEW w \in Worker, Register(w) PROVE RegistryInv'
  <2>1. registered' = [registered EXCEPT ![IdOf[w]] = TRUE]
    BY <1>2, <1>a, UpsertRows DEF Register
  <2>2. leaving[w] = "no" /\ UNCHANGED <<leaving, remover>>
    BY <1>2 DEF Register
  <2>3. LeavingIsOver'
    BY <1>2, <2>2 DEF TypeOK, Register, Goto
  <2>4. LiveIsRegistered'
    BY <1>2, <1>a, <2>1, <2>2 DEF TypeOK, Register, Goto
  <2>5. StoppedIsGone'
    BY <1>a, <2>1, <2>2 DEF TypeOK
  <2> QED
    BY <2>3, <2>4, <2>5
<1>3. ASSUME NEW w \in Worker, UNCHANGED <<registered, leaving, remover>>,
             \/ UNCHANGED pc
             \/ pc[w] \in {"heartbeat_busy", "heartbeat_idle"}
                /\ \E to \in {"handler", "give_up", "poll"} : Goto(w, to)
             \/ pc[w] = "last_heartbeat" /\ Goto(w, "off")
      PROVE  RegistryInv'
  BY <1>3 DEF TypeOK, Goto
<1>4. ASSUME NEW w \in Worker, HeartbeatBusy(w) PROVE RegistryInv'
  <2>1. current[w] \in Job \cup {Null}
    BY DEF TypeOK
  <2>2. registered' = registered
    BY <1>4, <1>a, <2>1, BeatRows DEF HeartbeatBusy
  <2> QED
    BY <1>4, <1>3, <2>2 DEF HeartbeatBusy, Finish
<1>5. ASSUME NEW w \in Worker, HeartbeatIdle(w) PROVE RegistryInv'
  <2>1. registered' = registered
    BY <1>5, <1>a, BeatRows DEF HeartbeatIdle
  <2> QED
    BY <1>5, <1>3, <2>1 DEF HeartbeatIdle, Finish
<1>6. ASSUME NEW w \in Worker, LastHeartbeat(w) PROVE RegistryInv'
  <2>1. registered' = registered
    BY <1>6, <1>a, BeatRows DEF LastHeartbeat, rows
  <2> QED
    BY <1>6, <1>3, <2>1 DEF LastHeartbeat
<1>7. ASSUME NEW w \in Worker, SendHeartbeat(w) PROVE RegistryInv'
  <2>1. hb_job[w] \in Job \cup {Null}
    BY DEF TypeOK
  <2>2. registered' = registered
    BY <1>7, <1>a, <2>1, BeatRows DEF SendHeartbeat, rows
  <2> QED
    BY <1>7, <1>3, <2>2 DEF SendHeartbeat
<1>8. ASSUME NEW w \in Worker,
             \/ GiveUp(w) \/ LeaveHandler(w) \/ Report(w) \/ ComposeHeartbeat(w)
             \/ Raise(w) \/ \E j \in Job : Claim(w, j)
      PROVE  RegistryInv'
  BY <1>8 DEF TypeOK, GiveUp, LeaveHandler, Report, ComposeHeartbeat, Raise, Claim, Goto, rows
<1>9. ASSUME NEW w \in Worker, Crash(w) PROVE RegistryInv'
  BY <1>9 DEF TypeOK, Crash, Goto, rows
<1>10. ASSUME NEW w \in Worker, Shutdown(w) PROVE RegistryInv'
  BY <1>10 DEF TypeOK, Shutdown, Goto, rows
<1>11. ASSUME NEW w \in Worker, Deregister(w) PROVE RegistryInv'
  <2>1. /\ ~Up(w) /\ UNCHANGED pc
        /\ registered' = [registered EXCEPT ![IdOf[w]] = FALSE]
        /\ remover' = [remover EXCEPT ![IdOf[w]] = w]
        /\ leaving' = [leaving EXCEPT ![w] = "done"]
    BY <1>11 DEF Deregister
  <2>2. LeavingIsOver'
    BY <1>11, <2>1 DEF TypeOK, Deregister
  <2>3. LiveIsRegistered'
    BY <1>a, <2>1 DEF TypeOK
  <2>4. StoppedIsGone'
    BY <1>a, <2>1 DEF TypeOK
  <2> QED
    BY <2>2, <2>3, <2>4
<1>12. ASSUME NEW id \in WorkerId, HeartbeatAges(id) PROVE RegistryInv'
  BY <1>12 DEF HeartbeatAges
<1>13. CASE UNCHANGED vars
  BY <1>13 DEF vars, rows
<1> QED
  BY <1>1, <1>2, <1>4, <1>5, <1>6, <1>7, <1>8, <1>9, <1>10, <1>11, <1>12, <1>13
     DEF Next, PollLoop, HeartbeatLoop

LEMMA RegistryInvHolds == Spec => []RegistryInv
<1>1. Init => RegistryInv
  BY DEF Init, RegistryInv, LeavingIsOver, LiveIsRegistered, StoppedIsGone, Up, Namesakes
<1>2. TypeOK /\ RegistryInv /\ [Next]_vars => RegistryInv'
  BY RegistryInvStep
<1> QED
  BY <1>1, <1>2, TypeCorrect, PTL DEF Spec

(* A worker that runs is registered unless a namesake's shutdown deleted   *)
(* the row, whichever workers share an id and whatever else they do.       *)
THEOREM LiveRegistered == Spec => []LiveIsRegistered
<1>1. RegistryInv => LiveIsRegistered
  BY DEF RegistryInv
<1> QED
  BY <1>1, RegistryInvHolds, PTL

(* No late heartbeat brings a row back that was deleted for every worker   *)
(* that used it.                                                           *)
THEOREM StoppedGone == Spec => []StoppedIsGone
<1>1. RegistryInv => StoppedIsGone
  BY DEF RegistryInv
<1> QED
  BY <1>1, RegistryInvHolds, PTL
===============================================================================
