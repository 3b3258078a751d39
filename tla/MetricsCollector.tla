--------------------------- MODULE MetricsCollector ---------------------------
(***************************************************************************)
(* metrics.py and dashboard.py inside main.py: the collector captures      *)
(* snapshots into a ring buffer and then inserts each into the table       *)
(* metrics_snapshots; the dashboard looks at the buffer, awaits two        *)
(* queries, and draws what it saw before them.  The two run in one event   *)
(* loop: a step reaches from one await to the next.  A snapshot is the     *)
(* number of its capture; the figures in it are PrometheusExporter's       *)
(* business.                                                               *)
(***************************************************************************)
EXTENDS Naturals, Sequences

CONSTANTS
  BufferSize,     \* BUFFER_SIZE
  MaxCaptures,    \* bound on the snapshots captured
  MaxErrors       \* bound on the statements that raise

ASSUME MetricsCollectorAssumption ==
  /\ BufferSize \in Nat \ {0}
  /\ MaxCaptures \in Nat
  /\ MaxErrors \in Nat

VARIABLES
  captured,     \* snapshots captured so far
  snapshots,    \* _snapshots
  rows,         \* the table metrics_snapshots
  collector,    \* what MetricsCollector.start awaits
  dash,         \* what Dashboard.run awaits
  view,         \* its locals snap and history
  screen,       \* the snap and history last drawn; snap 0 is "Waiting ..."
  insert_errors,\* INSERTs that raised so far
  errors        \* statements that raised so far

collecting == <<captured, snapshots, rows, collector, insert_errors>>
drawing == <<dash, view, screen>>
vars == <<collecting, drawing, errors>>

Snapshot == 1..captured
Picture == [snap : 0..captured, history : Seq(Snapshot)]

TypeOK ==
  /\ captured \in 0..MaxCaptures
  /\ snapshots \in Seq(Snapshot) /\ Len(snapshots) <= BufferSize
  /\ rows \in Seq(Snapshot)
  /\ collector \in {"capture", "persist", "sleep", "done"}
  /\ collector = "persist" => snapshots # <<>>
  /\ dash \in {"workers", "events", "sleep", "done"}
  /\ view \in Picture
  /\ screen \in Picture
  /\ insert_errors \in 0..errors
  /\ errors \in 0..MaxErrors

Init ==
  /\ captured = 0
  /\ snapshots = <<>>
  /\ rows = <<>>
  /\ collector = "capture"
  /\ dash = "sleep"
  /\ view = [snap |-> 0, history |-> <<>>]
  /\ screen = view
  /\ insert_errors = 0
  /\ errors = 0

latest == IF snapshots = <<>> THEN 0 ELSE snapshots[Len(snapshots)]

(* A statement raises an exception.                                        *)
Error == errors < MaxErrors /\ errors' = errors + 1

-------------------------------------------------------------------------------
(* Mutations: the buffer grows one too long, or loses its newest entry.    *)
PushLate(snap) ==
  LET s == Append(snapshots, snap) IN IF Len(s) > BufferSize + 1 THEN Tail(s) ELSE s
PushPoppingNewest(snap) ==
  LET s == Append(snapshots, snap)
  IN IF Len(s) > BufferSize /\ BufferSize > 1 THEN snapshots ELSE s

(* append, and pop(0) when that makes the buffer too long.                 *)
Push(snap) ==
  LET s == Append(snapshots, snap) IN IF Len(s) > BufferSize THEN Tail(s) ELSE s

(* get_queue_stats answers.                                                *)
Capture ==
  /\ collector = "capture"
  /\ captured < MaxCaptures
  /\ captured' = captured + 1
  /\ snapshots' = Push(captured + 1)
  /\ collector' = "persist"
  /\ UNCHANGED <<rows, drawing, insert_errors, errors>>

CaptureFails ==
  /\ collector = "capture"
  /\ Error
  /\ collector' = "sleep"
  /\ UNCHANGED <<captured, snapshots, rows, drawing, insert_errors>>

(* Mutation: rows are written once the buffer is full.                     *)
PersistWhenFull ==
  /\ collector = "persist"
  /\ rows' = IF Len(snapshots) = BufferSize THEN Append(rows, captured) ELSE rows
  /\ collector' = "sleep"
  /\ UNCHANGED <<captured, snapshots, drawing, insert_errors, errors>>

Persist ==
  /\ collector = "persist"
  /\ rows' = Append(rows, captured)
  /\ collector' = "sleep"
  /\ UNCHANGED <<captured, snapshots, drawing, insert_errors, errors>>

(* Mutation: a failed INSERT is tried again.                               *)
PersistFailsAndRetries ==
  /\ collector = "persist"
  /\ Error /\ insert_errors' = insert_errors + 1
  /\ rows' \in {rows, Append(rows, captured)}
  /\ UNCHANGED <<captured, snapshots, collector, drawing>>

(* The INSERT raises, with or without effect; nothing tries it again.      *)
PersistFails ==
  /\ collector = "persist"
  /\ Error /\ insert_errors' = insert_errors + 1
  /\ rows' \in {rows, Append(rows, captured)}
  /\ collector' = "sleep"
  /\ UNCHANGED <<captured, snapshots, drawing>>

Wake ==
  /\ collector = "sleep"
  /\ collector' = "capture"
  /\ UNCHANGED <<captured, snapshots, rows, drawing, insert_errors, errors>>

-------------------------------------------------------------------------------
(* The dashboard reads latest and a copy of the buffer, then awaits        *)
(* get_all_workers.                                                        *)
Look ==
  /\ dash = "sleep"
  /\ dash' = "workers"
  /\ view' = [snap |-> latest, history |-> snapshots]
  /\ UNCHANGED <<collecting, screen, errors>>

GetRecentEvents ==
  /\ dash = "workers"
  /\ dash' = "events"
  /\ UNCHANGED <<collecting, view, screen, errors>>

(* Mutation: history is the collector's own list, not a copy.              *)
DrawShared ==
  /\ dash = "events"
  /\ dash' = "sleep"
  /\ screen' = [view EXCEPT !.history = snapshots]
  /\ UNCHANGED <<collecting, view, errors>>

Draw ==
  /\ dash = "events"
  /\ dash' = "sleep"
  /\ screen' = view
  /\ UNCHANGED <<collecting, view, errors>>

(* Mutation: the exception ends the loop.                                  *)
DrawFailsForGood ==
  /\ dash \in {"workers", "events"}
  /\ Error
  /\ dash' = "done"
  /\ UNCHANGED <<collecting, view, screen>>

(* One of the two queries raises: the old picture stays.                   *)
DrawFails ==
  /\ dash \in {"workers", "events"}
  /\ Error
  /\ dash' = "sleep"
  /\ UNCHANGED <<collecting, view, screen>>

(* main cancels its tasks; an INSERT under way may still take effect.      *)
Shutdown ==
  /\ collector # "done"
  /\ collector' = "done"
  /\ dash' = "done"
  /\ \/ rows' = rows
     \/ collector = "persist" /\ rows' = Append(rows, captured)
  /\ UNCHANGED <<captured, snapshots, view, screen, insert_errors, errors>>

-------------------------------------------------------------------------------
CollectorStep == Capture \/ CaptureFails \/ Persist \/ PersistFails \/ Wake
DashboardStep == Look \/ GetRecentEvents \/ Draw \/ DrawFails

Next == CollectorStep \/ DashboardStep \/ Shutdown

(* The event loop resumes both tasks once their statements are answered.   *)
Spec == Init /\ [][Next]_vars /\ WF_vars(CollectorStep) /\ WF_vars(DashboardStep)

-------------------------------------------------------------------------------
Consecutive(s) == \A i \in 1..Len(s) - 1 : s[i + 1] = s[i] + 1

(* The ring buffer holds the last snapshots captured, in order and without *)
(* a hole: all of them, or BUFFER_SIZE.                                    *)
HistoryIsLatest ==
  /\ Len(snapshots) = IF captured < BufferSize THEN captured ELSE BufferSize
  /\ Consecutive(snapshots)
  /\ captured > 0 => snapshots[Len(snapshots)] = captured

(* The status panels (snap) and the sparklines (history) on one screen     *)
(* show the same moment, although the collector runs between the queries   *)
(* the dashboard awaits: the sparkline ends with snap.                     *)
ScreenAgrees ==
  LET h == screen.history
  IN  /\ Consecutive(h)
      /\ screen.snap = IF h = <<>> THEN 0 ELSE h[Len(h)]

(* metrics_snapshots never holds a snapshot twice or out of order,         *)
(* although an INSERT that raises may have taken effect.                   *)
RowsAscend == \A i \in 1..Len(rows) - 1 : rows[i] < rows[i + 1]

(* Each snapshot missing in the table is accounted for by an INSERT of its *)
(* own that raised, or is the one whose INSERT is under way or was cut off *)
(* by the shutdown: a failed capture or drawing costs no row.              *)
GapsAreErrors ==
  captured - Len(rows)
    <= insert_errors + (IF collector \in {"persist", "done"} THEN 1 ELSE 0)

(* A snapshot, or a later one, eventually reaches the screen, unless the   *)
(* program is shut down first.                                             *)
ScreenFollows ==
  \A n \in 1..MaxCaptures : captured = n ~> (screen.snap >= n \/ collector = "done")
===============================================================================
