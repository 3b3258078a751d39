------------------------ MODULE MetricsCollectorProofs ------------------------
(***************************************************************************)
(* Proofs about MetricsCollector for every buffer size and every number of *)
(* captures and errors: the types, and the four safety invariants of the   *)
(* run "collector".                                                        *)
(***************************************************************************)
EXTENDS MetricsCollector, SequenceTheorems, TLAPS

(* s is the last stretch of 1..n that fits into the buffer.                *)
IsLatest(s, n) ==
  /\ Len(s) = IF n < BufferSize THEN n ELSE BufferSize
  /\ \A i \in 1..Len(s) : s[i] = n - Len(s) + i

(* A picture as Look composes it.                                          *)
Agrees(p) ==
  /\ Consecutive(p.history)
  /\ p.snap = IF p.history = <<>> THEN 0 ELSE p.history[Len(p.history)]

PicturesAgree == Agrees(view) /\ Agrees(screen)

(* While an INSERT is under way its row is not in the table.               *)
RowsInv ==
  /\ RowsAscend
  /\ collector = "persist" => \A i \in 1..Len(rows) : rows[i] < captured

Inv == TypeOK /\ IsLatest(snapshots, captured) /\ PicturesAgree /\ RowsInv /\ GapsAreErrors

-------------------------------------------------------------------------------
LEMMA SnapshotsStay ==
  ASSUME NEW m \in Nat, NEW n \in Nat, m <= n, NEW s \in Seq(1..m)
  PROVE  s \in Seq(1..n)
<1>1. 1..m \subseteq 1..n
  OBVIOUS
<1> QED BY <1>1

(* What Push does with a buffer of the last snapshots.                     *)
LEMMA PushLatest ==
  ASSUME TypeOK, IsLatest(snapshots, captured)
  PROVE  /\ Push(captured + 1) \in Seq(1..captured + 1)
         /\ IsLatest(Push(captured + 1), captured + 1)
<1> DEFINE t == Append(snapshots, captured + 1)
           len == Len(snapshots)
<1>1. captured \in Nat /\ BufferSize \in Nat \ {0} /\ len \in Nat
  BY MetricsCollectorAssumption DEF TypeOK
<1>2. snapshots \in Seq(1..captured + 1)
  BY <1>1, SnapshotsStay DEF TypeOK, Snapshot
<1>3. /\ t \in Seq(1..captured + 1)
      /\ Len(t) = len + 1
      /\ \A i \in 1..len : t[i] = snapshots[i]
      /\ t[len + 1] = captured + 1
  BY <1>1, <1>2, AppendProperties
<1>4. Push(captured + 1) = IF Len(t) > BufferSize THEN Tail(t) ELSE t
  BY DEF Push
<1>5. /\ len = IF captured < BufferSize THEN captured ELSE BufferSize
      /\ \A i \in 1..len : snapshots[i] = captured - len + i
  BY DEF IsLatest
<1> HIDE DEF t, len
<1>6. ASSUME NEW i \in 1..Len(t) PROVE t[i] = captured - len + i
  <2>1. CASE i = len + 1
    BY <1>1, <1>3, <2>1
  <2>2. CASE i # len + 1
    <3>1. i \in 1..len
      BY <1>1, <1>3, <2>2
    <3> QED BY <1>3, <1>5, <3>1
  <2> QED BY <2>1, <2>2
<1>7. CASE Len(t) > BufferSize
  <2>1. /\ Tail(t) \in Seq(1..captured + 1)
        /\ Len(Tail(t)) = len
        /\ \A i \in 1..len : Tail(t)[i] = t[i + 1]
    <3>1. t # <<>>
      BY <1>1, <1>3
    <3>2. /\ Tail(t) \in Seq(1..captured + 1)
          /\ Len(Tail(t)) = Len(t) - 1
          /\ \A i \in 1..Len(Tail(t)) : Tail(t)[i] = t[i + 1]
      BY <1>3, <3>1, HeadTailProperties
    <3>3. Len(t) - 1 = len
      BY <1>1, <1>3
    <3> QED BY <3>2, <3>3
  <2>2. len = BufferSize /\ ~(captured + 1 < BufferSize)
    BY <1>1, <1>3, <1>5, <1>7
  <2>3. ASSUME NEW i \in 1..len PROVE Tail(t)[i] = captured + 1 - len + i
    <3>1. i + 1 \in 1..Len(t)
      BY <1>1, <1>3
    <3>2. t[i + 1] = captured - len + (i + 1)
      BY <1>6, <3>1
    <3>3. captured - len + (i + 1) = captured + 1 - len + i
      BY <1>1
    <3> QED BY <2>1, <3>2, <3>3
  <2>4. Len(Tail(t)) = IF captured + 1 < BufferSize THEN captured + 1 ELSE BufferSize
    BY <2>1, <2>2
  <2>5. \A i \in 1..Len(Tail(t)) : Tail(t)[i] = captured + 1 - Len(Tail(t)) + i
    BY <2>1, <2>3
  <2>6. IsLatest(Tail(t), captured + 1)
    <3> DEFINE u == Tail(t)
    <3>1. /\ Len(u) = IF captured + 1 < BufferSize THEN captured + 1 ELSE BufferSize
          /\ \A i \in 1..Len(u) : u[i] = captured + 1 - Len(u) + i
      BY <2>4, <2>5
    <3> HIDE DEF u
    <3>2. IsLatest(u, captured + 1)
      BY <1>1, <3>1 DEF IsLatest
    <3> QED BY <3>2 DEF u
  <2> QED BY <1>4, <1>7, <2>1, <2>6
<1>8. CASE ~(Len(t) > BufferSize)
  <2>1. len = captured /\ Len(t) = captured + 1 /\ captured + 1 <= BufferSize
    BY <1>1, <1>3, <1>5, <1>8
  <2>2. Len(t) = IF captured + 1 < BufferSize THEN captured + 1 ELSE BufferSize
    BY <1>1, <2>1
  <2>3. ASSUME NEW i \in 1..Len(t) PROVE t[i] = captured + 1 - Len(t) + i
    <3>1. t[i] = captured - len + i
      BY <1>6
    <3> QED BY <1>1, <2>1, <3>1
  <2>4. IsLatest(t, captured + 1)
    BY <1>1, <2>2, <2>3 DEF IsLatest
  <2> QED BY <1>3, <1>4, <1>8, <2>4
<1> QED BY <1>7, <1>8

LEMMA HistoryConsecutive ==
  ASSUME TypeOK, IsLatest(snapshots, captured)
  PROVE  Consecutive(snapshots)
<1> SUFFICES ASSUME NEW i \in 1..Len(snapshots) - 1
             PROVE  snapshots[i + 1] = snapshots[i] + 1
  BY DEF Consecutive
<1>1. captured \in Nat /\ Len(snapshots) \in Nat
  BY DEF TypeOK, Snapshot
<1>2. i \in 1..Len(snapshots) /\ i + 1 \in 1..Len(snapshots)
  BY <1>1
<1>3. /\ snapshots[i] = captured - Len(snapshots) + i
      /\ snapshots[i + 1] = captured - Len(snapshots) + (i + 1)
  BY <1>2 DEF IsLatest
<1> QED BY <1>1, <1>3

LEMMA LatestAgrees ==
  ASSUME TypeOK, IsLatest(snapshots, captured)
  PROVE  /\ [snap |-> latest, history |-> snapshots] \in Picture
         /\ Agrees([snap |-> latest, history |-> snapshots])
<1>1. captured \in Nat /\ snapshots \in Seq(1..captured)
  BY DEF TypeOK, Snapshot
<1>2. latest \in 0..captured
  BY <1>1 DEF latest
<1>3. Consecutive(snapshots)
  BY HistoryConsecutive
<1> QED BY <1>1, <1>2, <1>3 DEF Picture, Snapshot, Agrees, latest

LEMMA HistoryIsLatestHolds == TypeOK /\ IsLatest(snapshots, captured) => HistoryIsLatest
<1> SUFFICES ASSUME TypeOK, IsLatest(snapshots, captured) PROVE HistoryIsLatest
  OBVIOUS
<1>1. captured \in Nat /\ BufferSize \in Nat \ {0} /\ snapshots \in Seq(1..captured)
  BY MetricsCollectorAssumption DEF TypeOK, Snapshot
<1>2. Consecutive(snapshots)
  BY HistoryConsecutive
<1> QED BY <1>1, <1>2 DEF IsLatest, HistoryIsLatest

LEMMA InvInit == Init => Inv
BY MetricsCollectorAssumption
   DEF Init, Inv, TypeOK, Snapshot, Picture, IsLatest, PicturesAgree, Agrees, Consecutive,
       RowsInv, RowsAscend, GapsAreErrors

-------------------------------------------------------------------------------
LEMMA TypeStep == Inv /\ [Next]_vars => TypeOK'
<1> SUFFICES ASSUME Inv, [Next]_vars PROVE TypeOK'
  OBVIOUS
<1>0. /\ captured \in Nat
      /\ snapshots \in Seq(1..captured) /\ rows \in Seq(1..captured)
      /\ MaxErrors \in Nat /\ MaxCaptures \in Nat
  BY MetricsCollectorAssumption DEF Inv, TypeOK, Snapshot
<1>1. CASE Capture
  <2>1. captured' = captured + 1 /\ captured' \in 0..MaxCaptures
    BY <1>0, <1>1 DEF Capture, Inv, TypeOK
  <2>2. snapshots' \in Seq(1..captured') /\ Len(snapshots') <= BufferSize /\ snapshots' # <<>>
    <3>1. snapshots' \in Seq(1..captured') /\ IsLatest(snapshots', captured')
      BY <1>1, <2>1, PushLatest DEF Capture, Inv
    <3>2. Len(snapshots') = IF captured' < BufferSize THEN captured' ELSE BufferSize
      BY <3>1 DEF IsLatest
    <3> QED BY <1>0, <2>1, <3>1, <3>2, MetricsCollectorAssumption
  <2>3. rows' \in Seq(1..captured')
    BY <1>0, <1>1, <2>1, SnapshotsStay DEF Capture
  <2>4. \A p \in Picture : p \in [snap : 0..captured', history : Seq(1..captured')]
    BY <1>0, <2>1, SnapshotsStay DEF Picture, Snapshot
  <2> QED BY <1>1, <2>1, <2>2, <2>3, <2>4 DEF Capture, drawing, Inv, TypeOK, Snapshot, Picture
<1>2. CASE Persist \/ PersistFails \/ Shutdown
  <2>1. /\ collector = "persist" => captured \in 1..captured
        /\ collector = "persist" => Append(rows, captured) \in Seq(1..captured)
    BY <1>0 DEF Inv, TypeOK, Snapshot
  <2>2. rows' \in Seq(1..captured')
    BY <1>0, <1>2, <2>1 DEF Persist, PersistFails, Shutdown
  <2>3. CASE Persist
    BY <2>2, <2>3 DEF Persist, drawing, Inv, TypeOK, Snapshot, Picture
  <2>4. CASE PersistFails
    BY <1>0, <2>2, <2>4 DEF PersistFails, Error, drawing, Inv, TypeOK, Snapshot, Picture
  <2>5. CASE Shutdown
    BY <2>2, <2>5 DEF Shutdown, Inv, TypeOK, Snapshot, Picture
  <2> QED BY <1>2, <2>3, <2>4, <2>5
<1>3. CASE CaptureFails \/ Wake
  BY <1>0, <1>3 DEF CaptureFails, Wake, Error, drawing, Inv, TypeOK, Snapshot, Picture
<1>4. CASE Look
  BY <1>4, LatestAgrees DEF Look, collecting, Inv, TypeOK, Snapshot, Picture
<1>5. CASE GetRecentEvents \/ Draw \/ DrawFails
  BY <1>0, <1>5 DEF GetRecentEvents, Draw, DrawFails, Error, collecting,
                    Inv, TypeOK, Snapshot, Picture
<1>6. CASE UNCHANGED vars
  BY <1>6 DEF vars, collecting, drawing, Inv, TypeOK, Snapshot, Picture
<1> QED BY <1>1, <1>2, <1>3, <1>4, <1>5, <1>6 DEF Next, CollectorStep, DashboardStep

LEMMA HistoryStep == Inv /\ [Next]_vars => IsLatest(snapshots, captured)'
<1> SUFFICES ASSUME Inv, [Next]_vars PROVE IsLatest(snapshots, captured)'
  OBVIOUS
<1>1. CASE Capture
  <2>1. captured' = captured + 1 /\ snapshots' = Push(captured + 1)
    BY <1>1 DEF Capture
  <2> QED BY <2>1, PushLatest DEF Inv
<1>2. CASE UNCHANGED <<captured, snapshots>>
  BY <1>2 DEF Inv, IsLatest
<1> QED BY <1>1, <1>2
        DEF Next, CollectorStep, DashboardStep, CaptureFails, Persist, PersistFails, Wake, Look,
            GetRecentEvents, Draw, DrawFails, Shutdown, vars, collecting

LEMMA PicturesStep == Inv /\ [Next]_vars => PicturesAgree'
<1> SUFFICES ASSUME Inv, [Next]_vars PROVE PicturesAgree'
  OBVIOUS
<1>1. CASE Look
  BY <1>1, LatestAgrees DEF Look, Inv, PicturesAgree
<1>2. CASE Draw
  BY <1>2 DEF Draw, Inv, PicturesAgree
<1>3. CASE UNCHANGED <<view, screen>>
  BY <1>3 DEF Inv, PicturesAgree
<1> QED BY <1>1, <1>2, <1>3
        DEF Next, CollectorStep, DashboardStep, Capture, CaptureFails, Persist, PersistFails,
            Wake, GetRecentEvents, DrawFails, Shutdown, vars, drawing

(* Appending the row under way keeps the table ascending.                  *)
LEMMA RowsStep == Inv /\ [Next]_vars => RowsInv'
<1> SUFFICES ASSUME Inv, [Next]_vars PROVE RowsInv'
  OBVIOUS
<1>0. captured \in Nat /\ rows \in Seq(1..captured)
  BY DEF Inv, TypeOK, Snapshot
<1>1. CASE Capture
  <2>1. \A i \in 1..Len(rows) : rows[i] < captured + 1
    BY <1>0
  <2> QED BY <1>1, <2>1 DEF Capture, Inv, RowsInv, RowsAscend
<1>2. CASE Persist \/ PersistFails \/ Shutdown
  <2>1. collector' # "persist"
    BY <1>2 DEF Persist, PersistFails, Shutdown
  <2>2. CASE rows' = rows
    BY <2>1, <2>2 DEF Inv, RowsInv, RowsAscend
  <2>3. CASE rows' # rows
    <3>1. collector = "persist" /\ rows' = Append(rows, captured)
      BY <1>2, <2>3 DEF Persist, PersistFails, Shutdown
    <3>2. /\ Len(rows') = Len(rows) + 1
          /\ \A i \in 1..Len(rows) : rows'[i] = rows[i]
          /\ rows'[Len(rows) + 1] = captured
      BY <1>0, <3>1
    <3>3. Len(rows) \in Nat
      BY <1>0
    <3>4. RowsAscend'
      BY <3>1, <3>2, <3>3 DEF Inv, RowsInv, RowsAscend
    <3> QED BY <2>1, <3>4 DEF RowsInv
  <2> QED BY <2>2, <2>3
<1>3. CASE UNCHANGED <<rows, captured>> /\ (collector' = "persist" => collector = "persist")
  BY <1>3 DEF Inv, RowsInv, RowsAscend
<1> QED BY <1>1, <1>2, <1>3
        DEF Next, CollectorStep, DashboardStep, CaptureFails, Wake, Look, GetRecentEvents,
            Draw, DrawFails, vars, collecting

LEMMA GapsStep == Inv /\ [Next]_vars => GapsAreErrors'
<1> SUFFICES ASSUME Inv, [Next]_vars PROVE GapsAreErrors'
  OBVIOUS
<1>0. captured \in Nat /\ rows \in Seq(1..captured) /\ errors \in Nat /\ insert_errors \in Nat
  BY MetricsCollectorAssumption DEF Inv, TypeOK, Snapshot
<1>1. Len(rows) \in Nat /\ Len(Append(rows, captured)) = Len(rows) + 1
  BY <1>0
<1>2. CASE Persist \/ PersistFails \/ Shutdown
  BY <1>0, <1>1, <1>2 DEF Persist, PersistFails, Shutdown, Error, Inv, GapsAreErrors
<1>3. CASE Capture \/ CaptureFails \/ Wake
  BY <1>0, <1>1, <1>3 DEF Capture, CaptureFails, Wake, Error, Inv, GapsAreErrors
<1>4. CASE DashboardStep \/ UNCHANGED vars
  BY <1>0, <1>1, <1>4 DEF DashboardStep, Look, GetRecentEvents, Draw, DrawFails, Error,
                          vars, collecting, Inv, GapsAreErrors
<1> QED BY <1>2, <1>3, <1>4 DEF Next, CollectorStep

LEMMA InvNext == Inv /\ [Next]_vars => Inv'
BY TypeStep, HistoryStep, PicturesStep, RowsStep, GapsStep DEF Inv

-------------------------------------------------------------------------------
(* The state of the two tasks is well typed; the buffer never outgrows     *)
(* BUFFER_SIZE.                                                            *)
THEOREM TypeCorrect == Spec => []TypeOK
<1>1. Inv => TypeOK
  BY DEF Inv
<1> QED BY <1>1, InvInit, InvNext, PTL DEF Spec

(* The ring buffer is always the latest stretch of the captures.           *)
THEOREM HistoryLatest == Spec => []HistoryIsLatest
<1>1. Inv => HistoryIsLatest
  BY HistoryIsLatestHolds DEF Inv
<1> QED BY <1>1, InvInit, InvNext, PTL DEF Spec

(* Panels and sparklines never disagree, however the awaits interleave.    *)
THEOREM ScreenConsistent == Spec => []ScreenAgrees
<1>1. Inv => ScreenAgrees
  BY DEF Inv, PicturesAgree, Agrees, ScreenAgrees
<1> QED BY <1>1, InvInit, InvNext, PTL DEF Spec

(* No row of metrics_snapshots is a duplicate or out of order.             *)
THEOREM RowsOrdered == Spec => []RowsAscend
<1>1. Inv => RowsAscend
  BY DEF Inv, RowsInv
<1> QED BY <1>1, InvInit, InvNext, PTL DEF Spec

(* Every snapshot missing in metrics_snapshots has its exception.          *)
THEOREM GapsAccounted == Spec => []GapsAreErrors
<1>1. Inv => GapsAreErrors
  BY DEF Inv
<1> QED BY <1>1, InvInit, InvNext, PTL DEF Spec
===============================================================================
