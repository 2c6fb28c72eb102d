-------------------------- MODULE WatchRunsProofs --------------------------
(***************************************************************************)
(* TLAPS proofs about WatchRuns, for every value of its constants: the      *)
(* pipeline never forgets an unfinished run, active_marker is an exclusive  *)
(* lock that only unfinished runs hold, and while deliveries of a run do    *)
(* not overlap its result is what its sources did and stays so.             *)
(***************************************************************************)
EXTENDS WatchRuns, FiniteSetTheorems, TLAPS

-----------------------------------------------------------------------------
(* Rows and workers *)

LEMMA RowType ==
    ASSUME TypeOK, NEW r \in Run, Exists(r)
    PROVE  run[r] \in RunRow
BY DEF TypeOK, Exists, Unused, Deleted, ActiveStatus, TerminalStatus

LEMMA BusyType ==
    ASSUME TypeOK, NEW k \in Worker, worker[k].pc \notin {"idle", "ack"}
    PROVE  worker[k] \in Busy
BY DEF TypeOK, Idle, Acking

LEMMA AckType ==
    ASSUME TypeOK, NEW k \in Worker, worker[k].pc = "ack"
    PROVE  worker[k] \in Acking
BY DEF TypeOK, Idle, Busy

LEMMA HolderType ==
    ASSUME TypeOK, NEW k \in Worker, worker[k] # Idle
    PROVE  /\ worker[k].pc # "idle"
           /\ worker[k].run \in Run
           /\ worker[k].copy \in Copy
BY DEF TypeOK, Busy, Acking

LEMMA NotIdle ==
    ASSUME NEW k \in Worker, worker[k].pc # "idle"
    PROVE  worker[k] # Idle
BY DEF Idle

LEMMA NewRowType ==
    ASSUME NEW w \in Watch, NEW d \in Day \cup {0}
    PROVE  /\ NewRow(w, d) \in RunRow
           /\ NewRow(w, d).status \in ActiveStatus
           /\ NewRow(w, d).watch = w
           /\ NewRow(w, d).marker
BY DEF NewRow, RunRow, ActiveStatus

LEMMA FlushType ==
    ASSUME NEW row \in RunRow, NEW seen \in RunRow, NEW new \in RunRow
    PROVE  /\ Flush(row, seen, new) \in RunRow
           /\ Flush(row, seen, new).watch = row.watch
           /\ Flush(row, seen, new).status = Merge(row.status, seen.status, new.status)
           /\ Flush(row, seen, new).marker = Merge(row.marker, seen.marker, new.marker)
<1>1. Flush(row, seen, new) \in RunRow
  BY DEF Flush, Merge, RunRow
<1>2. QED
  BY <1>1 DEF Flush

\* A flush that does not touch the marker.
LEMMA WriteType ==
    ASSUME NEW row \in RunRow, NEW seen \in RunRow, NEW new \in RunRow,
           new.marker = seen.marker
    PROVE  /\ Flush(row, seen, new) \in RunRow
           /\ Flush(row, seen, new).watch = row.watch
           /\ Flush(row, seen, new).marker = row.marker
           /\ Flush(row, seen, new).status \in {row.status, new.status}
           /\ new.status = seen.status => Flush(row, seen, new).status = row.status
BY FlushType DEF Merge

LEMMA SettledType ==
    ASSUME NEW row \in RunRow
    PROVE  /\ Settled(row) \in RunRow
           /\ Settled(row).status \in TerminalStatus
           /\ Settled(row).marker = FALSE
BY DEF Settled, RunRow, TerminalStatus

-----------------------------------------------------------------------------
(* Steps that leave runs, messages and workers alone *)

LEMMA FrameStep ==
    ASSUME IInv, TypeOK', UNCHANGED <<run, event, copy, receives, worker>>
    PROVE  IInv'
<1>1. ReceivesLeft'
  BY DEF IInv, ReceivesLeft
<1>2. HoldsItsMessage'
  BY DEF IInv, HoldsItsMessage
<1>3. ActiveIsOwed'
  BY DEF IInv, ActiveIsOwed, Active, Exists, WillSettle
<1>4. SeenMarkerIsReleased'
  BY DEF IInv, SeenMarkerIsReleased, Exists
<1>5. LockDiscipline'
  BY DEF IInv, LockDiscipline, Exists
<1>6. WorksOnAnInsertedRun'
  BY DEF IInv, WorksOnAnInsertedRun
<1>7. QED
  BY <1>1, <1>2, <1>3, <1>4, <1>5, <1>6 DEF IInv

LEMMA SetStatusStep ==
    ASSUME IInv, NEW w \in Watch, NEW from \in SUBSET WatchStatus, NEW to \in WatchStatus,
           SetStatus(w, from, to)
    PROVE  IInv'
<1>1. TypeOK'
  BY DEF IInv, TypeOK, SetStatus, queueVars
<1>2. QED
  BY <1>1, FrameStep DEF SetStatus, queueVars

LEMMA SourcesStep ==
    ASSUME IInv, NEW w \in Watch, NEW S \in SUBSET Source,
           Replace(w, S) \/ ImportSources(w, S)
    PROVE  IInv'
<1>1. sources' \in [Watch -> [Source -> {"NEW", "CURRENT", "REMOVED"}]]
  <2>1. CASE Replace(w, S)
    BY <2>1 DEF IInv, TypeOK, Replace
  <2>2. CASE ImportSources(w, S)
    BY <2>2 DEF IInv, TypeOK, ImportSources
  <2>3. QED
    BY <2>1, <2>2
<1>2. TypeOK'
  BY <1>1 DEF IInv, TypeOK, Replace, ImportSources, queueVars
<1>3. QED
  BY <1>2, FrameStep DEF Replace, ImportSources, queueVars

LEMMA ClickStep ==
    ASSUME IInv, NEW w \in Watch, CheckManualRun(w) \/ RejectManualRun(w)
    PROVE  IInv'
<1>1. clicks' \in [Watch -> 0..MaxClicks]
  BY ConstantsAssumption DEF IInv, TypeOK, CheckManualRun, RejectManualRun
<1>2. TypeOK'
  BY <1>1 DEF IInv, TypeOK, CheckManualRun, RejectManualRun, dbVars, queueVars
<1>3. QED
  BY <1>2, FrameStep DEF CheckManualRun, RejectManualRun, dbVars, queueVars

-----------------------------------------------------------------------------
(* Deleting a Watch *)

LEMMA DeleteStep ==
    ASSUME IInv, NEW w \in Watch, Delete(w)
    PROVE  IInv'
<1>1. TypeOK'
  <2>1. watch' \in [Watch -> WatchStatus]
    BY DEF IInv, TypeOK, Delete, WatchStatus
  <2>2. sources' \in [Watch -> [Source -> {"NEW", "CURRENT", "REMOVED"}]]
    BY DEF IInv, TypeOK, Delete
  <2>3. run' \in [Run -> RunRow \cup {Unused, Deleted}]
    BY DEF IInv, TypeOK, Delete
  <2>4. fetch' \in [Run -> [Source -> FetchStatus]]
    BY DEF IInv, TypeOK, Delete, FetchStatus
  <2>5. event' \in [Run -> {"NONE", "UNPUBLISHED", "PUBLISHED"}]
    BY DEF IInv, TypeOK, Delete
  <2>6. QED
    BY <2>1, <2>2, <2>3, <2>4, <2>5 DEF IInv, TypeOK, Delete, queueVars
<1>2. \A r \in Run : Exists(r)' => Exists(r) /\ run'[r] = run[r] /\ event'[r] = event[r]
  BY DEF Delete, Exists, Deleted, ActiveStatus, TerminalStatus
<1>3. UNCHANGED <<copy, receives, worker>>
  BY DEF Delete, queueVars
<1>4. ReceivesLeft'
  BY <1>3 DEF IInv, ReceivesLeft
<1>5. HoldsItsMessage'
  BY <1>3 DEF IInv, HoldsItsMessage
<1>6. ActiveIsOwed'
  BY <1>2, <1>3 DEF IInv, ActiveIsOwed, Active, WillSettle
<1>7. SeenMarkerIsReleased'
  <2>1. \A k \in Worker : worker[k].pc \notin {"idle", "ack"} => worker[k].run \in Run
    BY BusyType DEF IInv, Busy
  <2>2. QED
    BY <1>2, <1>3, <2>1 DEF IInv, SeenMarkerIsReleased
<1>8. LockDiscipline'
  BY <1>2 DEF IInv, LockDiscipline
<1>9. WorksOnAnInsertedRun'
  <2>1. \A k \in Worker : worker[k].pc \notin {"idle", "ack"} => worker[k].run \in Run
    BY BusyType DEF IInv, Busy
  <2>2. \A r \in Run : run'[r] \in {Deleted, run[r]}
    BY DEF Delete
  <2>3. Deleted # Unused
    BY DEF Deleted, Unused
  <2>4. QED
    BY <1>3, <2>1, <2>2, <2>3 DEF IInv, WorksOnAnInsertedRun
<1>10. QED
  BY <1>1, <1>4, <1>5, <1>6, <1>7, <1>8, <1>9 DEF IInv

-----------------------------------------------------------------------------
(* Inserting a run *)

LEMMA InsertStep ==
    ASSUME IInv, NEW w \in Watch, NEW d \in Day \cup {0}, MarkerFree(w), Insert(w, d),
           clicks' \in [Watch -> 0..MaxClicks]
    PROVE  IInv'
<1> DEFINE new == NewRow(w, d)
<1>1. PICK q \in Run :
        /\ run[q] = Unused
        /\ run' = [run EXCEPT ![q] = new]
        /\ event' = [event EXCEPT ![q] = "UNPUBLISHED"]
        /\ UNCHANGED <<watch, sources, fetch, digest, copy, receives, worker, overlapped>>
  BY DEF Insert, queueVars
<1>2. new \in RunRow /\ new.status \in ActiveStatus /\ new.watch = w /\ new.marker
  BY NewRowType
<1> HIDE DEF new
<1>3. TypeOK'
  BY <1>1, <1>2 DEF IInv, TypeOK
<1>4. /\ run'[q] = new
      /\ event'[q] = "UNPUBLISHED"
      /\ \A r \in Run \ {q} : run'[r] = run[r] /\ event'[r] = event[r]
  BY <1>1 DEF IInv, TypeOK
<1>5. ~Exists(q)
  BY <1>1 DEF Exists, Unused, ActiveStatus, TerminalStatus
<1>6. ReceivesLeft'
  BY <1>1 DEF IInv, ReceivesLeft
<1>7. HoldsItsMessage'
  BY <1>1 DEF IInv, HoldsItsMessage
<1>8. ActiveIsOwed'
  BY <1>1, <1>4 DEF IInv, ActiveIsOwed, Active, Exists, WillSettle
<1>9. \A k \in Worker : worker[k].pc \notin {"idle", "ack"} =>
          worker[k].run \in Run /\ worker[k].run # q
  BY <1>1, BusyType DEF IInv, Busy, WorksOnAnInsertedRun
<1>10. SeenMarkerIsReleased'
  BY <1>1, <1>4, <1>9 DEF IInv, SeenMarkerIsReleased, Exists
<1>11. WorksOnAnInsertedRun'
  BY <1>1, <1>4, <1>9 DEF IInv, WorksOnAnInsertedRun
<1>12. LockDiscipline'
  BY <1>2, <1>4, <1>5 DEF IInv, LockDiscipline, Exists, MarkerFree, OnWatch
<1>13. QED
  BY <1>3, <1>6, <1>7, <1>8, <1>10, <1>11, <1>12 DEF IInv

-----------------------------------------------------------------------------
(* The pump *)

LEMMA SendStep ==
    ASSUME IInv, NEW r \in Run, Publish(r) \/ PublishUnmarked(r)
    PROVE  IInv'
<1>1. PICK c \in Copy :
        /\ copy[r][c] = "UNSENT"
        /\ copy' = [copy EXCEPT ![r][c] = "VISIBLE"]
        /\ UNCHANGED <<watch, sources, run, fetch, digest, receives, clicks, worker, overlapped>>
  BY DEF Publish, PublishUnmarked, Send
<1>2. event' = event \/ event' = [event EXCEPT ![r] = "PUBLISHED"]
  BY DEF Publish, PublishUnmarked
<1>3. /\ copy'[r][c] = "VISIBLE"
      /\ \A q \in Run, d \in Copy : q # r \/ d # c => copy'[q][d] = copy[q][d]
  BY <1>1 DEF IInv, TypeOK
<1>4. TypeOK'
  <2>1. copy' \in [Run -> [Copy -> CopyStatus]]
    BY <1>1 DEF IInv, TypeOK, CopyStatus
  <2>2. event' \in [Run -> {"NONE", "UNPUBLISHED", "PUBLISHED"}]
    BY <1>2 DEF IInv, TypeOK
  <2>3. QED
    BY <1>1, <2>1, <2>2 DEF IInv, TypeOK
<1>5. ReceivesLeft'
  BY <1>1, <1>3 DEF IInv, ReceivesLeft
<1>6. HoldsItsMessage'
  <2>1. \A k \in Worker : worker[k] # Idle =>
            worker[k].run \in Run /\ worker[k].copy \in Copy
    BY HolderType DEF IInv
  <2>2. QED
    BY <1>1, <1>3, <2>1 DEF IInv, HoldsItsMessage
<1>7. ActiveIsOwed'
  <2> SUFFICES ASSUME NEW q \in Run, Active(q)'
               PROVE  \/ event'[q] = "UNPUBLISHED"
                      \/ \E d \in Copy : copy'[q][d] \in {"VISIBLE", "DLQ"}
                      \/ \E k \in Worker : WillSettle(k, q)'
    BY DEF ActiveIsOwed
  <2>1. CASE q = r
    BY <1>3, <2>1
  <2>2. CASE q # r
    <3>1. Active(q) /\ event'[q] = event[q]
      BY <1>1, <1>2, <2>2 DEF IInv, TypeOK, Active, Exists
    <3>2. QED
      BY <1>1, <1>3, <2>2, <3>1 DEF IInv, ActiveIsOwed, WillSettle
  <2>3. QED
    BY <2>1, <2>2
<1>8. SeenMarkerIsReleased' /\ WorksOnAnInsertedRun' /\ LockDiscipline'
  BY <1>1 DEF IInv, SeenMarkerIsReleased, WorksOnAnInsertedRun, LockDiscipline, Exists
<1>9. QED
  BY <1>4, <1>5, <1>6, <1>7, <1>8 DEF IInv

-----------------------------------------------------------------------------
(* Steps of a worker that keeps its message *)

\* Worker k keeps its message and its run, and writes at most an active status
\* it will settle itself.
Progress(k) ==
    LET r == worker[k].run IN
    /\ worker[k].pc \notin {"idle", "ack"}
    /\ Exists(r)
    /\ worker'[k] \in Busy
    /\ worker'[k].run = r
    /\ worker'[k].copy = worker[k].copy
    /\ worker'[k].seen.marker \in {worker[k].seen.marker, run[r].marker}
    /\ \A j \in Worker \ {k} : worker'[j] = worker[j]
    /\ run'[r] \in RunRow
    /\ run'[r].watch = run[r].watch
    /\ run'[r].marker = run[r].marker
    /\ run'[r].status \in ActiveStatus \cup {run[r].status}
    /\ run'[r].status \in ActiveStatus =>
            \/ worker'[k].seen.status \in ActiveStatus
            \/ /\ run[r].status \in ActiveStatus
               /\ worker'[k].seen.status = worker[k].seen.status
    /\ \A q \in Run \ {r} : run'[q] = run[q]
    /\ UNCHANGED <<event, copy, receives>>

LEMMA ProgressStep ==
    ASSUME IInv, TypeOK', NEW k \in Worker, Progress(k)
    PROVE  IInv'
<1> DEFINE r   == worker[k].run
           w   == worker'[k]
           row == run'[r]
<1>1. r \in Run
  BY BusyType DEF IInv, Progress, Busy
<1>2. /\ w.run = r /\ w.copy = worker[k].copy
      /\ w.seen.marker \in {worker[k].seen.marker, run[r].marker}
      /\ \A j \in Worker \ {k} : worker'[j] = worker[j]
      /\ w.pc \notin {"idle", "ack"} /\ w # Idle
      /\ worker[k].pc \notin {"idle", "ack"} /\ worker[k] # Idle
  BY DEF Progress, Busy, Idle
<1>3. /\ \A q \in Run \ {r} : run'[q] = run[q]
      /\ row.status \in ActiveStatus \cup TerminalStatus
      /\ row # Unused
      /\ Exists(r) /\ Exists(r)'
  BY DEF Progress, RunRow, Unused, ActiveStatus, TerminalStatus, Exists
<1>4. /\ row.watch = run[r].watch /\ row.marker = run[r].marker
      /\ row.status \in ActiveStatus \cup {run[r].status}
      /\ row.status \in ActiveStatus =>
           \/ w.seen.status \in ActiveStatus
           \/ /\ run[r].status \in ActiveStatus
              /\ w.seen.status = worker[k].seen.status
  BY DEF Progress
<1>5. \A j \in Worker : worker[j].pc \notin {"idle", "ack"} => worker[j].run \in Run
  BY BusyType DEF IInv, Busy
<1> UNCHANGED <<event, copy, receives>>
  BY DEF Progress
<1> HIDE DEF r, w, row
<1>6. ReceivesLeft'
  BY DEF IInv, ReceivesLeft
<1>7. HoldsItsMessage'
  BY <1>2 DEF IInv, HoldsItsMessage, r, w
<1>8. ActiveIsOwed'
  <2> SUFFICES ASSUME NEW q \in Run, Active(q)'
               PROVE  \/ event[q] = "UNPUBLISHED"
                      \/ \E c \in Copy : copy[q][c] \in {"VISIBLE", "DLQ"}
                      \/ \E j \in Worker : WillSettle(j, q)'
    BY DEF ActiveIsOwed
  <2>1. CASE q = r /\ w.seen.status \in ActiveStatus
    BY <1>2, <2>1 DEF WillSettle, w
  <2>2. CASE q = r /\ w.seen.status \notin ActiveStatus
    <3>1. row.status \in ActiveStatus
      BY <2>2 DEF Active, row
    <3>2. run[r].status \in ActiveStatus /\ w.seen.status = worker[k].seen.status
      BY <1>4, <2>2, <3>1
    <3>3. Active(r)
      BY <1>3, <3>2 DEF Active
    <3>4. \A j \in Worker : WillSettle(j, r) => j # k
      BY <2>2, <3>2 DEF WillSettle
    <3>5. QED
      BY <1>2, <2>2, <3>3, <3>4 DEF IInv, ActiveIsOwed, WillSettle
  <2>3. CASE q # r
    <3>1. Active(q)
      BY <1>3, <2>3 DEF Active, Exists
    <3>2. \A j \in Worker : WillSettle(j, q) => j # k
      BY <2>3 DEF WillSettle, r
    <3>3. QED
      BY <1>2, <3>1, <3>2 DEF IInv, ActiveIsOwed, WillSettle
  <2>4. QED
    BY <2>1, <2>2, <2>3
<1>9. SeenMarkerIsReleased'
  <2> SUFFICES ASSUME NEW j \in Worker, worker'[j].pc \notin {"idle", "ack"},
                      Exists(worker[j].run)', ~worker'[j].seen.marker
               PROVE  ~run'[worker'[j].run].marker
    BY DEF SeenMarkerIsReleased
  <2>1. CASE j = k
    <3>1. worker[k].seen.marker = FALSE => ~run[r].marker
      BY <1>2, <1>3 DEF IInv, SeenMarkerIsReleased, r
    <3>2. ~w.seen.marker /\ worker'[j].run = r
      BY <1>2, <2>1 DEF w
    <3>3. ~run[r].marker
      BY <1>2, <3>1, <3>2
    <3>4. QED
      BY <1>4, <3>2, <3>3 DEF row
  <2>2. CASE j # k
    <3>1. worker'[j] = worker[j] /\ worker[j].run \in Run
      BY <1>2, <1>5, <2>2
    <3>2. Exists(worker[j].run)
      BY <1>3, <3>1 DEF Exists
    <3>3. ~run[worker[j].run].marker
      BY <3>1, <3>2 DEF IInv, SeenMarkerIsReleased
    <3>4. QED
      BY <1>3, <1>4, <3>1, <3>3 DEF row
  <2>3. QED
    BY <2>1, <2>2
<1>10. WorksOnAnInsertedRun'
  BY <1>2, <1>3, <1>5 DEF IInv, WorksOnAnInsertedRun, r, w, row
<1>11. LockDiscipline'
  <2>1. \A q \in Run :
            /\ Exists(q)' => Exists(q)
            /\ run'[q].marker = run[q].marker
            /\ run'[q].watch = run[q].watch
            /\ run'[q].status \in ActiveStatus \cup {run[q].status}
    BY <1>3, <1>4 DEF Exists, row
  <2>2. QED
    BY <2>1 DEF IInv, LockDiscipline
<1>12. QED
  BY <1>6, <1>7, <1>8, <1>9, <1>10, <1>11 DEF IInv

\* What a worker at a program point holds.
LEMMA AtType ==
    ASSUME IInv, NEW k \in Worker,
           NEW p \in {"loaded", "next", "source", "failing", "pending"}, At(k, p)
    PROVE  /\ worker[k].pc \notin {"idle", "ack"}
           /\ worker[k] \in Busy
           /\ worker[k].run \in Run
           /\ Exists(worker[k].run)
           /\ run[worker[k].run] \in RunRow
<1>1. worker[k].pc \notin {"idle", "ack"}
  BY DEF At
<1>2. worker[k] \in Busy
  BY <1>1, BusyType DEF IInv
<1>3. worker[k].run \in Run /\ Exists(worker[k].run)
  BY <1>2 DEF At, Busy
<1>4. QED
  BY <1>1, <1>2, <1>3, RowType DEF IInv

LEMMA StartStep ==
    ASSUME IInv, NEW k \in Worker, Start(k)
    PROVE  IInv'
<1> DEFINE r    == worker[k].run
           seen == worker[k].seen
           new  == [seen EXCEPT !.status = "RUNNING"]
           w    == [worker[k] EXCEPT !.pc = "next", !.seen = new]
           row  == Flush(run[r], seen, new)
<1>1. /\ worker[k].pc \notin {"idle", "ack"}
      /\ worker[k] \in Busy
      /\ r \in Run /\ Exists(r) /\ run[r] \in RunRow
  BY AtType DEF Start
<1>2. seen \in RunRow /\ new \in RunRow
  BY <1>1 DEF Busy, RunRow, ActiveStatus
<1>3. w \in Busy /\ w.run = r /\ w.copy = worker[k].copy /\ w.seen = new
  BY <1>1, <1>2 DEF Busy
<1>4. /\ row \in RunRow
      /\ row.watch = run[r].watch
      /\ row.marker = run[r].marker
      /\ row.status \in {"RUNNING", run[r].status}
  <2>1. new.marker = seen.marker /\ new.status = "RUNNING"
    BY <1>2 DEF RunRow
  <2> HIDE DEF r, seen, new
  <2>2. QED
    BY <1>1, <1>2, <2>1, WriteType
<1>5. run' = [run EXCEPT ![r] = row] /\ worker' = [worker EXCEPT ![k] = w]
  BY <1>1 DEF Start, Persist, IInv, TypeOK
<1>6. new.status \in ActiveStatus /\ new.marker = seen.marker
  BY <1>2 DEF RunRow, ActiveStatus
<1>7. UNCHANGED <<watch, sources, fetch, digest, event, copy, receives, clicks, overlapped>>
  BY DEF Start, queueVars
<1> HIDE DEF r, seen, new, w, row
<1>8. TypeOK'
  BY <1>1, <1>3, <1>4, <1>5, <1>7 DEF IInv, TypeOK
<1>9. Progress(k)
  BY <1>1, <1>3, <1>4, <1>5, <1>6, <1>7 DEF Progress, IInv, TypeOK, r, seen, ActiveStatus
<1>10. QED
  BY <1>9, <1>8, ProgressStep

LEMMA LoopStep ==
    ASSUME IInv, NEW k \in Worker, NEW s \in Source,
           SkipProcessed(k, s) \/ PickSource(k, s)
    PROVE  IInv'
<1> DEFINE r   == worker[k].run
           row == run[r]
           w   == worker'[k]
<1>1. /\ worker[k].pc \notin {"idle", "ack"}
      /\ worker[k] \in Busy
      /\ r \in Run /\ Exists(r) /\ row \in RunRow
  BY AtType DEF SkipProcessed, PickSource
<1>2. /\ w \in Busy
      /\ w.run = r /\ w.copy = worker[k].copy /\ w.seen = worker[k].seen
      /\ worker' = [worker EXCEPT ![k] = w]
  <2> DEFINE skipped == [worker[k] EXCEPT !.todo = @ \ {s}]
             picked  == [worker[k] EXCEPT !.pc = "source", !.todo = @ \ {s}, !.at = s]
  <2>1. worker' \in {[worker EXCEPT ![k] = skipped], [worker EXCEPT ![k] = picked]}
    BY DEF SkipProcessed, PickSource
  <2>2. w \in {skipped, picked} /\ worker' = [worker EXCEPT ![k] = w]
    BY <2>1 DEF IInv, TypeOK
  <2>3. /\ skipped \in Busy /\ skipped.run = r
        /\ skipped.copy = worker[k].copy /\ skipped.seen = worker[k].seen
    BY <1>1 DEF Busy
  <2>4. /\ picked \in Busy /\ picked.run = r
        /\ picked.copy = worker[k].copy /\ picked.seen = worker[k].seen
    BY <1>1 DEF Busy
  <2> HIDE DEF skipped, picked
  <2>5. QED
    BY <2>2, <2>3, <2>4
<1>3. UNCHANGED <<watch, sources, run, fetch, digest, event, copy, receives, clicks, overlapped>>
  BY DEF SkipProcessed, PickSource, dbVars, queueVars
<1>4. run' = [run EXCEPT ![r] = row] /\ row = run[r]
  BY <1>1, <1>3 DEF IInv, TypeOK
<1> HIDE DEF r, row, w
<1>5. TypeOK'
  BY <1>1, <1>2, <1>3 DEF IInv, TypeOK
<1>6. Progress(k)
  BY <1>1, <1>2, <1>3, <1>4 DEF Progress, IInv, TypeOK, r
<1>7. QED
  BY <1>6, <1>5, ProgressStep

LEMMA RollBackStep ==
    ASSUME IInv, NEW k \in Worker, NEW p, RollBack(k, p)
    PROVE  IInv'
<1> DEFINE r   == worker[k].run
           row == run[r]
           w   == [worker[k] EXCEPT !.pc = p, !.seen = row]
<1>1. /\ worker[k].pc \notin {"idle", "ack"}
      /\ worker[k] \in Busy
      /\ r \in Run /\ Exists(r) /\ row \in RunRow
  BY AtType DEF RollBack
<1>2. w \in Busy /\ w.run = r /\ w.copy = worker[k].copy /\ w.seen = row
  BY <1>1 DEF RollBack, Busy
<1>3. worker' = [worker EXCEPT ![k] = w]
  BY DEF RollBack
<1>4. UNCHANGED <<watch, sources, run, fetch, digest, event, copy, receives, clicks, overlapped>>
  BY DEF RollBack, dbVars, queueVars
<1>5. run' = [run EXCEPT ![r] = row] /\ row = run[r]
  BY <1>1, <1>4 DEF IInv, TypeOK
<1> HIDE DEF r, row, w
<1>6. TypeOK'
  BY <1>1, <1>2, <1>3, <1>4 DEF IInv, TypeOK
<1>7. Progress(k)
  BY <1>1, <1>2, <1>3, <1>4, <1>5 DEF Progress, IInv, TypeOK, r
<1>8. QED
  BY <1>7, <1>6, ProgressStep

LEMMA RecordStep ==
    ASSUME IInv, NEW k \in Worker, NEW p \in {"source", "failing"}, At(k, p),
           NEW status \in FetchStatus, NEW new \in RunRow,
           new.status = worker[k].seen.status, new.marker = worker[k].seen.marker,
           Record(k, status, new)
    PROVE  IInv'
<1> DEFINE r    == worker[k].run
           seen == worker[k].seen
           w    == [worker[k] EXCEPT !.pc = "next", !.seen = new, !.at = NoSource]
           row  == Flush(run[r], seen, new)
<1>1. /\ worker[k].pc \notin {"idle", "ack"}
      /\ worker[k] \in Busy
      /\ r \in Run /\ Exists(r) /\ run[r] \in RunRow
  BY AtType
<1>2. w \in Busy /\ w.run = r /\ w.copy = worker[k].copy /\ w.seen = new
  BY <1>1 DEF Busy
<1>3. seen \in RunRow
  BY <1>1 DEF Busy
<1>4. /\ row \in RunRow
      /\ row.watch = run[r].watch
      /\ row.marker = run[r].marker
      /\ row.status = run[r].status
  BY <1>1, <1>3, WriteType
<1>5. run' = [run EXCEPT ![r] = row] /\ worker' = [worker EXCEPT ![k] = w]
  BY <1>1 DEF Record, Persist, IInv, TypeOK
<1>6. UNCHANGED <<watch, sources, digest, event, copy, receives, clicks, overlapped>>
  BY DEF Record, queueVars
<1>7. fetch' \in [Run -> [Source -> FetchStatus]]
  BY DEF Record, IInv, TypeOK
<1>8. new.status = seen.status /\ new.marker = seen.marker
  OBVIOUS
<1> HIDE DEF r, seen, w, row
<1>9. TypeOK'
  BY <1>1, <1>2, <1>4, <1>5, <1>6, <1>7 DEF IInv, TypeOK
<1>10. Progress(k)
  BY <1>1, <1>2, <1>4, <1>5, <1>6, <1>8 DEF Progress, IInv, TypeOK, r, seen
<1>11. QED
  BY <1>10, <1>9, ProgressStep

LEMMA CountStep ==
    ASSUME IInv, NEW k \in Worker,
           SkipUnavailable(k) \/ SourceSucceeds(k) \/ RecordFailure(k)
    PROVE  IInv'
<1> DEFINE seen    == worker[k].seen
           failed  == [seen EXCEPT !.fail = @ + 1]
           matched == [seen EXCEPT !.succ = @ + 1, !.matched = TRUE]
           plain   == [seen EXCEPT !.succ = @ + 1]
<1>1. seen \in RunRow
  BY AtType DEF SkipUnavailable, SourceSucceeds, RecordFailure, Busy
<1>2. failed \in RunRow /\ failed.status = seen.status /\ failed.marker = seen.marker
  BY <1>1 DEF RunRow
<1>3. matched \in RunRow /\ matched.status = seen.status /\ matched.marker = seen.marker
  <2>1. matched = [plain EXCEPT !.matched = TRUE]
    BY <1>1 DEF RunRow
  <2>2. plain \in RunRow /\ plain.status = seen.status /\ plain.marker = seen.marker
    BY <1>1 DEF RunRow
  <2> HIDE DEF plain, matched
  <2>3. QED
    BY <2>1, <2>2 DEF RunRow
<1>4. plain \in RunRow /\ plain.status = seen.status /\ plain.marker = seen.marker
  BY <1>1 DEF RunRow
<1>5. \/ At(k, "source") /\ Record(k, "SKIPPED", failed)
      \/ At(k, "source") /\ Record(k, "SUCCEEDED", plain)
      \/ At(k, "source") /\ Record(k, "MATCHED", matched)
      \/ At(k, "failing") /\ Record(k, "PERMANENT_FAILED", failed)
  BY DEF SkipUnavailable, SourceSucceeds, RecordFailure
<1> HIDE DEF failed, matched, plain, seen
<1>6. QED
  BY <1>2, <1>3, <1>4, <1>5, RecordStep DEF FetchStatus, seen

-----------------------------------------------------------------------------
(* Receiving a message *)

LEMMA TakeType ==
    ASSUME IInv, NEW k \in Worker, NEW r \in Run, NEW c \in Copy, Take(k, r, c)
    PROVE  /\ receives[r][c] \in Nat /\ receives[r][c] < MaxReceive
           /\ receives' = [receives EXCEPT ![r][c] = receives[r][c] + 1]
           /\ receives' \in [Run -> [Copy -> 0..MaxReceive]]
           /\ copy[r][c] = "VISIBLE"
           /\ worker[k] = Idle
           /\ \A j \in Worker : worker[j] # Idle =>
                    worker[j].run # r \/ worker[j].copy # c
           /\ UNCHANGED <<watch, sources, run, fetch, digest, event, clicks>>
           /\ overlapped' \subseteq Run
<1>1. copy[r][c] = "VISIBLE" /\ worker[k] = Idle
  BY DEF Take
<1>2. receives[r][c] \in 0..MaxReceive /\ receives[r][c] < MaxReceive
  BY <1>1 DEF IInv, TypeOK, ReceivesLeft
<1>3. receives[r][c] \in Nat /\ receives[r][c] + 1 \in 0..MaxReceive
  BY <1>2, ConstantsAssumption
<1>4. receives' = [receives EXCEPT ![r][c] = receives[r][c] + 1]
  BY DEF Take
<1>5. receives' \in [Run -> [Copy -> 0..MaxReceive]]
  BY <1>3, <1>4 DEF IInv, TypeOK
<1>6. \A j \in Worker : worker[j] # Idle => worker[j].run # r \/ worker[j].copy # c
  BY <1>1 DEF IInv, HoldsItsMessage
<1>7. overlapped' \subseteq Run
  BY DEF Take, IInv, TypeOK
<1>8. QED
  BY <1>1, <1>2, <1>3, <1>4, <1>5, <1>6, <1>7 DEF Take, dbVars

LEMMA GoneStep ==
    ASSUME IInv, NEW k \in Worker, NEW r \in Run, NEW c \in Copy, ReceiveGone(k, r, c)
    PROVE  IInv'
<1> DEFINE s == Returned(receives[r][c] + 1)
<1>1. /\ copy' = [copy EXCEPT ![r][c] = s]
      /\ UNCHANGED worker
      /\ Take(k, r, c)
  BY DEF ReceiveGone
<1>2. /\ receives[r][c] \in Nat /\ receives[r][c] < MaxReceive
      /\ receives' = [receives EXCEPT ![r][c] = receives[r][c] + 1]
      /\ receives' \in [Run -> [Copy -> 0..MaxReceive]]
      /\ copy[r][c] = "VISIBLE"
      /\ \A j \in Worker : worker[j] # Idle => worker[j].run # r \/ worker[j].copy # c
      /\ UNCHANGED <<watch, sources, run, fetch, digest, event, clicks>>
      /\ overlapped' \subseteq Run
  BY <1>1, TakeType
<1>3. s \in {"VISIBLE", "DLQ"} /\ (s = "VISIBLE" => receives[r][c] + 1 < MaxReceive)
  BY <1>2, ConstantsAssumption DEF Returned
<1> HIDE DEF s
<1>4. /\ copy'[r][c] = s
      /\ \A q \in Run, d \in Copy : q # r \/ d # c => copy'[q][d] = copy[q][d]
      /\ copy' \in [Run -> [Copy -> CopyStatus]]
  BY <1>1, <1>3 DEF IInv, TypeOK, CopyStatus
<1>5. TypeOK'
  BY <1>1, <1>2, <1>4 DEF IInv, TypeOK
<1>6. ReceivesLeft'
  <2>1. /\ receives'[r][c] = receives[r][c] + 1
        /\ \A q \in Run, d \in Copy : q # r \/ d # c => receives'[q][d] = receives[q][d]
    BY <1>2 DEF IInv, TypeOK
  <2>2. QED
    BY <1>3, <1>4, <2>1 DEF IInv, ReceivesLeft
<1>7. HoldsItsMessage'
  <2>1. \A j \in Worker : worker[j] # Idle => worker[j].run \in Run /\ worker[j].copy \in Copy
    BY HolderType DEF IInv
  <2>2. QED
    BY <1>1, <1>2, <1>4, <2>1 DEF IInv, HoldsItsMessage
<1>8. ActiveIsOwed'
  <2>1. \A q \in Run : Active(q)' = Active(q)
    BY <1>2 DEF Active, Exists
  <2>2. \A q \in Run, d \in Copy :
            copy[q][d] \in {"VISIBLE", "DLQ"} => copy'[q][d] \in {"VISIBLE", "DLQ"}
    BY <1>3, <1>4
  <2>3. QED
    BY <1>1, <1>2, <2>1, <2>2 DEF IInv, ActiveIsOwed, WillSettle
<1>9. SeenMarkerIsReleased' /\ WorksOnAnInsertedRun' /\ LockDiscipline'
  BY <1>1, <1>2 DEF IInv, SeenMarkerIsReleased, WorksOnAnInsertedRun, LockDiscipline, Exists
<1>10. QED
  BY <1>5, <1>6, <1>7, <1>8, <1>9 DEF IInv

LEMMA ReceiveStep ==
    ASSUME IInv, NEW k \in Worker, NEW r \in Run, NEW c \in Copy,
           ReceiveDone(k, r, c) \/ ReceiveWork(k, r, c)
    PROVE  IInv'
<1> DEFINE w == worker'[k]
<1>1. Take(k, r, c) /\ Exists(r) /\ copy' = [copy EXCEPT ![r][c] = "INFLIGHT"]
  BY DEF ReceiveDone, ReceiveWork
<1>2. /\ receives[r][c] \in Nat /\ receives[r][c] < MaxReceive
      /\ receives' = [receives EXCEPT ![r][c] = receives[r][c] + 1]
      /\ receives' \in [Run -> [Copy -> 0..MaxReceive]]
      /\ copy[r][c] = "VISIBLE"
      /\ worker[k] = Idle
      /\ \A j \in Worker : worker[j] # Idle => worker[j].run # r \/ worker[j].copy # c
      /\ UNCHANGED <<watch, sources, run, fetch, digest, event, clicks>>
      /\ overlapped' \subseteq Run
  BY <1>1, TakeType
<1>3. run[r] \in RunRow
  BY <1>1, RowType DEF IInv
<1>4. /\ w \in Busy \cup Acking
      /\ w.run = r /\ w.copy = c
      /\ \/ w.pc = "loaded" /\ w.seen = run[r]
         \/ w.pc = "ack" /\ run[r].status = "SUCCEEDED"
      /\ \A j \in Worker \ {k} : worker'[j] = worker[j]
      /\ worker' \in [Worker -> {Idle} \cup Busy \cup Acking]
  <2>1. CASE ReceiveDone(k, r, c)
    <3> DEFINE v == [pc |-> "ack", run |-> r, copy |-> c]
    <3>1. v \in Acking /\ v.run = r /\ v.copy = c /\ v.pc = "ack"
      BY DEF Acking
    <3>2. worker' = [worker EXCEPT ![k] = v] /\ run[r].status = "SUCCEEDED"
      BY <2>1 DEF ReceiveDone, IsDone
    <3> HIDE DEF v
    <3>3. w = v /\ \A j \in Worker \ {k} : worker'[j] = worker[j]
      BY <3>2 DEF IInv, TypeOK
    <3>4. worker' \in [Worker -> {Idle} \cup Busy \cup Acking]
      BY <3>1, <3>2 DEF IInv, TypeOK
    <3> HIDE DEF w
    <3>5. QED
      BY <3>1, <3>2, <3>3, <3>4
  <2>2. CASE ReceiveWork(k, r, c)
    <3> DEFINE v == [pc |-> "loaded", run |-> r, copy |-> c, seen |-> run[r],
                     todo |-> CurrentSources(run[r].watch), at |-> NoSource]
    <3>1. v \in Busy /\ v.run = r /\ v.copy = c /\ v.pc = "loaded" /\ v.seen = run[r]
      BY <1>3 DEF Busy, CurrentSources
    <3>2. worker' = [worker EXCEPT ![k] = v]
      BY <2>2 DEF ReceiveWork
    <3> HIDE DEF v
    <3>3. w = v /\ \A j \in Worker \ {k} : worker'[j] = worker[j]
      BY <3>2 DEF IInv, TypeOK
    <3>4. worker' \in [Worker -> {Idle} \cup Busy \cup Acking]
      BY <3>1, <3>2 DEF IInv, TypeOK
    <3> HIDE DEF w
    <3>5. QED
      BY <3>1, <3>2, <3>3, <3>4
  <2>3. QED
    BY <2>1, <2>2
<1> HIDE DEF w
<1>5. /\ copy'[r][c] = "INFLIGHT"
      /\ \A q \in Run, d \in Copy : q # r \/ d # c => copy'[q][d] = copy[q][d]
      /\ copy' \in [Run -> [Copy -> CopyStatus]]
  BY <1>1 DEF IInv, TypeOK, CopyStatus
<1>6. TypeOK'
  BY <1>2, <1>4, <1>5 DEF IInv, TypeOK
<1>7. ReceivesLeft'
  <2>1. \A q \in Run, d \in Copy : q # r \/ d # c => receives'[q][d] = receives[q][d]
    BY <1>2 DEF IInv, TypeOK
  <2>2. QED
    BY <1>5, <2>1 DEF IInv, ReceivesLeft
<1>8. \A j \in Worker : worker[j] # Idle => worker[j].run \in Run /\ worker[j].copy \in Copy
  BY HolderType DEF IInv
<1>9. HoldsItsMessage'
  <2>1. \A j \in Worker : worker'[j] # Idle =>
            copy'[worker'[j].run][worker'[j].copy] = "INFLIGHT"
    BY <1>2, <1>4, <1>5, <1>8 DEF IInv, HoldsItsMessage, w
  <2>2. QED
    BY <1>2, <1>4, <2>1 DEF IInv, HoldsItsMessage, w
<1>10. \A j \in Worker, q \in Run : WillSettle(j, q) => j # k
  BY <1>2 DEF WillSettle, Idle
<1>11. ActiveIsOwed'
  <2> SUFFICES ASSUME NEW q \in Run, Active(q)'
               PROVE  \/ event'[q] = "UNPUBLISHED"
                      \/ \E d \in Copy : copy'[q][d] \in {"VISIBLE", "DLQ"}
                      \/ \E j \in Worker : WillSettle(j, q)'
    BY DEF ActiveIsOwed
  <2>1. Active(q)
    BY <1>2 DEF Active, Exists
  <2>2. CASE q = r
    <3>1. w.pc = "loaded" /\ w.seen.status \in ActiveStatus
      BY <1>4, <2>1, <2>2 DEF Active, ActiveStatus
    <3>2. QED
      BY <1>4, <2>2, <3>1 DEF WillSettle, w
  <2>3. CASE q # r
    <3>1. \A d \in Copy : copy'[q][d] = copy[q][d]
      BY <1>5, <2>3
    <3>2. \A j \in Worker : WillSettle(j, q) => WillSettle(j, q)'
      BY <1>4, <1>10 DEF WillSettle
    <3>3. QED
      BY <1>2, <2>1, <3>1, <3>2 DEF IInv, ActiveIsOwed
  <2>4. QED
    BY <2>2, <2>3
<1>12. SeenMarkerIsReleased'
  <2> SUFFICES ASSUME NEW j \in Worker, worker'[j].pc \notin {"idle", "ack"},
                      Exists(worker[j].run)', ~worker'[j].seen.marker
               PROVE  ~run'[worker'[j].run].marker
    BY DEF SeenMarkerIsReleased
  <2>1. CASE j = k
    BY <1>2, <1>4, <2>1 DEF w
  <2>2. CASE j # k
    BY <1>2, <1>4, <2>2 DEF IInv, SeenMarkerIsReleased, Exists
  <2>3. QED
    BY <2>1, <2>2
<1>13. WorksOnAnInsertedRun'
  BY <1>2, <1>1, <1>4 DEF IInv, WorksOnAnInsertedRun, Exists, Unused,
                          ActiveStatus, TerminalStatus, w
<1>14. LockDiscipline'
  BY <1>2 DEF IInv, LockDiscipline, Exists
<1>15. QED
  BY <1>6, <1>7, <1>9, <1>11, <1>12, <1>13, <1>14 DEF IInv

-----------------------------------------------------------------------------
(* Releasing a message *)

\* What an invocation that ends does to the queue and to the workers.
LEMMA ReleaseFrame ==
    ASSUME IInv, NEW k \in Worker, worker[k] # Idle,
           NEW s \in {"ACKED", "VISIBLE", "DLQ"}, Release(k, s),
           s = "VISIBLE" => receives[worker[k].run][worker[k].copy] < MaxReceive
    PROVE  /\ copy' \in [Run -> [Copy -> CopyStatus]]
           /\ worker' \in [Worker -> {Idle} \cup Busy \cup Acking]
           /\ worker[k].run \in Run
           /\ \E c \in Copy : copy'[worker[k].run][c] = s
           /\ \A q \in Run, d \in Copy :
                  copy[q][d] \in {"VISIBLE", "DLQ"} => copy'[q][d] = copy[q][d]
           /\ worker'[k] = Idle
           /\ \A j \in Worker \ {k} : worker'[j] = worker[j]
           /\ UNCHANGED <<receives, clicks, overlapped>>
           /\ ReceivesLeft'
           /\ HoldsItsMessage'
<1> DEFINE r == worker[k].run
           c == worker[k].copy
<1>1. r \in Run /\ c \in Copy
  BY HolderType DEF IInv
<1>2. copy[r][c] = "INFLIGHT"
  BY DEF IInv, HoldsItsMessage
<1>3. /\ copy' = [copy EXCEPT ![r][c] = s]
      /\ worker' = [worker EXCEPT ![k] = Idle]
      /\ UNCHANGED <<receives, clicks, overlapped>>
  BY DEF Release
<1>4. \A j \in Worker : worker[j] # Idle =>
          /\ worker[j].run \in Run /\ worker[j].copy \in Copy
          /\ j # k => worker[j].run # r \/ worker[j].copy # c
  BY HolderType DEF IInv, HoldsItsMessage
<1>5. s = "VISIBLE" => receives[r][c] < MaxReceive
  OBVIOUS
<1> HIDE DEF r, c
<1>6. /\ copy'[r][c] = s
      /\ \A q \in Run, d \in Copy : q # r \/ d # c => copy'[q][d] = copy[q][d]
      /\ copy' \in [Run -> [Copy -> CopyStatus]]
  BY <1>1, <1>3 DEF IInv, TypeOK, CopyStatus
<1>7. /\ worker'[k] = Idle
      /\ \A j \in Worker \ {k} : worker'[j] = worker[j]
      /\ worker' \in [Worker -> {Idle} \cup Busy \cup Acking]
  BY <1>3 DEF IInv, TypeOK
<1>8. ReceivesLeft'
  BY <1>3, <1>5, <1>6 DEF IInv, ReceivesLeft
<1>9. HoldsItsMessage'
  BY <1>4, <1>6, <1>7 DEF IInv, HoldsItsMessage
<1>10. \A q \in Run, d \in Copy :
           copy[q][d] \in {"VISIBLE", "DLQ"} => copy'[q][d] = copy[q][d]
  BY <1>2, <1>6
<1>11. \E d \in Copy : copy'[r][d] = s
  BY <1>1, <1>6
<1>12. QED
  BY <1>1, <1>3, <1>6, <1>7, <1>8, <1>9, <1>10, <1>11 DEF r

LEMMA ReturnedType ==
    ASSUME IInv, NEW k \in Worker, worker[k] # Idle
    PROVE  LET n == receives[worker[k].run][worker[k].copy] IN
           Returned(n) \in {"VISIBLE", "DLQ"} /\ (Returned(n) = "VISIBLE" => n < MaxReceive)
<1>1. receives[worker[k].run][worker[k].copy] \in 0..MaxReceive
  BY HolderType DEF IInv, TypeOK
<1>2. QED
  BY <1>1, ConstantsAssumption DEF Returned

\* A worker lets go of its message; if the message is deleted, the worker was
\* not the one the run relied on.
LEMMA LetGoStep ==
    ASSUME IInv, NEW k \in Worker, worker[k] # Idle,
           NEW s \in {"ACKED", "VISIBLE", "DLQ"}, Release(k, s),
           s = "VISIBLE" => receives[worker[k].run][worker[k].copy] < MaxReceive,
           s = "ACKED" => worker[k].pc = "ack",
           UNCHANGED dbVars
    PROVE  IInv'
<1> DEFINE r == worker[k].run
<1>1. /\ copy' \in [Run -> [Copy -> CopyStatus]]
      /\ worker' \in [Worker -> {Idle} \cup Busy \cup Acking]
      /\ r \in Run
      /\ \E c \in Copy : copy'[r][c] = s
      /\ \A q \in Run, d \in Copy :
             copy[q][d] \in {"VISIBLE", "DLQ"} => copy'[q][d] = copy[q][d]
      /\ worker'[k] = Idle
      /\ \A j \in Worker \ {k} : worker'[j] = worker[j]
      /\ UNCHANGED <<receives, clicks, overlapped>>
  BY ReleaseFrame
<1>2. ReceivesLeft' /\ HoldsItsMessage'
  BY ReleaseFrame
<1>3. UNCHANGED <<watch, sources, run, fetch, digest, event>>
  BY DEF dbVars
<1>4. TypeOK'
  BY <1>1, <1>3 DEF IInv, TypeOK
<1>5. ActiveIsOwed'
  <2> SUFFICES ASSUME NEW q \in Run, Active(q)'
               PROVE  \/ event[q] = "UNPUBLISHED"
                      \/ \E d \in Copy : copy'[q][d] \in {"VISIBLE", "DLQ"}
                      \/ \E j \in Worker : WillSettle(j, q)'
    BY <1>3 DEF ActiveIsOwed
  <2>1. \/ event[q] = "UNPUBLISHED"
        \/ \E d \in Copy : copy[q][d] \in {"VISIBLE", "DLQ"}
        \/ \E j \in Worker : WillSettle(j, q)
    BY <1>3 DEF IInv, ActiveIsOwed, Active, Exists
  <2>2. CASE \E j \in Worker : WillSettle(j, q)
    <3>1. PICK j \in Worker : WillSettle(j, q)
      BY <2>2
    <3>2. CASE j = k
      <4>1. q = r /\ s # "ACKED"
        BY <3>1, <3>2 DEF WillSettle
      <4>2. QED
        BY <1>1, <4>1
    <3>3. CASE j # k
      BY <1>1, <3>1, <3>3 DEF WillSettle
    <3>4. QED
      BY <3>2, <3>3
  <2>3. QED
    BY <1>1, <2>1, <2>2
<1>6. SeenMarkerIsReleased' /\ WorksOnAnInsertedRun'
  <2>1. \A j \in Worker : worker'[j].pc \notin {"idle", "ack"} =>
            worker'[j] = worker[j]
    BY <1>1 DEF Idle
  <2>2. QED
    BY <1>3, <2>1 DEF IInv, SeenMarkerIsReleased, WorksOnAnInsertedRun, Exists
<1>7. LockDiscipline'
  BY <1>3 DEF IInv, LockDiscipline, Exists
<1>8. QED
  BY <1>2, <1>4, <1>5, <1>6, <1>7 DEF IInv

LEMMA EndStep ==
    ASSUME IInv, NEW k \in Worker, Ack(k) \/ Abort(k) \/ Crash(k)
    PROVE  IInv'
<1> DEFINE n == receives[worker[k].run][worker[k].copy]
<1>1. worker[k] # Idle /\ UNCHANGED dbVars
  BY NotIdle DEF Ack, Abort, Crash
<1>2. CASE Ack(k)
  BY <1>1, <1>2, LetGoStep DEF Ack
<1>3. CASE Abort(k) \/ Crash(k)
  <2>1. Release(k, Returned(n))
    BY <1>3 DEF Abort, Crash, GiveBack
  <2>2. Returned(n) \in {"VISIBLE", "DLQ"} /\ (Returned(n) = "VISIBLE" => n < MaxReceive)
    BY <1>1, ReturnedType
  <2>3. QED
    BY <1>1, <2>1, <2>2, LetGoStep
<1>4. QED
  BY <1>2, <1>3

LEMMA RequeueStep ==
    ASSUME IInv, NEW k \in Worker, RequeuePending(k)
    PROVE  IInv'
<1> DEFINE r    == worker[k].run
           n    == receives[r][worker[k].copy]
           s    == Returned(n)
           seen == worker[k].seen
           new  == [seen EXCEPT !.status = "QUEUED"]
           row  == Flush(run[r], seen, new)
<1>1. /\ worker[k].pc \notin {"idle", "ack"} /\ worker[k] # Idle
      /\ r \in Run /\ Exists(r) /\ run[r] \in RunRow
      /\ seen \in RunRow
  BY AtType, NotIdle DEF RequeuePending, Busy
<1>2. /\ row \in RunRow
      /\ row.watch = run[r].watch
      /\ row.marker = run[r].marker
      /\ row.status \in {run[r].status, "QUEUED"}
  <2>1. new \in RunRow /\ new.marker = seen.marker /\ new.status = "QUEUED"
    BY <1>1 DEF RunRow, ActiveStatus
  <2> HIDE DEF r, seen, new
  <2>2. QED
    BY <1>1, <2>1, WriteType
<1>3. run' = [run EXCEPT ![r] = row]
  BY <1>1 DEF RequeuePending, Persist, IInv, TypeOK
<1>4. Release(k, s) /\ UNCHANGED <<watch, sources, fetch, digest, event>>
  BY DEF RequeuePending, GiveBack
<1>5. s \in {"VISIBLE", "DLQ"} /\ (s = "VISIBLE" => n < MaxReceive)
  BY <1>1, ReturnedType
<1>6. /\ copy' \in [Run -> [Copy -> CopyStatus]]
      /\ worker' \in [Worker -> {Idle} \cup Busy \cup Acking]
      /\ \E c \in Copy : copy'[r][c] = s
      /\ \A q \in Run, d \in Copy :
             copy[q][d] \in {"VISIBLE", "DLQ"} => copy'[q][d] = copy[q][d]
      /\ worker'[k] = Idle
      /\ \A j \in Worker \ {k} : worker'[j] = worker[j]
      /\ UNCHANGED <<receives, clicks, overlapped>>
      /\ ReceivesLeft' /\ HoldsItsMessage'
  BY <1>1, <1>4, <1>5, ReleaseFrame
<1>7. \A j \in Worker, q \in Run : q # r /\ WillSettle(j, q) => j # k
  BY DEF WillSettle
<1> HIDE DEF r, n, s, seen, new, row
<1>8. run'[r] = row /\ \A q \in Run \ {r} : run'[q] = run[q]
  BY <1>1, <1>3 DEF IInv, TypeOK
<1>9. TypeOK'
  BY <1>1, <1>2, <1>3, <1>4, <1>6 DEF IInv, TypeOK
<1>10. ActiveIsOwed'
  <2> SUFFICES ASSUME NEW q \in Run, q # r, Active(q)'
               PROVE  \/ event[q] = "UNPUBLISHED"
                      \/ \E d \in Copy : copy'[q][d] \in {"VISIBLE", "DLQ"}
                      \/ \E j \in Worker : WillSettle(j, q)'
    BY <1>4, <1>5, <1>6 DEF ActiveIsOwed
  <2>1. \/ event[q] = "UNPUBLISHED"
        \/ \E d \in Copy : copy[q][d] \in {"VISIBLE", "DLQ"}
        \/ \E j \in Worker : WillSettle(j, q)
    BY <1>8 DEF IInv, ActiveIsOwed, Active, Exists
  <2>2. \A j \in Worker : WillSettle(j, q) => WillSettle(j, q)'
    BY <1>6, <1>7 DEF WillSettle
  <2>3. QED
    BY <1>6, <2>1, <2>2
<1>11. \A q \in Run :
            /\ Exists(q)' <=> Exists(q)
            /\ run[q] = Unused <=> run'[q] = Unused
            /\ Exists(q) => /\ run'[q].marker = run[q].marker
                            /\ run'[q].watch = run[q].watch
                            /\ run'[q].status \in ActiveStatus \cup {run[q].status}
  BY <1>1, <1>2, <1>8 DEF Exists, ActiveStatus, TerminalStatus, RunRow, Unused
<1>12. \A j \in Worker : worker'[j].pc \notin {"idle", "ack"} =>
            worker'[j] = worker[j] /\ worker[j].run \in Run
  BY <1>6, BusyType DEF Idle, IInv, Busy
<1>13. SeenMarkerIsReleased'
  <2> SUFFICES ASSUME NEW j \in Worker, worker'[j].pc \notin {"idle", "ack"},
                      Exists(worker[j].run)', ~worker'[j].seen.marker
               PROVE  ~run'[worker'[j].run].marker
    BY DEF SeenMarkerIsReleased
  <2>1. worker'[j] = worker[j] /\ worker[j].run \in Run
    BY <1>12
  <2>2. Exists(worker[j].run)
    BY <1>11, <2>1 DEF Exists
  <2>3. QED
    BY <1>11, <2>1, <2>2 DEF IInv, SeenMarkerIsReleased
<1>14. WorksOnAnInsertedRun'
  BY <1>11, <1>12 DEF IInv, WorksOnAnInsertedRun
<1>15. LockDiscipline'
  BY <1>11 DEF IInv, LockDiscipline
<1>16. QED
  BY <1>6, <1>9, <1>10, <1>13, <1>14, <1>15 DEF IInv

-----------------------------------------------------------------------------
(* Finishing a run *)

LEMMA FinishStep ==
    ASSUME IInv, NEW k \in Worker, Finish(k)
    PROVE  IInv'
<1> DEFINE r    == worker[k].run
           seen == worker[k].seen
           new  == Settled(seen)
           row  == Flush(run[r], seen, new)
           w    == [pc |-> "ack", run |-> r, copy |-> worker[k].copy]
<1>1. /\ worker[k].pc \notin {"idle", "ack"} /\ worker[k] # Idle
      /\ r \in Run /\ Exists(r) /\ run[r] \in RunRow
      /\ seen \in RunRow /\ worker[k].copy \in Copy
  BY AtType, NotIdle DEF Finish, Busy
<1>2. new \in RunRow /\ new.status \in TerminalStatus /\ new.marker = FALSE
  BY <1>1, SettledType
<1>3. w \in Acking /\ w.pc = "ack" /\ w.run = r /\ w.copy = worker[k].copy /\ w # Idle
  BY <1>1 DEF Acking, Idle
<1>4. /\ run' = [run EXCEPT ![r] = row]
      /\ worker' = [worker EXCEPT ![k] = w]
      /\ UNCHANGED <<watch, sources, fetch, event, copy, receives, clicks, overlapped>>
      /\ digest' \in SUBSET Run
  BY <1>1 DEF Finish, Persist, IInv, TypeOK, queueVars
<1>5. seen.marker = FALSE => run[r].marker = FALSE
  BY <1>1 DEF IInv, SeenMarkerIsReleased, RunRow
<1>6. \A j \in Worker, q \in Run : WillSettle(j, q) /\ j = k =>
           q = r /\ seen.status \in ActiveStatus
  BY DEF WillSettle
<1> HIDE DEF r, seen, new, w
<1>7. /\ row \in RunRow
      /\ row.marker = FALSE
      /\ row.status \in TerminalStatus \cup {run[r].status}
      /\ seen.status \in ActiveStatus => row.status \in TerminalStatus
  <2>1. /\ row \in RunRow
        /\ row.status = Merge(run[r].status, seen.status, new.status)
        /\ row.marker = Merge(run[r].marker, seen.marker, new.marker)
    BY <1>1, <1>2, FlushType
  <2>2. row.marker = FALSE
    BY <1>2, <1>5, <2>1 DEF Merge
  <2>3. row.status \in TerminalStatus \cup {run[r].status}
    BY <1>2, <2>1 DEF Merge
  <2>4. seen.status \in ActiveStatus => row.status \in TerminalStatus
    BY <1>2, <2>1 DEF Merge, ActiveStatus, TerminalStatus
  <2>5. QED
    BY <2>1, <2>2, <2>3, <2>4
<1> HIDE DEF row
<1>8. /\ run'[r] = row /\ \A q \in Run \ {r} : run'[q] = run[q]
      /\ worker'[k] = w /\ \A j \in Worker \ {k} : worker'[j] = worker[j]
  BY <1>1, <1>4 DEF IInv, TypeOK
<1>9. TypeOK'
  BY <1>1, <1>3, <1>4, <1>7 DEF IInv, TypeOK
<1>10. ReceivesLeft'
  BY <1>4 DEF IInv, ReceivesLeft
<1>11. HoldsItsMessage'
  BY <1>1, <1>3, <1>4, <1>8 DEF IInv, HoldsItsMessage, r
<1>12. ActiveIsOwed'
  <2> SUFFICES ASSUME NEW q \in Run, Active(q)'
               PROVE  \/ event[q] = "UNPUBLISHED"
                      \/ \E d \in Copy : copy[q][d] \in {"VISIBLE", "DLQ"}
                      \/ \E j \in Worker : WillSettle(j, q)'
    BY <1>4 DEF ActiveIsOwed
  <2>1. Active(q)
    <3>1. run'[q].status \in ActiveStatus
      BY DEF Active
    <3>2. CASE q = r
      BY <1>1, <1>7, <1>8, <3>1, <3>2 DEF Active, ActiveStatus, TerminalStatus
    <3>3. CASE q # r
      BY <1>8, <3>1, <3>3 DEF Active, Exists
    <3>4. QED
      BY <3>2, <3>3
  <2>2. \A j \in Worker : WillSettle(j, q) => j # k
    <3>1. CASE q = r
      <4>1. row.status \in ActiveStatus
        BY <1>8, <3>1 DEF Active
      <4>2. seen.status \notin ActiveStatus
        BY <1>7, <4>1 DEF ActiveStatus, TerminalStatus
      <4>3. QED
        BY <1>6, <4>2
    <3>2. CASE q # r
      BY <1>6, <3>2
    <3>3. QED
      BY <3>1, <3>2
  <2>3. \A j \in Worker : WillSettle(j, q) => WillSettle(j, q)'
    BY <1>8, <2>2 DEF WillSettle
  <2>4. QED
    BY <2>1, <2>3 DEF IInv, ActiveIsOwed
<1>13. \A j \in Worker : worker'[j].pc \notin {"idle", "ack"} =>
            worker'[j] = worker[j] /\ worker[j].run \in Run
  BY <1>3, <1>8, BusyType DEF IInv, Busy
<1>14. SeenMarkerIsReleased'
  <2> SUFFICES ASSUME NEW j \in Worker, worker'[j].pc \notin {"idle", "ack"},
                      Exists(worker[j].run)', ~worker'[j].seen.marker
               PROVE  ~run'[worker'[j].run].marker
    BY DEF SeenMarkerIsReleased
  <2>1. worker'[j] = worker[j] /\ worker[j].run \in Run
    BY <1>13
  <2>2. CASE worker[j].run = r
    BY <1>7, <1>8, <2>1, <2>2
  <2>3. CASE worker[j].run # r
    BY <1>8, <2>1, <2>3 DEF IInv, SeenMarkerIsReleased, Exists
  <2>4. QED
    BY <2>2, <2>3
<1>15. WorksOnAnInsertedRun'
  <2>1. row # Unused
    BY <1>7 DEF RunRow, Unused, ActiveStatus, TerminalStatus
  <2>2. QED
    BY <1>8, <1>13, <2>1 DEF IInv, WorksOnAnInsertedRun
<1>16. LockDiscipline'
  <2>1. \A q \in Run : Exists(q)' /\ run'[q].marker =>
            q # r /\ Exists(q) /\ run'[q] = run[q]
    BY <1>7, <1>8 DEF Exists
  <2>2. QED
    BY <2>1 DEF IInv, LockDiscipline
<1>17. QED
  BY <1>9, <1>10, <1>11, <1>12, <1>14, <1>15, <1>16 DEF IInv

-----------------------------------------------------------------------------
(* The inductive invariant and what follows from it *)

\* The initial state satisfies the inductive invariant: nothing was inserted yet.
THEOREM InitIInv == Init => IInv
<1> SUFFICES ASSUME Init PROVE IInv
  OBVIOUS
<1>1. TypeOK
  BY ConstantsAssumption DEF Init, TypeOK, WatchStatus, FetchStatus, CopyStatus
<1>2. \A r \in Run : ~Exists(r)
  BY DEF Init, Exists, Unused, ActiveStatus, TerminalStatus
<1>3. \A k \in Worker : worker[k] = Idle /\ worker[k].pc = "idle"
  BY DEF Init, Idle
<1>4. ReceivesLeft
  BY ConstantsAssumption DEF Init, ReceivesLeft
<1>5. HoldsItsMessage
  BY <1>3 DEF HoldsItsMessage
<1>6. ActiveIsOwed
  BY <1>2 DEF ActiveIsOwed, Active
<1>7. SeenMarkerIsReleased /\ WorksOnAnInsertedRun
  BY <1>3 DEF SeenMarkerIsReleased, WorksOnAnInsertedRun
<1>8. LockDiscipline
  BY <1>2 DEF LockDiscipline
<1>9. QED
  BY <1>1, <1>4, <1>5, <1>6, <1>7, <1>8 DEF IInv

LEMMA OwnerStep ==
    ASSUME IInv, NEW w \in Watch, Owner(w)
    PROVE  IInv'
<1>1. CASE Activate(w) \/ Pause(w) \/ Archive(w)
  BY <1>1, SetStatusStep DEF Activate, Pause, Archive, WatchStatus
<1>2. CASE Delete(w)
  BY <1>2, DeleteStep
<1>3. CASE \E S \in SUBSET Source : Replace(w, S) \/ ImportSources(w, S)
  BY <1>3, SourcesStep
<1>4. CASE CheckManualRun(w) \/ RejectManualRun(w)
  BY <1>4, ClickStep
<1>5. CASE CommitManualRun(w)
  <2>1. clicks' \in [Watch -> 0..MaxClicks]
    BY <1>5, ConstantsAssumption DEF CommitManualRun, IInv, TypeOK
  <2>2. QED
    BY <1>5, <2>1, InsertStep DEF CommitManualRun
<1>6. CASE \E d \in Day : EnqueueScheduled(w, d)
  <2>1. clicks' \in [Watch -> 0..MaxClicks]
    BY <1>6 DEF EnqueueScheduled, IInv, TypeOK
  <2>2. QED
    BY <1>6, <2>1, InsertStep DEF EnqueueScheduled
<1>7. QED
  BY <1>1, <1>2, <1>3, <1>4, <1>5, <1>6 DEF Owner

LEMMA WorkStep ==
    ASSUME IInv, NEW k \in Worker, Deliver(k) \/ Work(k) \/ Crash(k)
    PROVE  IInv'
<1>1. CASE Deliver(k)
  BY <1>1, GoneStep, ReceiveStep DEF Deliver
<1>2. CASE Start(k)
  BY <1>2, StartStep
<1>3. CASE \E s \in Source : SkipProcessed(k, s) \/ PickSource(k, s)
  BY <1>3, LoopStep
<1>4. CASE SkipUnavailable(k) \/ SourceSucceeds(k) \/ RecordFailure(k)
  BY <1>4, CountStep
<1>5. CASE \E p \in {"failing", "pending", "source"} : RollBack(k, p)
  BY <1>5, RollBackStep
<1>6. CASE RequeuePending(k)
  BY <1>6, RequeueStep
<1>7. CASE Finish(k)
  BY <1>7, FinishStep
<1>8. CASE Ack(k) \/ Abort(k) \/ Crash(k)
  BY <1>8, EndStep
<1>9. QED
  BY <1>1, <1>2, <1>3, <1>4, <1>5, <1>6, <1>7, <1>8 DEF Work

\* Every step of the pipeline, and every step that leaves it alone, preserves
\* the inductive invariant.
THEOREM NextIInv == IInv /\ [Next]_vars => IInv'
<1> SUFFICES ASSUME IInv, [Next]_vars PROVE IInv'
  OBVIOUS
<1>1. CASE \E w \in Watch : Owner(w)
  BY <1>1, OwnerStep
<1>2. CASE \E r \in Run : Publish(r) \/ PublishUnmarked(r)
  BY <1>2, SendStep
<1>3. CASE \E k \in Worker : Deliver(k) \/ Work(k) \/ Crash(k)
  BY <1>3, WorkStep
<1>4. CASE UNCHANGED vars
  <2>1. TypeOK'
    BY <1>4 DEF IInv, TypeOK, vars
  <2>2. QED
    BY <1>4, <2>1, FrameStep DEF vars
<1>5. QED
  BY <1>1, <1>2, <1>3, <1>4 DEF Next

-----------------------------------------------------------------------------
(* What the result of a run rests on *)

\* Two workers have a run in hand only where the history says so.
OneAtATime ==
    \A j, k \in Worker :
        /\ j # k
        /\ worker[j] # Idle /\ worker[k] # Idle
        /\ worker[j].run = worker[k].run
        => worker[k].run \in overlapped

\* While deliveries of a run do not overlap, its worker holds the row as it is stored, and
\* a run that it has started is RUNNING until it settles it or puts it back.
Current(k) ==
    LET r == worker[k].run IN
    worker[k].pc \notin {"idle", "ack"} /\ Serial(r) =>
        /\ worker[k].seen = run[r]
        /\ worker[k].pc = "loaded" => run[r].status # "SUCCEEDED"
        /\ worker[k].pc # "loaded" => run[r].status = "RUNNING"

HoldsTheRow == \A k \in Worker : Current(k)

\* A worker that may record a result knows of which source.
HasItsSource ==
    \A k \in Worker : worker[k].pc \in {"source", "failing", "pending"} => worker[k].at \in Source

\* An id that is not used yet has no results.
NothingBefore ==
    \A r \in Run : run[r] = Unused => r \notin digest /\ \A s \in Source : fetch[r][s] = "NONE"

\* The row and the digest say what the results of the run say.
Tallied(r) ==
    /\ IsFiniteSet(Succeeded(r)) /\ IsFiniteSet(Failed(r))
    /\ Counted(r)
    /\ r \in digest => Matched(r) # {}
    /\ run[r].status \in TerminalStatus =>
          /\ run[r].status = "SUCCEEDED" <=> Succeeded(r) # {}
          /\ run[r].outcome = "COMPLETED" <=> (Succeeded(r) # {} /\ Failed(r) = {})
          /\ r \in digest <=> Matched(r) # {}

\* The inductive invariant of the results, beside IInv.
ResultInv ==
    /\ OneAtATime
    /\ HoldsTheRow
    /\ HasItsSource
    /\ NothingBefore
    /\ \A r \in Run : Serial(r) => Tallied(r)

\* The invariant speaks of rows, results, digests and workers only.
LEMMA ResultFrame ==
    ASSUME ResultInv, UNCHANGED <<run, fetch, digest, worker>>, overlapped \subseteq overlapped'
    PROVE  ResultInv'
<1>1. \A r \in Run : Serial(r)' => Serial(r)
  BY DEF Serial, Exists
<1>2. OneAtATime'
  BY DEF ResultInv, OneAtATime
<1>3. HoldsTheRow'
  BY DEF ResultInv, HoldsTheRow, Current, Serial, Exists
<1>4. HasItsSource' /\ NothingBefore'
  BY DEF ResultInv, HasItsSource, NothingBefore
<1>5. \A r \in Run : Tallied(r) => Tallied(r)'
  BY DEF Tallied, Counted, Succeeded, Failed, Matched
<1> QED
  BY <1>1, <1>2, <1>3, <1>4, <1>5 DEF ResultInv

\* The results of a run, its row and its digest stay, or the row becomes active again.
LEMMA TallyKept ==
    ASSUME NEW r \in Run, Tallied(r), fetch'[r] = fetch[r], r \in digest' <=> r \in digest,
           run'[r].succ = run[r].succ, run'[r].fail = run[r].fail,
           run'[r].matched = run[r].matched,
           run'[r] = run[r] \/ run'[r].status \in ActiveStatus
    PROVE  Tallied(r)'
<1>1. Succeeded(r)' = Succeeded(r) /\ Failed(r)' = Failed(r) /\ Matched(r)' = Matched(r)
  BY DEF Succeeded, Failed, Matched
<1>2. IsFiniteSet(Succeeded(r))' /\ IsFiniteSet(Failed(r))' /\ Counted(r)'
  BY <1>1 DEF Tallied, Counted
<1>3. (r \in digest => Matched(r) # {})'
  BY <1>1 DEF Tallied
<1>4. CASE run'[r] = run[r]
  BY <1>1, <1>2, <1>4 DEF Tallied
<1>5. CASE run'[r].status \in ActiveStatus
  BY <1>1, <1>2, <1>3, <1>5 DEF Tallied, ActiveStatus, TerminalStatus
<1> QED
  BY <1>4, <1>5

\* A session that holds the row as it is stored writes what it means to write.
LEMMA FlushOfCurrent ==
    ASSUME NEW row \in RunRow, NEW new \in RunRow, new.watch = row.watch, new.day = row.day
    PROVE  Flush(row, row, new) = new
<1> DEFINE f == Flush(row, row, new)
<1>1. /\ f.status = new.status /\ f.watch = new.watch /\ f.day = new.day
      /\ f.marker = new.marker /\ f.succ = new.succ /\ f.fail = new.fail
      /\ f.matched = new.matched /\ f.outcome = new.outcome
  BY DEF Flush, Merge
<1>2. new = [status |-> new.status, watch |-> new.watch, day |-> new.day,
             marker |-> new.marker, succ |-> new.succ, fail |-> new.fail,
             matched |-> new.matched, outcome |-> new.outcome]
  BY DEF RunRow
<1>3. f = [status |-> f.status, watch |-> f.watch, day |-> f.day,
           marker |-> f.marker, succ |-> f.succ, fail |-> f.fail,
           matched |-> f.matched, outcome |-> f.outcome]
  BY DEF Flush
<1> HIDE DEF f
<1>4. f = new
  BY <1>1, <1>2, <1>3
<1> QED
  BY <1>4 DEF f

\* The worker that has a run in hand is alone with it while nothing overlapped.
LEMMA AloneWithIt ==
    ASSUME IInv, ResultInv, NEW k \in Worker, worker[k] # Idle, worker[k].run \notin overlapped
    PROVE  \A j \in Worker \ {k} : worker[j] # Idle => worker[j].run # worker[k].run
BY DEF ResultInv, OneAtATime

LEMMA ResultInit == Init => ResultInv
<1> SUFFICES ASSUME Init PROVE ResultInv
  OBVIOUS
<1>1. \A r \in Run : ~Serial(r)
  BY DEF Init, Serial, Exists, Unused, ActiveStatus, TerminalStatus
<1>2. \A k \in Worker : worker[k] = Idle /\ worker[k].pc = "idle"
  BY DEF Init, Idle
<1>3. NothingBefore
  BY DEF Init, NothingBefore
<1> QED
  BY <1>1, <1>2, <1>3 DEF ResultInv, OneAtATime, HoldsTheRow, Current, HasItsSource

\* Deleting the Watch takes its runs with everything they have.
LEMMA ResultDelete ==
    ASSUME IInv, ResultInv, NEW w \in Watch, Delete(w)
    PROVE  ResultInv'
<1>1. UNCHANGED <<worker, overlapped>>
  BY DEF Delete, queueVars
<1>2. \A r \in Run : IF OnWatch(r, w) THEN run'[r] = Deleted
                     ELSE run'[r] = run[r] /\ fetch'[r] = fetch[r] /\ (r \in digest' <=> r \in digest)
  BY DEF Delete
<1>3. \A r \in Run : Exists(r)' => Exists(r) /\ run'[r] = run[r] /\ ~OnWatch(r, w)
  BY <1>2 DEF Exists, Deleted, ActiveStatus, TerminalStatus
<1>4. OneAtATime' /\ HasItsSource'
  BY <1>1 DEF ResultInv, OneAtATime, HasItsSource
<1>5. HoldsTheRow'
  <2> SUFFICES ASSUME NEW k \in Worker, worker[k].pc \notin {"idle", "ack"}, Serial(worker[k].run)'
               PROVE  /\ worker[k].seen = run'[worker[k].run]
                      /\ worker[k].pc = "loaded" => run'[worker[k].run].status # "SUCCEEDED"
                      /\ worker[k].pc # "loaded" => run'[worker[k].run].status = "RUNNING"
    BY <1>1 DEF HoldsTheRow, Current, Serial, Exists
  <2>1. worker[k].run \in Run
    BY BusyType DEF IInv, Busy
  <2>2. Exists(worker[k].run)'
    BY DEF Serial
  <2>3. Serial(worker[k].run) /\ run'[worker[k].run] = run[worker[k].run]
    BY <1>1, <1>3, <2>1, <2>2 DEF Serial
  <2> QED
    BY <2>3 DEF ResultInv, HoldsTheRow, Current
<1>6. NothingBefore'
  <2>1. \A r \in Run : run'[r] = Unused => run[r] = Unused /\ ~OnWatch(r, w)
    BY <1>2 DEF Deleted, Unused
  <2> QED
    BY <1>2, <2>1 DEF ResultInv, NothingBefore
<1>7. \A r \in Run : Serial(r)' => Tallied(r)'
  <2> SUFFICES ASSUME NEW r \in Run, Serial(r)' PROVE Tallied(r)'
    OBVIOUS
  <2>1. Exists(r) /\ run'[r] = run[r] /\ ~OnWatch(r, w)
    BY <1>3 DEF Serial
  <2>2. Tallied(r)
    BY <1>1, <2>1 DEF ResultInv, Serial
  <2>3. fetch'[r] = fetch[r] /\ (r \in digest' <=> r \in digest)
    BY <1>2, <2>1
  <2> QED
    BY <2>1, <2>2, <2>3, TallyKept
<1> QED
  BY <1>4, <1>5, <1>6, <1>7 DEF ResultInv

\* A new run has no results, and counters that say so.
LEMMA ResultInsert ==
    ASSUME IInv, ResultInv, NEW w \in Watch, NEW d \in Day \cup {0}, Insert(w, d)
    PROVE  ResultInv'
<1> DEFINE new == NewRow(w, d)
<1>1. PICK q \in Run :
        /\ run[q] = Unused
        /\ run' = [run EXCEPT ![q] = new]
        /\ UNCHANGED <<fetch, digest, worker, overlapped>>
  BY DEF Insert, queueVars
<1>2. /\ new.status = "QUEUED" /\ new.succ = 0 /\ new.fail = 0 /\ new.matched = FALSE
      /\ new # Unused
  BY DEF NewRow, Unused
<1> HIDE DEF new
<1>3. run'[q] = new /\ \A r \in Run \ {q} : run'[r] = run[r]
  BY <1>1 DEF IInv, TypeOK
<1>4. \A r \in Run \ {q} : Serial(r)' => Serial(r)
  BY <1>1, <1>3 DEF Serial, Exists
<1>5. \A k \in Worker : worker[k].pc \notin {"idle", "ack"} =>
          worker[k].run \in Run /\ worker[k].run # q
  BY <1>1, BusyType DEF IInv, Busy, WorksOnAnInsertedRun
<1>6. OneAtATime' /\ HasItsSource'
  BY <1>1 DEF ResultInv, OneAtATime, HasItsSource
<1>7. HoldsTheRow'
  <2> SUFFICES ASSUME NEW k \in Worker, worker[k].pc \notin {"idle", "ack"}, Serial(worker[k].run)'
               PROVE  /\ worker[k].seen = run'[worker[k].run]
                      /\ worker[k].pc = "loaded" => run'[worker[k].run].status # "SUCCEEDED"
                      /\ worker[k].pc # "loaded" => run'[worker[k].run].status = "RUNNING"
    BY <1>1 DEF HoldsTheRow, Current, Serial, Exists
  <2>1. Serial(worker[k].run) /\ run'[worker[k].run] = run[worker[k].run]
    BY <1>1, <1>3, <1>4, <1>5 DEF Serial, Exists
  <2> QED
    BY <2>1 DEF ResultInv, HoldsTheRow, Current
<1>8. NothingBefore'
  BY <1>1, <1>2, <1>3 DEF ResultInv, NothingBefore
<1>9. \A r \in Run : Serial(r)' => Tallied(r)'
  <2> SUFFICES ASSUME NEW r \in Run, Serial(r)' PROVE Tallied(r)'
    OBVIOUS
  <2>1. CASE r # q
    <3>1. Tallied(r) /\ run'[r] = run[r] /\ fetch'[r] = fetch[r] /\ (r \in digest' <=> r \in digest)
      BY <1>1, <1>3, <1>4, <2>1 DEF ResultInv
    <3> QED
      BY <3>1, TallyKept
  <2>2. CASE r = q
    <3>1. q \notin digest /\ \A s \in Source : fetch[q][s] = "NONE"
      BY <1>1 DEF ResultInv, NothingBefore
    <3>2. Succeeded(q)' = {} /\ Failed(q)' = {} /\ Matched(q)' = {}
      BY <1>1, <3>1 DEF Succeeded, Failed, Matched
    <3>3. IsFiniteSet({}) /\ Cardinality({}) = 0
      BY FS_EmptySet
    <3>4. IsFiniteSet(Succeeded(q))' /\ IsFiniteSet(Failed(q))' /\ Counted(q)'
      BY <1>2, <1>3, <3>2, <3>3 DEF Counted
    <3>5. run'[q].status \notin TerminalStatus /\ q \notin digest'
      BY <1>1, <1>2, <1>3, <3>1 DEF TerminalStatus
    <3> QED
      BY <2>2, <3>4, <3>5 DEF Tallied
  <2> QED
    BY <2>1, <2>2
<1> QED
  BY <1>6, <1>7, <1>8, <1>9 DEF ResultInv

\* What has to be shown of a step of one worker: it is alone with its run or the history
\* says otherwise, it holds the row it wrote, and the results still agree with the rows.
LEMMA WorkerActs ==
    ASSUME IInv, ResultInv, NEW k \in Worker,
           \A j \in Worker \ {k} : worker'[j] = worker[j],
           overlapped \subseteq overlapped',
           worker'[k] # Idle =>
               \A j \in Worker \ {k} : worker[j] # Idle /\ worker[j].run = worker'[k].run =>
                   worker'[k].run \in overlapped',
           Current(k)',
           worker'[k].pc \in {"source", "failing", "pending"} => worker'[k].at \in Source,
           \A q \in Run : Serial(q)' => Serial(q),
           \A q \in Run : run'[q] # run[q] => worker[k] # Idle /\ worker[k].run = q,
           \A q \in Run : run'[q] = Unused =>
               run[q] = Unused /\ fetch'[q] = fetch[q] /\ (q \in digest' <=> q \in digest),
           \A q \in Run : Serial(q)' => Tallied(q)'
    PROVE  ResultInv'
<1>1. OneAtATime'
  <2> SUFFICES ASSUME NEW i \in Worker, NEW j \in Worker, i # j,
                      worker'[i] # Idle, worker'[j] # Idle, worker'[i].run = worker'[j].run
               PROVE  worker'[j].run \in overlapped'
    BY DEF OneAtATime
  <2>1. CASE i # k /\ j # k
    <3>1. worker'[i] = worker[i] /\ worker'[j] = worker[j]
      BY <2>1
    <3>2. worker[j].run \in overlapped
      BY <3>1 DEF ResultInv, OneAtATime
    <3> QED
      BY <3>1, <3>2
  <2>2. CASE i = k
    BY <2>2
  <2>3. CASE j = k
    BY <2>3
  <2> QED
    BY <2>1, <2>2, <2>3
<1>2. HoldsTheRow'
  <2> SUFFICES ASSUME NEW j \in Worker, j # k PROVE Current(j)'
    BY DEF HoldsTheRow
  <2> SUFFICES ASSUME worker[j].pc \notin {"idle", "ack"}, Serial(worker[j].run)'
               PROVE  /\ worker[j].seen = run'[worker[j].run]
                      /\ worker[j].pc = "loaded" => run'[worker[j].run].status # "SUCCEEDED"
                      /\ worker[j].pc # "loaded" => run'[worker[j].run].status = "RUNNING"
    BY DEF Current, Serial, Exists
  <2>1. worker[j].run \in Run /\ worker[j] # Idle
    BY BusyType, NotIdle DEF IInv, Busy
  <2>2. worker'[j] = worker[j]
    OBVIOUS
  <2>3. Serial(worker[j].run) /\ worker[j].run \notin overlapped
    BY <2>1, <2>2 DEF Serial, Exists
  <2>4. run'[worker[j].run] = run[worker[j].run]
    BY <2>1, <2>3 DEF ResultInv, OneAtATime
  <2> QED
    BY <2>3, <2>4 DEF ResultInv, HoldsTheRow, Current
<1>3. HasItsSource'
  BY DEF ResultInv, HasItsSource
<1>4. NothingBefore'
  BY DEF ResultInv, NothingBefore
<1> QED
  BY <1>1, <1>2, <1>3, <1>4 DEF ResultInv

\* Where no row, result or digest changes, the results agree with the rows as before.
LEMMA TalliesStay ==
    ASSUME ResultInv, UNCHANGED <<run, fetch, digest>>, overlapped \subseteq overlapped'
    PROVE  /\ \A q \in Run : Serial(q)' => Serial(q)
           /\ \A q \in Run : Serial(q)' => Tallied(q)'
<1>1. \A q \in Run : Serial(q)' => Serial(q)
  BY DEF Serial, Exists
<1>2. \A q \in Run : Serial(q)' => Tallied(q)'
  <2> SUFFICES ASSUME NEW q \in Run, Serial(q)' PROVE Tallied(q)'
    OBVIOUS
  <2>1. Tallied(q)
    BY <1>1 DEF ResultInv
  <2> QED
    BY <2>1, TallyKept
<1> QED
  BY <1>1, <1>2

\* A commit of a worker: only its own run's row changes, and while deliveries do not
\* overlap the row becomes what the worker means to write.
LEMMA WritesItsRun ==
    ASSUME IInv, ResultInv, NEW k \in Worker,
           NEW p \in {"loaded", "next", "source", "failing", "pending"}, At(k, p),
           NEW new \in RunRow, new.watch = worker[k].seen.watch, new.day = worker[k].seen.day,
           Persist(k, new), UNCHANGED overlapped
    PROVE  /\ worker[k] # Idle /\ worker[k].run \in Run
           /\ \A q \in Run \ {worker[k].run} : run'[q] = run[q]
           /\ \A q \in Run : Serial(q)' => Serial(q)
           /\ \A q \in Run : run'[q] # Unused \/ (run[q] = Unused /\ q # worker[k].run)
           /\ Serial(worker[k].run) =>
                  /\ worker[k].seen = run[worker[k].run]
                  /\ run'[worker[k].run] = new
<1> DEFINE r    == worker[k].run
           seen == worker[k].seen
           row  == Flush(run[r], seen, new)
<1>1. /\ worker[k].pc \notin {"idle", "ack"} /\ worker[k] # Idle
      /\ worker[k] \in Busy /\ r \in Run /\ Exists(r) /\ run[r] \in RunRow
  BY AtType, NotIdle
<1>2. seen \in RunRow
  BY <1>1 DEF Busy
<1>3. row \in RunRow
  BY <1>1, <1>2, FlushType
<1>4. run'[r] = row /\ \A q \in Run \ {r} : run'[q] = run[q]
  BY <1>1 DEF Persist, IInv, TypeOK
<1>5. Serial(r) => seen = run[r]
  BY <1>1 DEF ResultInv, HoldsTheRow, Current
<1>6. Serial(r) => row = new
  BY <1>1, <1>2, <1>5, FlushOfCurrent
<1> HIDE DEF row
<1>7. row # Unused
  BY <1>3 DEF RunRow, Unused, ActiveStatus, TerminalStatus
<1>8. \A q \in Run : Serial(q)' => Serial(q)
  BY <1>1, <1>4 DEF Serial, Exists
<1>9. \A q \in Run : run'[q] # Unused \/ (run[q] = Unused /\ q # r)
  BY <1>4, <1>7
<1> QED
  BY <1>1, <1>4, <1>5, <1>6, <1>8, <1>9

-----------------------------------------------------------------------------
(* The steps of a worker and the results *)

LEMMA ResultReceive ==
    ASSUME IInv, ResultInv, NEW k \in Worker, NEW r \in Run, NEW c \in Copy,
           ReceiveGone(k, r, c) \/ ReceiveDone(k, r, c) \/ ReceiveWork(k, r, c)
    PROVE  ResultInv'
<1>1. /\ worker[k] = Idle
      /\ overlapped' = IF \E j \in Worker : worker[j] # Idle /\ worker[j].run = r
                       THEN overlapped \cup {r} ELSE overlapped
      /\ UNCHANGED <<run, fetch, digest>>
  BY DEF ReceiveGone, ReceiveDone, ReceiveWork, Take, dbVars
<1>2. overlapped \subseteq overlapped'
  BY <1>1
<1>3. CASE ReceiveGone(k, r, c)
  BY <1>1, <1>2, <1>3, ResultFrame DEF ReceiveGone
<1>4. CASE ReceiveDone(k, r, c) \/ ReceiveWork(k, r, c)
  <2>1. PICK v : /\ worker' = [worker EXCEPT ![k] = v]
                 /\ v.run = r /\ v.pc \in {"ack", "loaded"}
                 /\ v.pc = "loaded" => v.seen = run[r] /\ run[r].status # "SUCCEEDED"
    <3>1. CASE ReceiveDone(k, r, c)
      <4> DEFINE a == [pc |-> "ack", run |-> r, copy |-> c]
      <4>1. worker' = [worker EXCEPT ![k] = a]
        BY <3>1 DEF ReceiveDone
      <4>2. a.run = r /\ a.pc = "ack"
        OBVIOUS
      <4> HIDE DEF a
      <4> QED
        BY <4>1, <4>2
    <3>2. CASE ReceiveWork(k, r, c)
      <4> DEFINE b == [pc |-> "loaded", run |-> r, copy |-> c, seen |-> run[r],
                       todo |-> CurrentSources(run[r].watch), at |-> NoSource]
      <4>1. worker' = [worker EXCEPT ![k] = b] /\ run[r].status # "SUCCEEDED"
        BY <3>2 DEF ReceiveWork, IsDone
      <4>2. b.run = r /\ b.pc = "loaded" /\ b.seen = run[r]
        OBVIOUS
      <4> HIDE DEF b
      <4> QED
        BY <4>1, <4>2
    <3> QED
      BY <1>4, <3>1, <3>2
  <2>2. worker'[k] = v /\ \A j \in Worker \ {k} : worker'[j] = worker[j]
    BY <2>1 DEF IInv, TypeOK
  <2>3. \A j \in Worker \ {k} : worker[j] # Idle /\ worker[j].run = r => r \in overlapped'
    BY <1>1
  <2>4. Current(k)'
    BY <1>1, <2>1, <2>2 DEF Current
  <2>5. /\ \A q \in Run : Serial(q)' => Serial(q)
        /\ \A q \in Run : Serial(q)' => Tallied(q)'
    BY <1>1, <1>2, TalliesStay
  <2> QED
    BY <1>1, <1>2, <2>1, <2>2, <2>3, <2>4, <2>5, WorkerActs
<1> QED
  BY <1>3, <1>4

\* Steps that only move the worker on.
LEMMA ResultMove ==
    ASSUME IInv, ResultInv, NEW k \in Worker, worker[k] # Idle, NEW v,
           worker' = [worker EXCEPT ![k] = v],
           UNCHANGED <<run, fetch, digest, overlapped>>,
           v = Idle \/ v.run = worker[k].run,
           v.pc \in {"source", "failing", "pending"} => v.at \in Source,
           v.pc \notin {"idle", "ack"} =>
               /\ v.pc # "loaded" /\ worker[k].pc \notin {"idle", "ack", "loaded"}
               /\ v.seen \in {worker[k].seen, run[v.run]}
    PROVE  ResultInv'
<1>1. worker'[k] = v /\ \A j \in Worker \ {k} : worker'[j] = worker[j]
  BY DEF IInv, TypeOK
<1>2. v # Idle => \A j \in Worker \ {k} :
          worker[j] # Idle /\ worker[j].run = v.run => v.run \in overlapped'
  BY DEF ResultInv, OneAtATime
<1>3. Current(k)'
  <2> SUFFICES ASSUME v.pc \notin {"idle", "ack"}, Serial(v.run)
               PROVE  v.seen = run[v.run] /\ v.pc # "loaded" /\ run[v.run].status = "RUNNING"
    BY <1>1 DEF Current, Serial, Exists
  <2>1. v.run = worker[k].run
    BY DEF Idle
  <2> QED
    BY <2>1 DEF ResultInv, HoldsTheRow, Current
<1>4. /\ \A q \in Run : Serial(q)' => Serial(q)
      /\ \A q \in Run : Serial(q)' => Tallied(q)'
  BY TalliesStay
<1> QED
  BY <1>1, <1>2, <1>3, <1>4, WorkerActs

LEMMA ResultLoop ==
    ASSUME IInv, ResultInv, NEW k \in Worker,
           \/ \E s \in Source : SkipProcessed(k, s) \/ PickSource(k, s)
           \/ \E p \in {"failing", "pending", "source"} : RollBack(k, p)
    PROVE  ResultInv'
<1>1. /\ worker[k].pc \notin {"idle", "ack", "loaded"}
      /\ worker[k] # Idle /\ worker[k] \in Busy
      /\ UNCHANGED <<run, fetch, digest, overlapped>>
  <2>1. worker[k].pc \notin {"idle", "ack", "loaded"}
    BY DEF SkipProcessed, PickSource, RollBack, At
  <2> QED
    BY <2>1, NotIdle, BusyType DEF IInv, SkipProcessed, PickSource, RollBack, dbVars, queueVars
<1>2. CASE \E s \in Source : SkipProcessed(k, s)
  <2>1. PICK s \in Source : SkipProcessed(k, s)
    BY <1>2
  <2> DEFINE v == [worker[k] EXCEPT !.todo = @ \ {s}]
  <2>2. worker' = [worker EXCEPT ![k] = v] /\ worker[k].pc = "next"
    BY <2>1 DEF SkipProcessed, At
  <2>3. v.pc = "next" /\ v.run = worker[k].run /\ v.seen = worker[k].seen
    BY <1>1, <2>2 DEF Busy
  <2> HIDE DEF v
  <2> QED
    BY <1>1, <2>2, <2>3, ResultMove
<1>3. CASE \E s \in Source : PickSource(k, s)
  <2>1. PICK s \in Source : PickSource(k, s)
    BY <1>3
  <2> DEFINE v == [worker[k] EXCEPT !.pc = "source", !.todo = @ \ {s}, !.at = s]
  <2>2. worker' = [worker EXCEPT ![k] = v]
    BY <2>1 DEF PickSource
  <2>3. v.pc = "source" /\ v.at = s /\ v.run = worker[k].run /\ v.seen = worker[k].seen
    BY <1>1 DEF Busy
  <2> HIDE DEF v
  <2> QED
    BY <1>1, <2>2, <2>3, ResultMove
<1>4. CASE \E p \in {"failing", "pending", "source"} : RollBack(k, p)
  <2>1. PICK p \in {"failing", "pending", "source"} : RollBack(k, p)
    BY <1>4
  <2> DEFINE v == [worker[k] EXCEPT !.pc = p, !.seen = run[worker[k].run]]
  <2>2. worker' = [worker EXCEPT ![k] = v] /\ worker[k].pc = "source"
    BY <2>1 DEF RollBack, At
  <2>3. /\ v.pc = p /\ v.at = worker[k].at /\ v.run = worker[k].run
        /\ v.seen = run[worker[k].run]
    BY <1>1 DEF Busy
  <2>4. worker[k].at \in Source
    BY <2>2 DEF ResultInv, HasItsSource
  <2> HIDE DEF v
  <2> QED
    BY <1>1, <2>2, <2>3, <2>4, ResultMove
<1> QED
  BY <1>2, <1>3, <1>4

LEMMA ResultEnd ==
    ASSUME IInv, ResultInv, NEW k \in Worker, Ack(k) \/ Abort(k) \/ Crash(k)
    PROVE  ResultInv'
<1>1. /\ worker' = [worker EXCEPT ![k] = Idle]
      /\ UNCHANGED <<run, fetch, digest, overlapped>>
      /\ worker[k] # Idle
  BY NotIdle DEF Ack, Abort, Crash, GiveBack, Release, dbVars
<1>2. Idle.pc = "idle"
  BY DEF Idle
<1> QED
  BY <1>1, <1>2, ResultMove

LEMMA ResultStart ==
    ASSUME IInv, ResultInv, NEW k \in Worker, Start(k)
    PROVE  ResultInv'
<1> DEFINE r    == worker[k].run
           seen == worker[k].seen
           new  == [seen EXCEPT !.status = "RUNNING"]
           v    == [worker[k] EXCEPT !.pc = "next", !.seen = new]
<1>1. /\ At(k, "loaded") /\ Persist(k, new)
      /\ UNCHANGED <<fetch, digest, overlapped>>
  BY DEF Start, queueVars
<1>2. worker[k] \in Busy /\ seen \in RunRow
  BY <1>1, AtType DEF Busy
<1>3. /\ new \in RunRow /\ new.watch = seen.watch /\ new.day = seen.day
      /\ new.status = "RUNNING" /\ new.succ = seen.succ /\ new.fail = seen.fail
      /\ new.matched = seen.matched
  BY <1>2 DEF RunRow, ActiveStatus
<1>4. v.pc = "next" /\ v.run = r /\ v.seen = new
  BY <1>2 DEF Busy
<1>5. worker' = [worker EXCEPT ![k] = v]
  BY <1>2 DEF Start, IInv, TypeOK
<1> HIDE DEF new, v
<1>6. /\ worker[k] # Idle /\ r \in Run
      /\ \A q \in Run \ {r} : run'[q] = run[q]
      /\ \A q \in Run : Serial(q)' => Serial(q)
      /\ \A q \in Run : run'[q] # Unused \/ (run[q] = Unused /\ q # r)
      /\ Serial(r) => seen = run[r] /\ run'[r] = new
  BY <1>1, <1>3, WritesItsRun
<1> HIDE DEF r, seen
<1>7. worker'[k] = v /\ \A j \in Worker \ {k} : worker'[j] = worker[j]
  BY <1>5 DEF IInv, TypeOK
<1>8. \A j \in Worker \ {k} : worker[j] # Idle /\ worker[j].run = r => r \in overlapped'
  BY <1>1, <1>6 DEF ResultInv, OneAtATime, r
<1>9. Current(k)'
  BY <1>1, <1>3, <1>4, <1>6, <1>7 DEF Current
<1>10. \A q \in Run : Serial(q)' => Tallied(q)'
  <2> SUFFICES ASSUME NEW q \in Run, Serial(q)' PROVE Tallied(q)'
    OBVIOUS
  <2>1. Serial(q) /\ Tallied(q)
    BY <1>6 DEF ResultInv
  <2>2. /\ run'[q].succ = run[q].succ /\ run'[q].fail = run[q].fail
        /\ run'[q].matched = run[q].matched
        /\ run'[q] = run[q] \/ run'[q].status \in ActiveStatus
    BY <1>3, <1>6, <2>1 DEF ActiveStatus
  <2> QED
    BY <1>1, <2>1, <2>2, TallyKept
<1> QED
  BY <1>1, <1>4, <1>6, <1>7, <1>8, <1>9, <1>10, WorkerActs DEF r

LEMMA ResultRequeue ==
    ASSUME IInv, ResultInv, NEW k \in Worker, RequeuePending(k)
    PROVE  ResultInv'
<1> DEFINE r    == worker[k].run
           seen == worker[k].seen
           new  == [seen EXCEPT !.status = "QUEUED"]
<1>1. /\ At(k, "pending") /\ Persist(k, new)
      /\ UNCHANGED <<fetch, digest, overlapped>>
      /\ worker' = [worker EXCEPT ![k] = Idle]
  BY DEF RequeuePending, GiveBack, Release
<1>2. worker[k] \in Busy /\ seen \in RunRow
  BY <1>1, AtType DEF Busy
<1>3. /\ new \in RunRow /\ new.watch = seen.watch /\ new.day = seen.day
      /\ new.status = "QUEUED" /\ new.succ = seen.succ /\ new.fail = seen.fail
      /\ new.matched = seen.matched
  BY <1>2 DEF RunRow, ActiveStatus
<1> HIDE DEF new
<1>4. /\ worker[k] # Idle /\ r \in Run
      /\ \A q \in Run \ {r} : run'[q] = run[q]
      /\ \A q \in Run : Serial(q)' => Serial(q)
      /\ \A q \in Run : run'[q] # Unused \/ (run[q] = Unused /\ q # r)
      /\ Serial(r) => seen = run[r] /\ run'[r] = new
  BY <1>1, <1>3, WritesItsRun
<1> HIDE DEF r, seen
<1>5. worker'[k] = Idle /\ \A j \in Worker \ {k} : worker'[j] = worker[j]
  BY <1>1 DEF IInv, TypeOK
<1>6. Current(k)' /\ Idle.pc = "idle"
  BY <1>5 DEF Current, Idle
<1>7. \A q \in Run : Serial(q)' => Tallied(q)'
  <2> SUFFICES ASSUME NEW q \in Run, Serial(q)' PROVE Tallied(q)'
    OBVIOUS
  <2>1. Serial(q) /\ Tallied(q)
    BY <1>4 DEF ResultInv
  <2>2. /\ run'[q].succ = run[q].succ /\ run'[q].fail = run[q].fail
        /\ run'[q].matched = run[q].matched
        /\ run'[q] = run[q] \/ run'[q].status \in ActiveStatus
    BY <1>3, <1>4, <2>1 DEF ActiveStatus
  <2> QED
    BY <1>1, <2>1, <2>2, TallyKept
<1> QED
  BY <1>1, <1>4, <1>5, <1>6, <1>7, WorkerActs DEF r

\* A result is stored with the counter that counts it.
LEMMA ResultRecord ==
    ASSUME IInv, ResultInv, NEW k \in Worker, NEW p \in {"source", "failing"}, At(k, p),
           NEW status \in FetchStatus \ {"NONE"}, NEW new \in RunRow,
           Record(k, status, new),
           LET seen == worker[k].seen IN
           /\ new.watch = seen.watch /\ new.day = seen.day /\ new.status = seen.status
           /\ new.succ = IF status \in {"SUCCEEDED", "MATCHED"} THEN seen.succ + 1 ELSE seen.succ
           /\ new.fail = IF status \in {"SUCCEEDED", "MATCHED"} THEN seen.fail ELSE seen.fail + 1
           /\ new.matched <=> (seen.matched \/ status = "MATCHED")
    PROVE  ResultInv'
<1> DEFINE r    == worker[k].run
           seen == worker[k].seen
           s    == worker[k].at
           v    == [worker[k] EXCEPT !.pc = "next", !.seen = new, !.at = NoSource]
<1>1. /\ Persist(k, new) /\ fetch[r][s] = "NONE"
      /\ fetch' = [fetch EXCEPT ![r][s] = status]
      /\ worker' = [worker EXCEPT ![k] = v]
      /\ UNCHANGED <<digest, overlapped>>
  <2>1. worker[k] \in Busy
    BY AtType
  <2> QED
    BY <2>1 DEF Record, Insertable, queueVars, IInv, TypeOK
<1>2. worker[k] \in Busy /\ seen \in RunRow /\ s \in Source
  BY AtType DEF Busy, At, ResultInv, HasItsSource
<1>3. /\ new.watch = seen.watch /\ new.day = seen.day /\ new.status = seen.status
      /\ new.succ = IF status \in {"SUCCEEDED", "MATCHED"} THEN seen.succ + 1 ELSE seen.succ
      /\ new.fail = IF status \in {"SUCCEEDED", "MATCHED"} THEN seen.fail ELSE seen.fail + 1
      /\ new.matched <=> (seen.matched \/ status = "MATCHED")
  OBVIOUS
<1>4. v.pc = "next" /\ v.run = r /\ v.seen = new
  BY <1>2 DEF Busy
<1> HIDE DEF v
<1>5. /\ worker[k] # Idle /\ r \in Run
      /\ \A q \in Run \ {r} : run'[q] = run[q]
      /\ \A q \in Run : Serial(q)' => Serial(q)
      /\ \A q \in Run : run'[q] # Unused \/ (run[q] = Unused /\ q # r)
      /\ Serial(r) => seen = run[r] /\ run'[r] = new
  BY <1>1, <1>3, WritesItsRun
<1>6. Serial(r) => run[r].status = "RUNNING"
  BY DEF At, ResultInv, HoldsTheRow, Current
<1>7. worker'[k] = v /\ \A j \in Worker \ {k} : worker'[j] = worker[j]
  BY <1>1 DEF IInv, TypeOK
<1> HIDE DEF r, seen, s
<1>8. \A j \in Worker \ {k} : worker[j] # Idle /\ worker[j].run = r => r \in overlapped'
  BY <1>1, <1>5 DEF ResultInv, OneAtATime, r
<1>9. Current(k)'
  BY <1>1, <1>3, <1>4, <1>5, <1>6, <1>7 DEF Current
<1>10. /\ fetch'[r][s] = status
       /\ \A t \in Source \ {s} : fetch'[r][t] = fetch[r][t]
       /\ \A q \in Run \ {r} : fetch'[q] = fetch[q]
  BY <1>1, <1>2, <1>5 DEF IInv, TypeOK
<1>11. \A q \in Run : q = r /\ Serial(q) => Tallied(q)'
  <2> SUFFICES ASSUME NEW q \in Run, q = r, Serial(q) PROVE Tallied(q)'
    OBVIOUS
  <2>1. /\ IsFiniteSet(Succeeded(q)) /\ IsFiniteSet(Failed(q))
        /\ run[q].succ = Cardinality(Succeeded(q)) /\ run[q].fail = Cardinality(Failed(q))
        /\ run[q].matched <=> Matched(q) # {}
        /\ q \in digest => Matched(q) # {}
    BY <1>5 DEF ResultInv, Tallied, Counted
  <2>2. run'[q] = new /\ seen = run[q] /\ new.status = "RUNNING"
    BY <1>3, <1>5, <1>6
  <2>3. s \notin Succeeded(q) /\ s \notin Failed(q) /\ s \notin Matched(q)
    BY <1>1 DEF Succeeded, Failed, Matched
  <2>4. (run[q].matched <=> Matched(q) # {}) /\ (q \in digest' => Matched(q) # {})
    BY <1>1, <2>1
  <2>5. CASE status \in {"SUCCEEDED", "MATCHED"}
    <3>1. Succeeded(q)' = Succeeded(q) \cup {s} /\ Failed(q)' = Failed(q)
      BY <1>2, <1>10, <2>3, <2>5 DEF Succeeded, Failed
    <3>2. /\ IsFiniteSet(Succeeded(q) \cup {s})
          /\ Cardinality(Succeeded(q) \cup {s}) = Cardinality(Succeeded(q)) + 1
      BY <2>1, <2>3, FS_AddElement
    <3>3. Matched(q)' # {} <=> (Matched(q) # {} \/ status = "MATCHED")
      BY <1>2, <1>10, <2>3 DEF Matched
    <3>4. new.succ = run[q].succ + 1 /\ new.fail = run[q].fail
      BY <1>3, <2>2, <2>5
    <3>5. Counted(q)'
      BY <1>3, <2>1, <2>2, <3>1, <3>2, <3>3, <3>4 DEF Counted
    <3> QED
      BY <2>1, <2>2, <2>4, <3>1, <3>2, <3>3, <3>5 DEF Tallied, TerminalStatus
  <2>6. CASE status \notin {"SUCCEEDED", "MATCHED"}
    <3>1. /\ Failed(q)' = Failed(q) \cup {s} /\ Succeeded(q)' = Succeeded(q)
          /\ Matched(q)' = Matched(q)
      <4>1. status \in {"SKIPPED", "PERMANENT_FAILED"}
        BY <2>6 DEF FetchStatus
      <4> QED
        BY <1>2, <1>10, <2>3, <4>1 DEF Succeeded, Failed, Matched
    <3>2. /\ IsFiniteSet(Failed(q) \cup {s})
          /\ Cardinality(Failed(q) \cup {s}) = Cardinality(Failed(q)) + 1
      BY <2>1, <2>3, FS_AddElement
    <3>3. new.fail = run[q].fail + 1 /\ new.succ = run[q].succ
      BY <1>3, <2>2, <2>6
    <3>4. new.matched <=> run[q].matched
      BY <1>3, <2>2, <2>6
    <3>5. Counted(q)'
      BY <2>1, <2>2, <3>1, <3>2, <3>3, <3>4 DEF Counted
    <3> QED
      BY <2>1, <2>2, <2>4, <3>1, <3>2, <3>5 DEF Tallied, TerminalStatus
  <2> QED
    BY <2>5, <2>6
<1>12. \A q \in Run : Serial(q)' => Tallied(q)'
  <2> SUFFICES ASSUME NEW q \in Run, Serial(q)' PROVE Tallied(q)'
    OBVIOUS
  <2>1. Serial(q) /\ Tallied(q)
    BY <1>5 DEF ResultInv
  <2>2. CASE q = r
    BY <1>11, <2>1, <2>2
  <2>3. CASE q # r
    <3>1. run'[q] = run[q] /\ fetch'[q] = fetch[q] /\ (q \in digest' <=> q \in digest)
      BY <1>1, <1>5, <1>10, <2>3
    <3> QED
      BY <2>1, <3>1, TallyKept
  <2> QED
    BY <2>2, <2>3
<1>13. \A q \in Run : run'[q] = Unused =>
           run[q] = Unused /\ fetch'[q] = fetch[q] /\ (q \in digest' <=> q \in digest)
  BY <1>1, <1>5, <1>10
<1>14. \A q \in Run : run'[q] # run[q] => worker[k] # Idle /\ worker[k].run = q
  BY <1>5 DEF r
<1> QED
  BY <1>1, <1>4, <1>5, <1>7, <1>8, <1>9, <1>12, <1>13, <1>14, WorkerActs

LEMMA ResultCount ==
    ASSUME IInv, ResultInv, NEW k \in Worker,
           SkipUnavailable(k) \/ SourceSucceeds(k) \/ RecordFailure(k)
    PROVE  ResultInv'
<1> DEFINE seen    == worker[k].seen
           failed  == [seen EXCEPT !.fail = @ + 1]
           plain   == [seen EXCEPT !.succ = @ + 1]
           matched == [seen EXCEPT !.succ = @ + 1, !.matched = TRUE]
<1>1. seen \in RunRow
  BY AtType DEF SkipUnavailable, SourceSucceeds, RecordFailure, Busy
<1>2. /\ failed \in RunRow /\ failed.watch = seen.watch /\ failed.day = seen.day
      /\ failed.status = seen.status /\ failed.succ = seen.succ
      /\ failed.fail = seen.fail + 1 /\ failed.matched = seen.matched
  BY <1>1 DEF RunRow
<1>3. /\ plain \in RunRow /\ plain.watch = seen.watch /\ plain.day = seen.day
      /\ plain.status = seen.status /\ plain.succ = seen.succ + 1
      /\ plain.fail = seen.fail /\ plain.matched = seen.matched
  BY <1>1 DEF RunRow
<1>4. /\ matched \in RunRow /\ matched.watch = seen.watch /\ matched.day = seen.day
      /\ matched.status = seen.status /\ matched.succ = seen.succ + 1
      /\ matched.fail = seen.fail /\ matched.matched = TRUE
  <2>1. matched = [plain EXCEPT !.matched = TRUE]
    BY <1>1 DEF RunRow
  <2> HIDE DEF plain, matched
  <2> QED
    BY <1>3, <2>1 DEF RunRow
<1>5. \/ At(k, "source") /\ Record(k, "SKIPPED", failed)
      \/ At(k, "source") /\ Record(k, "SUCCEEDED", plain)
      \/ At(k, "source") /\ Record(k, "MATCHED", matched)
      \/ At(k, "failing") /\ Record(k, "PERMANENT_FAILED", failed)
  BY DEF SkipUnavailable, SourceSucceeds, RecordFailure
<1>6. {"SKIPPED", "SUCCEEDED", "MATCHED", "PERMANENT_FAILED"} \subseteq FetchStatus \ {"NONE"}
  BY DEF FetchStatus
<1> HIDE DEF failed, plain, matched
<1>7. CASE At(k, "source") /\ Record(k, "SKIPPED", failed)
  BY <1>2, <1>6, <1>7, ResultRecord
<1>8. CASE At(k, "source") /\ Record(k, "SUCCEEDED", plain)
  BY <1>3, <1>6, <1>8, ResultRecord
<1>9. CASE At(k, "source") /\ Record(k, "MATCHED", matched)
  BY <1>4, <1>6, <1>9, ResultRecord
<1>10. CASE At(k, "failing") /\ Record(k, "PERMANENT_FAILED", failed)
  BY <1>2, <1>6, <1>10, ResultRecord
<1> QED
  BY <1>5, <1>7, <1>8, <1>9, <1>10

\* The final status, the outcome and the digest follow from the counters.
LEMMA ResultFinish ==
    ASSUME IInv, ResultInv, NEW k \in Worker, Finish(k)
    PROVE  ResultInv'
<1> DEFINE r    == worker[k].run
           seen == worker[k].seen
           new  == Settled(seen)
           v    == [pc |-> "ack", run |-> r, copy |-> worker[k].copy]
<1>1. /\ At(k, "next") /\ Persist(k, new)
      /\ worker' = [worker EXCEPT ![k] = v]
      /\ digest' = IF seen.matched THEN digest \cup {r} ELSE digest
      /\ UNCHANGED <<fetch, overlapped>>
  BY DEF Finish, queueVars
<1>2. worker[k] \in Busy /\ seen \in RunRow
  BY <1>1, AtType DEF Busy
<1>3. /\ new.watch = seen.watch /\ new.day = seen.day
      /\ new.succ = seen.succ /\ new.fail = seen.fail /\ new.matched = seen.matched
      /\ new.status = IF seen.succ > 0 THEN "SUCCEEDED" ELSE "PERMANENT_FAILED"
      /\ new.outcome = IF seen.succ = 0 THEN "FAILED"
                       ELSE IF seen.fail > 0 THEN "COMPLETED_WITH_WARNINGS" ELSE "COMPLETED"
  BY <1>2 DEF Settled, RunRow
<1>4. new \in RunRow
  BY <1>2, SettledType
<1>5. v.pc = "ack" /\ v.run = r
  OBVIOUS
<1> HIDE DEF new, v
<1>6. /\ worker[k] # Idle /\ r \in Run
      /\ \A q \in Run \ {r} : run'[q] = run[q]
      /\ \A q \in Run : Serial(q)' => Serial(q)
      /\ \A q \in Run : run'[q] # Unused \/ (run[q] = Unused /\ q # r)
      /\ Serial(r) => seen = run[r] /\ run'[r] = new
  BY <1>1, <1>3, <1>4, WritesItsRun
<1>7. worker'[k] = v /\ \A j \in Worker \ {k} : worker'[j] = worker[j]
  BY <1>1 DEF IInv, TypeOK
<1> HIDE DEF r, seen
<1>8. \A j \in Worker \ {k} : worker[j] # Idle /\ worker[j].run = r => r \in overlapped'
  BY <1>1, <1>6 DEF ResultInv, OneAtATime, r
<1>9. Current(k)'
  BY <1>5, <1>7 DEF Current
<1>10. \A q \in Run \ {r} : q \in digest' <=> q \in digest
  BY <1>1
<1>11. \A q \in Run : q = r /\ Serial(q) => Tallied(q)'
  <2> SUFFICES ASSUME NEW q \in Run, q = r, Serial(q) PROVE Tallied(q)'
    OBVIOUS
  <2>1. /\ IsFiniteSet(Succeeded(q)) /\ IsFiniteSet(Failed(q))
        /\ run[q].succ = Cardinality(Succeeded(q)) /\ run[q].fail = Cardinality(Failed(q))
        /\ run[q].matched <=> Matched(q) # {}
        /\ q \in digest => Matched(q) # {}
    BY <1>6 DEF ResultInv, Tallied, Counted
  <2>2. run'[q] = new /\ seen = run[q]
    BY <1>6
  <2>3. Succeeded(q)' = Succeeded(q) /\ Failed(q)' = Failed(q) /\ Matched(q)' = Matched(q)
    BY <1>1 DEF Succeeded, Failed, Matched
  <2>4. /\ seen.succ \in Nat /\ seen.fail \in Nat
        /\ seen.succ > 0 <=> Succeeded(q) # {}
        /\ seen.fail > 0 <=> Failed(q) # {}
    BY <1>2, <2>1, <2>2, FS_EmptySet DEF RunRow
  <2>5. q \in digest' <=> Matched(q) # {}
    BY <1>1, <2>1, <2>2
  <2>6. Counted(q)'
    BY <1>3, <2>1, <2>2, <2>3 DEF Counted
  <2>7. new.status = "SUCCEEDED" <=> Succeeded(q) # {}
    BY <1>3, <2>4
  <2>8. new.outcome = "COMPLETED" <=> (Succeeded(q) # {} /\ Failed(q) = {})
    BY <1>3, <2>4
  <2> QED
    BY <2>1, <2>2, <2>3, <2>5, <2>6, <2>7, <2>8 DEF Tallied
<1>12. \A q \in Run : Serial(q)' => Tallied(q)'
  <2> SUFFICES ASSUME NEW q \in Run, Serial(q)' PROVE Tallied(q)'
    OBVIOUS
  <2>1. Serial(q) /\ Tallied(q)
    BY <1>6 DEF ResultInv
  <2>2. CASE q = r
    BY <1>11, <2>1, <2>2
  <2>3. CASE q # r
    <3>1. run'[q] = run[q] /\ fetch'[q] = fetch[q] /\ (q \in digest' <=> q \in digest)
      BY <1>1, <1>6, <1>10, <2>3
    <3> QED
      BY <2>1, <3>1, TallyKept
  <2> QED
    BY <2>2, <2>3
<1>13. \A q \in Run : run'[q] = Unused =>
           run[q] = Unused /\ fetch'[q] = fetch[q] /\ (q \in digest' <=> q \in digest)
  BY <1>1, <1>6, <1>10
<1>14. \A q \in Run : run'[q] # run[q] => worker[k] # Idle /\ worker[k].run = q
  BY <1>6 DEF r
<1> QED
  BY <1>1, <1>5, <1>6, <1>7, <1>8, <1>9, <1>12, <1>13, <1>14, WorkerActs

LEMMA ResultStep == IInv /\ ResultInv /\ [Next]_vars => ResultInv'
<1> SUFFICES ASSUME IInv, ResultInv, [Next]_vars PROVE ResultInv'
  OBVIOUS
<1>1. ASSUME NEW w \in Watch, Owner(w) PROVE ResultInv'
  <2>1. CASE Delete(w)
    BY <2>1, ResultDelete
  <2>2. CASE CommitManualRun(w) \/ \E d \in Day : EnqueueScheduled(w, d)
    BY <2>2, ResultInsert DEF CommitManualRun, EnqueueScheduled
  <2>3. CASE \/ Activate(w) \/ Pause(w) \/ Archive(w)
             \/ \E S \in SUBSET Source : Replace(w, S) \/ ImportSources(w, S)
             \/ CheckManualRun(w) \/ RejectManualRun(w)
    <3>1. UNCHANGED <<run, fetch, digest, worker, overlapped>>
      BY <2>3 DEF Activate, Pause, Archive, SetStatus, Replace, ImportSources,
                  CheckManualRun, RejectManualRun, dbVars, queueVars
    <3> QED
      BY <3>1, ResultFrame
  <2> QED
    BY <1>1, <2>1, <2>2, <2>3 DEF Owner
<1>2. ASSUME NEW r \in Run, Publish(r) \/ PublishUnmarked(r) PROVE ResultInv'
  <2>1. UNCHANGED <<run, fetch, digest, worker, overlapped>>
    BY <1>2 DEF Publish, PublishUnmarked, Send
  <2> QED
    BY <2>1, ResultFrame
<1>3. ASSUME NEW k \in Worker, Deliver(k) PROVE ResultInv'
  BY <1>3, ResultReceive DEF Deliver
<1>4. ASSUME NEW k \in Worker, Work(k) \/ Crash(k) PROVE ResultInv'
  <2>1. CASE Start(k) \/ RequeuePending(k) \/ Finish(k)
    BY <2>1, ResultStart, ResultRequeue, ResultFinish
  <2>2. CASE \/ \E s \in Source : SkipProcessed(k, s) \/ PickSource(k, s)
             \/ \E p \in {"failing", "pending", "source"} : RollBack(k, p)
    BY <2>2, ResultLoop
  <2>3. CASE SkipUnavailable(k) \/ SourceSucceeds(k) \/ RecordFailure(k)
    BY <2>3, ResultCount
  <2>4. CASE Ack(k) \/ Abort(k) \/ Crash(k)
    BY <2>4, ResultEnd
  <2> QED
    BY <1>4, <2>1, <2>2, <2>3, <2>4 DEF Work
<1>5. CASE UNCHANGED vars
  BY <1>5, ResultFrame DEF vars
<1> QED
  BY <1>1, <1>2, <1>3, <1>4, <1>5 DEF Next

\* No step of the pipeline but the deletion of its Watch touches a SUCCEEDED run.
LEMMA SucceededStep ==
    ASSUME IInv, ResultInv, [Next]_vars, NEW r \in Run, Serial(r), run[r].status = "SUCCEEDED"
    PROVE  run'[r] \in {run[r], Deleted}
<1>1. ASSUME NEW w \in Watch, Owner(w) PROVE run'[r] \in {run[r], Deleted}
  <2>1. CASE Delete(w)
    BY <2>1 DEF Delete
  <2>2. CASE CommitManualRun(w) \/ \E d \in Day : EnqueueScheduled(w, d)
    <3>1. PICK q \in Run, d \in Day \cup {0} :
              run[q] = Unused /\ run' = [run EXCEPT ![q] = NewRow(w, d)]
      BY <2>2 DEF CommitManualRun, EnqueueScheduled, Insert
    <3>2. q # r
      BY <3>1 DEF Unused
    <3> QED
      BY <3>1, <3>2 DEF IInv, TypeOK
  <2>3. CASE \/ Activate(w) \/ Pause(w) \/ Archive(w)
             \/ \E S \in SUBSET Source : Replace(w, S) \/ ImportSources(w, S)
             \/ CheckManualRun(w) \/ RejectManualRun(w)
    BY <2>3 DEF Activate, Pause, Archive, SetStatus, Replace, ImportSources,
                CheckManualRun, RejectManualRun, dbVars
  <2> QED
    BY <1>1, <2>1, <2>2, <2>3 DEF Owner
<1>2. ASSUME NEW q \in Run, Publish(q) \/ PublishUnmarked(q) PROVE run' = run
  BY <1>2 DEF Publish, PublishUnmarked, Send
<1>3. ASSUME NEW k \in Worker, Deliver(k) PROVE run' = run
  BY <1>3 DEF Deliver, ReceiveGone, ReceiveDone, ReceiveWork, Take, dbVars
<1>4. ASSUME NEW k \in Worker, Work(k) \/ Crash(k) PROVE run'[r] = run[r]
  <2>1. CASE Start(k) \/ RequeuePending(k) \/ Finish(k)
             \/ SkipUnavailable(k) \/ SourceSucceeds(k) \/ RecordFailure(k)
    <3>1. PICK new : Persist(k, new)
      BY <2>1 DEF Start, RequeuePending, Finish, SkipUnavailable, SourceSucceeds,
                  RecordFailure, Record
    <3>2. worker[k].pc \notin {"idle", "ack"}
      BY <2>1 DEF Start, RequeuePending, Finish, SkipUnavailable, SourceSucceeds,
                  RecordFailure, At
    <3>3. worker[k].run # r
      BY <3>2 DEF ResultInv, HoldsTheRow, Current
    <3> QED
      BY <3>1, <3>3 DEF Persist, IInv, TypeOK
  <2>2. CASE \/ \E s \in Source : SkipProcessed(k, s) \/ PickSource(k, s)
             \/ \E p \in {"failing", "pending", "source"} : RollBack(k, p)
             \/ Ack(k) \/ Abort(k) \/ Crash(k)
    BY <2>2 DEF SkipProcessed, PickSource, RollBack, Ack, Abort, Crash, dbVars
  <2> QED
    BY <1>4, <2>1, <2>2 DEF Work
<1>5. CASE UNCHANGED vars
  BY <1>5 DEF vars
<1> QED
  BY <1>1, <1>2, <1>3, <1>4, <1>5 DEF Next

-----------------------------------------------------------------------------
(* The theorems *)

THEOREM SpecIInv == Spec => []IInv
BY InitIInv, NextIInv, PTL DEF Spec

\* Every reachable state is well typed; in particular no message is received
\* more than MaxReceive times and no request counter leaves its range.
THEOREM TypeCorrect == Spec => []TypeOK
<1>1. IInv => TypeOK
  BY DEF IInv
<1>2. QED
  BY <1>1, SpecIInv, PTL

\* However many workers, copies, crashes and overlapping deliveries there are,
\* a QUEUED or RUNNING run always has an unpublished event, a message, or a
\* worker that has not acknowledged it.
THEOREM NoRunForgotten == Spec => []NoForgottenRun
<1>1. IInv => NoForgottenRun
  <2> SUFFICES ASSUME IInv, NEW r \in Run, Active(r)
               PROVE  Owed(r)
    BY DEF NoForgottenRun
  <2>1. \A k \in Worker : WillSettle(k, r) =>
            worker[k].pc \notin {"idle", "ack"} /\ worker[k].run = r
    BY DEF WillSettle
  <2>2. QED
    BY <2>1 DEF IInv, ActiveIsOwed, Owed
<1>2. QED
  BY <1>1, SpecIInv, PTL

\* active_marker is an exclusive lock per Watch, held by unsettled runs only,
\* also when deliveries overlap and workers write from stale rows.
THEOREM LockIsDisciplined == Spec => []LockDiscipline
<1>1. IInv => LockDiscipline
  BY DEF IInv
<1>2. QED
  BY <1>1, SpecIInv, PTL

LEMMA ResultHolds == Spec => [](IInv /\ ResultInv)
<1>1. Init => IInv /\ ResultInv
  BY InitIInv, ResultInit
<1>2. (IInv /\ ResultInv) /\ [Next]_vars => (IInv /\ ResultInv)'
  BY NextIInv, ResultStep
<1> QED
  BY <1>1, <1>2, PTL DEF Spec

\* While deliveries of a run do not overlap, however many there are, whatever fails or
\* crashes between its commits and whatever edits of the Watch do to its sources, its
\* counters count its SourceFetch rows, and the final status, the outcome and the digest
\* say what the sources did (DiscoveryProcessor.process).
THEOREM ResultsAreTruthful == Spec => []ResultIsTruthful
<1>1. ResultInv => ResultIsTruthful
  BY DEF ResultInv, Tallied, ResultIsTruthful
<1> QED
  BY <1>1, ResultHolds, PTL

\* A redelivered message then never changes a SUCCEEDED run: the early return of
\* DiscoveryProcessor.process is enough, because no worker that passed it before is left.
THEOREM SucceededStays == Spec => SucceededIsFinal
<1>1. (IInv /\ ResultInv) /\ [Next]_vars =>
          [\A r \in Run : Serial(r) /\ run[r].status = "SUCCEEDED" =>
               run[r]' \in {run[r], Deleted}]_vars
  BY SucceededStep
<1> QED
  BY <1>1, ResultHolds, PTL DEF Spec, SucceededIsFinal

=============================================================================
