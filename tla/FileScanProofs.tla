--------------------------- MODULE FileScanProofs ---------------------------
(***************************************************************************)
(* TLAPS proofs about FileScan, for any number of requests, workers,        *)
(* messages and faults.  StillScannable and CleanHasObject are not          *)
(* inductive: what a request has found, and what a worker holds between the *)
(* copy and its commit, has to be present too.  CleanIsFinal rests on who   *)
(* may have the row in hand while nothing overlaps.                         *)
(***************************************************************************)
EXTENDS FileScan, TLAPS

\* The keys that hold an object or held one until the owner erased it.
Present == object \cup erased

\* A message that can be received has receives left.
ReceivesLeft ==
    \A m \in Message :
        /\ message[m] = "UNSENT" => receives[m] = 0
        /\ message[m] = "VISIBLE" => receives[m] < MaxReceive

\* The row's object is there once a request has found it.
RowPresent ==
    file # NoRow =>
        /\ (file.status # "UPLOADING" \/ \E r \in Request : request[r] = "READ")
               => file.key \in Present
        /\ file.status = "CLEAN" => file.key = "original"

\* What a worker holds is there, and the row is not behind what it holds.
WorksOnPresent(k) ==
    worker[k] # Idle =>
        /\ worker[k].seen.key \in Present
        /\ worker[k].pc = "clean" => "original" \in Present
        /\ file # NoRow => file.status # "UPLOADING"
        /\ (file # NoRow /\ worker[k].seen.key = "original") => file.key = "original"

IInv ==
    /\ TypeOK
    /\ ReceivesLeft
    /\ RowPresent
    /\ \A k \in Worker : WorksOnPresent(k)

-----------------------------------------------------------------------------
(* The invariant holds initially *)

LEMMA InitIInv == Init => IInv
<1> SUFFICES ASSUME Init
             PROVE  IInv
  OBVIOUS
<1>1. TypeOK
  <2>1. file \in Row /\ deletion \in [pc : {"NONE", "READ", "ERASED"}, key : Key]
    BY DEF Init, Row, Status, Key
  <2>2. file # NoRow
    BY DEF Init, NoRow
  <2>3. receives \in [Message -> 0..MaxReceive] /\ faults \in 0..MaxFaults
    BY ScanConstants DEF Init
  <2> QED
    BY <2>1, <2>2, <2>3 DEF Init, TypeOK
<1>2. ReceivesLeft
  BY ScanConstants DEF Init, ReceivesLeft
<1>3. RowPresent
  BY DEF Init, RowPresent
<1>4. \A k \in Worker : WorksOnPresent(k)
  BY DEF Init, WorksOnPresent
<1> QED
  BY <1>1, <1>2, <1>3, <1>4 DEF IInv

-----------------------------------------------------------------------------
(* Types, one lemma per actor *)

Typed == TypeOK /\ ReceivesLeft

LEMMA OwnerTyped ==
    ASSUME Typed,
           \/ Upload \/ ReadForDeletion \/ EraseObject \/ DeleteRows \/ AbandonDeletion
           \/ \E r \in Request : ReadUpload(r) \/ CompleteUpload(r)
    PROVE  Typed'
<1>1. CASE Upload
  BY <1>1 DEF Typed, Upload, TypeOK, ReceivesLeft, rows, queue, Key
<1>2. CASE ReadForDeletion
  <2>1. deletion' \in [pc : {"NONE", "READ", "ERASED"}, key : Key]
    BY <1>2 DEF Typed, ReadForDeletion, TypeOK, Row
  <2> QED
    BY <1>2, <2>1 DEF Typed, ReadForDeletion, TypeOK, ReceivesLeft, rows, queue
<1>3. CASE EraseObject
  BY <1>3 DEF Typed, EraseObject, TypeOK, ReceivesLeft, rows, queue
<1>4. CASE DeleteRows
  BY <1>4 DEF Typed, DeleteRows, TypeOK, ReceivesLeft, queue
<1>5. CASE AbandonDeletion
  BY <1>5, ScanConstants DEF Typed, AbandonDeletion, Fault, TypeOK, ReceivesLeft, rows, queue
<1>6. ASSUME NEW r \in Request, ReadUpload(r)
      PROVE  Typed'
  BY <1>6 DEF Typed, ReadUpload, TypeOK, ReceivesLeft, rows, queue
<1>7. ASSUME NEW r \in Request, CompleteUpload(r)
      PROVE  Typed'
  <2>1. request' \in [Request -> {"IDLE", "READ"}]
    BY <1>7 DEF Typed, CompleteUpload, TypeOK
  <2>2. /\ file' \in Row \cup {NoRow}
        /\ cv' \in {"UPLOADING", "SCANNING", "ACTIVE", "REJECTED", "DELETED"}
        /\ event' \in BOOLEAN
        /\ (file' = NoRow) = (cv' = "DELETED")
    <3>1. CASE file = NoRow
      BY <1>7, <3>1 DEF Typed, CompleteUpload, TypeOK, rows
    <3>2. CASE file # NoRow
      <4>1. file \in Row
        BY <3>2 DEF Typed, TypeOK
      <4> QED
        BY <1>7, <3>2, <4>1 DEF Typed, CompleteUpload, TypeOK, Row, NoRow, Status
    <3> QED
      BY <3>1, <3>2
  <2> QED
    BY <1>7, <2>1, <2>2 DEF Typed, CompleteUpload, TypeOK, ReceivesLeft
<1> QED
  BY <1>1, <1>2, <1>3, <1>4, <1>5, <1>6, <1>7

LEMMA QueueTyped ==
    ASSUME Typed, NEW m \in Message, Send(m) \/ Deliver(m)
    PROVE  Typed'
<1>1. CASE Send(m)
  BY <1>1, ScanConstants DEF Typed, Send, TypeOK, ReceivesLeft, rows
<1>2. ASSUME NEW k \in Worker, ReceiveDone(k, m) \/ ReceiveRefused(k, m) \/ Load(k, m)
      PROVE  Typed'
  <2>1. /\ receives' = [receives EXCEPT ![m] = @ + 1]
        /\ receives[m] \in Nat /\ receives[m] < MaxReceive
        /\ UNCHANGED <<rows, object, request, deletion, event, erased, faults>>
    BY <1>2, ScanConstants DEF Typed, TypeOK, ReceivesLeft, ReceiveDone, ReceiveRefused, Load, Receive
  <2>2. receives' \in [Message -> 0..MaxReceive]
    BY <2>1, ScanConstants DEF Typed, TypeOK
  <2>3. \E s \in {"ACKED", "INFLIGHT", "VISIBLE", "DLQ"} :
            /\ message' = [message EXCEPT ![m] = s]
            /\ s = "VISIBLE" => receives'[m] < MaxReceive
    BY <1>2, <2>2, ScanConstants
       DEF ReceiveDone, ReceiveRefused, Load, Acknowledge, Raise, Returned
  <2>4. worker' \in [Worker -> {Idle} \cup Busy]
    <3>1. CASE UNCHANGED worker
      BY <3>1 DEF Typed, TypeOK
    <3>2. CASE Load(k, m)
      <4>1. file \in Row
        BY <3>2 DEF Typed, TypeOK, Load, Ready, NoRow
      <4>2. [pc |-> "start", message |-> m, seen |-> file] \in Busy
        BY <4>1 DEF Busy
      <4> QED
        BY <3>2, <4>2 DEF Load, Typed, TypeOK
    <3> QED
      BY <1>2, <3>1, <3>2 DEF ReceiveDone, ReceiveRefused
  <2>5. ReceivesLeft'
    BY <2>1, <2>3 DEF Typed, TypeOK, ReceivesLeft
  <2>6. overlapped' \in BOOLEAN
    <3>1. overlapped' = (overlapped \/ \E j \in Worker : worker[j] # Idle)
      BY <1>2 DEF ReceiveDone, ReceiveRefused, Load, Receive
    <3> QED
      BY <3>1, Zenon
  <2> QED
    BY <2>1, <2>2, <2>3, <2>4, <2>5, <2>6 DEF Typed, TypeOK, rows
<1> QED
  BY <1>1, <1>2 DEF Deliver

\* How a message that a worker holds goes back or away.
LEMMA SettledTyped ==
    ASSUME Typed, NEW m \in Message, UNCHANGED receives,
           Raise(m) \/ Acknowledge(m)
    PROVE  /\ message' \in [Message -> {"UNSENT", "VISIBLE", "INFLIGHT", "ACKED", "DLQ"}]
           /\ receives' \in [Message -> 0..MaxReceive]
           /\ ReceivesLeft'
<1>1. \E s \in {"ACKED", "VISIBLE", "DLQ"} :
          /\ message' = [message EXCEPT ![m] = s]
          /\ s = "VISIBLE" => receives'[m] < MaxReceive
  BY ScanConstants DEF Typed, TypeOK, Acknowledge, Raise, Returned
<1> QED
  BY <1>1 DEF Typed, TypeOK, ReceivesLeft

LEMMA WorkerTyped ==
    ASSUME Typed, NEW k \in Worker, Work(k) \/ Crash(k)
    PROVE  Typed'
<1> DEFINE w == worker[k]
<1>1. w # Idle /\ w \in Busy
  BY DEF Typed, TypeOK, Work, Crash, LoseRow, CommitScanning, Scan, CommitUnscanned,
         CommitRejected, Promote, PromoteFails, CommitClean, At, Idle
<1>2. /\ w.message \in Message /\ w.seen \in Row
      /\ w = [pc |-> w.pc, message |-> w.message, seen |-> w.seen]
  BY <1>1 DEF Busy
<1>3. CASE LoseRow(k) \/ PromoteFails(k)
  <2>1. Finish(k) /\ Raise(w.message) /\ UNCHANGED <<rows, faults>>
    BY <1>3 DEF LoseRow, PromoteFails
  <2> QED
    BY <1>2, <2>1, SettledTyped DEF Finish, Typed, TypeOK, rows
<1>4. CASE CommitScanning(k)
  <2>1. file' \in Row /\ file # NoRow /\ file' # NoRow
    BY <1>2, <1>4 DEF CommitScanning, Merge, Typed, TypeOK, Row, Status, NoRow
  <2>2. [pc |-> "scan", message |-> w.message,
         seen |-> [status |-> "SCANNING", key |-> w.seen.key]] \in Busy
    BY <1>2 DEF Busy, Row, Status
  <2>3. worker' \in [Worker -> {Idle} \cup Busy]
    BY <1>4, <2>2 DEF CommitScanning, Typed, TypeOK
  <2> QED
    BY <1>4, <2>1, <2>3 DEF CommitScanning, Typed, TypeOK, ReceivesLeft, queue
<1>5. CASE Scan(k)
  <2>1. worker' \in [Worker -> {Idle} \cup Busy]
    BY <1>1, <1>2, <1>5 DEF Scan, Typed, TypeOK, Busy
  <2> QED
    BY <1>5, <2>1, ScanConstants DEF Scan, Fault, Typed, TypeOK, ReceivesLeft, rows, queue
<1>6. CASE CommitUnscanned(k) \/ CommitRejected(k)
  <2>1. /\ Finish(k) /\ UNCHANGED faults
        /\ Raise(w.message) \/ Acknowledge(w.message)
    BY <1>6 DEF CommitUnscanned, CommitRejected
  <2>2. file' \in Row /\ file # NoRow /\ file' # NoRow /\ cv' \in {cv, "REJECTED"}
    BY <1>6 DEF CommitUnscanned, CommitRejected, Typed, TypeOK, Row, Status, NoRow
  <2> QED
    BY <1>2, <2>1, <2>2, SettledTyped DEF Finish, Typed, TypeOK
<1>7. CASE Promote(k)
  <2>1. worker' \in [Worker -> {Idle} \cup Busy]
    BY <1>1, <1>2, <1>7 DEF Promote, Typed, TypeOK, Busy
  <2> QED
    BY <1>7, <2>1 DEF Promote, Promoted, Typed, TypeOK, ReceivesLeft, rows, queue, Key
<1>8. CASE CommitClean(k)
  <2>1. /\ Finish(k) /\ UNCHANGED faults
        /\ Acknowledge(w.message)
    BY <1>8 DEF CommitClean
  <2>2. file' \in Row /\ file' # NoRow /\ cv' = "ACTIVE"
    BY <1>8 DEF CommitClean, Merge, Typed, TypeOK, Row, Status, Key, NoRow
  <2> QED
    BY <1>2, <2>1, <2>2, SettledTyped DEF Finish, Typed, TypeOK
<1>9. CASE Crash(k)
  <2>1. Finish(k) /\ Raise(w.message) /\ UNCHANGED rows /\ faults' \in 0..MaxFaults
    BY <1>9, ScanConstants DEF Crash, Fault, Typed, TypeOK
  <2> QED
    BY <1>2, <2>1, SettledTyped DEF Finish, Typed, TypeOK, rows
<1> QED
  BY <1>3, <1>4, <1>5, <1>6, <1>7, <1>8, <1>9 DEF Work

-----------------------------------------------------------------------------
(* What is found stays found *)

\* No step takes a key out of Present, makes a row that is gone or completed a new
\* upload, or leads a row back to its quarantine key.
Forward ==
    /\ Present \subseteq Present'
    /\ file' # NoRow =>
           /\ file # NoRow
           /\ file'.status = "UPLOADING" => file.status = "UPLOADING"
           /\ file.key = "original" => file'.key = "original"

LEMMA WorkerUndisturbed ==
    ASSUME Forward, NEW k \in Worker, worker'[k] = worker[k], WorksOnPresent(k)
    PROVE  WorksOnPresent(k)'
BY DEF Forward, WorksOnPresent

LEMMA WorkerReleased ==
    ASSUME NEW k \in Worker, worker'[k] = Idle
    PROVE  WorksOnPresent(k)'
BY DEF WorksOnPresent

LEMMA RowUndisturbed ==
    ASSUME Forward, RowPresent, file' = file,
           \A r \in Request : request'[r] = "READ" => request[r] = "READ" \/ file.key \in Present'
    PROVE  RowPresent'
BY DEF Forward, RowPresent

LEMMA OwnerPresent ==
    ASSUME IInv,
           \/ Upload \/ ReadForDeletion \/ EraseObject \/ DeleteRows \/ AbandonDeletion
           \/ \E r \in Request : ReadUpload(r) \/ CompleteUpload(r)
    PROVE  RowPresent' /\ \A k \in Worker : WorksOnPresent(k)'
<1>1. worker' = worker
  BY DEF Upload, ReadForDeletion, EraseObject, DeleteRows, AbandonDeletion, ReadUpload,
         CompleteUpload
<1>2. SUFFICES Forward /\ RowPresent'
  BY <1>1, WorkerUndisturbed DEF IInv
<1>3. CASE Upload \/ ReadForDeletion \/ AbandonDeletion \/ EraseObject
  <2>1. file' = file /\ request' = request /\ Present \subseteq Present'
    BY <1>3 DEF Upload, ReadForDeletion, AbandonDeletion, EraseObject, rows, Present
  <2>2. Forward
    BY <2>1 DEF Forward
  <2> QED
    BY <2>1, <2>2, RowUndisturbed DEF IInv
<1>4. CASE DeleteRows
  BY <1>4 DEF DeleteRows, Forward, RowPresent, Present
<1>5. ASSUME NEW r \in Request, ReadUpload(r)
      PROVE  Forward /\ RowPresent'
  <2>1. /\ file' = file /\ Present' = Present /\ file.key \in Present
    BY <1>5 DEF ReadUpload, rows, Present
  <2>2. Forward
    BY <2>1 DEF Forward
  <2> QED
    BY <2>1, <2>2, RowUndisturbed DEF IInv
<1>6. ASSUME NEW r \in Request, CompleteUpload(r)
      PROVE  Forward /\ RowPresent'
  <2>1. Present' = Present /\ request[r] = "READ"
    BY <1>6 DEF CompleteUpload, Present
  <2>2. CASE file = NoRow
    BY <1>6, <2>1, <2>2 DEF CompleteUpload, rows, Forward, RowPresent
  <2>3. CASE file # NoRow
    <3>1. file \in Row /\ file.key \in Present
      BY <2>1, <2>3 DEF IInv, TypeOK, RowPresent
    <3>2. /\ file'.key = file.key
          /\ file'.status \in {"QUARANTINED", "REJECTED"}
      BY <1>6, <2>3, <3>1 DEF CompleteUpload, rows, Row
    <3> QED
      BY <2>1, <2>3, <3>1, <3>2 DEF Forward, RowPresent
  <2> QED
    BY <2>2, <2>3
<1> QED
  BY <1>3, <1>4, <1>5, <1>6

LEMMA QueuePresent ==
    ASSUME IInv, NEW m \in Message, Send(m) \/ Deliver(m)
    PROVE  RowPresent' /\ \A k \in Worker : WorksOnPresent(k)'
<1>1. file' = file /\ request' = request /\ Present' = Present
  BY DEF Send, Deliver, ReceiveDone, ReceiveRefused, Load, Receive, rows, Present
<1>2. Forward
  BY <1>1 DEF Forward
<1>3. RowPresent'
  BY <1>1, <1>2, RowUndisturbed DEF IInv
<1>4. CASE UNCHANGED worker
  BY <1>2, <1>3, <1>4, WorkerUndisturbed DEF IInv
<1>5. ASSUME NEW k \in Worker, Load(k, m)
      PROVE  \A j \in Worker : WorksOnPresent(j)'
  <2>1. /\ worker' = [worker EXCEPT ![k] = [pc |-> "start", message |-> m, seen |-> file]]
        /\ file.status \in Ready
    BY <1>5 DEF Load
  <2>2. worker'[k] = [pc |-> "start", message |-> m, seen |-> file]
    BY <2>1 DEF IInv, TypeOK
  <2>3. file # NoRow /\ file.key \in Present /\ file.status # "UPLOADING"
    BY <2>1 DEF IInv, RowPresent, Ready, NoRow
  <2>4. WorksOnPresent(k)'
    BY <1>1, <2>2, <2>3 DEF WorksOnPresent
  <2>5. ASSUME NEW j \in Worker, j # k PROVE WorksOnPresent(j)'
    BY <1>2, <2>1, <2>5, WorkerUndisturbed DEF IInv, TypeOK
  <2> QED
    BY <2>4, <2>5
<1> QED
  BY <1>3, <1>4, <1>5 DEF Send, Deliver, ReceiveDone, ReceiveRefused

LEMMA WorkerPresent ==
    ASSUME IInv, NEW k \in Worker, Work(k) \/ Crash(k)
    PROVE  RowPresent' /\ \A j \in Worker : WorksOnPresent(j)'
<1> DEFINE w == worker[k]
<1>1. w # Idle /\ w \in Busy
  BY DEF IInv, TypeOK, Work, Crash, LoseRow, CommitScanning, Scan, CommitUnscanned,
         CommitRejected, Promote, PromoteFails, CommitClean, At, Idle
<1>2. /\ w.seen \in Row /\ w.seen.key \in Present
      /\ w.pc = "clean" => "original" \in Present
      /\ file # NoRow => /\ file \in Row /\ file.status # "UPLOADING"
                         /\ file.key \in Present
                         /\ w.seen.key = "original" => file.key = "original"
  BY <1>1 DEF IInv, TypeOK, RowPresent, WorksOnPresent, Busy
<1>3. \A j \in Worker : j # k => worker'[j] = worker[j]
  BY DEF IInv, TypeOK, Work, Crash, LoseRow, CommitScanning, Scan, CommitUnscanned,
         CommitRejected, Promote, PromoteFails, CommitClean, Finish
<1>4. request' = request
  BY DEF Work, Crash, LoseRow, CommitScanning, Scan, CommitUnscanned,
         CommitRejected, Promote, PromoteFails, CommitClean, Finish
<1>5. SUFFICES Forward /\ RowPresent' /\ WorksOnPresent(k)'
  BY <1>3, WorkerUndisturbed DEF IInv
<1>6. CASE LoseRow(k) \/ PromoteFails(k) \/ Crash(k)
  <2>1. file' = file /\ Present' = Present /\ worker'[k] = Idle
    BY <1>6 DEF LoseRow, PromoteFails, Crash, Finish, rows, Present, IInv, TypeOK
  <2>2. Forward
    BY <2>1 DEF Forward
  <2> QED
    BY <1>4, <2>1, <2>2, RowUndisturbed, WorkerReleased DEF IInv
<1>7. CASE CommitScanning(k)
  <2>1. /\ file # NoRow /\ Present' = Present
        /\ file'.key = file.key
        /\ file'.status \in {file.status, "SCANNING"}
    BY <1>2, <1>7 DEF CommitScanning, Merge, Present, Row
  <2>2. worker'[k] = [pc |-> "scan", message |-> w.message,
                      seen |-> [status |-> "SCANNING", key |-> w.seen.key]]
    BY <1>7 DEF CommitScanning, IInv, TypeOK
  <2>3. Forward
    BY <2>1 DEF Forward
  <2>4. RowPresent'
    BY <1>2, <2>1 DEF IInv, RowPresent
  <2>5. WorksOnPresent(k)'
    BY <1>2, <2>1, <2>2 DEF WorksOnPresent
  <2> QED
    BY <2>3, <2>4, <2>5
<1>8. CASE Scan(k)
  <2>1. /\ file' = file /\ Present' = Present
        /\ worker'[k].seen = w.seen /\ worker'[k].pc # "clean"
    BY <1>1, <1>8 DEF Scan, rows, Present, IInv, TypeOK, Busy
  <2>2. Forward
    BY <2>1 DEF Forward
  <2>3. WorksOnPresent(k)'
    BY <1>2, <2>1 DEF WorksOnPresent
  <2> QED
    BY <1>4, <2>1, <2>2, <2>3, RowUndisturbed DEF IInv
<1>9. CASE CommitUnscanned(k) \/ CommitRejected(k)
  <2>1. /\ file # NoRow /\ Present' = Present
        /\ file'.key = file.key
        /\ file'.status \in {"QUARANTINED", "REJECTED"}
        /\ worker'[k] = Idle
    BY <1>2, <1>9 DEF CommitUnscanned, CommitRejected, Finish, Present, Row, IInv, TypeOK
  <2>2. Forward
    BY <2>1 DEF Forward
  <2>3. RowPresent'
    BY <1>2, <2>1 DEF RowPresent
  <2> QED
    BY <2>1, <2>2, <2>3, WorkerReleased
<1>10. CASE Promote(k)
  <2>1. /\ file' = file /\ Present' = Present \cup {"original"}
        /\ worker'[k].seen = w.seen
    BY <1>1, <1>10 DEF Promote, Promoted, rows, Present, IInv, TypeOK, Busy
  <2>2. Forward
    BY <2>1 DEF Forward
  <2>3. WorksOnPresent(k)'
    BY <1>2, <2>1 DEF WorksOnPresent
  <2> QED
    BY <1>4, <2>1, <2>2, <2>3, RowUndisturbed DEF IInv
<1>11. CASE CommitClean(k)
  <2>1. /\ file # NoRow /\ Present' = Present /\ worker'[k] = Idle /\ w.pc = "clean"
        /\ file' = [status |-> "CLEAN", key |-> Merge(file.key, w.seen.key, "original")]
    BY <1>11 DEF CommitClean, Finish, At, Present, IInv, TypeOK
  <2>2. file'.key = "original" /\ file'.status = "CLEAN"
    BY <1>2, <2>1 DEF Merge
  <2>3. Forward
    BY <2>1, <2>2 DEF Forward
  <2>4. RowPresent'
    BY <1>2, <2>1, <2>2 DEF RowPresent
  <2> QED
    BY <2>1, <2>3, <2>4, WorkerReleased
<1> QED
  BY <1>6, <1>7, <1>8, <1>9, <1>10, <1>11 DEF Work

-----------------------------------------------------------------------------
(* The invariant *)

LEMMA StepIInv == IInv /\ [Next]_vars => IInv'
<1> SUFFICES ASSUME IInv, [Next]_vars
             PROVE  IInv'
  OBVIOUS
<1>1. SUFFICES Typed' /\ RowPresent' /\ \A k \in Worker : WorksOnPresent(k)'
  BY DEF IInv, Typed
<1>2. Typed
  BY DEF IInv, Typed
<1>3. CASE UNCHANGED vars
  BY <1>2, <1>3 DEF vars, Typed, TypeOK, ReceivesLeft, IInv, RowPresent, WorksOnPresent, Present
<1>4. CASE \/ Upload \/ ReadForDeletion \/ EraseObject \/ DeleteRows \/ AbandonDeletion
           \/ \E r \in Request : ReadUpload(r) \/ CompleteUpload(r)
  BY <1>2, <1>4, OwnerTyped, OwnerPresent
<1>5. ASSUME NEW m \in Message, Send(m) \/ Deliver(m)
      PROVE  Typed' /\ RowPresent' /\ \A k \in Worker : WorksOnPresent(k)'
  BY <1>2, <1>5, QueueTyped, QueuePresent
<1>6. ASSUME NEW k \in Worker, Work(k) \/ Crash(k)
      PROVE  Typed' /\ RowPresent' /\ \A j \in Worker : WorksOnPresent(j)'
  BY <1>2, <1>6, WorkerTyped, WorkerPresent
<1> QED
  BY <1>3, <1>4, <1>5, <1>6 DEF Next

LEMMA Invariant == Spec => []IInv
BY InitIInv, StepIInv, PTL DEF Spec

-----------------------------------------------------------------------------
(* While nothing overlaps *)

\* While nothing overlaps, one actor at a time has the row in hand, in the state in which
\* it took it up: a request the row UPLOADING, a worker the row waiting for its scan.
InOneHand ==
    ~overlapped =>
        /\ \A q, r \in Request : request[q] = "READ" /\ request[r] = "READ" => q = r
        /\ \A j, k \in Worker : worker[j] # Idle /\ worker[k] # Idle => j = k
        /\ \A r \in Request : request[r] = "READ" => file.status \in {"UPLOADING", "DELETED"}
        /\ \A k \in Worker : worker[k] # Idle => file.status \in Ready \cup {"DELETED"}

LEMMA InOneHandInit == Init => InOneHand
BY DEF Init, InOneHand

LEMMA InOneHandStep == IInv /\ InOneHand /\ [Next]_vars => InOneHand'
<1> SUFFICES ASSUME IInv, InOneHand, [Next]_vars, ~overlapped'
             PROVE  /\ \A q, r \in Request : request'[q] = "READ" /\ request'[r] = "READ" => q = r
                    /\ \A j, k \in Worker : worker'[j] # Idle /\ worker'[k] # Idle => j = k
                    /\ \A r \in Request : request'[r] = "READ" =>
                           file'.status \in {"UPLOADING", "DELETED"}
                    /\ \A k \in Worker : worker'[k] # Idle => file'.status \in Ready \cup {"DELETED"}
  BY DEF InOneHand
<1> USE DEF InOneHand
<1>1. CASE \/ Upload \/ ReadForDeletion \/ EraseObject \/ DeleteRows \/ AbandonDeletion
           \/ UNCHANGED vars \/ \E m \in Message : Send(m)
  <2>1. UNCHANGED <<request, worker, overlapped>> /\ file' \in {file, NoRow}
    BY <1>1 DEF Upload, ReadForDeletion, EraseObject, DeleteRows, AbandonDeletion, Send, rows, vars
  <2>2. NoRow.status = "DELETED"
    BY DEF NoRow
  <2> QED
    BY <2>1, <2>2
<1>2. CASE \E r \in Request : ReadUpload(r)
  <2>1. PICK r \in Request : ReadUpload(r)
    BY <1>2
  <2>2. /\ file.status = "UPLOADING" /\ ~overlapped
        /\ \A q \in Request : request[q] # "READ"
        /\ UNCHANGED <<file, worker>>
        /\ request' = [request EXCEPT ![r] = "READ"]
    BY <2>1 DEF ReadUpload, rows
  <2>3. \A q \in Request : request'[q] = "READ" => q = r
    BY <2>2 DEF IInv, TypeOK
  <2> QED
    BY <2>2, <2>3 DEF Ready
<1>3. CASE \E r \in Request : CompleteUpload(r)
  <2>1. PICK r \in Request : CompleteUpload(r)
    BY <1>3
  <2>2. /\ request[r] = "READ" /\ UNCHANGED <<worker, overlapped>>
        /\ request' = [request EXCEPT ![r] = "IDLE"]
    BY <2>1 DEF CompleteUpload
  <2>3. \A q \in Request : request'[q] # "READ"
    BY <2>2 DEF IInv, TypeOK
  <2>4. \A k \in Worker : worker[k] # Idle => file' = file
    <3>1. file.status = "UPLOADING" => \A k \in Worker : worker[k] = Idle
      BY <2>2 DEF Ready
    <3>2. file.status = "DELETED" => file = NoRow
      BY DEF IInv, TypeOK, Row, Status
    <3> QED
      BY <2>1, <2>2, <3>1, <3>2 DEF CompleteUpload, rows
  <2> QED
    BY <2>2, <2>3, <2>4
<1>4. CASE \E m \in Message : Deliver(m)
  <2>1. PICK m \in Message, k \in Worker : ReceiveDone(k, m) \/ ReceiveRefused(k, m) \/ Load(k, m)
    BY <1>4 DEF Deliver
  <2>2. /\ ~overlapped /\ \A j \in Worker : worker[j] = Idle
        /\ UNCHANGED <<file, request>>
    BY <2>1 DEF ReceiveDone, ReceiveRefused, Load, Receive, rows
  <2>3. CASE UNCHANGED worker
    BY <2>2, <2>3
  <2>4. CASE Load(k, m)
    <3>1. file.status \in Ready /\ \A j \in Worker : worker'[j] # Idle => j = k
      BY <2>2, <2>4 DEF Load, IInv, TypeOK
    <3> QED
      BY <2>2, <3>1
  <2> QED
    BY <2>1, <2>3, <2>4 DEF ReceiveDone, ReceiveRefused
<1>5. CASE \E k \in Worker : Work(k) \/ Crash(k)
  <2>1. PICK k \in Worker : Work(k) \/ Crash(k)
    BY <1>5
  <2>2. /\ worker[k] # Idle /\ UNCHANGED <<request, overlapped>>
        /\ \A j \in Worker : j # k => worker'[j] = worker[j]
    BY <2>1 DEF Work, Crash, LoseRow, CommitScanning, Scan, CommitUnscanned, CommitRejected,
                Promote, PromoteFails, CommitClean, Finish, At, Idle, IInv, TypeOK
  <2>3. file.status \in Ready \cup {"DELETED"} /\ \A j \in Worker : worker[j] # Idle => j = k
    BY <2>2
  <2>4. \A r \in Request : request[r] = "READ" => file = NoRow
    BY <2>2, <2>3 DEF Ready, IInv, TypeOK, Row, Status
  <2>5. file = NoRow => file' = NoRow
    BY <2>1 DEF Work, Crash, LoseRow, CommitScanning, Scan, CommitUnscanned, CommitRejected,
                Promote, PromoteFails, CommitClean, rows
  <2>6. worker'[k] # Idle => file'.status \in Ready \cup {"DELETED"}
    <3>1. CASE Scan(k) \/ Promote(k)
      BY <2>3, <3>1 DEF Scan, Promote, rows
    <3>2. CASE CommitScanning(k)
      <4>1. file \in Row
        BY <3>2 DEF CommitScanning, IInv, TypeOK
      <4>2. file'.status \in {file.status, "SCANNING"}
        BY <3>2, <4>1 DEF CommitScanning, Merge, Row
      <4> QED
        BY <2>3, <4>2 DEF Ready
    <3>3. CASE Finish(k)
      BY <3>3 DEF Finish, IInv, TypeOK
    <3> QED
      BY <2>1, <3>1, <3>2, <3>3 DEF Work, Crash, LoseRow, CommitUnscanned, CommitRejected,
                                    PromoteFails, CommitClean
  <2> QED
    BY <2>2, <2>3, <2>4, <2>5, <2>6 DEF NoRow
<1> QED
  BY <1>1, <1>2, <1>3, <1>4, <1>5 DEF Next

-----------------------------------------------------------------------------
(* Theorems *)

\* The rows keep their types and go together, and no message is received more than
\* MaxReceive times (CvService, FileScanService.process, the redrive policy).
THEOREM TypeCorrect == Spec => []TypeOK
BY Invariant, PTL DEF IInv

\* A file that waits for its scan can be scanned: whatever overlaps or dies, its
\* object is where the row says unless the owner erased it (FileScanService.process
\* copies before it commits, and never moves).
THEOREM ScannableAlways == Spec => []StillScannable
<1>1. IInv => StillScannable
  BY DEF IInv, RowPresent, StillScannable, Present, Ready, NoRow
<1> QED
  BY <1>1, Invariant, PTL

\* A file that is served as clean points to its promoted copy, and the copy exists
\* unless the owner erased it (CvService.download reads both).
THEOREM CleanServed == Spec => []CleanHasObject
<1>1. IInv => CleanHasObject
  BY DEF IInv, RowPresent, CleanHasObject, Present, NoRow
<1> QED
  BY <1>1, Invariant, PTL

\* A clean file does not go back while nothing overlaps: every worker and request that
\* could write its row has ended (FileScanService.process returns early for it).
THEOREM CleanStays == Spec => CleanIsFinal
<1>1. ASSUME IInv, InOneHand, Next, file.status = "CLEAN", ~overlapped
      PROVE  file'.status \in {"CLEAN", "DELETED"}
  <2>1. (\A r \in Request : request[r] # "READ") /\ (\A k \in Worker : worker[k] = Idle)
    BY <1>1 DEF InOneHand, Ready
  <2>2. ~(\E k \in Worker : Work(k) \/ Crash(k))
    BY <2>1 DEF Work, Crash, LoseRow, CommitScanning, Scan, CommitUnscanned, CommitRejected,
                Promote, PromoteFails, CommitClean, At, Idle
  <2>3. ~(\E r \in Request : CompleteUpload(r))
    BY <2>1 DEF CompleteUpload
  <2>4. file' \in {file, NoRow}
    BY <1>1, <2>2, <2>3 DEF Next, Upload, ReadForDeletion, EraseObject, DeleteRows,
           AbandonDeletion, ReadUpload, Send, Deliver, ReceiveDone, ReceiveRefused, Load,
           Receive, rows
  <2> QED
    BY <1>1, <2>4 DEF NoRow
<1>2. (IInv /\ InOneHand) /\ [Next]_vars =>
          [(file.status = "CLEAN" /\ ~overlapped) => file'.status \in {"CLEAN", "DELETED"}]_vars
  BY <1>1 DEF vars
<1>3. Init => IInv /\ InOneHand
  BY InitIInv, InOneHandInit
<1>4. (IInv /\ InOneHand) /\ [Next]_vars => (IInv /\ InOneHand)'
  BY StepIInv, InOneHandStep
<1> QED
  BY <1>2, <1>3, <1>4, PTL DEF Spec, CleanIsFinal
=============================================================================
