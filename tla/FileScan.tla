------------------------------ MODULE FileScan ------------------------------
(***************************************************************************)
(* One uploaded CV: the PrivateFile and BaseCv rows, the object under its   *)
(* quarantine key and the copy under its original key, the requests that    *)
(* complete the upload (CvService.complete_upload) and delete it            *)
(* (CvService.delete), and the workers that scan it (FileScanService).      *)
(***************************************************************************)
EXTENDS Naturals, FiniteSets

CONSTANTS
    Request,         \* requests that complete the upload
    Worker,
    Message,         \* bound: copies of file.scan.requested on the queue
    MaxReceive,      \* maxReceiveCount of the queue
    MaxFaults        \* bound: crashes, and failures of the scanner or the store

ASSUME ScanConstants ==
    /\ MaxReceive \in Nat \ {0}
    /\ MaxFaults \in Nat

VARIABLES
    file,       \* status and key of the PrivateFile row, or NoRow once deleted
    cv,         \* BaseCv.status
    object,     \* the keys that hold an object
    request,    \* requests that have read the row UPLOADING and found the object
    deletion,   \* the delete request
    event,      \* a file.scan.requested event is committed
    message,    \* where each message is
    receives,   \* ApproximateReceiveCount of each message
    worker,     \* what each worker is doing
    erased,     \* history: the keys that were deleted
    overlapped, \* history: two deliveries, or two completions, were under way at once
    faults      \* how many faults happened

vars == <<file, cv, object, request, deletion, event, message, receives, worker,
          erased, overlapped, faults>>

rows == <<file, cv>>
queue == <<event, message, receives>>

-----------------------------------------------------------------------------
Key == {"quarantine", "original"}
Status == {"UPLOADING", "QUARANTINED", "SCANNING", "CLEAN", "REJECTED"}

NoRow == [status |-> "DELETED"]
Row == [status : Status, key : Key]

Idle == [pc |-> "idle"]
Busy ==
    [pc      : {"start", "scan", "unscan", "reject", "promote", "clean"},
     message : Message,
     seen    : Row]              \* the row object of this session

\* Type correctness: the rows go together, and a message is received at most
\* MaxReceive times before it is a dead letter.
TypeOK ==
    /\ file \in Row \cup {NoRow}
    /\ cv \in {"UPLOADING", "SCANNING", "ACTIVE", "REJECTED", "DELETED"}
    /\ object \subseteq Key /\ erased \subseteq Key
    /\ request \in [Request -> {"IDLE", "READ"}]
    /\ deletion \in [pc : {"NONE", "READ", "ERASED"}, key : Key]
    /\ event \in BOOLEAN
    /\ message \in [Message -> {"UNSENT", "VISIBLE", "INFLIGHT", "ACKED", "DLQ"}]
    /\ receives \in [Message -> 0..MaxReceive]
    /\ worker \in [Worker -> {Idle} \cup Busy]
    /\ overlapped \in BOOLEAN
    /\ faults \in 0..MaxFaults
    /\ (file = NoRow) = (cv = "DELETED")

\* initiate_upload: the rows and the presigned URL.
Init ==
    /\ file = [status |-> "UPLOADING", key |-> "quarantine"]
    /\ cv = "UPLOADING"
    /\ object = {}
    /\ request = [r \in Request |-> "IDLE"]
    /\ deletion = [pc |-> "NONE", key |-> "quarantine"]
    /\ event = FALSE
    /\ message = [m \in Message |-> "UNSENT"]
    /\ receives = [m \in Message |-> 0]
    /\ worker = [k \in Worker |-> Idle]
    /\ erased = {}
    /\ overlapped = FALSE
    /\ faults = 0

\* Only a column whose value in the session changed is written.
Merge(stored, seen, new) == IF new = seen THEN stored ELSE new

At(k, p) == worker[k].pc = p

Fault == faults < MaxFaults /\ faults' = faults + 1

-----------------------------------------------------------------------------
(* The owner *)

\* The client posts the file to the presigned URL; bound: once, before it
\* completes the upload.
Upload ==
    /\ file.status = "UPLOADING" /\ object = {} /\ erased = {}
    /\ object' = {"quarantine"}
    /\ UNCHANGED <<rows, request, deletion, queue, worker, erased, overlapped, faults>>

\* Mutant of ReadUpload: the status is not looked at.
ReadUploadAnew(r) ==
    /\ request[r] = "IDLE"
    /\ file # NoRow /\ file.key \in object
    /\ request' = [request EXCEPT ![r] = "READ"]
    /\ overlapped' = (overlapped \/ \E p \in Request : request[p] = "READ")
    /\ UNCHANGED <<rows, object, deletion, queue, worker, erased, faults>>

\* complete_upload, up to the answer of storage.head.
ReadUpload(r) ==
    /\ request[r] = "IDLE"
    /\ file.status = "UPLOADING" /\ file.key \in object
    /\ request' = [request EXCEPT ![r] = "READ"]
    /\ overlapped' = (overlapped \/ \E p \in Request : request[p] = "READ")
    /\ UNCHANGED <<rows, object, deletion, queue, worker, erased, faults>>

\* The metadata agree, or UPLOAD_METADATA_MISMATCH; a deleted row fails the UPDATE.
CompleteUpload(r) ==
    /\ request[r] = "READ"
    /\ request' = [request EXCEPT ![r] = "IDLE"]
    /\ \/ /\ file = NoRow
          /\ UNCHANGED <<rows, event>>
       \/ /\ file # NoRow
          /\ file' = [file EXCEPT !.status = "QUARANTINED"]
          /\ cv' = "SCANNING"
          /\ event' = TRUE
       \/ /\ file # NoRow
          /\ file' = [file EXCEPT !.status = "REJECTED"]
          /\ cv' = "REJECTED"
          /\ UNCHANGED event
    /\ UNCHANGED <<object, deletion, message, receives, worker, erased, overlapped, faults>>

ReadForDeletion ==
    /\ deletion.pc = "NONE" /\ file # NoRow
    /\ deletion' = [pc |-> "READ", key |-> file.key]
    /\ UNCHANGED <<rows, object, request, queue, worker, erased, overlapped, faults>>

EraseObject ==
    /\ deletion.pc = "READ"
    /\ object' = object \ {deletion.key}
    /\ erased' = erased \cup {deletion.key}
    /\ deletion' = [deletion EXCEPT !.pc = "ERASED"]
    /\ UNCHANGED <<rows, request, queue, worker, overlapped, faults>>

DeleteRows ==
    /\ deletion.pc = "ERASED"
    /\ file' = NoRow
    /\ cv' = "DELETED"
    /\ deletion' = [deletion EXCEPT !.pc = "NONE"]
    /\ UNCHANGED <<object, request, queue, worker, erased, overlapped, faults>>

\* The store refuses (FILE_DELETE_FAILED) or the request dies before its commit.
AbandonDeletion ==
    /\ deletion.pc # "NONE"
    /\ deletion' = [deletion EXCEPT !.pc = "NONE"]
    /\ Fault
    /\ UNCHANGED <<rows, object, request, queue, worker, erased, overlapped>>

-----------------------------------------------------------------------------
(* The queue *)

\* The pump sends each event at least once.
Send(m) ==
    /\ event /\ message[m] = "UNSENT"
    /\ message' = [message EXCEPT ![m] = "VISIBLE"]
    /\ UNCHANGED <<rows, object, request, deletion, event, receives, worker, erased, overlapped, faults>>

\* Mutant of Returned: one receive too many.
ReturnedLate(m) == IF receives'[m] > MaxReceive THEN "DLQ" ELSE "VISIBLE"

Returned(m) == IF receives'[m] >= MaxReceive THEN "DLQ" ELSE "VISIBLE"

Raise(m) == message' = [message EXCEPT ![m] = Returned(m)]

Acknowledge(m) == message' = [message EXCEPT ![m] = "ACKED"]

Receive(k, m) ==
    /\ worker[k] = Idle /\ message[m] = "VISIBLE"
    /\ overlapped' = (overlapped \/ \E j \in Worker : worker[j] # Idle)
    /\ receives' = [receives EXCEPT ![m] = @ + 1]
    /\ UNCHANGED <<rows, object, request, deletion, event, erased, faults>>

-----------------------------------------------------------------------------
(* FileScanService.process *)

Done == {"CLEAN", "REJECTED"}

\* Mutant of Ready: a scan that was broken off is not taken up again.
ReadyQuarantined == {"QUARANTINED"}

Ready == {"QUARANTINED", "SCANNING"}

ReceiveDone(k, m) ==
    /\ Receive(k, m)
    /\ file.status \in Done
    /\ Acknowledge(m)
    /\ UNCHANGED worker

\* FILE_NOT_FOUND, FILE_NOT_READY.
ReceiveRefused(k, m) ==
    /\ Receive(k, m)
    /\ file.status \notin Done \cup Ready
    /\ Raise(m)
    /\ UNCHANGED worker

Load(k, m) ==
    /\ Receive(k, m)
    /\ file.status \in Ready
    /\ message' = [message EXCEPT ![m] = "INFLIGHT"]
    /\ worker' = [worker EXCEPT ![k] = [pc |-> "start", message |-> m, seen |-> file]]

\* The record ends, and its message with it.
Finish(k) ==
    /\ worker' = [worker EXCEPT ![k] = Idle]
    /\ UNCHANGED <<object, request, deletion, event, receives, erased, overlapped>>

\* A deleted row fails the UPDATE of any commit (StaleDataError).
LoseRow(k) ==
    /\ worker[k].pc \in {"start", "unscan", "reject", "clean"}
    /\ file = NoRow
    /\ Finish(k)
    /\ Raise(worker[k].message)
    /\ UNCHANGED <<rows, faults>>

CommitScanning(k) ==
    /\ At(k, "start") /\ file # NoRow
    /\ file' = [file EXCEPT !.status = Merge(@, worker[k].seen.status, "SCANNING")]
    /\ worker' = [worker EXCEPT ![k] =
           [pc |-> "scan", message |-> @.message,
            seen |-> [status |-> "SCANNING", key |-> @.seen.key]]]
    /\ UNCHANGED <<cv, object, request, deletion, queue, erased, overlapped, faults>>

\* Mutant of Scan: a clean file is committed where it is.
ScanInPlace(k) ==
    /\ At(k, "scan") /\ worker[k].seen.key \in object
    /\ \E p \in {"clean", "reject"} : worker' = [worker EXCEPT ![k].pc = p]
    /\ UNCHANGED <<rows, object, request, deletion, queue, erased, overlapped, faults>>

\* storage.read, validate_file_structure and scanner.scan; an object that is gone
\* and a scanner that fails are the same exception.
Scan(k) ==
    /\ At(k, "scan")
    /\ \E p \in {"promote", "reject", "unscan"} :
          /\ worker' = [worker EXCEPT ![k].pc = p]
          /\ worker[k].seen.key \notin object => p = "unscan"
          /\ IF p = "unscan" /\ worker[k].seen.key \in object THEN Fault ELSE UNCHANGED faults
    /\ UNCHANGED <<rows, object, request, deletion, queue, erased, overlapped>>

CommitUnscanned(k) ==
    /\ At(k, "unscan") /\ file # NoRow
    /\ file' = [file EXCEPT !.status = "QUARANTINED"]
    /\ Finish(k)
    /\ Raise(worker[k].message)
    /\ UNCHANGED <<cv, faults>>

CommitRejected(k) ==
    /\ At(k, "reject") /\ file # NoRow
    /\ file' = [file EXCEPT !.status = "REJECTED"]
    /\ cv' = "REJECTED"
    /\ Finish(k)
    /\ Acknowledge(worker[k].message)
    /\ UNCHANGED faults

\* Mutant of Promoted: the object is moved.
PromotedByMove(key) == (object \ {key}) \cup {"original"}

\* copy_object: the source stays.
Promoted(key) == object \cup {"original"}

Promote(k) ==
    /\ At(k, "promote")
    /\ worker[k].seen.key \in object
    /\ object' = Promoted(worker[k].seen.key)
    /\ worker' = [worker EXCEPT ![k].pc = "clean"]
    /\ UNCHANGED <<rows, request, deletion, queue, erased, overlapped, faults>>

\* The source is gone, or the file was promoted before (S3 need not copy an object
\* onto itself): the exception leaves the row SCANNING.
PromoteFails(k) ==
    /\ At(k, "promote")
    /\ worker[k].seen.key \notin object \/ worker[k].seen.key = "original"
    /\ Finish(k)
    /\ Raise(worker[k].message)
    /\ UNCHANGED <<rows, faults>>

CommitClean(k) ==
    /\ At(k, "clean") /\ file # NoRow
    /\ file' = [status |-> "CLEAN", key |-> Merge(file.key, worker[k].seen.key, "original")]
    /\ cv' = "ACTIVE"
    /\ Finish(k)
    /\ Acknowledge(worker[k].message)
    /\ UNCHANGED faults

Crash(k) ==
    /\ worker[k] # Idle
    /\ Fault
    /\ Finish(k)
    /\ Raise(worker[k].message)
    /\ UNCHANGED rows

-----------------------------------------------------------------------------
Work(k) ==
    \/ LoseRow(k) \/ CommitScanning(k) \/ Scan(k) \/ CommitUnscanned(k)
    \/ CommitRejected(k) \/ Promote(k) \/ PromoteFails(k) \/ CommitClean(k)

Deliver(m) == \E k \in Worker : ReceiveDone(k, m) \/ ReceiveRefused(k, m) \/ Load(k, m)

Next ==
    \/ Upload \/ ReadForDeletion \/ EraseObject \/ DeleteRows \/ AbandonDeletion
    \/ \E r \in Request : ReadUpload(r) \/ CompleteUpload(r)
    \/ \E m \in Message : Send(m) \/ Deliver(m)
    \/ \E k \in Worker : Work(k) \/ Crash(k)

Spec == Init /\ [][Next]_vars

\* The pump sends, SQS delivers, a worker goes on with what it holds.
Fairness ==
    /\ \A k \in Worker : WF_vars(Work(k))
    /\ \A m \in Message : WF_vars(Send(m)) /\ SF_vars(Deliver(m))

FairSpec == Spec /\ Fairness

-----------------------------------------------------------------------------
(* Properties *)

\* What waits for a scan can be scanned: the object its row points to exists unless
\* the owner erased it, also after a worker died between the copy and the commit.
StillScannable ==
    file.status \in Ready => file.key \in object \cup erased

\* A clean file points to its promoted copy, and the copy is there unless erased,
\* also when two scans and a deletion overlap.
CleanHasObject ==
    file.status = "CLEAN" => file.key = "original" /\ "original" \in object \cup erased

\* With more receives than faults can use up, a completed upload is settled, unless
\* the owner erased it or deliveries overlapped.
ScanEnds ==
    (file.status \in {"QUARANTINED", "SCANNING"})
        ~> (file.status \in {"CLEAN", "REJECTED", "DELETED"} \/ erased # {} \/ overlapped)

\* security-boundaries.md:5 "Uploads enter QUARANTINED, ... then become CLEAN or
\* REJECTED": a clean file does not go back, while nothing overlaps.
CleanIsFinal ==
    [][(file.status = "CLEAN" /\ ~overlapped) => file'.status \in {"CLEAN", "DELETED"}]_vars
=============================================================================
