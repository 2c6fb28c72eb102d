---------------------------- MODULE PrivateData ----------------------------
(***************************************************************************)
(* What a user owns in the private bucket, and its deletion: the documents *)
(* rendered from a tailored CV (TailoredCvService, the document worker),    *)
(* the exports (PrivacyWorkflowService, ExportProcessor), the deletion of   *)
(* the artifact and the two deletion workflows (DeletionProcessor).  An     *)
(* object is written before the row that names it and erased before the     *)
(* rows go; events wait in the outbox, where a deletion removes them too.   *)
(***************************************************************************)
EXTENDS Naturals, FiniteSets

CONSTANTS
    Document,      \* bound: format and content of a TailoredCvDocument row
    Export,        \* bound: ids of DataExport rows
    Caller,        \* API requests of the user under way at once
    Worker,
    MaxReceive,    \* maxReceiveCount of the queues
    MaxCrashes     \* bound: workers that die and artifact deletions that break off

Scope   == {"CAREER_DATA", "ACCOUNT"}
Product == Document \cup Export
Job     == Product \cup Scope

ASSUME PrivateDataConstants ==
    /\ MaxReceive \in Nat \ {0}
    /\ MaxCrashes \in Nat
    /\ Document \cap Export = {}
    /\ Product \cap Scope = {} /\ "NONE" \notin Product

VARIABLES
    account,    \* User.account_status
    artifact,   \* does the tailored CV exist?
    row,        \* status of each document and export row, "NONE" without a row
    deletion,   \* status of the DeletionWorkflow of each scope; its marker is set
                \* from the request to SUCCEEDED
    files,      \* PrivateFile rows, named by the product whose key they carry
    objects,    \* objects in the bucket
    message,    \* where the event of each job is
    receives,   \* ApproximateReceiveCount of its message
    worker,     \* what each worker is doing
    caller,     \* what each API request is doing
    crashes,    \* history: faults so far
    torn,       \* history: objects left without a row, or erased and left with one, by a fault
    purged,     \* history: products that a finished workflow removed
    overlapped  \* history: a deletion ran beside another worker or request

vars == <<account, artifact, row, deletion, files, objects, message, receives,
          worker, caller, crashes, torn, purged, overlapped>>
queue    == <<message, receives>>
history  == <<crashes, torn, purged, overlapped>>
userData == <<account, artifact, deletion>>

-----------------------------------------------------------------------------
Unfinished == {"QUEUED", "RUNNING", "RETRYABLE_FAILED"}
Queued     == {"PENDING", "VISIBLE", "INFLIGHT", "DLQ"}

Idle == [pc |-> "idle", job |-> "NONE", seen |-> {}]

\* Type correctness; what a deletion still has to erase is known to it as a file row.
TypeOK ==
    /\ account \in {"ACTIVE", "DELETION_PENDING", "DELETED"}
    /\ artifact \in BOOLEAN
    /\ row \in [Product -> Unfinished \cup {"NONE", "SUCCEEDED", "PERMANENT_FAILED"}]
    /\ deletion \in [Scope -> Unfinished \cup {"NONE", "SUCCEEDED"}]
    /\ files \subseteq Product /\ objects \subseteq Product
    /\ message \in [Job -> {"UNSENT", "DROPPED", "ACKED"} \cup Queued]
    /\ receives \in [Job -> 0..MaxReceive]
    /\ worker \in [Worker -> [pc : {"idle", "loaded", "running", "written", "erasing", "deleting"},
                              job : Job \cup {"NONE"}, seen : SUBSET Product]]
    /\ caller \in [Caller -> [pc : {"idle", "ready", "erasing"}, seen : SUBSET Document,
                              found : SUBSET Document]]
    /\ crashes \in 0..MaxCrashes
    /\ torn \subseteq Product /\ purged \subseteq Product
    /\ overlapped \in BOOLEAN

NoCall == [pc |-> "idle", seen |-> {}, found |-> {}]

Init ==
    /\ account = "ACTIVE"
    /\ artifact = TRUE
    /\ row = [p \in Product |-> "NONE"]
    /\ deletion = [s \in Scope |-> "NONE"]
    /\ files = {} /\ objects = {}
    /\ message = [j \in Job |-> "UNSENT"]
    /\ receives = [j \in Job |-> 0]
    /\ worker = [k \in Worker |-> Idle]
    /\ caller = [c \in Caller |-> NoCall]
    /\ crashes = 0 /\ torn = {} /\ purged = {} /\ overlapped = FALSE

At(k, p)    == worker[k].pc = p
Finish(k)   == worker' = [worker EXCEPT ![k] = Idle]
Return(c)   == caller' = [caller EXCEPT ![c] = NoCall]
Send(j)     == message' = [message EXCEPT ![j] = "PENDING"]

DeletionAtWork == \E k \in Worker : worker[k].job \in Scope
ErasingCalls   == {c \in Caller : caller[c].pc = "erasing"}

-----------------------------------------------------------------------------
(* Requests of the user.  A request is authenticated once and commits later. *)

Authenticate(c) ==
    /\ caller[c] = NoCall
    /\ account = "ACTIVE"
    /\ caller' = [caller EXCEPT ![c].pc = "ready"]
    /\ overlapped' = (overlapped \/ DeletionAtWork)
    /\ UNCHANGED <<userData, row, files, objects, queue, worker, crashes, torn, purged>>

Ready(c) == caller[c].pc = "ready" /\ Return(c)

\* A row that a deletion has deleted and not committed is locked.
Locked(p) == \E k \in Worker : At(k, "deleting") /\ p \in worker[k].seen

\* A document of that format and content that exists already is returned.  The key of
\* the new row waits for a deletion of its artifact.
RequestDocument(c, d) ==
    /\ Ready(c)
    /\ artifact
    /\ \A k \in Worker : ~At(k, "deleting")
    /\ message[d] = "UNSENT"
    /\ row' = [row EXCEPT ![d] = "QUEUED"]
    /\ Send(d)
    /\ UNCHANGED <<userData, files, objects, receives, worker, history>>

\* An export with its marker, or a finished one that has not expired, is returned.
RequestExport(c, e) ==
    /\ Ready(c)
    /\ message[e] = "UNSENT"
    /\ \A f \in Export : row[f] = "NONE"
    /\ row' = [row EXCEPT ![e] = "QUEUED"]
    /\ Send(e)
    /\ UNCHANGED <<userData, files, objects, receives, worker, history>>

\* The marker of the scope admits one workflow; ACCOUNT locks the user out.
RequestDeletion(c, s) ==
    /\ Ready(c)
    /\ deletion[s] = "NONE"
    /\ deletion' = [deletion EXCEPT ![s] = "QUEUED"]
    /\ account' = IF s = "ACCOUNT" THEN "DELETION_PENDING" ELSE account
    /\ Send(s)
    /\ UNCHANGED <<artifact, row, files, objects, receives, worker, history>>

\* PrivateAiRequestService.delete lists the documents of the artifact ...
ListDocuments(c) ==
    /\ caller[c].pc = "ready"
    /\ artifact
    /\ caller' = [caller EXCEPT ![c] =
          [pc |-> "erasing", seen |-> Document \cap files, found |-> Document \cap files]]
    /\ overlapped' = (overlapped \/ \E k \in Worker : worker[k] # Idle)
    /\ UNCHANGED <<userData, row, files, objects, queue, worker, crashes, torn, purged>>

\* ... erases their objects one by one ...
EraseDocument(c) ==
    /\ caller[c].pc = "erasing"
    /\ \E d \in caller[c].seen :
          /\ objects' = objects \ {d}
          /\ caller' = [caller EXCEPT ![c].seen = @ \ {d}]
    /\ UNCHANGED <<userData, row, files, queue, worker, history>>

\* ... and deletes the rows; a document it did not see goes by cascade and leaves its
\* file row.  Rows that are gone already are no error.
CommitArtifactDeletion(c) ==
    /\ caller[c].pc = "erasing" /\ caller[c].seen = {}
    /\ \A k \in Worker : ~At(k, "deleting")
    /\ artifact' = FALSE
    /\ row' = [p \in Product |-> IF p \in Document THEN "NONE" ELSE row[p]]
    /\ files' = files \ caller[c].found
    /\ Return(c)
    /\ UNCHANGED <<account, deletion, objects, queue, worker, history>>

\* The store refuses or the process dies.
BreakArtifactDeletion(c) ==
    /\ caller[c].pc = "erasing"
    /\ crashes < MaxCrashes
    /\ crashes' = crashes + 1
    /\ torn' = torn \cup (caller[c].found \ caller[c].seen)
    /\ Return(c)
    /\ UNCHANGED <<userData, row, files, objects, queue, worker, purged, overlapped>>

-----------------------------------------------------------------------------
(* The queues *)

Publish(j) ==
    /\ message[j] = "PENDING"
    /\ message' = [message EXCEPT ![j] = "VISIBLE"]
    /\ UNCHANGED <<userData, row, files, objects, receives, worker, caller, history>>

Receive(k, j) ==
    /\ worker[k] = Idle /\ message[j] = "VISIBLE"
    /\ receives' = [receives EXCEPT ![j] = @ + 1]
    /\ overlapped' = (overlapped \/ IF j \in Scope
                                    THEN \/ \E i \in Worker : worker[i] # Idle
                                         \/ \E c \in Caller : caller[c] # NoCall
                                    ELSE DeletionAtWork \/ ErasingCalls # {})

Acknowledge(j) == message' = [message EXCEPT ![j] = "ACKED"]

Raise(j) == message' = [message EXCEPT ![j] = IF receives'[j] >= MaxReceive THEN "DLQ"
                                                                          ELSE "VISIBLE"]

Load(k, j) ==
    /\ Receive(k, j)
    /\ message' = [message EXCEPT ![j] = "INFLIGHT"]
    /\ worker' = [worker EXCEPT ![k] = [pc |-> "loaded", job |-> j, seen |-> {}]]
    /\ UNCHANGED <<userData, row, files, objects, caller, crashes, torn, purged>>

-----------------------------------------------------------------------------
(* Documents and exports *)

\* DOCUMENT_NOT_FOUND, EXPORT_NOT_FOUND: the row was deleted.
ProductMissing(k, p) ==
    /\ Receive(k, p)
    /\ row[p] = "NONE"
    /\ Raise(p)
    /\ UNCHANGED <<userData, row, files, objects, worker, caller, crashes, torn, purged>>

LoadDocument(k, d) == row[d] \in Unfinished /\ Load(k, d)

LoadExport(k, e) == row[e] \in Unfinished /\ Load(k, e)

\* An UPDATE of a row that is gone raises and rolls the transaction back.
RowGone(k) ==
    /\ worker[k].job \in Product /\ row[worker[k].job] = "NONE"
    /\ Finish(k)
    /\ torn' = IF At(k, "written") THEN torn \cup {worker[k].job} ELSE torn
    /\ UNCHANGED <<userData, row, files, objects, receives, caller, crashes, purged, overlapped>>
    /\ Raise(worker[k].job)

SetStatus(k, s) ==
    LET p == worker[k].job IN
    row[p] # "NONE" /\ ~Locked(p) /\ row' = [row EXCEPT ![p] = s]

CommitRunning(k) ==
    /\ At(k, "loaded") /\ worker[k].job \in Product
    /\ SetStatus(k, "RUNNING")
    /\ worker' = [worker EXCEPT ![k].pc = "running"]
    /\ UNCHANGED <<userData, files, objects, queue, caller, history>>

WriteObject(k) ==
    /\ objects' = objects \cup {worker[k].job}
    /\ worker' = [worker EXCEPT ![k].pc = "written"]
    /\ UNCHANGED <<userData, row, files, queue, caller, history>>

WriteDocument(k) == At(k, "running") /\ worker[k].job \in Document /\ WriteObject(k)

\* The archive reads the object of every finished document.
Readable == \A d \in Document : row[d] = "SUCCEEDED" /\ d \in files => d \in objects

WriteExport(k) ==
    At(k, "running") /\ worker[k].job \in Export /\ Readable /\ WriteObject(k)

\* DOCUMENT_CONTENT_INVALID is final.
RenderFails(k) ==
    /\ At(k, "running") /\ worker[k].job \in Document
    /\ SetStatus(k, "PERMANENT_FAILED")
    /\ Finish(k)
    /\ Acknowledge(worker[k].job)
    /\ UNCHANGED <<userData, files, objects, receives, caller, history>>

\* EXPORT_GENERATION_FAILED is stored and raised.
ExportFails(k) ==
    /\ At(k, "running") /\ worker[k].job \in Export
    /\ SetStatus(k, "RETRYABLE_FAILED")
    /\ Finish(k)
    /\ UNCHANGED <<userData, files, objects, receives, caller, history>>
    /\ Raise(worker[k].job)

\* Mutant of CommitProduct: the row is updated by an upsert that cannot miss it.
CommitProductBlindly(k) ==
    LET p == worker[k].job IN
    /\ At(k, "written")
    /\ row' = [row EXCEPT ![p] = "SUCCEEDED"]
    /\ files' = files \cup {p}
    /\ torn' = torn \ {p}
    /\ Finish(k)
    /\ Acknowledge(p)
    /\ UNCHANGED <<userData, objects, receives, caller, crashes, purged, overlapped>>

\* The file row and the status are one transaction.
CommitProduct(k) ==
    LET p == worker[k].job IN
    /\ At(k, "written")
    /\ SetStatus(k, "SUCCEEDED")
    /\ files' = files \cup {p}
    /\ torn' = torn \ {p}
    /\ Finish(k)
    /\ Acknowledge(p)
    /\ UNCHANGED <<userData, objects, receives, caller, crashes, purged, overlapped>>

-----------------------------------------------------------------------------
(* Deletion workflows *)

LoadDeletion(k, s) == deletion[s] \in Unfinished /\ Load(k, s)

\* RUNNING is committed, then the files of the owner are listed.
StartDeletion(k) ==
    /\ At(k, "loaded") /\ worker[k].job \in Scope
    /\ deletion' = [deletion EXCEPT ![worker[k].job] = "RUNNING"]
    /\ worker' = [worker EXCEPT ![k].pc = "erasing", ![k].seen = files]
    /\ UNCHANGED <<account, artifact, row, files, objects, queue, caller, history>>

EraseFile(k) ==
    /\ At(k, "erasing")
    /\ \E p \in worker[k].seen :
          /\ objects' = objects \ {p}
          /\ worker' = [worker EXCEPT ![k].seen = @ \ {p}]
    /\ UNCHANGED <<userData, row, files, queue, caller, history>>

\* Mutant of EraseFails: what is left in the store is reported as deleted.
EraseFailsQuietly(k) ==
    LET s == worker[k].job IN
    /\ At(k, "erasing") /\ worker[k].seen # {}
    /\ deletion' = [deletion EXCEPT ![s] = "SUCCEEDED"]
    /\ Finish(k)
    /\ UNCHANGED <<account, artifact, row, files, objects, receives, caller, history>>
    /\ Acknowledge(s)

\* Mutant of EraseFails: a failure of the store is final.
EraseFailsForGood(k) ==
    LET s == worker[k].job IN
    /\ At(k, "erasing") /\ worker[k].seen # {}
    /\ deletion' = [deletion EXCEPT ![s] = "PERMANENT_FAILED"]
    /\ Finish(k)
    /\ UNCHANGED <<account, artifact, row, files, objects, receives, caller, history>>
    /\ Acknowledge(s)

\* PRIVATE_STORAGE_DELETE_FAILED
EraseFails(k) ==
    LET s == worker[k].job IN
    /\ At(k, "erasing") /\ worker[k].seen # {}
    /\ deletion' = [deletion EXCEPT ![s] = "RETRYABLE_FAILED"]
    /\ Finish(k)
    /\ UNCHANGED <<account, artifact, row, files, objects, receives, caller, history>>
    /\ Raise(s)

\* Mutant of Owned: what has no file yet is left.
OwnedFiles == files

\* What the DELETE statements of _delete_private_rows find.
Owned == files \cup {p \in Product : row[p] # "NONE"}

DeleteRows(k) ==
    /\ At(k, "erasing") /\ worker[k].seen = {}
    /\ \A p \in Owned : ~Locked(p)
    /\ worker' = [worker EXCEPT ![k].pc = "deleting", ![k].seen = Owned]
    /\ UNCHANGED <<userData, row, files, objects, queue, caller, history>>

\* Last, every event of the user goes, also those of rows that came after the DELETE
\* statements; then the account is anonymised and all of it committed.
FinishDeletion(k) ==
    LET s == worker[k].job
        gone == worker[k].seen
    IN
    /\ At(k, "deleting")
    /\ row' = [p \in Product |-> IF p \in gone THEN "NONE" ELSE row[p]]
    /\ artifact' = FALSE
    /\ files' = files \ gone
    /\ message' = [j \in Job |-> IF j = s THEN "ACKED"
                                 ELSE IF message[j] = "PENDING" THEN "DROPPED" ELSE message[j]]
    /\ deletion' = [deletion EXCEPT ![s] = "SUCCEEDED"]
    /\ account' = IF s = "ACCOUNT" THEN "DELETED" ELSE account
    /\ purged' = purged \cup gone
    /\ Finish(k)
    /\ UNCHANGED <<objects, receives, caller, crashes, torn, overlapped>>

-----------------------------------------------------------------------------
\* A worker dies, or the store fails it at a point that stores nothing.
Crash(k) ==
    /\ worker[k] # Idle
    /\ crashes < MaxCrashes
    /\ crashes' = crashes + 1
    /\ torn' = IF At(k, "written") THEN torn \cup {worker[k].job} ELSE torn
    /\ Finish(k)
    /\ UNCHANGED <<userData, row, files, objects, receives, caller, purged, overlapped>>
    /\ Raise(worker[k].job)

Request(c) ==
    \/ Authenticate(c)
    \/ \E d \in Document : RequestDocument(c, d)
    \/ \E e \in Export : RequestExport(c, e)
    \/ \E s \in Scope : RequestDeletion(c, s)
    \/ ListDocuments(c) \/ EraseDocument(c)
    \/ CommitArtifactDeletion(c) \/ BreakArtifactDeletion(c)

Deliver(k) ==
    \/ \E p \in Product : ProductMissing(k, p)
    \/ \E d \in Document : LoadDocument(k, d)
    \/ \E e \in Export : LoadExport(k, e)
    \/ \E s \in Scope : LoadDeletion(k, s)

Work(k) ==
    \/ RowGone(k) \/ CommitRunning(k) \/ WriteDocument(k) \/ WriteExport(k)
    \/ RenderFails(k) \/ ExportFails(k) \/ CommitProduct(k)
    \/ StartDeletion(k) \/ EraseFile(k) \/ EraseFails(k)
    \/ DeleteRows(k) \/ FinishDeletion(k)

Next ==
    \/ \E c \in Caller : Request(c)
    \/ \E j \in Job : Publish(j)
    \/ \E k \in Worker : Deliver(k) \/ Work(k) \/ Crash(k)

Spec == Init /\ [][Next]_vars

-----------------------------------------------------------------------------
(* Properties *)

\* Once the account is deleted and no request or worker ran beside the deletion,
\* nothing of the user is left, except an object whose writer died before its row.
AccountErased ==
    (account = "DELETED" /\ ~overlapped)
        => /\ \A p \in Product : row[p] = "NONE"
           /\ files = {}
           /\ objects \subseteq torn

\* What a finished workflow removed never gets a row or a file row again, whatever
\* messages and workers were still under way.
NoRevival == \A p \in purged : row[p] = "NONE" /\ p \notin files

\* The order object, row loses no object and no row: an object without a file row
\* belongs to a row that is gone or failed for good, or to a job still to be delivered;
\* a file row without its object is part of a deletion under way or broken off.
FilesMatchObjects ==
    /\ \A p \in objects \ files :
          row[p] \in {"NONE", "PERMANENT_FAILED"} \/ message[p] \in Queued
    /\ \A p \in files \ objects :
          \/ p \in torn
          \/ \E s \in Scope : deletion[s] \in {"RUNNING", "RETRYABLE_FAILED"}
          \/ \E c \in ErasingCalls : p \in caller[c].found

\* A document that waits for a worker has its event or message left, and so has an
\* export, unless it was requested while a deletion ran.
WaitingHasMessage ==
    \A p \in Product :
        row[p] \in Unfinished => message[p] \in Queued \/ (p \in Export /\ overlapped)

\* A requested deletion is durable: until it succeeds its event or message exists.
DeletionIsDurable ==
    \A s \in Scope : deletion[s] \in Unfinished => message[s] \in Queued
=============================================================================
