----------------------------- MODULE WatchRuns -----------------------------
(***************************************************************************)
(* The discovery pipeline of one Watch run: an API click or the daily       *)
(* schedule inserts a JobWatchRun and its outbox event in one transaction,  *)
(* the pump publishes the event to SQS, and a Lambda worker runs            *)
(* DiscoveryProcessor.process.  Delivery is at least once, workers crash,   *)
(* and a worker keeps the row it loaded (expire_on_commit=False) until a    *)
(* rollback, so what it decides and writes may come from a stale row.       *)
(* One action is one database transaction, or one read that a later         *)
(* transaction depends on.                                                  *)
(***************************************************************************)
EXTENDS Integers, FiniteSets

CONSTANTS
    Watch,           \* JobWatch ids
    Run,             \* JobWatchRun ids (uuid4: never reused)
    Source,          \* WatchSource ids (uuid4: never reused)
    NoSource,
    InitialSources,  \* the sources a Watch is created with
    Day,             \* schedule dates, positive numbers
    Worker,          \* concurrent Lambda invocations of the source-discovery queue
    Copy,            \* bound: SQS messages that may carry one run's event
    MaxReceive,      \* maxReceiveCount of the redrive policy
    MaxClicks        \* bound: requests of one Watch between their checks and their commit

ASSUME ConstantsAssumption ==
    /\ NoSource \notin Source
    /\ InitialSources \subseteq Source
    /\ Day \subseteq Nat \ {0}
    /\ MaxReceive \in Nat \ {0}
    /\ MaxClicks \in Nat

VARIABLES
    watch,     \* JobWatch.status
    sources,   \* whether a source id is not used yet, in the Watch, or removed
    run,       \* JobWatchRun rows
    fetch,     \* SourceFetch rows, with whether matches were stored beside them
    digest,    \* runs that have a NotificationDigest
    event,     \* the run's watch.discovery.requested outbox row
    copy,      \* the SQS messages that carry the event
    receives,  \* ApproximateReceiveCount of each message
    clicks,    \* request_manual_run calls that passed their checks, not committed yet
    worker,    \* what each worker is doing, and the row it holds
    overlapped \* history: the runs that two workers had in hand at once

vars == <<watch, sources, run, fetch, digest, event, copy, receives, clicks, worker, overlapped>>
dbVars == <<watch, sources, run, fetch, digest, event>>
queueVars == <<copy, receives, overlapped>>

-----------------------------------------------------------------------------
(* Rows *)

ActiveStatus   == {"QUEUED", "RUNNING"}
TerminalStatus == {"SUCCEEDED", "PERMANENT_FAILED"}
WatchStatus    == {"DRAFT", "ACTIVE", "PAUSED", "ARCHIVED", "DELETED"}
FetchStatus    == {"NONE", "SUCCEEDED", "MATCHED", "SKIPPED", "PERMANENT_FAILED"}
CopyStatus     == {"UNSENT", "VISIBLE", "INFLIGHT", "ACKED", "DLQ"}

RunRow ==
    [status  : ActiveStatus \cup TerminalStatus,
     watch   : Watch,
     day     : Day \cup {0},        \* schedule_date; 0 is null, a MANUAL run
     marker  : BOOLEAN,             \* active_marker is the Watch's id, or null
     succ    : Nat,                 \* sources_succeeded
     fail    : Nat,                 \* sources_failed
     matched : BOOLEAN,             \* matched_count > 0
     outcome : {"NONE", "COMPLETED", "COMPLETED_WITH_WARNINGS", "FAILED"}]

Unused  == [status |-> "UNUSED"]
Deleted == [status |-> "DELETED"]

NewRow(w, d) ==
    [status |-> "QUEUED", watch |-> w, day |-> d, marker |-> TRUE,
     succ |-> 0, fail |-> 0, matched |-> FALSE, outcome |-> "NONE"]

Exists(r)      == run[r].status \in ActiveStatus \cup TerminalStatus
OnWatch(r, w)  == Exists(r) /\ run[r].watch = w
Active(r)      == Exists(r) /\ run[r].status \in ActiveStatus
CurrentSources(w) == {s \in Source : sources[w][s] = "CURRENT"}

Idle == [pc |-> "idle"]
Busy ==
    [pc   : {"loaded", "next", "source", "failing", "pending"},
     run  : Run,
     copy : Copy,
     seen : RunRow,                 \* the ORM object: the row as this session last read it
     todo : SUBSET Source,          \* sources of the loop not visited yet
     at   : Source \cup {NoSource}]
Acking == [pc : {"ack"}, run : Run, copy : Copy]

\* A flush updates only the columns whose value changed since the row was
\* loaded; the others keep whatever the table holds by then.
Merge(stored, seen, new) == IF new = seen THEN stored ELSE new

Flush(row, seen, new) ==
    [status  |-> Merge(row.status, seen.status, new.status),
     watch   |-> row.watch,
     day     |-> row.day,
     marker  |-> Merge(row.marker, seen.marker, new.marker),
     succ    |-> Merge(row.succ, seen.succ, new.succ),
     fail    |-> Merge(row.fail, seen.fail, new.fail),
     matched |-> Merge(row.matched, seen.matched, new.matched),
     outcome |-> Merge(row.outcome, seen.outcome, new.outcome)]

TypeOK ==
    /\ watch \in [Watch -> WatchStatus]
    /\ sources \in [Watch -> [Source -> {"NEW", "CURRENT", "REMOVED"}]]
    /\ run \in [Run -> RunRow \cup {Unused, Deleted}]
    /\ fetch \in [Run -> [Source -> FetchStatus]]
    /\ digest \in SUBSET Run
    /\ event \in [Run -> {"NONE", "UNPUBLISHED", "PUBLISHED"}]
    /\ copy \in [Run -> [Copy -> CopyStatus]]
    /\ receives \in [Run -> [Copy -> 0..MaxReceive]]
    /\ clicks \in [Watch -> 0..MaxClicks]
    /\ worker \in [Worker -> {Idle} \cup Busy \cup Acking]
    /\ overlapped \subseteq Run

Init ==
    /\ watch = [w \in Watch |-> "DRAFT"]
    /\ sources = [w \in Watch |->
                    [s \in Source |-> IF s \in InitialSources THEN "CURRENT" ELSE "NEW"]]
    /\ run = [r \in Run |-> Unused]
    /\ fetch = [r \in Run |-> [s \in Source |-> "NONE"]]
    /\ digest = {}
    /\ event = [r \in Run |-> "NONE"]
    /\ copy = [r \in Run |-> [c \in Copy |-> "UNSENT"]]
    /\ receives = [r \in Run |-> [c \in Copy |-> 0]]
    /\ clicks = [w \in Watch |-> 0]
    /\ worker = [k \in Worker |-> Idle]
    /\ overlapped = {}

-----------------------------------------------------------------------------
(* The Watch: WatchService *)

SetStatus(w, from, to) ==
    /\ watch[w] \in from
    /\ watch' = [watch EXCEPT ![w] = to]
    /\ UNCHANGED <<sources, run, fetch, digest, event, queueVars, clicks, worker>>

Activate(w) == SetStatus(w, {"DRAFT", "PAUSED"}, "ACTIVE")
Pause(w)    == SetStatus(w, {"ACTIVE"}, "PAUSED")
Archive(w)  == SetStatus(w, {"DRAFT", "ACTIVE", "PAUSED"}, "ARCHIVED")

\* The source list is replaced by rows with new ids.  SourceFetch rows of the
\* old ids are cascaded away; no code reads them again, so fetch keeps them.
Replace(w, S) ==
    /\ watch[w] \in {"DRAFT", "ACTIVE", "PAUSED"}
    /\ \A s \in S : sources[w][s] = "NEW"
    /\ sources' = [sources EXCEPT ![w] = [s \in Source |->
            IF s \in S THEN "CURRENT"
            ELSE IF sources[w][s] = "CURRENT" THEN "REMOVED" ELSE sources[w][s]]]
    /\ UNCHANGED <<watch, run, fetch, digest, event, queueVars, clicks, worker>>

ImportSources(w, S) ==
    /\ watch[w] \in {"DRAFT", "ACTIVE", "PAUSED"}
    /\ S # {}
    /\ \A s \in S : sources[w][s] = "NEW"
    /\ sources' = [sources EXCEPT ![w] = [s \in Source |->
            IF s \in S THEN "CURRENT" ELSE sources[w][s]]]
    /\ UNCHANGED <<watch, run, fetch, digest, event, queueVars, clicks, worker>>

\* The Watch's outbox rows, its runs and the Watch go in one transaction;
\* messages already in SQS stay there.
Delete(w) ==
    /\ watch[w] # "DELETED"
    /\ watch' = [watch EXCEPT ![w] = "DELETED"]
    /\ sources' = [sources EXCEPT ![w] = [s \in Source |->
            IF sources[w][s] = "CURRENT" THEN "REMOVED" ELSE sources[w][s]]]
    /\ run' = [r \in Run |-> IF OnWatch(r, w) THEN Deleted ELSE run[r]]
    /\ event' = [r \in Run |-> IF OnWatch(r, w) THEN "NONE" ELSE event[r]]
    /\ fetch' = [r \in Run |->
            IF OnWatch(r, w) THEN [s \in Source |-> "NONE"] ELSE fetch[r]]
    /\ digest' = {r \in digest : ~OnWatch(r, w)}
    /\ UNCHANGED <<queueVars, clicks, worker>>

-----------------------------------------------------------------------------
(* Requesting a run: request_manual_run and ScheduleService._enqueue_watch *)

\* Mutant of MarkerFree: no unique key on active_marker.
MarkerUnchecked(w) == TRUE

MarkerFree(w) == \A r \in Run : OnWatch(r, w) => ~run[r].marker

Insert(w, d) ==
    \E r \in Run :
        /\ run[r] = Unused
        /\ run' = [run EXCEPT ![r] = NewRow(w, d)]
        /\ event' = [event EXCEPT ![r] = "UNPUBLISHED"]
        /\ UNCHANGED <<watch, sources, fetch, digest, queueVars, worker>>

\* Reads only: the Watch is ACTIVE and has no QUEUED or RUNNING run.  Kill
\* switches, cooldown and daily limit can refuse the click, which changes nothing.
CheckManualRun(w) ==
    /\ watch[w] = "ACTIVE"
    /\ \A r \in Run : Active(r) => run[r].watch # w
    /\ clicks[w] < MaxClicks
    /\ clicks' = [clicks EXCEPT ![w] = @ + 1]
    /\ UNCHANGED <<dbVars, queueVars, worker>>

CommitManualRun(w) ==
    /\ clicks[w] > 0
    /\ watch[w] # "DELETED"
    /\ MarkerFree(w)
    /\ clicks' = [clicks EXCEPT ![w] = @ - 1]
    /\ Insert(w, 0)

\* IntegrityError: the unique active_marker, or the Watch is gone.  The caller
\* gets the concurrent run, or the error.
RejectManualRun(w) ==
    /\ clicks[w] > 0
    /\ watch[w] = "DELETED" \/ ~MarkerFree(w)
    /\ clicks' = [clicks EXCEPT ![w] = @ - 1]
    /\ UNCHANGED <<dbVars, queueVars, worker>>

\* A failed savepoint (the marker, or the day's run exists) skips the Watch.
EnqueueScheduled(w, d) ==
    /\ watch[w] = "ACTIVE"
    /\ MarkerFree(w)
    /\ \A r \in Run : OnWatch(r, w) => run[r].day # d
    /\ Insert(w, d)
    /\ UNCHANGED clicks

-----------------------------------------------------------------------------
(* The outbox pump and SQS *)

Send(r) ==
    \E c \in Copy :
        /\ copy[r][c] = "UNSENT"
        /\ copy' = [copy EXCEPT ![r][c] = "VISIBLE"]
        /\ UNCHANGED <<watch, sources, run, fetch, digest, receives, clicks, worker, overlapped>>

Publish(r) ==
    /\ event[r] = "UNPUBLISHED"
    /\ event' = [event EXCEPT ![r] = "PUBLISHED"]
    /\ Send(r)

\* The pump stops between send_message and its commit: the row stays
\* unpublished and will be sent again.  The last copy is kept for Publish.
PublishUnmarked(r) ==
    /\ event[r] = "UNPUBLISHED"
    /\ \E c, d \in Copy : c # d /\ copy[r][c] = "UNSENT" /\ copy[r][d] = "UNSENT"
    /\ Send(r)
    /\ UNCHANGED event

\* Mutant of Returned: one receive too many.
ReturnedLate(n) == IF n > MaxReceive THEN "DLQ" ELSE "VISIBLE"

\* A failed or abandoned delivery is visible again after the visibility
\* timeout, until it was received MaxReceive times.
Returned(n) == IF n >= MaxReceive THEN "DLQ" ELSE "VISIBLE"

\* The worker's invocation ends and its message goes to state s.
Release(k, s) ==
    /\ copy' = [copy EXCEPT ![worker[k].run][worker[k].copy] = s]
    /\ worker' = [worker EXCEPT ![k] = Idle]
    /\ UNCHANGED <<receives, clicks, overlapped>>

GiveBack(k) == Release(k, Returned(receives[worker[k].run][worker[k].copy]))

-----------------------------------------------------------------------------
(* DiscoveryProcessor.process *)

Take(k, r, c) ==
    /\ worker[k] = Idle
    /\ copy[r][c] = "VISIBLE"
    /\ receives' = [receives EXCEPT ![r][c] = @ + 1]
    /\ overlapped' = IF \E j \in Worker : worker[j] # Idle /\ worker[j].run = r
                     THEN overlapped \cup {r} ELSE overlapped
    /\ UNCHANGED <<dbVars, clicks>>

\* Mutant of IsDone: no early return for a SUCCEEDED run.
IsDoneNever(row) == FALSE

IsDone(row) == row.status = "SUCCEEDED"

\* WORKFLOW_NOT_FOUND or WORKFLOW_CANCELLED: the delivery fails at once.
ReceiveGone(k, r, c) ==
    /\ Take(k, r, c)
    /\ ~Exists(r)
    /\ copy' = [copy EXCEPT ![r][c] = Returned(receives[r][c] + 1)]
    /\ UNCHANGED worker

ReceiveDone(k, r, c) ==
    /\ Take(k, r, c)
    /\ Exists(r) /\ IsDone(run[r])
    /\ copy' = [copy EXCEPT ![r][c] = "INFLIGHT"]
    /\ worker' = [worker EXCEPT ![k] = [pc |-> "ack", run |-> r, copy |-> c]]

ReceiveWork(k, r, c) ==
    /\ Take(k, r, c)
    /\ Exists(r) /\ ~IsDone(run[r])
    /\ copy' = [copy EXCEPT ![r][c] = "INFLIGHT"]
    /\ worker' = [worker EXCEPT ![k] =
            [pc |-> "loaded", run |-> r, copy |-> c, seen |-> run[r],
             todo |-> CurrentSources(run[r].watch), at |-> NoSource]]

\* The worker is at pc p and the row it will write is still there.
At(k, p) == worker[k].pc = p /\ Exists(worker[k].run)

\* A committed unit of work: the row the worker holds becomes new.
Persist(k, new) ==
    run' = [run EXCEPT ![worker[k].run] = Flush(@, worker[k].seen, new)]

Start(k) ==
    LET new == [worker[k].seen EXCEPT !.status = "RUNNING"] IN
    /\ At(k, "loaded")
    /\ Persist(k, new)
    /\ worker' = [worker EXCEPT ![k].pc = "next", ![k].seen = new]
    /\ UNCHANGED <<watch, sources, fetch, digest, event, queueVars, clicks>>

AlreadyProcessed(r, s) == fetch[r][s] # "NONE"

SkipProcessed(k, s) ==
    /\ At(k, "next")
    /\ s \in worker[k].todo
    /\ AlreadyProcessed(worker[k].run, s)
    /\ worker' = [worker EXCEPT ![k].todo = @ \ {s}]
    /\ UNCHANGED <<dbVars, queueVars, clicks>>

PickSource(k, s) ==
    /\ At(k, "next")
    /\ s \in worker[k].todo
    /\ ~AlreadyProcessed(worker[k].run, s)
    /\ worker' = [worker EXCEPT ![k].pc = "source", ![k].todo = @ \ {s}, ![k].at = s]
    /\ UNCHANGED <<dbVars, queueVars, clicks>>

\* The SourceFetch row can be inserted: no row for (run, source) yet, and the
\* source still exists.
Insertable(r, s) == fetch[r][s] = "NONE" /\ sources[run[r].watch][s] = "CURRENT"

\* Counters and the SourceFetch row, in one transaction.
Record(k, status, new) ==
    LET r == worker[k].run  s == worker[k].at IN
    /\ Insertable(r, s)
    /\ Persist(k, new)
    /\ fetch' = [fetch EXCEPT ![r][s] = status]
    /\ worker' = [worker EXCEPT ![k].pc = "next", ![k].seen = new, ![k].at = NoSource]
    /\ UNCHANGED <<watch, sources, digest, event, queueVars, clicks>>

\* The source's circuit is open or the source is disabled.
SkipUnavailable(k) ==
    /\ At(k, "source")
    /\ Record(k, "SKIPPED", [worker[k].seen EXCEPT !.fail = @ + 1])

SourceSucceeds(k) ==
    /\ At(k, "source")
    /\ \/ Record(k, "SUCCEEDED", [worker[k].seen EXCEPT !.succ = @ + 1])
       \/ Record(k, "MATCHED", [worker[k].seen EXCEPT !.succ = @ + 1, !.matched = TRUE])

\* A rollback expires the session's objects, so the row is read again: the
\* source failed, another run holds its shared fetch, or the insert of the
\* shared fetch lost a race and the source goes on.
RollBack(k, p) ==
    /\ At(k, "source")
    /\ p \in {"failing", "pending", "source"}
    /\ worker' = [worker EXCEPT ![k].pc = p, ![k].seen = run[worker[k].run]]
    /\ UNCHANGED <<dbVars, queueVars, clicks>>

\* Mutant of RecordFailure: the row is added, the counter forgotten.
RecordUncounted(k) ==
    /\ At(k, "failing")
    /\ Record(k, "PERMANENT_FAILED", worker[k].seen)

RecordFailure(k) ==
    /\ At(k, "failing")
    /\ Record(k, "PERMANENT_FAILED", [worker[k].seen EXCEPT !.fail = @ + 1])

\* Mutant of RequeuePending: the exception is swallowed, SQS drops the message.
RequeueSwallowed(k) ==
    /\ At(k, "pending")
    /\ Persist(k, [worker[k].seen EXCEPT !.status = "QUEUED"])
    /\ Release(k, "ACKED")
    /\ UNCHANGED <<watch, sources, fetch, digest, event>>

\* SharedFetchPending: another run holds the lease of this fetch; the run goes
\* back to QUEUED and the delivery fails.
RequeuePending(k) ==
    /\ At(k, "pending")
    /\ Persist(k, [worker[k].seen EXCEPT !.status = "QUEUED"])
    /\ GiveBack(k)
    /\ UNCHANGED <<watch, sources, fetch, digest, event>>

SettledLocked(row) ==
    [row EXCEPT !.status  = IF row.succ > 0 THEN "SUCCEEDED" ELSE "PERMANENT_FAILED",
                !.outcome = IF row.succ > 0 THEN "COMPLETED" ELSE "FAILED"]

Settled(row) ==
    [row EXCEPT
        !.status  = IF row.succ > 0 THEN "SUCCEEDED" ELSE "PERMANENT_FAILED",
        !.outcome = IF row.succ = 0 THEN "FAILED"
                    ELSE IF row.fail > 0 THEN "COMPLETED_WITH_WARNINGS" ELSE "COMPLETED",
        !.marker  = FALSE]

\* The end of process: final status, marker released, at most one digest.
Finish(k) ==
    LET r == worker[k].run IN
    /\ At(k, "next")
    /\ worker[k].todo = {}
    /\ Persist(k, Settled(worker[k].seen))
    /\ digest' = IF worker[k].seen.matched THEN digest \cup {r} ELSE digest
    /\ worker' = [worker EXCEPT ![k] = [pc |-> "ack", run |-> r, copy |-> worker[k].copy]]
    /\ UNCHANGED <<watch, sources, fetch, event, queueVars, clicks>>

\* handle_sqs_batch returned without this item: SQS deletes the message.
Ack(k) ==
    /\ worker[k].pc = "ack"
    /\ Release(k, "ACKED")
    /\ UNCHANGED dbVars

\* An exception leaves process: the row to write is gone (StaleDataError), or
\* the SourceFetch row cannot be inserted (IntegrityError).
Abort(k) ==
    LET r == worker[k].run IN
    /\ worker[k].pc \notin {"idle", "ack"}
    /\ Exists(r) => worker[k].pc \in {"source", "failing"} /\ ~Insertable(r, worker[k].at)
    /\ GiveBack(k)
    /\ UNCHANGED dbVars

\* The Lambda is killed or times out; the message becomes visible again.
Crash(k) ==
    /\ worker[k].pc # "idle"
    /\ GiveBack(k)
    /\ UNCHANGED dbVars

-----------------------------------------------------------------------------
Deliver(k) ==
    \E r \in Run, c \in Copy :
        ReceiveGone(k, r, c) \/ ReceiveDone(k, r, c) \/ ReceiveWork(k, r, c)

Work(k) ==
    \/ Start(k)
    \/ \E s \in Source : SkipProcessed(k, s) \/ PickSource(k, s)
    \/ SkipUnavailable(k)
    \/ SourceSucceeds(k)
    \/ \E p \in {"failing", "pending", "source"} : RollBack(k, p)
    \/ RecordFailure(k)
    \/ RequeuePending(k)
    \/ Finish(k)
    \/ Ack(k)
    \/ Abort(k)

Owner(w) ==
    \/ Activate(w) \/ Pause(w) \/ Archive(w) \/ Delete(w)
    \/ \E S \in SUBSET Source : Replace(w, S) \/ ImportSources(w, S)
    \/ CheckManualRun(w) \/ CommitManualRun(w) \/ RejectManualRun(w)
    \/ \E d \in Day : EnqueueScheduled(w, d)

Next ==
    \/ \E w \in Watch : Owner(w)
    \/ \E r \in Run : Publish(r) \/ PublishUnmarked(r)
    \/ \E k \in Worker : Deliver(k) \/ Work(k) \/ Crash(k)

\* The pump runs every minute, SQS keeps delivering, a worker that is not
\* killed goes on.  Users, operators and crashes owe nothing.
Fairness ==
    /\ \A r \in Run : WF_vars(Publish(r))
    /\ \A k \in Worker : WF_vars(Deliver(k)) /\ WF_vars(Work(k))

Spec == Init /\ [][Next]_vars
FairSpec == Spec /\ Fairness

-----------------------------------------------------------------------------
(* Properties *)

Succeeded(r) == {s \in Source : fetch[r][s] \in {"SUCCEEDED", "MATCHED"}}
Failed(r)    == {s \in Source : fetch[r][s] \in {"SKIPPED", "PERMANENT_FAILED"}}
Matched(r)   == {s \in Source : fetch[r][s] = "MATCHED"}

\* Run coalescing: active_marker locks the Watch for one run, and only for a
\* run that is not settled (models.py: "becomes null at a terminal state").
LockDiscipline ==
    /\ \A r \in Run : Exists(r) /\ run[r].marker => run[r].status \in ActiveStatus
    /\ \A r, q \in Run :
          /\ Exists(r) /\ run[r].marker
          /\ Exists(q) /\ run[q].marker
          /\ run[r].watch = run[q].watch
          => r = q

\* Someone still has to work on run r: its event is not published, a message
\* is queued or dead-lettered, or a worker that will not acknowledge has it.
Owed(r) ==
    \/ event[r] = "UNPUBLISHED"
    \/ \E c \in Copy : copy[r][c] \in {"VISIBLE", "DLQ"}
    \/ \E k \in Worker : worker[k].pc \notin {"idle", "ack"} /\ worker[k].run = r

\* No lost work: whatever crashes, and however deliveries overlap, a QUEUED or
\* RUNNING run is never left without a message (async-processing.md: "ACK only
\* after durable success").
NoForgottenRun == \A r \in Run : Active(r) => Owed(r)

\* A worker that will still write a final status to run r.
WillSettle(k, r) ==
    /\ worker[k].pc \notin {"idle", "ack"}
    /\ worker[k].run = r
    /\ worker[k].seen.status \in ActiveStatus

\* The inductive form of NoForgottenRun.  A worker whose row was refreshed to a
\* terminal status writes no status at the end, so it does not count.
ActiveIsOwed ==
    \A r \in Run : Active(r) =>
        \/ event[r] = "UNPUBLISHED"
        \/ \E c \in Copy : copy[r][c] \in {"VISIBLE", "DLQ"}
        \/ \E k \in Worker : WillSettle(k, r)

\* A worker holds one message in flight, its own.
HoldsItsMessage ==
    /\ \A k \in Worker : worker[k] # Idle =>
            copy[worker[k].run][worker[k].copy] = "INFLIGHT"
    /\ \A k, j \in Worker :
            worker[k] # Idle /\ worker[j] # Idle /\ k # j =>
                worker[k].run # worker[j].run \/ worker[k].copy # worker[j].copy

\* A message that can be received was received less than MaxReceive times.
ReceivesLeft ==
    \A r \in Run, c \in Copy :
        copy[r][c] \in {"UNSENT", "VISIBLE"} => receives[r][c] < MaxReceive

\* A released marker is never taken back: a worker that read null is right.
SeenMarkerIsReleased ==
    \A k \in Worker : worker[k].pc \notin {"idle", "ack"} =>
        LET r == worker[k].run IN
        Exists(r) /\ ~worker[k].seen.marker => ~run[r].marker

\* A worker only loads a run that was inserted, so a new run has no worker.
WorksOnAnInsertedRun ==
    \A k \in Worker :
        worker[k].pc \notin {"idle", "ack"} => run[worker[k].run] # Unused

\* The inductive invariant of the proofs.
IInv ==
    /\ TypeOK
    /\ ReceivesLeft
    /\ HoldsItsMessage
    /\ ActiveIsOwed
    /\ WorksOnAnInsertedRun
    /\ SeenMarkerIsReleased
    /\ LockDiscipline

\* A run that no two workers had in hand at once.
Serial(r) == Exists(r) /\ r \notin overlapped

\* The counters of the row count its SourceFetch rows.
Counted(r) ==
    /\ run[r].succ = Cardinality(Succeeded(r))
    /\ run[r].fail = Cardinality(Failed(r))
    /\ run[r].matched <=> Matched(r) # {}

\* While deliveries of a run do not overlap, a redelivery can rebuild its result from
\* the row after any commit, and what a settled run reports is what its sources did:
\* SUCCEEDED when one worked, warnings when one failed, a digest when it matched jobs.
ResultIsTruthful ==
    \A r \in Run : Serial(r) =>
        /\ Counted(r)
        /\ run[r].status \in TerminalStatus =>
              /\ run[r].status = "SUCCEEDED" <=> Succeeded(r) # {}
              /\ run[r].outcome = "COMPLETED" <=> (Succeeded(r) # {} /\ Failed(r) = {})
              /\ r \in digest <=> Matched(r) # {}

\* A redelivered or late message then never changes the result of a SUCCEEDED run.
SucceededIsFinal ==
    [][\A r \in Run : Serial(r) /\ run[r].status = "SUCCEEDED" =>
            run[r]' \in {run[r], Deleted}]_vars

DeadLettered(r) == \E c \in Copy : copy[r][c] = "DLQ"

\* A run releases the Watch: it is settled, deleted with its Watch, or waits
\* in the dead-letter queue for an operator.
LockIsReleased ==
    \A r \in Run : (Exists(r) /\ run[r].marker) ~>
        (~(Exists(r) /\ run[r].marker) \/ DeadLettered(r))
=============================================================================
