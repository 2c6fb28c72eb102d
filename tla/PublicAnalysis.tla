--------------------------- MODULE PublicAnalysis ---------------------------
(***************************************************************************)
(* The shared analysis of one public job version: its JobDemandProfile row, *)
(* the AiOperation row its calls are charged to, the services that queue it *)
(* (queue_public_job_analysis, retry_public_job_analysis) and the workers   *)
(* that run AiOrchestrator.analyze_public_job for the queued messages.      *)
(***************************************************************************)
EXTENDS Naturals, FiniteSets

CONSTANTS
    Caller,          \* requests that queue or retry the analysis
    Worker,
    Message,         \* bound: job.analysis.requested events
    MaxReceive,      \* maxReceiveCount of the queue
    MaxCrashes       \* bound: workers that die at work

VARIABLES
    profile,    \* JobDemandProfile.status, or "NONE" before the first request
    document,   \* JobDemandProfile.profile is set
    op,         \* the AiOperation row of the idempotency key, or NoOp
    caller,     \* the status each open request has read, or "IDLE"
    message,    \* where each message is
    receives,   \* ApproximateReceiveCount of each message
    worker,     \* what each worker is doing
    ledger,     \* history: provider calls and valid answers, and those a crash lost
    overlapped  \* history: two deliveries were under way at once

vars == <<profile, document, op, caller, message, receives, worker, ledger, overlapped>>

-----------------------------------------------------------------------------
Failed  == {"DEGRADED_FAILED", "RETRYABLE_FAILED", "PERMANENT_FAILED"}
Waiting == {"QUEUED", "RUNNING"}
Status  == Waiting \cup Failed \cup {"SUCCEEDED"}

NoOp == [status |-> "NONE", attempts |-> 0]
Op   == [status : Status, attempts : Nat]

Idle == [pc |-> "idle"]
Busy ==
    [pc      : {"cached", "start", "call", "SUCCEEDED"} \cup Failed,
     message : Message,
     status  : Status,               \* profile.status in this session
     op      : Op \cup {NoOp},       \* the operation in this session
     billed  : Nat]                  \* calls not yet written to the operation

\* Type correctness; a worker past its first commit holds the operation it will charge.
TypeOK ==
    /\ profile \in Status \cup {"NONE"}
    /\ document \in BOOLEAN
    /\ op \in Op \cup {NoOp}
    /\ caller \in [Caller -> Status \cup {"NONE", "IDLE"}]
    /\ message \in [Message -> {"UNSENT", "VISIBLE", "INFLIGHT", "ACKED", "DLQ"}]
    /\ receives \in [Message -> 0..MaxReceive]
    /\ worker \in [Worker -> {Idle} \cup Busy]
    /\ ledger \in [calls : Nat, answers : Nat, lostCalls : Nat, lostAnswers : Nat,
                   crashes : 0..MaxCrashes]
    /\ overlapped \in BOOLEAN
    /\ \A k \in Worker : worker[k].pc \notin {"idle", "cached", "start"}
                            => worker[k].status = "RUNNING" /\ worker[k].op.status = "RUNNING"

Init ==
    /\ profile = "NONE"
    /\ document = FALSE
    /\ op = NoOp
    /\ caller = [c \in Caller |-> "IDLE"]
    /\ message = [m \in Message |-> "UNSENT"]
    /\ receives = [m \in Message |-> 0]
    /\ worker = [k \in Worker |-> Idle]
    /\ ledger = [calls |-> 0, answers |-> 0, lostCalls |-> 0, lostAnswers |-> 0, crashes |-> 0]
    /\ overlapped = FALSE

\* Only a column whose value in the session changed is written.
Merge(stored, seen, new) == IF new = seen THEN stored ELSE new

At(k, p) == worker[k].pc = p

-----------------------------------------------------------------------------
(* Requests: each reads the profile and commits later *)

\* queue_public_job_analysis leaves a waiting or a finished profile alone.
ReadToQueue(c) ==
    /\ caller[c] = "IDLE"
    /\ profile \in Failed \cup {"NONE"}
    /\ caller' = [caller EXCEPT ![c] = profile]
    /\ UNCHANGED <<profile, document, op, message, receives, worker, ledger, overlapped>>

\* retry_public_job_analysis takes the profile as it is.
ReadToRetry(c) ==
    /\ caller[c] = "IDLE"
    /\ caller' = [caller EXCEPT ![c] = profile]
    /\ UNCHANGED <<profile, document, op, message, receives, worker, ledger, overlapped>>

\* Mutant of CommitRequest: a profile that exists is reset without an event.
CommitRequestQuietly(c) ==
    /\ caller[c] # "IDLE"
    /\ caller[c] = "NONE" => profile = "NONE"
    /\ profile' = Merge(profile, caller[c], "QUEUED")
    /\ \E m \in Message :
          /\ message[m] = "UNSENT"
          /\ message' = IF caller[c] = "NONE" THEN [message EXCEPT ![m] = "VISIBLE"] ELSE message
    /\ caller' = [caller EXCEPT ![c] = "IDLE"]
    /\ UNCHANGED <<document, op, receives, worker, ledger, overlapped>>

\* The status and the event are one transaction.
CommitRequest(c) ==
    /\ caller[c] # "IDLE"
    /\ caller[c] = "NONE" => profile = "NONE"
    /\ profile' = Merge(profile, caller[c], "QUEUED")
    /\ \E m \in Message :
          /\ message[m] = "UNSENT"
          /\ message' = [message EXCEPT ![m] = "VISIBLE"]
    /\ caller' = [caller EXCEPT ![c] = "IDLE"]
    /\ UNCHANGED <<document, op, receives, worker, ledger, overlapped>>

\* Another request inserted the profile first (uq_job_analysis_version).
RejectRequest(c) ==
    /\ caller[c] = "NONE" /\ profile # "NONE"
    /\ caller' = [caller EXCEPT ![c] = "IDLE"]
    /\ UNCHANGED <<profile, document, op, message, receives, worker, ledger, overlapped>>

-----------------------------------------------------------------------------
(* The queue *)

\* Mutant of Returned: one receive too many.
ReturnedLate(m) == IF receives'[m] > MaxReceive THEN "DLQ" ELSE "VISIBLE"

Returned(m) == IF receives'[m] >= MaxReceive THEN "DLQ" ELSE "VISIBLE"

Raise(m) == message' = [message EXCEPT ![m] = Returned(m)]

Acknowledge(m) == message' = [message EXCEPT ![m] = "ACKED"]

Receive(k, m) ==
    /\ worker[k] = Idle /\ message[m] = "VISIBLE"
    /\ overlapped' = (overlapped \/ \E j \in Worker : worker[j] # Idle)
    /\ receives' = [receives EXCEPT ![m] = @ + 1]

-----------------------------------------------------------------------------
(* analyze_public_job, up to its first commit *)

ReceiveDone(k, m) ==
    /\ Receive(k, m)
    /\ profile = "SUCCEEDED"
    /\ Acknowledge(m)
    /\ UNCHANGED <<profile, document, op, caller, worker, ledger>>

\* AI_DISABLED, AI_CAPABILITY_UNAVAILABLE.
ReceiveRefused(k, m) ==
    /\ Receive(k, m)
    /\ Raise(m)
    /\ UNCHANGED <<profile, document, op, caller, worker, ledger>>

\* Mutant of IsCached: an operation that succeeded is charged again.
IsCachedNever == FALSE

IsCached == op.status = "SUCCEEDED" /\ document

Load(k, m) ==
    /\ Receive(k, m)
    /\ profile # "SUCCEEDED"
    /\ message' = [message EXCEPT ![m] = "INFLIGHT"]
    /\ worker' = [worker EXCEPT ![k] =
          [pc |-> IF IsCached THEN "cached" ELSE "start", message |-> m,
           status |-> profile, op |-> op, billed |-> 0]]
    /\ UNCHANGED <<profile, document, op, caller, ledger>>

Finish(k) == worker' = [worker EXCEPT ![k] = Idle]

\* Mutant of CommitCached: the hit is counted, the profile left as it is.
CommitCachedHit(k) ==
    /\ At(k, "cached")
    /\ Finish(k)
    /\ Acknowledge(worker[k].message)
    /\ UNCHANGED <<profile, document, op, caller, receives, ledger, overlapped>>

CommitCached(k) ==
    /\ At(k, "cached")
    /\ profile' = Merge(profile, worker[k].status, "SUCCEEDED")
    /\ Finish(k)
    /\ Acknowledge(worker[k].message)
    /\ UNCHANGED <<document, op, caller, receives, ledger, overlapped>>

CommitRunning(k) ==
    LET seen == worker[k] IN
    /\ At(k, "start")
    /\ seen.op = NoOp => op = NoOp
    /\ profile' = Merge(profile, seen.status, "RUNNING")
    /\ op' = [status   |-> Merge(op.status, seen.op.status, "RUNNING"),
              attempts |-> op.attempts]
    /\ worker' = [worker EXCEPT ![k].pc = "call", ![k].status = "RUNNING",
                                ![k].op.status = "RUNNING"]
    /\ UNCHANGED <<document, caller, message, receives, ledger, overlapped>>

\* Another worker inserted the operation first (uq_ai_operation_idempotency).
RejectOperation(k) ==
    /\ At(k, "start") /\ worker[k].op = NoOp /\ op # NoOp
    /\ Finish(k)
    /\ UNCHANGED <<profile, document, op, caller, receives, ledger, overlapped>>
    /\ Raise(worker[k].message)

-----------------------------------------------------------------------------
(* analyze_public_job, from the provider call *)

\* One answer that does not validate is repaired by a second call.
Outcome(n) ==
    {"SUCCEEDED", "RETRYABLE_FAILED", "PERMANENT_FAILED"}
        \cup {IF n = 0 THEN "call" ELSE "DEGRADED_FAILED"}

CallProvider(k) ==
    /\ At(k, "call")
    /\ \E outcome \in Outcome(worker[k].billed) :
          /\ worker' = [worker EXCEPT ![k].pc = outcome, ![k].billed = @ + 1]
          /\ ledger' = [ledger EXCEPT !.calls = @ + 1,
                                      !.answers = IF outcome = "SUCCEEDED" THEN @ + 1 ELSE @]
    /\ UNCHANGED <<profile, document, op, caller, message, receives, overlapped>>

\* Mutant of Charged: what earlier deliveries were charged is forgotten.
ChargedAnew(seen, s) == [status |-> s, attempts |-> seen.billed]

\* The counter is the one this session read, plus its own calls.
Charged(seen, s) == [status |-> s, attempts |-> seen.op.attempts + seen.billed]

CommitSucceeded(k) ==
    /\ At(k, "SUCCEEDED")
    /\ profile' = "SUCCEEDED"
    /\ document' = TRUE
    /\ op' = Charged(worker[k], "SUCCEEDED")
    /\ Finish(k)
    /\ Acknowledge(worker[k].message)
    /\ UNCHANGED <<caller, receives, ledger, overlapped>>

\* A degraded analysis returns, a provider failure raises.
CommitFailed(k) ==
    /\ worker[k].pc \in Failed
    /\ profile' = worker[k].pc
    /\ op' = Charged(worker[k], worker[k].pc)
    /\ Finish(k)
    /\ UNCHANGED <<document, caller, receives, ledger, overlapped>>
    /\ IF At(k, "DEGRADED_FAILED") THEN Acknowledge(worker[k].message)
                                   ELSE Raise(worker[k].message)

Crash(k) ==
    /\ worker[k] # Idle
    /\ ledger.crashes < MaxCrashes
    /\ Finish(k)
    /\ UNCHANGED <<profile, document, op, caller, receives, overlapped>>
    /\ Raise(worker[k].message)
    /\ ledger' = [ledger EXCEPT !.crashes = @ + 1,
                                !.lostCalls = @ + worker[k].billed,
                                !.lostAnswers = IF At(k, "SUCCEEDED") THEN @ + 1 ELSE @]

-----------------------------------------------------------------------------
Work(k) ==
    \/ CommitCached(k) \/ CommitRunning(k) \/ RejectOperation(k)
    \/ CallProvider(k) \/ CommitSucceeded(k) \/ CommitFailed(k)

Deliver(m) == \E k \in Worker : ReceiveDone(k, m) \/ ReceiveRefused(k, m) \/ Load(k, m)

Next ==
    \/ \E c \in Caller :
          ReadToQueue(c) \/ ReadToRetry(c) \/ CommitRequest(c) \/ RejectRequest(c)
    \/ \E m \in Message : Deliver(m)
    \/ \E k \in Worker : Work(k) \/ Crash(k)

Spec == Init /\ [][Next]_vars

-----------------------------------------------------------------------------
(* Properties *)

\* A profile that waits for a worker has a message left (the dead-letter queue
\* included): no overlap of requests and workers leaves it waiting for nobody.
WaitingHasMessage ==
    profile \in Waiting => \E m \in Message : message[m] \notin {"UNSENT", "ACKED"}

\* While no deliveries overlap, a valid answer is bought once, and again only if the
\* worker that held it died, however often the analysis is queued and retried.
BoughtOnce == ~overlapped => ledger.answers <= 1 + ledger.lostAnswers

\* No call is charged twice, whatever overlaps and is delivered again; and while no
\* deliveries overlap every call is charged, except those whose worker died.
ChargedInFull ==
    /\ op.attempts <= ledger.calls
    /\ (~overlapped /\ \A k \in Worker : worker[k] = Idle)
          => op.attempts + ledger.lostCalls = ledger.calls

\* While no deliveries overlap, an analysis that was obtained is served once the
\* queue is drained, even if requests had put it back to QUEUED.
ResultSurvives ==
    (~overlapped /\ document /\ \A m \in Message : message[m] \in {"UNSENT", "ACKED"})
        => profile = "SUCCEEDED"
=============================================================================
