----------------------------- MODULE PrivateAi -----------------------------
(***************************************************************************)
(* Private AI of one user: the requests (PrivateAiRequestService,           *)
(* AnalyzeJobService.request_pasted, TailoredCvService.duplicate,           *)
(* ProfileSuggestionService), the events they leave and the worker that     *)
(* answers them (PrivateAiOrchestrator).  A request is two steps, the reads *)
(* and the commit; nothing locks the rows in between.                       *)
(***************************************************************************)
EXTENDS Naturals, FiniteSets

CONSTANTS
    Tailored,      \* artifacts by type: tailored CVs, one of each job,
    Suggestions,   \* the suggestions taken from a CV (one suggestion each)
    Pasted,        \* and analyses of pasted jobs
    Message,       \* bound: events, and messages sent again
    Caller, Worker,
    Limit,         \* entitlement: artifacts per period
    MaxRows,       \* bound: artifacts requested
    MaxReceive,    \* maxReceiveCount of the queue
    MaxFaults      \* bound: crashes of workers and pumps

Artifact == Tailored \cup Suggestions \cup Pasted

ASSUME PrivateAiConstants ==
    /\ Limit \in Nat /\ MaxRows \in Nat /\ MaxFaults \in Nat
    /\ MaxReceive \in Nat \ {0}
    /\ IsFiniteSet(Artifact) /\ IsFiniteSet(Caller)
    /\ Tailored \cap Suggestions = {} /\ (Tailored \cup Suggestions) \cap Pasted = {}

VARIABLES
    status,      \* of the PrivateAiArtifact, "NONE" before and "DELETED" after
    draft,       \* its working_draft: none, of the provider or edited by the user
    operation,   \* artifacts with an AiOperation
    batches,     \* how often the suggestions of an artifact were inserted
    decision,    \* status of its suggestion
    profile,     \* suggestions that are in the profile
    message,     \* events and messages: of which artifact, where, how often received
    worker, caller,
    faults,      \* history
    clones,      \* history: artifacts made by duplicate
    overlapped,  \* history: artifacts that two workers had at once
    raced,       \* history: suggestions with a decision that another came between
    crowd        \* history: for each quota, the most requests that had passed it at once

vars == <<status, draft, operation, batches, decision, profile, message, worker, caller,
          faults, clones, overlapped, raced, crowd>>
suggested == <<batches, decision, profile>>
history   == <<faults, clones, overlapped, raced, crowd>>

-----------------------------------------------------------------------------
Missing    == {"NONE", "DELETED"}
Unfinished == {"QUEUED", "RUNNING", "RETRYABLE_FAILED"}
Waits      == {"PENDING", "VISIBLE", "INFLIGHT", "DLQ"}

Idle   == [pc |-> "idle", of |-> "NONE", msg |-> "NONE", known |-> FALSE, running |-> FALSE]
Unsent == [of |-> "NONE", at |-> "UNSENT", receives |-> 0]
NoCall == [pc |-> "idle", of |-> "NONE", seen |-> "NONE", list |-> {}]

\* Suggestions are counted by the month, pasted jobs too, the rest by the day.
Quotas       == {Tailored, Suggestions, Pasted}
SameQuota(a) == CHOOSE Q \in Quotas : a \in Q

TypeOK ==
    /\ status \in [Artifact -> Missing \cup Unfinished \cup
                       {"SUCCEEDED", "PERMANENT_FAILED", "DEGRADED_FAILED"}]
    /\ draft \in [Artifact -> {"none", "generated", "edited"}]
    /\ operation \subseteq Artifact
    /\ batches \in [Suggestions -> 0..1]
    /\ decision \in [Suggestions -> {"NONE", "PENDING", "ACCEPTED", "REJECTED"}]
    /\ profile \subseteq Suggestions
    /\ \A m \in Message : message[m] = Unsent \/
           message[m] \in [of : Artifact, at : Waits \cup {"ACKED"}, receives : 0..MaxReceive]
    /\ \A k \in Worker : worker[k] = Idle \/
           worker[k] \in [pc : {"loaded", "calling", "done"}, of : Artifact, msg : Message,
                          known : BOOLEAN, running : BOOLEAN]
    /\ \A c \in Caller : caller[c].pc \in {"idle", "insert", "draft", "decide", "requeue"}
    /\ faults \in 0..MaxFaults
    /\ clones \subseteq Tailored /\ overlapped \subseteq Artifact /\ raced \subseteq Suggestions
    /\ crowd \in [Quotas -> Nat \ {0}]

Init ==
    /\ status = [a \in Artifact |-> "NONE"]
    /\ draft = [a \in Artifact |-> "none"]
    /\ operation = {} /\ profile = {}
    /\ batches = [s \in Suggestions |-> 0]
    /\ decision = [s \in Suggestions |-> "NONE"]
    /\ message = [m \in Message |-> Unsent]
    /\ worker = [k \in Worker |-> Idle]
    /\ caller = [c \in Caller |-> NoCall]
    /\ faults = 0 /\ clones = {} /\ overlapped = {} /\ raced = {}
    /\ crowd = [Q \in Quotas |-> 1]

Requested == {a \in Artifact : status[a] # "NONE"}
SetStatus(a, s) == status' = [status EXCEPT ![a] = s]

\* The event of a request or, from a pump, a message.
Add(a, place) ==
    \E m \in Message :
        /\ message[m] = Unsent
        /\ message' = [message EXCEPT ![m] = [of |-> a, at |-> place, receives |-> 0]]

Send(a) == Add(a, "PENDING")

-----------------------------------------------------------------------------
(* Requests *)

Enter(c, p, a, seen, list) ==
    /\ caller[c] = NoCall
    /\ caller' = [caller EXCEPT ![c] = [pc |-> p, of |-> a, seen |-> seen, list |-> list]]
    /\ UNCHANGED <<status, draft, operation, suggested, message, worker, faults, clones, overlapped>>

Leave(c, p) == caller[c].pc = p /\ caller' = [caller EXCEPT ![c] = NoCall]

\* Mutant of HasCapacity: the limit is exceeded by one.
AlmostCapacity(a) == Cardinality({b \in SameQuota(a) : status[b] \notin Missing}) <= Limit

\* The rows of the period are counted, clones among them; a deleted row is none.
HasCapacity(a) == Cardinality({b \in SameQuota(a) : status[b] \notin Missing}) < Limit

\* Requests that have passed the quota and not inserted yet.
Passed(Q) == {c \in Caller : caller[c].pc = "insert" /\ caller[c].of \in Q}

\* A row with the idempotency key is returned, else the quota is required.
CheckQuota(c, a) ==
    LET here == Cardinality(Passed(SameQuota(a))) + 1 IN
    /\ status[a] = "NONE" /\ Cardinality(Requested) < MaxRows
    /\ HasCapacity(a)
    /\ Enter(c, "insert", a, "NONE", {})
    /\ crowd' = [crowd EXCEPT ![SameQuota(a)] = IF @ < here THEN here ELSE @]
    /\ UNCHANGED raced

InsertArtifact(c) ==
    LET a == caller[c].of IN
    /\ Leave(c, "insert")
    /\ status[a] = "NONE" /\ Cardinality(Requested) < MaxRows
    /\ SetStatus(a, "QUEUED")
    /\ Send(a)
    /\ UNCHANGED <<draft, operation, suggested, worker, history>>

\* The unique key refuses the row of the slower request.
InsertRefused(c) ==
    /\ Leave(c, "insert")
    /\ status[caller[c].of] # "NONE" \/ Cardinality(Requested) = MaxRows
    /\ UNCHANGED <<status, draft, operation, suggested, message, worker, history>>

\* Pasting the same text again queues what has not succeeded, RUNNING included.
FindPasted(c, a) ==
    /\ status[a] \notin Missing \cup {"SUCCEEDED"}
    /\ Enter(c, "requeue", a, status[a], {})
    /\ UNCHANGED <<raced, crowd>>

RequeuePasted(c) ==
    LET a == caller[c].of IN
    /\ Leave(c, "requeue")
    /\ status[a] \notin Missing
    /\ IF caller[c].seen = "QUEUED" THEN UNCHANGED status ELSE SetStatus(a, "QUEUED")
    /\ Send(a)
    /\ UNCHANGED <<draft, operation, suggested, worker, history>>

FindDraft(c, a) ==
    status[a] = "SUCCEEDED" /\ Enter(c, "draft", a, status[a], {}) /\ UNCHANGED <<raced, crowd>>

UpdateDraft(c) ==
    LET a == caller[c].of IN
    /\ Leave(c, "draft")
    /\ status[a] \notin Missing
    /\ draft' = [draft EXCEPT ![a] = "edited"]
    /\ UNCHANGED <<status, operation, suggested, message, worker, history>>

\* A copy is SUCCEEDED and carries the draft, whatever the status of the original.
Duplicate(a, b) ==
    /\ status[a] \notin Missing /\ status[b] = "NONE" /\ Cardinality(Requested) < MaxRows
    /\ SetStatus(b, "SUCCEEDED")
    /\ draft' = [draft EXCEPT ![b] = draft[a]]
    /\ clones' = clones \cup {b}
    /\ UNCHANGED <<operation, suggested, message, worker, caller, faults, overlapped, raced, crowd>>

\* The suggestions of the artifact go by cascade; its events stay.
DeleteArtifact(a) ==
    /\ status[a] \notin Missing
    /\ SetStatus(a, "DELETED")
    /\ draft' = [draft EXCEPT ![a] = "none"]
    /\ decision' = [s \in Suggestions |-> IF s = a THEN "NONE" ELSE decision[s]]
    /\ UNCHANGED <<operation, batches, profile, message, worker, caller, history>>

\* The suggestion must be PENDING; the list of the profile is read with it ...
FindSuggestion(c, s) ==
    LET open == {caller[d].of : d \in {d \in Caller : caller[d].pc = "decide"}} IN
    /\ decision[s] = "PENDING"
    /\ Enter(c, "decide", s, "PENDING", profile)
    /\ raced' = IF open = {} THEN raced ELSE raced \cup open \cup {s}
    /\ UNCHANGED crowd

\* Mutant of Decide: the suggestion is marked, and the profile left to a later request.
DecideLater(c, d) ==
    LET s == caller[c].of IN
    /\ Leave(c, "decide")
    /\ decision[s] # "NONE"
    /\ decision' = [decision EXCEPT ![s] = d]
    /\ UNCHANGED <<status, draft, operation, batches, profile, message, worker, history>>

\* ... and written back whole, with the status.
Decide(c, d) ==
    LET s == caller[c].of IN
    /\ Leave(c, "decide")
    /\ decision[s] # "NONE"
    /\ decision' = [decision EXCEPT ![s] = d]
    /\ profile' = IF d = "ACCEPTED" /\ s \notin caller[c].list
                  THEN caller[c].list \cup {s} ELSE profile
    /\ UNCHANGED <<status, draft, operation, batches, message, worker, history>>

RowGone(c) ==
    /\ \/ /\ Leave(c, "requeue") \/ Leave(c, "draft")
          /\ status[caller[c].of] \in Missing
       \/ Leave(c, "decide") /\ decision[caller[c].of] = "NONE"
    /\ UNCHANGED <<status, draft, operation, suggested, message, worker, history>>

-----------------------------------------------------------------------------
(* The queue *)

Publish(m) ==
    /\ message[m].at = "PENDING"
    /\ message' = [message EXCEPT ![m].at = "VISIBLE"]
    /\ UNCHANGED <<status, draft, operation, suggested, worker, caller, history>>

\* A pump that dies before it marks the event leaves it to be sent again.
PublishUnmarked(m) ==
    /\ faults < MaxFaults /\ faults' = faults + 1
    /\ message[m].at = "PENDING"
    /\ Add(message[m].of, "VISIBLE")
    /\ UNCHANGED <<status, draft, operation, suggested, worker, caller,
                   clones, overlapped, raced, crowd>>

Returned(m, n) == [message[m] EXCEPT !.at = IF n >= MaxReceive THEN "DLQ" ELSE "VISIBLE",
                                     !.receives = n]

Receive(k, m, a) ==
    /\ worker[k] = Idle /\ message[m].at = "VISIBLE" /\ message[m].of = a
    /\ overlapped' = IF \E i \in Worker : worker[i].of = a THEN overlapped \cup {a}
                                                           ELSE overlapped

\* PRIVATE_AI_ARTIFACT_NOT_FOUND, AI_PRIVATE_CAPABILITY_UNAVAILABLE (no policy)
ReceiveAndRaise(k, m, a) ==
    /\ Receive(k, m, a)
    /\ status[a] # "SUCCEEDED"
    /\ message' = [message EXCEPT ![m] = Returned(m, @.receives + 1)]
    /\ UNCHANGED <<status, draft, operation, suggested, worker, caller, faults, clones, raced, crowd>>

ReceiveSucceeded(k, m, a) ==
    /\ Receive(k, m, a)
    /\ status[a] = "SUCCEEDED"
    /\ message' = [message EXCEPT ![m].at = "ACKED"]
    /\ UNCHANGED <<status, draft, operation, suggested, worker, caller, faults, clones, raced, crowd>>

-----------------------------------------------------------------------------
(* PrivateAiOrchestrator.process *)

\* Mutant of Load: a redelivery does not look at the status.
LoadAnyway(k, m, a) ==
    /\ Receive(k, m, a)
    /\ status[a] \notin Missing
    /\ message' = [message EXCEPT ![m].at = "INFLIGHT", ![m].receives = @ + 1]
    /\ worker' = [worker EXCEPT ![k] =
          [pc |-> "loaded", of |-> a, msg |-> m, known |-> a \in operation,
           running |-> status[a] = "RUNNING"]]
    /\ UNCHANGED <<status, draft, operation, suggested, caller, faults, clones, raced, crowd>>

Load(k, m, a) ==
    /\ Receive(k, m, a)
    /\ status[a] \notin Missing \cup {"SUCCEEDED"}
    /\ message' = [message EXCEPT ![m].at = "INFLIGHT", ![m].receives = @ + 1]
    /\ worker' = [worker EXCEPT ![k] =
          [pc |-> "loaded", of |-> a, msg |-> m, known |-> a \in operation,
           running |-> status[a] = "RUNNING"]]
    /\ UNCHANGED <<status, draft, operation, suggested, caller, faults, clones, raced, crowd>>

At(k, p) == worker[k].pc = p
Acknowledge(k) ==
    /\ message' = [message EXCEPT ![worker[k].msg].at = "ACKED"]
    /\ worker' = [worker EXCEPT ![k] = Idle]
GiveBack(k) ==
    LET m == worker[k].msg IN
    /\ message' = [message EXCEPT ![m] = Returned(m, @.receives)]
    /\ worker' = [worker EXCEPT ![k] = Idle]

\* A status that was RUNNING when it was loaded is not written again; from here on the
\* worker has the operation.
CommitRunning(k) ==
    LET a == worker[k].of IN
    /\ At(k, "loaded") /\ status[a] \notin Missing
    /\ worker[k].known \/ a \notin operation
    /\ operation' = operation \cup {a}
    /\ IF worker[k].running THEN UNCHANGED status ELSE SetStatus(a, "RUNNING")
    /\ worker' = [worker EXCEPT ![k] = [pc |-> "calling", of |-> a, msg |-> @.msg,
                                        known |-> TRUE, running |-> TRUE]]
    /\ UNCHANGED <<draft, suggested, message, caller, history>>

\* The operation of a first delivery is there already, or the artifact is gone.
CommitRefused(k) ==
    LET a == worker[k].of IN
    /\ \/ At(k, "loaded") /\ ~worker[k].known /\ a \in operation
       \/ worker[k] # Idle /\ status[a] \in Missing
    /\ GiveBack(k)
    /\ UNCHANGED <<status, draft, operation, suggested, caller, history>>

\* What OpenRouterPrivateProvider.generate raises instead of an answer: its route cools
\* down, or the call fails; only a request that was refused is not worth another try.
Unanswered == {"AI_PRIVATE_ROUTE_UNAVAILABLE", "AI_PRIVATE_PROVIDER_UNAVAILABLE",
               "AI_QUOTA_EXHAUSTED", "AI_RATE_LIMITED", "AI_PRIVATE_RESPONSE_INVALID",
               "AI_PRIVATE_PROVIDER_REJECTED"}
Retryable == Unanswered \ {"AI_PRIVATE_PROVIDER_REJECTED"}

FailedStatus(code) == IF code \in Retryable THEN "RETRYABLE_FAILED" ELSE "PERMANENT_FAILED"

\* Mutant of ProviderFails: a stored failure is not raised.
ProviderFailsQuietly(k, code) ==
    LET a == worker[k].of IN
    /\ At(k, "calling") /\ status[a] \notin Missing
    /\ SetStatus(a, FailedStatus(code))
    /\ Acknowledge(k)
    /\ UNCHANGED <<draft, operation, suggested, caller, history>>

\* ProviderFailure is stored and raised, also when it is permanent.
ProviderFails(k, code) ==
    LET a == worker[k].of IN
    /\ At(k, "calling") /\ status[a] \notin Missing
    /\ SetStatus(a, FailedStatus(code))
    /\ GiveBack(k)
    /\ UNCHANGED <<draft, operation, suggested, caller, history>>

\* Neither the answer nor its repair fits the schema.
OutputInvalid(k) ==
    LET a == worker[k].of IN
    /\ At(k, "calling") /\ status[a] \notin Missing
    /\ SetStatus(a, "DEGRADED_FAILED")
    /\ worker' = [worker EXCEPT ![k].pc = "done"]
    /\ UNCHANGED <<draft, operation, suggested, message, caller, history>>

\* Mutant of SaveSuggestions: no look for what is there.
SaveAgain(a) ==
    /\ batches' = [s \in Suggestions |-> IF s = a THEN batches[s] + 1 ELSE batches[s]]
    /\ decision' = [s \in Suggestions |-> IF s = a THEN "PENDING" ELSE decision[s]]

\* Suggestions are inserted once; the row lock of the artifact, which the content
\* took before, keeps a second worker from looking too early.
SaveSuggestions(a) ==
    LET new == {s \in Suggestions : s = a /\ batches[s] = 0} IN
    /\ batches' = [s \in Suggestions |-> IF s \in new THEN 1 ELSE batches[s]]
    /\ decision' = [s \in Suggestions |-> IF s \in new THEN "PENDING" ELSE decision[s]]

Succeed(k) ==
    LET a == worker[k].of IN
    /\ At(k, "calling") /\ status[a] \notin Missing
    /\ SetStatus(a, "SUCCEEDED")
    /\ draft' = IF a \in Tailored THEN [draft EXCEPT ![a] = "generated"] ELSE draft
    /\ SaveSuggestions(a)
    /\ worker' = [worker EXCEPT ![k].pc = "done"]
    /\ UNCHANGED <<operation, profile, message, caller, history>>

Finish(k) ==
    /\ At(k, "done")
    /\ Acknowledge(k)
    /\ UNCHANGED <<status, draft, operation, suggested, caller, history>>

Crash(k) ==
    /\ worker[k] # Idle
    /\ faults < MaxFaults /\ faults' = faults + 1
    /\ GiveBack(k)
    /\ UNCHANGED <<status, draft, operation, suggested, caller, clones, overlapped, raced, crowd>>

-----------------------------------------------------------------------------
Request(c) ==
    \/ \E a \in Artifact : CheckQuota(c, a)
    \/ InsertArtifact(c) \/ InsertRefused(c)
    \/ \E a \in Pasted : FindPasted(c, a)
    \/ RequeuePasted(c)
    \/ \E a \in Tailored : FindDraft(c, a)
    \/ UpdateDraft(c)
    \/ \E s \in Suggestions : FindSuggestion(c, s)
    \/ \E d \in {"ACCEPTED", "REJECTED"} : Decide(c, d)
    \/ RowGone(c)

Work(k) ==
    \/ \E a \in Artifact, m \in Message :
          ReceiveAndRaise(k, m, a) \/ ReceiveSucceeded(k, m, a) \/ Load(k, m, a)
    \/ \E code \in Unanswered : ProviderFails(k, code)
    \/ CommitRunning(k) \/ CommitRefused(k) \/ OutputInvalid(k) \/ Succeed(k)
    \/ Finish(k) \/ Crash(k)

Next ==
    \/ \E c \in Caller : Request(c)
    \/ \E k \in Worker : Work(k)
    \/ \E a, b \in Tailored : Duplicate(a, b)
    \/ \E a \in Artifact : DeleteArtifact(a)
    \/ \E m \in Message : Publish(m) \/ PublishUnmarked(m)

Spec == Init /\ [][Next]_vars

-----------------------------------------------------------------------------
(* Properties *)

\* A step leaves what the user edited alone, but for a deletion.
EditKept ==
    \A a \in Tailored \ overlapped' :
        draft[a] = "edited" => draft'[a] = "edited" \/ status'[a] = "DELETED"

\* What the user edited is not overwritten by the provider's draft, however often the
\* artifact is delivered again, unless two workers had it at once.
EditSurvives == [][EditKept]_vars

\* An artifact that waits for a worker has an event or message left, whatever
\* overlapping workers and requests wrote into it.
WaitingHasMessage ==
    \A a \in Artifact : status[a] \in Unfinished =>
        \E m \in Message : message[m].of = a /\ message[m].at \in Waits

\* Suggestions are proposed once and are in the profile only by a decision; of those whose
\* decision no other came between it holds exactly the accepted, although lists that other
\* decisions read before and after are written back whole.
ProfileIsDecided ==
    \A s \in Suggestions :
        /\ batches[s] <= 1
        /\ decision[s] = "PENDING" => s \notin profile
        /\ s \notin raced => /\ decision[s] = "ACCEPTED" => s \in profile
                             /\ decision[s] = "REJECTED" => s \notin profile

\* The requested rows stay below the entitlement and the most requests that were past its
\* check at once, however often they come: one at a time they never exceed it.  Clones are
\* counted by it, but not refused.
QuotaHolds ==
    \A a \in Artifact :
        Cardinality({b \in SameQuota(a) : status[b] \notin Missing} \ clones)
            < Limit + crowd[SameQuota(a)]
=============================================================================
