----------------------------- MODULE AnalyzeJob -----------------------------
(***************************************************************************)
(* Analyze-a-Job for public URLs of one user: AnalyzeJobService requests an *)
(* analysis, PublicAnalyzeJobProcessor fetches the page, makes it a Job and *)
(* JobVersion (CanonicalJobService.upsert) and asks for the shared analysis *)
(* of that version (queue_public_job_analysis).  The analysis itself is     *)
(* PublicAnalysis.  Rows are read unlocked and only columns that differ     *)
(* from what was read are written.                                          *)
(***************************************************************************)
EXTENDS Naturals, FiniteSets

CONSTANTS
    Page,        \* normalized URLs, each of a job of its own; one analysis row of each
    Anonymous,   \* pages with no JSON-LD and no __NEXT_DATA__: no external id
    Message,     \* bound: analyze.job.requested events
    Caller, Worker,
    Limit,       \* entitlement: analyses per month
    MaxReceive   \* maxReceiveCount of the queue

VARIABLES
    row,       \* AdHocJobAnalysis of each page: status, has it a demand profile, its job
    profile,   \* status of the JobDemandProfile of the page's version
    version,   \* the job that version belongs to; a job is named by the page it was found on
    byUrl,     \* pages whose version carries their URL (one from a source may not)
    listing,   \* the job of each (generic_public, external id)
    message, worker, caller

vars    == <<row, profile, version, byUrl, listing, message, worker, caller>>
catalog == <<profile, version, byUrl, listing>>

-----------------------------------------------------------------------------
\* An event in the outbox and its message are one here, both wait.
Waits == {"WAITING", "INFLIGHT", "DLQ"}

\* generic_public identifies a job by what the page says, else by the empty string.
ExternalId(p) == IF p \in Anonymous THEN "" ELSE p
ExternalIds   == {ExternalId(p) : p \in Page}

NoRow  == [status |-> "NONE", demand |-> FALSE, job |-> "NONE"]
Gone   == [status |-> "DELETED", demand |-> FALSE, job |-> "NONE"]
Unsent == [of |-> "NONE", at |-> "UNSENT", receives |-> 0]
Idle   == [pc |-> "idle", msg |-> "NONE", seen |-> NoRow]
NoCall == [pc |-> "idle", of |-> "NONE", seen |-> NoRow, found |-> FALSE]

RowStatus == {"QUEUED", "FETCHING", "ANALYSIS_QUEUED", "RETRYABLE_FAILED", "PERMANENT_FAILED"}

\* Type correctness; what names a profile has one.
TypeOK ==
    /\ \A p \in Page :
          /\ row[p] \in {NoRow, Gone} \/ row[p] \in [status : RowStatus, demand : BOOLEAN,
                                           job : Page \cup {"NONE"}]
          /\ row[p].demand => profile[p] # "NONE" /\ row[p].job # "NONE"
    /\ profile \in [Page -> {"NONE", "QUEUED", "SUCCEEDED", "FAILED"}]
    /\ version \in [Page -> Page \cup {"NONE"}]
    /\ byUrl \subseteq {p \in Page : version[p] # "NONE"}
    /\ listing \in [ExternalIds -> Page \cup {"NONE"}]
    /\ \A m \in Message : message[m] = Unsent \/
           message[m] \in [of : Page, at : Waits \cup {"ACKED"}, receives : 0..MaxReceive]
    /\ \A k \in Worker : worker[k] = Idle \/ worker[k].pc \in {"loaded", "fetching"}
    /\ \A c \in Caller : caller[c] = NoCall \/ caller[c].pc = "commit"

Init ==
    /\ row = [p \in Page |-> NoRow]
    /\ profile = [p \in Page |-> "NONE"] /\ version = [p \in Page |-> "NONE"]
    /\ byUrl = {}
    /\ listing = [x \in ExternalIds |-> "NONE"]
    /\ message = [m \in Message |-> Unsent]
    /\ worker = [k \in Worker |-> Idle]
    /\ caller = [c \in Caller |-> NoCall]

Send(p) ==
    \E m \in Message :
        /\ message[m] = Unsent
        /\ message' = [message EXCEPT ![m] = [of |-> p, at |-> "WAITING", receives |-> 0]]

Stored(p) == row[p] \notin {NoRow, Gone}

\* A column is written only if the session's copy of the row changed.
Write(old, new, stored) ==
    [f \in DOMAIN stored |-> IF new[f] # old[f] THEN new[f] ELSE stored[f]]

\* A profile that failed is queued again, one that waits or succeeded is shared.
QueueAnalysis(p) ==
    profile' = IF profile[p] \in {"NONE", "FAILED"} THEN [profile EXCEPT ![p] = "QUEUED"]
                                                   ELSE profile

-----------------------------------------------------------------------------
(* AnalyzeJobService *)

Succeeded(p) == row[p].demand /\ profile[p] = "SUCCEEDED"

HasCapacity == Cardinality({p \in Page : Stored(p)}) < Limit

\* A finished analysis is returned; a new row needs capacity.
Find(c, p) ==
    /\ caller[c] = NoCall
    /\ row[p] # Gone /\ ~Succeeded(p)
    /\ row[p] = NoRow => HasCapacity
    /\ caller' = [caller EXCEPT ![c] =
          [pc |-> "commit", of |-> p, seen |-> row[p], found |-> p \in byUrl]]
    /\ UNCHANGED <<row, catalog, message, worker>>

Requested(c) ==
    LET p == caller[c].of IN
    IF caller[c].found
    THEN [status |-> "ANALYSIS_QUEUED", demand |-> TRUE, job |-> version[p]]
    ELSE [caller[c].seen EXCEPT !.status = "QUEUED", !.demand = FALSE]

Leave(c) == caller[c].pc = "commit" /\ caller' = [caller EXCEPT ![c] = NoCall]

\* A version with the URL is analysed at once, any other page is fetched first.
CommitRequest(c) ==
    LET p == caller[c].of IN
    /\ Leave(c)
    /\ row[p] # Gone /\ (row[p] = NoRow) = (caller[c].seen = NoRow)
    /\ row' = [row EXCEPT ![p] = IF @ = NoRow THEN Requested(c)
                                 ELSE Write(caller[c].seen, Requested(c), @)]
    /\ IF caller[c].found THEN QueueAnalysis(p) ELSE UNCHANGED profile
    /\ IF caller[c].found THEN UNCHANGED message ELSE Send(p)
    /\ UNCHANGED <<version, byUrl, listing, worker>>

\* The idempotency key is taken, or the row is gone.
RequestRefused(c) ==
    /\ Leave(c)
    /\ row[caller[c].of] = Gone \/ (row[caller[c].of] = NoRow) # (caller[c].seen = NoRow)
    /\ UNCHANGED <<row, catalog, message, worker>>

\* The row is gone for good; another analysis of the URL would be another row.
Delete(p) ==
    /\ Stored(p)
    /\ row' = [row EXCEPT ![p] = Gone]
    /\ UNCHANGED <<catalog, message, worker, caller>>

-----------------------------------------------------------------------------
(* What other components do *)

\* Discovery finds the job of a page with another adapter and asks for its analysis.
Discovered(p, same) ==
    /\ p \notin Anonymous /\ version[p] = "NONE"
    /\ version' = [version EXCEPT ![p] = p]
    /\ byUrl' = IF same THEN byUrl \cup {p} ELSE byUrl
    /\ QueueAnalysis(p)
    /\ UNCHANGED <<row, listing, message, worker, caller>>

AnalysisEnds(p, s) ==
    /\ profile[p] = "QUEUED"
    /\ profile' = [profile EXCEPT ![p] = s]
    /\ UNCHANGED <<row, version, byUrl, listing, message, worker, caller>>

-----------------------------------------------------------------------------
(* PublicAnalyzeJobProcessor.process *)

Returned(m, n) == [message[m] EXCEPT !.at = IF n >= MaxReceive THEN "DLQ" ELSE "WAITING",
                                     !.receives = n]

\* A deleted analysis raises; one with a profile or a final failure is done.
ReceiveAndReturn(k, m) ==
    LET p == message[m].of IN
    /\ worker[k] = Idle /\ message[m].at = "WAITING"
    /\ ~Stored(p) \/ row[p].demand \/ row[p].status = "PERMANENT_FAILED"
    /\ message' = [message EXCEPT ![m] =
          IF ~Stored(p) THEN Returned(m, @.receives + 1) ELSE [@ EXCEPT !.at = "ACKED"]]
    /\ UNCHANGED <<row, catalog, worker, caller>>

Load(k, m) ==
    LET p == message[m].of IN
    /\ worker[k] = Idle /\ message[m].at = "WAITING"
    /\ Stored(p) /\ ~row[p].demand /\ row[p].status # "PERMANENT_FAILED"
    /\ message' = [message EXCEPT ![m].at = "INFLIGHT", ![m].receives = @ + 1]
    /\ worker' = [worker EXCEPT ![k] = [pc |-> "loaded", msg |-> m, seen |-> row[p]]]
    /\ UNCHANGED <<row, catalog, caller>>

PageOf(k) == message[worker[k].msg].of
Ack(k) ==
    /\ message' = [message EXCEPT ![worker[k].msg].at = "ACKED"]
    /\ worker' = [worker EXCEPT ![k] = Idle]
Raise(k) ==
    LET m == worker[k].msg IN
    /\ message' = [message EXCEPT ![m] = Returned(m, @.receives)]
    /\ worker' = [worker EXCEPT ![k] = Idle]

CommitFetching(k) ==
    LET p == PageOf(k)
        new == [worker[k].seen EXCEPT !.status = "FETCHING"]
    IN
    /\ worker[k].pc = "loaded" /\ Stored(p)
    /\ row' = [row EXCEPT ![p] = Write(worker[k].seen, new, @)]
    /\ worker' = [worker EXCEPT ![k].pc = "fetching", ![k].seen = new]
    /\ UNCHANGED <<catalog, message, caller>>

\* upsert: the listing of the external id decides the job; a job with the same company,
\* title and location is shared, a version with the same text too.
JobOf(p) == IF listing[ExternalId(p)] # "NONE" THEN listing[ExternalId(p)] ELSE p

Analysed(k) ==
    LET p == PageOf(k)
        new == [status |-> "ANALYSIS_QUEUED", demand |-> TRUE, job |-> JobOf(p)]
    IN
    /\ worker[k].pc = "fetching" /\ Stored(p)
    /\ listing' = [listing EXCEPT ![ExternalId(p)] = JobOf(p)]
    /\ version' = [version EXCEPT ![p] = IF @ = "NONE" THEN JobOf(p) ELSE @]
    /\ byUrl' = IF version[p] = "NONE" THEN byUrl \cup {p} ELSE byUrl
    /\ QueueAnalysis(p)
    /\ row' = [row EXCEPT ![p] = Write(worker[k].seen, new, @)]
    /\ Ack(k)
    /\ UNCHANGED caller

\* How the fetch of a page may fail: an address or server that may answer later, or a
\* page that is refused, too large or not of the web.
FetchErrors == {"RETRYABLE_FAILED", "PERMANENT_FAILED"}

\* Mutant of FetchFails: a retryable failure is stored and not raised.
FetchFailsQuietly(k, s) ==
    LET p == PageOf(k) IN
    /\ worker[k].pc = "fetching" /\ Stored(p)
    /\ row' = [row EXCEPT ![p] = Write(worker[k].seen, [worker[k].seen EXCEPT !.status = s], @)]
    /\ Ack(k)
    /\ UNCHANGED <<catalog, caller>>

\* An AppError of the fetch or the page; only a retryable one is raised again.
FetchFails(k, s) ==
    LET p == PageOf(k) IN
    /\ worker[k].pc = "fetching" /\ Stored(p)
    /\ row' = [row EXCEPT ![p] = Write(worker[k].seen, [worker[k].seen EXCEPT !.status = s], @)]
    /\ IF s = "RETRYABLE_FAILED" THEN Raise(k) ELSE Ack(k)
    /\ UNCHANGED <<catalog, caller>>

\* Any other exception (a unique key, a row that is gone) or the end of the worker:
\* nothing is stored, the message comes back.
Dies(k) ==
    /\ worker[k] # Idle
    /\ Raise(k)
    /\ UNCHANGED <<row, catalog, caller>>

-----------------------------------------------------------------------------
Next ==
    \/ \E c \in Caller, p \in Page : Find(c, p)
    \/ \E c \in Caller : CommitRequest(c) \/ RequestRefused(c)
    \/ \E p \in Page : Delete(p)
    \/ \E p \in Page, same \in BOOLEAN : Discovered(p, same)
    \/ \E p \in Page, s \in {"SUCCEEDED", "FAILED"} : AnalysisEnds(p, s)
    \/ \E k \in Worker, m \in Message : ReceiveAndReturn(k, m) \/ Load(k, m)
    \/ \E k \in Worker : CommitFetching(k) \/ Analysed(k) \/ Dies(k)
    \/ \E k \in Worker, s \in FetchErrors : FetchFails(k, s)

Spec == Init /\ [][Next]_vars

-----------------------------------------------------------------------------
(* Properties *)

\* An analysis that neither failed for good nor has a profile to wait for still has an
\* event or message that will bring it to a worker, FETCHING rows of dead workers too.
PageHasMessage ==
    \A p \in Page :
        Stored(p) /\ ~row[p].demand /\ row[p].status # "PERMANENT_FAILED" =>
            \E m \in Message : message[m].of = p /\ message[m].at \in Waits

\* "Conservative deduplication" (README.md): analyses of pages that describe different
\* jobs name different jobs.
JobsAreDistinct ==
    \A p, q \in Page : p # q /\ row[p].job # "NONE" => row[p].job # row[q].job
=============================================================================
