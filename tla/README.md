# Direhire: specifications, model checking and proofs

TLA+ modules for the Direhire backend (`src/apps/api/src/direhire`, a Python
modular monolith behind FastAPI, with Lambda workers, PostgreSQL, S3 and SQS).
Each module is translated from the source; `PROJECT.json` names, for every
definition, the lines it models. Paths below are relative to
`src/apps/api/src/direhire` unless they start with `src/`.

To check a module: `tlc -config <run>.cfg <MC module>`; to check the proofs:
`tlapm <Module>Proofs.tla`.

## 1. The system

### How the parts work together

A request handler changes rows and inserts an `OutboxEvent` in one transaction
(the transactional outbox, `events/outbox.py`). Once a minute a scheduled Lambda
inserts the due Watch runs and then pumps pending events to SQS
(`workers/maintenance.py`). SQS delivers a message at least once; a Lambda worker
loads rows, commits intermediate states, calls the outside world (job boards, AI
providers, ClamAV, SES, Telegram) between commits, and commits the result. An
exception returns the message to its queue; after five receives it goes to a
dead-letter queue, from which an operator may redrive it
(`src/infrastructure/terraform/queues.tf`).

Four facts about this runtime shape every module:

- PostgreSQL runs READ COMMITTED and nothing uses `SELECT ... FOR UPDATE` or a
  compare-and-swap; uniqueness constraints are the only locks.
- Sessions have `expire_on_commit=False` (`db.py:30`): after a commit a worker goes
  on with the row it loaded, not with the row in the database.
- SQLAlchemy writes only the columns whose value changed *in the session*. This is
  the operator `Merge(stored, seen, new)` of the modules: a column is written iff
  `new # seen`. Two workers over one row therefore mix their columns.
- An `UPDATE` of a row that was deleted raises (`StaleDataError`) and the message
  goes back.

### Inventory

| Part | State it keeps | Operations | What is hard | What makes it correct | Module |
|---|---|---|---|---|---|
| Watches, runs, discovery, scheduling | `JobWatch`, `JobWatchRun` (status, counters, `active_marker`), `SourceFetch`, digest | click, schedule, activate, pause, archive, edit, delete; process a run source by source | redelivery, overlap, crash between commits, edits under way | one run per Watch at a time, no run forgotten, result = what the sources did | `WatchRuns` |
| Outbox and pump | `OutboxEvent` | insert with the change, load batch, publish, mark | out-of-order commits, overlapping pumps, death between publish and mark | every committed event is sent at least once | `Outbox` implements `AtLeastOnce` |
| Shared fetch coalescing | `SharedSourceFetch` row: owner, lease, results, expiry | claim, fetch, complete, fail, wait | leases that expire, late owners, crash of the owner | no stale result, no self-blocking | `SharedFetch` |
| Source circuit | `SourcePolicy` health, counters, cooldown | admission, success, failure, operator controls | reports of fetches that began before the operator acted | the operator's switch wins, automatic pauses end | `SourceCircuit` |
| Notifications | `ExternalNotificationDelivery` status, attempts | dispatch, retry, redrive | provider accepts, worker dies | no delivery forgotten, a sent one kept | `NotificationDelivery` |
| Public job analysis | `JobDemandProfile`, `AiOperation` | queue, retry, analyze | paid call between two commits, overlap | bought once, charged in full, result survives | `PublicAnalysis` |
| Analyze a job | `AdHocJobAnalysis`, its job and version | request, re-queue, fetch, delete | re-queue while FETCHING; which job is a page | never left without a message; different jobs stay apart | `AnalyzeJob` |
| Private AI | `PrivateAiArtifact`, suggestions, profile, `AiOperation` | request, generate, edit, decide, duplicate, delete | quota check-then-act, redelivery over an edited draft, decisions at once | edits survive, quota holds, the profile is what was accepted | `PrivateAi` |
| Documents, exports, deletion | `TailoredCvDocument`, `DataExport`, `DeletionWorkflow`, `PrivateFile`, objects | request, render, export, delete the artifact, delete data or account | the object before the row; a deletion among writers | nothing is left, nothing returns, objects and rows match | `PrivateData` |
| Private files | `PrivateFile`, `BaseCv`, objects | upload, complete, scan, promote, delete | object store and rows are not one transaction | a waiting file can be scanned, a clean one exists and stays clean | `FileScan` |
| Watch expansion | criteria, `search_expansion`, `AiOperation` | create, replace, expand | an edit while the provider thinks | the criteria have or will get their expansion | `WatchExpansion` |
| AI routes | `AiProviderRoute` cooldowns | generate with fallback and repair | rows and clock read again for each model, changes written after network calls, other workers in between | no route that stayed usable is passed over, no outage without a call | `AiRoutes` |
| Sessions | `AuthSession`, `security_version`, `account_status` | sign in, authenticate, sign out, verify, delete | a version written as "read plus one" | what ended is never accepted again | `Sessions` |
| Inbox and applications | `UserJob`, `Application` and its children | set status, create, update, delete, notes, interviews, reminders | the status kept twice, partial UPDATEs | the two statuses agree; the inbox can be read | `Tracking` |
| Entitlements | plan rows | limits that guard the requests | counted without a lock | (with its callers) | `PrivateAi`, `AnalyzeJob` |
| Audit, operations, profiles, API shell | rows | inserts, switches, one-row replacement | - | - | not modelled |
| Adapters, matching, sanitizers, renderers, web frontend | none | pure functions, I/O | - | - | outcomes only |

`PROJECT.json` lists all of them under `components`, with the reason for each that
is not modelled or only partly, and under `hazards` what is hard to test in this
code, at the line where it bites, with the properties that watch it.

## 2. The modules

One module per component. Its variables are the rows (only the columns the
properties tell apart), the queue, and what each worker holds between two commits.
A worker is a record with a program counter `pc`, the message it holds and `seen`,
its session's copy of the row. One action is one transaction or one call to the
outside. A request that decides on what it read is two actions, the read and the
commit, so that another request or a worker may come in between.

The queue looks the same everywhere: a message is `UNSENT`, `VISIBLE`, `INFLIGHT`,
`ACKED` or `DLQ` (with fewer of these where the others make no difference), with its
receive count. `Raise` is an exception or a death: the message becomes visible again,
or dead once `MaxReceive` receives are used up.

SQS may deliver twice, a worker that outlives its visibility timeout overlaps with
its successor, and nothing serialises requests: every run allows two of each at once.
The history variables `overlapped` and `raced` record that it happened. They are the
line between two sets of promises: a property without them holds whatever overlaps; a
property with the premise `~overlapped` or `~raced` is what the code keeps only while
the deliveries or requests of a row come one after the other, in any number and with
any crash, and which overlapping stale rows do break. Where the harm of a race can be bounded
or ends, the history is narrower (`crowd`, `crossed`, `raced` as a set of suggestions) and the
property speaks of the race itself (section 3, "Why the premises are there").

### Discovery and its infrastructure

- **WatchRuns**: `watches/service.py` (manual run, edit, import, activate, pause, archive,
  delete), `scheduling/service.py` (`_enqueue_watch`), `discovery/service.py`
  (`process` with its helpers) and `workers/discovery.py`. Runs, their events, their
  `SourceFetch` rows and the digest. `active_marker` is the boolean `marker`: the
  column is unique and holds the Watch's own id. A request is split at its check and
  its commit, so two clicks can pass the check together.
- **SharedFetch**: `sources/coalescing.py`. A clock, the lease and the cache time; the
  public page changes at recorded times, so that the age of a result can be judged.
- **SourceCircuit**: `sources/policy_service.py`. Each report writes exactly the
  columns its UPDATE writes.
- **AtLeastOnce**: what an outbox promises: what is committed is eventually sent or
  withdrawn, and nothing is settled that was not sent.
- **Outbox**: `events/outbox.py` and the pump. Events are numbered when inserted and
  commit in any order; a pump loads a batch, publishes its head and marks it.
  `Promise == INSTANCE AtLeastOnce` maps the rows to the promise.
- **NotificationDelivery**: `notifications/service.py` (`dispatch`) and
  `workers/notifications.py`, one external delivery.

### Analyses

- **PublicAnalysis**: `ai/service.py`, `ai/orchestrator.py` (`analyze_public_job`) and
  `workers/analysis.py`, one profile and its operation row. A history variable
  `ledger` counts what the provider was really asked and what was lost with a dead
  worker, so that charges can be compared with calls.
- **AnalyzeJob**: `analyze/service.py` for public URLs, `workers/analyze_job.py` and
  `jobs/service.py` (`upsert`). The worker fetches the page, finds or makes its job and
  version and leaves the analysis to `PublicAnalysis`, of which only the outcome
  appears (`AnalysisEnds`). A page without an identifier of its own gets the external id
  `""`; `listing` is the job that `(generic_public, external id)` belongs to.
- **AiRoutes**: `ai/providers.py`, `GeminiPoolProvider.generate`, and the two calls of it that
  `analyze_public_job` makes in one session (`Repair`). The identity map of a session refers
  weakly to unmodified rows and the provider keeps none, so a row is read from the table each
  time it is looked at (`Look`, `Ask`) unless the session changed it (`own`); a read first
  flushes what was changed, which locks those rows until the transaction ends (`MayFlush`).
  The clock is read anew for each model (`NextModel`). Between any two of these steps time may
  pass and another worker may commit. The models are tried in turn, each on the routes found
  out of cooldown, in the order of the cursor; a fallback model that finds none may use any.

### What is done for one user

- **PrivateAi**: `ai/private_service.py`, `ai/private_orchestrator.py`, the pasted requests
  of `analyze/service.py`, `duplicate` of `documents/service.py`. Artifacts of three types with
  the quota of `entitlements/service.py`, the worker's two commits around its call with what
  `OpenRouterPrivateProvider` (`ai/providers.py`) raises, edits of a draft, and suggestions with
  the decisions on them.
- **PrivateData**: `documents/service.py`, `privacy/service.py` and their workers. Documents
  and exports are the products of a job each: `QUEUED`, `RUNNING`, object written, file row
  and `SUCCEEDED`. A deletion lists the files, erases the objects one by one and then the
  rows; its last statement takes every event of the user. Deleting the artifact is a
  request that does the same to its documents.
- **FileScan**: `files/service.py` (upload, completion, deletion, scan) and
  `workers/file_scan.py`, one CV. The object store is the set of keys that hold an
  object; a history variable `erased` tells a deleted object from one that was never
  there. S3 may refuse to copy an object onto itself: both outcomes are allowed.
- **WatchExpansion**: `watches/service.py` (create, replace) and
  `watches/expansion_orchestrator.py`. Criteria are two columns, because a PUT writes only
  what it changed and two PUTs can leave a mixture; a hash stands for the criteria.
- **Sessions**: `auth/session_service.py`, `auth/user_service.py`, `auth/routes.py` and the
  steps of an account deletion that touch sessions.
- **Tracking**: `applications/service.py`, `inbox/service.py`: the inbox row of a job and the
  application for it, with the children an application deletes.

### The three hosts

Most parts share no row that a property is about. Three MC modules host several of them in
one state space, so that one exploration answers for all: `Init` chooses the part that
runs and only that part moves.

- **MCUserWork**: `PrivateAi` (extended), `AnalyzeJob`, `WatchExpansion`, `Sessions` and
  `NotificationDelivery` (instances). Where two parts have a variable of the same name it is
  one variable; a variable that only other parts have is `Off`.
- **MCJobsAndData**: `PrivateData` (extended), `PublicAnalysis` and `Tracking` (instances with
  variables of their own). The parts that do not run stay as they start.
- **MCFetchAndRoutes**: `SharedFetch` (extended) and `AiRoutes` (an instance). The pool has many
  starts (which routes are enabled, which cooldowns are under way) and is `Off` while the fetch
  runs.

The other MC modules add symmetry. A `*Proofs` module holds proofs. `PrivateDataProofs` is
about the component alone; what the hosts add to it and to `SharedFetch` is proved in
`UserWorkProofs`, `JobsAndDataProofs` and `FetchAndRoutesProofs`, about the compositions that the
runs explore.

## 3. The runs

All passing runs explore their whole state space. "/" marks the properties that
are promised only while nothing overlaps or races.

| Run | Question | Instance | Checked |
|---|---|---|---|
| WatchRuns | is a run ever left without a message; is its result what its sources did? | 1 run, 1 source + 1 added by an edit, 2 workers, 2 copies, 2 receives | `TypeOK`, `NoForgottenRun` / `ResultIsTruthful`, `SucceededIsFinal` |
| WatchRunsLock | is `active_marker` an exclusive lock, and is it released? | 2 runs, 2 clicks, 1 day, 2 workers, fairness | `LockDiscipline`, `LockIsReleased` |
| FetchAndRoutes, fetch | how old can reused results be; is a run blocked by its own lease? | 2 runs, 2 workers, 1 change, clock to 6, lease 1 | `TypesOK`, `FreshResults` / `NotBlockedByItself` |
| FetchAndRoutes, routes | does the pool pass over a route that stayed usable, or give up without a call? | 2 routes, 2 models, cooldown 1, clock to 2, 2 workers | `NoFalseOutage` |
| SourceCircuit | can a stale report undo the operator's switch; does an automatic pause end? | 2 workers, every control, fairness | `TypeOK`, `DisableIsHonoured`, `AutomaticPauseEnds` |
| OutboxPromise | does the outbox implement `AtLeastOnce`, liveness included? | 3 events, 2 pumps, batches of 2, fairness | `TypeOK`, `SendsAtLeastOnce` |
| FileScan | is the object always where the row says; does a clean file stay clean, does a scan end? | 2 completions, 2 workers, 2 messages, 3 receives, 2 faults, deletion, fairness | `TypeOK`, `StillScannable`, `CleanHasObject` / `CleanIsFinal`, `ScanEnds` |
| JobsAndData, data | is a deleted account empty, does anything come back, do objects and rows match? | 1 document, 1 export, both workflows, 2 requests, 2 workers, 2 receives, 1 fault | `TypesOK`, `NoRevival`, `FilesMatchObjects`, `WaitingHasMessage` / `AccountErased` |
| JobsAndData, analysis | does anything wait without a message; is a paid answer kept and paid once? | 2 requests, 2 workers, 2 events, 2 receives, 2 deaths | `AnalysisHasMessage`, no double charge (`ChargedInFull`) / `BoughtOnce`, no lost charge (`ChargedInFull`), `ResultSurvives` |
| JobsAndData, tracking | do the two statuses of a job agree? | 2 requests, 2 inbox rows and 2 applications in turn | `StatusesAgree` (races heal) |
| UserWork, ai | do redeliveries lose an edit, requests the quota or the profile a decision? | 2 tailored CVs, 2 CVs with suggestions, 1 pasted job, limit 1, 2 messages, 2 receives, 1 fault, 2 requests, 2 workers | `TypesOK`, `ArtifactHasMessage`, `QuotaIsKept`, `ProfileHoldsDecisions` (per suggestion) / `EditsSurvive` |
| UserWork, analyze | is a page left FETCHING without a message? | 1 page, 2 messages, 2 requests, 2 workers | `PageHasMessage` |
| UserWork, expand | do edited criteria get their expansion? | 2 criteria, 3 events, 2 requests, 2 workers | `ExpansionIsOwed` (but for what a race undid) |
| UserWork, session | is an ended session accepted again? | 3 tokens, 2 requests, version to 4 | / `EndedStaysEnded` |
| UserWork, digest | is an unsent delivery forgotten, a sent one sent again? | 2 workers, 2 copies, 5 receives and attempts, redrives, deletion | `NoForgottenDelivery` / `SentIsFinal` |
| DeletionForgotten | *violated*: a requested deletion is durable | both workflows, 2 requests, 2 workers | `DeletionIsDurable` |
| JobsMerged | *violated*: analyses of different jobs name different jobs | 2 pages without identifier | `JobsAreDistinct` |
| InboxUnreadable | *violated*: the inbox lists only statuses it declares | 1 application | `InboxIsReadable` |
| NotificationDeliveryTwice | *violated*: a digest is not sent twice | 1 worker, 1 message | `NotSentTwice` |

The parts of `FetchAndRoutes`, of `JobsAndData` and of `UserWork` are one run each;
every property names the part it is about. The names in a host are aliases
(`AnalysisHasMessage` is `PublicAnalysis!WaitingHasMessage`, `ArtifactHasMessage` is
`PrivateAi!WaitingHasMessage`).

### What the violated runs show

Each states what a document, comment or declaration of the repository says; `PROJECT.json`
quotes it next to the line of code that does otherwise (`findings`).

- `DeletionForgotten`: `_delete_private_rows` removes every outbox event of the user, the
  unpublished event of the user's other workflow included. That workflow stays QUEUED and
  its marker gives the same row to every repeated request.
- `JobsMerged`: every page without JSON-LD and without `__NEXT_DATA__` has the external id
  `""`, so all of them are one listing and the second becomes a version of the first's job.
- `InboxUnreadable`: an application writes its status (`APPLIED` by default) into the inbox
  row, and the response model of `GET /inbox` does not know it.
- `NotificationDeliveryTwice`: the provider is called without an idempotency key before
  anything is stored.

Two more disagreements were met and are what the code does, with no run of their own: a run
settled as PERMANENT_FAILED is reopened by a redelivery after its marker was released,
although `models.py:207` says that the marker equals the Watch while QUEUED or RUNNING
(`LockDiscipline` states the direction that holds); and the report of a fetch under way
overwrites the health that an operator's PAUSE wrote, although
`src/docs/runbooks/source-adapter-incident.md:3` relies on pausing an adapter
(`DisableIsHonoured` states what holds: the switch, not the health).

### Why the premises are there

Without `~overlapped` or `~raced`, `ResultIsTruthful` fails because each of two workers
settles the run from its own counters; `BoughtOnce` because `analyze_public_job` asks the
provider also when another worker has the profile RUNNING; `CleanIsFinal` because the slower
worker writes SCANNING over CLEAN; `NotBlockedByItself` because two workers of one run can
lose the insert to each other; `AccountErased` because a worker that is past its load
writes an object after the deletion listed the files; `EditsSurvive` because the slower of two
workers stores the provider's draft; `EndedStaysEnded` because two verifications write the same
version.

Where a race does harm that can be bounded or that ends, the property says so rather than
leave the race out:

- `QuotaIsKept` has no premise. Requests count before they insert and nothing serialises them,
  so two can pass the last unit together; the rows exceed the limit by fewer than the most
  requests that had passed the check of that quota at once (`crowd`), however often they come.
- `ProfileHoldsDecisions` excludes single suggestions. Each of two decisions writes the whole
  list it read, so one of the two may be lost; what was decided before and after them is not,
  and what is PENDING is never in the profile.
- `StatusesAgree` heals. Each UPDATE leaves out the column that equals what its request had read,
  so two requests can leave the statuses apart; the next request for the application that nothing
  comes between puts them together, and they stay so.
- `ChargedInFull`: overlapping workers lose each other's charges, but never charge twice.
- `ExpansionIsOwed`: two PUTs that overlap can leave criteria neither asked for, until the next
  PUT. A PUT that commits between a worker's last look at the criteria and its own commit
  (`crossed`) is made good by its own message; only if another worker finished that message within
  the same window does the slower one undo it.

### Bounds and why they are enough

- *Workers, requests, pumps: two.* The interactions are between one actor holding a
  stale row and one that changed it. A third repeats one of the two roles.
- *Messages per row: two.* One original and one duplicate; in `PublicAnalysis` one
  event of each request, and every crash delivers one of them again. `WatchExpansion` has
  three: creation and two edits.
- *Receives: two or three instead of five* where only "some left / none left"
  matters. `NotificationDelivery` keeps the real five, because its limit of attempts
  is five as well, and a delivery at that limit is acknowledged. In `FileScan`
  the receives exceed the faults, because a file whose receives are used up rests in
  the dead-letter queue; `ScanEnds` is about the others.
- *Sources: one at first and one added or put in its place by an edit* is the least
  that gives success and failure in one run, and a source that is gone before its
  result is stored.
- *Clock of SharedFetch: 6* covers claim, expiry, take-over and a late owner. The
  bound of `FreshResults` is `CacheTime + Lifetime`, not `CacheTime`: a late owner may
  write results that are one invocation old, and a worker whose page did not change
  does not write the results column again but does renew the expiry.
- *FileScan: the client uploads once before completion.* A presigned URL may be used
  again for five minutes; overwriting the bytes of a key is not modelled because
  contents are not.
- *PrivateData: one document and one export* differ in what the last statements of a
  deletion do to them; two workflows give the interaction of deletions.
- *PrivateAi: limit 1 and two rows* reach the limit and go past it when two requests race.
- *AiRoutes: two routes and two models* give a route that fails while the other cools down and
  a fallback after both. Every combination of enabled routes and of cooldowns under way is a
  start; a cooldown of one tick and a clock to 2 let a cooldown end, or be committed by the other
  worker, between any two reads.
- *UserWork, analyze: one page.* Pages meet only in the job they are taken for, which is what
  `JobsMerged` explores with two; `PageIsAwaited` is proved for any number.
- *Sessions: version to 4* is the start and three verifications.
- *Inbox rows and applications: two in turn* give a row that is deleted and made again while a
  request holds the first.
- *MaxClicks, MaxChanges, MaxAccepted, MaxCrashes, MaxDeaths, MaxFaults, MaxRows* bound how often
  the environment acts; each is a guard in the module.

Deadlock checking is off (but in `FetchAndRoutes`, neither part of which ever stops): a system whose
work is done, or whose messages are all acknowledged or dead, does stop.

### Fairness

- A worker goes on with what it holds (`WF` of its step): Lambda runs an invocation to
  its end or kills it, and the kill is an action of its own.
- A visible message is delivered eventually: the event source mapping polls
  (`src/infrastructure/terraform/runtime.tf:203`). Strong fairness is used where another
  delivery can take the message away and return it.
- The pump runs every minute (`runtime.tf:236`): weak fairness of sending, and strong
  fairness of publish and mark in `Outbox`, where a pump may die each time: at some
  point one does not die.
- Cooldowns elapse with the clock.

Nothing is assumed of users, operators, providers or crashes. The hosts state no fairness:
"has a message left" is the safety half of "is eventually done", whose live half is the
outbox's promise and the queue's delivery.

## 4. What is proved

TLAPS checks eight modules, for every value of the constants: any number of workers, requests,
messages, rows and sources, any limits. The safety properties of the passing runs are all
theorems, in the form the run checks. The assumptions are those on the constants only; they are
named in the modules that declare them and TLC evaluates them on every run. They say

- that limits, lifetimes and receives are natural numbers, positive where a delivery or a
  version has to exist at all (`ConstantsAssumption`, `FetchConstants`, `CircuitConstants`,
  `OutboxConstants`, `ScanConstants`, `PrivateDataConstants`, `PrivateAiConstants`,
  `UserWorkConstants`, `JobsAndDataConstants`, `PoolConstants`), and that a generation has a
  second model (`PoolConstants`): there are two fallback models, of which the policy can name one;
- that "no row" is no row and that two kinds of row have no id in common (`"NONE" \notin Page`,
  `Document \cap Export = {}`, `NoRun \notin Run`, and so on);
- that the artifacts a quota counts and the requests for them are finite, and that a Watch has
  some criteria and an event to begin with (`Terms`, `Places`, `Message` nonempty).

| Proof module | Theorems (property of the run) |
|---|---|
| WatchRunsProofs | `TypeCorrect`, `NoRunForgotten` (`NoForgottenRun`), `LockIsDisciplined` (`LockDiscipline`), `ResultsAreTruthful` (`ResultIsTruthful`), `SucceededStays` (`SucceededIsFinal`) |
| FetchAndRoutesProofs | `TypeCorrect`, `FetchAndRoutesTyped` (`TypesOK`), `FetchRunsAlone`, `NeverBlockedByItself` (`NotBlockedByItself`), `ServedIsFresh` (`FreshResults`), `OutageIsReal` (`NoFalseOutage`) |
| SourceCircuitProofs | `TypeCorrect`, `DisableHonoured` (`DisableIsHonoured`) |
| OutboxProofs | `TypeCorrect`, `ImplementsPromise` (the safety part of `SendsAtLeastOnce`) |
| FileScanProofs | `TypeCorrect`, `ScannableAlways` (`StillScannable`), `CleanServed` (`CleanHasObject`), `CleanStays` (`CleanIsFinal`) |
| PrivateDataProofs | `PrivateDataTyped`, `NothingDangles` (`FilesMatchObjects`), `RequestsAreAwaited` (`WaitingHasMessage`), `ErasedForGood` (`AccountErased`), `DeletedStaysDeleted` (`NoRevival`) |
| JobsAndDataProofs | `DataRunsAlone`, `JobsAndDataTyped` (`TypesOK`), `AnalysisIsAwaited` (`AnalysisHasMessage`), `AnswerIsBoughtOnce` (`BoughtOnce`), `CallsAreCharged` (`ChargedInFull`), `AnalysisSurvives` (`ResultSurvives`), `StatusesStayTogether` (`StatusesAgree`) |
| UserWorkProofs | `UserWorkTyped` (`TypesOK`), `ArtifactIsAwaited` (`ArtifactHasMessage`), `ProfileIsWhatWasAccepted` (`ProfileHoldsDecisions`), `QuotaNeverExceeded` (`QuotaIsKept`), `EditsAreKept` (`EditsSurvive`), `PageIsAwaited` (`PageHasMessage`), `ExpansionIsAsked` (`ExpansionIsOwed`), `EndedIsFinal` (`EndedStaysEnded`), `NothingForgotten` (`NoForgottenDelivery`), `SentStaysSent` (`SentIsFinal`) |

The three hosts are proved as compositions: a step belongs to the part that `Init` chose, the
invariant of that part is kept by it, and a part that does not run never moves.
`DataRunsAlone` and `FetchRunsAlone` say that a host adds nothing to `PrivateData` and to
`SharedFetch`, so that what is proved of the modules holds where the runs check it.

### One argument that returns: nothing waits without a message

`NoForgottenRun`, `ArtifactHasMessage`, `PageHasMessage`, `AnalysisHasMessage`,
`ExpansionIsOwed`, `NoForgottenDelivery` and `WaitingHasMessage` have the same shape and none is
inductive by itself. A worker that is about to acknowledge is no help to the row it leaves, and
its acknowledgement may be the one that takes the last message away. So each invariant says that
a worker has its message to itself, in flight (`HoldsItsMessage`, `AiHeld`, `PageHeld`,
`AnalystsHold`, `HeldAlone`, `MessagesHeld`), that a message that can be received has receives
left, and what the worker's copy of the row is still good for:

- *Runs* (`ActiveIsOwed`): only a worker whose own copy of the row is active counts, because
  it will write a final status.
- *Artifacts* (`MessageLeft`): a worker with nothing left to do does not count.
- *Pages* (`RequestSaw`, `DemandNamed`): the columns by which a request decides that a page
  needs no fetch only move forward, so a decision taken from an old copy is still right.
- *Expansion* (`SecondLook`, `OwedByOthers`): what a worker decided at its second look at the
  criteria still holds when it commits, unless a request fell in between; and what a worker is
  about to drop does not count, so that criteria that come back while it cancels are owed by
  another message.
- *Deliveries* (`SeenOpen`): a worker at work read a row that was neither sent nor out of
  attempts, so the message it returns is one that may be tried again.

### Component by component

**WatchRuns.** `LockDiscipline` needs `SeenMarkerIsReleased`: a worker that read
`active_marker` as null is right for ever, so that its partial UPDATE cannot bring a released
lock back; and that in turn needs `WorksOnAnInsertedRun`, because a run inserted now starts with
the marker set. The results rest on a second invariant, `ResultInv`: two workers have a run only
where the history says so (`OneAtATime`), so a worker of a run that was not overlapped holds the
row as it is stored, and a run it has started is RUNNING until it settles it or puts it back
(`HoldsTheRow`); the counters, the status, the outcome and the digest then say what the
SourceFetch rows say (`Tallied`), through every commit, rollback, crash and edit of the sources.

**Outbox.** `TypeOK` is inductive as it stands: a pump only holds committed events, and is
marking only what it sent. With it every step of the outbox is a step of `AtLeastOnce` or leaves
its variables alone, and the initial states map to initial states.

**FileScan.** The object of a row exists because nobody takes a key out of `Present` (objects
and erased objects), a request commits only after it found the object, and a worker past the copy
knows that the copy is there (`WorksOnPresent`). The partial UPDATE of a worker that sees the
promoted key leaves the key column alone, which is sound because rows never lead back to the
quarantine key; the lemma `Forward` states this once for all steps. `CleanIsFinal` needs
`InOneHand`: while nothing overlaps one actor has the row in hand, in the state in which it took
it up, and so no actor is left that could write over CLEAN.

**PrivateData.** Three invariants. `DataInv` carries objects and rows: an object is written by a
worker that received its message and a file row is the end of that message (`ObjectsFollow`);
an object without a file row is written off or its message is still queued (`ObjectsAwaited`); and
a file row without its object has an explanation, a fault, a request or a deletion that has not
committed and will take the file row with it (`GapsExplained`, `DeletionsRun`). `ErasureInv` is
about a deletion beside which nothing ran: it is alone (`DeletionAlone`, `RequestsAlone`), every
object has a file row, was left by a fault or is in the hands of the worker that wrote it
(`ObjectsAccounted`), what it has still to erase is on its list (`DeletionAhead`), and a deleted
account is empty with nobody at work who could fill it (`DeletedQuiet`). `RevivalInv` is about
every interleaving: whatever has or had a row has its event behind it (`RowIsSent`), also the rows
a deletion has in hand (`DeletedIsSent`), and ids are never used twice; so a late worker can only
update a row, which fails when the row is gone.

**PublicAnalysis.** Every call and every answer is on the operation row, lost with a dead worker,
or in the hands of the one worker there is while deliveries do not overlap (`Accounted`,
`AnalystAlone`); that worker holds the operation as it is stored, and asks nobody once there
is a document. That nothing is charged twice (`NothingOvercharged`) needs no such premise: what
a worker adds to the attempts it loaded are calls of its own that no other can write.

**Tracking.** A request that nothing came between is the only one, and what it read is still so
(`ReadsHold`), so that what its UPDATEs leave out is right already, also after a race; the row a
request names is the one it locks (`CallsName`).

**AiRoutes.** It would be wrong to say that an outage means every route was called. With three
routes and three models a worker can fail on the first route, find the second alone out of
cooldown for the next model while another worker commits a cooldown of the third, and have only
the first again for the last: the third is never called. Nor do as many models as routes help
when a cooldown ends between the looks of two models. What the code does keep is
`NoFalseOutage`: a route that stayed out of cooldown since `generate` began was called, and some
route was unless none is enabled. The history `free` records who stayed out of cooldown, by the
table and by the session's own rows. The invariant (`Served`) follows such a route through one
model: its cooldown is over by the clock that the model read, in the table and in the session,
so whichever of the two is read the route is found usable; and so it is among the rows still to
be read or the routes still to be tried, or being asked, until the model is done, after which
it has failed and is not `free`. A fallback model has routes to try if any is enabled, and a
call of one is a failure on record.

**PrivateAi.** The quota is a matter of cardinalities: the rows and the requests that are past the
check are together fewer than the limit and the largest crowd (`PlaceKept`); a request that
passes sees fewer rows than the limit, and one that inserts leaves the crowd for the rows. A
draft is edited only once the CV succeeded, and then no worker is on its way to write it
(`DraftAlone`). A decision holds a list that agrees with the profile on every suggestion that
did not race (`ListIsCurrent`): only another decision changes the profile, and it takes the
suggestions of all that are under way out of the promise.

**Sessions.** No session has a version above the user's, which a verification raises from the
value it read, and what it read is current while verifications do not overlap; tokens are fresh,
so a sign-in cannot revive an ended one.

**NotificationDelivery.** Deliveries that do not overlap are one at a time, and none is at work
once the row is SENT (`DigestAlone`).

**SourceCircuit.** The action property follows from what a session may write over a row that
changed since it read it: a worker's report never has the switch among its changed columns
(`WorkersReport`), an operator's copy agrees with the row in the columns it does not write
(`OperatorDecides`), and rows are never deleted (`RowsStay`). `TypeOK` includes "a row marked
DISABLED is disabled", which needs the same facts.

**SharedFetch.** A run that waits saw a lease; that the lease is not its own needs that no other
worker has the run (`Alone`), that a row inserted since the worker found none is another run's
(`InsertedByOther`), and that the worker keeps what it saw (`Pending`). How old a served result
may be is a matter of two columns written by different workers: the results were online one
invocation before the start of the worker whose expiry they carry (`RowFresh`), because results
that replaced those a worker has loaded come from one that was alive then (`ReplacedByLive`) and
nobody outlives its invocation (`InTime`).

### What is only model-checked

The liveness properties: `LockIsReleased`, `AutomaticPauseEnds`, `ScanEnds` and the live half of
`SendsAtLeastOnce`. Liveness under fairness needs `ENABLED`, which the prover does not have.
The violated claims are counterexamples of TLC. No module uses a RECURSIVE operator.

## 5. Not modelled, and why

- Pages, URLs, matching, prompts, answers and documents are values; whether they are
  well-formed is an outcome of the step that looks at them.
- Envelope parsing and batch wrappers: a malformed message changes nothing and ends
  in the dead-letter queue. `workers/notifications.py` takes batches of five; each
  record has its own session and result.
- Time zones and `next_run_at` (`scheduling/service.py`): date arithmetic of one row.
- The counters of AI routes are read by dashboards only; of their health only that an ended
  cooldown is set to null is modelled, as a choice. The rows exist: migration 0008 inserts them
  (`src/migrations/versions/20260812_0008_public_ai_analysis.py:92`), and no code deletes or
  disables one.
- OAuth state, nonce and PKCE, CSRF and cookies: checks of one request, without state in
  the database.
- Pausing a user's Watches at a deletion, the content of an export, rows of the user that
  own no object.
- Read-only endpoints, dashboards, audit inserts, kill switches, configuration, migrations,
  the web frontend.
- Dead-letter redrive only where it changes what is true (`NotificationDelivery`).

## 6. What could come next

- An abstract specification "a job is settled or has a message" that `PrivateAi`, `AnalyzeJob`,
  `WatchRuns`, `PublicAnalysis` and `NotificationDelivery` implement: their proofs share that
  argument, each with its own statement of it.
- `AnalyzeJob` composed with `PublicAnalysis` rather than with its outcome.
- `SharedFetch` under the discovery step of `WatchRuns`, where a pending fetch is what puts a
  run back to QUEUED.
- Kill switches (`operations/controls.py`) read before the work they guard.
