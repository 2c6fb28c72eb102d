------------------------- MODULE PrivateDataProofs -------------------------
(***************************************************************************)
(* TLAPS proofs about PrivateData, for any number of documents, exports,    *)
(* requests, workers and faults.  Three invariants, one after the other:    *)
(* where messages, objects and file rows are, what a deletion that ran by   *)
(* itself has still to do, and why nothing that was removed comes back.     *)
(***************************************************************************)
EXTENDS PrivateData, TLAPS

USE PrivateDataConstants DEF PrivateDataConstants

Pc        == {"idle", "loaded", "running", "written", "erasing", "deleting"}
RowStatus == Unfinished \cup {"NONE", "SUCCEEDED", "PERMANENT_FAILED"}
Holding   == [pc : Pc, job : Job \cup {"NONE"}, seen : SUBSET Product]
Call      == [pc : {"idle", "ready", "erasing"}, seen : SUBSET Document, found : SUBSET Document]

\* A worker past the load of its job is at a job of the right kind.
WorkerTyped(w) ==
    /\ w \in Holding
    /\ w.pc = "idle" => w = Idle
    /\ w.pc = "loaded" => w.job \in Job
    /\ w.pc \in {"running", "written"} => w.job \in Product
    /\ w.pc \in {"erasing", "deleting"} => w.job \in Scope

CallTyped(x) == x \in Call /\ (x.pc = "idle" => x = NoCall)

Typed ==
    /\ row \in [Product -> RowStatus]
    /\ files \subseteq Product /\ objects \subseteq Product
    /\ DOMAIN worker = Worker /\ worker = [k \in Worker |-> worker[k]]
    /\ \A k \in Worker : WorkerTyped(worker[k])
    /\ caller = [c \in Caller |-> caller[c]]
    /\ \A c \in Caller : CallTyped(caller[c])

LEMMA IdleTyped ==
    /\ Idle.pc = "idle" /\ Idle.job = "NONE" /\ Idle.job \notin Scope /\ WorkerTyped(Idle)
    /\ NoCall.pc = "idle" /\ CallTyped(NoCall)
BY DEF Idle, NoCall, WorkerTyped, CallTyped, Holding, Call, Pc, Scope

LEMMA CallerMoves ==
    ASSUME Typed, NEW c \in Caller, NEW x, CallTyped(x), caller' = [caller EXCEPT ![c] = x]
    PROVE  /\ caller' = [d \in Caller |-> caller'[d]]
           /\ \A d \in Caller : CallTyped(caller'[d])
           /\ caller'[c] = x /\ \A d \in Caller : d # c => caller'[d] = caller[d]
<1>1. caller = [d \in Caller |-> caller[d]]
  BY DEF Typed
<1>2. caller'[c] = x /\ \A d \in Caller : d # c => caller'[d] = caller[d]
  BY <1>1
<1>3. caller' = [d \in Caller |-> caller'[d]]
  BY <1>1
<1> QED
  BY <1>2, <1>3 DEF Typed

LEMMA WorkerMoves ==
    ASSUME Typed, NEW k \in Worker, NEW w, WorkerTyped(w), worker' = [worker EXCEPT ![k] = w]
    PROVE  /\ DOMAIN worker' = Worker /\ worker' = [i \in Worker |-> worker'[i]]
           /\ \A i \in Worker : WorkerTyped(worker'[i])
           /\ worker'[k] = w /\ \A i \in Worker : i # k => worker'[i] = worker[i]
<1>1. DOMAIN worker = Worker /\ worker = [i \in Worker |-> worker[i]]
  BY DEF Typed
<1>2. worker'[k] = w /\ \A i \in Worker : i # k => worker'[i] = worker[i]
  BY <1>1
<1>3. DOMAIN worker' = Worker /\ worker' = [i \in Worker |-> worker'[i]]
  BY <1>1
<1> QED
  BY <1>2, <1>3 DEF Typed

\* Two columns of a worker's record at once.
To(k, p, seen) == [pc |-> p, job |-> worker[k].job, seen |-> seen]

Both(k, p, seen)  == [worker EXCEPT ![k].pc = p, ![k].seen = seen]
Moved(k, p, seen) == [worker EXCEPT ![k] = To(k, p, seen)]

LEMMA WorkerUpdates ==
    ASSUME Typed, NEW k \in Worker, NEW p, NEW seen
    PROVE  /\ [worker EXCEPT ![k].pc = p] = [worker EXCEPT ![k] = To(k, p, worker[k].seen)]
           /\ [worker EXCEPT ![k].seen = seen] = [worker EXCEPT ![k] = To(k, worker[k].pc, seen)]
           /\ Both(k, p, seen) = Moved(k, p, seen)
<1>1. /\ worker[k] \in Holding
      /\ worker = [i \in Worker |-> worker[i]]
  BY DEF Typed, WorkerTyped
<1>2. /\ [worker[k] EXCEPT !.pc = p] = To(k, p, worker[k].seen)
      /\ [worker[k] EXCEPT !.seen = seen] = To(k, worker[k].pc, seen)
  BY <1>1 DEF Holding, To
<1>3. /\ [worker EXCEPT ![k].pc = p] = [worker EXCEPT ![k] = [worker[k] EXCEPT !.pc = p]]
      /\ [worker EXCEPT ![k].seen = seen] = [worker EXCEPT ![k] = [worker[k] EXCEPT !.seen = seen]]
  OBVIOUS
<1> DEFINE mid == [worker EXCEPT ![k].pc = p]
<1>4. mid[k] = To(k, p, worker[k].seen) /\ mid = [worker EXCEPT ![k] = To(k, p, worker[k].seen)]
  BY <1>1, <1>2, <1>3
<1>5. [worker EXCEPT ![k].pc = p, ![k].seen = seen] = [mid EXCEPT ![k] = [mid[k] EXCEPT !.seen = seen]]
  OBVIOUS
<1>6. [To(k, p, worker[k].seen) EXCEPT !.seen = seen] = To(k, p, seen)
  BY DEF To
<1> HIDE DEF mid
<1>7. [mid EXCEPT ![k] = To(k, p, seen)] = [worker EXCEPT ![k] = To(k, p, seen)]
  BY <1>1, <1>4
<1>8. Both(k, p, seen) = Moved(k, p, seen)
  BY <1>4, <1>5, <1>6, <1>7 DEF Both, Moved
<1> QED
  BY <1>2, <1>3, <1>8

\* Only the status of the worker's own row changes.
LEMMA StatusSet ==
    ASSUME Typed, NEW k \in Worker, NEW t \in RowStatus, SetStatus(k, t)
    PROVE  row' \in [Product -> RowStatus]
BY DEF Typed, SetStatus


-----------------------------------------------------------------------------
(* Messages, objects and file rows *)

MessageAt == {"UNSENT", "DROPPED", "ACKED"} \cup Queued

DataTypes ==
    /\ account \in {"ACTIVE", "DELETION_PENDING", "DELETED"} /\ artifact \in BOOLEAN
    /\ row \in [Product -> RowStatus]
    /\ deletion \in [Scope -> Unfinished \cup {"NONE", "SUCCEEDED"}]
    /\ files \subseteq Product /\ objects \subseteq Product
    /\ message \in [Job -> MessageAt] /\ receives \in [Job -> 0..MaxReceive]
    /\ worker \in [Worker -> Holding] /\ \A k \in Worker : WorkerTyped(worker[k])
    /\ caller \in [Caller -> Call] /\ \A c \in Caller : CallTyped(caller[c])
    /\ crashes \in 0..MaxCrashes /\ torn \subseteq Product /\ purged \subseteq Product
    /\ overlapped \in BOOLEAN

\* A worker has the message of its job to itself; a message that can be received has
\* receives left; that of a deletion is sent with its request.
MessagesHeld ==
    /\ \A j \in Job : /\ message[j] \in {"UNSENT", "PENDING"} => receives[j] = 0
                      /\ message[j] = "VISIBLE" => receives[j] < MaxReceive
    /\ \A k \in Worker : worker[k] # Idle =>
          /\ message[worker[k].job] = "INFLIGHT"
          /\ \A i \in Worker : i # k => worker[i].job # worker[k].job
    /\ \A s \in Scope : deletion[s] = "NONE" => message[s] = "UNSENT"

\* An object is written by a worker that received its message; a file row is the end of
\* it, and what a deletion or a request has listed was a file row.
ObjectsFollow ==
    /\ \A p \in objects : message[p] \notin {"UNSENT", "PENDING", "DROPPED"}
    /\ \A p \in files : message[p] = "ACKED"
    /\ \A k \in Worker : /\ worker[k].pc = "written" => worker[k].job \in objects
                         /\ worker[k].pc = "erasing" =>
                               \A p \in worker[k].seen : message[p] = "ACKED"
    /\ \A c \in Caller : /\ caller[c].seen \subseteq caller[c].found
                         /\ \A p \in caller[c].found : message[p] = "ACKED"

\* A deletion at work is RUNNING; before it commits it holds every row, except exports
\* that were requested since.
DeletionsRun ==
    \A k \in Worker :
        /\ worker[k].pc \in {"erasing", "deleting"} => deletion[worker[k].job] = "RUNNING"
        /\ worker[k].pc = "deleting" => \A p \in Product :
              row[p] = "NONE" \/ p \in worker[k].seen \/ (p \in Export /\ overlapped)
        /\ worker[k].job \in Scope => overlapped \/ \A c \in Caller : caller[c] = NoCall

\* An object without a file row is not forgotten.
ObjectsAwaited ==
    \A p \in objects \ files : row[p] \in {"NONE", "PERMANENT_FAILED"} \/ message[p] \in Queued

\* Why a file row is left without its object: a fault, a request that has erased it, or a
\* deletion that has not committed and will take the file row with it.
Explained(p) ==
    \/ p \in torn
    \/ \E c \in Caller : caller[c].pc = "erasing" /\ p \in caller[c].found \ caller[c].seen
    \/ \E s \in Scope :
          /\ deletion[s] \in {"RUNNING", "RETRYABLE_FAILED"}
          /\ \A k \in Worker :
                worker[k].job = s /\ worker[k].pc = "deleting" => p \in worker[k].seen

GapsExplained == \A p \in files \ objects : Explained(p)

DataInv ==
    /\ DataTypes /\ MessagesHeld /\ ObjectsFollow /\ DeletionsRun
    /\ ObjectsAwaited /\ GapsExplained /\ WaitingHasMessage

LEMMA DataTyped == DataTypes => Typed /\ TypeOK
BY DEF DataTypes, Typed, TypeOK, RowStatus, MessageAt, Holding, Pc, Call

LEMMA DataInit == Init => DataInv
<1> SUFFICES ASSUME Init PROVE DataInv
  OBVIOUS
<1>1. /\ \A k \in Worker : worker[k] = Idle /\ worker[k].pc = "idle" /\ worker[k].job = "NONE"
      /\ \A c \in Caller : caller[c] = NoCall /\ caller[c].found = {} /\ caller[c].seen = {}
      /\ Idle \in Holding /\ NoCall \in Call
  BY IdleTyped DEF Init, WorkerTyped, CallTyped, NoCall
<1>2. DataTypes
  <2>1. /\ worker \in [Worker -> Holding] /\ caller \in [Caller -> Call]
        /\ \A k \in Worker : WorkerTyped(worker[k])
        /\ \A c \in Caller : CallTyped(caller[c])
    BY <1>1, IdleTyped DEF Init
  <2>2. row \in [Product -> RowStatus] /\ deletion \in [Scope -> Unfinished \cup {"NONE", "SUCCEEDED"}]
    BY DEF Init, RowStatus
  <2>3. message \in [Job -> MessageAt] /\ receives \in [Job -> 0..MaxReceive] /\ crashes \in 0..MaxCrashes
    BY DEF Init, MessageAt
  <2> QED
    BY <2>1, <2>2, <2>3 DEF Init, DataTypes
<1>3. MessagesHeld /\ ObjectsFollow /\ ObjectsAwaited /\ GapsExplained
  BY <1>1 DEF Init, MessagesHeld, ObjectsFollow, ObjectsAwaited, GapsExplained, Job
<1>4. DeletionsRun /\ WaitingHasMessage
  BY <1>1 DEF Init, DeletionsRun, WaitingHasMessage, Unfinished, Scope
<1> QED
  BY <1>2, <1>3, <1>4 DEF DataInv

LEMMA DataCaller ==
    ASSUME DataInv, NEW c \in Caller, NEW x, CallTyped(x), caller' = [caller EXCEPT ![c] = x]
    PROVE  /\ caller' \in [Caller -> Call] /\ \A d \in Caller : CallTyped(caller'[d])
           /\ caller'[c] = x /\ \A d \in Caller : d # c => caller'[d] = caller[d]
<1>1. Typed /\ x \in Call /\ caller \in [Caller -> Call]
  BY DataTyped DEF DataInv, DataTypes, CallTyped
<1> QED
  BY <1>1, CallerMoves

LEMMA DataWorker ==
    ASSUME DataInv, NEW k \in Worker, NEW w, WorkerTyped(w), worker' = [worker EXCEPT ![k] = w]
    PROVE  /\ worker' \in [Worker -> Holding] /\ \A i \in Worker : WorkerTyped(worker'[i])
           /\ worker'[k] = w /\ \A i \in Worker : i # k => worker'[i] = worker[i]
<1>1. Typed /\ w \in Holding /\ worker \in [Worker -> Holding]
  BY DataTyped DEF DataInv, DataTypes, WorkerTyped
<1> QED
  BY <1>1, WorkerMoves

\* A request that holds no list, before and after, moves nothing of the store.
LEMMA DataAuthenticate ==
    ASSUME DataInv, NEW c \in Caller, Authenticate(c)
    PROVE  DataInv'
<1> DEFINE x == [pc |-> "ready", seen |-> {}, found |-> {}]
<1>1. [caller[c] EXCEPT !.pc = "ready"] = x
  BY DEF Authenticate, NoCall
<1>2. /\ caller' = [caller EXCEPT ![c] = x]
      /\ UNCHANGED <<account, artifact, deletion, row, files, objects, message, receives, worker, crashes,
                     torn, purged>>
      /\ overlapped' = (overlapped \/ DeletionAtWork)
  <2>1. caller' = [caller EXCEPT ![c] = [caller[c] EXCEPT !.pc = "ready"]]
    BY DEF Authenticate
  <2> QED
    BY <1>1, <2>1 DEF Authenticate, userData, queue
<1>3. CallTyped(x) /\ x.pc = "ready" /\ x.seen = {} /\ x.found = {} /\ caller[c].pc = "idle"
  BY IdleTyped DEF CallTyped, Call, Authenticate
<1> HIDE DEF x
<1>4. /\ caller' \in [Caller -> Call] /\ \A d \in Caller : CallTyped(caller'[d])
      /\ caller'[c] = x /\ \A d \in Caller : d # c => caller'[d] = caller[d]
  BY <1>2, <1>3, DataCaller
<1>5. DataTypes'
  BY <1>2, <1>4 DEF DataInv, DataTypes
<1>6. MessagesHeld' /\ ObjectsFollow' /\ ObjectsAwaited' /\ WaitingHasMessage'
  <2>1. MessagesHeld' /\ ObjectsAwaited'
    BY <1>2 DEF DataInv, MessagesHeld, ObjectsAwaited
  <2>2. ObjectsFollow'
    BY <1>2, <1>3, <1>4 DEF DataInv, ObjectsFollow
  <2>3. WaitingHasMessage'
    BY <1>2 DEF DataInv, WaitingHasMessage
  <2> QED
    BY <2>1, <2>2, <2>3
<1>7. GapsExplained'
  BY <1>2, <1>3, <1>4 DEF DataInv, GapsExplained, Explained
<1>8. DeletionsRun'
  BY <1>2, <1>4 DEF DataInv, DeletionsRun, DeletionAtWork
<1> QED
  BY <1>5, <1>6, <1>7, <1>8 DEF DataInv

\* A request that was authenticated before a deletion ran beside it, and commits.
LEMMA DataCommits ==
    ASSUME DataInv, NEW c \in Caller, Ready(c), NEW j \in Job, message[j] = "UNSENT", Send(j),
           row' \in [Product -> RowStatus],
           \A p \in Product : \/ row'[p] = row[p]
                              \/ /\ p = j /\ row'[p] = "QUEUED"
                                 /\ p \in Document => \A k \in Worker : ~At(k, "deleting"),
           deletion' \in [Scope -> Unfinished \cup {"NONE", "SUCCEEDED"}],
           \A s \in Scope : deletion[s] # "NONE" => deletion'[s] = deletion[s],
           \A s \in Scope : deletion'[s] = "NONE" => deletion[s] = "NONE" /\ s # j,
           account' \in {"ACTIVE", "DELETION_PENDING", "DELETED"},
           UNCHANGED <<artifact, files, objects, receives, worker, history>>
    PROVE  DataInv'
<1>1. /\ caller' \in [Caller -> Call] /\ \A d \in Caller : CallTyped(caller'[d])
      /\ caller'[c] = NoCall /\ \A d \in Caller : d # c => caller'[d] = caller[d]
  BY IdleTyped, DataCaller DEF Ready, Return
<1>2. /\ caller[c].pc = "ready" /\ caller[c] # NoCall /\ NoCall.seen = {} /\ NoCall.found = {}
      /\ NoCall.pc = "idle"
  BY DEF Ready, NoCall
<1>3. /\ message' \in [Job -> MessageAt] /\ message'[j] = "PENDING"
      /\ \A i \in Job : i # j => message'[i] = message[i]
  BY DEF DataInv, DataTypes, Send, MessageAt, Queued
<1>4. /\ Product \subseteq Job /\ UNCHANGED <<crashes, torn, purged, overlapped>>
      /\ \A k \in Worker : worker[k] # Idle => worker[k].job \in Job
  BY DEF Job, history, DataInv, DataTypes, WorkerTyped, Holding, Pc
<1>5. DataTypes'
  BY <1>1, <1>3, <1>4 DEF DataInv, DataTypes
<1>6. MessagesHeld'
  <2>1. \A i \in Job : /\ message'[i] \in {"UNSENT", "PENDING"} => receives[i] = 0
                       /\ message'[i] = "VISIBLE" => receives[i] < MaxReceive
    BY <1>3 DEF DataInv, MessagesHeld
  <2>2. \A k \in Worker : worker[k] # Idle =>
          /\ message'[worker[k].job] = "INFLIGHT"
          /\ \A i \in Worker : i # k => worker[i].job # worker[k].job
    BY <1>3, <1>4 DEF DataInv, MessagesHeld
  <2>3. \A s \in Scope : deletion'[s] = "NONE" => message'[s] = "UNSENT"
    BY <1>3 DEF DataInv, MessagesHeld, Job
  <2> QED
    BY <2>1, <2>2, <2>3 DEF MessagesHeld
<1>7. ObjectsFollow'
  <2>1. /\ \A k \in Worker : worker[k].seen \subseteq Product
        /\ \A d \in Caller : caller[d].found \subseteq Product
    BY DEF DataInv, DataTypes, Holding, Call, Product
  <2>2. files \subseteq Product /\ objects \subseteq Product
    BY DEF DataInv, DataTypes
  <2>3. \A p \in Product : message[p] = "ACKED" => message'[p] = "ACKED"
    BY <1>3, <1>4
  <2> QED
    BY <1>1, <1>2, <1>3, <1>4, <2>1, <2>2, <2>3 DEF DataInv, ObjectsFollow
<1>8. DeletionsRun'
  <2> SUFFICES ASSUME NEW k \in Worker
               PROVE  /\ worker[k].pc \in {"erasing", "deleting"} => deletion'[worker[k].job] = "RUNNING"
                      /\ worker[k].pc = "deleting" => \A p \in Product :
                            row'[p] = "NONE" \/ p \in worker[k].seen \/ (p \in Export /\ overlapped)
                      /\ worker[k].job \in Scope => overlapped \/ \A d \in Caller : caller'[d] = NoCall
    BY <1>4 DEF DeletionsRun
  <2>1. worker[k].pc \in {"erasing", "deleting"} => worker[k].job \in Scope
    BY DEF DataInv, DataTypes, WorkerTyped
  <2>2. worker[k].job \in Scope => overlapped
    BY <1>2 DEF DataInv, DeletionsRun
  <2> QED
    BY <1>1, <2>1, <2>2 DEF DataInv, DeletionsRun, At, Product
<1>9. ObjectsAwaited' /\ WaitingHasMessage'
  <2>1. \A p \in objects : p # j
    BY DEF DataInv, ObjectsFollow
  <2> QED
    BY <1>3, <1>4, <2>1 DEF DataInv, DataTypes, ObjectsAwaited, WaitingHasMessage, Queued
<1>10. GapsExplained'
  <2>1. \A p \in files \ objects : Explained(p)
    BY DEF DataInv, GapsExplained
  <2>2. ASSUME NEW p \in files \ objects, Explained(p) PROVE Explained(p)'
    BY <1>1, <1>2, <1>4, <2>2 DEF Explained
  <2> QED
    BY <2>1, <2>2 DEF GapsExplained
<1> QED
  BY <1>5, <1>6, <1>7, <1>8, <1>9, <1>10 DEF DataInv

\* The deletion of an artifact goes on or ends: what it has erased it has listed before.
LEMMA DataErasing ==
    ASSUME DataInv, NEW c \in Caller, caller[c] # NoCall, NEW x, CallTyped(x),
           caller' = [caller EXCEPT ![c] = x],
           UNCHANGED <<account, deletion, message, receives, worker, purged>>,
           artifact' \in BOOLEAN, crashes' \in 0..MaxCrashes, torn' \subseteq Product, torn \subseteq torn',
           overlapped' \in BOOLEAN, overlapped => overlapped',
           row' \in [Product -> RowStatus], \A p \in Product : row'[p] \in {row[p], "NONE"},
           objects' \subseteq objects, \A p \in objects \ objects' : message[p] = "ACKED",
           files' \subseteq files, \A p \in files \ files' : row'[p] = "NONE",
           x.seen \subseteq x.found, \A p \in x.found : message[p] = "ACKED",
           \A p \in files' : p \in objects \ objects'
                             \/ (caller[c].pc = "erasing" /\ p \in caller[c].found \ caller[c].seen)
               => p \in torn' \/ (x.pc = "erasing" /\ p \in x.found \ x.seen)
    PROVE  DataInv'
<1>1. /\ caller' \in [Caller -> Call] /\ \A d \in Caller : CallTyped(caller'[d])
      /\ caller'[c] = x /\ \A d \in Caller : d # c => caller'[d] = caller[d]
  BY DataCaller
<1>2. DataTypes'
  BY <1>1 DEF DataInv, DataTypes
<1>3. MessagesHeld'
  BY DEF DataInv, MessagesHeld
<1>4. ObjectsFollow'
  <2>1. \A k \in Worker : worker[k].pc = "written" => worker[k].job \in objects'
    <3> SUFFICES ASSUME NEW k \in Worker, worker[k].pc = "written" PROVE worker[k].job \in objects'
      OBVIOUS
    <3>1. worker[k] # Idle
      BY IdleTyped
    <3>2. message[worker[k].job] = "INFLIGHT" /\ worker[k].job \in objects
      BY <3>1 DEF DataInv, MessagesHeld, ObjectsFollow
    <3> QED
      BY <3>2
  <2> QED
    BY <1>1, <2>1 DEF DataInv, ObjectsFollow
<1>5. DeletionsRun'
  <2> SUFFICES ASSUME NEW k \in Worker
               PROVE  /\ worker[k].pc \in {"erasing", "deleting"} => deletion[worker[k].job] = "RUNNING"
                      /\ worker[k].pc = "deleting" => \A p \in Product :
                            row'[p] = "NONE" \/ p \in worker[k].seen \/ (p \in Export /\ overlapped')
                      /\ worker[k].job \in Scope => overlapped'
    BY DEF DeletionsRun
  <2> QED
    BY DEF DataInv, DeletionsRun
<1>6. ObjectsAwaited' /\ WaitingHasMessage'
  <2>1. objects \subseteq Product
    BY DEF DataInv, DataTypes
  <2>2. ObjectsAwaited'
    BY <2>1 DEF DataInv, ObjectsAwaited
  <2>3. WaitingHasMessage'
    BY DEF DataInv, WaitingHasMessage, Unfinished
  <2> QED
    BY <2>2, <2>3
<1>7. GapsExplained'
  <2> SUFFICES ASSUME NEW p \in files', p \notin objects' PROVE Explained(p)'
    BY DEF GapsExplained
  <2>1. CASE p \in objects
    BY <1>1, <2>1 DEF Explained
  <2>2. CASE p \notin objects
    <3>1. Explained(p)
      BY <2>2 DEF DataInv, GapsExplained
    <3> QED
      BY <1>1, <3>1 DEF Explained
  <2> QED
    BY <2>1, <2>2
<1> QED
  BY <1>2, <1>3, <1>4, <1>5, <1>6, <1>7 DEF DataInv

LEMMA DataRequest ==
    ASSUME DataInv, NEW c \in Caller, Request(c)
    PROVE  DataInv'
<1>1. /\ row \in [Product -> RowStatus] /\ deletion \in [Scope -> Unfinished \cup {"NONE", "SUCCEEDED"}]
      /\ account \in {"ACTIVE", "DELETION_PENDING", "DELETED"} /\ artifact \in BOOLEAN
      /\ files \subseteq Product /\ objects \subseteq Product /\ torn \subseteq Product
      /\ crashes \in 0..MaxCrashes /\ overlapped \in BOOLEAN /\ caller[c] \in Call /\ CallTyped(caller[c])
  BY DEF DataInv, DataTypes
<1>2. caller[c].seen \subseteq caller[c].found /\ \A p \in caller[c].found : message[p] = "ACKED"
  BY DEF DataInv, ObjectsFollow
<1>3. \A p \in files : message[p] = "ACKED"
  BY DEF DataInv, ObjectsFollow
<1>4. CASE Authenticate(c)
  BY <1>4, DataAuthenticate
<1>5. ASSUME NEW p \in Product, Ready(c), message[p] = "UNSENT", row' = [row EXCEPT ![p] = "QUEUED"], Send(p),
             p \in Document => \A k \in Worker : ~At(k, "deleting"),
             UNCHANGED <<account, artifact, deletion, files, objects, receives, worker, history>>
      PROVE  DataInv'
  <2>1. row' \in [Product -> RowStatus] /\ \A q \in Product : row'[q] = row[q] \/ (q = p /\ row'[q] = "QUEUED")
    BY <1>1, <1>5 DEF RowStatus, Unfinished
  <2> QED
    BY <1>1, <1>5, <2>1, DataCommits DEF Job
<1>6. ASSUME NEW d \in Document, RequestDocument(c, d)
      PROVE  DataInv'
  BY <1>5, <1>6 DEF RequestDocument, Product, userData
<1>7. ASSUME NEW e \in Export, RequestExport(c, e)
      PROVE  DataInv'
  BY <1>5, <1>7 DEF RequestExport, Product, userData
<1>8. ASSUME NEW t \in Scope, RequestDeletion(c, t)
      PROVE  DataInv'
  <2>1. /\ Ready(c) /\ deletion[t] = "NONE" /\ deletion' = [deletion EXCEPT ![t] = "QUEUED"] /\ Send(t)
        /\ account' = IF t = "ACCOUNT" THEN "DELETION_PENDING" ELSE account
        /\ UNCHANGED <<artifact, row, files, objects, receives, worker, history>>
    BY <1>8 DEF RequestDeletion
  <2>2. message[t] = "UNSENT"
    BY <2>1 DEF DataInv, MessagesHeld
  <2>3. /\ deletion' \in [Scope -> Unfinished \cup {"NONE", "SUCCEEDED"}]
        /\ \A s \in Scope : deletion[s] # "NONE" => deletion'[s] = deletion[s]
        /\ \A s \in Scope : deletion'[s] = "NONE" => deletion[s] = "NONE" /\ s # t
    BY <1>1, <2>1 DEF Unfinished
  <2>4. account' \in {"ACTIVE", "DELETION_PENDING", "DELETED"}
    BY <1>1, <2>1
  <2> QED
    BY <1>1, <2>1, <2>2, <2>3, <2>4, DataCommits DEF Job
<1>9. CASE ListDocuments(c)
  <2> DEFINE x == [pc |-> "erasing", seen |-> Document \cap files, found |-> Document \cap files]
  <2>1. CallTyped(x) /\ x.found = Document \cap files /\ x.seen = Document \cap files
    BY DEF CallTyped, Call
  <2>2. caller[c] # NoCall /\ caller[c].pc = "ready"
    BY <1>9, IdleTyped DEF ListDocuments
  <2>3. /\ caller' = [caller EXCEPT ![c] = x]
        /\ UNCHANGED <<account, artifact, deletion, row, files, objects, message, receives, worker, crashes,
                       torn, purged>>
        /\ overlapped' = (overlapped \/ \E k \in Worker : worker[k] # Idle)
    BY <1>9 DEF ListDocuments, userData, queue
  <2> HIDE DEF x
  <2>4. x.seen \subseteq x.found /\ \A p \in x.found : message[p] = "ACKED"
    BY <1>3, <2>1
  <2>5. overlapped' \in BOOLEAN /\ (overlapped => overlapped')
    BY <1>1, <2>3
  <2> QED
    BY <1>1, <2>1, <2>2, <2>3, <2>4, <2>5, DataErasing
<1>10. CASE EraseDocument(c)
  <2>1. PICK d \in caller[c].seen : /\ objects' = objects \ {d}
                                    /\ caller' = [caller EXCEPT ![c].seen = @ \ {d}]
    BY <1>10 DEF EraseDocument
  <2> DEFINE x == [pc |-> "erasing", seen |-> caller[c].seen \ {d}, found |-> caller[c].found]
  <2>2. caller[c].pc = "erasing" /\ caller[c] # NoCall
    BY <1>1, <1>10, IdleTyped DEF EraseDocument
  <2>3. [caller[c] EXCEPT !.seen = @ \ {d}] = x
    <3>1. caller[c] \in Call
      BY <1>1
    <3> QED
      BY <2>2, <3>1 DEF Call
  <2>4. caller' = [caller EXCEPT ![c] = [caller[c] EXCEPT !.seen = @ \ {d}]]
    BY <2>1
  <2>5. CallTyped(x) /\ x.found = caller[c].found /\ x.seen = caller[c].seen \ {d} /\ x.pc = "erasing"
    BY <1>1 DEF CallTyped, Call
  <2> HIDE DEF x
  <2>6. UNCHANGED <<account, artifact, deletion, row, files, message, receives, worker, crashes, torn, purged,
                    overlapped>>
    BY <1>10 DEF EraseDocument, userData, queue, history
  <2>7. x.seen \subseteq x.found /\ \A p \in x.found : message[p] = "ACKED"
    BY <1>2, <2>5
  <2>8. \A p \in files' : p \in objects \ objects'
                          \/ (caller[c].pc = "erasing" /\ p \in caller[c].found \ caller[c].seen)
               => p \in torn' \/ (x.pc = "erasing" /\ p \in x.found \ x.seen)
    BY <1>2, <2>1, <2>2, <2>5, <2>6
  <2>9. /\ objects' \subseteq objects /\ \A p \in objects \ objects' : message[p] = "ACKED"
        /\ row' \in [Product -> RowStatus] /\ \A p \in Product : row'[p] \in {row[p], "NONE"}
        /\ files' \subseteq files /\ files \ files' = {}
    BY <1>1, <1>2, <2>1, <2>6
  <2>10. caller' = [caller EXCEPT ![c] = x]
    BY <2>3, <2>4
  <2> QED
    BY <1>1, <2>2, <2>5, <2>6, <2>7, <2>8, <2>9, <2>10, DataErasing
<1>11. CASE CommitArtifactDeletion(c)
  <2>1. /\ caller[c].pc = "erasing" /\ caller[c].seen = {} /\ caller[c] # NoCall
        /\ row' = [p \in Product |-> IF p \in Document THEN "NONE" ELSE row[p]]
        /\ files' = files \ caller[c].found /\ artifact' = FALSE
        /\ caller' = [caller EXCEPT ![c] = NoCall]
        /\ UNCHANGED <<account, deletion, objects, message, receives, worker, crashes, torn, purged, overlapped>>
    BY <1>11, IdleTyped DEF CommitArtifactDeletion, Return, queue, history
  <2>2. row' \in [Product -> RowStatus] /\ \A p \in Product : row'[p] \in {row[p], "NONE"}
    BY <1>1, <2>1 DEF RowStatus
  <2>3. caller[c].found \subseteq Document /\ NoCall.found = {} /\ NoCall.seen = {}
    BY <1>1 DEF Call, NoCall
  <2>4. \A p \in files \ files' : row'[p] = "NONE"
    BY <1>1, <2>1, <2>3
  <2> QED
    BY <1>1, <1>2, <2>1, <2>2, <2>3, <2>4, IdleTyped, DataErasing
<1>12. CASE BreakArtifactDeletion(c)
  <2>1. /\ caller[c].pc = "erasing" /\ caller[c] # NoCall
        /\ torn' = torn \cup (caller[c].found \ caller[c].seen) /\ crashes < MaxCrashes /\ crashes' = crashes + 1
        /\ caller' = [caller EXCEPT ![c] = NoCall]
        /\ UNCHANGED <<account, artifact, deletion, row, files, objects, message, receives, worker, purged,
                       overlapped>>
    BY <1>12, IdleTyped DEF BreakArtifactDeletion, Return, userData, queue
  <2>2. torn' \subseteq Product /\ crashes' \in 0..MaxCrashes /\ NoCall.found = {} /\ NoCall.seen = {}
    BY <1>1, <2>1 DEF Call, NoCall, Product
  <2> QED
    BY <1>1, <1>2, <2>1, <2>2, IdleTyped, DataErasing
<1> QED
  BY <1>4, <1>6, <1>7, <1>8, <1>9, <1>10, <1>11, <1>12 DEF Request

\* A message moves between the outbox and the queues; no worker has it.
LEMMA DataMessage ==
    ASSUME DataInv, NEW j \in Job, NEW at \in {"VISIBLE", "DLQ"}, message[j] \in {"PENDING", "VISIBLE"},
           message' = [message EXCEPT ![j] = at],
           receives' \in [Job -> 0..MaxReceive], at = "VISIBLE" => receives'[j] < MaxReceive,
           \A i \in Job : i # j => receives'[i] = receives[i],
           overlapped' \in BOOLEAN, overlapped => overlapped',
           UNCHANGED <<account, artifact, deletion, row, files, objects, worker, caller, crashes, torn, purged>>
    PROVE  DataInv'
<1>1. /\ message' \in [Job -> MessageAt] /\ message'[j] = at
      /\ \A i \in Job : i # j => message'[i] = message[i]
  BY DEF DataInv, DataTypes, MessageAt, Queued
<1>2. /\ Product \subseteq Job /\ Scope \subseteq Job
      /\ \A k \in Worker : worker[k] # Idle => worker[k].job \in Job
      /\ objects \subseteq Product /\ files \subseteq Product
      /\ \A k \in Worker : worker[k].seen \subseteq Product
      /\ \A d \in Caller : caller[d].found \subseteq Product
  BY DEF Job, DataInv, DataTypes, WorkerTyped, Holding, Pc, Call, Product
<1>3. DataTypes'
  BY <1>1 DEF DataInv, DataTypes
<1>4. MessagesHeld'
  <2>1. \A i \in Job : /\ message'[i] \in {"UNSENT", "PENDING"} => receives'[i] = 0
                       /\ message'[i] = "VISIBLE" => receives'[i] < MaxReceive
    BY <1>1 DEF DataInv, MessagesHeld
  <2>2. \A k \in Worker : worker[k] # Idle =>
          /\ message'[worker[k].job] = "INFLIGHT"
          /\ \A i \in Worker : i # k => worker[i].job # worker[k].job
    BY <1>1, <1>2 DEF DataInv, MessagesHeld
  <2>3. \A s \in Scope : deletion[s] = "NONE" => message'[s] = "UNSENT"
    BY <1>1, <1>2 DEF DataInv, MessagesHeld
  <2> QED
    BY <2>1, <2>2, <2>3 DEF MessagesHeld
<1>5. ObjectsFollow'
  <2>1. \A p \in Product : /\ message[p] = "ACKED" => message'[p] = "ACKED"
                           /\ message[p] \notin {"UNSENT", "PENDING", "DROPPED"}
                                => message'[p] \notin {"UNSENT", "PENDING", "DROPPED"}
    BY <1>1, <1>2
  <2> QED
    BY <1>2, <2>1 DEF DataInv, ObjectsFollow
<1>6. DeletionsRun'
  BY DEF DataInv, DeletionsRun
<1>7. ObjectsAwaited' /\ WaitingHasMessage'
  <2>1. \A p \in Product : message[p] \in Queued => message'[p] \in Queued
    BY <1>1, <1>2 DEF Queued
  <2> QED
    BY <1>2, <2>1 DEF DataInv, ObjectsAwaited, WaitingHasMessage
<1>8. GapsExplained'
  BY DEF DataInv, GapsExplained, Explained
<1> QED
  BY <1>3, <1>4, <1>5, <1>6, <1>7, <1>8 DEF DataInv

LEMMA DataPublish ==
    ASSUME DataInv, NEW j \in Job, Publish(j)
    PROVE  DataInv'
<1>1. /\ message[j] = "PENDING" /\ message' = [message EXCEPT ![j] = "VISIBLE"]
      /\ UNCHANGED <<account, artifact, deletion, row, files, objects, receives, worker, caller, crashes, torn,
                     purged, overlapped>>
  BY DEF Publish, userData, history
<1>2. /\ receives' \in [Job -> 0..MaxReceive] /\ receives'[j] = 0 /\ overlapped' \in BOOLEAN
      /\ (overlapped => overlapped') /\ \A i \in Job : i # j => receives'[i] = receives[i]
  BY <1>1 DEF DataInv, DataTypes, MessagesHeld
<1>3. receives'[j] < MaxReceive
  BY <1>2
<1> QED
  BY <1>1, <1>2, <1>3, DataMessage

\* A worker receives a message, once more than before.
LEMMA DataReceived ==
    ASSUME DataInv, NEW k \in Worker, NEW j \in Job, Receive(k, j)
    PROVE  /\ worker[k] = Idle /\ message[j] = "VISIBLE" /\ overlapped' \in BOOLEAN /\ (overlapped => overlapped')
           /\ receives' \in [Job -> 0..MaxReceive] /\ \A i \in Job : i # j => receives'[i] = receives[i]
           /\ (j \in Scope => overlapped' \/ \A c \in Caller : caller[c] = NoCall)
<1>1. worker[k] = Idle /\ message[j] = "VISIBLE" /\ receives' = [receives EXCEPT ![j] = @ + 1]
  BY DEF Receive
<1>2. receives[j] < MaxReceive /\ receives \in [Job -> 0..MaxReceive]
  BY <1>1 DEF DataInv, MessagesHeld, DataTypes
<1>3. receives' \in [Job -> 0..MaxReceive] /\ \A i \in Job : i # j => receives'[i] = receives[i]
  BY <1>1, <1>2
<1>4. overlapped \in BOOLEAN
  BY DEF DataInv, DataTypes
<1>5. overlapped' \in BOOLEAN /\ (overlapped => overlapped')
  BY <1>4 DEF Receive, DeletionAtWork
<1>6. j \in Scope => overlapped' \/ \A c \in Caller : caller[c] = NoCall
  BY DEF Receive
<1> QED
  BY <1>1, <1>3, <1>5, <1>6

LEMMA DataLoad ==
    ASSUME DataInv, NEW k \in Worker, NEW j \in Job, Load(k, j), j \in Scope => deletion[j] \in Unfinished
    PROVE  DataInv'
<1> DEFINE w == [pc |-> "loaded", job |-> j, seen |-> {}]
<1>1. WorkerTyped(w) /\ w.pc = "loaded" /\ w.job = j /\ w # Idle
  BY DEF WorkerTyped, Holding, Pc, Idle
<1>2. /\ worker' = [worker EXCEPT ![k] = w] /\ message' = [message EXCEPT ![j] = "INFLIGHT"]
      /\ Receive(k, j)
      /\ UNCHANGED <<account, artifact, deletion, row, files, objects, caller, crashes, torn, purged>>
  BY DEF Load, userData
<1> HIDE DEF w
<1>3. /\ worker[k] = Idle /\ message[j] = "VISIBLE" /\ overlapped' \in BOOLEAN /\ (overlapped => overlapped')
      /\ receives' \in [Job -> 0..MaxReceive] /\ \A i \in Job : i # j => receives'[i] = receives[i]
      /\ (j \in Scope => overlapped' \/ \A c \in Caller : caller[c] = NoCall)
  BY <1>2, DataReceived
<1>4. /\ worker' \in [Worker -> Holding] /\ \A i \in Worker : WorkerTyped(worker'[i])
      /\ worker'[k] = w /\ \A i \in Worker : i # k => worker'[i] = worker[i]
  BY <1>1, <1>2, DataWorker
<1>5. /\ message' \in [Job -> MessageAt] /\ message'[j] = "INFLIGHT"
      /\ \A i \in Job : i # j => message'[i] = message[i]
  BY <1>2 DEF DataInv, DataTypes, MessageAt, Queued
<1>6. /\ Product \subseteq Job /\ Scope \subseteq Job
      /\ \A i \in Worker : worker[i] # Idle => worker[i].job \in Job
      /\ objects \subseteq Product /\ files \subseteq Product
      /\ \A i \in Worker : worker[i].seen \subseteq Product
      /\ \A d \in Caller : caller[d].found \subseteq Product
  BY DEF Job, DataInv, DataTypes, WorkerTyped, Holding, Pc, Call, Product
<1>7. DataTypes'
  BY <1>2, <1>3, <1>4, <1>5 DEF DataInv, DataTypes
<1>8. MessagesHeld'
  <2>1. \A i \in Job : /\ message'[i] \in {"UNSENT", "PENDING"} => receives'[i] = 0
                       /\ message'[i] = "VISIBLE" => receives'[i] < MaxReceive
    BY <1>3, <1>5 DEF DataInv, MessagesHeld
  <2>2. \A i \in Worker : worker[i] # Idle => worker[i].job # j
    BY <1>3 DEF DataInv, MessagesHeld
  <2>3. \A i \in Worker : i # k => worker[i].job # j
    BY <2>2, IdleTyped DEF Job, Scope, Idle
  <2>4. \A i \in Worker : worker'[i] # Idle =>
          /\ message'[worker'[i].job] = "INFLIGHT"
          /\ \A h \in Worker : h # i => worker'[h].job # worker'[i].job
    BY <1>1, <1>4, <1>5, <1>6, <2>2, <2>3 DEF DataInv, MessagesHeld
  <2>5. \A s \in Scope : deletion[s] = "NONE" => message'[s] = "UNSENT"
    BY <1>3, <1>5, <1>6 DEF DataInv, MessagesHeld
  <2> QED
    BY <1>2, <2>1, <2>4, <2>5 DEF MessagesHeld
<1>9. ObjectsFollow'
  <2>1. \A p \in Product : /\ message[p] = "ACKED" => message'[p] = "ACKED"
                           /\ message[p] \notin {"UNSENT", "PENDING", "DROPPED"}
                                => message'[p] \notin {"UNSENT", "PENDING", "DROPPED"}
    BY <1>3, <1>5, <1>6
  <2>2. \A i \in Worker : /\ worker'[i].pc = "written" => worker'[i].job \in objects'
                          /\ worker'[i].pc = "erasing" => \A p \in worker'[i].seen : message'[p] = "ACKED"
    BY <1>1, <1>2, <1>4, <1>6, <2>1 DEF DataInv, ObjectsFollow
  <2> QED
    BY <1>2, <1>6, <2>1, <2>2 DEF DataInv, ObjectsFollow
<1>10. DeletionsRun'
  <2> SUFFICES ASSUME NEW i \in Worker
               PROVE  /\ worker'[i].pc \in {"erasing", "deleting"} => deletion[worker'[i].job] = "RUNNING"
                      /\ worker'[i].pc = "deleting" => \A p \in Product :
                            row[p] = "NONE" \/ p \in worker'[i].seen \/ (p \in Export /\ overlapped')
                      /\ worker'[i].job \in Scope => overlapped' \/ \A d \in Caller : caller[d] = NoCall
    BY <1>2 DEF DeletionsRun
  <2> QED
    BY <1>1, <1>3, <1>4 DEF DataInv, DeletionsRun
<1>11. ObjectsAwaited' /\ WaitingHasMessage'
  <2>1. \A p \in Product : message[p] \in Queued => message'[p] \in Queued
    BY <1>5, <1>6 DEF Queued
  <2>2. ObjectsAwaited'
    BY <1>2, <1>6, <2>1 DEF DataInv, ObjectsAwaited
  <2>3. WaitingHasMessage'
    BY <1>2, <1>3, <2>1 DEF DataInv, WaitingHasMessage
  <2> QED
    BY <2>2, <2>3
<1>12. GapsExplained'
  <2> SUFFICES ASSUME NEW p \in files \ objects, Explained(p) PROVE Explained(p)'
    BY <1>2 DEF DataInv, GapsExplained
  <2> QED
    BY <1>1, <1>2, <1>4 DEF Explained
<1> QED
  BY <1>7, <1>8, <1>9, <1>10, <1>11, <1>12 DEF DataInv

LEMMA DataDeliver ==
    ASSUME DataInv, NEW k \in Worker, Deliver(k)
    PROVE  DataInv'
<1>1. ASSUME NEW p \in Product, ProductMissing(k, p)
      PROVE  DataInv'
  <2>1. p \in Job /\ Receive(k, p)
    BY <1>1 DEF Job, ProductMissing
  <2>2. /\ message[p] = "VISIBLE" /\ overlapped' \in BOOLEAN /\ (overlapped => overlapped')
        /\ receives' \in [Job -> 0..MaxReceive] /\ \A i \in Job : i # p => receives'[i] = receives[i]
    BY <2>1, DataReceived
  <2>3. UNCHANGED <<account, artifact, deletion, row, files, objects, worker, caller, crashes, torn, purged>>
    BY <1>1 DEF ProductMissing, userData
  <2>4. CASE receives'[p] >= MaxReceive
    <3>1. message' = [message EXCEPT ![p] = "DLQ"]
      BY <1>1, <2>4 DEF ProductMissing, Raise
    <3> QED
      BY <2>1, <2>2, <2>3, <3>1, DataMessage
  <2>5. CASE ~(receives'[p] >= MaxReceive)
    <3>1. message' = [message EXCEPT ![p] = "VISIBLE"]
      BY <1>1, <2>5 DEF ProductMissing, Raise
    <3>2. receives'[p] < MaxReceive
      BY <2>1, <2>2, <2>5
    <3> QED
      BY <2>1, <2>2, <2>3, <3>1, <3>2, DataMessage
  <2> QED
    BY <2>4, <2>5
<1>2. ASSUME NEW p \in Product, Load(k, p)
      PROVE  DataInv'
  BY <1>2, DataLoad DEF Job
<1>3. ASSUME NEW s \in Scope, LoadDeletion(k, s)
      PROVE  DataInv'
  BY <1>3, DataLoad DEF Job, LoadDeletion
<1> QED
  BY <1>1, <1>2, <1>3 DEF Deliver, LoadDocument, LoadExport, Product

\* A worker goes on with its job: it may mark its row or workflow RUNNING, write its
\* object, or erase objects whose file rows it listed.
LEMMA DataGoes ==
    ASSUME DataInv, NEW k \in Worker, worker[k] # Idle,
           NEW w, WorkerTyped(w), w.job = worker[k].job, w.pc # "idle",
           worker' = [worker EXCEPT ![k] = w],
           UNCHANGED <<account, artifact, files, message, receives, caller, history>>,
           row' \in [Product -> RowStatus],
           \A p \in Product : \/ row'[p] = row[p]
                              \/ p = w.job /\ row[p] # "NONE" /\ row'[p] = "RUNNING",
           deletion' \in [Scope -> Unfinished \cup {"NONE", "SUCCEEDED"}],
           \A s \in Scope : deletion'[s] = deletion[s] \/ (s = w.job /\ deletion'[s] = "RUNNING"),
           w.pc \in {"erasing", "deleting"} => deletion'[w.job] = "RUNNING",
           objects' \subseteq Product, objects' \subseteq objects \cup {w.job},
           \A p \in objects \ objects' : message[p] = "ACKED" /\ w.pc = "erasing",
           w.pc = "written" => w.job \in objects',
           w.pc = "erasing" => \A p \in w.seen : message[p] = "ACKED",
           w.pc = "deleting" => \A p \in Product : p \in w.seen \/ (row'[p] = "NONE" /\ p \notin files)
    PROVE  DataInv'
<1>1. /\ worker' \in [Worker -> Holding] /\ \A i \in Worker : WorkerTyped(worker'[i])
      /\ worker'[k] = w /\ \A i \in Worker : i # k => worker'[i] = worker[i]
  BY DataWorker
<1>2. UNCHANGED <<crashes, torn, purged, overlapped>>
  BY DEF history
<1>3. /\ message[w.job] = "INFLIGHT" /\ w # Idle
      /\ \A i \in Worker : i # k => worker[i].job # w.job
  BY IdleTyped DEF DataInv, MessagesHeld
<1>4. w.pc \in {"erasing", "deleting"} => w.job \in Scope
  BY DEF WorkerTyped
<1>5. files \subseteq Product /\ objects \subseteq Product
  BY DEF DataInv, DataTypes
<1>6. DataTypes'
  BY <1>1, <1>2 DEF DataInv, DataTypes
<1>7. MessagesHeld'
  <2>1. \A i \in Worker : worker'[i] # Idle =>
          /\ message[worker'[i].job] = "INFLIGHT"
          /\ \A h \in Worker : h # i => worker'[h].job # worker'[i].job
    BY <1>1, <1>3 DEF DataInv, MessagesHeld
  <2>2. \A s \in Scope : deletion'[s] = "NONE" => message[s] = "UNSENT"
    BY DEF DataInv, MessagesHeld
  <2> QED
    BY <2>1, <2>2 DEF DataInv, MessagesHeld
<1>8. ObjectsFollow'
  <2>1. \A p \in objects' : message[p] \notin {"UNSENT", "PENDING", "DROPPED"}
    BY <1>3 DEF DataInv, ObjectsFollow
  <2>2. \A i \in Worker : /\ worker'[i].pc = "written" => worker'[i].job \in objects'
                          /\ worker'[i].pc = "erasing" => \A p \in worker'[i].seen : message[p] = "ACKED"
    <3> SUFFICES ASSUME NEW i \in Worker, i # k
                 PROVE  /\ worker[i].pc = "written" => worker[i].job \in objects'
                        /\ worker[i].pc = "erasing" => \A p \in worker[i].seen : message[p] = "ACKED"
      BY <1>1
    <3>1. worker[i].pc = "written" => message[worker[i].job] = "INFLIGHT"
      BY IdleTyped DEF DataInv, MessagesHeld
    <3> QED
      BY <3>1 DEF DataInv, ObjectsFollow
  <2> QED
    BY <2>1, <2>2 DEF DataInv, ObjectsFollow
<1>9. DeletionsRun'
  <2> SUFFICES ASSUME NEW i \in Worker
               PROVE  /\ worker'[i].pc \in {"erasing", "deleting"} => deletion'[worker'[i].job] = "RUNNING"
                      /\ worker'[i].pc = "deleting" => \A p \in Product :
                            row'[p] = "NONE" \/ p \in worker'[i].seen \/ (p \in Export /\ overlapped)
                      /\ worker'[i].job \in Scope => overlapped \/ \A d \in Caller : caller[d] = NoCall
    BY <1>2 DEF DeletionsRun
  <2>1. CASE i = k
    <3>1. worker'[i] = w /\ worker'[i].job = worker[k].job
      BY <1>1, <2>1
    <3> QED
      BY <3>1 DEF DataInv, DeletionsRun
  <2>2. CASE i # k
    <3>1. worker'[i] = worker[i] /\ worker[i].job # w.job
      BY <1>1, <1>3, <2>2
    <3>2. worker[i].pc \in {"erasing", "deleting"} => worker[i].job \in Scope
      BY DEF DataInv, DataTypes, WorkerTyped
    <3> QED
      BY <3>1, <3>2 DEF DataInv, DeletionsRun
  <2> QED
    BY <2>1, <2>2
<1>10. ObjectsAwaited' /\ WaitingHasMessage'
  <2>1. ObjectsAwaited'
    BY <1>3 DEF DataInv, ObjectsAwaited, Queued
  <2>2. WaitingHasMessage'
    BY <1>2, <1>3 DEF DataInv, WaitingHasMessage, Queued
  <2> QED
    BY <2>1, <2>2
<1>11. GapsExplained'
  <2> SUFFICES ASSUME NEW p \in files, p \notin objects' PROVE Explained(p)'
    BY DEF GapsExplained
  <2>1. CASE p \in objects
    <3>1. w.pc = "erasing" /\ w.job \in Scope /\ deletion'[w.job] = "RUNNING"
      BY <1>4, <2>1
    <3>2. \A i \in Worker : worker'[i].job = w.job => worker'[i].pc # "deleting"
      BY <1>1, <1>3, <3>1
    <3> QED
      BY <3>1, <3>2 DEF Explained
  <2>2. CASE p \notin objects
    <3>1. Explained(p)
      BY <2>2 DEF DataInv, GapsExplained
    <3>2. p \in Product
      BY <1>5
    <3>3. ASSUME NEW s \in Scope, deletion[s] \in {"RUNNING", "RETRYABLE_FAILED"},
                 \A i \in Worker : worker[i].job = s /\ worker[i].pc = "deleting" => p \in worker[i].seen
          PROVE  /\ deletion'[s] \in {"RUNNING", "RETRYABLE_FAILED"}
                 /\ \A i \in Worker : worker'[i].job = s /\ worker'[i].pc = "deleting" => p \in worker'[i].seen
      BY <1>1, <3>2, <3>3
    <3> QED
      BY <1>2, <3>1, <3>3 DEF Explained
  <2> QED
    BY <2>1, <2>2
<1> QED
  BY <1>6, <1>7, <1>8, <1>9, <1>10, <1>11 DEF DataInv

\* A worker is done with its job, one way or another: a status that waits for work keeps
\* its message, and an object gets its file row with the status.
LEMMA DataFinishes ==
    ASSUME DataInv, NEW k \in Worker, worker[k] # Idle, NEW j \in Job, j = worker[k].job,
           NEW at \in {"VISIBLE", "DLQ", "ACKED"}, message' = [message EXCEPT ![j] = at],
           at = "VISIBLE" => receives[j] < MaxReceive,
           Finish(k), crashes' \in 0..MaxCrashes,
           UNCHANGED <<account, artifact, objects, receives, caller, purged, overlapped>>,
           row' \in [Product -> RowStatus],
           \A p \in Product : p # j => row'[p] = row[p],
           \A p \in Product : row[p] = "NONE" => row'[p] = "NONE",
           \A p \in Product : p = j /\ row'[p] \in Unfinished => at # "ACKED",
           \A p \in objects \ files' : p = j => row'[p] \in {"NONE", "PERMANENT_FAILED"} \/ at # "ACKED",
           deletion' \in [Scope -> Unfinished \cup {"NONE", "SUCCEEDED"}],
           \A s \in Scope : deletion'[s] = deletion[s] \/ (s = j /\ deletion'[s] = "RETRYABLE_FAILED"),
           files' \subseteq Product, files \subseteq files',
           \A p \in files' \ files : p = j /\ p \in objects /\ at = "ACKED",
           torn' \subseteq Product, torn \ torn' \subseteq objects
    PROVE  DataInv'
<1>1. /\ worker' \in [Worker -> Holding] /\ \A i \in Worker : WorkerTyped(worker'[i])
      /\ worker'[k] = Idle /\ \A i \in Worker : i # k => worker'[i] = worker[i]
  BY IdleTyped, DataWorker DEF Finish
<1>2. /\ message' \in [Job -> MessageAt] /\ message'[j] = at
      /\ \A i \in Job : i # j => message'[i] = message[i]
  BY DEF DataInv, DataTypes, MessageAt, Queued
<1>3. /\ message[j] = "INFLIGHT" /\ \A i \in Worker : i # k => worker[i].job # j
  BY DEF DataInv, MessagesHeld
<1>4. /\ Product \subseteq Job /\ Scope \subseteq Job
      /\ \A i \in Worker : worker[i] # Idle => worker[i].job \in Job
      /\ files \subseteq Product /\ objects \subseteq Product
      /\ \A i \in Worker : worker[i].seen \subseteq Product
      /\ \A d \in Caller : caller[d].found \subseteq Product
  BY DEF Job, DataInv, DataTypes, WorkerTyped, Holding, Pc, Call, Product
<1>5. DataTypes'
  BY <1>1, <1>2 DEF DataInv, DataTypes
<1>6. MessagesHeld'
  <2>1. \A i \in Job : /\ message'[i] \in {"UNSENT", "PENDING"} => receives[i] = 0
                       /\ message'[i] = "VISIBLE" => receives[i] < MaxReceive
    BY <1>2 DEF DataInv, MessagesHeld
  <2>2. \A i \in Worker : worker'[i] # Idle =>
          /\ message'[worker'[i].job] = "INFLIGHT"
          /\ \A h \in Worker : h # i => worker'[h].job # worker'[i].job
    <3> SUFFICES ASSUME NEW i \in Worker, worker'[i] # Idle, NEW h \in Worker, h # i
                 PROVE  message'[worker'[i].job] = "INFLIGHT" /\ worker'[h].job # worker'[i].job
      <4>1. ASSUME NEW i \in Worker, worker'[i] # Idle PROVE message'[worker'[i].job] = "INFLIGHT"
        BY <1>1, <1>2, <1>3, <1>4, <4>1 DEF DataInv, MessagesHeld
      <4> QED
        BY <4>1
    <3>1. i # k /\ worker'[i] = worker[i] /\ worker[i] # Idle /\ worker[i].job \in Job
      BY <1>1, <1>4
    <3>2. message[worker[i].job] = "INFLIGHT" /\ worker[h].job # worker[i].job
      BY <3>1 DEF DataInv, MessagesHeld
    <3>3. message'[worker'[i].job] = "INFLIGHT"
      BY <1>2, <1>3, <3>1, <3>2
    <3>4. worker'[h].job # worker'[i].job
      BY <1>1, <3>1, <3>2, IdleTyped DEF Job, Scope
    <3> QED
      BY <3>3, <3>4
  <2>3. \A s \in Scope : deletion'[s] = "NONE" => message'[s] = "UNSENT"
    BY <1>2, <1>3, <1>4 DEF DataInv, MessagesHeld
  <2> QED
    BY <2>1, <2>2, <2>3 DEF MessagesHeld
<1>7. ObjectsFollow'
  <2>1. \A p \in Product : /\ message[p] = "ACKED" => message'[p] = "ACKED"
                           /\ message[p] \notin {"UNSENT", "PENDING", "DROPPED"}
                                => message'[p] \notin {"UNSENT", "PENDING", "DROPPED"}
    BY <1>2, <1>3, <1>4
  <2>2. \A p \in files' : message'[p] = "ACKED"
    BY <1>2, <1>4, <2>1 DEF DataInv, ObjectsFollow
  <2>3. \A i \in Worker : /\ worker'[i].pc = "written" => worker'[i].job \in objects
                          /\ worker'[i].pc = "erasing" => \A p \in worker'[i].seen : message'[p] = "ACKED"
    BY <1>1, <1>4, <2>1, IdleTyped DEF DataInv, ObjectsFollow
  <2>4. /\ \A p \in objects : message'[p] \notin {"UNSENT", "PENDING", "DROPPED"}
        /\ \A c \in Caller : /\ caller[c].seen \subseteq caller[c].found
                             /\ \A p \in caller[c].found : message'[p] = "ACKED"
    BY <1>4, <2>1 DEF DataInv, ObjectsFollow
  <2> QED
    BY <2>2, <2>3, <2>4 DEF ObjectsFollow
<1>8. DeletionsRun'
  <2> SUFFICES ASSUME NEW i \in Worker
               PROVE  /\ worker'[i].pc \in {"erasing", "deleting"} => deletion'[worker'[i].job] = "RUNNING"
                      /\ worker'[i].pc = "deleting" => \A p \in Product :
                            row'[p] = "NONE" \/ p \in worker'[i].seen \/ (p \in Export /\ overlapped)
                      /\ worker'[i].job \in Scope => overlapped \/ \A d \in Caller : caller[d] = NoCall
    BY DEF DeletionsRun
  <2>1. CASE i = k
    BY <1>1, <2>1, IdleTyped
  <2>2. CASE i # k
    <3>1. worker'[i] = worker[i] /\ worker[i].job # j
      BY <1>1, <1>3, <2>2
    <3>2. worker[i].pc \in {"erasing", "deleting"} => worker[i].job \in Scope
      BY DEF DataInv, DataTypes, WorkerTyped
    <3>3. worker[i].pc = "deleting" => \A p \in Product : p # j => row'[p] = row[p]
      OBVIOUS
    <3>4. \A p \in Product : p = j => worker[k].job = p
      OBVIOUS
    <3> QED
      BY <3>1, <3>2 DEF DataInv, DeletionsRun
  <2> QED
    BY <2>1, <2>2
<1>9. ObjectsAwaited' /\ WaitingHasMessage'
  <2>1. at # "ACKED" => at \in Queued
    BY DEF Queued
  <2>2. ObjectsAwaited'
    BY <1>2, <1>4, <2>1 DEF DataInv, ObjectsAwaited
  <2>3. WaitingHasMessage'
    BY <1>2, <1>4, <2>1 DEF DataInv, WaitingHasMessage
  <2> QED
    BY <2>2, <2>3
<1>10. GapsExplained'
  <2> SUFFICES ASSUME NEW p \in files' \ objects PROVE Explained(p)'
    BY DEF GapsExplained
  <2>1. Explained(p)
    BY DEF DataInv, GapsExplained
  <2>2. ASSUME NEW s \in Scope, deletion[s] \in {"RUNNING", "RETRYABLE_FAILED"},
               \A i \in Worker : worker[i].job = s /\ worker[i].pc = "deleting" => p \in worker[i].seen
        PROVE  /\ deletion'[s] \in {"RUNNING", "RETRYABLE_FAILED"}
               /\ \A i \in Worker : worker'[i].job = s /\ worker'[i].pc = "deleting" => p \in worker'[i].seen
    BY <1>1, <2>2, IdleTyped
  <2> QED
    BY <2>1, <2>2 DEF Explained
<1> QED
  BY <1>5, <1>6, <1>7, <1>8, <1>9, <1>10 DEF DataInv

LEMMA DataRaised ==
    ASSUME DataInv, NEW j \in Job, Raise(j), UNCHANGED receives
    PROVE  \E at \in {"VISIBLE", "DLQ"} : /\ message' = [message EXCEPT ![j] = at]
                                          /\ at = "VISIBLE" => receives[j] < MaxReceive
<1>1. receives[j] \in 0..MaxReceive
  BY DEF DataInv, DataTypes
<1>2. CASE receives'[j] >= MaxReceive
  <2>1. message' = [message EXCEPT ![j] = "DLQ"]
    BY <1>2 DEF Raise
  <2> QED
    BY <2>1
<1>3. CASE ~(receives'[j] >= MaxReceive)
  <2>1. message' = [message EXCEPT ![j] = "VISIBLE"]
    BY <1>3 DEF Raise
  <2>2. receives[j] < MaxReceive
    BY <1>1, <1>3
  <2> QED
    BY <2>1, <2>2
<1> QED
  BY <1>2, <1>3

\* A worker at work has a job, and its row is there to be updated or not.
LEMMA DataAtWork ==
    ASSUME DataInv, NEW k \in Worker, worker[k] # Idle
    PROVE  /\ worker[k].job \in Job /\ worker[k].pc # "idle" /\ WorkerTyped(worker[k])
           /\ worker[k].seen \subseteq Product
           /\ worker[k].pc = "written" => worker[k].job \in objects
           /\ worker[k].pc = "erasing" => \A p \in worker[k].seen : message[p] = "ACKED"
           /\ worker[k].pc \in {"erasing", "deleting"} => deletion[worker[k].job] = "RUNNING"
           /\ worker[k].job \notin files
<1>1. WorkerTyped(worker[k])
  BY DEF DataInv, DataTypes
<1>2. worker[k].job \in Job /\ worker[k].pc # "idle" /\ worker[k].seen \subseteq Product
  BY <1>1 DEF WorkerTyped, Holding, Pc, Job
<1>3. message[worker[k].job] = "INFLIGHT"
  BY DEF DataInv, MessagesHeld
<1>4. worker[k].job \notin files
  BY <1>3 DEF DataInv, ObjectsFollow
<1> QED
  BY <1>1, <1>2, <1>4 DEF DataInv, ObjectsFollow, DeletionsRun

\* A worker that dies, or whose row is gone, gives its message back.
LEMMA DataGivesBack ==
    ASSUME DataInv, NEW k \in Worker, worker[k] # Idle, Finish(k), Raise(worker[k].job),
           crashes' \in 0..MaxCrashes, torn' \subseteq Product, torn \subseteq torn',
           row' \in [Product -> RowStatus],
           \A p \in Product : p # worker[k].job => row'[p] = row[p],
           \A p \in Product : row[p] = "NONE" => row'[p] = "NONE",
           deletion' \in [Scope -> Unfinished \cup {"NONE", "SUCCEEDED"}],
           \A s \in Scope : deletion'[s] = deletion[s]
                            \/ (s = worker[k].job /\ deletion'[s] = "RETRYABLE_FAILED"),
           UNCHANGED <<account, artifact, files, objects, receives, caller, purged, overlapped>>
    PROVE  DataInv'
<1> DEFINE j == worker[k].job
<1>1. j \in Job /\ files \subseteq Product
  BY DataAtWork DEF DataInv, DataTypes
<1>2. PICK at \in {"VISIBLE", "DLQ"} : /\ message' = [message EXCEPT ![j] = at]
                                       /\ at = "VISIBLE" => receives[j] < MaxReceive
  BY <1>1, DataRaised
<1>3. at # "ACKED" /\ at \in {"VISIBLE", "DLQ", "ACKED"}
  OBVIOUS
<1> QED
  BY <1>1, <1>2, <1>3, DataFinishes

LEMMA DataProductWork ==
    ASSUME DataInv, NEW k \in Worker, worker[k] # Idle, worker[k].job \in Product,
           \/ RowGone(k) \/ CommitRunning(k) \/ WriteDocument(k) \/ WriteExport(k)
           \/ RenderFails(k) \/ ExportFails(k) \/ CommitProduct(k)
    PROVE  DataInv'
<1> DEFINE j == worker[k].job
<1>1. /\ row \in [Product -> RowStatus] /\ deletion \in [Scope -> Unfinished \cup {"NONE", "SUCCEEDED"}]
      /\ files \subseteq Product /\ objects \subseteq Product /\ torn \subseteq Product
      /\ crashes \in 0..MaxCrashes /\ WorkerTyped(worker[k]) /\ j \notin Scope /\ j \in Job
  BY DataAtWork DEF DataInv, DataTypes
<1>2. Typed
  BY DataTyped DEF DataInv
<1>3. worker[k].seen \subseteq Product /\ worker[k].pc # "idle"
  BY DataAtWork
<1>4. ASSUME NEW t \in RowStatus, SetStatus(k, t)
      PROVE  /\ row' \in [Product -> RowStatus] /\ row'[j] = t /\ row[j] # "NONE"
             /\ \A p \in Product : p # j => row'[p] = row[p]
  BY <1>1, <1>4 DEF SetStatus
<1>5. {"RUNNING", "SUCCEEDED", "PERMANENT_FAILED", "RETRYABLE_FAILED"} \subseteq RowStatus
  BY DEF RowStatus, Unfinished
<1>6. CASE RowGone(k)
  <2>1. /\ Finish(k) /\ Raise(j)
        /\ torn' = (IF At(k, "written") THEN torn \cup {j} ELSE torn)
        /\ UNCHANGED <<account, artifact, deletion, row, files, objects, receives, caller, crashes, purged,
                       overlapped>>
    BY <1>6 DEF RowGone, userData
  <2>2. torn' \subseteq Product /\ torn \subseteq torn'
    BY <1>1, <2>1
  <2> QED
    BY <1>1, <2>1, <2>2, DataGivesBack
<1>7. CASE CommitRunning(k)
  <2> DEFINE w == To(k, "running", worker[k].seen)
  <2>1. /\ SetStatus(k, "RUNNING") /\ worker' = [worker EXCEPT ![k] = w]
        /\ UNCHANGED <<account, artifact, deletion, files, objects, message, receives, caller, history>>
    BY <1>2, <1>7, WorkerUpdates DEF CommitRunning, userData, queue
  <2>2. WorkerTyped(w) /\ w.job = worker[k].job /\ w.pc = "running"
    BY <1>1, <1>3, IdleTyped DEF WorkerTyped, Holding, Pc, To
  <2>3. /\ row' \in [Product -> RowStatus] /\ row'[j] = "RUNNING" /\ row[j] # "NONE"
        /\ \A p \in Product : p # j => row'[p] = row[p]
    BY <1>4, <1>5, <2>1
  <2> HIDE DEF w
  <2> QED
    BY <1>1, <2>1, <2>2, <2>3, DataGoes
<1>8. CASE WriteDocument(k) \/ WriteExport(k)
  <2> DEFINE w == To(k, "written", worker[k].seen)
  <2>1. /\ objects' = objects \cup {j} /\ worker' = [worker EXCEPT ![k] = w]
        /\ UNCHANGED <<account, artifact, deletion, row, files, message, receives, caller, history>>
    BY <1>2, <1>8, WorkerUpdates DEF WriteDocument, WriteExport, WriteObject, userData, queue
  <2>2. WorkerTyped(w) /\ w.job = worker[k].job /\ w.pc = "written"
    BY <1>1, <1>3, IdleTyped DEF WorkerTyped, Holding, Pc, To
  <2>3. objects' \subseteq Product /\ objects \ objects' = {} /\ w.job \in objects'
    BY <1>1, <2>1, <2>2
  <2> HIDE DEF w
  <2> QED
    BY <1>1, <2>1, <2>2, <2>3, DataGoes
<1>9. CASE RenderFails(k)
  <2>1. /\ SetStatus(k, "PERMANENT_FAILED") /\ Finish(k) /\ message' = [message EXCEPT ![j] = "ACKED"]
        /\ UNCHANGED <<account, artifact, deletion, files, objects, receives, caller, crashes, torn, purged,
                       overlapped>>
    BY <1>9 DEF RenderFails, Acknowledge, userData, history
  <2>2. /\ row' \in [Product -> RowStatus] /\ row'[j] = "PERMANENT_FAILED" /\ row[j] # "NONE"
        /\ \A p \in Product : p # j => row'[p] = row[p]
    BY <1>4, <1>5, <2>1
  <2>3. row'[j] \notin Unfinished
    BY <2>2 DEF Unfinished
  <2> QED
    BY <1>1, <2>1, <2>2, <2>3, DataFinishes
<1>10. CASE ExportFails(k)
  <2>1. /\ SetStatus(k, "RETRYABLE_FAILED") /\ Finish(k) /\ Raise(j)
        /\ UNCHANGED <<account, artifact, deletion, files, objects, receives, caller, crashes, torn, purged,
                       overlapped>>
    BY <1>10 DEF ExportFails, userData, history
  <2>2. /\ row' \in [Product -> RowStatus] /\ row'[j] = "RETRYABLE_FAILED" /\ row[j] # "NONE"
        /\ \A p \in Product : p # j => row'[p] = row[p]
    BY <1>4, <1>5, <2>1
  <2> QED
    BY <1>1, <2>1, <2>2, DataGivesBack
<1>11. CASE CommitProduct(k)
  <2>1. /\ worker[k].pc = "written" /\ SetStatus(k, "SUCCEEDED") /\ Finish(k)
        /\ message' = [message EXCEPT ![j] = "ACKED"] /\ files' = files \cup {j} /\ torn' = torn \ {j}
        /\ UNCHANGED <<account, artifact, deletion, objects, receives, caller, crashes, purged, overlapped>>
    BY <1>11 DEF CommitProduct, Acknowledge, userData, At
  <2>2. /\ row' \in [Product -> RowStatus] /\ row'[j] = "SUCCEEDED" /\ row[j] # "NONE"
        /\ \A p \in Product : p # j => row'[p] = row[p]
    BY <1>4, <1>5, <2>1
  <2>3. row'[j] \notin Unfinished /\ j \in objects
    BY <2>1, <2>2, DataAtWork DEF Unfinished
  <2>4. /\ \A p \in objects \ files' : p # j
        /\ \A p \in files' \ files : p = j /\ p \in objects
        /\ files \subseteq files' /\ files' \subseteq Product
        /\ torn' \subseteq Product /\ torn \ torn' \subseteq objects
    BY <1>1, <2>1, <2>3
  <2>5. "ACKED" \in {"VISIBLE", "DLQ", "ACKED"}
    OBVIOUS
  <2> QED
    BY <1>1, <2>1, <2>2, <2>3, <2>4, <2>5, DataFinishes
<1> QED
  BY <1>6, <1>7, <1>8, <1>9, <1>10, <1>11

\* What a deletion that commits leaves behind was not its to remove.
LEMMA DataErased ==
    ASSUME DataInv, NEW k \in Worker, worker[k] # Idle, worker[k].job \in Scope, FinishDeletion(k)
    PROVE  DataInv'
<1> DEFINE s    == worker[k].job
           gone == worker[k].seen
<1>1. /\ worker[k].pc = "deleting" /\ Finish(k)
      /\ row' = [p \in Product |-> IF p \in gone THEN "NONE" ELSE row[p]]
      /\ artifact' = FALSE /\ files' = files \ gone
      /\ message' = [j \in Job |-> IF j = s THEN "ACKED"
                                   ELSE IF message[j] = "PENDING" THEN "DROPPED" ELSE message[j]]
      /\ deletion' = [deletion EXCEPT ![s] = "SUCCEEDED"]
      /\ account' = (IF s = "ACCOUNT" THEN "DELETED" ELSE account)
      /\ purged' = purged \cup gone
      /\ UNCHANGED <<objects, receives, caller, crashes, torn, overlapped>>
  BY DEF FinishDeletion, At
<1>2. /\ worker' \in [Worker -> Holding] /\ \A i \in Worker : WorkerTyped(worker'[i])
      /\ worker'[k] = Idle /\ \A i \in Worker : i # k => worker'[i] = worker[i]
  BY <1>1, IdleTyped, DataWorker DEF Finish
<1>3. /\ Product \subseteq Job /\ Scope \subseteq Job /\ s \in Job /\ gone \subseteq Product /\ s \notin Product
      /\ files \subseteq Product /\ objects \subseteq Product
      /\ \A i \in Worker : worker[i].seen \subseteq Product
      /\ \A d \in Caller : caller[d].found \subseteq Product
      /\ \A i \in Worker : worker[i] # Idle => worker[i].job \in Job
      /\ \A i \in Worker : worker[i].pc \in {"erasing", "deleting"} => worker[i].job \in Scope
  BY DataAtWork DEF Job, DataInv, DataTypes, WorkerTyped, Holding, Pc, Call, Product
<1>4. /\ message[s] = "INFLIGHT" /\ \A i \in Worker : i # k => worker[i].job # s
  BY DEF DataInv, MessagesHeld
<1>5. /\ deletion' \in [Scope -> Unfinished \cup {"NONE", "SUCCEEDED"}] /\ deletion'[s] = "SUCCEEDED"
      /\ \A t \in Scope : t # s => deletion'[t] = deletion[t]
      /\ row' \in [Product -> RowStatus] /\ \A p \in Product : row'[p] \in {row[p], "NONE"}
      /\ \A p \in Product : p \in gone => row'[p] = "NONE"
      /\ \A p \in Product : p \notin gone => row'[p] = row[p]
  BY <1>1 DEF DataInv, DataTypes, RowStatus
<1>6. /\ message' \in [Job -> MessageAt] /\ message'[s] = "ACKED"
      /\ \A i \in Job : i # s /\ message[i] # "PENDING" => message'[i] = message[i]
      /\ \A i \in Job : i # s /\ message[i] = "PENDING" => message'[i] = "DROPPED"
  BY <1>1, <1>3 DEF DataInv, DataTypes, MessageAt
<1>7. DataTypes'
  <2>1. account' \in {"ACTIVE", "DELETION_PENDING", "DELETED"} /\ artifact' \in BOOLEAN
    BY <1>1 DEF DataInv, DataTypes
  <2>2. files' \subseteq Product /\ purged' \subseteq Product
    BY <1>1, <1>3 DEF DataInv, DataTypes
  <2> QED
    BY <1>1, <1>2, <1>5, <1>6, <2>1, <2>2 DEF DataInv, DataTypes
<1>8. MessagesHeld'
  <2>1. \A i \in Job : /\ message'[i] \in {"UNSENT", "PENDING"} => receives[i] = 0
                       /\ message'[i] = "VISIBLE" => receives[i] < MaxReceive
    BY <1>6 DEF DataInv, MessagesHeld
  <2>2. ASSUME NEW i \in Worker, worker'[i] # Idle
        PROVE  /\ message'[worker'[i].job] = "INFLIGHT"
               /\ \A h \in Worker : h # i => worker'[h].job # worker'[i].job
    <3>1. i # k /\ worker'[i] = worker[i] /\ worker[i] # Idle /\ worker[i].job \in Job /\ worker[i].job # s
      BY <1>2, <1>3, <1>4, <2>2
    <3>2. message[worker[i].job] = "INFLIGHT" /\ \A h \in Worker : h # i => worker[h].job # worker[i].job
      BY <3>1 DEF DataInv, MessagesHeld
    <3>3. message'[worker[i].job] = "INFLIGHT"
      BY <1>6, <3>1, <3>2
    <3>4. \A h \in Worker : h # i => worker'[h].job # worker'[i].job
      BY <1>2, <3>1, <3>2, IdleTyped DEF Job, Scope
    <3> QED
      BY <3>1, <3>3, <3>4
  <2>3. \A t \in Scope : deletion'[t] = "NONE" => message'[t] = "UNSENT"
    BY <1>3, <1>5, <1>6 DEF DataInv, MessagesHeld
  <2> QED
    BY <1>1, <2>1, <2>2, <2>3 DEF MessagesHeld
<1>9. ObjectsFollow'
  <2>1. \A p \in Product : /\ message[p] = "ACKED" => message'[p] = "ACKED"
                           /\ message[p] \notin {"UNSENT", "PENDING", "DROPPED"}
                                => message'[p] \notin {"UNSENT", "PENDING", "DROPPED"}
    BY <1>3, <1>6
  <2>2. \A i \in Worker : /\ worker'[i].pc = "written" => worker'[i].job \in objects
                          /\ worker'[i].pc = "erasing" => \A p \in worker'[i].seen : message'[p] = "ACKED"
    BY <1>2, <1>3, <2>1, IdleTyped DEF DataInv, ObjectsFollow
  <2> QED
    BY <1>1, <1>3, <2>1, <2>2 DEF DataInv, ObjectsFollow
<1>10. DeletionsRun'
  <2> SUFFICES ASSUME NEW i \in Worker
               PROVE  /\ worker'[i].pc \in {"erasing", "deleting"} => deletion'[worker'[i].job] = "RUNNING"
                      /\ worker'[i].pc = "deleting" => \A p \in Product :
                            row'[p] = "NONE" \/ p \in worker'[i].seen \/ (p \in Export /\ overlapped)
                      /\ worker'[i].job \in Scope => overlapped \/ \A d \in Caller : caller[d] = NoCall
    BY <1>1 DEF DeletionsRun
  <2>1. CASE i = k
    BY <1>2, <2>1, IdleTyped
  <2>2. CASE i # k
    BY <1>2, <1>3, <1>4, <1>5, <2>2 DEF DataInv, DeletionsRun
  <2> QED
    BY <2>1, <2>2
<1>11. ObjectsAwaited'
  <2> SUFFICES ASSUME NEW p \in objects, p \notin files'
               PROVE  row'[p] \in {"NONE", "PERMANENT_FAILED"} \/ message'[p] \in Queued
    BY <1>1 DEF ObjectsAwaited
  <2>1. CASE p \in gone
    BY <1>3, <1>5, <2>1
  <2>2. CASE p \notin gone
    <3>1. p \notin files /\ row'[p] = row[p] /\ p \in Job /\ p # s
      BY <1>1, <1>3, <1>5, <2>2
    <3>2. message[p] # "PENDING" /\ (row[p] \in {"NONE", "PERMANENT_FAILED"} \/ message[p] \in Queued)
      BY <3>1 DEF DataInv, ObjectsFollow, ObjectsAwaited
    <3> QED
      BY <1>6, <3>1, <3>2
  <2> QED
    BY <2>1, <2>2
<1>12. WaitingHasMessage'
  <2> SUFFICES ASSUME NEW p \in Product, row'[p] \in Unfinished
               PROVE  message'[p] \in Queued \/ (p \in Export /\ overlapped)
    BY <1>1 DEF WaitingHasMessage
  <2>1. p \notin gone /\ row'[p] = row[p] /\ row[p] # "NONE" /\ p \in Job /\ p # s
    BY <1>3, <1>5 DEF Unfinished
  <2>2. message[p] \in Queued \/ (p \in Export /\ overlapped)
    BY <2>1 DEF DataInv, WaitingHasMessage
  <2>3. p \in Export /\ overlapped
    BY <1>1, <2>1 DEF DataInv, DeletionsRun
  <2> QED
    BY <2>3
<1>13. GapsExplained'
  <2> SUFFICES ASSUME NEW p \in files', p \notin objects PROVE Explained(p)'
    BY <1>1 DEF GapsExplained
  <2>1. p \in files /\ p \notin gone
    BY <1>1
  <2>2. Explained(p)
    BY <2>1 DEF DataInv, GapsExplained
  <2>3. ASSUME NEW t \in Scope, deletion[t] \in {"RUNNING", "RETRYABLE_FAILED"},
               \A i \in Worker : worker[i].job = t /\ worker[i].pc = "deleting" => p \in worker[i].seen
        PROVE  /\ deletion'[t] \in {"RUNNING", "RETRYABLE_FAILED"}
               /\ \A i \in Worker : worker'[i].job = t /\ worker'[i].pc = "deleting" => p \in worker'[i].seen
    <3>1. t # s
      BY <1>1, <2>1, <2>3
    <3> QED
      BY <1>2, <1>5, <2>3, <3>1, IdleTyped
  <2> QED
    BY <1>1, <2>2, <2>3 DEF Explained
<1> QED
  BY <1>7, <1>8, <1>9, <1>10, <1>11, <1>12, <1>13 DEF DataInv

LEMMA DataDeletionWork ==
    ASSUME DataInv, NEW k \in Worker, worker[k] # Idle, worker[k].job \in Scope,
           \/ StartDeletion(k) \/ EraseFile(k) \/ EraseFails(k)
           \/ DeleteRows(k) \/ FinishDeletion(k)
    PROVE  DataInv'
<1> DEFINE s == worker[k].job
<1>1. /\ row \in [Product -> RowStatus] /\ deletion \in [Scope -> Unfinished \cup {"NONE", "SUCCEEDED"}]
      /\ files \subseteq Product /\ objects \subseteq Product /\ torn \subseteq Product
      /\ crashes \in 0..MaxCrashes /\ WorkerTyped(worker[k]) /\ s \notin Product /\ s \in Job
      /\ worker[k] \in Holding
  BY DataAtWork DEF DataInv, DataTypes, WorkerTyped
<1>2. Typed
  BY DataTyped DEF DataInv
<1>3. \A p \in files : message[p] = "ACKED"
  BY DEF DataInv, ObjectsFollow
<1>4. CASE StartDeletion(k)
  <2> DEFINE w == To(k, "erasing", files)
  <2>1. /\ worker' = [worker EXCEPT ![k] = w] /\ deletion' = [deletion EXCEPT ![s] = "RUNNING"]
        /\ UNCHANGED <<account, artifact, row, files, objects, message, receives, caller, history>>
    <3>1. Both(k, "erasing", files) = Moved(k, "erasing", files)
      BY <1>2, WorkerUpdates
    <3>2. [worker EXCEPT ![k].pc = "erasing", ![k].seen = files] = [worker EXCEPT ![k] = w]
      BY <3>1 DEF Both, Moved
    <3> HIDE DEF w
    <3> QED
      BY <1>4, <3>2 DEF StartDeletion, queue
  <2>2. WorkerTyped(w) /\ w.pc = "erasing" /\ w.job = s /\ w.seen = files
    BY <1>1 DEF WorkerTyped, Holding, To, Pc
  <2>3. /\ deletion' \in [Scope -> Unfinished \cup {"NONE", "SUCCEEDED"}] /\ deletion'[s] = "RUNNING"
        /\ \A t \in Scope : t # s => deletion'[t] = deletion[t]
    BY <1>1, <2>1 DEF Unfinished
  <2> HIDE DEF w
  <2> QED
    BY <1>1, <1>3, <2>1, <2>2, <2>3, DataGoes
<1>5. CASE EraseFile(k)
  <2>1. PICK p \in worker[k].seen : /\ objects' = objects \ {p}
                                    /\ worker' = [worker EXCEPT ![k].seen = @ \ {p}]
    BY <1>5 DEF EraseFile
  <2> DEFINE w == To(k, worker[k].pc, worker[k].seen \ {p})
  <2>2. /\ worker[k].pc = "erasing" /\ worker' = [worker EXCEPT ![k] = w]
        /\ UNCHANGED <<account, artifact, deletion, row, files, message, receives, caller, history>>
    BY <1>2, <1>5, <2>1, WorkerUpdates DEF EraseFile, At, userData, queue
  <2>3. /\ WorkerTyped(w) /\ w.pc = "erasing" /\ w.job = worker[k].job
        /\ w.seen = worker[k].seen \ {p}
    BY <1>1, <2>2 DEF WorkerTyped, Holding, To, Pc
  <2>4. deletion'[s] = "RUNNING" /\ \A q \in worker[k].seen : message[q] = "ACKED"
    BY <2>2, DataAtWork
  <2>5. /\ objects' \subseteq Product /\ objects' \subseteq objects
        /\ \A q \in objects \ objects' : message[q] = "ACKED"
    BY <1>1, <2>1, <2>4
  <2> HIDE DEF w
  <2> QED
    BY <1>1, <2>2, <2>3, <2>4, <2>5, DataGoes
<1>6. CASE EraseFails(k)
  <2>1. /\ deletion' = [deletion EXCEPT ![s] = "RETRYABLE_FAILED"] /\ Finish(k) /\ Raise(s)
        /\ UNCHANGED <<account, artifact, row, files, objects, receives, caller, crashes, torn, purged, overlapped>>
    BY <1>6 DEF EraseFails, history
  <2>2. /\ deletion' \in [Scope -> Unfinished \cup {"NONE", "SUCCEEDED"}] /\ deletion'[s] = "RETRYABLE_FAILED"
        /\ \A t \in Scope : t # s => deletion'[t] = deletion[t]
    BY <1>1, <2>1 DEF Unfinished
  <2> QED
    BY <1>1, <2>1, <2>2, DataGivesBack
<1>7. CASE DeleteRows(k)
  <2> DEFINE w == To(k, "deleting", Owned)
  <2>1. /\ worker[k].pc = "erasing" /\ worker' = [worker EXCEPT ![k] = w]
        /\ UNCHANGED <<account, artifact, deletion, row, files, objects, message, receives, caller, history>>
    <3>1. Both(k, "deleting", Owned) = Moved(k, "deleting", Owned)
      BY <1>2, WorkerUpdates
    <3>2. [worker EXCEPT ![k].pc = "deleting", ![k].seen = Owned] = [worker EXCEPT ![k] = w]
      BY <3>1 DEF Both, Moved
    <3> HIDE DEF w
    <3> QED
      BY <1>7, <3>2 DEF DeleteRows, At, userData, queue
  <2>2. Owned \subseteq Product /\ \A p \in Product : p \in Owned \/ (row[p] = "NONE" /\ p \notin files)
    BY <1>1 DEF Owned
  <2>3. WorkerTyped(w) /\ w.pc = "deleting" /\ w.job = worker[k].job /\ w.seen = Owned
    BY <1>1, <2>2 DEF WorkerTyped, Holding, To, Pc
  <2>4. deletion'[s] = "RUNNING"
    BY <2>1, DataAtWork
  <2> HIDE DEF w
  <2> QED
    BY <1>1, <2>1, <2>2, <2>3, <2>4, DataGoes
<1>8. CASE FinishDeletion(k)
  BY <1>8, DataErased
<1> QED
  BY <1>4, <1>5, <1>6, <1>7, <1>8

LEMMA DataCrash ==
    ASSUME DataInv, NEW k \in Worker, Crash(k)
    PROVE  DataInv'
<1>1. /\ worker[k] # Idle /\ Finish(k) /\ Raise(worker[k].job)
      /\ crashes < MaxCrashes /\ crashes' = crashes + 1
      /\ torn' = (IF At(k, "written") THEN torn \cup {worker[k].job} ELSE torn)
      /\ UNCHANGED <<account, artifact, deletion, row, files, objects, receives, caller, purged, overlapped>>
  BY DEF Crash, userData
<1>2. /\ row \in [Product -> RowStatus] /\ deletion \in [Scope -> Unfinished \cup {"NONE", "SUCCEEDED"}]
      /\ objects \subseteq Product /\ torn \subseteq Product /\ crashes \in 0..MaxCrashes
  BY DEF DataInv, DataTypes
<1>3. worker[k].pc = "written" => worker[k].job \in objects
  BY <1>1, DataAtWork
<1>4. torn' \subseteq Product /\ torn \subseteq torn' /\ crashes' \in 0..MaxCrashes
  BY <1>1, <1>2, <1>3 DEF At
<1> QED
  BY <1>1, <1>2, <1>4, DataGivesBack

LEMMA DataWork ==
    ASSUME DataInv, NEW k \in Worker, Work(k)
    PROVE  DataInv'
<1>1. WorkerTyped(worker[k]) /\ Idle.job \notin Product /\ Idle.job \notin Scope
  BY IdleTyped DEF DataInv, DataTypes
<1>2. CASE \/ RowGone(k) \/ CommitRunning(k) \/ WriteDocument(k) \/ WriteExport(k)
           \/ RenderFails(k) \/ ExportFails(k) \/ CommitProduct(k)
  <2>1. worker[k].job \in Product
    BY <1>1, <1>2 DEF RowGone, CommitRunning, WriteDocument, WriteExport, RenderFails,
       ExportFails, CommitProduct, At, WorkerTyped, Product
  <2>2. worker[k] # Idle
    BY <1>1, <2>1
  <2> QED
    BY <1>2, <2>1, <2>2, DataProductWork
<1>3. CASE \/ StartDeletion(k) \/ EraseFile(k) \/ EraseFails(k) \/ DeleteRows(k)
           \/ FinishDeletion(k)
  <2>1. worker[k].job \in Scope
    BY <1>1, <1>3 DEF StartDeletion, EraseFile, EraseFails, DeleteRows, FinishDeletion, At,
       WorkerTyped
  <2>2. worker[k] # Idle
    BY <1>1, <2>1
  <2> QED
    BY <1>3, <2>1, <2>2, DataDeletionWork
<1> QED
  BY <1>2, <1>3 DEF Work

LEMMA DataStep == DataInv /\ [Next]_vars => DataInv'
<1> SUFFICES ASSUME DataInv, [Next]_vars
             PROVE  DataInv'
  OBVIOUS
<1>1. CASE UNCHANGED vars
  BY <1>1 DEF vars, DataInv, DataTypes, MessagesHeld, ObjectsFollow, DeletionsRun, ObjectsAwaited,
     GapsExplained, Explained, WaitingHasMessage
<1>2. ASSUME NEW c \in Caller, Request(c) PROVE DataInv'
  BY <1>2, DataRequest
<1>3. ASSUME NEW j \in Job, Publish(j) PROVE DataInv'
  BY <1>3, DataPublish
<1>4. ASSUME NEW k \in Worker, Deliver(k) \/ Work(k) \/ Crash(k) PROVE DataInv'
  BY <1>4, DataDeliver, DataWork, DataCrash
<1> QED
  BY <1>1, <1>2, <1>3, <1>4 DEF Next

LEMMA DataHolds == Spec => []DataInv
BY DataInit, DataStep, PTL DEF Spec

\* Every table, queue and process has one of its values, for any number of them.
THEOREM PrivateDataTyped == Spec => []TypeOK
<1>1. DataInv => TypeOK
  BY DataTyped DEF DataInv
<1> QED
  BY <1>1, DataHolds, PTL

\* The order object, row loses neither (DocumentProcessor, ExportProcessor,
\* DeletionProcessor): an object without a file row is written off or to be tried again,
\* a file row without its object belongs to a deletion that has not ended.
THEOREM NothingDangles == Spec => []FilesMatchObjects
<1>1. DataInv => FilesMatchObjects
  <2> SUFFICES ASSUME DataInv PROVE FilesMatchObjects
    OBVIOUS
  <2>1. \A p \in objects \ files : row[p] \in {"NONE", "PERMANENT_FAILED"} \/ message[p] \in Queued
    BY DEF DataInv, ObjectsAwaited
  <2>2. \A p \in files \ objects :
          \/ p \in torn
          \/ \E s \in Scope : deletion[s] \in {"RUNNING", "RETRYABLE_FAILED"}
          \/ \E c \in ErasingCalls : p \in caller[c].found
    BY DEF DataInv, GapsExplained, Explained, ErasingCalls
  <2> QED
    BY <2>1, <2>2 DEF FilesMatchObjects
<1> QED
  BY <1>1, DataHolds, PTL

\* A document or export that waits for a worker has its event or message
\* (request_document, request_export): none waits for good, unless a deletion dropped
\* the event of an export that was requested beside it.
THEOREM RequestsAreAwaited == Spec => []WaitingHasMessage
<1>1. DataInv => WaitingHasMessage
  BY DEF DataInv
<1> QED
  BY <1>1, DataHolds, PTL

-----------------------------------------------------------------------------
(* A deletion that nothing ran beside *)

\* A deletion at work is alone, and so are the requests that erase an artifact.
DeletionAlone ==
    \A k \in Worker : worker[k].job \in Scope =>
        /\ \A i \in Worker : i # k => worker[i] = Idle
        /\ \A c \in Caller : caller[c] = NoCall

RequestsAlone ==
    \A c \in Caller : caller[c].pc = "erasing" =>
        /\ \A k \in Worker : worker[k] = Idle
        /\ \A d \in caller[c].found \ caller[c].seen : d \notin objects

\* An object has its file row, was left by a fault, or is about to get its row.
ObjectsAccounted ==
    \A p \in objects :
        \/ p \in files \/ p \in torn
        \/ \E k \in Worker : worker[k].pc = "written" /\ worker[k].job = p

\* What a deletion has still to erase is on its list; then its list is all there is.
DeletionAhead ==
    \A k \in Worker :
        /\ worker[k].pc = "erasing" => objects \subseteq worker[k].seen \cup torn
        /\ worker[k].pc = "deleting" => objects \subseteq torn /\ Owned \subseteq worker[k].seen

\* A deleted account is empty and nobody is at work who could put something into it.
DeletedQuiet ==
    account = "DELETED" =>
        /\ \A c \in Caller : caller[c] = NoCall
        /\ \A k \in Worker : worker[k] = Idle \/ worker[k].job \in Scope
        /\ \A p \in Product : row[p] = "NONE"
        /\ files = {} /\ objects \subseteq torn

Orderly ==
    DeletionAlone /\ RequestsAlone /\ ObjectsAccounted /\ DeletionAhead /\ DeletedQuiet

ErasureInv == Typed /\ (~overlapped => Orderly)

-----------------------------------------------------------------------------
LEMMA ErasureInit == Init => ErasureInv
BY IdleTyped DEF Init, ErasureInv, Typed, Orderly, DeletionAlone, RequestsAlone, ObjectsAccounted,
   DeletionAhead, DeletedQuiet, RowStatus

\* A request that is under way by itself: no deletion is at work, no account is deleted.
LEMMA RequestMeansNoDeletion ==
    ASSUME Typed, Orderly, NEW c \in Caller, caller[c] # NoCall
    PROVE  /\ account # "DELETED"
           /\ \A k \in Worker : worker[k].job \notin Scope
           /\ \A k \in Worker : worker[k].pc \notin {"erasing", "deleting"}
BY DEF Typed, Orderly, DeletionAlone, DeletedQuiet, WorkerTyped

-----------------------------------------------------------------------------
(* Requests *)

LEMMA ErasureAuthenticate ==
    ASSUME ErasureInv, NEW c \in Caller, Authenticate(c)
    PROVE  ErasureInv'
<1> DEFINE x == [pc |-> "ready", seen |-> {}, found |-> {}]
<1>1. [caller[c] EXCEPT !.pc = "ready"] = x
  BY DEF Authenticate, NoCall
<1>2. caller' = [caller EXCEPT ![c] = x]
  <2>1. caller' = [caller EXCEPT ![c] = [caller[c] EXCEPT !.pc = "ready"]]
    BY DEF Authenticate
  <2> QED
    BY <1>1, <2>1
<1>3. CallTyped(x) /\ x.pc = "ready"
  BY DEF CallTyped, Call
<1> HIDE DEF x
<1>4. /\ caller' = [d \in Caller |-> caller'[d]]
      /\ \A d \in Caller : CallTyped(caller'[d])
      /\ caller'[c] = x /\ \A d \in Caller : d # c => caller'[d] = caller[d]
  BY <1>2, <1>3, CallerMoves DEF ErasureInv
<1>5. UNCHANGED <<account, row, files, objects, worker, torn>>
  BY DEF Authenticate, userData
<1>6. Typed'
  BY <1>4, <1>5 DEF ErasureInv, Typed
<1>7. ASSUME ~overlapped'
      PROVE  Orderly'
  <2>1. Orderly /\ ~DeletionAtWork /\ account = "ACTIVE"
    BY <1>7 DEF ErasureInv, Authenticate
  <2> QED
    BY <1>3, <1>4, <1>5, <2>1 DEF Orderly, DeletionAlone, RequestsAlone, ObjectsAccounted,
       DeletionAhead, DeletedQuiet, DeletionAtWork, Owned
<1> QED
  BY <1>6, <1>7 DEF ErasureInv

\* A request commits its rows.
LEMMA ErasureCommits ==
    ASSUME ErasureInv, NEW c \in Caller, Ready(c), row' \in [Product -> RowStatus],
           account' = account \/ account' = "DELETION_PENDING",
           UNCHANGED <<files, objects, worker, torn, overlapped>>
    PROVE  ErasureInv'
<1>1. /\ caller' = [d \in Caller |-> caller'[d]]
      /\ \A d \in Caller : CallTyped(caller'[d])
      /\ caller'[c] = NoCall /\ \A d \in Caller : d # c => caller'[d] = caller[d]
  BY IdleTyped, CallerMoves DEF ErasureInv, Ready, Return
<1>2. Typed'
  BY <1>1 DEF ErasureInv, Typed
<1>3. ASSUME ~overlapped'
      PROVE  Orderly'
  <2>1. Orderly /\ caller[c] # NoCall
    BY <1>3, IdleTyped DEF ErasureInv, Ready
  <2>2. /\ account # "DELETED"
        /\ \A k \in Worker : worker[k].job \notin Scope
        /\ \A k \in Worker : worker[k].pc \notin {"erasing", "deleting"}
    BY <2>1, RequestMeansNoDeletion DEF ErasureInv
  <2> QED
    BY <1>1, <2>1, <2>2, IdleTyped DEF Orderly, DeletionAlone, RequestsAlone,
       ObjectsAccounted, DeletionAhead, DeletedQuiet
<1> QED
  BY <1>2, <1>3 DEF ErasureInv

\* An artifact deletion goes on or ends, all workers being idle if nothing overlaps.
LEMMA ErasureErasing ==
    ASSUME ErasureInv, NEW c \in Caller, caller[c] # NoCall, NEW x, CallTyped(x),
           caller' = [caller EXCEPT ![c] = x],
           row' \in [Product -> RowStatus],
           objects' \subseteq objects, files' \subseteq files,
           UNCHANGED <<account, worker>>, overlapped => overlapped',
           ~overlapped' /\ Orderly =>
               /\ \A k \in Worker : worker[k] = Idle
               /\ objects' \subseteq files' \cup torn'
               /\ x.pc = "erasing" => \A d \in x.found \ x.seen : d \notin objects'
    PROVE  ErasureInv'
<1>1. /\ caller' = [d \in Caller |-> caller'[d]]
      /\ \A d \in Caller : CallTyped(caller'[d])
      /\ caller'[c] = x /\ \A d \in Caller : d # c => caller'[d] = caller[d]
  BY CallerMoves DEF ErasureInv
<1>2. Typed'
  BY <1>1 DEF ErasureInv, Typed
<1>3. ASSUME ~overlapped'
      PROVE  Orderly'
  <2>1. Orderly
    BY <1>3 DEF ErasureInv
  <2>2. /\ \A k \in Worker : worker[k] = Idle
        /\ objects' \subseteq files' \cup torn'
        /\ x.pc = "erasing" => \A d \in x.found \ x.seen : d \notin objects'
    BY <1>3, <2>1
  <2>3. account # "DELETED"
    BY <2>1, RequestMeansNoDeletion DEF ErasureInv
  <2>4. DeletionAlone' /\ DeletionAhead'
    BY <2>2, IdleTyped DEF DeletionAlone, DeletionAhead
  <2>5. RequestsAlone'
    BY <1>1, <2>1, <2>2 DEF Orderly, RequestsAlone
  <2>6. ObjectsAccounted' /\ DeletedQuiet'
    BY <2>2, <2>3 DEF ObjectsAccounted, DeletedQuiet
  <2> QED
    BY <2>4, <2>5, <2>6 DEF Orderly
<1> QED
  BY <1>2, <1>3 DEF ErasureInv

\* Without a worker at work, only a file row or a fault explains an object.
LEMMA AccountedWhenIdle ==
    ASSUME Orderly, \A k \in Worker : worker[k] = Idle
    PROVE  objects \subseteq files \cup torn
BY IdleTyped DEF Orderly, ObjectsAccounted

LEMMA ErasureUnderWay ==
    ASSUME Orderly, NEW c \in Caller, caller[c].pc = "erasing"
    PROVE  /\ \A k \in Worker : worker[k] = Idle
           /\ \A d \in caller[c].found \ caller[c].seen : d \notin objects
           /\ objects \subseteq files \cup torn
BY AccountedWhenIdle DEF Orderly, RequestsAlone

LEMMA ErasureRequest ==
    ASSUME ErasureInv, NEW c \in Caller, Request(c)
    PROVE  ErasureInv'
<1>1. Typed /\ CallTyped(caller[c]) /\ (overlapped \/ Orderly)
  BY DEF ErasureInv, Typed
<1>2. CASE Authenticate(c)
  BY <1>2, ErasureAuthenticate
<1>3. ASSUME NEW p \in Product, row' = [row EXCEPT ![p] = "QUEUED"], Ready(c),
             UNCHANGED <<account, files, objects, worker, torn, overlapped>>
      PROVE  ErasureInv'
  <2>1. row' \in [Product -> RowStatus]
    BY <1>1, <1>3 DEF Typed, RowStatus, Unfinished
  <2> QED
    BY <1>3, <2>1, ErasureCommits
<1>4. ASSUME NEW d \in Document, RequestDocument(c, d)
      PROVE  ErasureInv'
  BY <1>3, <1>4 DEF RequestDocument, Product, userData, history
<1>5. ASSUME NEW e \in Export, RequestExport(c, e)
      PROVE  ErasureInv'
  BY <1>3, <1>5 DEF RequestExport, Product, userData, history
<1>6. ASSUME NEW t \in Scope, RequestDeletion(c, t)
      PROVE  ErasureInv'
  BY <1>1, <1>6, ErasureCommits DEF RequestDeletion, history, Typed
<1>7. CASE ListDocuments(c)
  <2> DEFINE x == [pc |-> "erasing", seen |-> Document \cap files, found |-> Document \cap files]
  <2>1. CallTyped(x)
    BY DEF CallTyped, Call
  <2>2. caller[c] # NoCall
    BY <1>7, IdleTyped DEF ListDocuments
  <2>3. /\ caller' = [caller EXCEPT ![c] = x]
        /\ UNCHANGED <<account, row, files, objects, worker, torn>>
        /\ overlapped' = (overlapped \/ \E k \in Worker : worker[k] # Idle)
    BY <1>7 DEF ListDocuments, userData
  <2>4. x.found \ x.seen = {}
    OBVIOUS
  <2>5. row' \in [Product -> RowStatus]
    BY <1>1, <2>3 DEF Typed
  <2> HIDE DEF x
  <2> QED
    BY <2>1, <2>2, <2>3, <2>4, <2>5, AccountedWhenIdle, ErasureErasing
<1>8. CASE EraseDocument(c)
  <2>1. PICK d \in caller[c].seen : /\ objects' = objects \ {d}
                                    /\ caller' = [caller EXCEPT ![c].seen = @ \ {d}]
    BY <1>8 DEF EraseDocument
  <2> DEFINE x == [pc |-> "erasing", seen |-> caller[c].seen \ {d}, found |-> caller[c].found]
  <2>2. caller[c].pc = "erasing" /\ caller[c] \in Call /\ caller[c] # NoCall
    BY <1>1, <1>8, IdleTyped DEF EraseDocument, CallTyped
  <2>3. [caller[c] EXCEPT !.seen = @ \ {d}] = x
    BY <2>2 DEF Call
  <2>4. caller' = [caller EXCEPT ![c] = [caller[c] EXCEPT !.seen = @ \ {d}]]
    BY <2>1
  <2>5. CallTyped(x) /\ x.found = caller[c].found /\ x.seen = caller[c].seen \ {d}
    BY <2>2 DEF CallTyped, Call
  <2> HIDE DEF x
  <2>6. UNCHANGED <<account, row, files, worker, torn, overlapped>>
    BY <1>8 DEF EraseDocument, userData, history
  <2>7. row' \in [Product -> RowStatus]
    BY <1>1, <2>6 DEF Typed
  <2>8. Orderly =>
          /\ \A k \in Worker : worker[k] = Idle
          /\ objects' \subseteq files' \cup torn'
          /\ \A e \in x.found \ x.seen : e \notin objects'
    BY <2>1, <2>2, <2>5, <2>6, ErasureUnderWay
  <2> QED
    BY <2>1, <2>2, <2>3, <2>4, <2>5, <2>6, <2>7, <2>8, ErasureErasing
<1>9. CASE CommitArtifactDeletion(c)
  <2>1. /\ caller[c].pc = "erasing" /\ caller[c].seen = {} /\ caller[c] # NoCall
        /\ row' = [p \in Product |-> IF p \in Document THEN "NONE" ELSE row[p]]
        /\ files' = files \ caller[c].found
        /\ caller' = [caller EXCEPT ![c] = NoCall]
        /\ UNCHANGED <<account, objects, worker, torn, overlapped>>
    BY <1>9, IdleTyped DEF CommitArtifactDeletion, Return, history
  <2>2. row' \in [Product -> RowStatus]
    BY <1>1, <2>1 DEF Typed, RowStatus
  <2>3. Orderly => (\A k \in Worker : worker[k] = Idle) /\ objects' \subseteq files' \cup torn'
    BY <2>1, ErasureUnderWay
  <2> QED
    BY <2>1, <2>2, <2>3, IdleTyped, ErasureErasing
<1>10. CASE BreakArtifactDeletion(c)
  <2>1. /\ caller[c].pc = "erasing" /\ caller[c] # NoCall
        /\ torn \subseteq torn'
        /\ caller' = [caller EXCEPT ![c] = NoCall]
        /\ UNCHANGED <<account, row, files, objects, worker, overlapped>>
    BY <1>10, IdleTyped DEF BreakArtifactDeletion, Return, userData
  <2>2. row' \in [Product -> RowStatus]
    BY <1>1, <2>1 DEF Typed
  <2>3. Orderly => (\A k \in Worker : worker[k] = Idle) /\ objects' \subseteq files' \cup torn'
    BY <2>1, ErasureUnderWay
  <2> QED
    BY <2>1, <2>2, <2>3, IdleTyped, ErasureErasing
<1> QED
  BY <1>2, <1>4, <1>5, <1>6, <1>7, <1>8, <1>9, <1>10 DEF Request

-----------------------------------------------------------------------------
(* Workers *)

\* The step of a worker with a document or an export in hand.
LEMMA ProductStep ==
    ASSUME ErasureInv, NEW k \in Worker, worker[k] # Idle, worker[k].job \in Product,
           NEW w, WorkerTyped(w), w = Idle \/ w.job = worker[k].job,
           worker' = [worker EXCEPT ![k] = w],
           row' \in [Product -> RowStatus], files' \subseteq Product, objects' \subseteq Product,
           UNCHANGED <<account, caller, overlapped>>,
           Orderly => \A p \in objects' :
               \/ p \in files' \/ p \in torn'
               \/ w.pc = "written" /\ w.job = p
               \/ \E i \in Worker \ {k} : worker[i].pc = "written" /\ worker[i].job = p
    PROVE  ErasureInv'
<1>1. /\ DOMAIN worker' = Worker /\ worker' = [i \in Worker |-> worker'[i]]
      /\ \A i \in Worker : WorkerTyped(worker'[i])
      /\ worker'[k] = w /\ \A i \in Worker : i # k => worker'[i] = worker[i]
  BY WorkerMoves DEF ErasureInv
<1>2. Typed'
  BY <1>1 DEF ErasureInv, Typed
<1>3. ASSUME ~overlapped'
      PROVE  Orderly'
  <2>1. Orderly /\ worker[k].job \notin Scope
    BY <1>3 DEF ErasureInv
  <2>2. \A i \in Worker : worker[i].job \notin Scope
    BY <2>1 DEF Orderly, DeletionAlone
  <2>3. account # "DELETED"
    BY <2>1 DEF Orderly, DeletedQuiet
  <2>4. \A c \in Caller : caller[c].pc # "erasing"
    BY <2>1 DEF Orderly, RequestsAlone
  <2>5. \A i \in Worker : worker'[i].job \notin Scope /\ worker'[i].pc \notin {"erasing", "deleting"}
    BY <1>1, <2>1, <2>2, IdleTyped DEF WorkerTyped
  <2>6. DeletionAlone' /\ RequestsAlone' /\ DeletionAhead' /\ DeletedQuiet'
    BY <2>3, <2>4, <2>5 DEF DeletionAlone, RequestsAlone, DeletionAhead, DeletedQuiet
  <2>7. ObjectsAccounted'
    BY <1>1, <2>1 DEF ObjectsAccounted
  <2> QED
    BY <2>6, <2>7 DEF Orderly
<1> QED
  BY <1>2, <1>3 DEF ErasureInv

\* A deletion by itself: what there is of objects has its file row or was left by a fault.
LEMMA DeletionByItself ==
    ASSUME Orderly, NEW k \in Worker, worker[k].job \in Scope, worker[k].pc # "written"
    PROVE  /\ \A i \in Worker : i # k => worker[i] = Idle
           /\ \A c \in Caller : caller[c] = NoCall
           /\ objects \subseteq files \cup torn
BY IdleTyped DEF Orderly, DeletionAlone, ObjectsAccounted

\* The step of a deletion workflow.
LEMMA DeletionStep ==
    ASSUME ErasureInv, NEW k \in Worker, worker[k].job \in Scope, worker[k].pc # "written",
           NEW w, WorkerTyped(w), w.pc # "written", w = Idle \/ w.job = worker[k].job,
           worker' = [worker EXCEPT ![k] = w],
           row' \in [Product -> RowStatus], files' \subseteq Product, objects' \subseteq Product,
           UNCHANGED <<caller, overlapped>>,
           Orderly =>
             /\ objects' \subseteq files' \cup torn'
             /\ w.pc = "erasing" => objects' \subseteq w.seen \cup torn'
             /\ w.pc = "deleting" => objects' \subseteq torn' /\ Owned' \subseteq w.seen
             /\ account' = "DELETED" =>
                  /\ \A p \in Product : row'[p] = "NONE"
                  /\ files' = {} /\ objects' \subseteq torn'
    PROVE  ErasureInv'
<1>1. /\ DOMAIN worker' = Worker /\ worker' = [i \in Worker |-> worker'[i]]
      /\ \A i \in Worker : WorkerTyped(worker'[i])
      /\ worker'[k] = w /\ \A i \in Worker : i # k => worker'[i] = worker[i]
  BY WorkerMoves DEF ErasureInv
<1>2. Typed'
  BY <1>1 DEF ErasureInv, Typed
<1>3. ASSUME ~overlapped'
      PROVE  Orderly'
  <2>1. Orderly
    BY <1>3 DEF ErasureInv
  <2>2. /\ \A i \in Worker : i # k => worker'[i] = Idle
        /\ \A c \in Caller : caller'[c] = NoCall
    BY <1>1, <2>1, DeletionByItself
  <2>3. DeletionAlone' /\ RequestsAlone'
    BY <2>2, IdleTyped DEF DeletionAlone, RequestsAlone
  <2>4. DeletionAhead'
    BY <1>1, <2>1, <2>2, IdleTyped DEF DeletionAhead
  <2>5. ObjectsAccounted'
    BY <2>1 DEF ObjectsAccounted
  <2>6. DeletedQuiet'
    BY <1>1, <2>1, <2>2 DEF DeletedQuiet
  <2> QED
    BY <2>3, <2>4, <2>5, <2>6 DEF Orderly
<1> QED
  BY <1>2, <1>3 DEF ErasureInv

\* A message is received: by a deletion when nothing else is at work, by the worker of a
\* document or an export when no deletion is.
LEMMA ErasureLoad ==
    ASSUME ErasureInv, NEW k \in Worker, NEW j \in Job, Load(k, j),
           j \in Product => row[j] \in Unfinished
    PROVE  ErasureInv'
<1> DEFINE w == [pc |-> "loaded", job |-> j, seen |-> {}]
<1>1. WorkerTyped(w) /\ w.pc = "loaded" /\ w.job = j
  BY DEF WorkerTyped, Holding, Pc
<1>2. /\ worker[k] = Idle /\ worker' = [worker EXCEPT ![k] = w]
      /\ UNCHANGED <<account, row, files, objects, caller, torn>>
      /\ overlapped => overlapped'
  BY DEF Load, Receive, userData
<1> HIDE DEF w
<1>3. /\ DOMAIN worker' = Worker /\ worker' = [i \in Worker |-> worker'[i]]
      /\ \A i \in Worker : WorkerTyped(worker'[i])
      /\ worker'[k] = w /\ \A i \in Worker : i # k => worker'[i] = worker[i]
  BY <1>1, <1>2, WorkerMoves DEF ErasureInv
<1>4. Typed'
  BY <1>2, <1>3 DEF ErasureInv, Typed
<1>5. ASSUME ~overlapped'
      PROVE  Orderly'
  <2>1. Orderly
    BY <1>2, <1>5 DEF ErasureInv
  <2>2. ObjectsAccounted' /\ DeletionAhead'
    BY <1>1, <1>2, <1>3, <2>1, IdleTyped DEF Orderly, ObjectsAccounted, DeletionAhead, Owned
  <2>3. CASE j \in Scope
    <3>1. /\ \A i \in Worker : worker[i] = Idle
          /\ \A c \in Caller : caller[c] = NoCall
      BY <1>5, <2>3 DEF Load, Receive
    <3>2. DeletionAlone' /\ RequestsAlone' /\ DeletedQuiet'
      BY <1>1, <1>2, <1>3, <2>1, <2>3, <3>1, IdleTyped
         DEF Orderly, DeletionAlone, RequestsAlone, DeletedQuiet
    <3> QED
      BY <2>2, <3>2 DEF Orderly
  <2>4. CASE j \in Product
    <3>1. /\ \A i \in Worker : worker[i].job \notin Scope
          /\ \A c \in Caller : caller[c].pc # "erasing"
      BY <1>5, <2>4 DEF Load, Receive, DeletionAtWork, ErasingCalls
    <3>2. account # "DELETED"
      BY <2>1, <2>4 DEF Orderly, DeletedQuiet, Unfinished
    <3>3. DeletionAlone' /\ RequestsAlone' /\ DeletedQuiet'
      BY <1>1, <1>2, <1>3, <2>4, <3>1, <3>2 DEF DeletionAlone, RequestsAlone, DeletedQuiet
    <3> QED
      BY <2>2, <3>3 DEF Orderly
  <2> QED
    BY <2>3, <2>4 DEF Job
<1> QED
  BY <1>4, <1>5 DEF ErasureInv

LEMMA NothingMoves ==
    ASSUME ErasureInv, UNCHANGED <<account, row, files, objects, worker, caller, torn>>,
           overlapped => overlapped'
    PROVE  ErasureInv'
<1>1. Typed'
  BY DEF ErasureInv, Typed
<1>2. Orderly => Orderly'
  BY DEF Orderly, DeletionAlone, RequestsAlone, ObjectsAccounted, DeletionAhead, DeletedQuiet,
     Owned
<1> QED
  BY <1>1, <1>2 DEF ErasureInv

LEMMA ErasureDeliver ==
    ASSUME ErasureInv, NEW k \in Worker, Deliver(k)
    PROVE  ErasureInv'
<1>1. ASSUME NEW p \in Product, ProductMissing(k, p)
      PROVE  ErasureInv'
  BY <1>1, NothingMoves DEF ProductMissing, Receive, userData
<1>2. ASSUME NEW p \in Product, Load(k, p), row[p] \in Unfinished
      PROVE  ErasureInv'
  BY <1>2, ErasureLoad DEF Job
<1>3. ASSUME NEW t \in Scope, Load(k, t)
      PROVE  ErasureInv'
  <2>1. t \notin Product
    OBVIOUS
  <2> QED
    BY <1>3, <2>1, ErasureLoad DEF Job
<1> QED
  BY <1>1, <1>2, <1>3 DEF Deliver, LoadDocument, LoadExport, LoadDeletion, Product

LEMMA ProductWork ==
    ASSUME ErasureInv, NEW k \in Worker, worker[k].job \in Product,
           \/ RowGone(k) \/ CommitRunning(k) \/ WriteDocument(k) \/ WriteExport(k)
           \/ RenderFails(k) \/ ExportFails(k) \/ CommitProduct(k) \/ Crash(k)
    PROVE  ErasureInv'
<1> DEFINE p == worker[k].job
<1>1. Typed /\ WorkerTyped(worker[k]) /\ worker[k] \in Holding
  BY DEF ErasureInv, Typed, WorkerTyped
<1>2. ASSUME worker[k] # Idle
      PROVE  worker[k].pc \notin {"idle", "erasing", "deleting"}
  BY <1>1, <1>2 DEF WorkerTyped
<1>3. Orderly => \A q \in objects : \/ q \in files \/ q \in torn
                                    \/ worker[k].pc = "written" /\ q = p
                                    \/ \E i \in Worker \ {k} : worker[i].pc = "written" /\ worker[i].job = q
  BY DEF Orderly, ObjectsAccounted
<1>4. ASSUME worker[k] # Idle, worker' = [worker EXCEPT ![k] = Idle],
             row' \in [Product -> RowStatus], UNCHANGED <<account, caller, overlapped, files, objects>>,
             torn' = (IF worker[k].pc = "written" THEN torn \cup {p} ELSE torn)
      PROVE  ErasureInv'
  BY <1>1, <1>3, <1>4, IdleTyped, ProductStep DEF Typed
<1>5. CASE RowGone(k) \/ Crash(k)
  <2>1. CASE worker[k] # Idle
    <3>1. row' \in [Product -> RowStatus]
      BY <1>1, <1>5 DEF RowGone, Crash, Typed
    <3> QED
      BY <1>4, <1>5, <2>1, <3>1 DEF RowGone, Crash, At, Finish, userData
  <2>2. CASE worker[k] = Idle
    <3>1. RowGone(k) /\ worker' = worker
      BY <1>1, <1>5, <2>2 DEF RowGone, Crash, Finish, Typed
    <3>2. worker[k].pc # "written"
      BY <2>2, IdleTyped
    <3> QED
      BY <3>1, <3>2, NothingMoves DEF RowGone, At, userData
  <2> QED
    BY <2>1, <2>2
<1>6. CASE CommitRunning(k)
  <2>1. /\ worker[k].pc = "loaded" /\ SetStatus(k, "RUNNING")
        /\ worker' = [worker EXCEPT ![k] = To(k, "running", worker[k].seen)]
        /\ UNCHANGED <<account, files, objects, caller, torn, overlapped>>
    BY <1>1, <1>6, WorkerUpdates DEF CommitRunning, At, userData, history
  <2>2. worker[k] # Idle /\ row' \in [Product -> RowStatus]
    BY <1>1, <2>1, IdleTyped, StatusSet DEF RowStatus, Unfinished
  <2>3. WorkerTyped(To(k, "running", worker[k].seen)) /\ To(k, "running", worker[k].seen).job = p
    BY <1>1 DEF WorkerTyped, Holding, To, Pc
  <2>4. Orderly => \A q \in objects' : \/ q \in files' \/ q \in torn'
                                       \/ \E i \in Worker \ {k} : worker[i].pc = "written" /\ worker[i].job = q
    BY <1>3, <2>1
  <2> QED
    BY <1>1, <2>1, <2>2, <2>3, <2>4, ProductStep DEF Typed
<1>7. CASE WriteDocument(k) \/ WriteExport(k)
  <2>1. /\ worker[k].pc = "running" /\ objects' = objects \cup {p}
        /\ worker' = [worker EXCEPT ![k] = To(k, "written", worker[k].seen)]
        /\ UNCHANGED <<account, row, files, caller, torn, overlapped>>
    BY <1>1, <1>7, WorkerUpdates
       DEF WriteDocument, WriteExport, WriteObject, At, userData, history
  <2>2. worker[k] # Idle
    BY <2>1, IdleTyped
  <2>3. /\ WorkerTyped(To(k, "written", worker[k].seen))
        /\ To(k, "written", worker[k].seen).job = p /\ To(k, "written", worker[k].seen).pc = "written"
    BY <1>1 DEF WorkerTyped, Holding, To, Pc
  <2>4. Orderly => \A q \in objects' : \/ q \in files' \/ q \in torn' \/ q = p
                                       \/ \E i \in Worker \ {k} : worker[i].pc = "written" /\ worker[i].job = q
    BY <1>3, <2>1
  <2> QED
    BY <1>1, <2>1, <2>2, <2>3, <2>4, ProductStep DEF Typed
<1>8. CASE RenderFails(k) \/ ExportFails(k)
  <2>1. /\ worker[k].pc = "running" /\ worker' = [worker EXCEPT ![k] = Idle]
        /\ SetStatus(k, "PERMANENT_FAILED") \/ SetStatus(k, "RETRYABLE_FAILED")
        /\ UNCHANGED <<account, files, objects, caller, torn, overlapped>>
    BY <1>8 DEF RenderFails, ExportFails, At, Finish, userData, history
  <2>2. worker[k] # Idle /\ row' \in [Product -> RowStatus]
    BY <1>1, <2>1, IdleTyped, StatusSet DEF RowStatus, Unfinished
  <2> QED
    BY <1>4, <2>1, <2>2
<1>9. CASE CommitProduct(k)
  <2>1. /\ worker[k].pc = "written" /\ worker' = [worker EXCEPT ![k] = Idle]
        /\ SetStatus(k, "SUCCEEDED")
        /\ files' = files \cup {p} /\ torn' = torn \ {p}
        /\ UNCHANGED <<account, objects, caller, overlapped>>
    BY <1>9 DEF CommitProduct, At, Finish, userData
  <2>2. worker[k] # Idle /\ row' \in [Product -> RowStatus]
    BY <1>1, <2>1, IdleTyped, StatusSet DEF RowStatus
  <2>3. Orderly => \A q \in objects' : \/ q \in files' \/ q \in torn'
                                       \/ \E i \in Worker \ {k} : worker[i].pc = "written" /\ worker[i].job = q
    BY <1>3, <2>1
  <2> QED
    BY <1>1, <2>1, <2>2, <2>3, IdleTyped, ProductStep DEF Typed
<1> QED
  BY <1>5, <1>6, <1>7, <1>8, <1>9

LEMMA DeletionWork ==
    ASSUME ErasureInv, NEW k \in Worker, worker[k].job \in Scope,
           \/ StartDeletion(k) \/ EraseFile(k) \/ EraseFails(k)
           \/ DeleteRows(k) \/ FinishDeletion(k) \/ Crash(k)
    PROVE  ErasureInv'
<1>1. Typed /\ WorkerTyped(worker[k]) /\ worker[k] \in Holding
  BY DEF ErasureInv, Typed, WorkerTyped
<1>2. worker[k] # Idle /\ worker[k].pc \notin {"running", "written"}
  BY <1>1, IdleTyped DEF WorkerTyped
<1>3. Orderly => objects \subseteq files \cup torn
  BY <1>2, DeletionByItself
<1>4. Orderly /\ account = "DELETED" =>
        /\ \A p \in Product : row[p] = "NONE"
        /\ files = {} /\ objects \subseteq torn
  BY DEF Orderly, DeletedQuiet
<1>5. CASE StartDeletion(k)
  <2> DEFINE w == To(k, "erasing", files)
  <2>1. /\ worker' = [worker EXCEPT ![k] = w]
        /\ UNCHANGED <<account, row, files, objects, caller, torn, overlapped>>
    <3>1. Both(k, "erasing", files) = Moved(k, "erasing", files)
      BY <1>1, WorkerUpdates
    <3>2. [worker EXCEPT ![k].pc = "erasing", ![k].seen = files] = [worker EXCEPT ![k] = w]
      BY <3>1 DEF Both, Moved
    <3> HIDE DEF w
    <3> QED
      BY <1>5, <3>2 DEF StartDeletion, userData, history
  <2>2. WorkerTyped(w) /\ w.pc = "erasing" /\ w.job = worker[k].job /\ w.seen = files
    BY <1>1 DEF WorkerTyped, Holding, To, Pc, Typed
  <2> HIDE DEF w
  <2> QED
    BY <1>1, <1>2, <1>3, <1>4, <2>1, <2>2, DeletionStep DEF Typed
<1>6. CASE EraseFile(k)
  <2>1. PICK p \in worker[k].seen : /\ objects' = objects \ {p}
                                    /\ worker' = [worker EXCEPT ![k].seen = @ \ {p}]
    BY <1>6 DEF EraseFile
  <2> DEFINE w == To(k, worker[k].pc, worker[k].seen \ {p})
  <2>2. /\ worker[k].pc = "erasing" /\ worker' = [worker EXCEPT ![k] = w]
        /\ UNCHANGED <<account, row, files, caller, torn, overlapped>>
    BY <1>1, <1>6, <2>1, WorkerUpdates DEF EraseFile, At, userData, history
  <2>3. /\ WorkerTyped(w) /\ w.pc = "erasing" /\ w.job = worker[k].job
        /\ w.seen = worker[k].seen \ {p}
    BY <1>1, <2>2 DEF WorkerTyped, Holding, To, Pc
  <2>4. Orderly => objects' \subseteq w.seen \cup torn'
    BY <2>1, <2>2, <2>3 DEF Orderly, DeletionAhead
  <2> HIDE DEF w
  <2> QED
    BY <1>1, <1>2, <1>3, <1>4, <2>1, <2>2, <2>3, <2>4, DeletionStep DEF Typed
<1>7. CASE EraseFails(k) \/ Crash(k)
  <2>1. /\ worker' = [worker EXCEPT ![k] = Idle] /\ torn' = torn
        /\ UNCHANGED <<account, row, files, objects, caller, overlapped>>
    BY <1>2, <1>7 DEF EraseFails, Crash, At, Finish, userData, history
  <2> QED
    BY <1>1, <1>2, <1>3, <1>4, <2>1, IdleTyped, DeletionStep DEF Typed
<1>8. CASE DeleteRows(k)
  <2> DEFINE w == To(k, "deleting", Owned)
  <2>1. /\ worker[k].pc = "erasing" /\ worker[k].seen = {}
        /\ worker' = [worker EXCEPT ![k] = w]
        /\ UNCHANGED <<account, row, files, objects, caller, torn, overlapped>>
    <3>1. Both(k, "deleting", Owned) = Moved(k, "deleting", Owned)
      BY <1>1, WorkerUpdates
    <3>2. [worker EXCEPT ![k].pc = "deleting", ![k].seen = Owned] = [worker EXCEPT ![k] = w]
      BY <3>1 DEF Both, Moved
    <3> HIDE DEF w
    <3> QED
      BY <1>8, <3>2 DEF DeleteRows, At, userData, history
  <2>2. Owned \subseteq Product /\ Owned' = Owned
    BY <1>1, <2>1 DEF Typed, Owned
  <2>3. WorkerTyped(w) /\ w.pc = "deleting" /\ w.job = worker[k].job /\ w.seen = Owned
    BY <1>1, <2>1, <2>2 DEF WorkerTyped, Holding, To, Pc
  <2>4. Orderly => objects \subseteq torn
    BY <2>1 DEF Orderly, DeletionAhead
  <2> HIDE DEF w
  <2> QED
    BY <1>1, <1>2, <1>3, <1>4, <2>1, <2>2, <2>3, <2>4, DeletionStep DEF Typed
<1>9. CASE FinishDeletion(k)
  <2> DEFINE gone == worker[k].seen
  <2>1. /\ worker[k].pc = "deleting"
        /\ row' = [p \in Product |-> IF p \in gone THEN "NONE" ELSE row[p]]
        /\ files' = files \ gone
        /\ worker' = [worker EXCEPT ![k] = Idle]
        /\ UNCHANGED <<objects, caller, torn, overlapped>>
    BY <1>9 DEF FinishDeletion, At, Finish
  <2>2. row' \in [Product -> RowStatus]
    BY <1>1, <2>1 DEF Typed, RowStatus
  <2>3. Orderly => objects \subseteq torn /\ Owned \subseteq gone
    BY <2>1 DEF Orderly, DeletionAhead
  <2>4. Orderly => files' = {} /\ \A p \in Product : row'[p] = "NONE"
    BY <1>1, <2>1, <2>3 DEF Owned
  <2> QED
    BY <1>1, <1>2, <2>1, <2>2, <2>3, <2>4, IdleTyped, DeletionStep DEF Typed
<1> QED
  BY <1>5, <1>6, <1>7, <1>8, <1>9

LEMMA ErasureWork ==
    ASSUME ErasureInv, NEW k \in Worker, Work(k) \/ Crash(k)
    PROVE  ErasureInv'
<1>1. WorkerTyped(worker[k])
  BY DEF ErasureInv, Typed
<1>2. CASE \/ RowGone(k) \/ CommitRunning(k) \/ WriteDocument(k) \/ WriteExport(k)
           \/ RenderFails(k) \/ ExportFails(k) \/ CommitProduct(k)
  <2>1. worker[k].job \in Product
    BY <1>1, <1>2 DEF RowGone, CommitRunning, WriteDocument, WriteExport, RenderFails,
       ExportFails, CommitProduct, At, WorkerTyped, Product
  <2> QED
    BY <1>2, <2>1, ProductWork
<1>3. CASE \/ StartDeletion(k) \/ EraseFile(k) \/ EraseFails(k) \/ DeleteRows(k)
           \/ FinishDeletion(k)
  <2>1. worker[k].job \in Scope
    BY <1>1, <1>3 DEF StartDeletion, EraseFile, EraseFails, DeleteRows, FinishDeletion, At,
       WorkerTyped
  <2> QED
    BY <1>3, <2>1, DeletionWork
<1>4. CASE Crash(k)
  <2>1. worker[k].job \in Product \cup Scope
    BY <1>1, <1>4 DEF Crash, WorkerTyped, Holding, Pc, Job
  <2> QED
    BY <1>4, <2>1, ProductWork, DeletionWork
<1> QED
  BY <1>2, <1>3, <1>4 DEF Work

-----------------------------------------------------------------------------
LEMMA ErasureStep == ErasureInv /\ [Next]_vars => ErasureInv'
<1> SUFFICES ASSUME ErasureInv, [Next]_vars
             PROVE  ErasureInv'
  OBVIOUS
<1>1. CASE UNCHANGED vars
  BY <1>1, NothingMoves DEF vars
<1>2. ASSUME NEW j \in Job, Publish(j)
      PROVE  ErasureInv'
  BY <1>2, NothingMoves DEF Publish, userData, history
<1>3. CASE Next
  BY <1>2, <1>3, ErasureRequest, ErasureDeliver, ErasureWork DEF Next
<1> QED
  BY <1>1, <1>3

\* When DeletionProcessor has deleted an account and nothing ran beside it, no row, file
\* row or object of the user is left, but for objects that a fault left before.
THEOREM ErasedForGood == Spec => []AccountErased
<1>1. ErasureInv => AccountErased
  BY DEF ErasureInv, AccountErased, Orderly, DeletedQuiet
<1> QED
  BY <1>1, ErasureInit, ErasureStep, PTL DEF Spec

-----------------------------------------------------------------------------
(* What was removed stays removed *)

\* The functions the actions update, and who can hold an object that was written.
RevivalTyped ==
    /\ row \in [Product -> Unfinished \cup {"NONE", "SUCCEEDED", "PERMANENT_FAILED"}]
    /\ message \in [Job -> {"UNSENT", "DROPPED", "ACKED"} \cup Queued]
    /\ worker \in [Worker -> [pc : Pc, job : Job \cup {"NONE"}, seen : SUBSET Product]]
    /\ files \subseteq Product /\ purged \subseteq Product
    /\ \A k \in Worker : worker[k].pc = "written" => worker[k].job \in Product

Sent(p) == message[p] # "UNSENT"

\* Whatever has or had a row has its event sent.
RowIsSent == \A p \in Product : row[p] # "NONE" \/ p \in files \/ p \in purged => Sent(p)

\* So has what a worker is about to delete.
DeletedIsSent ==
    \A k \in Worker : worker[k].pc = "deleting" => \A p \in worker[k].seen : Sent(p)

RevivalInv == RevivalTyped /\ RowIsSent /\ DeletedIsSent /\ NoRevival

-----------------------------------------------------------------------------
LEMMA RevivalInit == Init => RevivalInv
BY DEF Init, RevivalInv, RevivalTyped, RowIsSent, DeletedIsSent, NoRevival, Idle, Product, Job, Pc, Sent

\* Rows, file rows and what was purged stay, events are not taken back and no deletion
\* begins: the rest of the invariant follows.
LEMMA Undisturbed ==
    ASSUME RevivalInv, RevivalTyped',
           UNCHANGED <<files, purged>>,
           \A p \in Product : row'[p] # "NONE" => row[p] # "NONE",
           \A p \in Product : Sent(p) => Sent(p)',
           \A k \in Worker : worker'[k].pc = "deleting" => worker'[k] = worker[k]
    PROVE  RevivalInv'
<1>1. RowIsSent'
  BY DEF RevivalInv, RowIsSent
<1>2. DeletedIsSent'
  BY DEF RevivalInv, DeletedIsSent, RevivalTyped
<1>3. NoRevival'
  BY DEF RevivalInv, NoRevival, RevivalTyped
<1> QED
  BY <1>1, <1>2, <1>3 DEF RevivalInv

-----------------------------------------------------------------------------
(* Requests and the pump *)

LEMMA RevivalRequest ==
    ASSUME RevivalInv, NEW c \in Caller, Request(c)
    PROVE  RevivalInv'
<1> USE DEF RevivalInv
<1>1. CASE Authenticate(c) \/ ListDocuments(c) \/ EraseDocument(c) \/ BreakArtifactDeletion(c)
  <2>1. UNCHANGED <<row, files, message, worker, purged>>
    BY <1>1 DEF Authenticate, ListDocuments, EraseDocument, BreakArtifactDeletion, queue,
                history
  <2>2. RevivalTyped'
    BY <2>1 DEF RevivalTyped
  <2> QED
    BY <2>1, <2>2, Undisturbed DEF Sent
<1>2. ASSUME NEW p \in Product, message[p] = "UNSENT",
             row' = [row EXCEPT ![p] = "QUEUED"], Send(p),
             UNCHANGED <<files, worker, purged>>
      PROVE  RevivalInv'
  <2>1. p \in Job /\ p \notin purged
    BY <1>2 DEF Job, RowIsSent, Sent
  <2>2. RevivalTyped'
    BY <1>2, <2>1 DEF RevivalTyped, Send, Unfinished, Queued
  <2>3. Sent(p)' /\ \A q \in Product : Sent(q) => Sent(q)'
    BY <1>2, <2>1 DEF RevivalTyped, Send, Sent, Job
  <2>4. \A q \in Product : q # p => row'[q] = row[q]
    BY <1>2 DEF RevivalTyped
  <2>5. RowIsSent'
    BY <1>2, <2>3, <2>4 DEF RowIsSent
  <2>6. DeletedIsSent'
    BY <1>2, <2>3 DEF DeletedIsSent, RevivalTyped
  <2>7. NoRevival'
    BY <1>2, <2>1, <2>4 DEF NoRevival, RevivalTyped
  <2> QED
    BY <2>2, <2>5, <2>6, <2>7
<1>3. ASSUME NEW d \in Document, RequestDocument(c, d)
      PROVE  RevivalInv'
  BY <1>2, <1>3 DEF RequestDocument, Product, history
<1>4. ASSUME NEW e \in Export, RequestExport(c, e)
      PROVE  RevivalInv'
  BY <1>2, <1>4 DEF RequestExport, Product, history
<1>5. ASSUME NEW s \in Scope, RequestDeletion(c, s)
      PROVE  RevivalInv'
  <2>1. Send(s) /\ s \in Job /\ UNCHANGED <<row, files, worker, purged>>
    BY <1>5 DEF RequestDeletion, history, Job
  <2>2. RevivalTyped'
    BY <2>1 DEF RevivalTyped, Send, Queued
  <2>3. \A p \in Product : Sent(p) => Sent(p)'
    BY <2>1 DEF RevivalTyped, Send, Sent, Job
  <2> QED
    BY <2>1, <2>2, <2>3, Undisturbed
<1>6. CASE CommitArtifactDeletion(c)
  <2>1. /\ row' = [p \in Product |-> IF p \in Document THEN "NONE" ELSE row[p]]
        /\ files' \subseteq files
        /\ UNCHANGED <<message, worker, purged>>
    BY <1>6 DEF CommitArtifactDeletion, queue, history
  <2> QED
    BY <2>1 DEF RevivalTyped, RowIsSent, DeletedIsSent, NoRevival, Sent
<1> QED
  BY <1>1, <1>3, <1>4, <1>5, <1>6 DEF Request

LEMMA RevivalPublish ==
    ASSUME RevivalInv, NEW j \in Job, Publish(j)
    PROVE  RevivalInv'
<1>1. /\ message' = [message EXCEPT ![j] = "VISIBLE"]
      /\ UNCHANGED <<row, files, worker, purged>>
  BY DEF Publish, history
<1>2. RevivalTyped'
  BY <1>1 DEF RevivalInv, RevivalTyped, Queued
<1>3. \A p \in Product : Sent(p) => Sent(p)'
  BY <1>1 DEF RevivalInv, RevivalTyped, Sent, Job
<1> QED
  BY <1>1, <1>2, <1>3, Undisturbed

-----------------------------------------------------------------------------
(* Workers *)

\* What a message may become once it was sent.
Returned == {"VISIBLE", "INFLIGHT", "DLQ", "ACKED"}

\* A worker's step that adds no file row: it sets the status of a row there is, moves
\* its own message and goes on, but not to the deletion of rows.
LEMMA OrdinaryStep ==
    ASSUME RevivalInv, NEW k \in Worker,
           NEW j, NEW w \in [pc : Pc \ {"deleting"}, job : Job \cup {"NONE"},
                                     seen : SUBSET Product],
           w.pc = "written" => w.job \in Product,
           worker' = [worker EXCEPT ![k] = w],
           \/ UNCHANGED message
           \/ \E x \in Returned : message' = [message EXCEPT ![j] = x],
           row' \in [Product -> Unfinished \cup {"NONE", "SUCCEEDED", "PERMANENT_FAILED"}],
           \A p \in Product : row'[p] # "NONE" => row[p] # "NONE",
           UNCHANGED <<files, purged>>
    PROVE  RevivalInv'
<1>1. worker' \in [Worker -> [pc : Pc, job : Job \cup {"NONE"}, seen : SUBSET Product]]
  BY DEF RevivalInv, RevivalTyped
<1>2. message' \in [Job -> {"UNSENT", "DROPPED", "ACKED"} \cup Queued]
  BY DEF RevivalInv, RevivalTyped, Queued, Returned
<1>3. RevivalTyped'
  BY <1>1, <1>2 DEF RevivalInv, RevivalTyped
<1>4. \A p \in Product : Sent(p) => Sent(p)'
  BY DEF RevivalInv, RevivalTyped, Sent, Job, Returned
<1>5. \A i \in Worker : worker'[i].pc = "deleting" => worker'[i] = worker[i]
  BY DEF RevivalInv, RevivalTyped
<1> QED
  BY <1>3, <1>4, <1>5, Undisturbed

\* What Receive, Raise and Acknowledge do to the message of a worker's job.
LEMMA MessageMoves ==
    ASSUME NEW j, Raise(j) \/ Acknowledge(j)
    PROVE  \E x \in Returned : message' = [message EXCEPT ![j] = x]
BY DEF Raise, Acknowledge, Returned

LEMMA RevivalDeliver ==
    ASSUME RevivalInv, NEW k \in Worker, Deliver(k)
    PROVE  RevivalInv'
<1>1. ASSUME NEW j \in Job, Load(k, j)
      PROVE  RevivalInv'
  <2> DEFINE w == [pc |-> "loaded", job |-> j, seen |-> {}]
  <2>1. w \in [pc : Pc \ {"deleting"}, job : Job \cup {"NONE"}, seen : SUBSET Product]
    BY DEF Pc
  <2>2. /\ worker' = [worker EXCEPT ![k] = w]
        /\ message' = [message EXCEPT ![j] = "INFLIGHT"]
        /\ UNCHANGED <<row, files, purged>>
    BY <1>1 DEF Load
  <2>3. "INFLIGHT" \in Returned
    BY DEF Returned
  <2>4. row' \in [Product -> Unfinished \cup {"NONE", "SUCCEEDED", "PERMANENT_FAILED"}]
    BY <2>2 DEF RevivalInv, RevivalTyped
  <2> QED
    BY <2>1, <2>2, <2>3, <2>4, OrdinaryStep
<1>2. ASSUME NEW p \in Product, ProductMissing(k, p)
      PROVE  RevivalInv'
  <2>1. p \in Job /\ UNCHANGED <<row, files, worker, purged>>
    BY <1>2 DEF ProductMissing, Job
  <2>2. PICK x \in Returned : message' = [message EXCEPT ![p] = x]
    BY <1>2, <2>1, MessageMoves DEF ProductMissing
  <2>3. RevivalTyped'
    BY <2>1, <2>2 DEF RevivalInv, RevivalTyped, Returned, Queued
  <2>4. \A q \in Product : Sent(q) => Sent(q)'
    BY <2>1, <2>2 DEF RevivalInv, RevivalTyped, Sent, Returned, Job
  <2> QED
    BY <2>1, <2>3, <2>4, Undisturbed
<1> QED
  BY <1>1, <1>2 DEF Deliver, LoadDocument, LoadExport, LoadDeletion, Product, Job

\* A worker that is done with its job, whatever it reports to the queue.
LEMMA Finishes ==
    ASSUME RevivalInv, NEW k \in Worker, Finish(k),
           Raise(worker[k].job) \/ Acknowledge(worker[k].job),
           row' \in [Product -> Unfinished \cup {"NONE", "SUCCEEDED", "PERMANENT_FAILED"}],
           \A p \in Product : row'[p] # "NONE" => row[p] # "NONE",
           UNCHANGED <<files, purged>>
    PROVE  RevivalInv'
<1>1. Idle \in [pc : Pc \ {"deleting"}, job : Job \cup {"NONE"}, seen : SUBSET Product]
  BY DEF Idle, Pc
<1>2. worker' = [worker EXCEPT ![k] = Idle] /\ Idle.pc # "written"
  BY DEF Finish, Idle
<1> QED
  BY <1>1, <1>2, MessageMoves, OrdinaryStep

\* A worker that goes on with its job.
LEMMA GoesOn ==
    ASSUME RevivalInv, NEW k \in Worker, NEW p \in Pc \ {"deleting"}, NEW seen \in SUBSET Product,
           p = "written" => worker[k].job \in Product,
           worker' = [worker EXCEPT ![k] = [pc |-> p, job |-> worker[k].job, seen |-> seen]],
           row' \in [Product -> Unfinished \cup {"NONE", "SUCCEEDED", "PERMANENT_FAILED"}],
           \A q \in Product : row'[q] # "NONE" => row[q] # "NONE",
           UNCHANGED <<files, purged, message>>
    PROVE  RevivalInv'
<1> DEFINE w == [pc |-> p, job |-> worker[k].job, seen |-> seen]
<1>1. w \in [pc : Pc \ {"deleting"}, job : Job \cup {"NONE"}, seen : SUBSET Product]
  BY DEF RevivalInv, RevivalTyped
<1>2. w.pc = "written" => w.job \in Product
  OBVIOUS
<1> QED
  BY <1>1, <1>2, OrdinaryStep

\* Only a row that is there changes its status.
LEMMA RowKept ==
    ASSUME RevivalTyped, NEW k \in Worker, NEW s \in RowStatus, SetStatus(k, s)
    PROVE  /\ row' \in [Product -> RowStatus]
           /\ \A p \in Product : row'[p] # "NONE" => row[p] # "NONE"
BY DEF RevivalTyped, SetStatus, RowStatus

LEMMA RevivalWork ==
    ASSUME RevivalInv, NEW k \in Worker, Work(k) \/ Crash(k)
    PROVE  RevivalInv'
<1> USE DEF RowStatus
<1>1. RevivalTyped /\ worker[k].seen \in SUBSET Product
  BY DEF RevivalInv, RevivalTyped
<1> DEFINE Held(p, seen) == [pc |-> p, job |-> worker[k].job, seen |-> seen]
<1>0. \A p, seen :
         /\ [worker EXCEPT ![k].pc = p] = [worker EXCEPT ![k] = Held(p, worker[k].seen)]
         /\ [worker EXCEPT ![k].pc = p, ![k].seen = seen] = [worker EXCEPT ![k] = Held(p, seen)]
  <2> TAKE p, seen
  <2> DEFINE mid == [worker EXCEPT ![k].pc = p]
  <2>1. /\ worker[k] \in [pc : Pc, job : Job \cup {"NONE"}, seen : SUBSET Product]
        /\ worker = [i \in Worker |-> worker[i]]
    BY <1>1 DEF RevivalTyped
  <2>2. [worker[k] EXCEPT !.pc = p] = Held(p, worker[k].seen)
    BY <2>1
  <2>3. mid = [worker EXCEPT ![k] = Held(p, worker[k].seen)]
    BY <2>2
  <2>4. mid[k] = Held(p, worker[k].seen) /\ [mid[k] EXCEPT !.seen = seen] = Held(p, seen)
    <3>1. [Held(p, worker[k].seen) EXCEPT !.seen = seen] = Held(p, seen)
      OBVIOUS
    <3> HIDE DEF mid, Held
    <3>2. mid[k] = Held(p, worker[k].seen)
      BY <2>1, <2>3
    <3> QED
      BY <3>1, <3>2
  <2>5. [mid EXCEPT ![k].seen = seen] = [worker EXCEPT ![k] = Held(p, seen)]
    <3> HIDE DEF mid, Held
    <3>1. [mid EXCEPT ![k].seen = seen] = [mid EXCEPT ![k] = Held(p, seen)]
      BY <2>4
    <3> QED
      BY <2>1, <2>3, <3>1
  <2> QED
    BY <2>3, <2>5
<1>2. CASE RowGone(k) \/ EraseFails(k) \/ Crash(k)
  <2>1. /\ Finish(k)
        /\ Raise(worker[k].job)
        /\ UNCHANGED <<row, files, purged>>
    BY <1>2 DEF RowGone, EraseFails, Crash, history
  <2> QED
    BY <1>1, <2>1, Finishes DEF RevivalTyped
<1>3. CASE RenderFails(k) \/ ExportFails(k)
  <2>1. /\ Finish(k)
        /\ Raise(worker[k].job) \/ Acknowledge(worker[k].job)
        /\ SetStatus(k, "PERMANENT_FAILED") \/ SetStatus(k, "RETRYABLE_FAILED")
        /\ UNCHANGED <<files, purged>>
    BY <1>3 DEF RenderFails, ExportFails, history
  <2>2. /\ row' \in [Product -> RowStatus]
        /\ \A p \in Product : row'[p] # "NONE" => row[p] # "NONE"
    BY <1>1, <2>1, RowKept DEF Unfinished
  <2> QED
    BY <2>1, <2>2, Finishes
<1>4. CASE CommitRunning(k)
  <2>1. /\ SetStatus(k, "RUNNING")
        /\ worker' = [worker EXCEPT ![k] = Held("running", worker[k].seen)]
        /\ UNCHANGED <<files, purged, message>>
    BY <1>0, <1>4 DEF CommitRunning, history, queue
  <2>2. /\ row' \in [Product -> RowStatus]
        /\ \A p \in Product : row'[p] # "NONE" => row[p] # "NONE"
    BY <1>1, <2>1, RowKept DEF Unfinished
  <2>3. "running" \in Pc \ {"deleting"} /\ "running" # "written"
    BY DEF Pc
  <2> QED
    BY <1>1, <2>1, <2>2, <2>3, GoesOn
<1>5. CASE WriteDocument(k) \/ WriteExport(k)
  <2>1. /\ worker[k].job \in Product
        /\ worker' = [worker EXCEPT ![k] = [pc |-> "written", job |-> worker[k].job,
                                           seen |-> worker[k].seen]]
        /\ UNCHANGED <<row, files, purged, message>>
    BY <1>1, <1>5 DEF WriteDocument, WriteExport, WriteObject, history, queue, RevivalTyped, Product
  <2> QED
    BY <1>1, <2>1, GoesOn DEF Pc, RevivalTyped
<1>6. CASE StartDeletion(k)
  <2>1. /\ files \in SUBSET Product
        /\ worker' = [worker EXCEPT ![k] = Held("erasing", files)]
        /\ UNCHANGED <<row, files, purged, message>>
    BY <1>0, <1>1, <1>6 DEF StartDeletion, history, queue, RevivalTyped
  <2>2. "erasing" \in Pc \ {"deleting"} /\ "erasing" # "written"
    BY DEF Pc
  <2>3. /\ row' \in [Product -> Unfinished \cup {"NONE", "SUCCEEDED", "PERMANENT_FAILED"}]
        /\ \A q \in Product : row'[q] # "NONE" => row[q] # "NONE"
    BY <1>1, <2>1 DEF RevivalTyped
  <2> QED
    BY <2>1, <2>2, <2>3, GoesOn
<1>7. CASE EraseFile(k)
  <2>1. PICK p \in worker[k].seen : worker' = [worker EXCEPT ![k].seen = @ \ {p}]
    BY <1>7 DEF EraseFile
  <2>2. /\ worker[k].seen \ {p} \in SUBSET Product
        /\ worker' = [worker EXCEPT ![k] = [pc |-> "erasing", job |-> worker[k].job,
                                           seen |-> worker[k].seen \ {p}]]
        /\ UNCHANGED <<row, files, purged, message>>
    BY <1>1, <1>7, <2>1 DEF EraseFile, At, history, queue, RevivalTyped
  <2>3. "erasing" \in Pc \ {"deleting"} /\ "erasing" # "written"
    BY DEF Pc
  <2>4. /\ row' \in [Product -> Unfinished \cup {"NONE", "SUCCEEDED", "PERMANENT_FAILED"}]
        /\ \A q \in Product : row'[q] # "NONE" => row[q] # "NONE"
    BY <1>1, <2>2 DEF RevivalTyped
  <2> QED
    BY <2>2, <2>3, <2>4, GoesOn
<1>8. CASE CommitProduct(k)
  <2> DEFINE p == worker[k].job
  <2>1. p \in Product /\ row[p] # "NONE" /\ SetStatus(k, "SUCCEEDED")
    BY <1>1, <1>8 DEF CommitProduct, At, SetStatus, RevivalTyped
  <2>2. p \notin purged /\ Sent(p)
    BY <2>1 DEF RevivalInv, NoRevival, RowIsSent
  <2>3. row' \in [Product -> RowStatus] /\ \A q \in Product : row'[q] # "NONE" => row[q] # "NONE"
    BY <1>1, <2>1, RowKept
  <2>4. /\ files' = files \cup {p}
        /\ worker' = [worker EXCEPT ![k] = Idle]
        /\ message' = [message EXCEPT ![p] = "ACKED"]
        /\ UNCHANGED purged
    BY <1>8 DEF CommitProduct, Finish, Acknowledge
  <2>5. RevivalTyped'
    BY <1>1, <2>1, <2>3, <2>4 DEF RevivalTyped, Idle, Pc
  <2>6. \A q \in Product : Sent(q) => Sent(q)'
    BY <1>1, <2>1, <2>4 DEF RevivalTyped, Sent, Job
  <2>7. RowIsSent'
    BY <2>2, <2>3, <2>4, <2>6 DEF RevivalInv, RowIsSent
  <2>8. DeletedIsSent'
    BY <1>1, <2>4, <2>6 DEF RevivalInv, DeletedIsSent, RevivalTyped, Idle
  <2>9. NoRevival'
    BY <1>1, <2>2, <2>3, <2>4 DEF RevivalInv, NoRevival, RevivalTyped
  <2> QED
    BY <2>5, <2>7, <2>8, <2>9 DEF RevivalInv
<1>9. CASE DeleteRows(k)
  <2>0. Owned \in SUBSET Product /\ \A p \in Owned : Sent(p)
    BY <1>1 DEF Owned, RevivalInv, RowIsSent, RevivalTyped
  <2>1. /\ worker' = [worker EXCEPT ![k] = Held("deleting", Owned)]
        /\ UNCHANGED <<row, files, purged, message>>
    BY <1>0, <1>9 DEF DeleteRows, history, queue
  <2>2. RevivalTyped'
    BY <1>1, <2>0, <2>1 DEF RevivalTyped, Pc
  <2>3. DeletedIsSent'
    BY <1>1, <2>0, <2>1 DEF RevivalInv, DeletedIsSent, RevivalTyped, Sent
  <2> QED
    BY <2>1, <2>2, <2>3 DEF RevivalInv, RowIsSent, NoRevival, Sent
<1>10. CASE FinishDeletion(k)
  <2> DEFINE gone == worker[k].seen
             s == worker[k].job
  <2>1. /\ worker[k].pc = "deleting"
        /\ row' = [p \in Product |-> IF p \in gone THEN "NONE" ELSE row[p]]
        /\ files' = files \ gone
        /\ message' = [j \in Job |-> IF j = s THEN "ACKED"
                                     ELSE IF message[j] = "PENDING" THEN "DROPPED" ELSE message[j]]
        /\ purged' = purged \cup gone
        /\ worker' = [worker EXCEPT ![k] = Idle]
    BY <1>10 DEF FinishDeletion, At, Finish
  <2>2. RevivalTyped'
    BY <1>1, <2>1 DEF RevivalTyped, Idle, Pc
  <2>3. \A p \in Product : Sent(p) => Sent(p)'
    BY <2>1 DEF Sent, Job
  <2>4. \A p \in gone : Sent(p)
    BY <2>1 DEF RevivalInv, DeletedIsSent
  <2>5. RowIsSent'
    BY <2>1, <2>3, <2>4 DEF RevivalInv, RowIsSent
  <2>6. DeletedIsSent'
    BY <1>1, <2>1, <2>3 DEF RevivalInv, DeletedIsSent, RevivalTyped, Idle
  <2>7. NoRevival'
    BY <1>1, <2>1 DEF RevivalInv, NoRevival, RevivalTyped
  <2> QED
    BY <2>2, <2>5, <2>6, <2>7 DEF RevivalInv
<1> QED
  BY <1>2, <1>3, <1>4, <1>5, <1>6, <1>7, <1>8, <1>9, <1>10 DEF Work

-----------------------------------------------------------------------------
LEMMA RevivalStep == RevivalInv /\ [Next]_vars => RevivalInv'
<1> SUFFICES ASSUME RevivalInv, [Next]_vars
             PROVE  RevivalInv'
  OBVIOUS
<1>1. CASE UNCHANGED vars
  BY <1>1 DEF vars, RevivalInv, RevivalTyped, RowIsSent, DeletedIsSent, NoRevival, Sent
<1>2. CASE Next
  BY <1>2, RevivalRequest, RevivalPublish, RevivalDeliver, RevivalWork DEF Next
<1> QED
  BY <1>1, <1>2

\* What a finished deletion workflow removed never gets a row or a file row again,
\* whatever messages, workers and requests of the user were under way
\* (DeletionProcessor._delete_private_rows against the document and export workers).
THEOREM DeletedStaysDeleted == Spec => []NoRevival
<1>1. RevivalInv => NoRevival
  BY DEF RevivalInv
<1> QED
  BY <1>1, RevivalInit, RevivalStep, PTL DEF Spec
=============================================================================
