--------------------------- MODULE WatchExpansion ---------------------------
(***************************************************************************)
(* Query expansion of one watch: WatchService.create and replace change its *)
(* criteria and queue an expansion for their hash, WatchExpansionOrchestrator*)
(* asks the private provider and stores the answer with that hash.  Criteria *)
(* are several columns; what a request changed is all it writes.            *)
(***************************************************************************)
EXTENDS Naturals, FiniteSets

CONSTANTS
    Terms, Places,   \* values of two columns of the criteria
    First,           \* the criteria the watch is created with
    Message,         \* bound: watch.query-expansion.requested events
    Caller, Worker,
    MaxReceive       \* maxReceiveCount of the queue

VARIABLES
    criteria,     \* the columns that criteria_hash covers; a hash stands for them
    expansion,    \* the criteria whose hash search_expansion carries, or none
    operation,    \* status of the AiOperation of each hash
    message, worker, caller,
    raced,        \* history: two PUTs left criteria that neither asked for, or what was
                  \* stored for the criteria was undone by a worker that crossed their PUT
    crossed       \* history: workers past their last look at the criteria when a PUT came

vars == <<criteria, expansion, operation, message, worker, caller, raced, crossed>>

-----------------------------------------------------------------------------
Criteria  == [terms : Terms, places : Places]
None      == [terms |-> "NONE", places |-> "NONE"]
Waits     == {"WAITING", "INFLIGHT", "DLQ"}
Unsent    == [of |-> None, at |-> "UNSENT", receives |-> 0]
Idle      == [pc |-> "idle", msg |-> "NONE", was |-> "NONE"]
NoCall    == [pc |-> "idle", seen |-> None, had |-> None, new |-> None]

TypeOK ==
    /\ criteria \in Criteria /\ expansion \in Criteria \cup {None}
    /\ operation \in [Criteria -> {"NONE", "RUNNING", "SUCCEEDED", "CANCELLED",
                          "RETRYABLE_FAILED", "PERMANENT_FAILED", "DEGRADED_FAILED"}]
    /\ \A m \in Message : message[m] = Unsent \/
           message[m] \in [of : Criteria, at : Waits \cup {"ACKED"}, receives : 0..MaxReceive]
    /\ \A k \in Worker : worker[k].pc \in {"idle", "loaded", "calling", "storing", "cancelling"}
    /\ \A c \in Caller : caller[c] = NoCall \/ caller[c] \in
           [pc : {"put"}, seen : Criteria, had : Criteria \cup {None}, new : Criteria]
    /\ raced \in BOOLEAN /\ crossed \subseteq Worker

\* create stores the watch and queues the expansion of its criteria.
Init ==
    /\ criteria = First /\ expansion = None
    /\ operation = [h \in Criteria |-> "NONE"]
    /\ \E m \in Message : message = [n \in Message |->
          IF n = m THEN [of |-> First, at |-> "WAITING", receives |-> 0] ELSE Unsent]
    /\ worker = [k \in Worker |-> Idle]
    /\ caller = [c \in Caller |-> NoCall]
    /\ raced = FALSE /\ crossed = {}

-----------------------------------------------------------------------------
(* WatchService.replace *)

\* A PUT of the same criteria leaves them and the expansion alone.
Read(c, new) ==
    /\ caller[c] = NoCall /\ new # criteria
    /\ caller' = [caller EXCEPT ![c] =
          [pc |-> "put", seen |-> criteria, had |-> expansion, new |-> new]]
    /\ UNCHANGED <<criteria, expansion, operation, message, worker, raced, crossed>>

\* New criteria void the expansion, if the request saw one, and queue their own.
Replace(c) ==
    LET seen == caller[c].seen  new == caller[c].new IN
    /\ caller[c] # NoCall
    /\ caller' = [caller EXCEPT ![c] = NoCall]
    /\ criteria' = [f \in DOMAIN criteria |-> IF new[f] # seen[f] THEN new[f] ELSE criteria[f]]
    /\ expansion' = IF caller[c].had # None THEN None ELSE expansion
    /\ \E m \in Message :
          /\ message[m] = Unsent
          /\ message' = [message EXCEPT ![m] = [of |-> new, at |-> "WAITING", receives |-> 0]]
    /\ raced' = (criteria' # new)
    /\ crossed' = {k \in Worker : worker[k].pc \in {"storing", "cancelling"}}
    /\ UNCHANGED <<operation, worker>>

-----------------------------------------------------------------------------
(* The queue: an event in the outbox and its message are one, both wait *)

HashOf(k) == message[worker[k].msg].of
Ack(k) ==
    /\ message' = [message EXCEPT ![worker[k].msg].at = "ACKED"]
    /\ worker' = [worker EXCEPT ![k] = Idle]
Raise(k) ==
    LET m == worker[k].msg IN
    /\ message' = [message EXCEPT ![m].at =
          IF message[m].receives >= MaxReceive THEN "DLQ" ELSE "WAITING"]
    /\ worker' = [worker EXCEPT ![k] = Idle]

-----------------------------------------------------------------------------
(* WatchExpansionOrchestrator.process *)

Receive(k, m) == worker[k] = Idle /\ message[m].at = "WAITING"

\* The criteria moved on, or their expansion is stored already.
Skip(k, m) ==
    /\ Receive(k, m)
    /\ criteria # message[m].of \/ expansion = message[m].of
    /\ message' = [message EXCEPT ![m].at = "ACKED"]
    /\ UNCHANGED <<criteria, expansion, operation, worker, caller, raced, crossed>>

Load(k, m) ==
    /\ Receive(k, m)
    /\ criteria = message[m].of /\ expansion # message[m].of
    /\ message' = [message EXCEPT ![m].at = "INFLIGHT", ![m].receives = @ + 1]
    /\ worker' = [worker EXCEPT ![k] =
          [pc |-> "loaded", msg |-> m, was |-> operation[message[m].of]]]
    /\ UNCHANGED <<criteria, expansion, operation, caller, raced, crossed>>

\* The unique key admits one row of an operation; a status that was RUNNING when it was
\* read is not written again.
CommitRunning(k) ==
    /\ worker[k].pc = "loaded"
    /\ worker[k].was = "NONE" => operation[HashOf(k)] = "NONE"
    /\ operation' = IF worker[k].was = "RUNNING" THEN operation
                    ELSE [operation EXCEPT ![HashOf(k)] = "RUNNING"]
    /\ worker' = [worker EXCEPT ![k].pc = "calling", ![k].was = "RUNNING"]
    /\ UNCHANGED <<criteria, expansion, message, caller, raced, crossed>>

\* A failure is stored and raised, a permanent one too.
ProviderFails(k, s) ==
    /\ worker[k].pc = "calling"
    /\ operation' = [operation EXCEPT ![HashOf(k)] = s]
    /\ Raise(k)
    /\ UNCHANGED <<criteria, expansion, caller, raced, crossed>>

\* Neither the answer nor its repair fits the schema: done, and nothing to store.
OutputInvalid(k) ==
    /\ worker[k].pc = "calling"
    /\ operation' = [operation EXCEPT ![HashOf(k)] = "DEGRADED_FAILED"]
    /\ Ack(k)
    /\ UNCHANGED <<criteria, expansion, caller, raced, crossed>>

\* Mutant of Refresh: the answer is stored without a second look at the criteria.
NoRefresh(k) ==
    /\ worker[k].pc = "calling"
    /\ worker' = [worker EXCEPT ![k].pc = "storing"]
    /\ UNCHANGED <<criteria, expansion, operation, message, caller, raced, crossed>>

\* The watch is read again after the provider's answer.
Refresh(k) ==
    /\ worker[k].pc = "calling"
    /\ worker' = [worker EXCEPT ![k].pc =
          IF criteria = HashOf(k) THEN "storing" ELSE "cancelling"]
    /\ UNCHANGED <<criteria, expansion, operation, message, caller, raced, crossed>>

StoreExpansion(k) ==
    /\ worker[k].pc = "storing"
    /\ raced' = (raced \/ (k \in crossed /\ expansion = criteria /\ HashOf(k) # criteria))
    /\ crossed' = crossed \ {k}
    /\ expansion' = HashOf(k)
    /\ operation' = [operation EXCEPT ![HashOf(k)] = "SUCCEEDED"]
    /\ Ack(k)
    /\ UNCHANGED <<criteria, caller>>

Cancel(k) ==
    /\ worker[k].pc = "cancelling"
    /\ operation' = [operation EXCEPT ![HashOf(k)] = "CANCELLED"]
    /\ raced' = (raced \/ (k \in crossed /\ HashOf(k) = criteria
                                       /\ operation[criteria] = "DEGRADED_FAILED"))
    /\ crossed' = crossed \ {k}
    /\ Ack(k)
    /\ UNCHANGED <<criteria, expansion, caller>>

\* The second worker's operation is refused, or a worker ends: the message comes back.
Dies(k) ==
    /\ worker[k] # Idle
    /\ Raise(k)
    /\ crossed' = crossed \ {k}
    /\ UNCHANGED <<criteria, expansion, operation, caller, raced>>

-----------------------------------------------------------------------------
Next ==
    \/ \E c \in Caller, new \in Criteria : Read(c, new)
    \/ \E c \in Caller : Replace(c)
    \/ \E k \in Worker, m \in Message : Skip(k, m) \/ Load(k, m)
    \/ \E k \in Worker, s \in {"RETRYABLE_FAILED", "PERMANENT_FAILED"} : ProviderFails(k, s)
    \/ \E k \in Worker : CommitRunning(k) \/ OutputInvalid(k) \/ Refresh(k)
                            \/ StoreExpansion(k) \/ Cancel(k) \/ Dies(k)

Spec == Init /\ [][Next]_vars

-----------------------------------------------------------------------------
(* Properties *)

\* The criteria that a request asked for have their expansion, or an event or message that
\* asks for it, or a provider that could not answer in the schema: an edit while the
\* provider thinks is noticed, and one after the last look is made good by its own message,
\* unless a worker that crossed it undid that.
ExpansionIsOwed ==
    \/ raced \/ expansion = criteria \/ operation[criteria] = "DEGRADED_FAILED"
    \/ \E m \in Message : message[m].of = criteria /\ message[m].at \in Waits
=============================================================================
