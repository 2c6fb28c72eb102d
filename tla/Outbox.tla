------------------------------- MODULE Outbox -------------------------------
(***************************************************************************)
(* The outbox table and its pump (OutboxDispatcher.dispatch_batch).  Events *)
(* are numbered when they are inserted but appear when their transaction    *)
(* commits, in any order; the pump publishes the unpublished ones by number *)
(* and marks each in a transaction of its own.  The scheduler starts a pump *)
(* every minute and may start it twice; a pump may die anywhere.            *)
(***************************************************************************)
EXTENDS Integers, FiniteSets

CONSTANTS
    LastEvent,     \* bound: the events are numbered 1..LastEvent
    Pump,
    Limit          \* dispatch_batch(limit=...)

ASSUME OutboxConstants ==
    /\ LastEvent \in Nat \ {0}
    /\ Limit \in Nat \ {0}

Event == 1..LastEvent

VARIABLES
    row,       \* the OutboxEvent rows
    sent,      \* the events the queue accepted, once or more
    pump       \* what each pump is doing

vars == <<row, sent, pump>>

-----------------------------------------------------------------------------
\* "open": no row, or the transaction that inserts it has not committed.
Status == {"open", "pending", "published", "deleted"}

Row == [status : Status, failed : BOOLEAN]     \* failed: last_error_code

Idle == [batch |-> {}, marking |-> FALSE, seen |-> {}]

\* The event the pump is at.
Head(p) == CHOOSE e \in pump[p].batch : \A d \in pump[p].batch : e <= d

\* Type correctness; a pump only holds events of committed transactions, and it
\* marks an event after the queue took it.
TypeOK ==
    /\ row \in [Event -> Row]
    /\ sent \subseteq Event
    /\ pump \in [Pump -> [batch : SUBSET Event, marking : BOOLEAN, seen : SUBSET Event]]
    /\ \A p \in Pump :
          /\ \A e \in pump[p].batch : row[e].status # "open"
          /\ pump[p].marking => pump[p].batch # {} /\ Head(p) \in sent

Init ==
    /\ row = [e \in Event |-> [status |-> "open", failed |-> FALSE]]
    /\ sent = {}
    /\ pump = [p \in Pump |-> Idle]

Pending == {e \in Event : row[e].status = "pending"}

\* Mutant of Batch: the pump goes on after the last event that was published.
BatchAfter ==
    {e \in Pending : \A d \in Event : row[d].status = "published" => d < e}

\* ORDER BY id LIMIT: those with fewer than Limit pending events before them.
Batch ==
    {e \in Pending : Cardinality({d \in Pending : d < e}) < Limit}

-----------------------------------------------------------------------------
(* Business transactions *)

CommitEvents(es) ==
    /\ es # {}
    /\ \A e \in es : row[e].status = "open"
    /\ row' = [e \in Event |-> IF e \in es THEN [row[e] EXCEPT !.status = "pending"] ELSE row[e]]
    /\ UNCHANGED <<sent, pump>>

\* Deleting a Watch or an account deletes its events, published or not.
DeleteEvents(es) ==
    /\ es # {}
    /\ \A e \in es : row[e].status \in {"pending", "published"}
    /\ row' = [e \in Event |-> IF e \in es THEN [row[e] EXCEPT !.status = "deleted"] ELSE row[e]]
    /\ UNCHANGED <<sent, pump>>

-----------------------------------------------------------------------------
(* dispatch_batch *)

Load(p) ==
    /\ pump[p] = Idle
    /\ Batch # {}
    /\ pump' = [pump EXCEPT ![p] =
            [batch |-> Batch, marking |-> FALSE, seen |-> {e \in Batch : row[e].failed}]]
    /\ UNCHANGED <<row, sent>>

\* Mutant of Publish: the send is started, and lost.
PublishUnsent(p) ==
    /\ pump[p].batch # {} /\ ~pump[p].marking
    /\ pump' = [pump EXCEPT ![p].marking = TRUE]
    /\ UNCHANGED <<row, sent>>

Publish(p) ==
    /\ pump[p].batch # {} /\ ~pump[p].marking
    /\ sent' = sent \cup {Head(p)}
    /\ pump' = [pump EXCEPT ![p].marking = TRUE]
    /\ UNCHANGED row

\* Committing to a deleted row raises (StaleDataError): the pump dies.
Missing(e) == row[e].status = "deleted"

\* last_error_code is cleared if the pump saw one.
Marked(e, seen) ==
    [status |-> "published", failed |-> IF e \in seen THEN FALSE ELSE row[e].failed]

Mark(p) ==
    LET e == Head(p)
        rest == pump[p].batch \ {e} IN
    /\ pump[p].marking
    /\ \/ /\ Missing(e)
          /\ pump' = [pump EXCEPT ![p] = Idle]
          /\ UNCHANGED row
       \/ /\ ~Missing(e)
          /\ row' = [row EXCEPT ![e] = Marked(e, pump[p].seen)]
          /\ pump' = [pump EXCEPT ![p] =
                IF rest = {} THEN Idle
                ELSE [batch |-> rest, marking |-> FALSE, seen |-> pump[p].seen \ {e}]]
    /\ UNCHANGED sent

\* publish raises: the error is stored and the rest of the batch is left.
PublishFails(p) ==
    LET e == Head(p) IN
    /\ pump[p].batch # {} /\ ~pump[p].marking
    /\ row' = IF Missing(e) \/ e \in pump[p].seen THEN row
              ELSE [row EXCEPT ![e].failed = TRUE]
    /\ pump' = [pump EXCEPT ![p] = Idle]
    /\ UNCHANGED sent

Crash(p) ==
    /\ pump[p] # Idle
    /\ pump' = [pump EXCEPT ![p] = Idle]
    /\ UNCHANGED <<row, sent>>

Next ==
    \/ \E es \in SUBSET Event : CommitEvents(es) \/ DeleteEvents(es)
    \/ \E p \in Pump :
          Load(p) \/ Publish(p) \/ Mark(p) \/ PublishFails(p) \/ Crash(p)

Spec == Init /\ [][Next]_vars

\* The scheduler starts the pump again and again; a pump that has something to
\* send, or to mark, again and again does not fail or die every single time.
Fairness ==
    \A p \in Pump : WF_vars(Load(p)) /\ SF_vars(Publish(p)) /\ SF_vars(Mark(p))

FairSpec == Spec /\ Fairness

-----------------------------------------------------------------------------
(* Properties *)

\* ADR 0001 and async-processing.md: the outbox implements at-least-once
\* sending, liveness included, with transactions committing out of order, two
\* pumps, crashes between publish and mark, and deletions in the middle.
Promise == INSTANCE AtLeastOnce WITH
    requested <- {e \in Event : row[e].status # "open"},
    withdrawn <- {e \in Event : row[e].status = "deleted"},
    settled   <- {e \in Event : row[e].status = "published"}

SendsAtLeastOnce == Promise!Spec

\* The safety part of it.
SendsOnlyRequested == Promise!Init /\ [][Promise!Next]_(Promise!vars)
=============================================================================
