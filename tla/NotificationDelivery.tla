------------------------ MODULE NotificationDelivery ------------------------
(***************************************************************************)
(* NotificationDeliveryService.dispatch: the external message of one digest, *)
(* from its ExternalNotificationDelivery row and the copies of its event on *)
(* the notification queue.  The provider is called between the read of the  *)
(* row and the commit of what came of it.                                   *)
(***************************************************************************)
EXTENDS Naturals

CONSTANTS
    Copy,            \* bound: messages of the event (a dying pump sends it again)
    Worker,
    MaxAttempts,     \* the limit of attempts in dispatch
    MaxReceive,      \* maxReceiveCount of the queue
    MaxAccepted      \* bound: messages the provider accepts

VARIABLES
    row,        \* the delivery row, or NoRow once its digest is deleted
    copy,       \* where each message is
    receives,   \* ApproximateReceiveCount of each message
    worker,     \* what each worker is doing
    accepted,   \* how many messages the provider accepted
    overlapped  \* history: two deliveries were under way at once

vars == <<row, copy, receives, worker, accepted, overlapped>>

-----------------------------------------------------------------------------
NoRow == [status |-> "DELETED"]
Row == [status : {"QUEUED", "FAILED", "SENT"}, attempts : Nat]

Idle == [pc |-> "idle"]
Busy ==
    [pc   : {"send", "sent", "failed"},
     copy : Copy,
     seen : Row]              \* the row object of this session

\* Type correctness; a delivery is tried at most MaxAttempts times as far as the
\* row knows, also when deliveries overlap.
TypeOK ==
    /\ row \in Row \cup {NoRow}
    /\ row # NoRow => row.attempts <= MaxAttempts
    /\ copy \in [Copy -> {"UNSENT", "VISIBLE", "INFLIGHT", "ACKED", "DLQ"}]
    /\ receives \in [Copy -> 0..MaxReceive]
    /\ worker \in [Worker -> {Idle} \cup Busy]
    /\ accepted \in 0..MaxAccepted
    /\ overlapped \in BOOLEAN

Init ==
    /\ row = [status |-> "QUEUED", attempts |-> 0]
    /\ copy = [c \in Copy |-> "UNSENT"]
    /\ receives = [c \in Copy |-> 0]
    /\ worker = [k \in Worker |-> Idle]
    /\ accepted = 0
    /\ overlapped = FALSE

\* Only columns that changed since the row was loaded are written.
Merge(stored, seen, new) == IF new = seen THEN stored ELSE new

Flush(seen, new) == [c \in DOMAIN new |-> Merge(row[c], seen[c], new[c])]

At(k, p) == worker[k].pc = p

-----------------------------------------------------------------------------
(* The queue *)

\* The pump publishes; it does so again if it dies before it marks the event.
Send(c) ==
    /\ copy[c] = "UNSENT"
    /\ copy' = [copy EXCEPT ![c] = "VISIBLE"]
    /\ UNCHANGED <<row, receives, worker, accepted, overlapped>>

Returned(c) == IF receives'[c] >= MaxReceive THEN "DLQ" ELSE "VISIBLE"

\* The record fails: it is reported in batchItemFailures.
Raise(c) == copy' = [copy EXCEPT ![c] = Returned(c)]

Acknowledge(c) == copy' = [copy EXCEPT ![c] = "ACKED"]

Redrive(c) ==
    /\ copy[c] = "DLQ"
    /\ copy' = [copy EXCEPT ![c] = "VISIBLE"]
    /\ receives' = [receives EXCEPT ![c] = 0]
    /\ UNCHANGED <<row, worker, accepted, overlapped>>

-----------------------------------------------------------------------------
(* dispatch, up to the provider call *)

Receive(k, c) ==
    /\ worker[k] = Idle /\ copy[c] = "VISIBLE"
    /\ overlapped' = (overlapped \/ \E j \in Worker : worker[j] # Idle)
    /\ receives' = [receives EXCEPT ![c] = @ + 1]

\* Mutant of IsDone: the limit of attempts alone stops a delivery.
IsDoneByAttempts == row.attempts >= MaxAttempts

IsDone == row.status = "SENT" \/ row.attempts >= MaxAttempts

ReceiveDone(k, c) ==
    /\ Receive(k, c)
    /\ row # NoRow /\ IsDone
    /\ Acknowledge(c)
    /\ UNCHANGED <<row, worker, accepted>>

\* DELIVERY_NOT_FOUND, DELIVERY_CANCELLED, no secret, or the channel is off.
ReceiveRefused(k, c) ==
    /\ Receive(k, c)
    /\ Raise(c)
    /\ row # NoRow => ~IsDone
    /\ UNCHANGED <<row, worker, accepted>>

\* On to the provider call, or straight to the failure if the channel has no
\* sender (NOTIFICATION_CHANNEL_UNAVAILABLE).
ReceiveWork(k, c) ==
    /\ Receive(k, c)
    /\ row # NoRow /\ ~IsDone
    /\ copy' = [copy EXCEPT ![c] = "INFLIGHT"]
    /\ \E p \in {"send", "failed"} :
          worker' = [worker EXCEPT ![k] = [pc |-> p, copy |-> c, seen |-> row]]
    /\ UNCHANGED <<row, accepted>>

-----------------------------------------------------------------------------
(* dispatch, from the provider call *)

\* The answer may be lost: then the call fails although it was accepted.
CallProvider(k) ==
    /\ At(k, "send")
    /\ \E answer \in {"sent", "failed"}, n \in {accepted, accepted + 1} :
          /\ answer = "sent" => n = accepted + 1
          /\ n <= MaxAccepted
          /\ accepted' = n
          /\ worker' = [worker EXCEPT ![k].pc = answer]
    /\ UNCHANGED <<row, copy, receives, overlapped>>

Attempted(seen, s) == [status |-> s, attempts |-> seen.attempts + 1]

Finish(k) == worker' = [worker EXCEPT ![k] = Idle]

CommitSent(k) ==
    LET seen == worker[k].seen IN
    /\ At(k, "sent")
    /\ UNCHANGED <<receives, accepted, overlapped>>
    /\ Finish(k)
    /\ IF row = NoRow
       THEN Raise(worker[k].copy) /\ UNCHANGED row
       ELSE /\ row' = Flush(seen, Attempted(seen, "SENT"))
            /\ Acknowledge(worker[k].copy)

\* Mutant of CommitFailed: the provider's failure is stored and not raised.
CommitFailedQuietly(k) ==
    /\ At(k, "failed") /\ row # NoRow
    /\ UNCHANGED <<receives, accepted, overlapped>>
    /\ Finish(k)
    /\ row' = Flush(worker[k].seen, Attempted(worker[k].seen, "FAILED"))
    /\ Acknowledge(worker[k].copy)

CommitFailed(k) ==
    LET seen == worker[k].seen IN
    /\ At(k, "failed")
    /\ UNCHANGED <<receives, accepted, overlapped>>
    /\ Finish(k)
    /\ row' = IF row = NoRow THEN row ELSE Flush(seen, Attempted(seen, "FAILED"))
    /\ Raise(worker[k].copy)

Crash(k) ==
    /\ worker[k] # Idle
    /\ UNCHANGED <<row, receives, accepted, overlapped>>
    /\ Finish(k)
    /\ Raise(worker[k].copy)

\* The Watch or the account is deleted, and the digest with it.
DeleteDigest ==
    /\ row # NoRow
    /\ row' = NoRow
    /\ UNCHANGED <<copy, receives, worker, accepted, overlapped>>

Next ==
    \/ DeleteDigest
    \/ \E c \in Copy : Send(c) \/ Redrive(c)
    \/ \E k \in Worker, c \in Copy :
          ReceiveDone(k, c) \/ ReceiveRefused(k, c) \/ ReceiveWork(k, c)
    \/ \E k \in Worker :
          CallProvider(k) \/ CommitSent(k) \/ CommitFailed(k) \/ Crash(k)

Spec == Init /\ [][Next]_vars

-----------------------------------------------------------------------------
(* Properties *)

\* A delivery that is not SENT and may still be tried has a message left (the
\* dead-letter queue included), whatever overlapping workers wrote into it.
NoForgottenDelivery ==
    (row # NoRow /\ row.status # "SENT" /\ row.attempts < MaxAttempts)
        => \E c \in Copy : copy[c] # "ACKED"

\* While no deliveries of it have overlapped, a SENT delivery is never sent again.
SentIsKept ==
    ~overlapped' /\ row.status = "SENT" =>
        row'.status \in {"SENT", "DELETED"} /\ accepted' = accepted

SentIsFinal == [][SentIsKept]_vars

\* notification-provider-outage.md:3 "retry idempotently so a digest is not sent
\* twice".
NotSentTwice == accepted <= 1
=============================================================================
