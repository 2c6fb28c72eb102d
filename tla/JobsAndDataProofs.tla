------------------------- MODULE JobsAndDataProofs -------------------------
(***************************************************************************)
(* Theorems about the three parts of MCJobsAndData: the shared analysis of  *)
(* a job, what a user keeps about a job, and, from PrivateDataProofs, the   *)
(* private data of a user.  Each part has its inductive invariant, with a   *)
(* lemma for each action; the theorems at the end are about the             *)
(* specification that composes the parts.                                   *)
(***************************************************************************)
EXTENDS MCJobsAndData, PrivateDataProofs

-----------------------------------------------------------------------------
(* PublicAnalysis *)

\* A message that can be received has receives left.
DeliveriesLeft ==
    \A m \in Message :
        /\ event[m] = "UNSENT" => deliveries[m] = 0
        /\ event[m] = "VISIBLE" => deliveries[m] < MaxReceive

\* A worker has its message to itself, and the operation it read was never removed.
AnalystsHold ==
    \A k \in Worker : analyst[k] # P!Idle =>
        /\ event[analyst[k].message] = "INFLIGHT"
        /\ \A j \in Worker : j # k /\ analyst[j] # P!Idle => analyst[j].message # analyst[k].message
        /\ analyst[k].pc = "cached" => analyst[k].status # "SUCCEEDED"
        /\ analyst[k].op # P!NoOp => op # P!NoOp

\* Who asks does it of a profile that exists, or creates it with the first event.
AnalysisAsked ==
    /\ \A m \in Message : event[m] # "UNSENT" => profile # "NONE"
    /\ \A c \in Caller : reader[c] \notin {"NONE", "IDLE"} => profile # "NONE"

\* What was called and answered: on the operation, lost, or in the hands of a worker.
Accounted(work) ==
    /\ op.attempts + ledger.lostCalls + work.billed = ledger.calls
    /\ ledger.answers = ledger.lostAnswers + IF document \/ work.pc = "SUCCEEDED" THEN 1 ELSE 0

Nobody == [pc |-> "idle", billed |-> 0]

\* Deliveries that have not overlapped: one worker at most, that holds the operation as it
\* is stored, and calls nobody once there is a document.
AnalystAlone ==
    /\ \A j, k \in Worker : analyst[j] # P!Idle /\ analyst[k] # P!Idle => j = k
    /\ document <=> op.status = "SUCCEEDED"
    /\ \A k \in Worker : analyst[k] # P!Idle =>
          /\ analyst[k].op = op
          /\ analyst[k].pc = "cached" <=> document
          /\ analyst[k].pc \in {"cached", "start"} => analyst[k].billed = 0
          /\ Accounted(analyst[k])
    /\ (\A k \in Worker : analyst[k] = P!Idle) => Accounted(Nobody)

AnalysisInv ==
    /\ P!TypeOK /\ DeliveriesLeft /\ AnalystsHold /\ AnalysisAsked
    /\ P!WaitingHasMessage /\ P!ResultSurvives
    /\ ~beside => AnalystAlone

LEMMA AnalysisInit == P!Init => AnalysisInv
<1> SUFFICES ASSUME P!Init PROVE AnalysisInv
  OBVIOUS
<1> USE PrivateDataConstants, JobsAndDataConstants DEF PrivateDataConstants, JobsAndDataConstants, P!Init
<1>1. P!TypeOK
  <2>1. ledger \in [calls : Nat, answers : Nat, lostCalls : Nat, lostAnswers : Nat, crashes : 0..MaxDeaths]
    BY DEF P!TypeOK
  <2>2. P!Idle.pc = "idle" /\ P!NoOp \in P!Op \cup {P!NoOp}
    BY DEF P!Idle
  <2>3. \A k \in Worker : analyst[k].pc = "idle"
    BY <2>2
  <2>4. 0 \in 0..MaxReceive
    OBVIOUS
  <2>5. /\ reader \in [Caller -> P!Status \cup {"NONE", "IDLE"}]
        /\ event \in [Message -> {"UNSENT", "VISIBLE", "INFLIGHT", "ACKED", "DLQ"}]
        /\ deliveries \in [Message -> 0..MaxReceive]
        /\ analyst \in [Worker -> {P!Idle} \cup P!Busy]
    BY <2>4
  <2> QED
    BY <2>1, <2>2, <2>3, <2>5 DEF P!TypeOK
<1>2. DeliveriesLeft /\ AnalystsHold /\ AnalysisAsked
  BY DEF DeliveriesLeft, AnalystsHold, AnalysisAsked
<1>3. P!WaitingHasMessage /\ P!ResultSurvives
  BY DEF P!WaitingHasMessage, P!ResultSurvives, P!Waiting
<1>4. AnalystAlone
  BY DEF AnalystAlone, Accounted, Nobody, P!NoOp
<1> QED
  BY <1>1, <1>2, <1>3, <1>4 DEF AnalysisInv

\* What a worker at work holds.
LEMMA AnalystHolds ==
    ASSUME AnalysisInv, NEW k \in Worker, analyst[k] # P!Idle
    PROVE  /\ analyst[k] \in P!Busy
           /\ analyst[k].message \in Message /\ event[analyst[k].message] = "INFLIGHT"
           /\ analyst[k].pc \in {"cached", "start", "call", "SUCCEEDED"} \cup P!Failed
           /\ analyst[k].status \in P!Status /\ analyst[k].op \in P!Op \cup {P!NoOp}
           /\ analyst[k].billed \in Nat
           /\ analyst[k].pc \notin {"cached", "start"} =>
                 analyst[k].status = "RUNNING" /\ analyst[k].op \in P!Op /\ analyst[k].op.status = "RUNNING"
<1>1. analyst[k] \in P!Busy
  BY DEF AnalysisInv, P!TypeOK
<1>2. analyst[k].pc # "idle"
  BY <1>1 DEF P!Busy, P!Failed
<1>3. analyst[k].pc \notin {"cached", "start"} => analyst[k].status = "RUNNING" /\ analyst[k].op.status = "RUNNING"
  BY <1>2 DEF AnalysisInv, P!TypeOK
<1>4. P!NoOp.status # "RUNNING"
  BY DEF P!NoOp
<1> QED
  BY <1>1, <1>3, <1>4 DEF P!Busy, AnalysisInv, AnalystsHold

\* A request that reads, or that is refused.
LEMMA ReaderMoves ==
    ASSUME AnalysisInv, NEW c \in Caller, P!ReadToQueue(c) \/ P!ReadToRetry(c) \/ P!RejectRequest(c)
    PROVE  AnalysisInv'
<1>1. /\ reader' \in [Caller -> P!Status \cup {"NONE", "IDLE"}]
      /\ \A d \in Caller : reader'[d] \in {reader[d], profile, "IDLE"}
      /\ UNCHANGED <<profile, document, op, event, deliveries, analyst, ledger, beside>>
  BY DEF P!ReadToQueue, P!ReadToRetry, P!RejectRequest, AnalysisInv, P!TypeOK
<1> QED
  BY <1>1 DEF AnalysisInv, AnalysisAsked, P!TypeOK, DeliveriesLeft, AnalystsHold, P!WaitingHasMessage, P!ResultSurvives,
              AnalystAlone, Accounted, Nobody

\* A request that puts the profile into the queue, with its event.
LEMMA AnalysisQueued ==
    ASSUME AnalysisInv, NEW c \in Caller, P!CommitRequest(c)
    PROVE  AnalysisInv'
<1>1. PICK m \in Message :
          /\ event[m] = "UNSENT" /\ event' = [event EXCEPT ![m] = "VISIBLE"]
          /\ profile' \in {profile, "QUEUED"}
          /\ reader' = [reader EXCEPT ![c] = "IDLE"]
          /\ UNCHANGED <<document, op, deliveries, analyst, ledger, beside>>
  BY DEF P!CommitRequest, P!Merge
<1>2. profile' # "NONE"
  BY DEF P!CommitRequest, P!Merge, AnalysisInv, AnalysisAsked
<1>3. P!TypeOK'
  <2>1. profile' \in P!Status \cup {"NONE"}
    BY <1>1 DEF AnalysisInv, P!TypeOK, P!Status, P!Waiting
  <2>2. reader' \in [Caller -> P!Status \cup {"NONE", "IDLE"}]
        /\ event' \in [Message -> {"UNSENT", "VISIBLE", "INFLIGHT", "ACKED", "DLQ"}]
    BY <1>1 DEF AnalysisInv, P!TypeOK
  <2> QED
    BY <1>1, <2>1, <2>2 DEF AnalysisInv, P!TypeOK
<1>4. event \in [Message -> {"UNSENT", "VISIBLE", "INFLIGHT", "ACKED", "DLQ"}]
  BY DEF AnalysisInv, P!TypeOK
<1>5. DeliveriesLeft'
  BY <1>1, <1>4, PrivateDataConstants DEF AnalysisInv, DeliveriesLeft, PrivateDataConstants
<1>6. AnalystsHold'
  BY <1>1, <1>4 DEF AnalysisInv, AnalystsHold
<1>7. event'[m] = "VISIBLE"
  BY <1>1, <1>4
<1>8. P!WaitingHasMessage' /\ P!ResultSurvives'
  BY <1>7 DEF P!WaitingHasMessage, P!ResultSurvives
<1>9. ~beside' => AnalystAlone'
  BY <1>1 DEF AnalysisInv, AnalystAlone, Accounted, Nobody
<1>10. AnalysisAsked'
  BY <1>2 DEF AnalysisAsked
<1> QED
  BY <1>3, <1>5, <1>6, <1>8, <1>9, <1>10 DEF AnalysisInv

\* A delivery that is counted.
LEMMA Delivered ==
    ASSUME AnalysisInv, NEW k \in Worker, NEW m \in Message, P!Receive(k, m)
    PROVE  /\ deliveries' \in [Message -> 0..MaxReceive]
           /\ \A n \in Message : n # m => deliveries'[n] = deliveries[n]
           /\ \A j \in Worker : analyst[j] # P!Idle => analyst[j].message # m
           /\ ~beside' => ~beside /\ \A j \in Worker : analyst[j] = P!Idle
           /\ beside' \in BOOLEAN
<1>1. /\ event[m] = "VISIBLE" /\ deliveries' = [deliveries EXCEPT ![m] = deliveries[m] + 1]
      /\ beside' = (beside \/ \E j \in Worker : analyst[j] # P!Idle)
  BY DEF P!Receive
<1>2. deliveries[m] < MaxReceive /\ deliveries[m] \in 0..MaxReceive
  BY <1>1 DEF AnalysisInv, DeliveriesLeft, P!TypeOK
<1>3. deliveries[m] + 1 \in 0..MaxReceive
  BY <1>2, PrivateDataConstants DEF PrivateDataConstants
<1>4. \A j \in Worker : analyst[j] # P!Idle => analyst[j].message # m
  BY <1>1 DEF AnalysisInv, AnalystsHold
<1> QED
  BY <1>1, <1>3, <1>4 DEF AnalysisInv, P!TypeOK

\* A delivery of what is done, or while the analysis is switched off.
LEMMA AnalysisPassed ==
    ASSUME AnalysisInv, NEW k \in Worker, NEW m \in Message, P!ReceiveDone(k, m) \/ P!ReceiveRefused(k, m)
    PROVE  AnalysisInv'
<1>1. /\ P!Receive(k, m)
      /\ UNCHANGED <<profile, document, op, reader, analyst, ledger>>
      /\ \/ profile = "SUCCEEDED" /\ event' = [event EXCEPT ![m] = "ACKED"]
         \/ deliveries'[m] < MaxReceive /\ event' = [event EXCEPT ![m] = "VISIBLE"]
         \/ event' = [event EXCEPT ![m] = "DLQ"]
  <2>1. CASE P!ReceiveDone(k, m)
    BY <2>1 DEF P!ReceiveDone, P!Acknowledge
  <2>2. CASE P!ReceiveRefused(k, m)
    <3>1. P!Receive(k, m)
      BY <2>2 DEF P!ReceiveRefused
    <3>2. deliveries'[m] \in 0..MaxReceive
      BY <3>1, Delivered
    <3>3. event' = [event EXCEPT ![m] = P!Returned(m)]
      BY <2>2 DEF P!ReceiveRefused, P!Raise
    <3>4. P!Returned(m) = "DLQ" \/ (P!Returned(m) = "VISIBLE" /\ deliveries'[m] < MaxReceive)
      BY <3>2, PrivateDataConstants DEF PrivateDataConstants, P!Returned
    <3> QED
      BY <2>2, <3>1, <3>3, <3>4 DEF P!ReceiveRefused
  <2> QED
    BY <2>1, <2>2
<1>2. /\ deliveries' \in [Message -> 0..MaxReceive]
      /\ \A n \in Message : n # m => deliveries'[n] = deliveries[n]
      /\ \A j \in Worker : analyst[j] # P!Idle => analyst[j].message # m
      /\ ~beside' => ~beside /\ \A j \in Worker : analyst[j] = P!Idle
      /\ beside' \in BOOLEAN
  BY <1>1, Delivered
<1>3. event \in [Message -> {"UNSENT", "VISIBLE", "INFLIGHT", "ACKED", "DLQ"}]
  BY DEF AnalysisInv, P!TypeOK
<1>4. event' \in [Message -> {"UNSENT", "VISIBLE", "INFLIGHT", "ACKED", "DLQ"}]
  BY <1>1, <1>3
<1>5. P!TypeOK'
  BY <1>1, <1>2, <1>4 DEF AnalysisInv, P!TypeOK
<1>6. DeliveriesLeft'
  BY <1>1, <1>2, <1>3 DEF AnalysisInv, DeliveriesLeft
<1>7. AnalystsHold'
  <2>1. \A j \in Worker : analyst[j] # P!Idle => analyst[j].message \in Message
    BY AnalystHolds
  <2> QED
    BY <1>1, <1>2, <1>3, <2>1 DEF AnalysisInv, AnalystsHold
<1>8. P!WaitingHasMessage' /\ P!ResultSurvives'
  <2>1. event'[m] = "ACKED" => profile' = "SUCCEEDED"
    BY <1>1, <1>3
  <2>2. event'[m] # "UNSENT"
    BY <1>1, <1>3
  <2> QED
    BY <2>1, <2>2 DEF P!WaitingHasMessage, P!ResultSurvives, P!Waiting
<1>9. ~beside' => AnalystAlone'
  BY <1>1, <1>2 DEF AnalysisInv, AnalystAlone, Accounted, Nobody
<1>10. AnalysisAsked'
  <2>1. event[m] # "UNSENT"
    BY <1>1 DEF P!Receive
  <2> QED
    BY <1>1, <1>3, <2>1 DEF AnalysisInv, AnalysisAsked
<1> QED
  BY <1>5, <1>6, <1>7, <1>8, <1>9, <1>10 DEF AnalysisInv

LEMMA AnalysisLoaded ==
    ASSUME AnalysisInv, NEW k \in Worker, NEW m \in Message, P!Load(k, m)
    PROVE  AnalysisInv'
<1> DEFINE w == [pc |-> IF P!IsCached THEN "cached" ELSE "start", message |-> m,
                 status |-> profile, op |-> op, billed |-> 0]
<1>1. /\ P!Receive(k, m) /\ profile # "SUCCEEDED" /\ analyst[k] = P!Idle
      /\ event' = [event EXCEPT ![m] = "INFLIGHT"]
      /\ analyst' = [analyst EXCEPT ![k] = w]
      /\ UNCHANGED <<profile, document, op, reader, ledger>>
  BY DEF P!Load, P!Receive
<1>2. /\ deliveries' \in [Message -> 0..MaxReceive]
      /\ \A n \in Message : n # m => deliveries'[n] = deliveries[n]
      /\ \A j \in Worker : analyst[j] # P!Idle => analyst[j].message # m
      /\ ~beside' => ~beside /\ \A j \in Worker : analyst[j] = P!Idle
      /\ beside' \in BOOLEAN
  BY <1>1, Delivered
<1>3. /\ w.message = m /\ w.status = profile /\ w.op = op /\ w.billed = 0
      /\ w.pc \in {"cached", "start"}
      /\ w.pc = "cached" <=> op.status = "SUCCEEDED" /\ document
  BY DEF P!IsCached
<1>4. profile \in P!Status
  BY <1>1 DEF P!Receive, AnalysisInv, P!TypeOK, AnalysisAsked
<1>5. w \in P!Busy
  BY <1>3, <1>4 DEF AnalysisInv, P!TypeOK, P!Busy
<1> HIDE DEF w
<1>6. \A j \in Worker : analyst'[j] = IF j = k THEN w ELSE analyst[j]
  BY <1>1 DEF AnalysisInv, P!TypeOK
<1>7. event \in [Message -> {"UNSENT", "VISIBLE", "INFLIGHT", "ACKED", "DLQ"}]
  BY DEF AnalysisInv, P!TypeOK
<1>8. P!TypeOK'
  <2>1. event' \in [Message -> {"UNSENT", "VISIBLE", "INFLIGHT", "ACKED", "DLQ"}]
    BY <1>1, <1>7
  <2>2. analyst' \in [Worker -> {P!Idle} \cup P!Busy]
    BY <1>1, <1>5 DEF AnalysisInv, P!TypeOK
  <2>3. \A j \in Worker : analyst'[j].pc \notin {"idle", "cached", "start"}
                            => analyst'[j].status = "RUNNING" /\ analyst'[j].op.status = "RUNNING"
    BY <1>3, <1>6 DEF AnalysisInv, P!TypeOK
  <2> QED
    BY <1>1, <1>2, <2>1, <2>2, <2>3 DEF AnalysisInv, P!TypeOK
<1>9. DeliveriesLeft'
  BY <1>1, <1>2, <1>7 DEF AnalysisInv, DeliveriesLeft
<1>10. AnalystsHold'
  <2>1. \A j \in Worker : analyst[j] # P!Idle => analyst[j].message \in Message
    BY AnalystHolds
  <2> QED
    BY <1>1, <1>2, <1>3, <1>6, <1>7, <2>1 DEF AnalysisInv, AnalystsHold
<1>11. P!WaitingHasMessage' /\ P!ResultSurvives'
  <2>1. event'[m] = "INFLIGHT"
    BY <1>1, <1>7
  <2> QED
    BY <2>1 DEF P!WaitingHasMessage, P!ResultSurvives
<1>12. ~beside' => AnalystAlone'
  <2> SUFFICES ASSUME ~beside' PROVE AnalystAlone'
    OBVIOUS
  <2>1. /\ ~beside /\ \A j \in Worker : analyst[j] = P!Idle
        /\ document <=> op.status = "SUCCEEDED"
        /\ Accounted(Nobody)
    BY <1>2 DEF AnalysisInv, AnalystAlone
  <2>2. w.pc # "SUCCEEDED" /\ w # P!Idle
    BY <1>3 DEF P!Idle
  <2>3. \A j \in Worker : analyst'[j] # P!Idle => j = k /\ analyst'[j] = w
    BY <1>6, <2>1
  <2>4. analyst'[k] = w
    BY <1>6
  <2>5. Accounted(analyst[k])'
    BY <1>1, <1>3, <2>1, <2>2, <2>4 DEF Accounted, Nobody
  <2>6. /\ w.op = op'
        /\ w.pc = "cached" <=> document'
        /\ op'.status = "SUCCEEDED" <=> document'
        /\ w.billed = 0
    BY <1>1, <1>3, <2>1
  <2> QED
    BY <2>2, <2>3, <2>4, <2>5, <2>6 DEF AnalystAlone
<1>13. AnalysisAsked'
  BY <1>1, <1>4 DEF P!Status, P!Waiting, P!Failed, AnalysisInv, AnalysisAsked
<1> QED
  BY <1>8, <1>9, <1>10, <1>11, <1>12, <1>13 DEF AnalysisInv

\* A worker ends its work: its message goes back or is acknowledged.
LEMMA AnalystEnds ==
    ASSUME AnalysisInv, NEW k \in Worker, analyst[k] # P!Idle,
           analyst' = [analyst EXCEPT ![k] = P!Idle], deliveries' = deliveries,
           P!Raise(analyst[k].message) \/ P!Acknowledge(analyst[k].message),
           op # P!NoOp => op' # P!NoOp
    PROVE  /\ event' \in [Message -> {"UNSENT", "VISIBLE", "INFLIGHT", "ACKED", "DLQ"}]
           /\ analyst' \in [Worker -> {P!Idle} \cup P!Busy]
           /\ \A j \in Worker : analyst'[j] = IF j = k THEN P!Idle ELSE analyst[j]
           /\ \A j \in Worker : analyst'[j].pc \notin {"idle", "cached", "start"}
                            => analyst'[j].status = "RUNNING" /\ analyst'[j].op.status = "RUNNING"
           /\ DeliveriesLeft' /\ AnalystsHold'
           /\ \A n \in Message : event'[n] # "UNSENT" => event[n] # "UNSENT"
           /\ \A n \in Message : event[n] \notin {"UNSENT", "ACKED"} =>
                 event'[n] \notin {"UNSENT", "ACKED"} \/ P!Acknowledge(analyst[k].message)
           /\ P!Raise(analyst[k].message) =>
                 \E n \in Message : event'[n] \notin {"UNSENT", "ACKED"}
<1> DEFINE m == analyst[k].message
<1>1. m \in Message /\ event[m] = "INFLIGHT"
  BY AnalystHolds
<1>2. /\ event \in [Message -> {"UNSENT", "VISIBLE", "INFLIGHT", "ACKED", "DLQ"}]
      /\ deliveries \in [Message -> 0..MaxReceive]
      /\ analyst \in [Worker -> {P!Idle} \cup P!Busy]
  BY DEF AnalysisInv, P!TypeOK
<1>3. \/ event' = [event EXCEPT ![m] = "ACKED"]
      \/ event' = [event EXCEPT ![m] = "DLQ"]
      \/ event' = [event EXCEPT ![m] = "VISIBLE"] /\ deliveries[m] < MaxReceive
  <2>1. P!Returned(m) = "DLQ" \/ (P!Returned(m) = "VISIBLE" /\ deliveries[m] < MaxReceive)
    BY <1>1, <1>2, PrivateDataConstants DEF PrivateDataConstants, P!Returned
  <2> QED
    BY <2>1 DEF P!Raise, P!Acknowledge
<1>4. P!Raise(m) => event'[m] \notin {"UNSENT", "ACKED"}
  BY <1>1, <1>2 DEF P!Raise, P!Returned
<1>5. \A j \in Worker : analyst[j] # P!Idle => analyst[j].message \in Message
  BY AnalystHolds
<1>6. \A j \in Worker : j # k /\ analyst[j] # P!Idle => analyst[j].message # m
  BY DEF AnalysisInv, AnalystsHold
<1>7. P!Idle.pc = "idle"
  BY DEF P!Idle
<1> HIDE DEF m
<1>8. \A j \in Worker : analyst'[j] = IF j = k THEN P!Idle ELSE analyst[j]
  BY <1>2
<1>9. \A j \in Worker : analyst'[j].pc \notin {"idle", "cached", "start"}
                            => analyst'[j].status = "RUNNING" /\ analyst'[j].op.status = "RUNNING"
  BY <1>7, <1>8 DEF AnalysisInv, P!TypeOK
<1>10. DeliveriesLeft'
  BY <1>1, <1>2, <1>3 DEF AnalysisInv, DeliveriesLeft
<1>11. AnalystsHold'
  BY <1>1, <1>2, <1>3, <1>5, <1>6, <1>8 DEF AnalysisInv, AnalystsHold
<1>12. \A n \in Message : n # m => event'[n] = event[n]
  BY <1>2, <1>3
<1>13. event' \in [Message -> {"UNSENT", "VISIBLE", "INFLIGHT", "ACKED", "DLQ"}]
       /\ analyst' \in [Worker -> {P!Idle} \cup P!Busy]
  BY <1>2, <1>3
<1> QED
  BY <1>1, <1>4, <1>8, <1>9, <1>10, <1>11, <1>12, <1>13 DEF m

\* What a worker leaves that gives up: nothing but its message, returned.
LEMMA AnalystGivesUp ==
    ASSUME AnalysisInv, NEW k \in Worker, P!RejectOperation(k) \/ P!Crash(k)
    PROVE  AnalysisInv'
<1>1. /\ analyst[k] # P!Idle /\ analyst' = [analyst EXCEPT ![k] = P!Idle]
      /\ P!Raise(analyst[k].message)
      /\ UNCHANGED <<profile, document, op, reader, deliveries, beside>>
  BY DEF P!RejectOperation, P!Crash, P!Finish, P!At, P!Idle
<1>2. /\ event' \in [Message -> {"UNSENT", "VISIBLE", "INFLIGHT", "ACKED", "DLQ"}]
      /\ analyst' \in [Worker -> {P!Idle} \cup P!Busy]
      /\ \A j \in Worker : analyst'[j] = IF j = k THEN P!Idle ELSE analyst[j]
      /\ \A j \in Worker : analyst'[j].pc \notin {"idle", "cached", "start"}
                            => analyst'[j].status = "RUNNING" /\ analyst'[j].op.status = "RUNNING"
      /\ DeliveriesLeft' /\ AnalystsHold'
      /\ \A n \in Message : event'[n] # "UNSENT" => event[n] # "UNSENT"
      /\ \E n \in Message : event'[n] \notin {"UNSENT", "ACKED"}
  BY <1>1, AnalystEnds
<1>3. /\ analyst[k].billed \in Nat
      /\ ledger \in [calls : Nat, answers : Nat, lostCalls : Nat, lostAnswers : Nat, crashes : 0..MaxDeaths]
  BY <1>1, AnalystHolds DEF AnalysisInv, P!TypeOK
<1>4. /\ ledger' \in [calls : Nat, answers : Nat, lostCalls : Nat, lostAnswers : Nat, crashes : 0..MaxDeaths]
      /\ \/ P!RejectOperation(k) /\ ledger' = ledger
         \/ /\ ledger'.calls = ledger.calls /\ ledger'.answers = ledger.answers
            /\ ledger'.lostCalls = ledger.lostCalls + analyst[k].billed
            /\ ledger'.lostAnswers = IF analyst[k].pc = "SUCCEEDED" THEN ledger.lostAnswers + 1
                                                                    ELSE ledger.lostAnswers
  <2>1. CASE P!RejectOperation(k)
    BY <1>3, <2>1 DEF P!RejectOperation
  <2>2. CASE P!Crash(k)
    <3>1. ledger' = [ledger EXCEPT !.crashes = @ + 1, !.lostCalls = @ + analyst[k].billed,
                        !.lostAnswers = IF P!At(k, "SUCCEEDED") THEN @ + 1 ELSE @]
          /\ ledger.crashes < MaxDeaths
      BY <2>2 DEF P!Crash
    <3>2. ledger.crashes + 1 \in 0..MaxDeaths
      BY <1>3, <3>1, JobsAndDataConstants DEF JobsAndDataConstants
    <3> DEFINE one == [ledger EXCEPT !.crashes = ledger.crashes + 1]
               two == [one EXCEPT !.lostCalls = ledger.lostCalls + analyst[k].billed]
               lost == IF analyst[k].pc = "SUCCEEDED" THEN ledger.lostAnswers + 1 ELSE ledger.lostAnswers
    <3>3. /\ one \in [calls : Nat, answers : Nat, lostCalls : Nat, lostAnswers : Nat, crashes : 0..MaxDeaths]
          /\ one.calls = ledger.calls /\ one.answers = ledger.answers
          /\ one.lostCalls = ledger.lostCalls /\ one.lostAnswers = ledger.lostAnswers
      BY <1>3, <3>2
    <3> HIDE DEF one
    <3>4. /\ two \in [calls : Nat, answers : Nat, lostCalls : Nat, lostAnswers : Nat, crashes : 0..MaxDeaths]
          /\ two.calls = ledger.calls /\ two.answers = ledger.answers
          /\ two.lostCalls = ledger.lostCalls + analyst[k].billed /\ two.lostAnswers = ledger.lostAnswers
      BY <1>3, <3>3
    <3> HIDE DEF two
    <3>5. ledger' = [two EXCEPT !.lostAnswers = lost]
      BY <3>1, <3>4 DEF P!At, two, one
    <3>6. lost \in Nat
      BY <1>3
    <3> HIDE DEF lost
    <3>7. /\ ledger' \in [calls : Nat, answers : Nat, lostCalls : Nat, lostAnswers : Nat, crashes : 0..MaxDeaths]
          /\ ledger'.calls = ledger.calls /\ ledger'.answers = ledger.answers
          /\ ledger'.lostCalls = ledger.lostCalls + analyst[k].billed /\ ledger'.lostAnswers = lost
      BY <3>4, <3>5, <3>6
    <3> QED
      BY <3>7 DEF lost
  <2> QED
    BY <2>1, <2>2
<1>5. P!TypeOK'
  BY <1>1, <1>2, <1>4 DEF AnalysisInv, P!TypeOK
<1>6. P!WaitingHasMessage' /\ P!ResultSurvives'
  BY <1>2 DEF P!WaitingHasMessage, P!ResultSurvives
<1>7. AnalysisAsked'
  BY <1>1, <1>2 DEF AnalysisInv, AnalysisAsked
<1>8. ~beside' => AnalystAlone'
  <2> SUFFICES ASSUME ~beside PROVE AnalystAlone'
    BY <1>1
  <2>1. /\ document <=> op.status = "SUCCEEDED"
        /\ Accounted(analyst[k])
        /\ P!RejectOperation(k) => analyst[k].billed = 0 /\ analyst[k].pc # "SUCCEEDED"
        /\ \A j \in Worker : analyst[j] # P!Idle => j = k
        /\ analyst[k].pc = "cached" <=> document
    BY <1>1 DEF AnalysisInv, AnalystAlone, P!RejectOperation, P!At
  <2>2. \A j \in Worker : analyst'[j] = P!Idle
    BY <1>2, <2>1
  <2>3. op.attempts \in Nat
    BY DEF AnalysisInv, P!TypeOK, P!Op, P!NoOp
  <2>4. Accounted(Nobody)'
    BY <1>1, <1>3, <1>4, <2>1, <2>3 DEF Accounted, Nobody
  <2> QED
    BY <1>1, <2>1, <2>2, <2>4 DEF AnalystAlone
<1> QED
  BY <1>2, <1>5, <1>6, <1>7, <1>8 DEF AnalysisInv

LEMMA CacheServed ==
    ASSUME AnalysisInv, NEW k \in Worker, P!CommitCached(k)
    PROVE  AnalysisInv'
<1>1. /\ analyst[k].pc = "cached" /\ analyst' = [analyst EXCEPT ![k] = P!Idle]
      /\ P!Acknowledge(analyst[k].message)
      /\ profile' = P!Merge(profile, analyst[k].status, "SUCCEEDED")
      /\ UNCHANGED <<document, op, reader, deliveries, ledger, beside>>
  BY DEF P!CommitCached, P!Finish, P!At
<1>2. analyst[k] # P!Idle
  BY <1>1 DEF P!Idle
<1>3. profile' = "SUCCEEDED"
  BY <1>1, <1>2 DEF P!Merge, AnalysisInv, AnalystsHold
<1>4. /\ event' \in [Message -> {"UNSENT", "VISIBLE", "INFLIGHT", "ACKED", "DLQ"}]
      /\ analyst' \in [Worker -> {P!Idle} \cup P!Busy]
      /\ \A j \in Worker : analyst'[j] = IF j = k THEN P!Idle ELSE analyst[j]
      /\ \A j \in Worker : analyst'[j].pc \notin {"idle", "cached", "start"}
                            => analyst'[j].status = "RUNNING" /\ analyst'[j].op.status = "RUNNING"
      /\ DeliveriesLeft' /\ AnalystsHold'
  BY <1>1, <1>2, AnalystEnds
<1>5. P!TypeOK'
  BY <1>1, <1>3, <1>4 DEF AnalysisInv, P!TypeOK, P!Status
<1>6. P!WaitingHasMessage' /\ P!ResultSurvives' /\ AnalysisAsked'
  BY <1>3 DEF P!WaitingHasMessage, P!ResultSurvives, P!Waiting, AnalysisAsked
<1>7. ~beside' => AnalystAlone'
  <2> SUFFICES ASSUME ~beside PROVE AnalystAlone'
    BY <1>1
  <2>1. /\ document <=> op.status = "SUCCEEDED"
        /\ Accounted(analyst[k]) /\ analyst[k].billed = 0
        /\ \A j \in Worker : analyst[j] # P!Idle => j = k
    BY <1>1, <1>2 DEF AnalysisInv, AnalystAlone
  <2>2. \A j \in Worker : analyst'[j] = P!Idle
    BY <1>4, <2>1
  <2>3. Accounted(Nobody)'
    BY <1>1, <2>1 DEF Accounted, Nobody
  <2> QED
    BY <1>1, <2>1, <2>2, <2>3 DEF AnalystAlone
<1> QED
  BY <1>4, <1>5, <1>6, <1>7 DEF AnalysisInv

\* A worker commits what its calls came to.
LEMMA AnalysisCommitted ==
    ASSUME AnalysisInv, NEW k \in Worker, P!CommitSucceeded(k) \/ P!CommitFailed(k)
    PROVE  AnalysisInv'
<1> DEFINE s == analyst[k].pc
<1>1. /\ s \in P!Failed \cup {"SUCCEEDED"}
      /\ profile' = s /\ document' = (document \/ s = "SUCCEEDED")
      /\ op' = [status |-> s, attempts |-> analyst[k].op.attempts + analyst[k].billed]
      /\ analyst' = [analyst EXCEPT ![k] = P!Idle]
      /\ P!Raise(analyst[k].message) \/ P!Acknowledge(analyst[k].message)
      /\ UNCHANGED <<reader, deliveries, ledger, beside>>
  <2>1. CASE P!CommitSucceeded(k)
    BY <2>1 DEF P!CommitSucceeded, P!Finish, P!At, P!Charged
  <2>2. CASE P!CommitFailed(k)
    BY <2>2 DEF P!CommitFailed, P!Finish, P!Charged, P!Failed, AnalysisInv, P!TypeOK
  <2> QED
    BY <2>1, <2>2
<1>2. analyst[k] # P!Idle /\ s \in P!Status /\ s \notin P!Waiting
  BY <1>1 DEF P!Idle, P!Failed, P!Status, P!Waiting
<1>3. /\ analyst[k].billed \in Nat /\ analyst[k].op \in P!Op
  BY <1>1, <1>2, AnalystHolds DEF P!Failed
<1>4. op' \in P!Op /\ op' # P!NoOp /\ op'.status = s /\ op'.attempts = analyst[k].op.attempts + analyst[k].billed
  <2>1. analyst[k].op.attempts + analyst[k].billed \in Nat
    BY <1>3 DEF P!Op
  <2> QED
    BY <1>1, <1>2, <2>1 DEF P!Op, P!NoOp, P!Status, P!Waiting, P!Failed
<1>5. /\ event' \in [Message -> {"UNSENT", "VISIBLE", "INFLIGHT", "ACKED", "DLQ"}]
      /\ analyst' \in [Worker -> {P!Idle} \cup P!Busy]
      /\ \A j \in Worker : analyst'[j] = IF j = k THEN P!Idle ELSE analyst[j]
      /\ \A j \in Worker : analyst'[j].pc \notin {"idle", "cached", "start"}
                            => analyst'[j].status = "RUNNING" /\ analyst'[j].op.status = "RUNNING"
      /\ DeliveriesLeft' /\ AnalystsHold'
  BY <1>1, <1>2, <1>4, AnalystEnds
<1> HIDE DEF s
<1>6. P!TypeOK'
  BY <1>1, <1>2, <1>4, <1>5 DEF AnalysisInv, P!TypeOK
<1>7. P!WaitingHasMessage' /\ AnalysisAsked'
  BY <1>1, <1>2 DEF P!WaitingHasMessage, AnalysisAsked, P!Failed
<1>8. ASSUME ~beside
      PROVE  /\ document = FALSE
             /\ analyst[k].op = op
             /\ Accounted(analyst[k])
             /\ \A j \in Worker : analyst[j] # P!Idle => j = k
  BY <1>1, <1>2, <1>8 DEF AnalysisInv, AnalystAlone, P!TypeOK, P!Failed, s
<1>9. P!ResultSurvives'
  BY <1>1, <1>8 DEF P!ResultSurvives
<1>10. ~beside' => AnalystAlone'
  <2> SUFFICES ASSUME ~beside PROVE AnalystAlone'
    BY <1>1
  <2>1. \A j \in Worker : analyst'[j] = P!Idle
    BY <1>5, <1>8
  <2>2. document' <=> s = "SUCCEEDED"
    BY <1>1, <1>8
  <2>3. document' <=> op'.status = "SUCCEEDED"
    BY <1>4, <2>2
  <2>4. /\ op'.attempts + ledger'.lostCalls = ledger'.calls
        /\ ledger'.answers = ledger'.lostAnswers + IF s = "SUCCEEDED" THEN 1 ELSE 0
    <3>1. /\ analyst[k].op.attempts \in Nat /\ analyst[k].billed \in Nat
          /\ ledger.lostCalls \in Nat /\ ledger.calls \in Nat
      BY <1>3 DEF AnalysisInv, P!TypeOK, P!Op
    <3>2. op.attempts + ledger.lostCalls + analyst[k].billed = ledger.calls
      BY <1>8 DEF Accounted
    <3>3. ledger.answers = ledger.lostAnswers + IF s = "SUCCEEDED" THEN 1 ELSE 0
      BY <1>8 DEF Accounted, s
    <3> QED
      BY <1>1, <1>4, <1>8, <3>1, <3>2, <3>3
  <2>5. op'.attempts \in Nat /\ ledger'.lostCalls \in Nat
    BY <1>1, <1>4 DEF AnalysisInv, P!TypeOK, P!Op
  <2>6. Accounted(Nobody)'
    BY <2>2, <2>4, <2>5 DEF Accounted, Nobody
  <2> QED
    BY <2>1, <2>3, <2>6 DEF AnalystAlone
<1> QED
  BY <1>5, <1>6, <1>7, <1>9, <1>10 DEF AnalysisInv

\* A worker goes on: it keeps its message, and the queue is as it was.
LEMMA AnalystGoesOn ==
    ASSUME AnalysisInv, NEW k \in Worker, NEW w \in P!Busy, analyst[k] # P!Idle,
           analyst' = [analyst EXCEPT ![k] = w], w.message = analyst[k].message,
           w.pc \in {"call", "SUCCEEDED"} \cup P!Failed,
           w.status = "RUNNING" /\ w.op.status = "RUNNING",
           op # P!NoOp => op' # P!NoOp, w.op # P!NoOp => op' # P!NoOp,
           UNCHANGED <<reader, event, deliveries>>
    PROVE  /\ analyst' \in [Worker -> {P!Idle} \cup P!Busy]
           /\ \A j \in Worker : analyst'[j] = IF j = k THEN w ELSE analyst[j]
           /\ \A j \in Worker : analyst'[j].pc \notin {"idle", "cached", "start"}
                            => analyst'[j].status = "RUNNING" /\ analyst'[j].op.status = "RUNNING"
           /\ DeliveriesLeft' /\ AnalystsHold'
           /\ \E n \in Message : event'[n] \notin {"UNSENT", "ACKED"}
<1>1. analyst' \in [Worker -> {P!Idle} \cup P!Busy]
      /\ \A j \in Worker : analyst'[j] = IF j = k THEN w ELSE analyst[j]
  BY DEF AnalysisInv, P!TypeOK
<1>2. \A j \in Worker : analyst'[j].pc \notin {"idle", "cached", "start"}
                            => analyst'[j].status = "RUNNING" /\ analyst'[j].op.status = "RUNNING"
  BY <1>1 DEF AnalysisInv, P!TypeOK
<1>3. DeliveriesLeft'
  BY DEF AnalysisInv, DeliveriesLeft
<1>4. AnalystsHold'
  <2>1. w.pc # "cached"
    BY DEF P!Failed
  <2> QED
    BY <1>1, <2>1 DEF AnalysisInv, AnalystsHold
<1>5. analyst[k].message \in Message /\ event[analyst[k].message] = "INFLIGHT"
  BY AnalystHolds
<1> QED
  BY <1>1, <1>2, <1>3, <1>4, <1>5

LEMMA AnalysisRunning ==
    ASSUME AnalysisInv, NEW k \in Worker, P!CommitRunning(k)
    PROVE  AnalysisInv'
<1> DEFINE new == [status |-> "RUNNING", attempts |-> analyst[k].op.attempts]
           w == [pc |-> "call", message |-> analyst[k].message, status |-> "RUNNING",
                 op |-> new, billed |-> analyst[k].billed]
<1>1. /\ analyst[k].pc = "start" /\ analyst[k] # P!Idle
      /\ analyst[k].op = P!NoOp => op = P!NoOp
      /\ profile' = P!Merge(profile, analyst[k].status, "RUNNING")
      /\ op' = [status |-> P!Merge(op.status, analyst[k].op.status, "RUNNING"), attempts |-> op.attempts]
      /\ analyst' = [analyst EXCEPT ![k].pc = "call", ![k].status = "RUNNING", ![k].op.status = "RUNNING"]
      /\ UNCHANGED <<document, reader, event, deliveries, ledger, beside>>
  BY DEF P!CommitRunning, P!At, P!Idle
<1>2. /\ analyst[k] \in P!Busy /\ analyst[k].status \in P!Status
      /\ analyst[k].op \in P!Op \cup {P!NoOp}
      /\ analyst[k].op # P!NoOp => op # P!NoOp
  BY <1>1, AnalystHolds DEF AnalysisInv, AnalystsHold
<1>3. op \in P!Op \cup {P!NoOp} /\ profile # "NONE" /\ profile \in P!Status
  <2>1. event[analyst[k].message] = "INFLIGHT" /\ analyst[k].message \in Message
    BY <1>1, AnalystHolds
  <2> QED
    BY <2>1 DEF AnalysisInv, AnalysisAsked, P!TypeOK
<1>4. profile' \in P!Status /\ profile' # "NONE"
  BY <1>1, <1>3 DEF P!Merge, P!Status, P!Waiting, P!Failed
<1>5. op' \in P!Op /\ op' # P!NoOp
  <2>1. CASE analyst[k].op = P!NoOp
    <3>1. op' = [status |-> "RUNNING", attempts |-> 0]
      BY <1>1, <2>1 DEF P!Merge, P!NoOp
    <3> QED
      BY <3>1 DEF P!Op, P!NoOp, P!Status, P!Waiting
  <2>2. CASE analyst[k].op # P!NoOp
    <3>1. op \in P!Op
      BY <1>2, <1>3, <2>2
    <3>2. P!Merge(op.status, analyst[k].op.status, "RUNNING") \in P!Status /\ op.attempts \in Nat
      BY <3>1 DEF P!Merge, P!Op, P!Status, P!Waiting
    <3> HIDE DEF new, w
    <3>3. op' \in P!Op
      BY <1>1, <3>2 DEF P!Op
    <3> QED
      BY <3>3 DEF P!Op, P!NoOp, P!Status, P!Waiting, P!Failed
  <2> QED
    BY <2>1, <2>2
<1>6. new \in P!Op /\ new # P!NoOp /\ [analyst[k].op EXCEPT !.status = "RUNNING"] = new
  <2>1. /\ analyst[k].op.attempts \in Nat
        /\ [analyst[k].op EXCEPT !.status = "RUNNING"] = new
    BY <1>2 DEF P!Op, P!NoOp
  <2> QED
    BY <2>1 DEF P!Op, P!NoOp, P!Status, P!Waiting
<1>7. /\ w.pc = "call" /\ w.message = analyst[k].message /\ w.status = "RUNNING" /\ w.op = new
      /\ w.billed = analyst[k].billed /\ new.status = "RUNNING" /\ new.attempts = analyst[k].op.attempts
  OBVIOUS
<1> HIDE DEF new
<1>8. w \in P!Busy
  BY <1>2, <1>6 DEF P!Busy, P!Status, P!Waiting
<1>9. analyst' = [analyst EXCEPT ![k] = w]
  <2> DEFINE one == [analyst EXCEPT ![k].pc = "call"]
             two == [one EXCEPT ![k].status = "RUNNING"]
             v1 == [analyst[k] EXCEPT !.pc = "call"]
             v2 == [v1 EXCEPT !.status = "RUNNING"]
             v3 == [v2 EXCEPT !.op = new]
  <2>1. analyst \in [Worker -> {P!Idle} \cup P!Busy]
    BY DEF AnalysisInv, P!TypeOK
  <2>2. analyst' = [two EXCEPT ![k].op.status = "RUNNING"]
    BY <1>1
  <2>3. one = [analyst EXCEPT ![k] = v1]
    OBVIOUS
  <2>4. /\ v2.op = analyst[k].op
        /\ v3 = w
    <3>1. /\ v1 \in P!Busy /\ v1.pc = "call" /\ v1.message = analyst[k].message
          /\ v1.op = analyst[k].op /\ v1.billed = analyst[k].billed
      BY <1>2 DEF P!Busy
    <3> HIDE DEF v1
    <3>2. /\ v2 \in P!Busy /\ v2.pc = "call" /\ v2.message = analyst[k].message
          /\ v2.status = "RUNNING" /\ v2.op = analyst[k].op /\ v2.billed = analyst[k].billed
      BY <3>1 DEF P!Busy, P!Status, P!Waiting
    <3> HIDE DEF v2
    <3>3. v3 = [pc |-> v2.pc, message |-> v2.message, status |-> v2.status, op |-> new, billed |-> v2.billed]
      BY <3>2 DEF P!Busy
    <3> QED
      BY <3>2, <3>3
  <2> HIDE DEF one, v1
  <2>5. one[k] = v1
    BY <2>1, <2>3
  <2>6. two = [one EXCEPT ![k] = v2]
    BY <2>5
  <2> HIDE DEF two, v2
  <2>7. two = [analyst EXCEPT ![k] = v2]
    BY <2>1, <2>3, <2>6
  <2>8. two[k] = v2
    BY <2>1, <2>7
  <2>9. [two EXCEPT ![k].op.status = "RUNNING"]
           = [two EXCEPT ![k] = [v2 EXCEPT !.op = [v2.op EXCEPT !.status = "RUNNING"]]]
    BY <2>8
  <2>10. [two EXCEPT ![k].op.status = "RUNNING"] = [two EXCEPT ![k] = v3]
    BY <1>6, <2>4, <2>9
  <2> HIDE DEF v3, w
  <2>11. [two EXCEPT ![k] = v3] = [analyst EXCEPT ![k] = v3]
    BY <2>1, <2>7
  <2> QED
    BY <2>2, <2>4, <2>10, <2>11
<1> HIDE DEF w
<1>10. /\ analyst' \in [Worker -> {P!Idle} \cup P!Busy]
       /\ \A j \in Worker : analyst'[j] = IF j = k THEN w ELSE analyst[j]
       /\ \A j \in Worker : analyst'[j].pc \notin {"idle", "cached", "start"}
                            => analyst'[j].status = "RUNNING" /\ analyst'[j].op.status = "RUNNING"
       /\ DeliveriesLeft' /\ AnalystsHold'
       /\ \E n \in Message : event'[n] \notin {"UNSENT", "ACKED"}
  BY <1>1, <1>5, <1>7, <1>8, <1>9, AnalystGoesOn
<1>11. P!TypeOK'
  BY <1>1, <1>4, <1>5, <1>10 DEF AnalysisInv, P!TypeOK
<1>12. P!WaitingHasMessage' /\ P!ResultSurvives' /\ AnalysisAsked'
  BY <1>4, <1>10 DEF P!WaitingHasMessage, P!ResultSurvives, AnalysisAsked
<1>13. ~beside' => AnalystAlone'
  <2> SUFFICES ASSUME ~beside PROVE AnalystAlone'
    BY <1>1
  <2>1. /\ document <=> op.status = "SUCCEEDED"
        /\ analyst[k].op = op /\ ~document
        /\ Accounted(analyst[k]) /\ \A j \in Worker : analyst[j] # P!Idle => j = k
    BY <1>1 DEF AnalysisInv, AnalystAlone
  <2>2. op' = new
    BY <1>1, <2>1 DEF P!Merge, new
  <2>3. analyst'[k] = w /\ \A j \in Worker : analyst'[j] # P!Idle => j = k
    BY <1>10, <2>1
  <2>4. Accounted(analyst[k])'
    BY <1>1, <1>7, <2>1, <2>2, <2>3 DEF Accounted
  <2>5. w # P!Idle
    BY <1>7 DEF P!Idle
  <2> QED
    BY <1>1, <1>7, <2>1, <2>2, <2>3, <2>4, <2>5 DEF AnalystAlone
<1> QED
  BY <1>10, <1>11, <1>12, <1>13 DEF AnalysisInv

LEMMA ProviderCalled ==
    ASSUME AnalysisInv, NEW k \in Worker, P!CallProvider(k)
    PROVE  AnalysisInv'
<1>1. PICK outcome \in P!Outcome(analyst[k].billed) :
        /\ analyst' = [analyst EXCEPT ![k].pc = outcome, ![k].billed = @ + 1]
        /\ ledger' = [ledger EXCEPT !.calls = @ + 1,
                                    !.answers = IF outcome = "SUCCEEDED" THEN @ + 1 ELSE @]
  BY DEF P!CallProvider
<1>2. /\ analyst[k].pc = "call" /\ analyst[k] # P!Idle
      /\ UNCHANGED <<profile, document, op, reader, event, deliveries, beside>>
  BY DEF P!CallProvider, P!At, P!Idle
<1>3. outcome \in {"call", "SUCCEEDED"} \cup P!Failed
  BY DEF P!Outcome, P!Failed
<1>4. /\ analyst[k] \in P!Busy /\ analyst[k].billed \in Nat /\ analyst[k].status = "RUNNING"
      /\ analyst[k].op \in P!Op /\ analyst[k].op.status = "RUNNING"
      /\ analyst[k].message \in Message /\ event[analyst[k].message] = "INFLIGHT"
  BY <1>2, AnalystHolds
<1> DEFINE w == [pc |-> outcome, message |-> analyst[k].message, status |-> analyst[k].status,
                 op |-> analyst[k].op, billed |-> analyst[k].billed + 1]
<1>5. /\ w.pc = outcome /\ w.message = analyst[k].message /\ w.status = "RUNNING"
      /\ w.op = analyst[k].op /\ w.billed = analyst[k].billed + 1
  BY <1>4
<1>6. w \in P!Busy
  <2>1. analyst[k].status \in P!Status /\ analyst[k].billed + 1 \in Nat
    BY <1>4 DEF P!Status, P!Waiting
  <2> QED
    BY <1>3, <1>4, <2>1 DEF P!Busy
<1>7. analyst' = [analyst EXCEPT ![k] = w]
  <2> DEFINE one == [analyst EXCEPT ![k].pc = outcome]
             v1 == [analyst[k] EXCEPT !.pc = outcome]
             v2 == [v1 EXCEPT !.billed = analyst[k].billed + 1]
  <2>1. analyst \in [Worker -> {P!Idle} \cup P!Busy]
    BY DEF AnalysisInv, P!TypeOK
  <2>2. analyst' = [one EXCEPT ![k].billed = @ + 1]
    BY <1>1
  <2>3. one = [analyst EXCEPT ![k] = v1]
    OBVIOUS
  <2>4. v1.billed = analyst[k].billed /\ v2 = w
    <3>1. /\ v1 \in P!Busy /\ v1.pc = outcome /\ v1.message = analyst[k].message
          /\ v1.status = analyst[k].status /\ v1.op = analyst[k].op /\ v1.billed = analyst[k].billed
      BY <1>3, <1>4 DEF P!Busy
    <3> HIDE DEF v1
    <3>2. v2 = [pc |-> v1.pc, message |-> v1.message, status |-> v1.status, op |-> v1.op,
                billed |-> analyst[k].billed + 1]
      BY <3>1 DEF P!Busy
    <3> QED
      BY <3>1, <3>2
  <2> HIDE DEF one, v1
  <2>5. one[k] = v1
    BY <2>1, <2>3
  <2>6. analyst' = [one EXCEPT ![k] = v2]
    BY <2>2, <2>4, <2>5
  <2> HIDE DEF v2, w
  <2>7. [one EXCEPT ![k] = v2] = [analyst EXCEPT ![k] = v2]
    BY <2>1, <2>3
  <2> QED
    BY <2>4, <2>6, <2>7
<1> HIDE DEF w
<1>8. \E n \in Message : event[n] = "INFLIGHT"
  BY <1>4
<1>9. op # P!NoOp
  BY <1>2, <1>4 DEF AnalysisInv, AnalystsHold, P!Op, P!NoOp
<1>10. /\ analyst' \in [Worker -> {P!Idle} \cup P!Busy]
       /\ \A j \in Worker : analyst'[j] = IF j = k THEN w ELSE analyst[j]
       /\ \A j \in Worker : analyst'[j].pc \notin {"idle", "cached", "start"}
                            => analyst'[j].status = "RUNNING" /\ analyst'[j].op.status = "RUNNING"
       /\ DeliveriesLeft' /\ AnalystsHold'
       /\ \E n \in Message : event'[n] \notin {"UNSENT", "ACKED"}
  BY <1>2, <1>3, <1>4, <1>5, <1>6, <1>7, <1>9, AnalystGoesOn
<1>11. /\ ledger' \in [calls : Nat, answers : Nat, lostCalls : Nat, lostAnswers : Nat, crashes : 0..MaxDeaths]
       /\ ledger'.calls = ledger.calls + 1
       /\ ledger'.answers = IF outcome = "SUCCEEDED" THEN ledger.answers + 1 ELSE ledger.answers
       /\ ledger'.lostCalls = ledger.lostCalls /\ ledger'.lostAnswers = ledger.lostAnswers
  <2> DEFINE one == [ledger EXCEPT !.calls = ledger.calls + 1]
             won == IF outcome = "SUCCEEDED" THEN ledger.answers + 1 ELSE ledger.answers
  <2>1. ledger \in [calls : Nat, answers : Nat, lostCalls : Nat, lostAnswers : Nat, crashes : 0..MaxDeaths]
    BY DEF AnalysisInv, P!TypeOK
  <2>2. /\ one \in [calls : Nat, answers : Nat, lostCalls : Nat, lostAnswers : Nat, crashes : 0..MaxDeaths]
        /\ one.calls = ledger.calls + 1 /\ one.answers = ledger.answers
        /\ one.lostCalls = ledger.lostCalls /\ one.lostAnswers = ledger.lostAnswers
    BY <2>1
  <2>3. won \in Nat
    BY <2>1
  <2> HIDE DEF one
  <2>4. ledger' = [one EXCEPT !.answers = won]
    BY <1>1, <2>2 DEF one
  <2> HIDE DEF won
  <2>5. /\ ledger' \in [calls : Nat, answers : Nat, lostCalls : Nat, lostAnswers : Nat, crashes : 0..MaxDeaths]
        /\ ledger'.calls = ledger.calls + 1 /\ ledger'.answers = won
        /\ ledger'.lostCalls = ledger.lostCalls /\ ledger'.lostAnswers = ledger.lostAnswers
    BY <2>2, <2>3, <2>4
  <2> QED
    BY <2>5 DEF won
<1>12. P!TypeOK'
  BY <1>2, <1>10, <1>11 DEF AnalysisInv, P!TypeOK
<1>13. P!WaitingHasMessage' /\ P!ResultSurvives' /\ AnalysisAsked'
  BY <1>2, <1>10 DEF P!WaitingHasMessage, P!ResultSurvives, AnalysisInv, AnalysisAsked
<1>14. ~beside' => AnalystAlone'
  <2> SUFFICES ASSUME ~beside PROVE AnalystAlone'
    BY <1>2
  <2>1. /\ document <=> op.status = "SUCCEEDED"
        /\ analyst[k].op = op /\ ~document
        /\ Accounted(analyst[k]) /\ \A j \in Worker : analyst[j] # P!Idle => j = k
    BY <1>2 DEF AnalysisInv, AnalystAlone
  <2>2. analyst'[k] = w /\ \A j \in Worker : analyst'[j] # P!Idle => j = k
    BY <1>10, <2>1
  <2>3. /\ op.attempts \in Nat /\ ledger.lostCalls \in Nat /\ ledger.calls \in Nat
        /\ ledger.answers \in Nat /\ ledger.lostAnswers \in Nat
    BY <1>4, <2>1 DEF AnalysisInv, P!TypeOK, P!Op
  <2>4. Accounted(analyst[k])'
    BY <1>2, <1>4, <1>5, <1>11, <2>1, <2>2, <2>3 DEF Accounted
  <2>5. w # P!Idle /\ w.pc \notin {"cached", "start"}
    BY <1>3, <1>5 DEF P!Idle, P!Failed
  <2> QED
    BY <1>2, <1>5, <2>1, <2>2, <2>4, <2>5 DEF AnalystAlone
<1> QED
  BY <1>10, <1>12, <1>13, <1>14 DEF AnalysisInv

LEMMA AnalysisStep ==
    ASSUME AnalysisInv, [P!Next]_(P!vars)
    PROVE  AnalysisInv'
<1>1. CASE UNCHANGED P!vars
  BY <1>1 DEF P!vars, AnalysisInv, P!TypeOK, DeliveriesLeft, AnalystsHold, AnalysisAsked, P!WaitingHasMessage,
              P!ResultSurvives, AnalystAlone, Accounted, Nobody
<1>2. CASE P!Next
  <2>1. ASSUME NEW c \in Caller, P!ReadToQueue(c) \/ P!ReadToRetry(c) \/ P!RejectRequest(c)
        PROVE  AnalysisInv'
    BY <2>1, ReaderMoves
  <2>2. ASSUME NEW c \in Caller, P!CommitRequest(c)
        PROVE  AnalysisInv'
    BY <2>2, AnalysisQueued
  <2>3. ASSUME NEW m \in Message, P!Deliver(m)
        PROVE  AnalysisInv'
    BY <2>3, AnalysisPassed, AnalysisLoaded DEF P!Deliver
  <2>4. ASSUME NEW k \in Worker, P!Work(k) \/ P!Crash(k)
        PROVE  AnalysisInv'
    BY <2>4, CacheServed, AnalysisRunning, AnalystGivesUp, ProviderCalled, AnalysisCommitted DEF P!Work
  <2> QED
    BY <1>2, <2>1, <2>2, <2>3, <2>4 DEF P!Next
<1> QED
  BY <1>1, <1>2

\* No worker will charge more than was called.
NothingOvercharged ==
    /\ op.attempts <= ledger.calls
    /\ \A k \in Worker : analyst[k] # P!Idle =>
          analyst[k].op.attempts + analyst[k].billed <= ledger.calls

LEMMA NothingCharged == P!Init => NothingOvercharged
BY DEF P!Init, NothingOvercharged, P!NoOp

\* The numbers of the rows and of what a worker holds.
LEMMA ChargesTyped ==
    ASSUME AnalysisInv
    PROVE  /\ op.attempts \in Nat /\ ledger.calls \in Nat
           /\ ledger.lostCalls \in Nat /\ ledger.answers \in Nat /\ ledger.lostAnswers \in Nat
           /\ \A k \in Worker : analyst[k] # P!Idle =>
                 analyst[k] \in P!Busy /\ analyst[k].op.attempts \in Nat /\ analyst[k].billed \in Nat
<1>1. \A x \in P!Op \cup {P!NoOp} : x.attempts \in Nat
  BY DEF P!Op, P!NoOp
<1>2. /\ op \in P!Op \cup {P!NoOp}
      /\ ledger \in [calls : Nat, answers : Nat, lostCalls : Nat, lostAnswers : Nat, crashes : 0..MaxDeaths]
      /\ analyst \in [Worker -> {P!Idle} \cup P!Busy]
  BY DEF AnalysisInv, P!TypeOK
<1>3. \A x \in P!Busy : x.op \in P!Op \cup {P!NoOp} /\ x.billed \in Nat
  BY DEF P!Busy
<1> QED
  BY <1>1, <1>2, <1>3

\* One worker changes, and the calls only grow.
LEMMA ChargesOf ==
    ASSUME AnalysisInv, NothingOvercharged, NEW k \in Worker, NEW x,
           analyst' = [analyst EXCEPT ![k] = x],
           ledger'.calls \in Nat, ledger.calls <= ledger'.calls, op'.attempts <= ledger'.calls,
           x = P!Idle \/ x.op.attempts + x.billed <= ledger'.calls
    PROVE  NothingOvercharged'
<1> SUFFICES ASSUME NEW j \in Worker, analyst'[j] # P!Idle
             PROVE  analyst'[j].op.attempts + analyst'[j].billed <= ledger'.calls
  BY DEF NothingOvercharged
<1>1. analyst'[j] = IF j = k THEN x ELSE analyst[j]
  BY DEF AnalysisInv, P!TypeOK
<1>2. CASE j = k
  BY <1>1, <1>2
<1>3. CASE j # k
  <2>1. /\ analyst[j].op.attempts + analyst[j].billed <= ledger.calls
        /\ analyst[j].op.attempts + analyst[j].billed \in Nat /\ ledger.calls \in Nat
    BY <1>1, <1>3, ChargesTyped DEF NothingOvercharged
  <2> QED
    BY <1>1, <1>3, <2>1
<1> QED
  BY <1>2, <1>3

LEMMA ChargesKept ==
    ASSUME AnalysisInv, NothingOvercharged, [P!Next]_(P!vars)
    PROVE  NothingOvercharged'
<1>1. op.attempts \in Nat /\ ledger.calls \in Nat /\ op.attempts <= ledger.calls
  BY ChargesTyped DEF NothingOvercharged
<1>2. CASE UNCHANGED <<op, ledger, analyst>>
  BY <1>2 DEF NothingOvercharged
<1>3. ASSUME NEW k \in Worker, NEW m \in Message, P!Load(k, m)
      PROVE  NothingOvercharged'
  <2> DEFINE x == [pc |-> IF P!IsCached THEN "cached" ELSE "start", message |-> m,
                   status |-> profile, op |-> op, billed |-> 0]
  <2>1. analyst' = [analyst EXCEPT ![k] = x] /\ UNCHANGED <<op, ledger>>
    BY <1>3 DEF P!Load
  <2>2. x.op = op /\ x.billed = 0
    OBVIOUS
  <2> HIDE DEF x
  <2>3. /\ x.op.attempts + x.billed <= ledger'.calls
        /\ ledger'.calls \in Nat /\ ledger.calls <= ledger'.calls /\ op'.attempts <= ledger'.calls
    BY <1>1, <2>1, <2>2
  <2> QED
    BY <2>1, <2>3, ChargesOf
<1>4. ASSUME NEW k \in Worker, P!CommitCached(k) \/ P!RejectOperation(k) \/ P!Crash(k)
      PROVE  NothingOvercharged'
  <2>1. P!Finish(k) /\ UNCHANGED op
    BY <1>4 DEF P!CommitCached, P!RejectOperation, P!Crash
  <2>2. ledger'.calls = ledger.calls
    BY <1>4 DEF P!CommitCached, P!RejectOperation, P!Crash, AnalysisInv, P!TypeOK
  <2>3. /\ analyst' = [analyst EXCEPT ![k] = P!Idle]
        /\ ledger'.calls \in Nat /\ ledger.calls <= ledger'.calls /\ op'.attempts <= ledger'.calls
    BY <1>1, <2>1, <2>2 DEF P!Finish
  <2> QED
    BY <2>3, ChargesOf
<1>5. ASSUME NEW k \in Worker, P!CommitSucceeded(k) \/ P!CommitFailed(k)
      PROVE  NothingOvercharged'
  <2>1. /\ analyst[k] # P!Idle /\ P!Finish(k) /\ UNCHANGED ledger
        /\ \E s : op' = P!Charged(analyst[k], s)
    BY <1>5 DEF P!CommitSucceeded, P!CommitFailed, P!At, P!Idle, P!Failed
  <2>2. op'.attempts = analyst[k].op.attempts + analyst[k].billed
    BY <2>1 DEF P!Charged
  <2>3. /\ analyst' = [analyst EXCEPT ![k] = P!Idle]
        /\ ledger'.calls \in Nat /\ ledger.calls <= ledger'.calls /\ op'.attempts <= ledger'.calls
    BY <1>1, <2>1, <2>2 DEF P!Finish, NothingOvercharged
  <2> QED
    BY <2>3, ChargesOf
<1>6. ASSUME NEW k \in Worker, P!CommitRunning(k)
      PROVE  NothingOvercharged'
  <2> DEFINE x == [analyst[k] EXCEPT !.pc = "call", !.status = "RUNNING", !.op.status = "RUNNING"]
  <2>1. /\ analyst[k] # P!Idle /\ UNCHANGED ledger /\ op'.attempts = op.attempts
        /\ analyst' = [analyst EXCEPT ![k].pc = "call", ![k].status = "RUNNING", ![k].op.status = "RUNNING"]
    BY <1>6 DEF P!CommitRunning, P!At, P!Idle
  <2>2. analyst' = [analyst EXCEPT ![k] = x]
    <3> DEFINE one == [analyst EXCEPT ![k].pc = "call"]
               two == [one EXCEPT ![k].status = "RUNNING"]
               v1  == [analyst[k] EXCEPT !.pc = "call"]
               v2  == [v1 EXCEPT !.status = "RUNNING"]
    <3>1. analyst \in [Worker -> {P!Idle} \cup P!Busy]
      BY DEF AnalysisInv, P!TypeOK
    <3>2. one = [analyst EXCEPT ![k] = v1] /\ one[k] = v1 /\ DOMAIN one = Worker
      BY <3>1
    <3>3. x = [v2 EXCEPT !.op.status = "RUNNING"] /\ analyst' = [two EXCEPT ![k].op.status = "RUNNING"]
      BY <2>1
    <3> HIDE DEF one, v1
    <3>4. two = [analyst EXCEPT ![k] = v2] /\ two[k] = v2 /\ DOMAIN two = Worker
      BY <3>1, <3>2
    <3> HIDE DEF two, v2, x
    <3> QED
      BY <3>1, <3>3, <3>4
  <2>3. x.op.attempts = analyst[k].op.attempts /\ x.billed = analyst[k].billed
    <3>1. analyst[k] \in P!Busy /\ analyst[k].op \in P!Op \cup {P!NoOp}
      BY <2>1, ChargesTyped DEF P!Busy
    <3> QED
      BY <3>1 DEF P!Busy, P!Op, P!NoOp
  <2> HIDE DEF x
  <2>4. /\ x.op.attempts + x.billed <= ledger'.calls
        /\ ledger'.calls \in Nat /\ ledger.calls <= ledger'.calls /\ op'.attempts <= ledger'.calls
    BY <1>1, <2>1, <2>3 DEF NothingOvercharged
  <2> QED
    BY <2>2, <2>4, ChargesOf
<1>7. ASSUME NEW k \in Worker, P!CallProvider(k)
      PROVE  NothingOvercharged'
  <2>1. PICK outcome \in P!Outcome(analyst[k].billed) :
          /\ analyst' = [analyst EXCEPT ![k].pc = outcome, ![k].billed = @ + 1]
          /\ ledger' = [ledger EXCEPT !.calls = @ + 1,
                                      !.answers = IF outcome = "SUCCEEDED" THEN @ + 1 ELSE @]
    BY <1>7 DEF P!CallProvider
  <2> DEFINE x == [analyst[k] EXCEPT !.pc = outcome, !.billed = @ + 1]
  <2>2. analyst[k] # P!Idle /\ UNCHANGED op
    BY <1>7 DEF P!CallProvider, P!At, P!Idle
  <2>3. analyst' = [analyst EXCEPT ![k] = x] /\ ledger'.calls = ledger.calls + 1
    BY <2>1 DEF AnalysisInv, P!TypeOK
  <2>4. x.op.attempts = analyst[k].op.attempts /\ x.billed = analyst[k].billed + 1
    <3>1. analyst[k] \in P!Busy
      BY <2>2, ChargesTyped
    <3> QED
      BY <3>1 DEF P!Busy
  <2>5. /\ analyst[k].op.attempts + analyst[k].billed <= ledger.calls
        /\ analyst[k].op.attempts \in Nat /\ analyst[k].billed \in Nat
    BY <2>2, ChargesTyped DEF NothingOvercharged
  <2> HIDE DEF x
  <2>6. x.op.attempts + x.billed <= ledger'.calls
    BY <1>1, <2>3, <2>4, <2>5
  <2>7. ledger'.calls \in Nat /\ ledger.calls <= ledger'.calls /\ op'.attempts <= ledger'.calls
    BY <1>1, <2>2, <2>3
  <2> QED
    BY <2>3, <2>6, <2>7, ChargesOf
<1>8. ASSUME NEW c \in Caller,
             P!ReadToQueue(c) \/ P!ReadToRetry(c) \/ P!CommitRequest(c) \/ P!RejectRequest(c)
      PROVE  NothingOvercharged'
  BY <1>2, <1>8 DEF P!ReadToQueue, P!ReadToRetry, P!CommitRequest, P!RejectRequest
<1>9. ASSUME NEW m \in Message, P!Deliver(m)
      PROVE  NothingOvercharged'
  BY <1>2, <1>3, <1>9 DEF P!Deliver, P!ReceiveDone, P!ReceiveRefused
<1> QED
  BY <1>2, <1>4, <1>5, <1>6, <1>7, <1>8, <1>9 DEF P!Next, P!Work, P!vars

\* What the properties say of it.
LEMMA AnalysisPays == AnalysisInv /\ NothingOvercharged => P!BoughtOnce /\ P!ChargedInFull
<1> SUFFICES ASSUME AnalysisInv, NothingOvercharged, ~beside
             PROVE  /\ ledger.answers <= 1 + ledger.lostAnswers
                    /\ (\A k \in Worker : analyst[k] = P!Idle) => op.attempts + ledger.lostCalls = ledger.calls
  BY DEF P!BoughtOnce, P!ChargedInFull, NothingOvercharged
<1>1. /\ op.attempts \in Nat /\ ledger.lostCalls \in Nat /\ ledger.calls \in Nat
      /\ ledger.answers \in Nat /\ ledger.lostAnswers \in Nat
  BY ChargesTyped
<1>2. CASE \A k \in Worker : analyst[k] = P!Idle
  BY <1>1, <1>2 DEF AnalysisInv, AnalystAlone, Accounted, Nobody
<1>3. CASE ~\A k \in Worker : analyst[k] = P!Idle
  BY <1>1, <1>3 DEF AnalysisInv, AnalystAlone, Accounted
<1> QED
  BY <1>2, <1>3

-----------------------------------------------------------------------------
(* Tracking *)

TrackCall == [op : {"create", "update", "write", "set"}, application : Worker \cup {"NONE"},
              was : T!Stored, entry : Message \cup {"NONE"}, shown : T!Stored,
              to : T!ApplicationStatus]

\* A request names the row it is about, and locks the application it writes.
CallsName ==
    \A c \in Caller :
        /\ client[c].op \in {"create", "set"} => client[c].entry \in Message
        /\ client[c].op \in {"update", "write"} => client[c].application \in Worker
        /\ client[c].op = "update" => client[c].entry = "NONE"
        /\ client[c].op = "write" => T!Owned(client[c].application)

\* A request that nothing came between is the only one, and what it read is still so.
ReadsHold ==
    \A c \in Caller : client[c] # T!NoCall /\ c \notin raced =>
        /\ \A d \in Caller : client[d] # T!NoCall => d = c
        /\ client[c].op \in {"create", "set"} =>
              T!Listed(client[c].entry) /\ client[c].shown = entry[client[c].entry]
        /\ client[c].op \in {"update", "write"} =>
              client[c].was = application[client[c].application]
        /\ client[c].op = "write" =>
              \/ client[c].entry = "NONE" /\ T!NoEntry
              \/ /\ client[c].entry \in Message /\ T!Listed(client[c].entry)
                 /\ client[c].shown = entry[client[c].entry]

TrackingInv ==
    /\ T!TypeOK /\ client \in [Caller -> {T!NoCall} \cup TrackCall]
    /\ CallsName
    /\ ReadsHold
    /\ T!StatusesAgree

LEMMA TrackingInit == T!Init => TrackingInv
<1> SUFFICES ASSUME T!Init PROVE TrackingInv
  OBVIOUS
<1>1. \A c \in Caller : client[c] = T!NoCall /\ client[c].op = "idle"
  BY DEF T!Init, T!NoCall
<1>2. /\ \A e \in Message : entry[e] = "NONE"
      /\ \A a \in Worker : application[a] = "NONE" /\ children[a] = "NONE"
      /\ "NONE" \notin T!ApplicationStatus /\ "NONE" \in T!Stored
      /\ said = "inbox" /\ raced = {}
  BY DEF T!Init, T!Stored, T!ApplicationStatus, T!InboxStatus
<1>3. /\ entry \in [Message -> T!Stored] /\ application \in [Worker -> T!Stored]
      /\ children \in [Worker -> T!Child \cup {"NONE"}]
      /\ client \in [Caller -> {T!NoCall} \cup TrackCall]
  BY <1>2 DEF T!Init
<1>4. T!TypeOK
  BY <1>1, <1>2, <1>3 DEF T!TypeOK
<1> QED
  BY <1>1, <1>2, <1>3, <1>4 DEF TrackingInv, CallsName, ReadsHold, T!StatusesAgree

\* The parts of the type invariant.
RowsApart ==
    /\ entry \in [Message -> T!Stored] /\ application \in [Worker -> T!Stored]
    /\ \A e, f \in Message : T!Listed(e) /\ T!Listed(f) => e = f
    /\ \A a, b \in Worker : T!Owned(a) /\ T!Owned(b) => a = b
    /\ children \in [Worker -> T!Child \cup {"NONE"}]
    /\ \A a \in Worker : children[a] # "NONE" => T!Owned(a)
    /\ said \in {"inbox", "application", "raced"} /\ raced \subseteq Caller

LEMMA TrackingTypes ==
    /\ TrackingInv => RowsApart
    /\ RowsApart /\ client \in [Caller -> {T!NoCall} \cup TrackCall] => T!TypeOK
BY DEF TrackingInv, T!TypeOK, RowsApart, TrackCall, T!Listed, T!Owned

LEMMA TrackingTypesNext ==
    RowsApart' /\ client' \in [Caller -> {T!NoCall} \cup TrackCall] => T!TypeOK'
BY DEF T!TypeOK, RowsApart, TrackCall, T!Listed, T!Owned

LEMMA NoCallIdle == T!NoCall.op = "idle" /\ T!NoCall \notin TrackCall
BY DEF T!NoCall, TrackCall

\* What a request holds, field by field.
AnyCall == [op : {"idle", "create", "update", "write", "set"}, application : Worker \cup {"NONE"},
            was : T!Stored, entry : Message \cup {"NONE"}, shown : T!Stored, to : T!Stored]

LEMMA ClientTyped ==
    /\ T!NoCall \in AnyCall /\ TrackCall \subseteq AnyCall
    /\ \A r \in AnyCall : r.op # "idle" /\ r.to \in T!ApplicationStatus => r \in TrackCall
BY DEF T!NoCall, TrackCall, AnyCall, T!Stored

\* A request reads what it is about.
LEMMA TrackingRead ==
    ASSUME TrackingInv, NEW c \in Caller, NEW r \in TrackCall, T!Enter(c, r),
           UNCHANGED <<entry, application, children, said>>,
           \/ /\ r.op \in {"create", "set"} /\ r.entry \in Message
              /\ T!Listed(r.entry) /\ r.shown = entry[r.entry]
           \/ r.op = "update" /\ r.entry = "NONE" /\ r.application \in Worker /\ r.was = application[r.application]
    PROVE  TrackingInv'
<1>1. /\ client[c] = T!NoCall /\ client' = [client EXCEPT ![c] = r]
      /\ raced' = IF T!Busy = {} THEN {} ELSE T!Busy \cup {c}
      /\ r.op # "write"
  BY DEF T!Enter
<1>2. client' \in [Caller -> {T!NoCall} \cup TrackCall]
      /\ \A d \in Caller : client'[d] = IF d = c THEN r ELSE client[d]
  BY <1>1 DEF TrackingInv
<1>3. T!TypeOK'
  <2>1. RowsApart'
    BY <1>1, TrackingTypes DEF RowsApart, T!Listed, T!Owned, T!Busy
  <2> QED
    BY <1>2, <2>1, TrackingTypesNext
<1>4. CallsName'
  BY <1>1, <1>2 DEF TrackingInv, CallsName, T!Owned
<1>5. ReadsHold'
  <2>0. CASE T!Busy # {}
    BY <1>1, <1>2, <2>0 DEF ReadsHold, T!Busy
  <2> SUFFICES ASSUME \A d \in Caller : client[d] = T!NoCall
               PROVE  ReadsHold'
    BY <2>0 DEF T!Busy
  <2>1. \A d \in Caller : client'[d] # T!NoCall => d = c
    BY <1>2
  <2>2. \A d \in Caller : d # c => client'[d].op = "idle"
    BY <1>2, NoCallIdle
  <2> QED
    BY <1>1, <1>2, <2>1, <2>2 DEF ReadsHold, T!Listed, T!NoEntry
<1>6. T!StatusesAgree'
  BY <1>1 DEF TrackingInv, T!StatusesAgree, T!Owned, T!Listed
<1> QED
  BY <1>2, <1>3, <1>4, <1>5, <1>6 DEF TrackingInv

LEMMA RequestsRead ==
    ASSUME TrackingInv, NEW c \in Caller,
           \/ \E e \in Message, s \in T!InboxStatus : T!ReadToSet(c, e, s)
           \/ \E e \in Message, s \in T!ApplicationStatus : T!ReadToCreate(c, e, s)
           \/ \E a \in Worker, s \in T!ApplicationStatus : T!ReadToUpdate(c, a, s)
    PROVE  TrackingInv'
<1>1. RowsApart
  BY TrackingTypes
<1>2. ASSUME NEW o \in {"set", "create"}, NEW e \in Message, NEW s \in T!ApplicationStatus, T!Listed(e),
             T!Enter(c, [T!NoCall EXCEPT !.op = o, !.entry = e, !.shown = entry[e], !.to = s]),
             UNCHANGED <<entry, application, children, said>>
      PROVE  TrackingInv'
  <2> DEFINE r1 == [T!NoCall EXCEPT !.op = o]
             r2 == [r1 EXCEPT !.entry = e]
             r3 == [r2 EXCEPT !.shown = entry[e]]
             r4 == [r3 EXCEPT !.to = s]
  <2>1. T!Enter(c, r4)
    BY <1>2
  <2>2. entry[e] \in T!Stored /\ s \in T!Stored
    BY <1>1 DEF RowsApart, T!Stored
  <2>3. r1 \in AnyCall /\ r1.op = o
    BY ClientTyped DEF AnyCall
  <2> HIDE DEF r1
  <2>4. r2 \in AnyCall /\ r2.op = o /\ r2.entry = e
    BY <2>3 DEF AnyCall
  <2> HIDE DEF r2
  <2>5. r3 \in AnyCall /\ r3.op = o /\ r3.entry = e /\ r3.shown = entry[e]
    BY <2>2, <2>4 DEF AnyCall
  <2> HIDE DEF r3
  <2>6. r4 \in AnyCall /\ r4.op = o /\ r4.entry = e /\ r4.shown = entry[e] /\ r4.to = s
    BY <2>2, <2>5 DEF AnyCall
  <2> HIDE DEF r4
  <2>7. r4 \in TrackCall
    BY <2>6, ClientTyped
  <2> QED
    BY <1>2, <2>1, <2>6, <2>7, TrackingRead
<1>3. ASSUME NEW a \in Worker, NEW s \in T!ApplicationStatus,
             T!Enter(c, [T!NoCall EXCEPT !.op = "update", !.application = a, !.was = application[a], !.to = s]),
             UNCHANGED <<entry, application, children, said>>
      PROVE  TrackingInv'
  <2> DEFINE r1 == [T!NoCall EXCEPT !.op = "update"]
             r2 == [r1 EXCEPT !.application = a]
             r3 == [r2 EXCEPT !.was = application[a]]
             r4 == [r3 EXCEPT !.to = s]
  <2>1. T!Enter(c, r4)
    BY <1>3
  <2>2. application[a] \in T!Stored /\ s \in T!Stored
    BY <1>1 DEF RowsApart, T!Stored
  <2>3. r1 \in AnyCall /\ r1.op = "update" /\ r1.entry = "NONE"
    <3>1. T!NoCall.entry = "NONE"
      BY DEF T!NoCall
    <3> QED
      BY <3>1, ClientTyped DEF AnyCall
  <2> HIDE DEF r1
  <2>4. r2 \in AnyCall /\ r2.op = "update" /\ r2.entry = "NONE" /\ r2.application = a
    BY <2>3 DEF AnyCall
  <2> HIDE DEF r2
  <2>5. r3 \in AnyCall /\ r3.op = "update" /\ r3.entry = "NONE" /\ r3.application = a /\ r3.was = application[a]
    BY <2>2, <2>4 DEF AnyCall
  <2> HIDE DEF r3
  <2>6. /\ r4 \in AnyCall /\ r4.op = "update" /\ r4.entry = "NONE" /\ r4.application = a
        /\ r4.was = application[a] /\ r4.to = s
    BY <2>2, <2>5 DEF AnyCall
  <2> HIDE DEF r4
  <2>7. r4 \in TrackCall
    BY <2>6, ClientTyped
  <2> QED
    BY <1>3, <2>1, <2>6, <2>7, TrackingRead
<1>4. CASE \E e \in Message, s \in T!InboxStatus : T!ReadToSet(c, e, s)
  <2>1. PICK e \in Message, s \in T!InboxStatus : T!ReadToSet(c, e, s)
    BY <1>4
  <2>2. s \in T!ApplicationStatus
    BY DEF T!ApplicationStatus
  <2> QED
    BY <1>2, <2>1, <2>2 DEF T!ReadToSet, T!rows
<1>5. CASE \E e \in Message, s \in T!ApplicationStatus : T!ReadToCreate(c, e, s)
  BY <1>2, <1>5 DEF T!ReadToCreate, T!rows
<1>6. CASE \E a \in Worker, s \in T!ApplicationStatus : T!ReadToUpdate(c, a, s)
  BY <1>3, <1>6 DEF T!ReadToUpdate, T!rows
<1> QED
  BY <1>4, <1>5, <1>6

\* A row appears or goes while no request is under way, or races with one.
LEMMA RowsChange ==
    ASSUME TrackingInv, T!Notice, RowsApart', UNCHANGED client,
           \A c \in Caller : client[c].op = "write" => T!Owned(client[c].application)',
           T!StatusesAgree'
    PROVE  TrackingInv'
<1>1. T!TypeOK'
  BY TrackingTypesNext DEF TrackingInv
<1>2. CallsName'
  BY DEF TrackingInv, CallsName
<1>3. ReadsHold'
  BY DEF ReadsHold, T!Notice, T!Busy
<1> QED
  BY <1>1, <1>2, <1>3 DEF TrackingInv

LEMMA EntryChanges ==
    ASSUME TrackingInv, NEW e \in Message,
           T!Remove(e) \/ \E s \in {"NEW", "SAVED"} : T!Appear(e, s)
    PROVE  TrackingInv'
<1>1. RowsApart
  BY TrackingTypes
<1>2. CASE T!Remove(e)
  <2>1. /\ entry' = [entry EXCEPT ![e] = "GONE"] /\ T!Notice
        /\ UNCHANGED <<application, children, client, said>>
    BY <1>2 DEF T!Remove
  <2>2. /\ entry' \in [Message -> T!Stored] /\ raced' \subseteq Caller
        /\ \A f \in Message : T!Listed(f)' => T!Listed(f) /\ entry'[f] = entry[f]
    BY <1>1, <2>1 DEF RowsApart, T!Listed, T!Stored, T!ApplicationStatus, T!InboxStatus, T!Notice, T!Busy
  <2>3. RowsApart'
    BY <1>1, <2>1, <2>2 DEF RowsApart, T!Owned
  <2>4. T!StatusesAgree'
    BY <2>1, <2>2 DEF TrackingInv, T!StatusesAgree, T!Owned
  <2> QED
    BY <2>1, <2>3, <2>4, RowsChange DEF TrackingInv, CallsName, T!Owned
<1>3. ASSUME NEW s \in {"NEW", "SAVED"}, T!Appear(e, s)
      PROVE  TrackingInv'
  <2>1. /\ entry' = [entry EXCEPT ![e] = s] /\ T!Notice /\ T!NoEntry
        /\ UNCHANGED <<application, children, client>> /\ said' = "inbox"
    BY <1>3 DEF T!Appear
  <2>2. /\ entry' \in [Message -> T!Stored] /\ raced' \subseteq Caller
        /\ \A f \in Message : T!Listed(f)' => f = e
    BY <1>1, <2>1 DEF RowsApart, T!Listed, T!Stored, T!ApplicationStatus, T!InboxStatus, T!Notice, T!Busy, T!NoEntry
  <2>3. RowsApart'
    BY <1>1, <2>1, <2>2 DEF RowsApart, T!Owned
  <2>4. T!StatusesAgree'
    BY <2>1 DEF T!StatusesAgree
  <2> QED
    BY <2>1, <2>3, <2>4, RowsChange DEF TrackingInv, CallsName, T!Owned
<1> QED
  BY <1>2, <1>3

LEMMA ApplicationDeleted ==
    ASSUME TrackingInv, NEW a \in Worker, T!Delete(a)
    PROVE  TrackingInv'
<1>1. RowsApart
  BY TrackingTypes
<1>2. /\ application' = [application EXCEPT ![a] = "GONE"] /\ T!Notice /\ ~T!Locked(a)
      /\ children' = [children EXCEPT ![a] = "NONE"]
      /\ UNCHANGED <<entry, client, said>>
  BY DEF T!Delete
<1>3. /\ application' \in [Worker -> T!Stored] /\ raced' \subseteq Caller
      /\ \A b \in Worker : b # a => application'[b] = application[b] /\ children'[b] = children[b]
      /\ \A b \in Worker : T!Owned(b)' => T!Owned(b) /\ application'[b] = application[b]
      /\ children'[a] = "NONE" /\ children' \in [Worker -> T!Child \cup {"NONE"}]
  BY <1>1, <1>2 DEF RowsApart, T!Owned, T!Stored, T!ApplicationStatus, T!InboxStatus, T!Notice, T!Busy
<1>4. RowsApart'
  BY <1>1, <1>2, <1>3 DEF RowsApart, T!Owned, T!Listed
<1>5. T!StatusesAgree'
  BY <1>2, <1>3 DEF TrackingInv, T!StatusesAgree, T!Listed
<1>6. \A c \in Caller : client[c].op = "write" => T!Owned(client[c].application)'
  BY <1>2, <1>3 DEF TrackingInv, CallsName, T!Locked, T!Owned
<1> QED
  BY <1>2, <1>4, <1>5, <1>6, RowsChange

LEMMA ChildKept ==
    ASSUME TrackingInv, NEW a \in Worker, NEW old, NEW new \in T!Child \cup {"NONE"}, T!Keep(a, old, new)
    PROVE  TrackingInv'
<1>1. RowsApart
  BY TrackingTypes
<1>2. /\ T!Owned(a) /\ children' = [children EXCEPT ![a] = new]
      /\ UNCHANGED <<entry, application, client, said, raced>>
  BY DEF T!Keep
<1>3. RowsApart'
  BY <1>1, <1>2 DEF RowsApart, T!Owned, T!Listed
<1>4. T!TypeOK'
  BY <1>2, <1>3, TrackingTypesNext DEF TrackingInv
<1> QED
  BY <1>2, <1>4 DEF TrackingInv, CallsName, ReadsHold, T!StatusesAgree, T!Owned, T!Listed, T!NoEntry

\* A request that ends: with it gone nothing holds what was read, and the rows are typed.
LEMMA TrackingEnds ==
    ASSUME TrackingInv, NEW c \in Caller, T!End(c), client[c] # T!NoCall, RowsApart',
           \A b \in Worker : T!Owned(b) => T!Owned(b)',
           T!StatusesAgree'
    PROVE  TrackingInv'
<1>1. /\ client' \in [Caller -> {T!NoCall} \cup TrackCall]
      /\ \A d \in Caller : client'[d] = IF d = c THEN T!NoCall ELSE client[d]
      /\ raced' = raced \ {c}
  BY DEF TrackingInv, T!End
<1>2. T!TypeOK'
  BY <1>1, TrackingTypesNext
<1>3. CallsName'
  <2> SUFFICES ASSUME NEW d \in Caller
               PROVE  /\ client'[d].op \in {"create", "set"} => client'[d].entry \in Message
                      /\ client'[d].op \in {"update", "write"} => client'[d].application \in Worker
                      /\ client'[d].op = "update" => client'[d].entry = "NONE"
                      /\ client'[d].op = "write" => T!Owned(client[d].application)'
    BY DEF CallsName
  <2> QED
    BY <1>1, NoCallIdle DEF TrackingInv, CallsName
<1>4. ReadsHold'
  <2>1. \A d \in Caller : client'[d] # T!NoCall => d \in raced'
    BY <1>1 DEF TrackingInv, ReadsHold
  <2> QED
    BY <2>1 DEF ReadsHold
<1> QED
  BY <1>1, <1>2, <1>3, <1>4 DEF TrackingInv

LEMMA TrackingFails ==
    ASSUME TrackingInv, NEW c \in Caller, T!Fails(c)
    PROVE  TrackingInv'
<1>1. /\ T!End(c) /\ client[c] # T!NoCall
      /\ UNCHANGED <<entry, application, children, said>>
  BY NoCallIdle DEF T!Fails, T!rows
<1>2. RowsApart'
  BY <1>1, TrackingTypes DEF RowsApart, T!Owned, T!Listed, T!End
<1>3. T!StatusesAgree'
  BY <1>1 DEF TrackingInv, T!StatusesAgree, T!Owned, T!Listed
<1>4. \A b \in Worker : T!Owned(b) => T!Owned(b)'
  BY <1>1 DEF T!Owned
<1> QED
  BY <1>1, <1>2, <1>3, <1>4, TrackingEnds

\* The UPDATE of the inbox row.
LEMMA EntryWritten ==
    ASSUME TrackingInv, NEW c \in Caller, client[c] # T!NoCall, T!CanWrite(client[c]),
           entry' = T!EntryAfter(client[c])
    PROVE  /\ entry' \in [Message -> T!Stored]
           /\ \A e \in Message : T!Listed(e)' <=> T!Listed(e)
           /\ client[c].to \in T!ApplicationStatus
           /\ client[c].entry \in Message /\ T!Listed(client[c].entry)
                 /\ client[c].shown = entry[client[c].entry] => entry'[client[c].entry] = client[c].to
<1>1. client[c] \in TrackCall
  BY DEF TrackingInv
<1>2. /\ client[c].to \in T!ApplicationStatus /\ client[c].to \in T!Stored
      /\ client[c].entry \in Message \cup {"NONE"}
  BY <1>1 DEF TrackCall, T!Stored
<1>3. RowsApart
  BY TrackingTypes
<1>4. CASE T!Writes(client[c])
  <2>1. /\ entry' = [entry EXCEPT ![client[c].entry] = client[c].to]
        /\ client[c].entry \in Message /\ T!Listed(client[c].entry)
    BY <1>2, <1>4 DEF T!EntryAfter, T!CanWrite, T!Writes
  <2> QED
    BY <1>2, <1>3, <2>1 DEF RowsApart, T!Listed
<1>5. CASE ~T!Writes(client[c])
  <2>1. entry' = entry /\ (client[c].entry = "NONE" \/ client[c].to = client[c].shown)
    BY <1>5 DEF T!EntryAfter, T!Writes
  <2> QED
    BY <1>2, <1>3, <2>1, JobsAndDataConstants DEF RowsApart, T!Listed, JobsAndDataConstants
<1> QED
  BY <1>4, <1>5

LEMMA EntrySet ==
    ASSUME TrackingInv, NEW c \in Caller, T!SetStatus(c)
    PROVE  TrackingInv'
<1>1. /\ T!End(c) /\ client[c] # T!NoCall
      /\ T!CanWrite(client[c]) /\ entry' = T!EntryAfter(client[c]) /\ said' = "inbox"
      /\ UNCHANGED <<application, children>>
  BY NoCallIdle DEF T!SetStatus, T!Leave
<1>2. entry' \in [Message -> T!Stored] /\ \A e \in Message : T!Listed(e)' <=> T!Listed(e)
  BY <1>1, EntryWritten
<1>3. RowsApart'
  BY <1>1, <1>2, TrackingTypes DEF RowsApart, T!Owned, T!End
<1>4. T!StatusesAgree'
  BY <1>1 DEF T!StatusesAgree
<1>5. \A b \in Worker : T!Owned(b) => T!Owned(b)'
  BY <1>1 DEF T!Owned
<1> QED
  BY <1>1, <1>3, <1>4, <1>5, TrackingEnds

LEMMA ApplicationCreated ==
    ASSUME TrackingInv, NEW c \in Caller, T!Create(c)
    PROVE  TrackingInv'
<1>1. PICK a \in Worker : /\ application[a] = "NONE"
                          /\ application' = [application EXCEPT ![a] = client[c].to]
  BY DEF T!Create
<1>2. /\ T!End(c) /\ client[c] # T!NoCall /\ client[c].op = "create"
      /\ T!CanWrite(client[c]) /\ T!NotApplied /\ entry' = T!EntryAfter(client[c])
      /\ said' = T!By(c) /\ UNCHANGED children
  BY NoCallIdle DEF T!Create, T!Leave
<1>3. /\ entry' \in [Message -> T!Stored] /\ \A e \in Message : T!Listed(e)' <=> T!Listed(e)
      /\ client[c].to \in T!ApplicationStatus
      /\ client[c].entry \in Message /\ T!Listed(client[c].entry)
                 /\ client[c].shown = entry[client[c].entry] => entry'[client[c].entry] = client[c].to
  BY <1>2, EntryWritten
<1>4. RowsApart
  BY TrackingTypes
<1>5. /\ application' \in [Worker -> T!Stored]
      /\ application'[a] = client[c].to
      /\ \A b \in Worker : T!Owned(b)' => b = a
      /\ \A b \in Worker : ~T!Owned(b)
  BY <1>1, <1>2, <1>3, <1>4 DEF RowsApart, T!Owned, T!NotApplied, T!Stored
<1>6. RowsApart'
  BY <1>2, <1>3, <1>4, <1>5 DEF RowsApart, T!End, T!By
<1>7. T!StatusesAgree'
  <2> SUFFICES ASSUME c \notin raced, NEW b \in Worker, NEW e \in Message, T!Owned(b)', T!Listed(e)'
               PROVE  application'[b] = entry'[e]
    BY <1>2 DEF T!StatusesAgree, T!By
  <2>1. client[c].entry \in Message /\ T!Listed(client[c].entry) /\ client[c].shown = entry[client[c].entry]
    BY <1>2 DEF TrackingInv, ReadsHold, CallsName
  <2>2. e = client[c].entry
    BY <1>3, <1>4, <2>1 DEF RowsApart
  <2> QED
    BY <1>3, <1>5, <2>1, <2>2
<1> QED
  BY <1>2, <1>5, <1>6, <1>7, TrackingEnds

LEMMA ApplicationUpdated ==
    ASSUME TrackingInv, NEW c \in Caller, T!Update(c)
    PROVE  TrackingInv'
<1> DEFINE a == client[c].application
<1>1. /\ T!End(c) /\ client[c] # T!NoCall /\ client[c].op = "write"
      /\ T!CanWrite(client[c]) /\ entry' = T!EntryAfter(client[c]) /\ said' = T!By(c)
      /\ application' = T!ApplicationAfter(client[c]) /\ UNCHANGED children
  BY NoCallIdle DEF T!Update, T!Leave
<1>2. /\ entry' \in [Message -> T!Stored] /\ \A e \in Message : T!Listed(e)' <=> T!Listed(e)
      /\ client[c].to \in T!ApplicationStatus
      /\ client[c].entry \in Message /\ T!Listed(client[c].entry)
                 /\ client[c].shown = entry[client[c].entry] => entry'[client[c].entry] = client[c].to
  BY <1>1, EntryWritten
<1>3. RowsApart
  BY TrackingTypes
<1>4. a \in Worker /\ T!Owned(a)
  BY <1>1 DEF TrackingInv, CallsName
<1>5. /\ application' \in [Worker -> T!Stored]
      /\ client[c].was = application[a] => application'[a] = client[c].to
      /\ \A b \in Worker : T!Owned(b)' <=> T!Owned(b)
  BY <1>1, <1>2, <1>3, <1>4 DEF RowsApart, T!Owned, T!ApplicationAfter, T!Stored
<1>6. RowsApart'
  BY <1>1, <1>2, <1>3, <1>5 DEF RowsApart, T!End, T!By
<1>7. T!StatusesAgree'
  <2> SUFFICES ASSUME c \notin raced, NEW b \in Worker, NEW e \in Message, T!Owned(b)', T!Listed(e)'
               PROVE  application'[b] = entry'[e]
    BY <1>1 DEF T!StatusesAgree, T!By
  <2>1. /\ client[c].was = application[a]
        /\ \/ client[c].entry = "NONE" /\ T!NoEntry
           \/ /\ client[c].entry \in Message /\ T!Listed(client[c].entry)
              /\ client[c].shown = entry[client[c].entry]
    BY <1>1 DEF TrackingInv, ReadsHold
  <2>2. T!Owned(b) /\ T!Listed(e)
    BY <1>2, <1>5
  <2>3. b = a
    BY <1>3, <1>4, <2>2 DEF RowsApart
  <2>4. client[c].entry \in Message /\ T!Listed(client[c].entry) /\ client[c].shown = entry[client[c].entry]
    BY <2>1, <2>2 DEF T!NoEntry
  <2>5. e = client[c].entry
    BY <1>3, <2>2, <2>4 DEF RowsApart
  <2> QED
    BY <1>2, <1>5, <2>1, <2>3, <2>4, <2>5
<1> QED
  BY <1>1, <1>5, <1>6, <1>7, TrackingEnds

\* The lock is taken, and the inbox row read.
LEMMA ApplicationLocked ==
    ASSUME TrackingInv, NEW c \in Caller, T!Flush(c)
    PROVE  TrackingInv'
<1> DEFINE e == CHOOSE e \in Message : T!Listed(e)
           r1 == [client[c] EXCEPT !.op = "write"]
           r2 == [r1 EXCEPT !.entry = e]
           r3 == [r2 EXCEPT !.shown = entry[e]]
<1>1. /\ client[c].op = "update" /\ T!Owned(client[c].application)
      /\ client' = [client EXCEPT ![c] = IF T!NoEntry THEN r1 ELSE r3]
      /\ UNCHANGED <<entry, application, children, said, raced>>
  BY DEF T!Flush, T!rows
<1>2. /\ RowsApart /\ client[c] \in TrackCall /\ client[c] # T!NoCall /\ client[c].application \in Worker
      /\ client[c].entry = "NONE"
  BY <1>1, TrackingTypes, NoCallIdle DEF TrackingInv, CallsName
<1>3. ~T!NoEntry => e \in Message /\ T!Listed(e) /\ entry[e] \in T!Stored
  BY <1>2 DEF T!NoEntry, RowsApart
<1> HIDE DEF e
<1>4. client[c] \in AnyCall /\ client[c].to \in T!ApplicationStatus
  BY <1>2, ClientTyped DEF TrackCall
<1>5. /\ r1 \in AnyCall /\ r1.op = "write" /\ r1.application = client[c].application /\ r1.was = client[c].was
      /\ r1.to = client[c].to /\ r1.entry = client[c].entry
  BY <1>4 DEF AnyCall
<1> HIDE DEF r1
<1>6. ~T!NoEntry =>
      /\ r2 \in AnyCall /\ r2.op = "write" /\ r2.application = client[c].application /\ r2.was = client[c].was
      /\ r2.to = client[c].to /\ r2.entry = e
  BY <1>3, <1>5 DEF AnyCall
<1> HIDE DEF r2
<1>7. ~T!NoEntry =>
      /\ r3 \in AnyCall /\ r3.op = "write" /\ r3.application = client[c].application /\ r3.was = client[c].was
      /\ r3.to = client[c].to /\ r3.entry = e /\ r3.shown = entry[e]
  BY <1>3, <1>6 DEF AnyCall
<1> HIDE DEF r3
<1>8. PICK new \in TrackCall :
         /\ client' = [client EXCEPT ![c] = new]
         /\ new.op = "write" /\ new.application = client[c].application /\ new.was = client[c].was
         /\ T!NoEntry => new.entry = "NONE"
         /\ ~T!NoEntry => new.entry \in Message /\ T!Listed(new.entry) /\ new.shown = entry[new.entry]
  <2>1. CASE T!NoEntry
    <3>1. r1 \in TrackCall
      BY <1>4, <1>5, ClientTyped
    <3> QED
      BY <1>1, <1>2, <1>5, <2>1, <3>1
  <2>2. CASE ~T!NoEntry
    <3>1. r3 \in TrackCall
      BY <1>4, <1>7, <2>2, ClientTyped
    <3> QED
      BY <1>1, <1>3, <1>7, <2>2, <3>1
  <2> QED
    BY <2>1, <2>2
<1>9. client' \in [Caller -> {T!NoCall} \cup TrackCall]
      /\ \A d \in Caller : client'[d] = IF d = c THEN new ELSE client[d]
  BY <1>8 DEF TrackingInv
<1>10. T!TypeOK'
  <2>1. RowsApart'
    BY <1>1, <1>2 DEF RowsApart, T!Owned, T!Listed
  <2> QED
    BY <1>9, <2>1, TrackingTypesNext
<1>11. CallsName'
  <2> SUFFICES ASSUME NEW d \in Caller
               PROVE  /\ client'[d].op \in {"create", "set"} => client'[d].entry \in Message
                      /\ client'[d].op \in {"update", "write"} => client'[d].application \in Worker
                      /\ client'[d].op = "update" => client'[d].entry = "NONE"
                      /\ client'[d].op = "write" => T!Owned(client[d].application)'
    BY DEF CallsName
  <2>1. T!Owned(client[d].application)' <=> application[client'[d].application] \in T!ApplicationStatus
    BY <1>1 DEF T!Owned
  <2> QED
    BY <1>1, <1>2, <1>8, <1>9, <2>1 DEF TrackingInv, CallsName, T!Owned
<1>12. ReadsHold'
  <2>0. CASE c \in raced
    BY <1>1, <1>2, <1>9, <2>0 DEF TrackingInv, ReadsHold
  <2> SUFFICES ASSUME c \notin raced PROVE ReadsHold'
    BY <2>0
  <2>1. /\ \A d \in Caller : client[d] # T!NoCall => d = c
        /\ client[c].was = application[client[c].application]
    BY <1>1, <1>2 DEF TrackingInv, ReadsHold
  <2>2. \A d \in Caller : client'[d] # T!NoCall => d = c
    BY <1>9, <2>1
  <2>3. \A d \in Caller : d # c => client'[d].op = "idle"
    BY <1>9, <2>1, NoCallIdle
  <2> QED
    BY <1>1, <1>8, <1>9, <2>1, <2>2, <2>3 DEF ReadsHold, T!Listed, T!NoEntry
<1>13. T!StatusesAgree'
  BY <1>1 DEF TrackingInv, T!StatusesAgree, T!Owned, T!Listed
<1> QED
  BY <1>9, <1>10, <1>11, <1>12, <1>13 DEF TrackingInv

LEMMA TrackingStep ==
    ASSUME TrackingInv, [T!Next]_(T!vars)
    PROVE  TrackingInv'
<1>1. CASE UNCHANGED T!vars
  BY <1>1 DEF T!vars, TrackingInv, T!TypeOK, CallsName, ReadsHold, T!StatusesAgree, T!Owned, T!Listed, T!NoEntry
<1>2. CASE T!Next
  <2>1. ASSUME NEW c \in Caller,
               \/ \E e \in Message, s \in T!InboxStatus : T!ReadToSet(c, e, s)
               \/ \E e \in Message, s \in T!ApplicationStatus : T!ReadToCreate(c, e, s)
               \/ \E a \in Worker, s \in T!ApplicationStatus : T!ReadToUpdate(c, a, s)
        PROVE  TrackingInv'
    BY <2>1, RequestsRead
  <2>2. ASSUME NEW c \in Caller, T!SetStatus(c) \/ T!Create(c) \/ T!Flush(c) \/ T!Update(c) \/ T!Fails(c)
        PROVE  TrackingInv'
    BY <2>2, EntrySet, ApplicationCreated, ApplicationLocked, ApplicationUpdated, TrackingFails
  <2>3. ASSUME NEW e \in Message, T!Remove(e) \/ \E s \in {"NEW", "SAVED"} : T!Appear(e, s)
        PROVE  TrackingInv'
    BY <2>3, EntryChanges
  <2>4. ASSUME NEW a \in Worker, T!Delete(a)
        PROVE  TrackingInv'
    BY <2>4, ApplicationDeleted
  <2>5. ASSUME NEW a \in Worker,
               \/ T!AddNote(a) \/ T!DeleteNote(a) \/ T!AddInterview(a)
               \/ T!AddReminder(a) \/ T!CompleteReminder(a)
        PROVE  TrackingInv'
    <3>1. \E old, new \in T!Child \cup {"NONE"} : T!Keep(a, old, new)
      BY <2>5 DEF T!AddNote, T!DeleteNote, T!AddInterview, T!AddReminder, T!CompleteReminder, T!Child
    <3> QED
      BY <3>1, ChildKept
  <2> QED
    BY <1>2, <2>1, <2>2, <2>3, <2>4, <2>5 DEF T!Next
<1> QED
  BY <1>1, <1>2

-----------------------------------------------------------------------------
(* The parts *)

LEMMA PartInits ==
    JobsAndDataInit => Init /\ P!Init /\ T!Init
BY DEF JobsAndDataInit

\* A step is one of the part that runs and leaves the others as they are.
LEMMA PartSteps ==
    [JobsAndDataNext]_<<part, vars, analysis, tracking>> =>
        /\ UNCHANGED part
        /\ [Next]_vars /\ [P!Next]_(P!vars) /\ [T!Next]_(T!vars)
<1> SUFFICES ASSUME [JobsAndDataNext]_<<part, vars, analysis, tracking>>
             PROVE  /\ UNCHANGED part
                    /\ [Next]_vars /\ [P!Next]_(P!vars) /\ [T!Next]_(T!vars)
  OBVIOUS
<1>1. /\ UNCHANGED <<vars, analysis>> => UNCHANGED P!vars
      /\ UNCHANGED <<vars, tracking>> => UNCHANGED T!vars
  BY DEF vars, analysis, tracking, P!vars, T!vars
<1>2. CASE UNCHANGED <<part, vars, analysis, tracking>>
  BY <1>1, <1>2
<1>3. CASE part = "data" /\ Next /\ UNCHANGED <<part, analysis, tracking>>
  <2>1. UNCHANGED P!vars /\ UNCHANGED T!vars
    BY <1>3 DEF analysis, tracking, P!vars, T!vars
  <2> QED
    BY <1>3, <2>1
<1>4. CASE part = "analysis" /\ P!Next /\ UNCHANGED <<part, vars, tracking>>
  BY <1>1, <1>4
<1>5. CASE part = "tracking" /\ T!Next /\ UNCHANGED <<part, vars, analysis>>
  BY <1>1, <1>5
<1> QED
  BY <1>2, <1>3, <1>4, <1>5 DEF JobsAndDataNext

-----------------------------------------------------------------------------
(* The theorems *)

\* What the composition does to the private data is a behaviour of PrivateData.
THEOREM DataRunsAlone == JobsAndData => Spec
BY PartInits, PartSteps, PTL DEF JobsAndData, Spec

LEMMA AnalysisAlways == JobsAndData => []AnalysisInv
<1>1. JobsAndDataInit => AnalysisInv
  BY PartInits, AnalysisInit
<1>2. AnalysisInv /\ [JobsAndDataNext]_<<part, vars, analysis, tracking>> => AnalysisInv'
  BY PartSteps, AnalysisStep
<1> QED
  BY <1>1, <1>2, PTL DEF JobsAndData

LEMMA ChargesAlways == JobsAndData => []NothingOvercharged
<1>1. JobsAndDataInit => NothingOvercharged
  BY PartInits, NothingCharged
<1>2. AnalysisInv /\ NothingOvercharged /\ [JobsAndDataNext]_<<part, vars, analysis, tracking>>
      => NothingOvercharged'
  BY PartSteps, ChargesKept
<1> QED
  BY <1>1, <1>2, AnalysisAlways, PTL DEF JobsAndData

LEMMA TrackingAlways == JobsAndData => []TrackingInv
<1>1. JobsAndDataInit => TrackingInv
  BY PartInits, TrackingInit
<1>2. TrackingInv /\ [JobsAndDataNext]_<<part, vars, analysis, tracking>> => TrackingInv'
  BY PartSteps, TrackingStep
<1> QED
  BY <1>1, <1>2, PTL DEF JobsAndData

\* Statuses are what models.py and the migrations admit, counters stay in their bounds,
\* in every part.
THEOREM JobsAndDataTyped == JobsAndData => []TypesOK
<1>1. TypeOK /\ AnalysisInv /\ TrackingInv => TypesOK
  BY DEF AnalysisInv, TrackingInv, TypesOK
<1> QED
  BY <1>1, DataRunsAlone, PrivateDataTyped, AnalysisAlways, TrackingAlways, PTL

\* Public analysis: a profile that waits for a worker has a message left, in the
\* dead-letter queue if nowhere else, whatever workers and requests for a retry do
\* meanwhile (queue_public_job_analysis, retry_public_job_analysis).
THEOREM AnalysisIsAwaited == JobsAndData => []AnalysisHasMessage
<1>1. AnalysisInv => AnalysisHasMessage
  BY DEF AnalysisInv, AnalysisHasMessage
<1> QED
  BY <1>1, AnalysisAlways, PTL

\* Public analysis: while deliveries do not overlap, the answer of a provider is bought
\* once, plus once for every answer that died with its worker, however often the
\* analysis is queued and retried (AiOrchestrator.analyze_public_job).
THEOREM AnswerIsBoughtOnce == JobsAndData => []BoughtOnce
<1>1. AnalysisInv /\ NothingOvercharged => BoughtOnce
  BY AnalysisPays DEF BoughtOnce
<1> QED
  BY <1>1, AnalysisAlways, ChargesAlways, PTL

\* Public analysis: no call is ever charged twice, and while deliveries do not overlap the
\* attempts on the operation are the calls that were made, except those of a worker that
\* died before its commit (AiOrchestrator.analyze_public_job).
THEOREM CallsAreCharged == JobsAndData => []ChargedInFull
<1>1. AnalysisInv /\ NothingOvercharged => ChargedInFull
  BY AnalysisPays DEF ChargedInFull
<1> QED
  BY <1>1, AnalysisAlways, ChargesAlways, PTL

\* Public analysis: while deliveries do not overlap, a document that was stored is served
\* once the queue is drained, even if a request had put the profile back to QUEUED
\* (retry_public_job_analysis, AiOrchestrator.analyze_public_job).
THEOREM AnalysisSurvives == JobsAndData => []ResultSurvives
<1>1. AnalysisInv => ResultSurvives
  BY DEF AnalysisInv, ResultSurvives
<1> QED
  BY <1>1, AnalysisAlways, PTL

\* Tracking: the inbox row and the application of a job carry one status from the commit of
\* a request for the application that nothing came between until something else sets a
\* status, whatever races went before (ApplicationService, InboxService).
THEOREM StatusesStayTogether == JobsAndData => []StatusesAgree
<1>1. TrackingInv => StatusesAgree
  BY DEF TrackingInv, StatusesAgree
<1> QED
  BY <1>1, TrackingAlways, PTL
=============================================================================
