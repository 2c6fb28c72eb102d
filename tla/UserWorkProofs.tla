--------------------------- MODULE UserWorkProofs ---------------------------
(***************************************************************************)
(* Theorems about what is done for one user (MCUserWork).  Each part has    *)
(* its inductive invariant, with a lemma for each action; the theorems at   *)
(* the end are about the specification that composes the parts.             *)
(***************************************************************************)
EXTENDS MCUserWork, FiniteSetTheorems, TLAPS

-----------------------------------------------------------------------------
(* The parts *)

LEMMA PartInits ==
    UserWorkInit =>
        /\ part = "ai" => Init
        /\ part = "analyze" => A!Init
        /\ part = "expand" => W!Init
        /\ part = "session" => S!Init
        /\ part = "digest" => N!Init
BY DEF UserWorkInit

\* A step is one of the part that runs, and another part never runs.
LEMMA PartSteps ==
    [UserWorkNext]_allVars =>
        /\ UNCHANGED part
        /\ part = "ai" => [Next]_vars
        /\ part = "analyze" => [A!Next]_(A!vars)
        /\ part = "expand" => [W!Next]_(W!vars)
        /\ part = "session" => [S!Next]_(S!vars)
        /\ part = "digest" => [N!Next]_(N!vars)
<1> SUFFICES ASSUME [UserWorkNext]_allVars
             PROVE  /\ UNCHANGED part
                    /\ part = "ai" => [Next]_vars
                    /\ part = "analyze" => [A!Next]_(A!vars)
                    /\ part = "expand" => [W!Next]_(W!vars)
                    /\ part = "session" => [S!Next]_(S!vars)
                    /\ part = "digest" => [N!Next]_(N!vars)
  OBVIOUS
<1>1. CASE UNCHANGED allVars
  BY <1>1 DEF allVars, vars, analysis, watch, users, digest, A!vars, W!vars, S!vars, N!vars
<1>2. CASE UserWorkNext
  BY <1>2 DEF UserWorkNext
<1> QED
  BY <1>1, <1>2

-----------------------------------------------------------------------------
(* Messages *)

\* The record of a message as it moves.
LEMMA MessageMoved ==
    ASSUME NEW m \in DOMAIN message, NEW a, message = [i \in DOMAIN message |-> message[i]],
           message[m] = [of |-> message[m].of, at |-> message[m].at, receives |-> message[m].receives]
    PROVE  /\ [message EXCEPT ![m].at = a] =
                  [message EXCEPT ![m] = [of |-> message[m].of, at |-> a, receives |-> message[m].receives]]
           /\ [message EXCEPT ![m].at = a, ![m].receives = @ + 1] =
                  [message EXCEPT ![m] = [of |-> message[m].of, at |-> a, receives |-> message[m].receives + 1]]
           /\ [message[m] EXCEPT !.at = a] =
                  [of |-> message[m].of, at |-> a, receives |-> message[m].receives]
<1> DEFINE one == [of |-> message[m].of, at |-> a, receives |-> message[m].receives]
           two == [of |-> message[m].of, at |-> a, receives |-> message[m].receives + 1]
           mid == [message EXCEPT ![m].at = a]
<1>1. [message[m] EXCEPT !.at = a] = one
  OBVIOUS
<1>2. mid = [message EXCEPT ![m] = one]
  <2>1. mid = [message EXCEPT ![m] = [message[m] EXCEPT !.at = a]]
    OBVIOUS
  <2> HIDE DEF mid, one
  <2> QED
    BY <1>1, <2>1
<1>3. [message EXCEPT ![m].at = a, ![m].receives = @ + 1] = [mid EXCEPT ![m] = [mid[m] EXCEPT !.receives = mid[m].receives + 1]]
  OBVIOUS
<1>4. [one EXCEPT !.receives = one.receives + 1] = two
  OBVIOUS
<1> HIDE DEF mid, one, two
<1>5. mid[m] = one
  BY <1>2
<1>6. [mid EXCEPT ![m] = two] = [message EXCEPT ![m] = two]
  BY <1>2
<1> QED
  BY <1>1, <1>2, <1>3, <1>4, <1>5, <1>6 DEF mid, one, two

LEMMA MessageReturned ==
    ASSUME NEW m, NEW a, NEW n,
           message[m] = [of |-> message[m].of, at |-> message[m].at, receives |-> message[m].receives]
    PROVE  [message[m] EXCEPT !.at = a, !.receives = n] =
               [of |-> message[m].of, at |-> a, receives |-> n]
<1> DEFINE one == [of |-> message[m].of, at |-> a, receives |-> message[m].receives]
<1>1. [message[m] EXCEPT !.at = a] = one
  OBVIOUS
<1>2. [message[m] EXCEPT !.at = a, !.receives = n] = [one EXCEPT !.receives = n]
  <2> HIDE DEF one
  <2> QED
    BY <1>1
<1> QED
  BY <1>2

-----------------------------------------------------------------------------
(* PrivateAi *)

ArtifactStatus == Missing \cup Unfinished \cup {"SUCCEEDED", "PERMANENT_FAILED", "DEGRADED_FAILED"}
AiMessage == [of : Artifact, at : Waits \cup {"ACKED"}, receives : 0..MaxReceive]
AiWork == [pc : {"loaded", "calling", "done"}, of : Artifact, msg : Message,
           known : BOOLEAN, running : BOOLEAN]
AiCall == [pc : {"insert", "draft", "decide", "requeue"}, of : Artifact,
           seen : ArtifactStatus \cup {"PENDING"}, list : SUBSET Suggestions]

RowsTyped ==
    /\ status \in [Artifact -> ArtifactStatus]
    /\ draft \in [Artifact -> {"none", "generated", "edited"}]
    /\ operation \subseteq Artifact
    /\ batches \in [Suggestions -> 0..1]
    /\ decision \in [Suggestions -> {"NONE", "PENDING", "ACCEPTED", "REJECTED"}]
    /\ profile \subseteq Suggestions

AiMessagesTyped ==
    /\ message = [m \in Message |-> message[m]]
    /\ \A m \in Message : message[m] = Unsent \/ message[m] \in AiMessage
    /\ \A m \in Message : message[m].at \in {"PENDING", "VISIBLE"} => message[m].receives < MaxReceive

RequestsTyped ==
    /\ caller \in [Caller -> {NoCall} \cup AiCall]
    /\ \A c \in Caller :
          /\ caller[c].pc = "decide" => caller[c].of \in Suggestions
          /\ caller[c].pc = "requeue" => caller[c].of \in Pasted

HistoryTyped ==
    faults \in 0..MaxFaults /\ clones \subseteq Tailored /\ overlapped \subseteq Artifact
        /\ raced \subseteq Suggestions /\ crowd \in [Quotas -> Nat \ {0}]

\* A worker has its message to itself, and the message is of its artifact.
AiHeld ==
    \A k \in Worker : worker[k] # Idle =>
        /\ message[worker[k].msg].at = "INFLIGHT" /\ message[worker[k].msg].of = worker[k].of
        /\ \A j \in Worker : j # k /\ worker[j] # Idle => worker[j].msg # worker[k].msg

\* What was sent is of an artifact that was requested.
SentIsRequested ==
    \A m \in Message : message[m] # Unsent => status[message[m].of] # "NONE"

\* An artifact that waits for a worker has a message that no worker is about to
\* acknowledge.
MessageLeft ==
    \A a \in Artifact : status[a] \in Unfinished =>
        \E m \in Message :
            /\ message[m].of = a /\ message[m].at \in Waits
            /\ \A k \in Worker : worker[k].msg = m => worker[k].pc # "done"

\* Of a tailored CV that no two workers had at once: its draft is only edited once it
\* succeeded, and then no worker is on its way to write it.
DraftAlone ==
    \A a \in Tailored \ overlapped :
        /\ draft[a] = "edited" => status[a] = "SUCCEEDED"
        /\ \A c \in Caller : caller[c].pc = "draft" /\ caller[c].of = a =>
               status[a] \in {"SUCCEEDED", "DELETED"}
        /\ \A k \in Worker : worker[k].pc \in {"loaded", "calling"} /\ worker[k].of = a =>
               status[a] # "SUCCEEDED"
        /\ \A j, k \in Worker : worker[j] # Idle /\ worker[k] # Idle
                                /\ worker[j].of = a /\ worker[k].of = a => j = k

Counted(a) == {b \in SameQuota(a) : status[b] \notin Missing} \ clones

\* The rows, and the requests that passed the quota and may still insert theirs.
PlaceKept ==
    \A a \in Artifact :
        Cardinality(Counted(a)) + Cardinality(Passed(SameQuota(a))) < Limit + crowd[SameQuota(a)]

\* The list a decision has read: of every suggestion without a race it is what the profile
\* is, for its own suggestion is not decided, and no other decision is on its way.
ListIsCurrent(c) ==
    LET t == caller[c].of  list == caller[c].list IN
    /\ t \notin list /\ batches[t] = 1
    /\ \A s \in list : batches[s] = 1 /\ decision[s] # "PENDING"
    /\ \A s \in Suggestions \ raced : /\ decision[s] = "ACCEPTED" => s \in list
                                      /\ decision[s] = "REJECTED" => s \notin list
    /\ t \notin raced => /\ decision[t] \in {"NONE", "PENDING"}
                         /\ \A d \in Caller : caller[d].pc = "decide" => d = c

\* A decision is of a suggestion that was proposed, on a list that is current.
DecisionIsCurrent ==
    /\ \A s \in Suggestions : decision[s] # "NONE" => batches[s] = 1
    /\ \A s \in profile : batches[s] = 1
    /\ \A c \in Caller : caller[c].pc = "decide" => ListIsCurrent(c)

AiTyped ==
    /\ RowsTyped /\ AiMessagesTyped /\ RequestsTyped /\ HistoryTyped
    /\ worker \in [Worker -> {Idle} \cup AiWork]

AiDecided == DecisionIsCurrent /\ ProfileIsDecided

AiInv ==
    /\ AiTyped /\ AiHeld /\ SentIsRequested /\ MessageLeft /\ DraftAlone
    /\ PlaceKept /\ AiDecided

LEMMA QuotaFinite ==
    ASSUME NEW a \in Artifact
    PROVE  /\ SameQuota(a) \in Quotas /\ a \in SameQuota(a)
           /\ SameQuota(a) \subseteq Artifact /\ IsFiniteSet(SameQuota(a))
           /\ \A b \in SameQuota(a) : SameQuota(b) = SameQuota(a)
<1>1. \E Q \in Quotas : a \in Q
  BY DEF Artifact, Quotas
<1>2. SameQuota(a) \in Quotas /\ a \in SameQuota(a)
  BY <1>1 DEF SameQuota
<1>3. SameQuota(a) \subseteq Artifact
  BY <1>2 DEF Artifact, Quotas
<1>4. IsFiniteSet(SameQuota(a))
  BY <1>3, FS_Subset, PrivateAiConstants DEF PrivateAiConstants
<1>5. \A b \in SameQuota(a) : SameQuota(b) = SameQuota(a)
  <2> SUFFICES ASSUME NEW b \in SameQuota(a)
               PROVE  SameQuota(b) = SameQuota(a)
    OBVIOUS
  <2>1. SameQuota(b) \in Quotas /\ b \in SameQuota(b)
    <3>1. \E Q \in Quotas : b \in Q
      BY <1>2
    <3> QED
      BY <3>1 DEF SameQuota
  <2> QED
    BY <1>2, <2>1, PrivateAiConstants DEF PrivateAiConstants, Quotas
<1> QED
  BY <1>2, <1>3, <1>4, <1>5

\* The requests that passed a quota are finitely many.
LEMMA PassedFinite ==
    ASSUME NEW Q
    PROVE  Passed(Q) \subseteq Caller /\ IsFiniteSet(Passed(Q)) /\ Cardinality(Passed(Q)) \in Nat
<1>1. Passed(Q) \subseteq Caller
  BY DEF Passed
<1> QED
  BY <1>1, FS_Subset, FS_CardinalityType, PrivateAiConstants DEF PrivateAiConstants

LEMMA AiInit == Init => AiInv
<1> SUFFICES ASSUME Init
             PROVE  AiInv
  OBVIOUS
<1> USE PrivateAiConstants DEF PrivateAiConstants
<1>1. /\ Idle.pc = "idle" /\ Idle.of = "NONE" /\ NoCall.pc = "idle" /\ Unsent.at = "UNSENT"
  BY DEF Idle, NoCall, Unsent
<1>2. AiTyped
  <2>1. RowsTyped
    BY DEF Init, RowsTyped, ArtifactStatus, Missing
  <2>2. AiMessagesTyped
    BY <1>1 DEF Init, AiMessagesTyped
  <2>3. RequestsTyped
    BY <1>1 DEF Init, RequestsTyped
  <2>4. HistoryTyped
    <3>1. faults = 0 /\ clones = {} /\ overlapped = {} /\ raced = {}
        /\ crowd = [Q \in Quotas |-> 1]
      BY DEF Init
    <3>2. 0 \in 0..MaxFaults
      OBVIOUS
    <3>3. crowd \in [Quotas -> Nat \ {0}]
      BY <3>1
    <3> QED
      BY <3>1, <3>2, <3>3 DEF HistoryTyped
  <2> QED
    BY <2>1, <2>2, <2>3, <2>4 DEF Init, AiTyped
<1>3. AiHeld /\ SentIsRequested
  BY DEF Init, AiHeld, SentIsRequested
<1>4. MessageLeft
  BY DEF Init, MessageLeft, Unfinished
<1>5. DraftAlone
  <2>1. Tailored \subseteq Artifact
    BY DEF Artifact
  <2>2. /\ \A a \in Artifact : draft[a] = "none"
        /\ \A c \in Caller : caller[c] = NoCall
        /\ \A k \in Worker : worker[k] = Idle
    BY DEF Init
  <2> QED
    BY <1>1, <2>1, <2>2 DEF DraftAlone
<1>6. PlaceKept
  <2> SUFFICES ASSUME NEW a \in Artifact
               PROVE  Cardinality(Counted(a)) + Cardinality(Passed(SameQuota(a)))
                          < Limit + crowd[SameQuota(a)]
    BY DEF PlaceKept
  <2>1. SameQuota(a) \in Quotas /\ SameQuota(a) \subseteq Artifact
    BY QuotaFinite
  <2>2. Counted(a) = {} /\ Passed(SameQuota(a)) = {} /\ crowd[SameQuota(a)] = 1
    BY <1>1, <2>1 DEF Init, Counted, Passed, Missing
  <2>3. Cardinality({}) = 0
    BY FS_EmptySet
  <2> QED
    BY <2>2, <2>3
<1>7. AiDecided
  BY <1>1 DEF Init, AiDecided, DecisionIsCurrent, ProfileIsDecided
<1> QED
  BY <1>2, <1>3, <1>4, <1>5, <1>6, <1>7 DEF AiInv

-----------------------------------------------------------------------------
(* What a step leaves alone *)

\* A request that is over, all others go on.
RequestEnds(c) == caller' = [caller EXCEPT ![c] = NoCall]

RequestsGoOn == \A c \in Caller : caller'[c] = caller[c] \/ caller'[c] = NoCall

LEMMA RequestOver ==
    ASSUME AiInv, UNCHANGED caller \/ \E c \in Caller : RequestEnds(c)
    PROVE  RequestsGoOn /\ RequestsTyped'
<1>1. CASE UNCHANGED caller
  BY <1>1 DEF RequestsGoOn, AiInv, AiTyped, RequestsTyped
<1>2. ASSUME NEW c \in Caller, RequestEnds(c)
      PROVE  RequestsGoOn /\ RequestsTyped'
  <2>1. NoCall.pc = "idle"
    BY DEF NoCall
  <2>2. \A d \in Caller : caller'[d] = IF d = c THEN NoCall ELSE caller[d]
    BY <1>2 DEF RequestEnds, AiInv, AiTyped, RequestsTyped
  <2>3. caller' \in [Caller -> {NoCall} \cup AiCall]
    BY <1>2 DEF RequestEnds, AiInv, AiTyped, RequestsTyped
  <2> QED
    BY <2>1, <2>2, <2>3 DEF RequestsGoOn, AiInv, AiTyped, RequestsTyped
<1> QED
  BY <1>1, <1>2

\* No row is added that the quota counts.
LEMMA QuotaKept ==
    ASSUME AiInv, RequestsGoOn, UNCHANGED crowd, clones \subseteq clones',
           \A a \in Artifact : status'[a] \notin Missing => status[a] \notin Missing \/ a \in clones'
    PROVE  PlaceKept'
<1> SUFFICES ASSUME NEW a \in Artifact
             PROVE  Cardinality(Counted(a)') + Cardinality(Passed(SameQuota(a))')
                        < Limit + crowd[SameQuota(a)]
  BY DEF PlaceKept
<1>1. /\ Cardinality(Counted(a)) \in Nat /\ Cardinality(Counted(a)') \in Nat
      /\ Cardinality(Counted(a)') <= Cardinality(Counted(a))
  <2>1. Counted(a)' \subseteq Counted(a) /\ Counted(a) \subseteq SameQuota(a)
    BY QuotaFinite DEF Counted
  <2>2. IsFiniteSet(Counted(a)) /\ IsFiniteSet(Counted(a)')
    <3>1. IsFiniteSet(SameQuota(a))
      BY QuotaFinite
    <3>2. IsFiniteSet(Counted(a))
      BY <2>1, <3>1, FS_Subset
    <3> QED
      BY <2>1, <3>2, FS_Subset
  <2> QED
    BY <2>1, <2>2, FS_Subset, FS_CardinalityType
<1>2. /\ Cardinality(Passed(SameQuota(a))) \in Nat /\ Cardinality(Passed(SameQuota(a))') \in Nat
      /\ Cardinality(Passed(SameQuota(a))') <= Cardinality(Passed(SameQuota(a)))
  <2>1. Passed(SameQuota(a))' \subseteq Passed(SameQuota(a))
    BY DEF Passed, RequestsGoOn, NoCall
  <2>2. IsFiniteSet(Passed(SameQuota(a))) /\ Cardinality(Passed(SameQuota(a))) \in Nat
    BY PassedFinite
  <2> QED
    BY <2>1, <2>2, FS_Subset, FS_CardinalityType
<1>3. Cardinality(Counted(a)) + Cardinality(Passed(SameQuota(a))) < Limit + crowd[SameQuota(a)]
  BY DEF AiInv, PlaceKept
<1>4. Limit \in Nat /\ crowd[SameQuota(a)] \in Nat
  <2>1. SameQuota(a) \in Quotas
    BY QuotaFinite
  <2> QED
    BY <2>1, PrivateAiConstants DEF PrivateAiConstants, AiInv, AiTyped, HistoryTyped
<1> QED
  BY <1>1, <1>2, <1>3, <1>4

LEMMA DecisionsKept ==
    ASSUME AiInv, RequestsGoOn, UNCHANGED <<raced, batches, decision, profile>>
    PROVE  AiDecided'
<1>1. \A c \in Caller : caller'[c].pc = "decide" => caller'[c] = caller[c]
  BY DEF RequestsGoOn, NoCall
<1>2. ASSUME NEW c \in Caller, caller'[c].pc = "decide"
      PROVE  ListIsCurrent(c)'
  <2>1. ListIsCurrent(c) /\ caller'[c] = caller[c]
    BY <1>1, <1>2 DEF AiInv, AiDecided, DecisionIsCurrent
  <2> QED
    BY <1>1, <2>1 DEF ListIsCurrent
<1> QED
  BY <1>2 DEF AiInv, AiDecided, DecisionIsCurrent, ProfileIsDecided

\* Workers go on with their artifact, and a succeeded or deleted one stays so.
LEMMA DraftsKept ==
    ASSUME AiInv, RequestsGoOn, UNCHANGED draft, overlapped \subseteq overlapped',
           \A k \in Worker : worker'[k] # Idle =>
               /\ worker[k] # Idle /\ worker'[k].of = worker[k].of
               /\ worker'[k].pc \in {"loaded", "calling"} => worker[k].pc \in {"loaded", "calling"},
           \A a \in Tailored \ overlapped' :
               \/ status'[a] = status[a]
               \/ status[a] \notin {"SUCCEEDED", "DELETED"} /\ status'[a] # "SUCCEEDED"
    PROVE  DraftAlone'
<1>1. Idle.pc = "idle" /\ NoCall.pc = "idle"
  BY DEF Idle, NoCall
<1>2. \A c \in Caller : caller'[c].pc = "draft" => caller'[c] = caller[c]
  BY <1>1 DEF RequestsGoOn
<1>3. \A k \in Worker : worker'[k].pc \in {"loaded", "calling"} =>
          worker[k].pc \in {"loaded", "calling"} /\ worker'[k].of = worker[k].of
  BY <1>1
<1> SUFFICES ASSUME NEW a \in Tailored \ overlapped'
             PROVE  /\ draft'[a] = "edited" => status'[a] = "SUCCEEDED"
                    /\ \A c \in Caller : caller'[c].pc = "draft" /\ caller'[c].of = a =>
                           status'[a] \in {"SUCCEEDED", "DELETED"}
                    /\ \A k \in Worker : worker'[k].pc \in {"loaded", "calling"} /\ worker'[k].of = a =>
                           status'[a] # "SUCCEEDED"
                    /\ \A j, k \in Worker : worker'[j] # Idle /\ worker'[k] # Idle
                                /\ worker'[j].of = a /\ worker'[k].of = a => j = k
  BY DEF DraftAlone
<1>4. a \in Tailored \ overlapped
  OBVIOUS
<1>5. draft[a] = "edited" => status[a] = "SUCCEEDED"
  BY <1>4 DEF AiInv, DraftAlone
<1>6. \A c \in Caller : caller[c].pc = "draft" /\ caller[c].of = a => status[a] \in {"SUCCEEDED", "DELETED"}
  BY <1>4 DEF AiInv, DraftAlone
<1>7. \A k \in Worker : worker[k].pc \in {"loaded", "calling"} /\ worker[k].of = a => status[a] # "SUCCEEDED"
  BY <1>4 DEF AiInv, DraftAlone
<1>8. \A j, k \in Worker : worker[j] # Idle /\ worker[k] # Idle /\ worker[j].of = a /\ worker[k].of = a => j = k
  BY <1>4 DEF AiInv, DraftAlone
<1> QED
  BY <1>2, <1>3, <1>5, <1>6, <1>7, <1>8

LEMMA AiMessageWritten ==
    ASSUME AiMessagesTyped, NEW m \in Message, NEW r \in AiMessage,
           r.at \in {"PENDING", "VISIBLE"} => r.receives < MaxReceive,
           message' = [message EXCEPT ![m] = r]
    PROVE  /\ AiMessagesTyped'
           /\ message'[m] = r
           /\ \A i \in Message : i # m => message'[i] = message[i]
<1>1. message'[m] = r /\ \A i \in Message : i # m => message'[i] = message[i]
  BY DEF AiMessagesTyped
<1>2. message' = [i \in Message |-> message'[i]]
  BY DEF AiMessagesTyped
<1> QED
  BY <1>1, <1>2 DEF AiMessagesTyped

\* A new event or message.
LEMMA AiAdded ==
    ASSUME AiInv, NEW a \in Artifact, NEW place \in {"PENDING", "VISIBLE"}, Add(a, place)
    PROVE  /\ AiMessagesTyped'
           /\ \A i \in Message : message[i] # Unsent => message'[i] = message[i]
           /\ \E m \in Message :
                 /\ message[m] = Unsent
                 /\ message'[m].of = a /\ message'[m].at = place
                 /\ \A i \in Message : i # m => message'[i] = message[i]
<1> DEFINE r == [of |-> a, at |-> place, receives |-> 0]
<1>1. PICK m \in Message : message[m] = Unsent /\ message' = [message EXCEPT ![m] = r]
  BY DEF Add
<1>2. r \in AiMessage /\ r.of = a /\ r.at = place /\ r.receives < MaxReceive
  BY PrivateAiConstants DEF AiMessage, Waits, PrivateAiConstants
<1> HIDE DEF r
<1> QED
  BY <1>1, <1>2, AiMessageWritten DEF AiInv, AiTyped

\* What a busy worker holds.
LEMMA AiAtWork ==
    ASSUME AiInv, NEW k \in Worker, worker[k] # Idle
    PROVE  /\ worker[k] \in AiWork /\ worker[k].msg \in Message /\ worker[k].of \in Artifact
           /\ message[worker[k].msg] \in AiMessage
           /\ message[worker[k].msg].at = "INFLIGHT" /\ message[worker[k].msg].of = worker[k].of
           /\ status[worker[k].of] # "NONE"
<1>1. Unsent.at = "UNSENT"
  BY DEF Unsent
<1>2. worker[k] \in AiWork /\ worker[k].msg \in Message /\ worker[k].of \in Artifact
  BY DEF AiInv, AiTyped, AiWork
<1>3. message[worker[k].msg].at = "INFLIGHT" /\ message[worker[k].msg].of = worker[k].of
  BY DEF AiInv, AiHeld
<1>4. message[worker[k].msg] \in AiMessage
  BY <1>1, <1>2, <1>3 DEF AiInv, AiTyped, AiMessagesTyped
<1> QED
  BY <1>1, <1>2, <1>3, <1>4 DEF AiInv, SentIsRequested

\* Messages that are sent stay, no worker moves, no artifact comes to wait without one.
LEMMA QueueKept ==
    ASSUME AiInv, UNCHANGED worker,
           \A i \in Message : message[i] # Unsent =>
               \/ message'[i] = message[i]
               \/ /\ message[i].at # "INFLIGHT" /\ message'[i].at \in Waits
                  /\ message'[i].of = message[i].of,
           \A i \in Message : message[i] = Unsent /\ message'[i] # Unsent =>
               message'[i].of \in Artifact /\ status'[message'[i].of] # "NONE",
           \A a \in Artifact : status[a] # "NONE" => status'[a] # "NONE",
           \A a \in Artifact : status'[a] \in Unfinished =>
               \/ status[a] \in Unfinished
               \/ \E m \in Message : message[m] = Unsent /\ message'[m].of = a /\ message'[m].at \in Waits
    PROVE  AiHeld' /\ SentIsRequested' /\ MessageLeft'
<1>1. Unsent.at = "UNSENT" /\ Idle.pc = "idle"
  BY DEF Unsent, Idle
<1>2. \A k \in Worker : worker[k] # Idle => message'[worker[k].msg] = message[worker[k].msg]
  BY <1>1, AiAtWork
<1>3. AiHeld'
  BY <1>2 DEF AiInv, AiHeld
<1>4. SentIsRequested'
  <2> SUFFICES ASSUME NEW m \in Message, message'[m] # Unsent
               PROVE  status'[message'[m].of] # "NONE"
    BY DEF SentIsRequested
  <2>1. CASE message[m] = Unsent
    BY <2>1
  <2>2. CASE message[m] # Unsent
    <3>1. message[m].of \in Artifact /\ status[message[m].of] # "NONE"
      BY <2>2 DEF AiInv, AiTyped, AiMessagesTyped, AiMessage, SentIsRequested
    <3> QED
      BY <2>2, <3>1
  <2> QED
    BY <2>1, <2>2
<1>5. MessageLeft'
  <2> SUFFICES ASSUME NEW a \in Artifact, status'[a] \in Unfinished
               PROVE  \E m \in Message :
                         /\ message'[m].of = a /\ message'[m].at \in Waits
                         /\ \A k \in Worker : worker[k].msg = m => worker[k].pc # "done"
    BY DEF MessageLeft
  <2>1. CASE status[a] \in Unfinished
    <3>1. PICK m \in Message :
            /\ message[m].of = a /\ message[m].at \in Waits
            /\ \A k \in Worker : worker[k].msg = m => worker[k].pc # "done"
      BY <2>1 DEF AiInv, MessageLeft
    <3>2. message[m] # Unsent
      BY <1>1, <3>1 DEF Waits
    <3> QED
      BY <3>1, <3>2
  <2>2. CASE status[a] \notin Unfinished
    <3>1. PICK m \in Message : message[m] = Unsent /\ message'[m].of = a /\ message'[m].at \in Waits
      BY <2>2
    <3>2. \A k \in Worker : worker[k].msg = m => worker[k] = Idle
      BY <1>1, <3>1, AiAtWork
    <3> QED
      BY <1>1, <3>1, <3>2
  <2> QED
    BY <2>1, <2>2
<1> QED
  BY <1>3, <1>4, <1>5

-----------------------------------------------------------------------------
(* Requests *)

LEMMA RequestEntered ==
    ASSUME AiInv, NEW c \in Caller, NEW p \in {"insert", "draft", "decide", "requeue"},
           NEW a \in Artifact, NEW seen \in ArtifactStatus \cup {"PENDING"},
           NEW list \in SUBSET Suggestions, Enter(c, p, a, seen, list),
           raced \subseteq raced', raced' \subseteq Suggestions,
           crowd' \in [Quotas -> Nat \ {0}], \A Q \in Quotas : crowd[Q] <= crowd'[Q],
           p = "insert" => /\ HasCapacity(a)
                           /\ Cardinality(Passed(SameQuota(a))) < crowd'[SameQuota(a)],
           p = "decide" => \A d \in Caller : caller[d].pc = "decide" =>
                               a \in raced' /\ caller[d].of \in raced',
           p = "draft" => status[a] = "SUCCEEDED",
           p = "decide" => a \in Suggestions /\ list = profile /\ decision[a] = "PENDING",
           p = "requeue" => a \in Pasted
    PROVE  AiInv'
<1> DEFINE call == [pc |-> p, of |-> a, seen |-> seen, list |-> list]
<1>1. /\ caller[c] = NoCall
      /\ caller' = [caller EXCEPT ![c] = call]
      /\ UNCHANGED <<status, draft, operation, batches, decision, profile, message, worker, faults,
                     clones, overlapped>>
  BY DEF Enter, suggested
<1>2. call \in AiCall /\ call.pc = p /\ call.of = a /\ call.list = list
  BY DEF AiCall
<1> HIDE DEF call
<1>3. NoCall.pc = "idle"
  BY DEF NoCall
<1>4. \A d \in Caller : caller'[d] = IF d = c THEN call ELSE caller[d]
  BY <1>1 DEF AiInv, AiTyped, RequestsTyped
<1>6. RequestsTyped'
  <2>1. caller' \in [Caller -> {NoCall} \cup AiCall]
    BY <1>1, <1>2 DEF AiInv, AiTyped, RequestsTyped
  <2>2. \A d \in Caller :
          /\ caller'[d].pc = "decide" => caller'[d].of \in Suggestions
          /\ caller'[d].pc = "requeue" => caller'[d].of \in Pasted
    BY <1>2, <1>4 DEF AiInv, AiTyped, RequestsTyped
  <2> QED
    BY <2>1, <2>2 DEF RequestsTyped
<1>7. AiTyped'
  BY <1>1, <1>6 DEF AiInv, AiTyped, RowsTyped, AiMessagesTyped, HistoryTyped
<1>8. AiHeld' /\ SentIsRequested' /\ MessageLeft'
  BY <1>1, QueueKept
<1>9. DraftAlone'
  <2> SUFFICES ASSUME NEW b \in Tailored \ overlapped, NEW d \in Caller, caller'[d].pc = "draft",
                      caller'[d].of = b
               PROVE  status[b] \in {"SUCCEEDED", "DELETED"}
    BY <1>1 DEF AiInv, DraftAlone
  <2>1. CASE d = c
    BY <1>2, <1>4, <2>1
  <2>2. CASE d # c
    BY <1>4, <2>2 DEF AiInv, DraftAlone
  <2> QED
    BY <2>1, <2>2
<1>10. PlaceKept'
  <2> SUFFICES ASSUME NEW b \in Artifact
               PROVE  Cardinality(Counted(b)') + Cardinality(Passed(SameQuota(b))')
                          < Limit + crowd'[SameQuota(b)]
    BY DEF PlaceKept
  <2> DEFINE Q == SameQuota(b)
  <2>1. Q \in Quotas /\ IsFiniteSet(Q) /\ a \in SameQuota(a) /\ (a \in Q => SameQuota(a) = Q)
    BY QuotaFinite
  <2>2. /\ IsFiniteSet(Passed(Q)) /\ Cardinality(Passed(Q)) \in Nat /\ c \notin Passed(Q)
    BY <1>1, <1>3, PassedFinite DEF Passed
  <2>3. Passed(Q)' = IF p = "insert" /\ a \in Q THEN Passed(Q) \cup {c} ELSE Passed(Q)
    BY <1>2, <1>3, <1>4, <1>1 DEF Passed
  <2>4. Counted(b)' = Counted(b)
    BY <1>1 DEF Counted
  <2>5. Limit \in Nat /\ crowd[Q] \in Nat /\ crowd'[Q] \in Nat /\ crowd[Q] <= crowd'[Q]
    BY <2>1, PrivateAiConstants DEF PrivateAiConstants, AiInv, AiTyped, HistoryTyped
  <2>6. Cardinality(Counted(b)) \in Nat
    <3>1. Counted(b) \subseteq Q
      BY DEF Counted
    <3> QED
      BY <2>1, <3>1, FS_Subset, FS_CardinalityType
  <2>7. CASE p = "insert" /\ a \in Q
    <3>1. Cardinality(Passed(Q)') = Cardinality(Passed(Q)) + 1
      BY <2>2, <2>3, <2>7, FS_AddElement
    <3>2. Cardinality(Passed(Q)) < crowd'[Q]
      BY <2>1, <2>7
    <3>3. Cardinality(Counted(b)) < Limit
      <4> DEFINE stored == {x \in Q : status[x] \notin Missing}
      <4>1. Cardinality(stored) < Limit
        BY <2>1, <2>7 DEF HasCapacity
      <4>2. Counted(b) \subseteq stored /\ stored \subseteq Q
        BY DEF Counted
      <4> HIDE DEF stored, Q
      <4>3. IsFiniteSet(stored)
        BY <2>1, <4>2, FS_Subset
      <4>4. Cardinality(stored) \in Nat /\ Cardinality(Counted(b)) <= Cardinality(stored)
        BY <4>2, <4>3, FS_Subset, FS_CardinalityType
      <4> QED
        BY <2>5, <2>6, <4>1, <4>4
    <3> HIDE DEF Q
    <3>4. Cardinality(Counted(b)') + Cardinality(Passed(Q)') < Limit + crowd'[Q]
      BY <2>2, <2>4, <2>5, <2>6, <3>1, <3>2, <3>3
    <3> QED
      BY <3>4 DEF Q
  <2>8. CASE ~(p = "insert" /\ a \in Q)
    <3>1. Cardinality(Counted(b)) + Cardinality(Passed(Q)) < Limit + crowd[Q]
      BY DEF AiInv, PlaceKept
    <3>2. Passed(Q)' = Passed(Q)
      BY <2>3, <2>8
    <3> HIDE DEF Q
    <3>3. Cardinality(Counted(b)') + Cardinality(Passed(Q)') < Limit + crowd'[Q]
      BY <2>2, <2>4, <2>5, <2>6, <3>1, <3>2
    <3> QED
      BY <3>3 DEF Q
  <2> QED
    BY <2>7, <2>8
<1>11. ASSUME NEW d \in Caller, caller'[d].pc = "decide"
       PROVE  ListIsCurrent(d)'
  <2>1. CASE d = c
    <3>1. caller'[d] = call /\ p = "decide"
      BY <1>2, <1>4, <1>11, <2>1
    <3>2. /\ a \notin profile /\ batches[a] = 1
          /\ \A s \in profile : batches[s] = 1 /\ decision[s] # "PENDING"
          /\ \A s \in Suggestions \ raced' : /\ decision[s] = "ACCEPTED" => s \in profile
                                             /\ decision[s] = "REJECTED" => s \notin profile
      BY <3>1 DEF AiInv, AiTyped, RowsTyped, AiDecided, DecisionIsCurrent, ProfileIsDecided
    <3>3. a \notin raced' => \A e \in Caller : caller'[e].pc = "decide" => e = d
      BY <1>4, <2>1, <3>1
    <3> QED
      BY <1>1, <1>2, <3>1, <3>2, <3>3 DEF ListIsCurrent
  <2>2. CASE d # c
    <3>1. caller'[d] = caller[d] /\ ListIsCurrent(d)
      BY <1>4, <1>11, <2>2 DEF AiInv, AiDecided, DecisionIsCurrent
    <3>2. caller[d].of \notin raced' => \A e \in Caller : caller'[e].pc = "decide" => e = d
      BY <1>2, <1>4, <1>11, <3>1 DEF ListIsCurrent
    <3> QED
      BY <1>1, <3>1, <3>2 DEF ListIsCurrent
  <2> QED
    BY <2>1, <2>2
<1>12. AiDecided'
  BY <1>1, <1>11 DEF AiInv, AiDecided, DecisionIsCurrent, ProfileIsDecided
<1> QED
  BY <1>7, <1>8, <1>9, <1>10, <1>12 DEF AiInv

LEMMA RequestsEnter ==
    ASSUME AiInv, NEW c \in Caller,
           \/ \E a \in Artifact : CheckQuota(c, a)
           \/ \E a \in Pasted : FindPasted(c, a)
           \/ \E a \in Tailored : FindDraft(c, a)
           \/ \E s \in Suggestions : FindSuggestion(c, s)
    PROVE  AiInv'
<1>0. /\ raced \subseteq Suggestions /\ crowd \in [Quotas -> Nat \ {0}]
      /\ \A Q \in Quotas : crowd[Q] <= crowd[Q]
  BY DEF AiInv, AiTyped, HistoryTyped
<1>1. ASSUME NEW a \in Artifact, CheckQuota(c, a)
      PROVE  AiInv'
  <2>1. "NONE" \in ArtifactStatus /\ {} \in SUBSET Suggestions
    BY DEF ArtifactStatus, Missing
  <2> QED
    <3> DEFINE Q == SameQuota(a)
               here == Cardinality(Passed(Q)) + 1
    <3>1. /\ HasCapacity(a) /\ Enter(c, "insert", a, "NONE", {}) /\ raced' = raced
          /\ crowd' = [crowd EXCEPT ![Q] = IF crowd[Q] < here THEN here ELSE crowd[Q]]
      BY <1>1 DEF CheckQuota
    <3>2. /\ crowd \in [Quotas -> Nat \ {0}] /\ raced \subseteq Suggestions
          /\ Q \in Quotas /\ Cardinality(Passed(Q)) \in Nat
      BY QuotaFinite, PassedFinite DEF AiInv, AiTyped, HistoryTyped
    <3> HIDE DEF Q
    <3>3. /\ crowd' \in [Quotas -> Nat \ {0}] /\ \A R \in Quotas : crowd[R] <= crowd'[R]
          /\ Cardinality(Passed(Q)) < crowd'[Q]
      BY <3>1, <3>2
    <3> QED
      BY <2>1, <3>1, <3>2, <3>3, RequestEntered DEF Q
<1>2. ASSUME NEW a \in Pasted, FindPasted(c, a)
      PROVE  AiInv'
  <2>1. a \in Artifact /\ {} \in SUBSET Suggestions
    BY DEF Artifact
  <2>2. status[a] \in ArtifactStatus
    BY <2>1 DEF AiInv, AiTyped, RowsTyped
  <2> QED
    BY <1>0, <1>2, <2>1, <2>2, RequestEntered DEF FindPasted
<1>3. ASSUME NEW a \in Tailored, FindDraft(c, a)
      PROVE  AiInv'
  <2>1. a \in Artifact /\ {} \in SUBSET Suggestions
    BY DEF Artifact
  <2>2. status[a] \in ArtifactStatus /\ status[a] = "SUCCEEDED"
    BY <1>3, <2>1 DEF AiInv, AiTyped, RowsTyped, FindDraft
  <2> QED
    BY <1>0, <1>3, <2>1, <2>2, RequestEntered DEF FindDraft
<1>4. ASSUME NEW s \in Suggestions, FindSuggestion(c, s)
      PROVE  AiInv'
  <2>1. s \in Artifact /\ profile \in SUBSET Suggestions
    BY DEF Artifact, AiInv, AiTyped, RowsTyped
  <2> QED
    <3> DEFINE open == {caller[d].of : d \in {d \in Caller : caller[d].pc = "decide"}}
    <3>1. /\ decision[s] = "PENDING" /\ Enter(c, "decide", s, "PENDING", profile)
          /\ raced' = IF open = {} THEN raced ELSE raced \cup open \cup {s}
          /\ crowd' = crowd
      BY <1>4 DEF FindSuggestion
    <3>2. \A d \in Caller : caller[d].pc = "decide" => caller[d].of \in open
      OBVIOUS
    <3>3. open \subseteq Suggestions
      BY DEF AiInv, AiTyped, RequestsTyped
    <3> HIDE DEF open
    <3>4. /\ raced \subseteq raced' /\ raced' \subseteq Suggestions
          /\ \A d \in Caller : caller[d].pc = "decide" => s \in raced' /\ caller[d].of \in raced'
      BY <1>0, <3>1, <3>2, <3>3
    <3> QED
      BY <1>0, <2>1, <3>1, <3>4, RequestEntered
<1> QED
  BY <1>1, <1>2, <1>3, <1>4

LEMMA ArtifactInserted ==
    ASSUME AiInv, NEW c \in Caller, InsertArtifact(c)
    PROVE  AiInv'
<1> DEFINE a == caller[c].of
<1>1. /\ caller[c].pc = "insert" /\ RequestEnds(c) /\ status[a] = "NONE"
      /\ status' = [status EXCEPT ![a] = "QUEUED"]
      /\ Add(a, "PENDING")
      /\ UNCHANGED <<draft, operation, batches, decision, profile, worker, faults, clones, overlapped, raced, crowd>>
  BY DEF InsertArtifact, Leave, RequestEnds, SetStatus, Send, suggested, history
<1>2. a \in Artifact /\ caller[c] # NoCall
  BY <1>1 DEF AiInv, AiTyped, RequestsTyped, AiCall, NoCall
<1> HIDE DEF a
<1>3. RequestsGoOn /\ RequestsTyped'
  BY <1>1, RequestOver
<1>4. \A b \in Artifact : status'[b] = IF b = a THEN "QUEUED" ELSE status[b]
  BY <1>1 DEF AiInv, AiTyped, RowsTyped
<1>5. /\ AiMessagesTyped'
      /\ \A i \in Message : message[i] # Unsent => message'[i] = message[i]
      /\ \E m \in Message :
            /\ message[m] = Unsent /\ message'[m].of = a /\ message'[m].at = "PENDING"
            /\ \A i \in Message : i # m => message'[i] = message[i]
  BY <1>1, <1>2, AiAdded
<1>6. AiTyped'
  <2>1. status' \in [Artifact -> ArtifactStatus]
    BY <1>1 DEF AiInv, AiTyped, RowsTyped, ArtifactStatus, Unfinished
  <2> QED
    BY <1>1, <1>3, <1>5, <2>1 DEF AiInv, AiTyped, RowsTyped, HistoryTyped
<1>7. AiHeld' /\ SentIsRequested' /\ MessageLeft'
  <2>1. \A i \in Message : message[i] = Unsent /\ message'[i] # Unsent => message'[i].of = a
    BY <1>5
  <2>2. \A b \in Artifact : status'[b] \in Unfinished =>
           \/ status[b] \in Unfinished
           \/ \E m \in Message : message[m] = Unsent /\ message'[m].of = b /\ message'[m].at \in Waits
    BY <1>4, <1>5 DEF Waits
  <2> QED
    BY <1>1, <1>2, <1>4, <1>5, <2>1, <2>2, QueueKept
<1>8. DraftAlone'
  <2>1. \A b \in Tailored \ overlapped' :
               \/ status'[b] = status[b]
               \/ status[b] \notin {"SUCCEEDED", "DELETED"} /\ status'[b] # "SUCCEEDED"
    BY <1>1, <1>4 DEF Artifact
  <2> QED
    BY <1>1, <1>3, <2>1, DraftsKept
<1>9. AiDecided'
  BY <1>1, <1>3, DecisionsKept
<1>10. PlaceKept'
  <2> SUFFICES ASSUME NEW b \in Artifact
               PROVE  Cardinality(Counted(b)') + Cardinality(Passed(SameQuota(b))')
                          < Limit + crowd[SameQuota(b)]
    BY <1>1 DEF PlaceKept
  <2> DEFINE Q == SameQuota(b)
  <2>1. Q \in Quotas /\ Q \subseteq Artifact /\ IsFiniteSet(Q)
    BY QuotaFinite
  <2>2. IsFiniteSet(Passed(Q)) /\ Cardinality(Passed(Q)) \in Nat
    BY PassedFinite
  <2>3. \A d \in Caller : caller'[d] = IF d = c THEN NoCall ELSE caller[d]
    BY <1>1 DEF RequestEnds, AiInv, AiTyped, RequestsTyped
  <2>4. Passed(Q)' = Passed(Q) \ {c} /\ (c \in Passed(Q) <=> a \in Q)
    BY <1>1, <2>3 DEF Passed, NoCall, a
  <2>5. Limit \in Nat /\ crowd[Q] \in Nat
    BY <2>1, PrivateAiConstants DEF PrivateAiConstants, AiInv, AiTyped, HistoryTyped
  <2>6. IsFiniteSet(Counted(b)) /\ Cardinality(Counted(b)) \in Nat
    <3>1. Counted(b) \subseteq Q
      BY DEF Counted
    <3> QED
      BY <2>1, <3>1, FS_Subset, FS_CardinalityType
  <2>7. Cardinality(Counted(b)) + Cardinality(Passed(Q)) < Limit + crowd[Q]
    BY DEF AiInv, PlaceKept
  <2>8. CASE a \notin Q
    <3>1. Counted(b)' = Counted(b)
      BY <1>1, <1>4, <2>1, <2>8 DEF Counted
    <3>2. Passed(Q)' = Passed(Q)
      BY <2>4, <2>8
    <3> QED
      BY <2>7, <3>1, <3>2
  <2>9. CASE a \in Q
    <3>1. Counted(b)' \subseteq Counted(b) \cup {a}
      BY <1>1, <1>4, <2>1 DEF Counted
    <3>2. /\ IsFiniteSet(Counted(b) \cup {a})
          /\ \/ Cardinality(Counted(b) \cup {a}) = Cardinality(Counted(b))
             \/ Cardinality(Counted(b) \cup {a}) = Cardinality(Counted(b)) + 1
      BY <2>6, FS_AddElement
    <3>3. /\ Cardinality(Counted(b)') <= Cardinality(Counted(b) \cup {a})
          /\ Cardinality(Counted(b)') \in Nat /\ Cardinality(Counted(b) \cup {a}) \in Nat
      BY <3>1, <3>2, FS_Subset, FS_CardinalityType
    <3>4. Cardinality(Passed(Q)') = Cardinality(Passed(Q)) - 1
      BY <2>2, <2>4, <2>9, FS_RemoveElement
    <3> HIDE DEF Q
    <3>5. Cardinality(Counted(b)') + Cardinality(Passed(Q)') < Limit + crowd[Q]
      BY <2>2, <2>5, <2>6, <2>7, <3>2, <3>3, <3>4
    <3> QED
      BY <3>5 DEF Q
  <2> QED
    BY <2>8, <2>9
<1> QED
  BY <1>6, <1>7, <1>8, <1>9, <1>10 DEF AiInv

\* Requests that touch neither the queue nor a tailored CV's status.
LEMMA PastedRequeued ==
    ASSUME AiInv, NEW c \in Caller, RequeuePasted(c)
    PROVE  AiInv'
<1> DEFINE a == caller[c].of
<1>1. /\ caller[c].pc = "requeue" /\ RequestEnds(c) /\ status[a] \notin Missing
      /\ status' = status \/ status' = [status EXCEPT ![a] = "QUEUED"]
      /\ Add(a, "PENDING")
      /\ UNCHANGED <<draft, operation, batches, decision, profile, worker, faults, clones, overlapped, raced, crowd>>
  BY DEF RequeuePasted, Leave, RequestEnds, SetStatus, Send, suggested, history
<1>2. a \in Artifact /\ a \in Pasted
  BY <1>1 DEF AiInv, AiTyped, RequestsTyped, Artifact
<1> HIDE DEF a
<1>3. RequestsGoOn /\ RequestsTyped'
  BY <1>1, RequestOver
<1>4. \A b \in Artifact : status'[b] = status[b] \/ (b = a /\ status'[b] = "QUEUED")
  BY <1>1 DEF AiInv, AiTyped, RowsTyped
<1>5. /\ AiMessagesTyped'
      /\ \A i \in Message : message[i] # Unsent => message'[i] = message[i]
      /\ \E m \in Message :
            /\ message[m] = Unsent /\ message'[m].of = a /\ message'[m].at = "PENDING"
            /\ \A i \in Message : i # m => message'[i] = message[i]
  BY <1>1, <1>2, AiAdded
<1>6. AiTyped'
  <2>1. status' \in [Artifact -> ArtifactStatus]
    BY <1>1 DEF AiInv, AiTyped, RowsTyped, ArtifactStatus, Unfinished
  <2> QED
    BY <1>1, <1>3, <1>5, <2>1 DEF AiInv, AiTyped, RowsTyped, HistoryTyped
<1>7. AiHeld' /\ SentIsRequested' /\ MessageLeft'
  <2>1. \A i \in Message : message[i] = Unsent /\ message'[i] # Unsent => message'[i].of = a
    BY <1>5
  <2>2. \A b \in Artifact : status'[b] \in Unfinished =>
           \/ status[b] \in Unfinished
           \/ \E m \in Message : message[m] = Unsent /\ message'[m].of = b /\ message'[m].at \in Waits
    BY <1>4, <1>5 DEF Waits
  <2>3. \A b \in Artifact : status[b] # "NONE" => status'[b] # "NONE"
    BY <1>4
  <2>4. status'[a] # "NONE"
    BY <1>1, <1>2, <1>4 DEF Missing
  <2> QED
    BY <1>1, <1>2, <1>5, <2>1, <2>2, <2>3, <2>4, QueueKept
<1>8. DraftAlone'
  <2>1. \A b \in Tailored : status'[b] = status[b]
    BY <1>2, <1>4, PrivateAiConstants DEF Artifact, PrivateAiConstants
  <2> QED
    BY <1>1, <1>3, <2>1, DraftsKept
<1>9. AiDecided'
  BY <1>1, <1>3, DecisionsKept
<1>10. PlaceKept'
  <2>1. \A b \in Artifact : status'[b] \notin Missing => status[b] \notin Missing
    BY <1>1, <1>4
  <2> QED
    BY <1>1, <1>3, <2>1, QuotaKept
<1> QED
  BY <1>6, <1>7, <1>8, <1>9, <1>10 DEF AiInv

LEMMA DraftUpdated ==
    ASSUME AiInv, NEW c \in Caller, UpdateDraft(c)
    PROVE  AiInv'
<1> DEFINE a == caller[c].of
<1>1. /\ caller[c].pc = "draft" /\ RequestEnds(c) /\ status[a] \notin Missing
      /\ draft' = [draft EXCEPT ![a] = "edited"]
      /\ UNCHANGED <<status, operation, batches, decision, profile, message, worker, faults, clones, overlapped, raced, crowd>>
  BY DEF UpdateDraft, Leave, RequestEnds, suggested, history
<1>2. a \in Artifact
  BY <1>1 DEF AiInv, AiTyped, RequestsTyped, AiCall, NoCall
<1>3. RequestsGoOn /\ RequestsTyped'
  BY <1>1, RequestOver
<1>4. AiTyped'
  <2>1. draft' \in [Artifact -> {"none", "generated", "edited"}]
    BY <1>1 DEF AiInv, AiTyped, RowsTyped
  <2> QED
    BY <1>1, <1>3, <2>1 DEF AiInv, AiTyped, RowsTyped, AiMessagesTyped, HistoryTyped
<1>5. AiHeld' /\ SentIsRequested' /\ MessageLeft'
  BY <1>1, QueueKept
<1>6. DraftAlone'
  <2> HIDE DEF a
  <2> SUFFICES ASSUME NEW b \in Tailored \ overlapped
               PROVE  /\ draft'[b] = "edited" => status[b] = "SUCCEEDED"
                      /\ \A d \in Caller : caller'[d].pc = "draft" /\ caller'[d].of = b =>
                             status[b] \in {"SUCCEEDED", "DELETED"}
    BY <1>1 DEF AiInv, DraftAlone
  <2>1. NoCall.pc = "idle" /\ b \in Artifact
    BY DEF NoCall, Artifact
  <2>2. draft'[b] = IF b = a THEN "edited" ELSE draft[b]
    BY <1>1, <2>1 DEF AiInv, AiTyped, RowsTyped
  <2>3. b = a => status[b] = "SUCCEEDED"
    BY <1>1 DEF AiInv, DraftAlone, Missing, a
  <2>4. \A d \in Caller : caller'[d].pc = "draft" => caller'[d] = caller[d]
    BY <1>3, <2>1 DEF RequestsGoOn
  <2> QED
    BY <2>2, <2>3, <2>4 DEF AiInv, DraftAlone
<1>7. AiDecided' /\ PlaceKept'
  BY <1>1, <1>3, DecisionsKept, QuotaKept
<1> QED
  BY <1>4, <1>5, <1>6, <1>7 DEF AiInv

LEMMA SuggestionDecided ==
    ASSUME AiInv, NEW c \in Caller, NEW d \in {"ACCEPTED", "REJECTED"}, Decide(c, d)
    PROVE  AiInv'
<1> DEFINE s == caller[c].of
           list == caller[c].list
<1>1. /\ caller[c].pc = "decide" /\ RequestEnds(c) /\ decision[s] # "NONE"
      /\ decision' = [decision EXCEPT ![s] = d]
      /\ profile' = IF d = "ACCEPTED" /\ s \notin list THEN list \cup {s} ELSE profile
      /\ UNCHANGED <<status, draft, operation, batches, message, worker, faults, clones, overlapped, raced, crowd>>
  BY DEF Decide, Leave, RequestEnds, history
<1>2. s \in Suggestions /\ list \subseteq Suggestions /\ caller[c] # NoCall
  BY <1>1 DEF AiInv, AiTyped, RequestsTyped, AiCall, NoCall
<1>3. RequestsGoOn /\ RequestsTyped'
  BY <1>1, RequestOver
<1>4. AiTyped'
  <2>1. decision' \in [Suggestions -> {"NONE", "PENDING", "ACCEPTED", "REJECTED"}] /\ profile' \subseteq Suggestions
    BY <1>1, <1>2 DEF AiInv, AiTyped, RowsTyped
  <2> QED
    BY <1>1, <1>3, <2>1 DEF AiInv, AiTyped, RowsTyped, AiMessagesTyped, HistoryTyped
<1>5. AiHeld' /\ SentIsRequested' /\ MessageLeft'
  BY <1>1, QueueKept
<1>6. DraftAlone'
  BY <1>1, <1>3, DraftsKept
<1>7. PlaceKept'
  BY <1>1, <1>3, QuotaKept
<1>8. AiDecided'
  <2>1. \A t \in Suggestions : decision'[t] = IF t = s THEN d ELSE decision[t]
    BY <1>1, <1>2 DEF AiInv, AiTyped, RowsTyped
  <2>2. /\ s \notin list /\ batches[s] = 1
        /\ \A t \in list : batches[t] = 1 /\ decision[t] # "PENDING"
        /\ \A t \in Suggestions \ raced : /\ decision[t] = "ACCEPTED" => t \in list
                                          /\ decision[t] = "REJECTED" => t \notin list
        /\ s \notin raced => /\ decision[s] \in {"NONE", "PENDING"}
                             /\ \A e \in Caller : caller[e].pc = "decide" => e = c
    BY <1>1 DEF AiInv, AiDecided, DecisionIsCurrent, ListIsCurrent
  <2> HIDE DEF s, list
  <2>3. \A t \in Suggestions : decision[t] # "NONE" => batches[t] = 1
    BY DEF AiInv, AiDecided, DecisionIsCurrent
  <2>4. profile' = IF d = "ACCEPTED" THEN list \cup {s} ELSE profile
    BY <1>1, <2>2
  <2>5. /\ \A t \in profile' : batches[t] = 1
        /\ \A t \in Suggestions : decision'[t] = "PENDING" => t \notin profile'
        /\ \A t \in Suggestions \ raced : /\ decision'[t] = "ACCEPTED" => t \in profile'
                                          /\ decision'[t] = "REJECTED" => t \notin profile'
    <3>1. CASE d = "ACCEPTED"
      BY <2>1, <2>2, <2>4, <3>1
    <3>2. CASE d = "REJECTED"
      <4>1. /\ \A t \in profile : batches[t] = 1
            /\ \A t \in Suggestions : decision[t] = "PENDING" => t \notin profile
            /\ \A t \in Suggestions \ raced : /\ decision[t] = "ACCEPTED" => t \in profile
                                              /\ decision[t] = "REJECTED" => t \notin profile
        BY DEF AiInv, AiDecided, DecisionIsCurrent, ProfileIsDecided
      <4>2. s \notin raced => decision[s] = "PENDING"
        BY <1>1, <2>2
      <4> QED
        BY <1>2, <2>1, <2>4, <3>2, <4>1, <4>2
    <3> QED
      BY <3>1, <3>2
  <2>6. ASSUME NEW e \in Caller, caller'[e].pc = "decide"
        PROVE  ListIsCurrent(e)'
    <3>1. e # c /\ caller'[e] = caller[e]
      BY <1>1, <1>3, <2>6 DEF RequestEnds, RequestsGoOn, AiInv, AiTyped, RequestsTyped, NoCall
    <3>2. s \in raced
      BY <2>2, <2>6, <3>1
    <3>3. ListIsCurrent(e)
      BY <2>6, <3>1 DEF AiInv, AiDecided, DecisionIsCurrent
    <3>4. \A f \in Caller : caller'[f].pc = "decide" => caller[f].pc = "decide"
      BY <1>3 DEF RequestsGoOn, NoCall
    <3>5. caller[e].list \subseteq Suggestions /\ caller[e].of \in Suggestions
      BY <2>6, <3>1 DEF AiInv, AiTyped, RequestsTyped, AiCall, NoCall
    <3> QED
      BY <1>1, <2>1, <3>1, <3>2, <3>3, <3>4, <3>5 DEF ListIsCurrent
  <2>7. \A t \in Suggestions : batches[t] <= 1
    BY DEF AiInv, AiDecided, ProfileIsDecided
  <2>8. DecisionIsCurrent'
    <3>1. \A t \in Suggestions : decision'[t] # "NONE" => batches'[t] = 1
      BY <1>1, <2>1, <2>2, <2>3
    <3>2. \A t \in profile' : batches'[t] = 1
      BY <1>1, <2>5
    <3> QED
      BY <2>6, <3>1, <3>2 DEF DecisionIsCurrent
  <2>9. ProfileIsDecided'
    <3>1. batches' = batches /\ raced' = raced
      BY <1>1
    <3>2. \A t \in Suggestions : batches'[t] <= 1
      BY <2>7, <3>1
    <3>3. ASSUME NEW t \in Suggestions \ raced
          PROVE  /\ decision'[t] = "ACCEPTED" => t \in profile'
                 /\ decision'[t] = "REJECTED" => t \notin profile'
      BY <2>5
    <3>4. ASSUME NEW t \in Suggestions
          PROVE  decision'[t] = "PENDING" => t \notin profile'
      BY <2>5
    <3> QED
      BY <3>1, <3>2, <3>3, <3>4 DEF ProfileIsDecided
  <2> QED
    BY <2>8, <2>9 DEF AiDecided
<1> QED
  BY <1>4, <1>5, <1>6, <1>7, <1>8 DEF AiInv

LEMMA RequestsRefused ==
    ASSUME AiInv, NEW c \in Caller, InsertRefused(c) \/ RowGone(c)
    PROVE  AiInv'
<1>1. RequestEnds(c)
  BY DEF InsertRefused, RowGone, Leave, RequestEnds
<1>2. UNCHANGED <<status, draft, operation, batches, decision, profile, message, worker, faults,
                  clones, overlapped, raced, crowd>>
  BY DEF InsertRefused, RowGone, suggested, history
<1>3. RequestsGoOn /\ RequestsTyped'
  BY <1>1, RequestOver
<1>4. AiTyped'
  BY <1>2, <1>3 DEF AiInv, AiTyped, RowsTyped, AiMessagesTyped, HistoryTyped
<1>5. AiHeld' /\ SentIsRequested' /\ MessageLeft'
  BY <1>2, QueueKept
<1>6. DraftAlone'
  BY <1>2, <1>3, DraftsKept
<1>7. AiDecided' /\ PlaceKept'
  BY <1>2, <1>3, DecisionsKept, QuotaKept
<1> QED
  BY <1>4, <1>5, <1>6, <1>7 DEF AiInv

-----------------------------------------------------------------------------
(* Copies, deletions and the queue *)

LEMMA DraftDuplicated ==
    ASSUME AiInv, NEW a \in Tailored, NEW b \in Tailored, Duplicate(a, b)
    PROVE  AiInv'
<1>1. /\ status[b] = "NONE"
      /\ status' = [status EXCEPT ![b] = "SUCCEEDED"]
      /\ draft' = [draft EXCEPT ![b] = draft[a]]
      /\ clones' = clones \cup {b}
      /\ UNCHANGED <<operation, batches, decision, profile, message, worker, caller, faults, overlapped, raced, crowd>>
  BY DEF Duplicate, SetStatus, suggested
<1>2. a \in Artifact /\ b \in Artifact
  BY DEF Artifact
<1>3. RequestsGoOn /\ RequestsTyped'
  BY <1>1, RequestOver
<1>4. /\ \A x \in Artifact : status'[x] = IF x = b THEN "SUCCEEDED" ELSE status[x]
      /\ \A x \in Artifact : x # b => draft'[x] = draft[x]
  BY <1>1, <1>2 DEF AiInv, AiTyped, RowsTyped
<1>5. AiTyped'
  <2>1. status' \in [Artifact -> ArtifactStatus]
    BY <1>1 DEF AiInv, AiTyped, RowsTyped, ArtifactStatus
  <2>2. draft' \in [Artifact -> {"none", "generated", "edited"}]
    BY <1>1, <1>2 DEF AiInv, AiTyped, RowsTyped
  <2> QED
    BY <1>1, <1>3, <2>1, <2>2 DEF AiInv, AiTyped, RowsTyped, AiMessagesTyped, HistoryTyped
<1>6. AiHeld' /\ SentIsRequested' /\ MessageLeft'
  <2>1. \A x \in Artifact : status'[x] \in Unfinished => status[x] \in Unfinished
    BY <1>4 DEF Unfinished
  <2>2. \A x \in Artifact : status[x] # "NONE" => status'[x] # "NONE"
    BY <1>4
  <2> QED
    BY <1>1, <2>1, <2>2, QueueKept
<1>7. DraftAlone'
  <2> SUFFICES ASSUME NEW x \in Tailored \ overlapped
               PROVE  /\ draft'[x] = "edited" => status'[x] = "SUCCEEDED"
                      /\ \A c \in Caller : caller[c].pc = "draft" /\ caller[c].of = x =>
                             status'[x] \in {"SUCCEEDED", "DELETED"}
                      /\ \A k \in Worker : worker[k].pc \in {"loaded", "calling"} /\ worker[k].of = x =>
                             status'[x] # "SUCCEEDED"
                      /\ \A j, k \in Worker : worker[j] # Idle /\ worker[k] # Idle
                                /\ worker[j].of = x /\ worker[k].of = x => j = k
    BY <1>1 DEF DraftAlone
  <2>1. x \in Artifact
    BY DEF Artifact
  <2>2. \A j, k \in Worker : worker[j] # Idle /\ worker[k] # Idle
                                /\ worker[j].of = x /\ worker[k].of = x => j = k
    BY DEF AiInv, DraftAlone
  <2>3. CASE x # b
    BY <1>4, <2>1, <2>2, <2>3 DEF AiInv, DraftAlone
  <2>4. CASE x = b
    <3>1. \A k \in Worker : worker[k].pc \in {"loaded", "calling"} => worker[k].of # x
      <4>1. Idle.pc = "idle"
        BY DEF Idle
      <4> QED
        BY <1>1, <2>4, <4>1, AiAtWork
    <3>2. status'[x] = "SUCCEEDED"
      BY <1>4, <2>1, <2>4
    <3> QED
      BY <2>2, <3>1, <3>2
  <2> QED
    BY <2>3, <2>4
<1>8. AiDecided'
  BY <1>1, <1>3, DecisionsKept
<1>9. PlaceKept'
  <2>1. \A x \in Artifact : status'[x] \notin Missing => status[x] \notin Missing \/ x \in clones'
    BY <1>1, <1>4
  <2> QED
    BY <1>1, <1>3, <2>1, QuotaKept
<1> QED
  BY <1>5, <1>6, <1>7, <1>8, <1>9 DEF AiInv

LEMMA ArtifactDeleted ==
    ASSUME AiInv, NEW a \in Artifact, DeleteArtifact(a)
    PROVE  AiInv'
<1>1. /\ status[a] \notin Missing
      /\ status' = [status EXCEPT ![a] = "DELETED"]
      /\ draft' = [draft EXCEPT ![a] = "none"]
      /\ decision' = [s \in Suggestions |-> IF s = a THEN "NONE" ELSE decision[s]]
      /\ UNCHANGED <<operation, batches, profile, message, worker, caller, faults, clones, overlapped, raced, crowd>>
  BY DEF DeleteArtifact, SetStatus, history
<1>2. RequestsGoOn /\ RequestsTyped'
  BY <1>1, RequestOver
<1>3. \A x \in Artifact : /\ status'[x] = IF x = a THEN "DELETED" ELSE status[x]
                          /\ draft'[x] = IF x = a THEN "none" ELSE draft[x]
  BY <1>1 DEF AiInv, AiTyped, RowsTyped
<1>4. AiTyped'
  <2>1. status' \in [Artifact -> ArtifactStatus]
    BY <1>1 DEF AiInv, AiTyped, RowsTyped, ArtifactStatus, Missing
  <2>2. draft' \in [Artifact -> {"none", "generated", "edited"}]
    BY <1>1 DEF AiInv, AiTyped, RowsTyped
  <2>3. decision' \in [Suggestions -> {"NONE", "PENDING", "ACCEPTED", "REJECTED"}]
    BY <1>1 DEF AiInv, AiTyped, RowsTyped
  <2> QED
    BY <1>1, <1>2, <2>1, <2>2, <2>3 DEF AiInv, AiTyped, RowsTyped, AiMessagesTyped, HistoryTyped
<1>5. AiHeld' /\ SentIsRequested' /\ MessageLeft'
  <2>1. \A x \in Artifact : status'[x] \in Unfinished => status[x] \in Unfinished
    BY <1>3 DEF Unfinished
  <2>2. \A x \in Artifact : status[x] # "NONE" => status'[x] # "NONE"
    BY <1>3
  <2> QED
    BY <1>1, <2>1, <2>2, QueueKept
<1>6. DraftAlone'
  <2> SUFFICES ASSUME NEW x \in Tailored \ overlapped
               PROVE  /\ draft'[x] = "edited" => status'[x] = "SUCCEEDED"
                      /\ \A c \in Caller : caller[c].pc = "draft" /\ caller[c].of = x =>
                             status'[x] \in {"SUCCEEDED", "DELETED"}
                      /\ \A k \in Worker : worker[k].pc \in {"loaded", "calling"} /\ worker[k].of = x =>
                             status'[x] # "SUCCEEDED"
    BY <1>1 DEF AiInv, DraftAlone
  <2>1. x \in Artifact
    BY DEF Artifact
  <2>2. CASE x # a
    BY <1>3, <2>1, <2>2 DEF AiInv, DraftAlone
  <2>3. CASE x = a
    BY <1>3, <2>1, <2>3
  <2> QED
    BY <2>2, <2>3
<1>8. AiDecided'
  <2>1. \A s \in Suggestions : decision'[s] = "NONE" \/ decision'[s] = decision[s]
    BY <1>1
  <2>2. ASSUME NEW c \in Caller, caller[c].pc = "decide"
        PROVE  ListIsCurrent(c)'
    <3>1. ListIsCurrent(c) /\ caller[c].list \subseteq Suggestions /\ caller[c].of \in Suggestions
      BY <2>2 DEF AiInv, AiTyped, RequestsTyped, AiCall, NoCall, AiDecided, DecisionIsCurrent
    <3> QED
      BY <1>1, <2>1, <3>1 DEF ListIsCurrent
  <2> QED
    BY <1>1, <2>1, <2>2 DEF AiInv, AiDecided, DecisionIsCurrent, ProfileIsDecided
<1>9. PlaceKept'
  <2>1. \A x \in Artifact : status'[x] \notin Missing => status[x] \notin Missing
    BY <1>3 DEF Missing
  <2> QED
    BY <1>1, <1>2, <2>1, QuotaKept
<1> QED
  BY <1>4, <1>5, <1>6, <1>8, <1>9 DEF AiInv

\* A message of the queue: what it becomes when it moves.
LEMMA AiMessageMoves ==
    ASSUME AiInv, NEW m \in Message, message[m] \in AiMessage
    PROVE  /\ \A a \in Waits \cup {"ACKED"} :
                 LET r == [of |-> message[m].of, at |-> a, receives |-> message[m].receives] IN
                 /\ r \in AiMessage
                 /\ [message EXCEPT ![m].at = a] = [message EXCEPT ![m] = r]
           /\ message[m].receives < MaxReceive =>
                 LET r == [of |-> message[m].of, at |-> "INFLIGHT", receives |-> message[m].receives + 1] IN
                 /\ r \in AiMessage
                 /\ [message EXCEPT ![m].at = "INFLIGHT", ![m].receives = @ + 1] =
                       [message EXCEPT ![m] = r]
           /\ \A n \in 0..MaxReceive :
                 /\ Returned(m, n) \in AiMessage /\ Returned(m, n).of = message[m].of
                 /\ Returned(m, n).at \in Waits \ {"PENDING"}
                 /\ Returned(m, n).at = "VISIBLE" => Returned(m, n).receives < MaxReceive
<1>1. /\ m \in DOMAIN message /\ message = [i \in DOMAIN message |-> message[i]]
      /\ message[m] = [of |-> message[m].of, at |-> message[m].at, receives |-> message[m].receives]
      /\ message[m].of \in Artifact /\ message[m].receives \in 0..MaxReceive
  BY DEF AiInv, AiTyped, AiMessagesTyped, AiMessage
<1>2. ASSUME NEW a \in Waits \cup {"ACKED"}
      PROVE  LET r == [of |-> message[m].of, at |-> a, receives |-> message[m].receives] IN
                 /\ r \in AiMessage
                 /\ [message EXCEPT ![m].at = a] = [message EXCEPT ![m] = r]
  BY <1>1, MessageMoved DEF AiMessage
<1>3. ASSUME message[m].receives < MaxReceive
      PROVE  LET r == [of |-> message[m].of, at |-> "INFLIGHT", receives |-> message[m].receives + 1] IN
                 /\ r \in AiMessage
                 /\ [message EXCEPT ![m].at = "INFLIGHT", ![m].receives = @ + 1] =
                       [message EXCEPT ![m] = r]
  <2>1. message[m].receives + 1 \in 0..MaxReceive
    BY <1>1, <1>3, PrivateAiConstants DEF PrivateAiConstants
  <2> QED
    BY <1>1, <2>1, MessageMoved DEF AiMessage, Waits
<1>4. ASSUME NEW n \in 0..MaxReceive
      PROVE  /\ Returned(m, n) \in AiMessage /\ Returned(m, n).of = message[m].of
             /\ Returned(m, n).at \in Waits \ {"PENDING"}
             /\ Returned(m, n).at = "VISIBLE" => Returned(m, n).receives < MaxReceive
  <2> DEFINE a == IF n >= MaxReceive THEN "DLQ" ELSE "VISIBLE"
  <2>1. a \in Waits \ {"PENDING"} /\ (a = "VISIBLE" => n < MaxReceive)
    BY PrivateAiConstants DEF Waits, PrivateAiConstants
  <2>2. Returned(m, n) = [message[m] EXCEPT !.at = a, !.receives = n]
    BY DEF Returned
  <2> HIDE DEF a
  <2>3. Returned(m, n) = [of |-> message[m].of, at |-> a, receives |-> n]
    BY <1>1, <2>2, MessageReturned
  <2> QED
    BY <1>1, <2>1, <2>3 DEF AiMessage
<1> QED
  BY <1>2, <1>3, <1>4

LEMMA AiPublished ==
    ASSUME AiInv, NEW m \in Message, Publish(m) \/ PublishUnmarked(m)
    PROVE  AiInv'
<1>1. /\ message[m].at = "PENDING"
      /\ UNCHANGED <<status, draft, operation, batches, decision, profile, worker, caller, clones, overlapped, raced, crowd>>
      /\ faults' \in 0..MaxFaults
  <2>1. CASE Publish(m)
    BY <2>1 DEF Publish, suggested, history, AiInv, AiTyped, HistoryTyped
  <2>2. CASE PublishUnmarked(m)
    <3>1. faults < MaxFaults /\ faults' = faults + 1
      BY <2>2 DEF PublishUnmarked
    <3>2. faults' \in 0..MaxFaults
      BY <3>1, PrivateAiConstants DEF AiInv, AiTyped, HistoryTyped, PrivateAiConstants
    <3> QED
      BY <2>2, <3>2 DEF PublishUnmarked, suggested
  <2> QED
    BY <2>1, <2>2
<1>2. RequestsGoOn /\ RequestsTyped'
  BY <1>1, RequestOver
<1>3. message[m] \in AiMessage /\ message[m].receives < MaxReceive /\ message[m].of \in Artifact
      /\ message[m] # Unsent
  <2>1. Unsent.at = "UNSENT"
    BY DEF Unsent
  <2> QED
    BY <1>1, <2>1 DEF AiInv, AiTyped, AiMessagesTyped, AiMessage
<1>4. AiMessagesTyped' /\ AiHeld' /\ SentIsRequested' /\ MessageLeft'
  <2>1. CASE Publish(m)
    <3> DEFINE r == [of |-> message[m].of, at |-> "VISIBLE", receives |-> message[m].receives]
    <3>1. message' = [message EXCEPT ![m].at = "VISIBLE"]
      BY <2>1 DEF Publish
    <3>2. r \in AiMessage /\ message' = [message EXCEPT ![m] = r]
      BY <1>3, <3>1, AiMessageMoves DEF Waits
    <3>3. r.of = message[m].of /\ r.at = "VISIBLE" /\ r.receives = message[m].receives
      OBVIOUS
    <3> HIDE DEF r
    <3>4. /\ AiMessagesTyped' /\ message'[m] = r
          /\ \A i \in Message : i # m => message'[i] = message[i]
      BY <1>3, <3>2, <3>3, AiMessageWritten DEF AiInv, AiTyped
    <3>5. AiHeld' /\ SentIsRequested' /\ MessageLeft'
      BY <1>1, <1>3, <3>3, <3>4, QueueKept DEF Waits
    <3> QED
      BY <3>4, <3>5
  <2>2. CASE PublishUnmarked(m)
    <3>1. Add(message[m].of, "VISIBLE")
      BY <2>2 DEF PublishUnmarked
    <3>2. /\ AiMessagesTyped'
          /\ \A i \in Message : message[i] # Unsent => message'[i] = message[i]
          /\ \E n \in Message :
                 /\ message[n] = Unsent
                 /\ message'[n].of = message[m].of /\ message'[n].at = "VISIBLE"
                 /\ \A i \in Message : i # n => message'[i] = message[i]
      BY <1>3, <3>1, AiAdded
    <3>3. \A i \in Message : message[i] = Unsent /\ message'[i] # Unsent => message'[i].of = message[m].of
      BY <3>2
    <3>4. status[message[m].of] # "NONE"
      BY <1>3 DEF AiInv, SentIsRequested
    <3>5. AiHeld' /\ SentIsRequested' /\ MessageLeft'
      BY <1>1, <1>3, <3>2, <3>3, <3>4, QueueKept
    <3> QED
      BY <3>2, <3>5
  <2> QED
    BY <2>1, <2>2
<1>5. AiTyped'
  BY <1>1, <1>2, <1>4 DEF AiInv, AiTyped, RowsTyped, HistoryTyped
<1>6. DraftAlone'
  BY <1>1, <1>2, DraftsKept
<1>7. AiDecided' /\ PlaceKept'
  BY <1>1, <1>2, DecisionsKept, QuotaKept
<1> QED
  BY <1>4, <1>5, <1>6, <1>7 DEF AiInv

-----------------------------------------------------------------------------
(* The worker *)

\* A worker goes on with its message.
LEMMA AiWorkerContinues ==
    ASSUME AiInv, NEW k \in Worker, worker[k] # Idle,
           NEW w \in AiWork, w.of = worker[k].of, w.msg = worker[k].msg,
           worker' = [worker EXCEPT ![k] = w], UNCHANGED message,
           \A b \in Artifact : b # worker[k].of => status'[b] = status[b],
           status'[worker[k].of] # "NONE",
           w.pc = "done" => status'[worker[k].of] \notin Unfinished
    PROVE  /\ worker' \in [Worker -> {Idle} \cup AiWork]
           /\ AiHeld' /\ SentIsRequested' /\ MessageLeft'
           /\ \A j \in Worker : worker'[j] = IF j = k THEN w ELSE worker[j]
<1>1. worker' \in [Worker -> {Idle} \cup AiWork]
  BY DEF AiInv, AiTyped
<1>2. \A j \in Worker : worker'[j] = IF j = k THEN w ELSE worker[j]
  BY DEF AiInv, AiTyped
<1>3. \A j \in Worker : worker'[j] # Idle =>
         worker[j] # Idle /\ worker'[j].msg = worker[j].msg /\ worker'[j].of = worker[j].of
  BY <1>2
<1>4. AiHeld'
  BY <1>3 DEF AiInv, AiHeld
<1>5. SentIsRequested'
  <2> SUFFICES ASSUME NEW m \in Message, message[m] # Unsent
               PROVE  status'[message[m].of] # "NONE"
    BY DEF SentIsRequested
  <2>1. message[m].of \in Artifact /\ status[message[m].of] # "NONE"
    BY DEF AiInv, AiTyped, AiMessagesTyped, AiMessage, SentIsRequested
  <2> QED
    BY <2>1
<1>6. MessageLeft'
  <2> SUFFICES ASSUME NEW a \in Artifact, status'[a] \in Unfinished
               PROVE  \E m \in Message :
                         /\ message[m].of = a /\ message[m].at \in Waits
                         /\ \A j \in Worker : worker'[j].msg = m => worker'[j].pc # "done"
    BY DEF MessageLeft
  <2>1. worker[k].msg \in Message /\ message[worker[k].msg].at = "INFLIGHT"
        /\ message[worker[k].msg].of = worker[k].of
    BY AiAtWork
  <2>2. CASE a = worker[k].of
    <3>1. w.pc # "done" /\ Idle.pc = "idle"
      BY <2>2 DEF Idle
    <3>2. \A j \in Worker : worker'[j].msg = worker[k].msg => worker'[j].pc # "done"
      BY <1>2, <3>1 DEF AiInv, AiHeld
    <3> QED
      BY <2>1, <2>2, <3>2 DEF Waits
  <2>3. CASE a # worker[k].of
    <3>1. PICK m \in Message :
            /\ message[m].of = a /\ message[m].at \in Waits
            /\ \A j \in Worker : worker[j].msg = m => worker[j].pc # "done"
      BY <2>3 DEF AiInv, MessageLeft
    <3>2. m # worker[k].msg
      BY <2>1, <2>3, <3>1
    <3> QED
      BY <1>2, <3>1, <3>2
  <2> QED
    BY <2>2, <2>3
<1> QED
  BY <1>1, <1>2, <1>4, <1>5, <1>6

\* A worker ends and its message moves: it is returned, or acknowledged when it is done.
LEMMA AiWorkerEnds ==
    ASSUME AiInv, NEW k \in Worker, worker[k] # Idle,
           NEW r \in AiMessage, r.of = worker[k].of,
           r.at \in {"PENDING", "VISIBLE"} => r.receives < MaxReceive,
           message' = [message EXCEPT ![worker[k].msg] = r],
           worker' = [worker EXCEPT ![k] = Idle],
           \A b \in Artifact : b # worker[k].of => status'[b] = status[b],
           status'[worker[k].of] # "NONE",
           r.at \in Waits \/ (worker[k].pc = "done" /\ UNCHANGED status)
    PROVE  /\ AiMessagesTyped' /\ worker' \in [Worker -> {Idle} \cup AiWork]
           /\ AiHeld' /\ SentIsRequested' /\ MessageLeft'
           /\ \A j \in Worker : worker'[j] # Idle => worker[j] # Idle /\ worker'[j] = worker[j]
<1> DEFINE n == worker[k].msg
<1>1. n \in Message /\ message[n].of = worker[k].of /\ worker[k].of \in Artifact
  BY AiAtWork
<1>2. /\ AiMessagesTyped' /\ message'[n] = r
      /\ \A i \in Message : i # n => message'[i] = message[i]
  <2> HIDE DEF n
  <2>1. message' = [message EXCEPT ![n] = r]
    BY DEF n
  <2>2. AiMessagesTyped /\ n \in Message
    BY <1>1 DEF AiInv, AiTyped
  <2> QED
    BY <2>1, <2>2, AiMessageWritten
<1>3. worker' \in [Worker -> {Idle} \cup AiWork]
  BY DEF AiInv, AiTyped
<1>4. \A j \in Worker : worker'[j] = IF j = k THEN Idle ELSE worker[j]
  BY DEF AiInv, AiTyped
<1>5. \A j \in Worker : worker'[j] # Idle =>
         /\ worker[j] # Idle /\ worker'[j] = worker[j]
         /\ worker[j].msg # n /\ worker[j].msg \in Message
  BY <1>4, AiAtWork DEF AiInv, AiHeld
<1>6. AiHeld'
  BY <1>2, <1>5 DEF AiInv, AiHeld
<1>7. SentIsRequested'
  <2> SUFFICES ASSUME NEW m \in Message, message'[m] # Unsent
               PROVE  status'[message'[m].of] # "NONE"
    BY DEF SentIsRequested
  <2>1. CASE m = n
    BY <1>2, <2>1
  <2>2. CASE m # n
    <3>1. message'[m] = message[m]
      BY <1>2, <2>2
    <3>2. message[m].of \in Artifact /\ status[message[m].of] # "NONE"
      BY <3>1 DEF AiInv, AiTyped, AiMessagesTyped, AiMessage, SentIsRequested
    <3> QED
      BY <3>1, <3>2
  <2> QED
    BY <2>1, <2>2
<1>8. MessageLeft'
  <2> SUFFICES ASSUME NEW a \in Artifact, status'[a] \in Unfinished
               PROVE  \E m \in Message :
                         /\ message'[m].of = a /\ message'[m].at \in Waits
                         /\ \A j \in Worker : worker'[j].msg = m => worker'[j].pc # "done"
    BY DEF MessageLeft
  <2>1. Idle.pc = "idle"
    BY DEF Idle
  <2>2. CASE a = worker[k].of /\ r.at \in Waits
    <3>1. \A j \in Worker : worker'[j].msg = n => worker'[j].pc # "done"
      BY <1>5, <2>1
    <3> QED
      BY <1>1, <1>2, <2>2, <3>1
  <2>3. CASE a # worker[k].of \/ r.at \notin Waits
    <3>1. status[a] \in Unfinished
      BY <2>3
    <3>2. PICK m \in Message :
            /\ message[m].of = a /\ message[m].at \in Waits
            /\ \A j \in Worker : worker[j].msg = m => worker[j].pc # "done"
      BY <3>1 DEF AiInv, MessageLeft
    <3>3. m # n
      BY <1>1, <2>3, <3>2
    <3> QED
      BY <1>2, <1>4, <2>1, <3>2, <3>3
  <2> QED
    BY <2>2, <2>3
<1> QED
  BY <1>2, <1>3, <1>5, <1>6, <1>7, <1>8

LEMMA AiGivenBack ==
    ASSUME AiInv, NEW k \in Worker, worker[k] # Idle, GiveBack(k)
    PROVE  \E r \in AiMessage :
              /\ r.of = worker[k].of /\ r.at \in Waits
              /\ r.at \in {"PENDING", "VISIBLE"} => r.receives < MaxReceive
              /\ message' = [message EXCEPT ![worker[k].msg] = r]
<1> DEFINE m == worker[k].msg
           r == Returned(m, message[m].receives)
<1>1. m \in Message /\ message[m] \in AiMessage /\ message[m].receives \in 0..MaxReceive
      /\ message[m].of = worker[k].of
  BY AiAtWork DEF AiMessage
<1>2. message' = [message EXCEPT ![m] = r]
  BY DEF GiveBack
<1> HIDE DEF m
<1>3. r \in AiMessage /\ r.of = message[m].of /\ r.at \in Waits \ {"PENDING"} /\ (r.at = "VISIBLE" => r.receives < MaxReceive)
  BY <1>1, AiMessageMoves
<1> HIDE DEF r
<1> QED
  BY <1>1, <1>2, <1>3 DEF m

LEMMA AiReceived ==
    ASSUME AiInv, NEW k \in Worker, NEW m \in Message, NEW a \in Artifact,
           ReceiveAndRaise(k, m, a) \/ ReceiveSucceeded(k, m, a) \/ Load(k, m, a)
    PROVE  AiInv'
<1>1. /\ worker[k] = Idle /\ message[m].at = "VISIBLE" /\ message[m].of = a
      /\ overlapped' = IF \E i \in Worker : worker[i].of = a THEN overlapped \cup {a} ELSE overlapped
      /\ UNCHANGED <<status, draft, operation, batches, decision, profile, caller, faults, clones, raced, crowd>>
  BY DEF ReceiveAndRaise, ReceiveSucceeded, Load, Receive, suggested
<1>2. message[m] \in AiMessage /\ message[m].receives < MaxReceive /\ message[m] # Unsent
      /\ message[m].receives \in Nat
  <2>1. Unsent.at = "UNSENT"
    BY DEF Unsent
  <2>2. message[m] \in AiMessage
    BY <1>1, <2>1 DEF AiInv, AiTyped, AiMessagesTyped
  <2> QED
    BY <1>1, <2>1, <2>2, PrivateAiConstants DEF AiInv, AiTyped, AiMessagesTyped, AiMessage, PrivateAiConstants
<1>3. RequestsGoOn /\ RequestsTyped'
  BY <1>1, RequestOver
<1>4. HistoryTyped' /\ RowsTyped' /\ overlapped \subseteq overlapped'
  BY <1>1 DEF AiInv, AiTyped, RowsTyped, HistoryTyped
<1>5. AiDecided' /\ PlaceKept'
  BY <1>1, <1>3, DecisionsKept, QuotaKept
<1>6. \A j \in Worker : worker[j] # Idle => worker[j].msg \in Message /\ worker[j].msg # m
  BY <1>1, AiAtWork
<1>7. status[a] # "NONE"
  BY <1>1, <1>2 DEF AiInv, SentIsRequested
<1>8. ASSUME ReceiveAndRaise(k, m, a) \/ ReceiveSucceeded(k, m, a)
      PROVE  AiInv'
  <2>1. UNCHANGED worker
    BY <1>8 DEF ReceiveAndRaise, ReceiveSucceeded
  <2>2. \E r \in AiMessage :
           /\ message' = [message EXCEPT ![m] = r] /\ r.of = a
           /\ r.at \in {"PENDING", "VISIBLE"} => r.receives < MaxReceive
           /\ r.at \in Waits \/ status[a] = "SUCCEEDED"
    <3>1. CASE ReceiveAndRaise(k, m, a)
      <4> DEFINE r == Returned(m, message[m].receives + 1)
      <4>1. message[m].receives + 1 \in 0..MaxReceive
        BY <1>2, PrivateAiConstants DEF PrivateAiConstants
      <4>2. /\ r \in AiMessage /\ r.of = message[m].of /\ r.at \in Waits \ {"PENDING"}
            /\ r.at = "VISIBLE" => r.receives < MaxReceive
        BY <1>2, <4>1, AiMessageMoves
      <4>3. message' = [message EXCEPT ![m] = r]
        BY <3>1 DEF ReceiveAndRaise
      <4> HIDE DEF r
      <4> QED
        BY <1>1, <4>2, <4>3
    <3>2. CASE ReceiveSucceeded(k, m, a)
      <4> DEFINE r == [of |-> message[m].of, at |-> "ACKED", receives |-> message[m].receives]
      <4>1. message' = [message EXCEPT ![m].at = "ACKED"] /\ status[a] = "SUCCEEDED"
        BY <3>2 DEF ReceiveSucceeded
      <4>2. r \in AiMessage /\ message' = [message EXCEPT ![m] = r]
        BY <1>2, <4>1, AiMessageMoves
      <4>3. r.of = a /\ r.at = "ACKED"
        BY <1>1
      <4> HIDE DEF r
      <4> QED
        BY <4>1, <4>2, <4>3
    <3> QED
      BY <1>8, <3>1, <3>2
  <2>3. PICK r \in AiMessage :
           /\ message' = [message EXCEPT ![m] = r] /\ r.of = a
           /\ r.at \in {"PENDING", "VISIBLE"} => r.receives < MaxReceive
           /\ r.at \in Waits \/ status[a] = "SUCCEEDED"
    BY <2>2
  <2>4. /\ AiMessagesTyped' /\ message'[m] = r
        /\ \A i \in Message : i # m => message'[i] = message[i]
    BY <2>3, AiMessageWritten DEF AiInv, AiTyped
  <2>5. AiTyped'
    BY <1>3, <1>4, <2>1, <2>4 DEF AiInv, AiTyped
  <2>6. AiHeld'
    BY <1>6, <2>1, <2>4 DEF AiInv, AiHeld
  <2>7. SentIsRequested'
    BY <1>1, <1>7, <2>3, <2>4 DEF AiInv, SentIsRequested
  <2>8. MessageLeft'
    <3> SUFFICES ASSUME NEW b \in Artifact, status[b] \in Unfinished
                 PROVE  \E n \in Message :
                         /\ message'[n].of = b /\ message'[n].at \in Waits
                         /\ \A j \in Worker : worker[j].msg = n => worker[j].pc # "done"
      BY <1>1, <2>1 DEF MessageLeft
    <3>1. PICK n \in Message :
            /\ message[n].of = b /\ message[n].at \in Waits
            /\ \A j \in Worker : worker[j].msg = n => worker[j].pc # "done"
      BY DEF AiInv, MessageLeft
    <3>2. CASE n = m
      <4>1. r.at \in Waits
        BY <1>1, <2>3, <3>1, <3>2 DEF Unfinished
      <4> QED
        BY <1>1, <2>3, <2>4, <3>1, <3>2, <4>1
    <3>3. CASE n # m
      BY <2>4, <3>1, <3>3
    <3> QED
      BY <3>2, <3>3
  <2>9. DraftAlone'
    BY <1>1, <1>3, <1>4, <2>1, DraftsKept
  <2> QED
    BY <1>5, <2>5, <2>6, <2>7, <2>8, <2>9 DEF AiInv
<1>9. ASSUME Load(k, m, a)
      PROVE  AiInv'
  <2> DEFINE r == [of |-> message[m].of, at |-> "INFLIGHT", receives |-> message[m].receives + 1]
             w == [pc |-> "loaded", of |-> a, msg |-> m, known |-> a \in operation,
                   running |-> status[a] = "RUNNING"]
  <2>1. /\ status[a] \notin Missing \cup {"SUCCEEDED"}
        /\ message' = [message EXCEPT ![m].at = "INFLIGHT", ![m].receives = @ + 1]
        /\ worker' = [worker EXCEPT ![k] = w]
    BY <1>9 DEF Load
  <2>2. message' = [message EXCEPT ![m] = r] /\ r \in AiMessage
    BY <1>2, <2>1, AiMessageMoves
  <2>3. w \in AiWork /\ w.pc = "loaded" /\ w.msg = m /\ w.of = a
    BY DEF AiWork
  <2>4. r.at = "INFLIGHT" /\ r.of = a
    BY <1>1
  <2> HIDE DEF r, w
  <2>5. /\ AiMessagesTyped' /\ message'[m] = r
        /\ \A i \in Message : i # m => message'[i] = message[i]
    BY <2>2, <2>4, AiMessageWritten DEF AiInv, AiTyped
  <2>6. \A j \in Worker : worker'[j] = IF j = k THEN w ELSE worker[j]
    BY <2>1 DEF AiInv, AiTyped
  <2>7. worker' \in [Worker -> {Idle} \cup AiWork]
    BY <2>1, <2>3 DEF AiInv, AiTyped
  <2>8. AiTyped'
    BY <1>3, <1>4, <2>5, <2>7 DEF AiTyped
  <2>9. AiHeld'
    <3> SUFFICES ASSUME NEW j \in Worker, worker'[j] # Idle
                 PROVE  /\ message'[worker'[j].msg].at = "INFLIGHT" /\ message'[worker'[j].msg].of = worker'[j].of
                        /\ \A i \in Worker : i # j /\ worker'[i] # Idle => worker'[i].msg # worker'[j].msg
      BY DEF AiHeld
    <3>1. CASE j = k
      BY <1>6, <2>3, <2>4, <2>5, <2>6, <3>1
    <3>2. CASE j # k
      BY <1>6, <2>3, <2>5, <2>6, <3>2 DEF AiInv, AiHeld
    <3> QED
      BY <3>1, <3>2
  <2>10. SentIsRequested'
    BY <1>1, <1>7, <2>4, <2>5 DEF AiInv, SentIsRequested
  <2>11. MessageLeft'
    <3> SUFFICES ASSUME NEW b \in Artifact, status[b] \in Unfinished
                 PROVE  \E n \in Message :
                         /\ message'[n].of = b /\ message'[n].at \in Waits
                         /\ \A j \in Worker : worker'[j].msg = n => worker'[j].pc # "done"
      BY <1>1 DEF MessageLeft
    <3>1. PICK n \in Message :
            /\ message[n].of = b /\ message[n].at \in Waits
            /\ \A j \in Worker : worker[j].msg = n => worker[j].pc # "done"
      BY DEF AiInv, MessageLeft
    <3>2. message'[n].of = b /\ message'[n].at \in Waits
      BY <1>1, <2>4, <2>5, <3>1 DEF Waits
    <3> QED
      BY <2>3, <2>6, <3>1, <3>2
  <2>12. DraftAlone'
    <3> SUFFICES ASSUME NEW b \in Tailored \ overlapped'
                 PROVE  /\ draft[b] = "edited" => status[b] = "SUCCEEDED"
                        /\ \A c \in Caller : caller[c].pc = "draft" /\ caller[c].of = b =>
                               status[b] \in {"SUCCEEDED", "DELETED"}
                        /\ \A j \in Worker : worker'[j].pc \in {"loaded", "calling"} /\ worker'[j].of = b =>
                               status[b] # "SUCCEEDED"
                        /\ \A i, j \in Worker : worker'[i] # Idle /\ worker'[j] # Idle
                                /\ worker'[i].of = b /\ worker'[j].of = b => i = j
      BY <1>1 DEF DraftAlone
    <3>1. b \in Tailored \ overlapped
      BY <1>4
    <3>2. /\ draft[b] = "edited" => status[b] = "SUCCEEDED"
          /\ \A c \in Caller : caller[c].pc = "draft" /\ caller[c].of = b =>
                 status[b] \in {"SUCCEEDED", "DELETED"}
          /\ \A j \in Worker : worker[j].pc \in {"loaded", "calling"} /\ worker[j].of = b =>
                 status[b] # "SUCCEEDED"
          /\ \A i, j \in Worker : worker[i] # Idle /\ worker[j] # Idle
                  /\ worker[i].of = b /\ worker[j].of = b => i = j
      BY <3>1 DEF AiInv, DraftAlone
    <3>3. CASE b # a
      BY <2>3, <2>6, <3>2, <3>3
    <3>4. CASE b = a
      <4>1. \A j \in Worker : worker[j].of # a
        BY <1>1, <3>4
      <4> QED
        BY <2>1, <2>3, <2>6, <3>2, <3>4, <4>1
    <3> QED
      BY <3>3, <3>4
  <2> QED
    BY <1>5, <2>8, <2>9, <2>10, <2>11, <2>12 DEF AiInv
<1> QED
  BY <1>8, <1>9

\* A worker that goes on.
LEMMA AiWorkerSet ==
    ASSUME AiInv, NEW k \in Worker, worker[k] # Idle, NEW p \in {"calling", "done"}
    PROVE  /\ [worker EXCEPT ![k].pc = p] =
                  [worker EXCEPT ![k] = [pc |-> p, of |-> worker[k].of, msg |-> worker[k].msg,
                       known |-> worker[k].known, running |-> worker[k].running]]
           /\ [pc |-> p, of |-> worker[k].of, msg |-> worker[k].msg,
               known |-> worker[k].known, running |-> worker[k].running] \in AiWork
           /\ [pc |-> p, of |-> worker[k].of, msg |-> worker[k].msg,
               known |-> TRUE, running |-> TRUE] \in AiWork
<1> DEFINE one == [pc |-> p, of |-> worker[k].of, msg |-> worker[k].msg,
                   known |-> worker[k].known, running |-> worker[k].running]
<1>1. worker \in [Worker -> {Idle} \cup AiWork] /\ worker[k] \in AiWork
  BY DEF AiInv, AiTyped
<1>2. [worker[k] EXCEPT !.pc = p] = one
  BY <1>1 DEF AiWork
<1>3. [worker EXCEPT ![k].pc = p] = [worker EXCEPT ![k] = one]
  <2>1. [worker EXCEPT ![k].pc = p] = [worker EXCEPT ![k] = [worker[k] EXCEPT !.pc = p]]
    BY <1>1
  <2> HIDE DEF one
  <2> QED
    BY <1>2, <2>1
<1> QED
  BY <1>1, <1>3 DEF AiWork

LEMMA AiRunning ==
    ASSUME AiInv, NEW k \in Worker, CommitRunning(k)
    PROVE  AiInv'
<1> DEFINE a == worker[k].of
           w == [pc |-> "calling", of |-> worker[k].of, msg |-> worker[k].msg,
                 known |-> TRUE, running |-> TRUE]
<1>1. /\ worker[k].pc = "loaded" /\ status[a] \notin Missing
      /\ operation' = operation \cup {a}
      /\ status' = status \/ status' = [status EXCEPT ![a] = "RUNNING"]
      /\ worker' = [worker EXCEPT ![k] = w]
      /\ UNCHANGED <<draft, batches, decision, profile, message, caller, faults, clones, overlapped, raced, crowd>>
  BY DEF CommitRunning, At, SetStatus, suggested, history
<1>2. worker[k] # Idle
  BY <1>1 DEF Idle
<1>3. a \in Artifact
  BY <1>2, AiAtWork
<1>4. worker' = [worker EXCEPT ![k] = w] /\ w \in AiWork
  BY <1>1, <1>2, AiWorkerSet
<1>5. w.pc = "calling" /\ w.of = a /\ w.msg = worker[k].msg
  OBVIOUS
<1> HIDE DEF w, a
<1>6. /\ \A b \in Artifact : b # a => status'[b] = status[b]
      /\ status'[a] = status[a] \/ status'[a] = "RUNNING"
  BY <1>1, <1>3 DEF AiInv, AiTyped, RowsTyped
<1>7. RequestsGoOn /\ RequestsTyped'
  BY <1>1, RequestOver
<1>8. /\ worker' \in [Worker -> {Idle} \cup AiWork]
      /\ AiHeld' /\ SentIsRequested' /\ MessageLeft'
      /\ \A j \in Worker : worker'[j] = IF j = k THEN w ELSE worker[j]
  <2>1. status'[a] # "NONE"
    BY <1>1, <1>6 DEF Missing
  <2> QED
    BY <1>1, <1>2, <1>4, <1>5, <1>6, <2>1, AiWorkerContinues DEF a
<1>9. AiTyped'
  <2>1. status' \in [Artifact -> ArtifactStatus] /\ operation' \subseteq Artifact
    BY <1>1, <1>3 DEF AiInv, AiTyped, RowsTyped, ArtifactStatus, Unfinished
  <2> QED
    BY <1>1, <1>7, <1>8, <2>1 DEF AiInv, AiTyped, RowsTyped, AiMessagesTyped, HistoryTyped
<1>10. DraftAlone'
  <2>1. \A j \in Worker : worker'[j] # Idle =>
           /\ worker[j] # Idle /\ worker'[j].of = worker[j].of
           /\ worker'[j].pc \in {"loaded", "calling"} => worker[j].pc \in {"loaded", "calling"}
    BY <1>1, <1>2, <1>5, <1>8 DEF a
  <2>2. \A b \in Tailored \ overlapped' :
               \/ status'[b] = status[b]
               \/ status[b] \notin {"SUCCEEDED", "DELETED"} /\ status'[b] # "SUCCEEDED"
    <3> SUFFICES ASSUME NEW b \in Tailored \ overlapped, status'[b] # status[b]
                 PROVE  status[b] \notin {"SUCCEEDED", "DELETED"} /\ status'[b] # "SUCCEEDED"
      BY <1>1
    <3>1. b = a /\ status'[b] = "RUNNING"
      BY <1>6 DEF Artifact
    <3>2. status[a] # "SUCCEEDED"
      BY <1>1, <3>1 DEF AiInv, DraftAlone, a
    <3> QED
      BY <1>1, <3>1, <3>2 DEF Missing
  <2> QED
    BY <1>1, <1>7, <2>1, <2>2, DraftsKept
<1>11. AiDecided'
  BY <1>1, <1>7, DecisionsKept
<1>12. PlaceKept'
  <2>1. \A b \in Artifact : status'[b] \notin Missing => status[b] \notin Missing
    BY <1>1, <1>6
  <2> QED
    BY <1>1, <1>7, <2>1, QuotaKept
<1> QED
  BY <1>8, <1>9, <1>10, <1>11, <1>12 DEF AiInv

\* A worker gives its message back, with or without a failure it stored.
LEMMA AiReturns ==
    ASSUME AiInv, NEW k \in Worker,
           \/ CommitRefused(k) \/ Crash(k)
           \/ \E code \in Unanswered : ProviderFails(k, code)
    PROVE  AiInv'
<1> DEFINE a == worker[k].of
<1>1. /\ worker[k] # Idle /\ GiveBack(k)
      /\ UNCHANGED <<draft, operation, batches, decision, profile, caller, clones, overlapped, raced, crowd>>
      /\ faults' \in 0..MaxFaults
      /\ \/ UNCHANGED status
         \/ /\ worker[k].pc = "calling" /\ status[a] \notin Missing
            /\ \E s \in {"RETRYABLE_FAILED", "PERMANENT_FAILED"} : status' = [status EXCEPT ![a] = s]
  <2>1. Idle.pc = "idle"
    BY DEF Idle
  <2>2. faults \in 0..MaxFaults
    BY DEF AiInv, AiTyped, HistoryTyped
  <2>3. CASE CommitRefused(k)
    BY <2>1, <2>2, <2>3 DEF CommitRefused, At, suggested, history
  <2>4. CASE Crash(k)
    <3>1. faults' \in 0..MaxFaults
      BY <2>2, <2>4, PrivateAiConstants DEF Crash, PrivateAiConstants
    <3> QED
      BY <2>4, <3>1 DEF Crash, suggested
  <2>5. ASSUME NEW code \in Unanswered, ProviderFails(k, code)
        PROVE  /\ worker[k] # Idle /\ GiveBack(k)
               /\ UNCHANGED <<draft, operation, batches, decision, profile, caller, clones, overlapped, raced, crowd>>
               /\ faults' \in 0..MaxFaults
               /\ worker[k].pc = "calling" /\ status[a] \notin Missing
               /\ \E s \in {"RETRYABLE_FAILED", "PERMANENT_FAILED"} : status' = [status EXCEPT ![a] = s]
    <3>1. FailedStatus(code) \in {"RETRYABLE_FAILED", "PERMANENT_FAILED"}
      BY DEF FailedStatus
    <3> QED
      BY <2>1, <2>2, <2>5, <3>1 DEF ProviderFails, At, SetStatus, suggested, history
  <2> QED
    BY <2>3, <2>4, <2>5
<1>2. a \in Artifact /\ status[a] # "NONE"
  BY <1>1, AiAtWork
<1>3. worker' = [worker EXCEPT ![k] = Idle]
  BY <1>1 DEF GiveBack
<1>4. PICK r \in AiMessage :
          /\ r.of = worker[k].of /\ r.at \in Waits
          /\ r.at \in {"PENDING", "VISIBLE"} => r.receives < MaxReceive
          /\ message' = [message EXCEPT ![worker[k].msg] = r]
  BY <1>1, AiGivenBack
<1>5. /\ \A b \in Artifact : b # a => status'[b] = status[b]
      /\ status'[a] \in {status[a], "RETRYABLE_FAILED", "PERMANENT_FAILED"}
  BY <1>1, <1>2 DEF AiInv, AiTyped, RowsTyped
<1>6. RequestsGoOn /\ RequestsTyped'
  BY <1>1, RequestOver
<1>7. /\ AiMessagesTyped' /\ worker' \in [Worker -> {Idle} \cup AiWork]
      /\ AiHeld' /\ SentIsRequested' /\ MessageLeft'
      /\ \A j \in Worker : worker'[j] # Idle => worker[j] # Idle /\ worker'[j] = worker[j]
  <2>1. status'[a] # "NONE"
    BY <1>2, <1>5
  <2> QED
    BY <1>1, <1>3, <1>4, <1>5, <2>1, AiWorkerEnds
<1>8. AiTyped'
  <2>1. status' \in [Artifact -> ArtifactStatus]
    BY <1>1 DEF AiInv, AiTyped, RowsTyped, ArtifactStatus, Unfinished
  <2> QED
    BY <1>1, <1>6, <1>7, <2>1 DEF AiInv, AiTyped, RowsTyped, HistoryTyped
<1>9. DraftAlone'
  <2>1. \A b \in Tailored \ overlapped' :
               \/ status'[b] = status[b]
               \/ status[b] \notin {"SUCCEEDED", "DELETED"} /\ status'[b] # "SUCCEEDED"
    <3> SUFFICES ASSUME NEW b \in Tailored \ overlapped, status'[b] # status[b]
                 PROVE  status[b] \notin {"SUCCEEDED", "DELETED"} /\ status'[b] # "SUCCEEDED"
      BY <1>1
    <3>1. b = a /\ status'[b] # "SUCCEEDED"
      BY <1>5 DEF Artifact
    <3>2. worker[k].pc = "calling" /\ status[a] \notin Missing
      BY <1>1, <3>1
    <3>3. status[a] # "SUCCEEDED"
      BY <3>1, <3>2 DEF AiInv, DraftAlone
    <3> QED
      BY <3>1, <3>2, <3>3 DEF Missing
  <2> QED
    BY <1>1, <1>6, <1>7, <2>1, DraftsKept
<1>10. AiDecided'
  BY <1>1, <1>6, DecisionsKept
<1>11. PlaceKept'
  <2>1. \A b \in Artifact : status'[b] \notin Missing => status[b] \notin Missing
    BY <1>1, <1>5
  <2> QED
    BY <1>1, <1>6, <2>1, QuotaKept
<1> QED
  BY <1>7, <1>8, <1>9, <1>10, <1>11 DEF AiInv

LEMMA AiFinished ==
    ASSUME AiInv, NEW k \in Worker, Finish(k)
    PROVE  AiInv'
<1> DEFINE m == worker[k].msg
           r == [of |-> message[m].of, at |-> "ACKED", receives |-> message[m].receives]
<1>1. /\ worker[k].pc = "done"
      /\ message' = [message EXCEPT ![m].at = "ACKED"]
      /\ worker' = [worker EXCEPT ![k] = Idle]
      /\ UNCHANGED <<status, draft, operation, batches, decision, profile, caller, faults, clones, overlapped, raced, crowd>>
  BY DEF Finish, At, Acknowledge, suggested, history
<1>2. worker[k] # Idle
  BY <1>1 DEF Idle
<1>3. /\ m \in Message /\ message[m] \in AiMessage /\ message[m].of = worker[k].of
      /\ status[worker[k].of] # "NONE"
  BY <1>2, AiAtWork
<1>4. r.of = worker[k].of /\ r.at = "ACKED"
  BY <1>3
<1> HIDE DEF m
<1>5. r \in AiMessage /\ message' = [message EXCEPT ![m] = r]
  BY <1>1, <1>3, AiMessageMoves
<1> HIDE DEF r
<1>6. RequestsGoOn /\ RequestsTyped'
  BY <1>1, RequestOver
<1>7. /\ AiMessagesTyped' /\ worker' \in [Worker -> {Idle} \cup AiWork]
      /\ AiHeld' /\ SentIsRequested' /\ MessageLeft'
      /\ \A j \in Worker : worker'[j] # Idle => worker[j] # Idle /\ worker'[j] = worker[j]
  BY <1>1, <1>2, <1>3, <1>4, <1>5, AiWorkerEnds DEF m
<1>8. AiTyped'
  BY <1>1, <1>6, <1>7 DEF AiInv, AiTyped, RowsTyped, HistoryTyped
<1>9. DraftAlone'
  BY <1>1, <1>6, <1>7, DraftsKept
<1>10. AiDecided' /\ PlaceKept'
  BY <1>1, <1>6, DecisionsKept, QuotaKept
<1> QED
  BY <1>7, <1>8, <1>9, <1>10 DEF AiInv

LEMMA AiAnswered ==
    ASSUME AiInv, NEW k \in Worker, OutputInvalid(k) \/ Succeed(k)
    PROVE  AiInv'
<1> DEFINE a == worker[k].of
           w == [pc |-> "done", of |-> worker[k].of, msg |-> worker[k].msg,
                 known |-> worker[k].known, running |-> worker[k].running]
<1>1. /\ worker[k].pc = "calling" /\ status[a] \notin Missing
      /\ worker' = [worker EXCEPT ![k].pc = "done"]
      /\ UNCHANGED <<operation, profile, message, caller, faults, clones, overlapped, raced, crowd>>
      /\ \E s \in {"DEGRADED_FAILED", "SUCCEEDED"} : status' = [status EXCEPT ![a] = s]
  BY DEF OutputInvalid, Succeed, At, SetStatus, suggested, history
<1>2. worker[k] # Idle
  BY <1>1 DEF Idle
<1>3. a \in Artifact
  BY <1>2, AiAtWork
<1>4. worker' = [worker EXCEPT ![k] = w] /\ w \in AiWork
  BY <1>1, <1>2, AiWorkerSet
<1>5. w.pc = "done" /\ w.of = a /\ w.msg = worker[k].msg
  OBVIOUS
<1> HIDE DEF w, a
<1>6. /\ \A b \in Artifact : b # a => status'[b] = status[b]
      /\ status'[a] \in {"DEGRADED_FAILED", "SUCCEEDED"}
      /\ OutputInvalid(k) => status'[a] = "DEGRADED_FAILED"
  <2>1. OutputInvalid(k) => status' = [status EXCEPT ![a] = "DEGRADED_FAILED"]
    BY DEF OutputInvalid, SetStatus, a
  <2> QED
    BY <1>1, <1>3, <2>1 DEF AiInv, AiTyped, RowsTyped
<1>7. RequestsGoOn /\ RequestsTyped'
  BY <1>1, RequestOver
<1>8. /\ worker' \in [Worker -> {Idle} \cup AiWork]
      /\ AiHeld' /\ SentIsRequested' /\ MessageLeft'
      /\ \A j \in Worker : worker'[j] = IF j = k THEN w ELSE worker[j]
  <2>1. status'[a] # "NONE" /\ status'[a] \notin Unfinished
    BY <1>6 DEF Unfinished
  <2> QED
    BY <1>1, <1>2, <1>4, <1>5, <1>6, <2>1, AiWorkerContinues DEF a
<1>9. /\ draft' \in [Artifact -> {"none", "generated", "edited"}]
      /\ \A b \in Artifact : b # a => draft'[b] = draft[b]
      /\ draft'[a] = "generated" \/ draft'[a] = draft[a]
      /\ OutputInvalid(k) => UNCHANGED draft
  <2>1. OutputInvalid(k) => UNCHANGED draft
    BY DEF OutputInvalid
  <2>2. Succeed(k) => UNCHANGED draft \/ draft' = [draft EXCEPT ![a] = "generated"]
    BY DEF Succeed, a
  <2> QED
    BY <1>3, <2>1, <2>2 DEF AiInv, AiTyped, RowsTyped
<1>10. /\ batches' \in [Suggestions -> 0..1]
       /\ decision' \in [Suggestions -> {"NONE", "PENDING", "ACCEPTED", "REJECTED"}]
       /\ \A s \in Suggestions :
             \/ batches'[s] = batches[s] /\ decision'[s] = decision[s]
             \/ batches[s] = 0 /\ batches'[s] = 1 /\ decision'[s] = "PENDING"
  <2>1. CASE OutputInvalid(k)
    BY <2>1 DEF OutputInvalid, suggested, AiInv, AiTyped, RowsTyped
  <2>2. CASE Succeed(k)
    <3> DEFINE new == {s \in Suggestions : s = a /\ batches[s] = 0}
    <3>1. /\ batches' = [s \in Suggestions |-> IF s \in new THEN 1 ELSE batches[s]]
          /\ decision' = [s \in Suggestions |-> IF s \in new THEN "PENDING" ELSE decision[s]]
      BY <2>2 DEF Succeed, SaveSuggestions, a
    <3>2. \A s \in new : batches[s] = 0
      OBVIOUS
    <3> HIDE DEF new
    <3>3. batches \in [Suggestions -> 0..1] /\ decision \in [Suggestions -> {"NONE", "PENDING", "ACCEPTED", "REJECTED"}]
      BY DEF AiInv, AiTyped, RowsTyped
    <3>4. batches' \in [Suggestions -> 0..1]
      BY <3>1, <3>3
    <3>5. decision' \in [Suggestions -> {"NONE", "PENDING", "ACCEPTED", "REJECTED"}]
      BY <3>1, <3>3
    <3> QED
      BY <3>1, <3>2, <3>4, <3>5
  <2> QED
    BY <2>1, <2>2
<1>11. AiTyped'
  <2>1. status' \in [Artifact -> ArtifactStatus]
    BY <1>1 DEF AiInv, AiTyped, RowsTyped, ArtifactStatus
  <2> QED
    BY <1>1, <1>7, <1>8, <1>9, <1>10, <2>1 DEF AiInv, AiTyped, RowsTyped, AiMessagesTyped, HistoryTyped
<1>12. DraftAlone'
  <2> SUFFICES ASSUME NEW b \in Tailored \ overlapped
               PROVE  /\ draft'[b] = "edited" => status'[b] = "SUCCEEDED"
                      /\ \A c \in Caller : caller[c].pc = "draft" /\ caller[c].of = b =>
                             status'[b] \in {"SUCCEEDED", "DELETED"}
                      /\ \A j \in Worker : worker'[j].pc \in {"loaded", "calling"} /\ worker'[j].of = b =>
                             status'[b] # "SUCCEEDED"
                      /\ \A i, j \in Worker : worker'[i] # Idle /\ worker'[j] # Idle
                                /\ worker'[i].of = b /\ worker'[j].of = b => i = j
    BY <1>1 DEF DraftAlone
  <2>1. /\ draft[b] = "edited" => status[b] = "SUCCEEDED"
        /\ \A c \in Caller : caller[c].pc = "draft" /\ caller[c].of = b =>
               status[b] \in {"SUCCEEDED", "DELETED"}
        /\ \A j \in Worker : worker[j].pc \in {"loaded", "calling"} /\ worker[j].of = b =>
               status[b] # "SUCCEEDED"
        /\ \A i, j \in Worker : worker[i] # Idle /\ worker[j] # Idle
                /\ worker[i].of = b /\ worker[j].of = b => i = j
    BY DEF AiInv, DraftAlone
  <2>2. b \in Artifact
    BY DEF Artifact
  <2>3. \A i, j \in Worker : worker'[i] # Idle /\ worker'[j] # Idle
                /\ worker'[i].of = b /\ worker'[j].of = b => i = j
    BY <1>2, <1>5, <1>8, <2>1 DEF a
  <2>4. CASE b # a
    BY <1>5, <1>6, <1>8, <1>9, <2>1, <2>2, <2>3, <2>4
  <2>5. CASE b = a
    <3>1. status[b] # "SUCCEEDED" /\ status[b] # "DELETED"
      BY <1>1, <2>1, <2>5 DEF a, Missing
    <3>2. draft'[b] # "edited"
      BY <1>9, <2>1, <2>5, <3>1
    <3>3. \A j \in Worker : worker'[j].pc \in {"loaded", "calling"} => worker'[j].of # b
      <4> SUFFICES ASSUME NEW j \in Worker, worker'[j].pc \in {"loaded", "calling"}, worker'[j].of = b
                   PROVE  FALSE
        OBVIOUS
      <4>1. j # k /\ worker'[j] = worker[j]
        BY <1>5, <1>8
      <4>2. worker[j] # Idle
        BY <4>1 DEF Idle
      <4> QED
        BY <1>2, <2>1, <2>5, <4>1, <4>2 DEF a
    <3> QED
      BY <2>1, <2>3, <3>1, <3>2, <3>3
  <2> QED
    BY <2>4, <2>5
<1>14. AiDecided'
  <2>1. \A s \in Suggestions : /\ decision[s] # "NONE" => batches[s] = 1
                               /\ decision'[s] # "NONE" => batches'[s] = 1
                               /\ batches[s] = 1 => batches'[s] = 1 /\ decision'[s] = decision[s]
    BY <1>10 DEF AiInv, AiDecided, DecisionIsCurrent
  <2>2. profile \subseteq Suggestions /\ \A s \in profile : batches[s] = 1
    BY DEF AiInv, AiTyped, RowsTyped, AiDecided, DecisionIsCurrent
  <2>3. ASSUME NEW c \in Caller, caller[c].pc = "decide"
        PROVE  ListIsCurrent(c)'
    <3>1. ListIsCurrent(c) /\ caller[c].list \subseteq Suggestions /\ caller[c].of \in Suggestions
      BY <2>3 DEF AiInv, AiTyped, RequestsTyped, AiCall, NoCall, AiDecided, DecisionIsCurrent
    <3>2. \A s \in Suggestions : decision'[s] # "PENDING" => decision'[s] = decision[s]
      BY <1>10
    <3> QED
      BY <1>1, <2>1, <3>1, <3>2 DEF ListIsCurrent
  <2>4. DecisionIsCurrent'
    BY <1>1, <2>1, <2>2, <2>3 DEF DecisionIsCurrent
  <2>5. \A s \in Suggestions : batches'[s] <= 1
    BY <1>10 DEF AiInv, AiTyped, RowsTyped
  <2>6. ASSUME NEW s \in Suggestions
        PROVE  /\ decision'[s] = "PENDING" => s \notin profile
               /\ s \notin raced => /\ decision'[s] = "ACCEPTED" => s \in profile
                                    /\ decision'[s] = "REJECTED" => s \notin profile
    <3>1. CASE decision'[s] = decision[s]
      BY <3>1 DEF AiInv, AiDecided, ProfileIsDecided
    <3>2. CASE batches[s] = 0 /\ decision'[s] = "PENDING"
      BY <2>2, <3>2
    <3> QED
      BY <1>10, <3>1, <3>2
  <2>7. ProfileIsDecided'
    BY <1>1, <2>5, <2>6 DEF ProfileIsDecided
  <2> QED
    BY <2>4, <2>7 DEF AiDecided
<1>15. PlaceKept'
  <2>1. \A b \in Artifact : status'[b] \notin Missing => status[b] \notin Missing
    BY <1>1, <1>6
  <2> QED
    BY <1>1, <1>7, <2>1, QuotaKept
<1> QED
  BY <1>8, <1>11, <1>12, <1>14, <1>15 DEF AiInv

LEMMA AiStep ==
    ASSUME AiInv, [Next]_vars
    PROVE  AiInv'
<1>1. CASE UNCHANGED vars
  BY <1>1 DEF vars, AiInv, AiTyped, RowsTyped, AiMessagesTyped, RequestsTyped, HistoryTyped, AiHeld,
              SentIsRequested, MessageLeft, DraftAlone, PlaceKept, Counted, Passed,
              AiDecided, DecisionIsCurrent, ListIsCurrent, ProfileIsDecided
<1>2. ASSUME NEW c \in Caller, Request(c)
      PROVE  AiInv'
  <2>1. CASE \/ \E a \in Artifact : CheckQuota(c, a)
             \/ \E a \in Pasted : FindPasted(c, a)
             \/ \E a \in Tailored : FindDraft(c, a)
             \/ \E s \in Suggestions : FindSuggestion(c, s)
    BY <2>1, RequestsEnter
  <2>2. CASE InsertArtifact(c)
    BY <2>2, ArtifactInserted
  <2>3. CASE InsertRefused(c) \/ RowGone(c)
    BY <2>3, RequestsRefused
  <2>4. CASE RequeuePasted(c)
    BY <2>4, PastedRequeued
  <2>5. CASE UpdateDraft(c)
    BY <2>5, DraftUpdated
  <2>6. CASE \E d \in {"ACCEPTED", "REJECTED"} : Decide(c, d)
    BY <2>6, SuggestionDecided
  <2> QED
    BY <1>2, <2>1, <2>2, <2>3, <2>4, <2>5, <2>6 DEF Request
<1>3. ASSUME NEW k \in Worker, Work(k)
      PROVE  AiInv'
  <2>1. CASE \E a \in Artifact, m \in Message :
                ReceiveAndRaise(k, m, a) \/ ReceiveSucceeded(k, m, a) \/ Load(k, m, a)
    BY <2>1, AiReceived
  <2>2. CASE CommitRunning(k)
    BY <2>2, AiRunning
  <2>3. CASE CommitRefused(k) \/ Crash(k) \/ \E code \in Unanswered : ProviderFails(k, code)
    BY <2>3, AiReturns
  <2>4. CASE OutputInvalid(k) \/ Succeed(k)
    BY <2>4, AiAnswered
  <2>5. CASE Finish(k)
    BY <2>5, AiFinished
  <2> QED
    BY <1>3, <2>1, <2>2, <2>3, <2>4, <2>5 DEF Work
<1>4. ASSUME NEW a \in Tailored, NEW b \in Tailored, Duplicate(a, b)
      PROVE  AiInv'
  BY <1>4, DraftDuplicated
<1>5. ASSUME NEW a \in Artifact, DeleteArtifact(a)
      PROVE  AiInv'
  BY <1>5, ArtifactDeleted
<1>6. ASSUME NEW m \in Message, Publish(m) \/ PublishUnmarked(m)
      PROVE  AiInv'
  BY <1>6, AiPublished
<1> QED
  BY <1>1, <1>2, <1>3, <1>4, <1>5, <1>6 DEF Next

\* A draft that was edited changes by a deletion or by the user alone.
LEMMA DraftStays ==
    ASSUME AiInv, [Next]_vars
    PROVE  EditKept
<1> SUFFICES ASSUME NEW a \in Tailored \ overlapped', draft[a] = "edited"
             PROVE  draft'[a] = "edited" \/ status'[a] = "DELETED"
  BY DEF EditKept
<1>1. /\ a \in Artifact /\ draft \in [Artifact -> {"none", "generated", "edited"}]
      /\ status \in [Artifact -> ArtifactStatus]
  BY DEF Artifact, AiInv, AiTyped, RowsTyped
<1>2. CASE UNCHANGED draft
  BY <1>2
<1>3. CASE \E c \in Caller : UpdateDraft(c)
  BY <1>1, <1>3 DEF UpdateDraft
<1>4. CASE \E b, d \in Tailored : Duplicate(b, d)
  <2>1. PICK b \in Tailored, d \in Tailored : Duplicate(b, d)
    BY <1>4
  <2>2. /\ status[d] = "NONE" /\ draft' = [draft EXCEPT ![d] = draft[b]] /\ overlapped' = overlapped
    BY <2>1 DEF Duplicate
  <2>3. status[a] = "SUCCEEDED"
    BY <2>2 DEF AiInv, DraftAlone
  <2> QED
    BY <1>1, <2>2, <2>3
<1>5. CASE \E b \in Artifact : DeleteArtifact(b)
  BY <1>1, <1>5 DEF DeleteArtifact, SetStatus
<1>6. CASE \E k \in Worker : Succeed(k)
  <2>1. PICK k \in Worker : Succeed(k)
    BY <1>6
  <2>2. /\ worker[k].pc = "calling" /\ overlapped' = overlapped
        /\ draft' = IF worker[k].of \in Tailored THEN [draft EXCEPT ![worker[k].of] = "generated"] ELSE draft
    BY <2>1 DEF Succeed, At, history
  <2>3. worker[k].of # a
    BY <2>2 DEF AiInv, DraftAlone
  <2> QED
    BY <1>1, <2>2, <2>3
<1> QED
  <2>1. ASSUME NEW c \in Caller, Request(c), ~UpdateDraft(c)
        PROVE  UNCHANGED draft
    BY <2>1 DEF Request, CheckQuota, InsertArtifact, InsertRefused, FindPasted, RequeuePasted, FindDraft,
                FindSuggestion, Decide, RowGone, Enter
  <2>2. ASSUME NEW k \in Worker, Work(k), ~Succeed(k)
        PROVE  UNCHANGED draft
    BY <2>2 DEF Work, ReceiveAndRaise, ReceiveSucceeded, Load, CommitRunning, CommitRefused, ProviderFails,
                OutputInvalid, Finish, Crash
  <2>3. ASSUME NEW m \in Message, Publish(m) \/ PublishUnmarked(m)
        PROVE  UNCHANGED draft
    BY <2>3 DEF Publish, PublishUnmarked
  <2>4. UNCHANGED vars => UNCHANGED draft
    BY DEF vars
  <2> QED
    BY <1>2, <1>3, <1>4, <1>5, <1>6, <2>1, <2>2, <2>3, <2>4 DEF Next

LEMMA AiWaits == AiInv => WaitingHasMessage
BY DEF AiInv, MessageLeft, WaitingHasMessage

LEMMA AiCounts == AiInv => QuotaHolds
<1> SUFFICES ASSUME AiInv, NEW a \in Artifact
             PROVE  Cardinality(Counted(a)) < Limit + crowd[SameQuota(a)]
  BY DEF QuotaHolds, Counted
<1>1. Cardinality(Counted(a)) + Cardinality(Passed(SameQuota(a))) < Limit + crowd[SameQuota(a)]
  BY DEF AiInv, PlaceKept
<1>2. SameQuota(a) \in Quotas /\ Counted(a) \subseteq SameQuota(a) /\ IsFiniteSet(SameQuota(a))
  BY QuotaFinite DEF Counted
<1>3. /\ Cardinality(Passed(SameQuota(a))) \in Nat /\ Cardinality(Counted(a)) \in Nat
      /\ Limit \in Nat /\ crowd[SameQuota(a)] \in Nat
  BY <1>2, FS_Subset, FS_CardinalityType, PassedFinite, PrivateAiConstants
     DEF PrivateAiConstants, AiInv, AiTyped, HistoryTyped
<1> QED
  BY <1>1, <1>3

LEMMA AiTypes == AiInv => TypeOK
<1> SUFFICES ASSUME AiInv
             PROVE  TypeOK
  OBVIOUS
<1>1. RowsTyped /\ HistoryTyped
  BY DEF AiInv, AiTyped
<1>2. \A m \in Message : message[m] = Unsent \/
           message[m] \in [of : Artifact, at : Waits \cup {"ACKED"}, receives : 0..MaxReceive]
  BY DEF AiInv, AiTyped, AiMessagesTyped, AiMessage
<1>3. \A k \in Worker : worker[k] = Idle \/
           worker[k] \in [pc : {"loaded", "calling", "done"}, of : Artifact, msg : Message,
                          known : BOOLEAN, running : BOOLEAN]
  BY DEF AiInv, AiTyped, AiWork
<1>4. \A c \in Caller : caller[c].pc \in {"idle", "insert", "draft", "decide", "requeue"}
  BY DEF AiInv, AiTyped, RequestsTyped, AiCall, NoCall
<1> QED
  BY <1>1, <1>2, <1>3, <1>4 DEF TypeOK, RowsTyped, HistoryTyped, ArtifactStatus

-----------------------------------------------------------------------------
(* AnalyzeJob *)

PageRow     == [status : A!RowStatus, demand : BOOLEAN, job : Page \cup {"NONE"}]
PageMessage == [of : Page, at : A!Waits \cup {"ACKED"}, receives : 0..MaxReceive]
PageWork    == [pc : {"loaded", "fetching"}, msg : Message, seen : PageRow]
PageCall    == [pc : {"commit"}, of : Page, seen : PageRow \cup {A!NoRow}, found : BOOLEAN]

CatalogTyped ==
    /\ row \in [Page -> PageRow \cup {A!NoRow, A!Gone}]
    /\ profile \in [Page -> {"NONE", "QUEUED", "SUCCEEDED", "FAILED"}]
    /\ version \in [Page -> Page \cup {"NONE"}]
    /\ byUrl \subseteq {p \in Page : version[p] # "NONE"}
    /\ listing \in [A!ExternalIds -> Page \cup {"NONE"}]

PageMessagesTyped ==
    /\ message = [m \in Message |-> message[m]]
    /\ \A m \in Message : message[m] = A!Unsent \/ message[m] \in PageMessage
    /\ \A m \in Message : message[m].at = "WAITING" => message[m].receives < MaxReceive

PageTyped ==
    /\ CatalogTyped /\ PageMessagesTyped
    /\ worker \in [Worker -> {A!Idle} \cup PageWork]
    /\ caller \in [Caller -> {A!NoCall} \cup PageCall]

\* A row with a demand profile has one, and the version and job it belongs to.
DemandNamed ==
    \A p \in Page : row[p].demand => profile[p] # "NONE" /\ version[p] # "NONE" /\ row[p].job # "NONE"

\* A worker has its message to itself, and read a row without a demand profile.
PageHeld ==
    \A k \in Worker : worker[k] # A!Idle =>
        /\ message[worker[k].msg].at = "INFLIGHT"
        /\ \A j \in Worker : j # k /\ worker[j] # A!Idle => worker[j].msg # worker[k].msg
        /\ ~worker[k].seen.demand
        /\ worker[k].pc = "fetching" => worker[k].seen.status = "FETCHING"
        /\ worker[k].seen.job # "NONE" => row[A!PageOf(k)] = A!Gone \/ row[A!PageOf(k)].job # "NONE"

\* Of what a request read, these columns only move forward: a page whose version carries
\* its URL never asks for a fetch again.
RequestSaw ==
    \A c \in Caller : caller[c] # A!NoCall =>
        /\ caller[c].found => caller[c].of \in byUrl
        /\ caller[c].seen.demand /\ ~caller[c].found =>
              version[caller[c].of] # "NONE" /\ caller[c].of \notin byUrl
        /\ caller[c].seen.demand /\ caller[c].found =>
              row[caller[c].of] = A!Gone \/ row[caller[c].of].demand
        /\ caller[c].seen # A!NoRow => row[caller[c].of] # A!NoRow
        /\ caller[c].seen.job # "NONE" =>
              row[caller[c].of] = A!Gone \/ row[caller[c].of].job # "NONE"

PageInv == PageTyped /\ DemandNamed /\ PageHeld /\ RequestSaw /\ A!PageHasMessage

\* What a step of another does to a row that a worker or a request has read.
Forward ==
    /\ \A p \in Page :
          /\ row[p] # A!NoRow => row'[p] # A!NoRow
          /\ row[p] = A!Gone => row'[p] = A!Gone
          /\ row[p].job # "NONE" => row'[p] = A!Gone \/ row'[p].job # "NONE"
          /\ p \in byUrl /\ row[p].demand => row'[p] = A!Gone \/ row'[p].demand
          /\ version[p] # "NONE" => version'[p] # "NONE" /\ (p \notin byUrl => p \notin byUrl')
    /\ byUrl \subseteq byUrl'

LEMMA PageInit == A!Init => PageInv
<1> SUFFICES ASSUME A!Init
             PROVE  PageInv
  OBVIOUS
<1>1. PageTyped
  <2>1. CatalogTyped
    BY DEF A!Init, CatalogTyped
  <2>2. PageMessagesTyped
    BY DEF A!Init, PageMessagesTyped, A!Unsent
  <2> QED
    BY <2>1, <2>2 DEF A!Init, PageTyped
<1>2. DemandNamed
  BY DEF A!Init, DemandNamed, A!NoRow
<1>3. PageHeld /\ RequestSaw
  BY DEF A!Init, PageHeld, RequestSaw
<1>4. A!PageHasMessage
  BY DEF A!Init, A!PageHasMessage, A!Stored, A!NoRow
<1> QED
  BY <1>1, <1>2, <1>3, <1>4 DEF PageInv

\* Only a column that changed is written.
LEMMA ColumnsWritten ==
    ASSUME NEW old \in PageRow, NEW new \in PageRow, NEW stored \in PageRow
    PROVE  /\ A!Write(old, new, stored) \in PageRow
           /\ A!Write(old, new, stored).status =
                 IF new.status # old.status THEN new.status ELSE stored.status
           /\ A!Write(old, new, stored).demand =
                 IF new.demand # old.demand THEN new.demand ELSE stored.demand
           /\ A!Write(old, new, stored).job =
                 IF new.job # old.job THEN new.job ELSE stored.job
<1>1. A!Write(old, new, stored) =
         [status |-> IF new.status # old.status THEN new.status ELSE stored.status,
          demand |-> IF new.demand # old.demand THEN new.demand ELSE stored.demand,
          job |-> IF new.job # old.job THEN new.job ELSE stored.job]
  BY DEF A!Write, PageRow
<1>2. /\ new.status \in A!RowStatus /\ stored.status \in A!RowStatus
      /\ new.demand \in BOOLEAN /\ stored.demand \in BOOLEAN
      /\ new.job \in Page \cup {"NONE"} /\ stored.job \in Page \cup {"NONE"}
  BY DEF PageRow
<1> QED
  BY <1>1, <1>2 DEF PageRow

\* A row that is stored is one of the records.
LEMMA StoredRow ==
    ASSUME CatalogTyped, NEW p \in Page
    PROVE  /\ A!Stored(p) <=> row[p] \in PageRow
           /\ A!NoRow \notin PageRow /\ A!Gone \notin PageRow /\ A!NoRow # A!Gone
           /\ ~A!NoRow.demand /\ ~A!Gone.demand
           /\ A!NoRow.job = "NONE" /\ A!Gone.job = "NONE"
<1>1. A!NoRow.status = "NONE" /\ A!Gone.status = "DELETED"
  BY DEF A!NoRow, A!Gone
<1>2. A!NoRow \notin PageRow /\ A!Gone \notin PageRow /\ A!NoRow # A!Gone
  BY <1>1 DEF PageRow, A!RowStatus
<1>3. A!Stored(p) <=> row[p] \in PageRow
  BY <1>2 DEF CatalogTyped, A!Stored
<1> QED
  BY <1>2, <1>3 DEF A!NoRow, A!Gone

LEMMA PageMessageWritten ==
    ASSUME PageMessagesTyped, NEW m \in Message, NEW r \in PageMessage,
           r.at = "WAITING" => r.receives < MaxReceive,
           message' = [message EXCEPT ![m] = r]
    PROVE  /\ PageMessagesTyped'
           /\ message'[m] = r
           /\ \A i \in Message : i # m => message'[i] = message[i]
<1>1. message'[m] = r /\ \A i \in Message : i # m => message'[i] = message[i]
  BY DEF PageMessagesTyped
<1>2. message' = [i \in Message |-> message'[i]]
  BY DEF PageMessagesTyped
<1> QED
  BY <1>1, <1>2 DEF PageMessagesTyped

\* The message of a request.
LEMMA PageSent ==
    ASSUME PageMessagesTyped, NEW p \in Page, A!Send(p)
    PROVE  /\ PageMessagesTyped'
           /\ \A m \in Message : message[m] # A!Unsent => message'[m] = message[m]
           /\ \E m \in Message : message'[m].of = p /\ message'[m].at = "WAITING"
<1> DEFINE r == [of |-> p, at |-> "WAITING", receives |-> 0]
<1>1. PICK m \in Message : message[m] = A!Unsent /\ message' = [message EXCEPT ![m] = r]
  BY DEF A!Send
<1>2. r \in PageMessage /\ r.of = p /\ r.at = "WAITING" /\ r.receives < MaxReceive
  BY PrivateAiConstants DEF PageMessage, A!Waits, PrivateAiConstants
<1> HIDE DEF r
<1> QED
  BY <1>1, <1>2, PageMessageWritten

\* What requests and busy workers keep while others go on.
LEMMA RequestsKeep ==
    ASSUME PageInv, Forward,
           \A c \in Caller : caller'[c] = caller[c] \/ caller'[c] = A!NoCall
    PROVE  RequestSaw'
<1> SUFFICES ASSUME NEW c \in Caller, caller'[c] # A!NoCall
             PROVE  /\ caller'[c].found => caller'[c].of \in byUrl'
                    /\ caller'[c].seen.demand /\ ~caller'[c].found =>
                          version'[caller'[c].of] # "NONE" /\ caller'[c].of \notin byUrl'
                    /\ caller'[c].seen.demand /\ caller'[c].found =>
                          row'[caller'[c].of] = A!Gone \/ row'[caller'[c].of].demand
                    /\ caller'[c].seen # A!NoRow => row'[caller'[c].of] # A!NoRow
                    /\ caller'[c].seen.job # "NONE" =>
                          row'[caller'[c].of] = A!Gone \/ row'[caller'[c].of].job # "NONE"
  BY DEF RequestSaw
<1>1. caller'[c] = caller[c] /\ caller[c] # A!NoCall
  OBVIOUS
<1>2. caller[c].of \in Page
  BY <1>1 DEF PageInv, PageTyped, PageCall
<1> QED
  BY <1>1, <1>2 DEF PageInv, RequestSaw, Forward

LEMMA WorkersKeep ==
    ASSUME PageInv, Forward,
           \A k \in Worker : worker'[k] # A!Idle =>
               worker'[k] = worker[k] /\ message'[worker[k].msg] = message[worker[k].msg]
    PROVE  PageHeld'
<1> SUFFICES ASSUME NEW k \in Worker, worker'[k] # A!Idle
             PROVE  /\ message'[worker'[k].msg].at = "INFLIGHT"
                    /\ \A j \in Worker : j # k /\ worker'[j] # A!Idle => worker'[j].msg # worker'[k].msg
                    /\ ~worker'[k].seen.demand
                    /\ worker'[k].pc = "fetching" => worker'[k].seen.status = "FETCHING"
                    /\ worker'[k].seen.job # "NONE" =>
                          row'[A!PageOf(k)'] = A!Gone \/ row'[A!PageOf(k)'].job # "NONE"
  BY DEF PageHeld
<1>1. /\ worker'[k] = worker[k] /\ worker[k] # A!Idle
      /\ message'[worker[k].msg] = message[worker[k].msg]
  OBVIOUS
<1>2. worker[k].msg \in Message /\ message[worker[k].msg].at = "INFLIGHT"
  BY <1>1 DEF PageInv, PageTyped, PageWork, PageHeld
<1>3. A!PageOf(k) \in Page /\ A!PageOf(k)' = A!PageOf(k)
  <2>1. A!Unsent.at = "UNSENT"
    BY DEF A!Unsent
  <2>2. message[worker[k].msg] \in PageMessage
    BY <1>2, <2>1 DEF PageInv, PageTyped, PageMessagesTyped
  <2> QED
    BY <1>1, <2>2 DEF A!PageOf, PageMessage
<1>4. \A j \in Worker : worker'[j] # A!Idle => worker'[j] = worker[j]
  OBVIOUS
<1>5. row'[A!PageOf(k)] = A!Gone \/ row'[A!PageOf(k)].job # "NONE" \/ worker[k].seen.job = "NONE"
  BY <1>1, <1>3 DEF PageInv, PageHeld, Forward
<1> QED
  BY <1>1, <1>2, <1>3, <1>4, <1>5 DEF PageInv, PageHeld

\* Only the rows of other pages change, and the messages of this one stay: nothing is lost.
LEMMA PagesKeep ==
    ASSUME PageInv, CatalogTyped',
           \A p \in Page :
              \/ /\ row'[p] = row[p]
                 /\ \A m \in Message : message[m].of = p /\ message[m].at \in A!Waits =>
                        message'[m].of = p /\ message'[m].at \in A!Waits
              \/ row'[p] \in PageRow /\ row'[p].demand
              \/ row'[p] \in PageRow /\ row'[p].status = "PERMANENT_FAILED"
              \/ row'[p] = A!Gone
              \/ \E m \in Message : message'[m].of = p /\ message'[m].at \in A!Waits
    PROVE  A!PageHasMessage'
BY DEF PageInv, A!PageHasMessage, A!Stored

-----------------------------------------------------------------------------
(* Requests and what other components do *)

LEMMA PageFound ==
    ASSUME PageInv, NEW c \in Caller, NEW p \in Page, A!Find(c, p)
    PROVE  PageInv'
<1> DEFINE call == [pc |-> "commit", of |-> p, seen |-> row[p], found |-> p \in byUrl]
<1>1. /\ caller[c] = A!NoCall /\ row[p] # A!Gone
      /\ caller' = [caller EXCEPT ![c] = call]
      /\ UNCHANGED <<row, profile, version, byUrl, listing, message, worker>>
  BY DEF A!Find, A!catalog
<1>2. call \in PageCall /\ call.of = p /\ call.seen = row[p] /\ call.found = (p \in byUrl)
  BY <1>1 DEF PageInv, PageTyped, CatalogTyped, PageCall
<1> HIDE DEF call
<1>3. \A d \in Caller : caller'[d] = IF d = c THEN call ELSE caller[d]
  BY <1>1 DEF PageInv, PageTyped
<1>4. PageTyped'
  <2>1. caller' \in [Caller -> {A!NoCall} \cup PageCall]
    BY <1>1, <1>2 DEF PageInv, PageTyped
  <2> QED
    BY <1>1, <2>1 DEF PageInv, PageTyped, CatalogTyped, PageMessagesTyped
<1>5. RequestSaw'
  <2>1. /\ row[p].demand => version[p] # "NONE"
        /\ row[p] # A!Gone
    BY <1>1 DEF PageInv, DemandNamed
  <2> SUFFICES ASSUME NEW d \in Caller, caller'[d] # A!NoCall
               PROVE  /\ caller'[d].found => caller'[d].of \in byUrl
                      /\ caller'[d].seen.demand /\ ~caller'[d].found =>
                            version[caller'[d].of] # "NONE" /\ caller'[d].of \notin byUrl
                      /\ caller'[d].seen.demand /\ caller'[d].found =>
                            row[caller'[d].of] = A!Gone \/ row[caller'[d].of].demand
                      /\ caller'[d].seen # A!NoRow => row[caller'[d].of] # A!NoRow
                      /\ caller'[d].seen.job # "NONE" =>
                            row[caller'[d].of] = A!Gone \/ row[caller'[d].of].job # "NONE"
    BY <1>1 DEF RequestSaw
  <2>3. CASE d = c
    BY <1>2, <1>3, <2>1, <2>3
  <2>4. CASE d # c
    BY <1>3, <2>4 DEF PageInv, RequestSaw
  <2> QED
    BY <2>3, <2>4
<1> QED
  BY <1>1, <1>4, <1>5 DEF PageInv, DemandNamed, PageHeld, A!PageOf, A!PageHasMessage, A!Stored

LEMMA PageCommitted ==
    ASSUME PageInv, NEW c \in Caller, A!CommitRequest(c)
    PROVE  PageInv'
<1> DEFINE p == caller[c].of
           seen == caller[c].seen
           new == A!Requested(c)
<1>1. /\ caller[c].pc = "commit" /\ caller' = [caller EXCEPT ![c] = A!NoCall]
      /\ row[p] # A!Gone /\ (row[p] = A!NoRow) = (seen = A!NoRow)
      /\ row' = [row EXCEPT ![p] = IF row[p] = A!NoRow THEN new ELSE A!Write(seen, new, row[p])]
      /\ IF caller[c].found THEN A!QueueAnalysis(p) ELSE UNCHANGED profile
      /\ IF caller[c].found THEN UNCHANGED message ELSE A!Send(p)
      /\ UNCHANGED <<version, byUrl, listing, worker>>
  BY DEF A!CommitRequest, A!Leave
<1>2. caller[c] \in PageCall /\ caller[c] # A!NoCall
  <2>1. A!NoCall.pc = "idle"
    BY DEF A!NoCall
  <2> QED
    BY <1>1, <2>1 DEF PageInv, PageTyped
<1>3. p \in Page /\ seen \in PageRow \cup {A!NoRow} /\ caller[c].found \in BOOLEAN
  BY <1>2 DEF PageCall
<1>4. /\ caller[c].found => p \in byUrl
      /\ seen.demand /\ ~caller[c].found => p \notin byUrl
      /\ seen.demand /\ caller[c].found => row[p] = A!Gone \/ row[p].demand
      /\ seen.job # "NONE" => row[p] = A!Gone \/ row[p].job # "NONE"
  BY <1>2 DEF PageInv, RequestSaw
<1>5. /\ new \in PageRow /\ new.demand = caller[c].found
      /\ caller[c].found => new.job # "NONE"
      /\ ~caller[c].found => new.job = seen.job
  <2>1. CASE caller[c].found
    <3>1. version[p] \in Page /\ version[p] # "NONE"
      BY <1>3, <1>4, <2>1 DEF PageInv, PageTyped, CatalogTyped
    <3>2. new = [status |-> "ANALYSIS_QUEUED", demand |-> TRUE, job |-> version[p]]
      BY <2>1 DEF A!Requested
    <3> QED
      BY <2>1, <3>1, <3>2 DEF PageRow, A!RowStatus
  <2>2. CASE ~caller[c].found
    <3>1. new = [seen EXCEPT !.status = "QUEUED", !.demand = FALSE]
      BY <2>2 DEF A!Requested
    <3>2. seen \in [status : A!RowStatus \cup {"NONE"}, demand : BOOLEAN, job : Page \cup {"NONE"}]
      <4>1. CASE seen \in PageRow
        BY <4>1 DEF PageRow
      <4>2. CASE seen = A!NoRow
        <5>1. A!NoRow \in [status : A!RowStatus \cup {"NONE"}, demand : BOOLEAN, job : Page \cup {"NONE"}]
          BY DEF A!NoRow
        <5> QED
          BY <4>2, <5>1
      <4> QED
        BY <1>3, <4>1, <4>2
    <3>3. new = [status |-> "QUEUED", demand |-> FALSE, job |-> seen.job] /\ seen.job \in Page \cup {"NONE"}
      <4> HIDE DEF seen, new
      <4> QED
        BY <3>1, <3>2
    <3>4. new \in PageRow /\ new.job = seen.job /\ new.demand = FALSE
      <4> HIDE DEF seen, new
      <4> QED
        BY <3>3 DEF PageRow, A!RowStatus
    <3>5. caller[c].found = FALSE
      BY <1>3, <2>2
    <3> QED
      BY <2>2, <3>4, <3>5
  <2> QED
    BY <1>3, <2>1, <2>2
<1>6. /\ row'[p] \in PageRow
      /\ \A q \in Page : q # p => row'[q] = row[q]
      /\ caller[c].found => row'[p].demand /\ row'[p].job # "NONE"
      /\ row[p].job # "NONE" => row'[p].job # "NONE"
      /\ row'[p].demand => caller[c].found \/ (row[p].demand /\ row'[p].job = row[p].job)
      /\ p \in byUrl /\ row[p].demand => row'[p].demand
  <2> HIDE DEF p, seen, new
  <2>1. /\ row'[p] = IF row[p] = A!NoRow THEN new ELSE A!Write(seen, new, row[p])
        /\ \A q \in Page : q # p => row'[q] = row[q]
    BY <1>1, <1>3 DEF PageInv, PageTyped, CatalogTyped
  <2>2. CASE row[p] = A!NoRow
    <3>1. ~A!NoRow.demand /\ A!NoRow.job = "NONE"
      BY DEF A!NoRow
    <3>2. row'[p] = new
      BY <2>1, <2>2
    <3>3. ~row[p].demand /\ row[p].job = "NONE"
      BY <2>2, <3>1
    <3> QED
      BY <1>5, <2>1, <3>2, <3>3
  <2>3. CASE row[p] # A!NoRow
    <3>1. row[p] \in PageRow /\ seen \in PageRow
      BY <1>1, <1>3, <2>3 DEF PageInv, PageTyped, CatalogTyped
    <3>2. row[p].demand \in BOOLEAN /\ seen.demand \in BOOLEAN /\ new.demand \in BOOLEAN
      BY <1>5, <3>1 DEF PageRow
    <3>3. /\ row'[p] \in PageRow
          /\ row'[p].demand = IF new.demand # seen.demand THEN new.demand ELSE row[p].demand
          /\ row'[p].job = IF new.job # seen.job THEN new.job ELSE row[p].job
      BY <1>5, <2>1, <2>3, <3>1, ColumnsWritten
    <3>4. row[p] # A!Gone
      BY <1>1
    <3>5. row'[p].job = row[p].job \/ (caller[c].found /\ row'[p].job = new.job)
      BY <1>5, <3>3
    <3>6. caller[c].found => row'[p].job # "NONE"
      <4> SUFFICES ASSUME caller[c].found
                   PROVE  row'[p].job # "NONE"
        OBVIOUS
      <4>1. CASE new.job # seen.job
        BY <1>5, <3>3, <4>1
      <4>2. CASE new.job = seen.job
        BY <1>4, <1>5, <3>3, <3>4, <4>2 DEF p, seen
      <4> QED
        BY <4>1, <4>2
    <3>7. CASE caller[c].found
      <4>1. new.demand = TRUE
        BY <1>3, <1>5, <3>7
      <4>2. seen.demand = TRUE => row[p].demand = TRUE
        BY <1>4, <3>2, <3>4, <3>7 DEF p, seen
      <4>3. row'[p].demand = TRUE
        BY <3>2, <3>3, <4>1, <4>2
      <4> QED
        BY <1>5, <2>1, <3>3, <3>5, <3>6, <3>7, <4>3
    <3>8. CASE ~caller[c].found
      <4>1. new.demand = FALSE /\ new.job = seen.job
        BY <1>3, <1>5, <3>8
      <4>2. row'[p].demand => row[p].demand /\ ~seen.demand
        BY <3>2, <3>3, <4>1
      <4>3. p \in byUrl => ~seen.demand
        BY <1>4, <3>8 DEF p, seen
      <4>4. ~seen.demand => row'[p].demand = row[p].demand
        BY <3>2, <3>3, <4>1
      <4>5. row'[p].job = row[p].job
        BY <3>3, <4>1
      <4> QED
        BY <2>1, <3>3, <3>8, <4>2, <4>3, <4>4, <4>5
    <3> QED
      BY <3>7, <3>8
  <2> QED
    BY <2>2, <2>3
<1> HIDE DEF p, seen, new
<1>7. /\ profile' \in [Page -> {"NONE", "QUEUED", "SUCCEEDED", "FAILED"}]
      /\ \A q \in Page : profile[q] # "NONE" => profile'[q] # "NONE"
      /\ caller[c].found => profile'[p] # "NONE"
  BY <1>1, <1>3 DEF PageInv, PageTyped, CatalogTyped, A!QueueAnalysis
<1>8. CatalogTyped'
  <2>1. row' \in [Page -> PageRow \cup {A!NoRow, A!Gone}]
    <3>1. row' = [row EXCEPT ![p] = row'[p]]
      BY <1>1, <1>3 DEF PageInv, PageTyped, CatalogTyped
    <3> QED
      BY <1>3, <1>6, <3>1 DEF PageInv, PageTyped, CatalogTyped
  <2> QED
    BY <1>1, <1>7, <2>1 DEF PageInv, PageTyped, CatalogTyped
<1>9. /\ PageMessagesTyped'
      /\ \A m \in Message : message[m] # A!Unsent => message'[m] = message[m]
      /\ ~caller[c].found => \E m \in Message : message'[m].of = p /\ message'[m].at \in A!Waits
  <2>1. CASE caller[c].found
    BY <1>1, <2>1 DEF PageInv, PageTyped, PageMessagesTyped
  <2>2. CASE ~caller[c].found
    BY <1>1, <1>3, <2>2, PageSent DEF PageInv, PageTyped, A!Waits
  <2> QED
    BY <2>1, <2>2
<1>10. PageTyped'
  <2>1. caller' \in [Caller -> {A!NoCall} \cup PageCall]
    BY <1>1 DEF PageInv, PageTyped
  <2> QED
    BY <1>1, <1>8, <1>9, <2>1 DEF PageInv, PageTyped
<1>11. Forward
  <2>1. p \in Page /\ A!NoRow \notin PageRow /\ row[p] # A!Gone
    BY <1>1, <1>3, StoredRow DEF PageInv, PageTyped
  <2> QED
    BY <1>1, <1>6, <2>1 DEF Forward
<1>12. DemandNamed'
  <2> SUFFICES ASSUME NEW q \in Page, row'[q].demand
               PROVE  profile'[q] # "NONE" /\ version[q] # "NONE" /\ row'[q].job # "NONE"
    BY <1>1 DEF DemandNamed
  <2>1. CASE q # p
    BY <1>6, <1>7, <2>1 DEF PageInv, DemandNamed
  <2>2. CASE q = p /\ caller[c].found
    BY <1>3, <1>4, <1>6, <1>7, <2>2 DEF PageInv, PageTyped, CatalogTyped
  <2>3. CASE q = p /\ ~caller[c].found
    BY <1>6, <1>7, <2>3 DEF PageInv, DemandNamed
  <2> QED
    BY <2>1, <2>2, <2>3
<1>13. RequestSaw'
  <2>1. \A d \in Caller : caller'[d] = caller[d] \/ caller'[d] = A!NoCall
    BY <1>1 DEF PageInv, PageTyped
  <2> QED
    BY <1>11, <2>1, RequestsKeep
<1>14. PageHeld'
  <2>1. \A k \in Worker : worker[k] # A!Idle => message'[worker[k].msg] = message[worker[k].msg]
    <3> SUFFICES ASSUME NEW k \in Worker, worker[k] # A!Idle
                 PROVE  message'[worker[k].msg] = message[worker[k].msg]
      OBVIOUS
    <3>1. worker[k].msg \in Message /\ message[worker[k].msg].at = "INFLIGHT"
      BY DEF PageInv, PageTyped, PageHeld, PageWork
    <3> QED
      BY <1>9, <3>1 DEF A!Unsent
  <2> QED
    <3>1. \A k \in Worker : worker'[k] # A!Idle =>
               worker'[k] = worker[k] /\ message'[worker[k].msg] = message[worker[k].msg]
      BY <1>1, <2>1
    <3> QED
      BY <1>11, <3>1, WorkersKeep
<1>15. A!PageHasMessage'
  <2>1. \A m \in Message : message[m].at \in A!Waits => message'[m] = message[m]
    BY <1>9 DEF A!Unsent, A!Waits
  <2> QED
    BY <1>3, <1>6, <1>8, <1>9, <2>1, PagesKeep
<1> QED
  BY <1>10, <1>12, <1>13, <1>14, <1>15 DEF PageInv

\* Steps of others: no message moves, and no request or worker.
LEMMA PageElsewhere ==
    ASSUME PageInv,
           \/ \E c \in Caller : A!RequestRefused(c)
           \/ \E p \in Page : A!Delete(p)
           \/ \E p \in Page, same \in BOOLEAN : A!Discovered(p, same)
           \/ \E p \in Page, s \in {"SUCCEEDED", "FAILED"} : A!AnalysisEnds(p, s)
    PROVE  PageInv'
<1>1. UNCHANGED <<listing, message, worker>>
  BY DEF A!RequestRefused, A!Delete, A!Discovered, A!AnalysisEnds, A!catalog
<1>2. /\ caller' \in [Caller -> {A!NoCall} \cup PageCall]
      /\ \A c \in Caller : caller'[c] = caller[c] \/ caller'[c] = A!NoCall
  BY DEF A!RequestRefused, A!Leave, A!Delete, A!Discovered, A!AnalysisEnds, PageInv, PageTyped
<1>3. /\ row' \in [Page -> PageRow \cup {A!NoRow, A!Gone}]
      /\ \A p \in Page : row'[p] = row[p] \/ (row'[p] = A!Gone /\ row[p] # A!NoRow)
  <2>1. CASE UNCHANGED row
    BY <2>1 DEF PageInv, PageTyped, CatalogTyped
  <2>2. ASSUME NEW p \in Page, A!Delete(p)
        PROVE  /\ row' \in [Page -> PageRow \cup {A!NoRow, A!Gone}]
               /\ \A q \in Page : row'[q] = row[q] \/ (row'[q] = A!Gone /\ row[q] # A!NoRow)
    <3>1. row' = [row EXCEPT ![p] = A!Gone] /\ row[p] # A!NoRow
      BY <2>2 DEF A!Delete, A!Stored
    <3> QED
      BY <3>1 DEF PageInv, PageTyped, CatalogTyped
  <2> QED
    BY <2>1, <2>2 DEF A!RequestRefused, A!Discovered, A!AnalysisEnds
<1>4. /\ profile' \in [Page -> {"NONE", "QUEUED", "SUCCEEDED", "FAILED"}]
      /\ \A p \in Page : profile[p] # "NONE" => profile'[p] # "NONE"
  BY DEF A!RequestRefused, A!Delete, A!Discovered, A!AnalysisEnds, A!catalog, A!QueueAnalysis, PageInv,
     PageTyped, CatalogTyped
<1>5. /\ version' \in [Page -> Page \cup {"NONE"}]
      /\ byUrl' \subseteq {p \in Page : version'[p] # "NONE"}
      /\ byUrl \subseteq byUrl'
      /\ \A p \in Page : version[p] # "NONE" =>
            version'[p] # "NONE" /\ (p \notin byUrl => p \notin byUrl')
  <2>1. CASE UNCHANGED <<version, byUrl>>
    BY <2>1 DEF PageInv, PageTyped, CatalogTyped
  <2>2. ASSUME NEW p \in Page, NEW same \in BOOLEAN, A!Discovered(p, same)
        PROVE  /\ version' \in [Page -> Page \cup {"NONE"}]
               /\ byUrl' \subseteq {q \in Page : version'[q] # "NONE"}
               /\ byUrl \subseteq byUrl'
               /\ \A q \in Page : version[q] # "NONE" =>
                     version'[q] # "NONE" /\ (q \notin byUrl => q \notin byUrl')
    <3>1. /\ version[p] = "NONE" /\ version' = [version EXCEPT ![p] = p]
          /\ byUrl' = byUrl \/ byUrl' = byUrl \cup {p}
      BY <2>2 DEF A!Discovered
    <3>2. p # "NONE"
      BY UserWorkConstants DEF UserWorkConstants
    <3> QED
      BY <3>1, <3>2 DEF PageInv, PageTyped, CatalogTyped
  <2> QED
    BY <2>1, <2>2 DEF A!RequestRefused, A!Delete, A!AnalysisEnds, A!catalog
<1>6. PageTyped'
  BY <1>1, <1>2, <1>3, <1>4, <1>5 DEF PageInv, PageTyped, CatalogTyped, PageMessagesTyped
<1>7. Forward
  <2>1. \A p \in Page : A!NoRow # A!Gone
    BY StoredRow DEF PageInv, PageTyped
  <2> QED
    BY <1>3, <1>5, <2>1 DEF Forward
<1>8. DemandNamed'
  <2>1. \A p \in Page : ~A!Gone.demand
    BY StoredRow DEF PageInv, PageTyped
  <2> QED
    BY <1>3, <1>4, <1>5, <2>1 DEF PageInv, DemandNamed
<1>9. RequestSaw' /\ PageHeld'
  BY <1>1, <1>2, <1>7, RequestsKeep, WorkersKeep
<1>10. A!PageHasMessage'
  BY <1>1, <1>3, <1>6, PagesKeep DEF PageTyped
<1> QED
  BY <1>6, <1>8, <1>9, <1>10 DEF PageInv

-----------------------------------------------------------------------------
(* The worker *)

\* What a busy worker holds.
LEMMA PageAtWork ==
    ASSUME PageInv, NEW k \in Worker, worker[k] # A!Idle
    PROVE  /\ worker[k] \in PageWork /\ worker[k].msg \in Message /\ worker[k].seen \in PageRow
           /\ message[worker[k].msg] \in PageMessage
           /\ message[worker[k].msg].at = "INFLIGHT"
           /\ A!PageOf(k) \in Page /\ message[worker[k].msg].of = A!PageOf(k)
<1>1. A!Unsent.at = "UNSENT"
  BY DEF A!Unsent
<1>2. worker[k] \in PageWork /\ worker[k].msg \in Message /\ worker[k].seen \in PageRow
  BY DEF PageInv, PageTyped, PageWork
<1>3. message[worker[k].msg].at = "INFLIGHT"
  BY DEF PageInv, PageHeld
<1>4. message[worker[k].msg] \in PageMessage
  BY <1>1, <1>2, <1>3 DEF PageInv, PageTyped, PageMessagesTyped
<1> QED
  BY <1>2, <1>3, <1>4 DEF PageMessage, A!PageOf

\* A message of the queue: what it becomes when it is acknowledged, received or returned.
LEMMA PageMessageMoves ==
    ASSUME PageInv, NEW m \in Message, message[m] \in PageMessage
    PROVE  /\ \A a \in A!Waits \cup {"ACKED"} :
                 LET r == [of |-> message[m].of, at |-> a, receives |-> message[m].receives] IN
                 /\ r \in PageMessage
                 /\ [message EXCEPT ![m].at = a] = [message EXCEPT ![m] = r]
                 /\ [message[m] EXCEPT !.at = a] = r
           /\ message[m].receives < MaxReceive =>
                 LET r == [of |-> message[m].of, at |-> "INFLIGHT", receives |-> message[m].receives + 1] IN
                 /\ r \in PageMessage
                 /\ [message EXCEPT ![m].at = "INFLIGHT", ![m].receives = @ + 1] =
                       [message EXCEPT ![m] = r]
           /\ \A n \in 0..MaxReceive :
                 /\ A!Returned(m, n) \in PageMessage /\ A!Returned(m, n).of = message[m].of
                 /\ A!Returned(m, n).at \in A!Waits
                 /\ A!Returned(m, n).at = "WAITING" => A!Returned(m, n).receives < MaxReceive
<1>1. /\ m \in DOMAIN message /\ message = [i \in DOMAIN message |-> message[i]]
      /\ message[m] = [of |-> message[m].of, at |-> message[m].at, receives |-> message[m].receives]
      /\ message[m].of \in Page /\ message[m].receives \in 0..MaxReceive
  BY DEF PageInv, PageTyped, PageMessagesTyped, PageMessage
<1>2. ASSUME NEW a \in A!Waits \cup {"ACKED"}
      PROVE  LET r == [of |-> message[m].of, at |-> a, receives |-> message[m].receives] IN
                 /\ r \in PageMessage
                 /\ [message EXCEPT ![m].at = a] = [message EXCEPT ![m] = r]
                 /\ [message[m] EXCEPT !.at = a] = r
  BY <1>1, MessageMoved DEF PageMessage
<1>3. ASSUME message[m].receives < MaxReceive
      PROVE  LET r == [of |-> message[m].of, at |-> "INFLIGHT", receives |-> message[m].receives + 1] IN
                 /\ r \in PageMessage
                 /\ [message EXCEPT ![m].at = "INFLIGHT", ![m].receives = @ + 1] =
                       [message EXCEPT ![m] = r]
  <2>1. message[m].receives + 1 \in 0..MaxReceive
    BY <1>1, <1>3, PrivateAiConstants DEF PrivateAiConstants
  <2> QED
    BY <1>1, <2>1, MessageMoved DEF PageMessage, A!Waits
<1>4. ASSUME NEW n \in 0..MaxReceive
      PROVE  /\ A!Returned(m, n) \in PageMessage /\ A!Returned(m, n).of = message[m].of
             /\ A!Returned(m, n).at \in A!Waits
             /\ A!Returned(m, n).at = "WAITING" => A!Returned(m, n).receives < MaxReceive
  <2> DEFINE a == IF n >= MaxReceive THEN "DLQ" ELSE "WAITING"
  <2>1. a \in A!Waits /\ (a = "WAITING" => n < MaxReceive)
    BY PrivateAiConstants DEF A!Waits, PrivateAiConstants
  <2>2. A!Returned(m, n) = [message[m] EXCEPT !.at = a, !.receives = n]
    BY DEF A!Returned
  <2> HIDE DEF a
  <2>3. A!Returned(m, n) = [of |-> message[m].of, at |-> a, receives |-> n]
    BY <1>1, <2>2, MessageReturned
  <2> QED
    BY <1>1, <2>1, <2>3 DEF PageMessage
<1> QED
  BY <1>2, <1>3, <1>4

LEMMA PageReceived ==
    ASSUME PageInv, NEW k \in Worker, NEW m \in Message, A!ReceiveAndReturn(k, m) \/ A!Load(k, m)
    PROVE  PageInv'
<1> DEFINE p == message[m].of
<1>1. /\ worker[k] = A!Idle /\ message[m].at = "WAITING"
      /\ UNCHANGED <<row, profile, version, byUrl, listing, caller>>
  BY DEF A!ReceiveAndReturn, A!Load, A!catalog
<1>2. message[m] \in PageMessage /\ message[m].receives < MaxReceive /\ p \in Page
      /\ message[m].receives \in Nat
  <2>1. A!Unsent.at = "UNSENT"
    BY DEF A!Unsent
  <2>2. message[m] \in PageMessage
    BY <1>1, <2>1 DEF PageInv, PageTyped, PageMessagesTyped
  <2> QED
    BY <1>1, <2>2, PrivateAiConstants DEF PageInv, PageTyped, PageMessagesTyped, PageMessage, PrivateAiConstants
<1>3. \A j \in Worker : worker[j] # A!Idle => worker[j].msg \in Message /\ worker[j].msg # m
  BY <1>1, PageAtWork
<1>4. CatalogTyped' /\ Forward /\ DemandNamed'
  BY <1>1 DEF PageInv, PageTyped, CatalogTyped, Forward, DemandNamed
<1>5. RequestSaw'
  BY <1>1, <1>4, RequestsKeep
<1> HIDE DEF p
<1>6. ASSUME A!ReceiveAndReturn(k, m)
      PROVE  PageInv'
  <2>1. /\ ~A!Stored(p) \/ row[p].demand \/ row[p].status = "PERMANENT_FAILED"
        /\ message' = [message EXCEPT ![m] =
             IF ~A!Stored(p) THEN A!Returned(m, message[m].receives + 1) ELSE [message[m] EXCEPT !.at = "ACKED"]]
        /\ UNCHANGED worker
    BY <1>6 DEF A!ReceiveAndReturn, p
  <2>2. \E r \in PageMessage :
           /\ message' = [message EXCEPT ![m] = r] /\ r.of = p
           /\ r.at = "WAITING" => r.receives < MaxReceive
           /\ r.at \in A!Waits \/ A!Stored(p)
    <3>1. CASE ~A!Stored(p)
      <4> DEFINE r == A!Returned(m, message[m].receives + 1)
      <4>1. message[m].receives + 1 \in 0..MaxReceive
        BY <1>2, PrivateAiConstants DEF PrivateAiConstants
      <4>2. r \in PageMessage /\ r.of = p /\ r.at \in A!Waits /\ (r.at = "WAITING" => r.receives < MaxReceive)
        BY <1>2, <4>1, PageMessageMoves DEF p
      <4>3. message' = [message EXCEPT ![m] = r]
        BY <2>1, <3>1
      <4> HIDE DEF r
      <4> QED
        BY <4>2, <4>3
    <3>2. CASE A!Stored(p)
      <4> DEFINE r == [of |-> message[m].of, at |-> "ACKED", receives |-> message[m].receives]
      <4>1. r \in PageMessage /\ [message[m] EXCEPT !.at = "ACKED"] = r
        BY <1>2, PageMessageMoves
      <4>2. message' = [message EXCEPT ![m] = r]
        BY <2>1, <3>2, <4>1
      <4>3. r.of = p /\ r.at = "ACKED"
        BY DEF p
      <4> HIDE DEF r
      <4> QED
        BY <3>2, <4>1, <4>2, <4>3
    <3> QED
      BY <3>1, <3>2
  <2>3. PICK r \in PageMessage :
           /\ message' = [message EXCEPT ![m] = r] /\ r.of = p
           /\ r.at = "WAITING" => r.receives < MaxReceive
           /\ r.at \in A!Waits \/ A!Stored(p)
    BY <2>2
  <2>4. /\ PageMessagesTyped' /\ message'[m] = r
        /\ \A i \in Message : i # m => message'[i] = message[i]
    BY <2>3, PageMessageWritten DEF PageInv, PageTyped
  <2>5. PageHeld'
    <3>1. \A j \in Worker : worker'[j] # A!Idle =>
               worker'[j] = worker[j] /\ message'[worker[j].msg] = message[worker[j].msg]
      BY <1>3, <2>1, <2>4
    <3> QED
      BY <1>4, <3>1, WorkersKeep
  <2>6. A!PageHasMessage'
    <3>1. ASSUME NEW q \in Page
          PROVE  \/ /\ row'[q] = row[q]
                    /\ \A i \in Message : message[i].of = q /\ message[i].at \in A!Waits =>
                           message'[i].of = q /\ message'[i].at \in A!Waits
                 \/ row'[q] \in PageRow /\ row'[q].demand
                 \/ row'[q] \in PageRow /\ row'[q].status = "PERMANENT_FAILED"
                 \/ row'[q] = A!Gone
                 \/ \E i \in Message : message'[i].of = q /\ message'[i].at \in A!Waits
      <4>1. CASE q # p \/ r.at \in A!Waits
        BY <1>1, <1>2, <2>3, <2>4, <4>1 DEF p
      <4>2. CASE q = p /\ A!Stored(p)
        <5>1. row[p] \in PageRow
          BY <1>2, <4>2, StoredRow DEF PageInv, PageTyped
        <5> QED
          BY <1>1, <2>1, <4>2, <5>1
      <4> QED
        BY <2>3, <4>1, <4>2
    <3> QED
      BY <1>4, <3>1, PagesKeep
  <2> QED
    BY <1>1, <1>4, <1>5, <2>1, <2>4, <2>5, <2>6 DEF PageInv, PageTyped
<1>7. ASSUME A!Load(k, m)
      PROVE  PageInv'
  <2> DEFINE r == [of |-> message[m].of, at |-> "INFLIGHT", receives |-> message[m].receives + 1]
             w == [pc |-> "loaded", msg |-> m, seen |-> row[p]]
  <2>1. /\ A!Stored(p) /\ ~row[p].demand
        /\ message' = [message EXCEPT ![m].at = "INFLIGHT", ![m].receives = @ + 1]
        /\ worker' = [worker EXCEPT ![k] = w]
    BY <1>7 DEF A!Load, p
  <2>2. message' = [message EXCEPT ![m] = r] /\ r \in PageMessage
    BY <1>2, <2>1, PageMessageMoves
  <2>3. row[p] \in PageRow
    BY <1>2, <2>1, StoredRow DEF PageInv, PageTyped
  <2>4. w \in PageWork /\ w.pc = "loaded" /\ w.msg = m /\ w.seen = row[p]
    BY <2>3 DEF PageWork
  <2>5. r.at = "INFLIGHT" /\ r.of = p
    BY DEF p
  <2> HIDE DEF r, w
  <2>6. /\ PageMessagesTyped' /\ message'[m] = r
        /\ \A i \in Message : i # m => message'[i] = message[i]
    <3>1. r.at = "WAITING" => r.receives < MaxReceive
      BY <2>5
    <3> QED
      BY <2>2, <3>1, PageMessageWritten DEF PageInv, PageTyped
  <2>7. \A j \in Worker : worker'[j] = IF j = k THEN w ELSE worker[j]
    BY <2>1 DEF PageInv, PageTyped
  <2>8. worker' \in [Worker -> {A!Idle} \cup PageWork]
    BY <2>1, <2>4 DEF PageInv, PageTyped
  <2>9. PageHeld'
    <3> SUFFICES ASSUME NEW j \in Worker, worker'[j] # A!Idle
                 PROVE  /\ message'[worker'[j].msg].at = "INFLIGHT"
                        /\ \A i \in Worker : i # j /\ worker'[i] # A!Idle => worker'[i].msg # worker'[j].msg
                        /\ ~worker'[j].seen.demand
                        /\ worker'[j].pc = "fetching" => worker'[j].seen.status = "FETCHING"
                        /\ worker'[j].seen.job # "NONE" =>
                              row'[A!PageOf(j)'] = A!Gone \/ row'[A!PageOf(j)'].job # "NONE"
      BY DEF PageHeld
    <3>1. CASE j = k
      <4>1. worker'[j] = w /\ message'[worker'[j].msg] = r /\ A!PageOf(j)' = p
        BY <2>4, <2>5, <2>6, <2>7, <3>1 DEF A!PageOf
      <4>2. \A i \in Worker : i # j /\ worker'[i] # A!Idle => worker'[i].msg # worker'[j].msg
        BY <1>3, <2>4, <2>7, <3>1, <4>1
      <4> QED
        BY <1>1, <2>1, <2>4, <2>5, <4>1, <4>2
    <3>2. CASE j # k
      <4>1. worker'[j] = worker[j] /\ worker[j] # A!Idle
        BY <2>7, <3>2
      <4>2. message'[worker[j].msg] = message[worker[j].msg] /\ worker[j].msg # m
        BY <1>3, <2>6, <4>1
      <4>3. A!PageOf(j)' = A!PageOf(j)
        BY <4>1, <4>2 DEF A!PageOf
      <4>4. \A i \in Worker : i # j /\ worker'[i] # A!Idle => worker'[i].msg # worker'[j].msg
        BY <2>4, <2>7, <4>1, <4>2 DEF PageInv, PageHeld
      <4> QED
        BY <1>1, <4>1, <4>2, <4>3, <4>4 DEF PageInv, PageHeld
    <3> QED
      BY <3>1, <3>2
  <2>10. A!PageHasMessage'
    <3>1. \A q \in Page : \A i \in Message : message[i].of = q /\ message[i].at \in A!Waits =>
              message'[i].of = q /\ message'[i].at \in A!Waits
      BY <2>5, <2>6 DEF A!Waits, p
    <3> QED
      BY <1>1, <1>4, <3>1, PagesKeep
  <2> QED
    BY <1>1, <1>4, <1>5, <2>6, <2>8, <2>9, <2>10 DEF PageInv, PageTyped
<1> QED
  BY <1>6, <1>7

\* A worker ends with its message acknowledged or returned; its page is done or waits on.
LEMMA PageWorkerDone ==
    ASSUME PageInv, NEW k \in Worker, worker[k] # A!Idle,
           NEW r \in PageMessage, r.of = A!PageOf(k), r.at = "WAITING" => r.receives < MaxReceive,
           message' = [message EXCEPT ![worker[k].msg] = r],
           worker' = [worker EXCEPT ![k] = A!Idle],
           UNCHANGED caller,
           CatalogTyped', Forward, DemandNamed',
           \A q \in Page : q # A!PageOf(k) => row'[q] = row[q],
           \/ r.at \in A!Waits
           \/ /\ row'[A!PageOf(k)] \in PageRow
              /\ row'[A!PageOf(k)].demand \/ row'[A!PageOf(k)].status = "PERMANENT_FAILED"
    PROVE  PageInv'
<1> DEFINE m == worker[k].msg
           p == A!PageOf(k)
<1>1. m \in Message /\ message[m].of = p /\ p \in Page
  BY PageAtWork
<1>2. /\ PageMessagesTyped' /\ message'[m] = r
      /\ \A i \in Message : i # m => message'[i] = message[i]
  <2> HIDE DEF m
  <2>1. message' = [message EXCEPT ![m] = r]
    BY DEF m
  <2> QED
    BY <1>1, <2>1, PageMessageWritten DEF PageInv, PageTyped
<1>3. \A j \in Worker : worker'[j] = IF j = k THEN A!Idle ELSE worker[j]
  BY DEF PageInv, PageTyped
<1>4. worker' \in [Worker -> {A!Idle} \cup PageWork]
  BY DEF PageInv, PageTyped
<1>5. PageHeld'
  <2>1. ASSUME NEW j \in Worker, worker'[j] # A!Idle
        PROVE  worker'[j] = worker[j] /\ message'[worker[j].msg] = message[worker[j].msg]
    <3>1. j # k /\ worker'[j] = worker[j]
      BY <1>3, <2>1
    <3>2. worker[j].msg # m /\ worker[j].msg \in Message
      BY <2>1, <3>1, PageAtWork DEF PageInv, PageHeld
    <3> QED
      BY <1>2, <3>1, <3>2
  <2> QED
    BY <2>1, WorkersKeep
<1>6. RequestSaw'
  BY RequestsKeep
<1>7. A!PageHasMessage'
  <2>1. ASSUME NEW q \in Page
        PROVE  \/ /\ row'[q] = row[q]
                  /\ \A i \in Message : message[i].of = q /\ message[i].at \in A!Waits =>
                         message'[i].of = q /\ message'[i].at \in A!Waits
               \/ row'[q] \in PageRow /\ row'[q].demand
               \/ row'[q] \in PageRow /\ row'[q].status = "PERMANENT_FAILED"
               \/ row'[q] = A!Gone
               \/ \E i \in Message : message'[i].of = q /\ message'[i].at \in A!Waits
    <3>1. CASE q # p
      BY <1>1, <1>2, <3>1
    <3>2. CASE q = p
      BY <1>1, <1>2, <3>2
    <3> QED
      BY <3>1, <3>2
  <2> QED
    BY <2>1, PagesKeep
<1> QED
  BY <1>2, <1>4, <1>5, <1>6, <1>7 DEF PageInv, PageTyped

\* What a worker writes into the row of its page.
LEMMA PageRowWritten ==
    ASSUME PageInv, NEW k \in Worker, worker[k] # A!Idle, A!Stored(A!PageOf(k)),
           NEW new \in PageRow,
           worker[k].seen.job # "NONE" => new.job # "NONE",
           new.demand => new.job # "NONE",
           row' = [row EXCEPT ![A!PageOf(k)] = A!Write(worker[k].seen, new, @)]
    PROVE  /\ row' \in [Page -> PageRow \cup {A!NoRow, A!Gone}]
           /\ \A q \in Page : q # A!PageOf(k) => row'[q] = row[q]
           /\ row'[A!PageOf(k)] \in PageRow
           /\ row[A!PageOf(k)].job # "NONE" => row'[A!PageOf(k)].job # "NONE"
           /\ row[A!PageOf(k)].demand => row'[A!PageOf(k)].demand
           /\ row'[A!PageOf(k)].demand <=> new.demand \/ row[A!PageOf(k)].demand
           /\ new.demand => row'[A!PageOf(k)].job # "NONE"
           /\ new.status # worker[k].seen.status => row'[A!PageOf(k)].status = new.status
<1> DEFINE p == A!PageOf(k)
           seen == worker[k].seen
<1>1. p \in Page /\ seen \in PageRow
  BY PageAtWork
<1>2. ~seen.demand /\ (seen.job # "NONE" => row[p] = A!Gone \/ row[p].job # "NONE")
  BY DEF PageInv, PageHeld
<1>3. row[p] \in PageRow /\ row[p] # A!Gone
  BY <1>1, StoredRow DEF PageInv, PageTyped
<1>4. row' = [row EXCEPT ![p] = A!Write(seen, new, row[p])]
  OBVIOUS
<1> HIDE DEF p, seen
<1>5. /\ A!Write(seen, new, row[p]) \in PageRow
      /\ A!Write(seen, new, row[p]).status = IF new.status # seen.status THEN new.status ELSE row[p].status
      /\ A!Write(seen, new, row[p]).demand = IF new.demand # seen.demand THEN new.demand ELSE row[p].demand
      /\ A!Write(seen, new, row[p]).job = IF new.job # seen.job THEN new.job ELSE row[p].job
  BY <1>1, <1>3, ColumnsWritten
<1>6. /\ row'[p] = A!Write(seen, new, row[p])
      /\ \A q \in Page : q # p => row'[q] = row[q]
  BY <1>1, <1>4 DEF PageInv, PageTyped, CatalogTyped
<1>7. row' \in [Page -> PageRow \cup {A!NoRow, A!Gone}]
  BY <1>1, <1>4, <1>5 DEF PageInv, PageTyped, CatalogTyped
<1>8. row'[p].demand <=> new.demand \/ row[p].demand
  <2>1. new.demand \in BOOLEAN /\ seen.demand = FALSE /\ row[p].demand \in BOOLEAN
    BY <1>1, <1>2, <1>3 DEF PageRow
  <2>2. CASE new.demand = TRUE
    BY <1>5, <1>6, <2>1, <2>2
  <2>3. CASE new.demand = FALSE
    BY <1>5, <1>6, <2>1, <2>3
  <2> QED
    BY <2>1, <2>2, <2>3
<1>9. (row[p].job # "NONE" \/ new.demand) => row'[p].job # "NONE"
  <2>1. seen.job # "NONE" => new.job # "NONE"
    BY DEF seen
  <2>2. CASE new.job # seen.job
    BY <1>2, <1>3, <1>5, <1>6, <2>1, <2>2 DEF p, seen
  <2>3. CASE new.job = seen.job
    BY <1>2, <1>3, <1>5, <1>6, <2>1, <2>3
  <2> QED
    BY <2>2, <2>3
<1>10. new.status # seen.status => row'[p].status = new.status
  BY <1>5, <1>6
<1> QED
  BY <1>5, <1>6, <1>7, <1>8, <1>9, <1>10 DEF p, seen

\* A write of a row leaves what others have read of it, if the catalog moves forward too.
LEMMA PageRowForward ==
    ASSUME PageInv, NEW p \in Page, A!Stored(p),
           \A q \in Page : q # p => row'[q] = row[q],
           row'[p] \in PageRow,
           row[p].job # "NONE" => row'[p].job # "NONE",
           row[p].demand => row'[p].demand,
           byUrl \subseteq byUrl',
           \A q \in Page : version[q] # "NONE" =>
               version'[q] # "NONE" /\ (q \notin byUrl => q \notin byUrl')
    PROVE  Forward
<1>1. row[p] # A!Gone /\ A!NoRow \notin PageRow
  BY StoredRow DEF A!Stored, PageInv, PageTyped
<1> QED
  BY <1>1 DEF Forward

LEMMA PageFetching ==
    ASSUME PageInv, NEW k \in Worker, A!CommitFetching(k)
    PROVE  PageInv'
<1> DEFINE p == A!PageOf(k)
           seen == worker[k].seen
           new == [seen EXCEPT !.status = "FETCHING"]
           w == [pc |-> "fetching", msg |-> worker[k].msg, seen |-> new]
<1>1. /\ worker[k].pc = "loaded" /\ A!Stored(p)
      /\ row' = [row EXCEPT ![p] = A!Write(seen, new, @)]
      /\ worker' = [worker EXCEPT ![k].pc = "fetching", ![k].seen = new]
      /\ UNCHANGED <<profile, version, byUrl, listing, message, caller>>
  BY DEF A!CommitFetching, A!catalog
<1>2. worker[k] # A!Idle
  BY <1>1 DEF A!Idle
<1>3. /\ worker[k] \in PageWork /\ worker[k].msg \in Message /\ seen \in PageRow /\ p \in Page
      /\ message[worker[k].msg].at = "INFLIGHT" /\ message[worker[k].msg].of = p
  BY <1>2, PageAtWork
<1>4. new \in PageRow /\ new.status = "FETCHING" /\ new.demand = seen.demand /\ new.job = seen.job
  BY <1>3 DEF PageRow, A!RowStatus
<1>5. ~seen.demand
  BY <1>2 DEF PageInv, PageHeld
<1>6. worker' = [worker EXCEPT ![k] = w]
  <2>1. [worker[k] EXCEPT !.pc = "fetching", !.seen = new] = w
    <3> HIDE DEF new
    <3> DEFINE half == [pc |-> "fetching", msg |-> worker[k].msg, seen |-> worker[k].seen]
    <3>1. [worker[k] EXCEPT !.pc = "fetching"] = half
      BY <1>3 DEF PageWork
    <3>2. [half EXCEPT !.seen = new] = w
      OBVIOUS
    <3>3. [worker[k] EXCEPT !.pc = "fetching", !.seen = new] =
             [[worker[k] EXCEPT !.pc = "fetching"] EXCEPT !.seen = new]
      OBVIOUS
    <3> HIDE DEF half, w
    <3> QED
      BY <3>1, <3>2, <3>3
  <2>2. worker' = [worker EXCEPT ![k] = [worker[k] EXCEPT !.pc = "fetching", !.seen = new]]
    <3> HIDE DEF new
    <3>1. worker \in [Worker -> {A!Idle} \cup PageWork]
      BY DEF PageInv, PageTyped
    <3>2. worker' \in [Worker -> {A!Idle} \cup PageWork \cup {worker'[k]}] /\ worker'[k] = [worker[k] EXCEPT !.pc = "fetching", !.seen = new]
      BY <1>1, <3>1
    <3> QED
      BY <1>1, <3>1, <3>2
  <2> HIDE DEF new, w
  <2> QED
    BY <2>1, <2>2
<1>7. w \in PageWork /\ w.pc = "fetching" /\ w.msg = worker[k].msg /\ w.seen = new
  BY <1>3, <1>4 DEF PageWork
<1> HIDE DEF w, new
<1>8. /\ row' \in [Page -> PageRow \cup {A!NoRow, A!Gone}]
      /\ \A q \in Page : q # p => row'[q] = row[q]
      /\ row'[p] \in PageRow
      /\ row[p].job # "NONE" => row'[p].job # "NONE"
      /\ row'[p].demand <=> row[p].demand
  <2>1. /\ seen.job # "NONE" => new.job # "NONE"
        /\ new.demand => new.job # "NONE"
    BY <1>4, <1>5
  <2> QED
    BY <1>1, <1>2, <1>4, <1>5, <2>1, PageRowWritten
<1>9. CatalogTyped' /\ Forward
  BY <1>1, <1>3, <1>8, PageRowForward DEF PageInv, PageTyped, CatalogTyped
<1>10. DemandNamed'
  BY <1>1, <1>8 DEF PageInv, DemandNamed
<1>11. RequestSaw'
  BY <1>1, <1>9, RequestsKeep
<1>12. \A j \in Worker : worker'[j] = IF j = k THEN w ELSE worker[j]
  BY <1>6 DEF PageInv, PageTyped
<1>13. worker' \in [Worker -> {A!Idle} \cup PageWork]
  BY <1>6, <1>7 DEF PageInv, PageTyped
<1>14. PageHeld'
  <2> SUFFICES ASSUME NEW j \in Worker, worker'[j] # A!Idle
               PROVE  /\ message[worker'[j].msg].at = "INFLIGHT"
                      /\ \A i \in Worker : i # j /\ worker'[i] # A!Idle => worker'[i].msg # worker'[j].msg
                      /\ ~worker'[j].seen.demand
                      /\ worker'[j].pc = "fetching" => worker'[j].seen.status = "FETCHING"
                      /\ worker'[j].seen.job # "NONE" =>
                            row'[A!PageOf(j)'] = A!Gone \/ row'[A!PageOf(j)'].job # "NONE"
    BY <1>1 DEF PageHeld
  <2>1. worker[j] # A!Idle /\ worker'[j].msg = worker[j].msg /\ worker'[j].seen.job = worker[j].seen.job
    BY <1>2, <1>4, <1>7, <1>12
  <2>2. \A i \in Worker : worker'[i] # A!Idle => worker[i] # A!Idle /\ worker'[i].msg = worker[i].msg
    BY <1>2, <1>7, <1>12
  <2>3. ~worker'[j].seen.demand /\ (worker'[j].pc = "fetching" => worker'[j].seen.status = "FETCHING")
    <3>1. CASE j = k
      BY <1>4, <1>5, <1>7, <1>12, <3>1
    <3>2. CASE j # k
      BY <1>12, <2>1, <3>2 DEF PageInv, PageHeld
    <3> QED
      BY <3>1, <3>2
  <2>4. A!PageOf(j)' = A!PageOf(j) /\ A!PageOf(j) \in Page
    BY <1>1, <2>1, PageAtWork DEF A!PageOf
  <2> QED
    BY <1>9, <2>1, <2>2, <2>3, <2>4 DEF PageInv, PageHeld, Forward
<1>15. A!PageHasMessage'
  <2>1. message'[worker[k].msg].of = p /\ message'[worker[k].msg].at \in A!Waits
    BY <1>1, <1>3 DEF A!Waits
  <2>2. \A q \in Page : q # p => row'[q] = row[q]
    BY <1>8
  <2> QED
    BY <1>1, <1>3, <1>9, <2>1, <2>2, PagesKeep
<1> QED
  BY <1>1, <1>9, <1>10, <1>11, <1>13, <1>14, <1>15 DEF PageInv, PageTyped, PageMessagesTyped

LEMMA PageAcked ==
    ASSUME PageInv, NEW k \in Worker, worker[k] # A!Idle, A!Ack(k)
    PROVE  \E r \in PageMessage :
              /\ r.of = A!PageOf(k) /\ r.at = "ACKED"
              /\ message' = [message EXCEPT ![worker[k].msg] = r]
<1> DEFINE m == worker[k].msg
           r == [of |-> message[m].of, at |-> "ACKED", receives |-> message[m].receives]
<1>1. m \in Message /\ message[m] \in PageMessage
  BY PageAtWork
<1>2. message' = [message EXCEPT ![m].at = "ACKED"]
  BY DEF A!Ack
<1>3. r.of = A!PageOf(k) /\ r.at = "ACKED"
  BY DEF A!PageOf
<1> HIDE DEF m
<1>4. r \in PageMessage /\ message' = [message EXCEPT ![m] = r]
  BY <1>1, <1>2, PageMessageMoves
<1> HIDE DEF r
<1> QED
  BY <1>3, <1>4 DEF m

LEMMA PageRaised ==
    ASSUME PageInv, NEW k \in Worker, worker[k] # A!Idle, A!Raise(k)
    PROVE  \E r \in PageMessage :
              /\ r.of = A!PageOf(k) /\ r.at \in A!Waits
              /\ r.at = "WAITING" => r.receives < MaxReceive
              /\ message' = [message EXCEPT ![worker[k].msg] = r]
<1> DEFINE m == worker[k].msg
           r == A!Returned(m, message[m].receives)
<1>1. m \in Message /\ message[m] \in PageMessage /\ message[m].receives \in 0..MaxReceive
  BY PageAtWork DEF PageMessage
<1>2. message' = [message EXCEPT ![m] = r]
  BY DEF A!Raise
<1>3. A!PageOf(k) = message[m].of
  BY DEF A!PageOf
<1> HIDE DEF m
<1>4. r \in PageMessage /\ r.of = message[m].of /\ r.at \in A!Waits /\ (r.at = "WAITING" => r.receives < MaxReceive)
  BY <1>1, PageMessageMoves
<1> HIDE DEF r
<1> QED
  BY <1>2, <1>3, <1>4 DEF m

LEMMA PageFailed ==
    ASSUME PageInv, NEW k \in Worker,
           A!Dies(k) \/ \E s \in A!FetchErrors : A!FetchFails(k, s)
    PROVE  PageInv'
<1>1. worker[k] # A!Idle /\ UNCHANGED <<profile, version, byUrl, listing, caller>>
  <2>1. A!Idle.pc = "idle"
    BY DEF A!Idle
  <2>2. CASE A!Dies(k)
    BY <2>2 DEF A!Dies, A!catalog
  <2>3. ASSUME NEW s \in A!FetchErrors, A!FetchFails(k, s)
        PROVE  worker[k] # A!Idle /\ UNCHANGED <<profile, version, byUrl, listing, caller>>
    BY <2>1, <2>3 DEF A!FetchFails, A!catalog
  <2> QED
    BY <2>2, <2>3
<1>2. worker' = [worker EXCEPT ![k] = A!Idle]
  BY DEF A!Dies, A!FetchFails, A!Ack, A!Raise
<1>3. ASSUME A!Dies(k)
      PROVE  PageInv'
  <2>1. UNCHANGED row /\ A!Raise(k)
    BY <1>3 DEF A!Dies
  <2>2. CatalogTyped' /\ Forward /\ DemandNamed'
    BY <1>1, <2>1 DEF PageInv, PageTyped, CatalogTyped, Forward, DemandNamed
  <2>3. PICK r \in PageMessage :
              /\ r.of = A!PageOf(k) /\ r.at \in A!Waits
              /\ r.at = "WAITING" => r.receives < MaxReceive
              /\ message' = [message EXCEPT ![worker[k].msg] = r]
    BY <1>1, <2>1, PageRaised
  <2> QED
    BY <1>1, <1>2, <2>1, <2>2, <2>3, PageWorkerDone
<1>4. ASSUME NEW s \in A!FetchErrors, A!FetchFails(k, s)
      PROVE  PageInv'
  <2> DEFINE p == A!PageOf(k)
             seen == worker[k].seen
             new == [seen EXCEPT !.status = s]
  <2>1. /\ worker[k].pc = "fetching" /\ A!Stored(p)
        /\ row' = [row EXCEPT ![p] = A!Write(seen, new, @)]
        /\ IF s = "RETRYABLE_FAILED" THEN A!Raise(k) ELSE A!Ack(k)
    BY <1>4 DEF A!FetchFails
  <2>2. seen \in PageRow /\ p \in Page
    BY <1>1, PageAtWork
  <2>3. ~seen.demand /\ seen.status = "FETCHING"
    BY <1>1, <2>1 DEF PageInv, PageHeld
  <2>4. new \in PageRow /\ new.status = s /\ new.demand = seen.demand /\ new.job = seen.job
    BY <2>2 DEF PageRow, A!RowStatus, A!FetchErrors
  <2> HIDE DEF new
  <2>5. /\ row' \in [Page -> PageRow \cup {A!NoRow, A!Gone}]
        /\ \A q \in Page : q # p => row'[q] = row[q]
        /\ row'[p] \in PageRow
        /\ row[p].job # "NONE" => row'[p].job # "NONE"
        /\ row'[p].demand <=> row[p].demand
        /\ row'[p].status = s
    <3>1. /\ seen.job # "NONE" => new.job # "NONE"
          /\ new.demand => new.job # "NONE"
          /\ new.status # seen.status
      BY <2>3, <2>4 DEF A!FetchErrors
    <3> QED
      BY <1>1, <2>1, <2>3, <2>4, <3>1, PageRowWritten
  <2>6. CatalogTyped' /\ Forward
    BY <1>1, <2>1, <2>2, <2>5, PageRowForward DEF PageInv, PageTyped, CatalogTyped
  <2>7. DemandNamed'
    BY <1>1, <2>5 DEF PageInv, DemandNamed
  <2>8. PICK r \in PageMessage :
              /\ r.of = A!PageOf(k) /\ (s = "PERMANENT_FAILED" \/ r.at \in A!Waits)
              /\ r.at = "WAITING" => r.receives < MaxReceive
              /\ message' = [message EXCEPT ![worker[k].msg] = r]
    <3>1. CASE s = "RETRYABLE_FAILED"
      BY <1>1, <2>1, <3>1, PageRaised
    <3>2. CASE s = "PERMANENT_FAILED"
      BY <1>1, <2>1, <3>2, PageAcked
    <3> QED
      BY <3>1, <3>2 DEF A!FetchErrors
  <2> QED
    BY <1>1, <1>2, <2>5, <2>6, <2>7, <2>8, PageWorkerDone
<1> QED
  BY <1>3, <1>4

LEMMA PageAnalysed ==
    ASSUME PageInv, NEW k \in Worker, A!Analysed(k)
    PROVE  PageInv'
<1> DEFINE p == A!PageOf(k)
           job == A!JobOf(p)
           new == [status |-> "ANALYSIS_QUEUED", demand |-> TRUE, job |-> job]
<1>1. /\ worker[k].pc = "fetching" /\ A!Stored(p)
      /\ listing' = [listing EXCEPT ![A!ExternalId(p)] = job]
      /\ version' = [version EXCEPT ![p] = IF version[p] = "NONE" THEN job ELSE version[p]]
      /\ byUrl' = IF version[p] = "NONE" THEN byUrl \cup {p} ELSE byUrl
      /\ A!QueueAnalysis(p)
      /\ row' = [row EXCEPT ![p] = A!Write(worker[k].seen, new, @)]
      /\ A!Ack(k)
      /\ UNCHANGED caller
  BY DEF A!Analysed
<1>2. worker[k] # A!Idle
  BY <1>1 DEF A!Idle
<1>3. p \in Page
  BY <1>2, PageAtWork
<1>4. job \in Page /\ job # "NONE"
  <2>1. A!ExternalId(p) \in A!ExternalIds
    BY <1>3 DEF A!ExternalIds
  <2> QED
    BY <1>3, <2>1, UserWorkConstants DEF A!JobOf, PageInv, PageTyped, CatalogTyped, UserWorkConstants
<1> HIDE DEF p, job
<1>5. new \in PageRow /\ new.demand = TRUE /\ new.job = job
  BY <1>4 DEF PageRow, A!RowStatus
<1> HIDE DEF new
<1>6. /\ row' \in [Page -> PageRow \cup {A!NoRow, A!Gone}]
      /\ \A q \in Page : q # p => row'[q] = row[q]
      /\ row'[p] \in PageRow /\ row'[p].demand /\ row'[p].job # "NONE"
  BY <1>1, <1>2, <1>4, <1>5, PageRowWritten DEF p
<1>7. /\ version' \in [Page -> Page \cup {"NONE"}]
      /\ byUrl' \subseteq {q \in Page : version'[q] # "NONE"}
      /\ byUrl \subseteq byUrl'
      /\ version'[p] # "NONE"
      /\ \A q \in Page : version[q] # "NONE" =>
               version'[q] # "NONE" /\ (q \notin byUrl => q \notin byUrl')
  BY <1>1, <1>3, <1>4 DEF PageInv, PageTyped, CatalogTyped
<1>8. listing' \in [A!ExternalIds -> Page \cup {"NONE"}]
  BY <1>1, <1>4 DEF PageInv, PageTyped, CatalogTyped
<1>9. /\ profile' \in [Page -> {"NONE", "QUEUED", "SUCCEEDED", "FAILED"}]
      /\ \A q \in Page : profile[q] # "NONE" => profile'[q] # "NONE"
      /\ profile'[p] # "NONE"
  BY <1>1, <1>3 DEF PageInv, PageTyped, CatalogTyped, A!QueueAnalysis
<1>10. CatalogTyped' /\ Forward
  <2>1. CatalogTyped'
    BY <1>6, <1>7, <1>8, <1>9 DEF CatalogTyped
  <2>2. A!Stored(p)
    BY <1>1
  <2> QED
    BY <1>3, <1>6, <1>7, <2>1, <2>2, PageRowForward
<1>11. DemandNamed'
  BY <1>3, <1>6, <1>7, <1>9 DEF PageInv, DemandNamed
<1>12. PICK r \in PageMessage :
              /\ r.of = A!PageOf(k) /\ r.at = "ACKED"
              /\ message' = [message EXCEPT ![worker[k].msg] = r]
  BY <1>1, <1>2, PageAcked
<1>13. worker' = [worker EXCEPT ![k] = A!Idle]
  BY <1>1 DEF A!Ack
<1> QED
  BY <1>1, <1>2, <1>6, <1>10, <1>11, <1>12, <1>13, PageWorkerDone DEF p

LEMMA PageStep == PageInv /\ [A!Next]_(A!vars) => PageInv'
<1> SUFFICES ASSUME PageInv, [A!Next]_(A!vars)
             PROVE  PageInv'
  OBVIOUS
<1>1. CASE UNCHANGED A!vars
  BY <1>1 DEF A!vars, PageInv, PageTyped, CatalogTyped, PageMessagesTyped, DemandNamed, PageHeld,
     RequestSaw, A!PageOf, A!PageHasMessage, A!Stored
<1>2. CASE A!Next
  <2>1. ASSUME NEW c \in Caller, NEW p \in Page, A!Find(c, p)
        PROVE  PageInv'
    BY <2>1, PageFound
  <2>2. ASSUME NEW c \in Caller, A!CommitRequest(c)
        PROVE  PageInv'
    BY <2>2, PageCommitted
  <2>3. ASSUME NEW c \in Caller, A!RequestRefused(c)
        PROVE  PageInv'
    BY <2>3, PageElsewhere
  <2>4. ASSUME NEW p \in Page, A!Delete(p)
        PROVE  PageInv'
    BY <2>4, PageElsewhere
  <2>5. ASSUME NEW p \in Page, NEW same \in BOOLEAN, A!Discovered(p, same)
        PROVE  PageInv'
    BY <2>5, PageElsewhere
  <2>6. ASSUME NEW p \in Page, NEW s \in {"SUCCEEDED", "FAILED"}, A!AnalysisEnds(p, s)
        PROVE  PageInv'
    BY <2>6, PageElsewhere
  <2>7. ASSUME NEW k \in Worker, NEW m \in Message, A!ReceiveAndReturn(k, m) \/ A!Load(k, m)
        PROVE  PageInv'
    BY <2>7, PageReceived
  <2>8. ASSUME NEW k \in Worker, A!CommitFetching(k)
        PROVE  PageInv'
    BY <2>8, PageFetching
  <2>9. ASSUME NEW k \in Worker, A!Analysed(k)
        PROVE  PageInv'
    BY <2>9, PageAnalysed
  <2>10. ASSUME NEW k \in Worker, A!Dies(k)
        PROVE  PageInv'
    BY <2>10, PageFailed
  <2>11. ASSUME NEW k \in Worker, NEW s \in A!FetchErrors, A!FetchFails(k, s)
        PROVE  PageInv'
    BY <2>11, PageFailed
  <2> QED
    BY <1>2, <2>1, <2>2, <2>3, <2>4, <2>5, <2>6, <2>7, <2>8, <2>9, <2>10, <2>11 DEF A!Next
<1> QED
  BY <1>1, <1>2

LEMMA PageTypes == PageInv => A!TypeOK
<1> SUFFICES ASSUME PageInv
             PROVE  A!TypeOK
  OBVIOUS
<1>1. \A p \in Page :
          /\ row[p] \in {A!NoRow, A!Gone} \/ row[p] \in PageRow
          /\ row[p].demand => profile[p] # "NONE" /\ row[p].job # "NONE"
  BY DEF PageInv, PageTyped, CatalogTyped, DemandNamed
<1>2. \A m \in Message : message[m] = A!Unsent \/ message[m] \in PageMessage
  BY DEF PageInv, PageTyped, PageMessagesTyped
<1>3. \A k \in Worker : worker[k] = A!Idle \/ worker[k].pc \in {"loaded", "fetching"}
  BY DEF PageInv, PageTyped, PageWork
<1>4. \A c \in Caller : caller[c] = A!NoCall \/ caller[c].pc = "commit"
  BY DEF PageInv, PageTyped, PageCall
<1> QED
  BY <1>1, <1>2, <1>3, <1>4 DEF PageInv, PageTyped, CatalogTyped, PageRow, PageMessage, A!TypeOK

-----------------------------------------------------------------------------
(* WatchExpansion *)

OperationStatus == {"NONE", "RUNNING", "SUCCEEDED", "CANCELLED",
                    "RETRYABLE_FAILED", "PERMANENT_FAILED", "DEGRADED_FAILED"}
AtWork  == [pc : {"loaded", "calling", "storing", "cancelling"}, msg : Events,
            was : OperationStatus]
ExpansionMessage == [of : W!Criteria, at : W!Waits \cup {"ACKED"}, receives : 0..MaxReceive]

ExpansionTyped ==
    /\ criteria \in W!Criteria /\ expansion \in W!Criteria \cup {W!None}
    /\ operation \in [W!Criteria -> OperationStatus]
    /\ message = [m \in Events |-> message[m]]
    /\ \A m \in Events : message[m] = W!Unsent \/ message[m] \in ExpansionMessage
    /\ \A m \in Events : message[m].at = "WAITING" => message[m].receives < MaxReceive
    /\ worker \in [Worker -> {W!Idle} \cup AtWork]
    /\ caller \in [Caller -> {W!NoCall} \cup
           [pc : {"put"}, seen : W!Criteria, had : W!Criteria \cup {W!None}, new : W!Criteria]]
    /\ raced \in BOOLEAN /\ crossed \subseteq Worker

\* A worker has its message to itself.
HeldAlone ==
    \A k \in Worker : worker[k] # W!Idle =>
        /\ message[worker[k].msg].at = "INFLIGHT"
        /\ \A j \in Worker : j # k /\ worker[j] # W!Idle => worker[j].msg # worker[k].msg

\* What a worker decided on with its second look at the criteria still holds when it
\* commits, unless a request fell in between.
SecondLook ==
    \A k \in Worker \ crossed :
        /\ worker[k].pc = "storing" => W!HashOf(k) = criteria
        /\ worker[k].pc = "cancelling" => W!HashOf(k) # criteria

\* A message whose worker is about to drop it does not count.
OwedByOthers ==
    \/ raced \/ expansion = criteria \/ operation[criteria] = "DEGRADED_FAILED"
    \/ \E m \in Events :
          /\ message[m].of = criteria /\ message[m].at \in W!Waits
          /\ \A k \in Worker : worker[k].pc = "cancelling" => worker[k].msg # m

ExpansionInv == ExpansionTyped /\ HeldAlone /\ SecondLook /\ OwedByOthers

-----------------------------------------------------------------------------
LEMMA ExpansionInit == W!Init => ExpansionInv
<1> SUFFICES ASSUME W!Init
             PROVE  ExpansionInv
  OBVIOUS
<1> USE UserWorkConstants, PrivateAiConstants DEF UserWorkConstants, PrivateAiConstants
<1>1. First \in W!Criteria
  <2>1. \E c \in [terms : Terms, places : Places] : TRUE
    <3>1. PICK t \in Terms, p \in Places : TRUE
      OBVIOUS
    <3>2. [terms |-> t, places |-> p] \in [terms : Terms, places : Places]
      OBVIOUS
    <3> QED
      BY <3>2
  <2> QED
    BY <2>1 DEF First, W!Criteria
<1>2. PICK m \in Events : message = [n \in Events |->
          IF n = m THEN [of |-> First, at |-> "WAITING", receives |-> 0] ELSE W!Unsent]
  BY DEF W!Init
<1>3. message[m] = [of |-> First, at |-> "WAITING", receives |-> 0]
  BY <1>2
<1>4. \A n \in Events : n # m => message[n] = W!Unsent
  BY <1>2
<1>5. message[m] \in ExpansionMessage /\ W!Unsent.at = "UNSENT" /\ message[m].receives < MaxReceive
  BY <1>1, <1>3 DEF ExpansionMessage, W!Waits, W!Unsent
<1>6. W!Idle.pc = "idle"
  BY DEF W!Idle
<1>7. ExpansionTyped
  <2>1. operation \in [W!Criteria -> OperationStatus]
    BY DEF W!Init, OperationStatus
  <2>2. /\ \A n \in Events : message[n] = W!Unsent \/ message[n] \in ExpansionMessage
        /\ \A n \in Events : message[n].at = "WAITING" => message[n].receives < MaxReceive
    BY <1>4, <1>5
  <2>3. message = [n \in Events |-> message[n]]
    BY <1>2
  <2>4. worker \in [Worker -> {W!Idle} \cup AtWork] /\ raced \in BOOLEAN /\ crossed \subseteq Worker
    BY DEF W!Init
  <2>5. caller \in [Caller -> {W!NoCall} \cup
           [pc : {"put"}, seen : W!Criteria, had : W!Criteria \cup {W!None}, new : W!Criteria]]
    BY DEF W!Init
  <2> QED
    BY <1>1, <2>1, <2>2, <2>3, <2>4, <2>5 DEF ExpansionTyped, W!Init
<1>8. HeldAlone /\ SecondLook
  BY <1>6 DEF W!Init, HeldAlone, SecondLook
<1>9. OwedByOthers
  BY <1>3, <1>6 DEF W!Init, OwedByOthers, W!Waits
<1> QED
  BY <1>7, <1>8, <1>9 DEF ExpansionInv

\* One message and its worker move, the rest stay.
LEMMA MessageWritten ==
    ASSUME ExpansionTyped, NEW m \in Events, NEW r \in ExpansionMessage,
           r.at = "WAITING" => r.receives < MaxReceive,
           message' = [message EXCEPT ![m] = r]
    PROVE  /\ message' = [i \in Events |-> message'[i]]
           /\ \A i \in Events : message'[i] = W!Unsent \/ message'[i] \in ExpansionMessage
           /\ \A i \in Events : message'[i].at = "WAITING" => message'[i].receives < MaxReceive
           /\ message'[m] = r
           /\ \A i \in Events : i # m => message'[i] = message[i]
<1>1. message'[m] = r /\ \A i \in Events : i # m => message'[i] = message[i]
  BY DEF ExpansionTyped
<1>2. message' = [i \in Events |-> message'[i]]
  BY DEF ExpansionTyped
<1> QED
  BY <1>1, <1>2 DEF ExpansionTyped

\* What a busy worker holds.
LEMMA HeldMessage ==
    ASSUME ExpansionInv, NEW k \in Worker, worker[k].pc # "idle"
    PROVE  /\ worker[k] \in AtWork /\ worker[k] # W!Idle
           /\ worker[k].msg \in Events
           /\ message[worker[k].msg] \in ExpansionMessage
           /\ message[worker[k].msg].at = "INFLIGHT"
           /\ W!HashOf(k) \in W!Criteria
<1>1. W!Idle.pc = "idle" /\ W!Unsent.at = "UNSENT"
  BY DEF W!Idle, W!Unsent
<1>2. worker[k] \in AtWork /\ worker[k] # W!Idle
  BY <1>1 DEF ExpansionInv, ExpansionTyped
<1>3. worker[k].msg \in Events
  BY <1>2 DEF AtWork
<1> QED
  BY <1>1, <1>2, <1>3 DEF ExpansionInv, ExpansionTyped, HeldAlone, ExpansionMessage, W!HashOf

\* A worker returns to idle with its message moved on: the other workers keep theirs.
LEMMA WorkerDone ==
    ASSUME ExpansionInv, NEW k \in Worker, worker[k].pc # "idle", NEW a \in W!Waits \cup {"ACKED"},
           a = "WAITING" => message[worker[k].msg].receives < MaxReceive,
           message' = [message EXCEPT ![worker[k].msg].at = a],
           worker' = [worker EXCEPT ![k] = W!Idle],
           UNCHANGED <<caller, criteria>>, raced' \in BOOLEAN,
           crossed' \in {crossed, crossed \ {k}},
           expansion' \in W!Criteria \cup {W!None},
           operation' \in [W!Criteria -> OperationStatus]
    PROVE  /\ ExpansionTyped' /\ HeldAlone' /\ SecondLook'
           /\ message'[worker[k].msg].of = W!HashOf(k) /\ message'[worker[k].msg].at = a
           /\ \A i \in Events : i # worker[k].msg => message'[i] = message[i]
<1> DEFINE m == worker[k].msg
           r == [of |-> message[m].of, at |-> a, receives |-> message[m].receives]
<1>1. /\ worker[k] \in AtWork /\ worker[k] # W!Idle /\ m \in Events
      /\ message[m] \in ExpansionMessage
  BY HeldMessage
<1>2. message' = [message EXCEPT ![m] = r]
  <2>1. /\ m \in DOMAIN message /\ message = [i \in DOMAIN message |-> message[i]]
        /\ message[m] = [of |-> message[m].of, at |-> message[m].at, receives |-> message[m].receives]
    BY <1>1 DEF ExpansionInv, ExpansionTyped, ExpansionMessage
  <2> HIDE DEF m
  <2> QED
    BY <1>1, <2>1, MessageMoved DEF m
<1>3. r \in ExpansionMessage /\ r.at = a /\ r.receives = message[m].receives /\ r.of = message[m].of
  BY <1>1 DEF ExpansionMessage
<1> HIDE DEF r
<1>4. /\ message' = [i \in Events |-> message'[i]]
      /\ \A i \in Events : message'[i] = W!Unsent \/ message'[i] \in ExpansionMessage
      /\ \A i \in Events : message'[i].at = "WAITING" => message'[i].receives < MaxReceive
      /\ message'[m] = r
      /\ \A i \in Events : i # m => message'[i] = message[i]
  <2>1. r.at = "WAITING" => r.receives < MaxReceive
    BY <1>3
  <2> HIDE DEF m
  <2> QED
    BY <1>1, <1>2, <1>3, <2>1, MessageWritten DEF ExpansionInv
<1>5. W!Idle.pc = "idle"
  BY DEF W!Idle
<1>6. \A j \in Worker : worker'[j] = IF j = k THEN W!Idle ELSE worker[j]
  BY DEF ExpansionInv, ExpansionTyped
<1>7. ExpansionTyped'
  <2>1. worker' \in [Worker -> {W!Idle} \cup AtWork]
    BY DEF ExpansionInv, ExpansionTyped
  <2> QED
    BY <1>4, <2>1 DEF ExpansionInv, ExpansionTyped
<1>8. HeldAlone'
  <2> SUFFICES ASSUME NEW j \in Worker, worker'[j] # W!Idle
               PROVE  /\ message'[worker'[j].msg].at = "INFLIGHT"
                      /\ \A i \in Worker : i # j /\ worker'[i] # W!Idle => worker'[i].msg # worker'[j].msg
    BY DEF HeldAlone
  <2>1. j # k /\ worker'[j] = worker[j]
    BY <1>6
  <2>2. worker[j].msg # m /\ message[worker[j].msg].at = "INFLIGHT"
    BY <1>1, <2>1 DEF ExpansionInv, HeldAlone
  <2>3. worker[j] \in AtWork /\ worker[j].msg \in Events
    BY <2>1 DEF ExpansionInv, ExpansionTyped, AtWork
  <2> QED
    BY <1>1, <1>4, <1>6, <2>1, <2>2, <2>3 DEF ExpansionInv, HeldAlone
<1>9. \A j \in Worker : worker'[j] # W!Idle => W!HashOf(j)' = W!HashOf(j)
  <2> SUFFICES ASSUME NEW j \in Worker, worker'[j] # W!Idle
               PROVE  W!HashOf(j)' = W!HashOf(j)
    OBVIOUS
  <2>1. j # k /\ worker'[j] = worker[j]
    BY <1>6
  <2>2. worker[j].msg # m
    BY <1>1, <2>1 DEF ExpansionInv, HeldAlone
  <2>3. worker[j] \in AtWork /\ worker[j].msg \in Events
    BY <2>1 DEF ExpansionInv, ExpansionTyped, AtWork
  <2> QED
    BY <1>4, <2>1, <2>2, <2>3 DEF W!HashOf
<1>10. SecondLook'
  BY <1>5, <1>6, <1>9 DEF ExpansionInv, SecondLook
<1>11. message'[m].of = W!HashOf(k) /\ message'[m].at = a
  BY <1>3, <1>4 DEF W!HashOf
<1> QED
  BY <1>4, <1>7, <1>8, <1>10, <1>11

\* Where a raised message goes.
LEMMA Raised ==
    ASSUME ExpansionInv, NEW k \in Worker, worker[k].pc # "idle", W!Raise(k)
    PROVE  \E a \in W!Waits :
              /\ a = "WAITING" => message[worker[k].msg].receives < MaxReceive
              /\ message' = [message EXCEPT ![worker[k].msg].at = a]
              /\ worker' = [worker EXCEPT ![k] = W!Idle]
<1>1. message[worker[k].msg].receives \in Nat
  BY HeldMessage, PrivateAiConstants DEF ExpansionMessage, PrivateAiConstants
<1>2. CASE message[worker[k].msg].receives >= MaxReceive
  BY <1>2 DEF W!Raise, W!Waits
<1>3. CASE ~(message[worker[k].msg].receives >= MaxReceive)
  <2>1. /\ message' = [message EXCEPT ![worker[k].msg].at = "WAITING"]
        /\ worker' = [worker EXCEPT ![k] = W!Idle]
    BY <1>3 DEF W!Raise
  <2>2. message[worker[k].msg].receives < MaxReceive
    BY <1>1, <1>3, PrivateAiConstants DEF PrivateAiConstants
  <2> QED
    BY <2>1, <2>2 DEF W!Waits
<1> QED
  BY <1>2, <1>3

-----------------------------------------------------------------------------
(* The steps *)

LEMMA PutsExpansion ==
    ASSUME ExpansionInv, NEW c \in Caller,
           (\E new \in W!Criteria : W!Read(c, new)) \/ W!Replace(c)
    PROVE  ExpansionInv'
<1>1. ASSUME NEW new \in W!Criteria, W!Read(c, new)
      PROVE  ExpansionInv'
  <2>1. UNCHANGED <<criteria, expansion, operation, message, worker, raced, crossed>>
    BY <1>1 DEF W!Read
  <2>2. [pc |-> "put", seen |-> criteria, had |-> expansion, new |-> new] \in
           [pc : {"put"}, seen : W!Criteria, had : W!Criteria \cup {W!None}, new : W!Criteria]
    BY DEF ExpansionInv, ExpansionTyped
  <2>3. caller' \in [Caller -> {W!NoCall} \cup
           [pc : {"put"}, seen : W!Criteria, had : W!Criteria \cup {W!None}, new : W!Criteria]]
    BY <1>1, <2>2 DEF W!Read, ExpansionInv, ExpansionTyped
  <2>4. ExpansionTyped'
    BY <2>1, <2>3 DEF ExpansionInv, ExpansionTyped
  <2> QED
    BY <2>1, <2>4 DEF ExpansionInv, HeldAlone, SecondLook, W!HashOf, OwedByOthers
<1>2. ASSUME W!Replace(c)
      PROVE  ExpansionInv'
  <2> DEFINE seen == caller[c].seen
             new == caller[c].new
  <2>1. seen \in W!Criteria /\ new \in W!Criteria
    BY <1>2 DEF W!Replace, ExpansionInv, ExpansionTyped
  <2>2. criteria' = [f \in DOMAIN criteria |-> IF new[f] # seen[f] THEN new[f] ELSE criteria[f]]
    BY <1>2 DEF W!Replace
  <2> HIDE DEF new, seen
  <2>3. criteria' \in W!Criteria
    <3>1. criteria \in [terms : Terms, places : Places]
      BY DEF ExpansionInv, ExpansionTyped, W!Criteria
    <3>2. criteria' = [terms |-> IF new.terms # seen.terms THEN new.terms ELSE criteria.terms,
                       places |-> IF new.places # seen.places THEN new.places ELSE criteria.places]
      BY <2>2, <3>1
    <3>3. new.terms \in Terms /\ new.places \in Places
      BY <2>1 DEF W!Criteria
    <3> QED
      BY <3>1, <3>2, <3>3 DEF W!Criteria
  <2>4. PICK m \in Events :
            /\ message[m] = W!Unsent
            /\ message' = [message EXCEPT ![m] = [of |-> new, at |-> "WAITING", receives |-> 0]]
    BY <1>2 DEF W!Replace, new
  <2> DEFINE r == [of |-> new, at |-> "WAITING", receives |-> 0]
  <2>5. r \in ExpansionMessage /\ r.of = new /\ r.at = "WAITING" /\ r.receives < MaxReceive
    BY <2>1, PrivateAiConstants DEF ExpansionMessage, W!Waits, PrivateAiConstants
  <2> HIDE DEF r
  <2>6. /\ message' = [i \in Events |-> message'[i]]
        /\ \A i \in Events : message'[i] = W!Unsent \/ message'[i] \in ExpansionMessage
        /\ \A i \in Events : message'[i].at = "WAITING" => message'[i].receives < MaxReceive
        /\ message'[m] = r
        /\ \A i \in Events : i # m => message'[i] = message[i]
    BY <2>4, <2>5, MessageWritten DEF ExpansionInv, r
  <2>7. /\ UNCHANGED <<operation, worker>>
        /\ expansion' = IF caller[c].had # W!None THEN W!None ELSE expansion
        /\ raced' = (criteria' # new)
        /\ crossed' = {k \in Worker : worker[k].pc \in {"storing", "cancelling"}}
        /\ caller' = [caller EXCEPT ![c] = W!NoCall]
    BY <1>2 DEF W!Replace, new
  <2>8. W!Unsent.at = "UNSENT"
    BY DEF W!Unsent
  <2>9. ExpansionTyped'
    <3>1. caller' \in [Caller -> {W!NoCall} \cup
           [pc : {"put"}, seen : W!Criteria, had : W!Criteria \cup {W!None}, new : W!Criteria]]
      BY <2>7 DEF ExpansionInv, ExpansionTyped
    <3>2. /\ expansion' \in W!Criteria \cup {W!None}
          /\ raced' \in BOOLEAN /\ crossed' \subseteq Worker
      BY <2>7 DEF ExpansionInv, ExpansionTyped
    <3> QED
      BY <2>3, <2>6, <2>7, <3>1, <3>2 DEF ExpansionInv, ExpansionTyped
  <2>10. HeldAlone'
    <3> SUFFICES ASSUME NEW k \in Worker, worker[k] # W!Idle
                 PROVE  message'[worker[k].msg].at = "INFLIGHT"
      BY <2>7 DEF ExpansionInv, HeldAlone
    <3>1. worker[k].msg \in Events /\ message[worker[k].msg].at = "INFLIGHT"
      BY DEF ExpansionInv, ExpansionTyped, HeldAlone, AtWork
    <3> QED
      BY <2>4, <2>6, <2>8, <3>1
  <2>11. SecondLook'
    BY <2>7 DEF SecondLook
  <2>12. OwedByOthers'
    <3>1. \A k \in Worker : worker[k].pc = "cancelling" => worker[k].msg # m
      BY <2>4, <2>8, HeldMessage
    <3> QED
      BY <2>5, <2>6, <2>7, <3>1 DEF OwedByOthers, W!Waits
  <2> QED
    BY <2>9, <2>10, <2>11, <2>12 DEF ExpansionInv
<1> QED
  BY <1>1, <1>2

LEMMA ReceivesExpansion ==
    ASSUME ExpansionInv, NEW k \in Worker, NEW m \in Events, W!Skip(k, m) \/ W!Load(k, m)
    PROVE  ExpansionInv'
<1>1. /\ message[m].at = "WAITING" /\ worker[k] = W!Idle
      /\ UNCHANGED <<criteria, expansion, operation, caller, raced, crossed>>
  BY DEF W!Skip, W!Load, W!Receive
<1>2. W!Unsent.at = "UNSENT" /\ W!Idle.pc = "idle"
  BY DEF W!Unsent, W!Idle
<1>3. message[m] \in ExpansionMessage /\ message[m].receives < MaxReceive
  BY <1>1, <1>2 DEF ExpansionInv, ExpansionTyped
<1>4. \A j \in Worker : worker[j] # W!Idle => worker[j].msg \in Events /\ worker[j].msg # m
  <2> SUFFICES ASSUME NEW j \in Worker, worker[j] # W!Idle
               PROVE  worker[j].msg \in Events /\ worker[j].msg # m
    OBVIOUS
  <2> QED
    BY <1>1 DEF ExpansionInv, ExpansionTyped, HeldAlone, AtWork
<1>7. /\ m \in DOMAIN message /\ message = [i \in DOMAIN message |-> message[i]]
      /\ message[m] = [of |-> message[m].of, at |-> message[m].at, receives |-> message[m].receives]
  BY <1>3 DEF ExpansionInv, ExpansionTyped, ExpansionMessage
<1>5. ASSUME W!Skip(k, m)
      PROVE  ExpansionInv'
  <2> DEFINE r == [of |-> message[m].of, at |-> "ACKED", receives |-> message[m].receives]
  <2>1. /\ criteria # message[m].of \/ expansion = message[m].of
        /\ message' = [message EXCEPT ![m].at = "ACKED"]
        /\ UNCHANGED worker
    BY <1>5 DEF W!Skip
  <2>2. message' = [message EXCEPT ![m] = r]
    BY <1>7, <2>1, MessageMoved
  <2>3. r \in ExpansionMessage /\ r.at = "ACKED" /\ r.of = message[m].of
    BY <1>3 DEF ExpansionMessage
  <2> HIDE DEF r
  <2>4. /\ message' = [i \in Events |-> message'[i]]
        /\ \A i \in Events : message'[i] = W!Unsent \/ message'[i] \in ExpansionMessage
        /\ \A i \in Events : message'[i].at = "WAITING" => message'[i].receives < MaxReceive
        /\ message'[m] = r
        /\ \A i \in Events : i # m => message'[i] = message[i]
    <3>1. r.at = "WAITING" => r.receives < MaxReceive
      BY <2>3
    <3> QED
      BY <2>2, <2>3, <3>1, MessageWritten DEF ExpansionInv
  <2>5. ExpansionTyped'
    BY <1>1, <2>1, <2>4 DEF ExpansionInv, ExpansionTyped
  <2>6. \A j \in Worker : worker[j] # W!Idle => message'[worker[j].msg] = message[worker[j].msg]
    BY <1>4, <2>4
  <2>7. HeldAlone'
    BY <2>1, <2>6 DEF ExpansionInv, HeldAlone
  <2>8. SecondLook'
    BY <1>1, <1>2, <2>1, <2>6 DEF ExpansionInv, SecondLook, W!HashOf
  <2>9. OwedByOthers'
    <3>1. ASSUME NEW n \in Events, message[n].of = criteria, message[n].at \in W!Waits,
                 expansion # criteria
          PROVE  message'[n] = message[n]
      BY <2>1, <2>4, <3>1
    <3> QED
      BY <1>1, <2>1, <3>1 DEF ExpansionInv, OwedByOthers
  <2> QED
    BY <2>5, <2>7, <2>8, <2>9 DEF ExpansionInv
<1>6. ASSUME W!Load(k, m)
      PROVE  ExpansionInv'
  <2> DEFINE r == [of |-> message[m].of, at |-> "INFLIGHT", receives |-> message[m].receives + 1]
             w == [pc |-> "loaded", msg |-> m, was |-> operation[message[m].of]]
  <2>1. /\ message' = [message EXCEPT ![m].at = "INFLIGHT", ![m].receives = @ + 1]
        /\ worker' = [worker EXCEPT ![k] = w]
    BY <1>6 DEF W!Load
  <2>2. message' = [message EXCEPT ![m] = r]
    BY <1>7, <2>1, MessageMoved
  <2>3. r \in ExpansionMessage /\ r.at = "INFLIGHT" /\ r.of = message[m].of
    BY <1>3, PrivateAiConstants DEF ExpansionMessage, PrivateAiConstants, W!Waits
  <2>4. w \in AtWork /\ w.pc = "loaded" /\ w.msg = m /\ w # W!Idle
    <3>1. message[m].of \in W!Criteria
      BY <1>3 DEF ExpansionMessage
    <3>2. operation[message[m].of] \in OperationStatus
      BY <3>1 DEF ExpansionInv, ExpansionTyped
    <3> QED
      BY <3>2, <1>2 DEF AtWork
  <2> HIDE DEF r, w
  <2>5. /\ message' = [i \in Events |-> message'[i]]
        /\ \A i \in Events : message'[i] = W!Unsent \/ message'[i] \in ExpansionMessage
        /\ \A i \in Events : message'[i].at = "WAITING" => message'[i].receives < MaxReceive
        /\ message'[m] = r
        /\ \A i \in Events : i # m => message'[i] = message[i]
    <3>1. r.at = "WAITING" => r.receives < MaxReceive
      BY <2>3
    <3> QED
      BY <2>2, <2>3, <3>1, MessageWritten DEF ExpansionInv
  <2>6. worker' \in [Worker -> {W!Idle} \cup AtWork]
    BY <2>1, <2>4 DEF ExpansionInv, ExpansionTyped
  <2>7. \A j \in Worker : worker'[j] = IF j = k THEN w ELSE worker[j]
    BY <2>1 DEF ExpansionInv, ExpansionTyped
  <2>8. ExpansionTyped'
    BY <1>1, <2>5, <2>6 DEF ExpansionInv, ExpansionTyped
  <2>9. \A j \in Worker : j # k /\ worker[j] # W!Idle =>
            message'[worker[j].msg] = message[worker[j].msg]
    BY <1>4, <2>5
  <2>10. HeldAlone'
    <3> SUFFICES ASSUME NEW j \in Worker, worker'[j] # W!Idle
                 PROVE  /\ message'[worker'[j].msg].at = "INFLIGHT"
                        /\ \A i \in Worker : i # j /\ worker'[i] # W!Idle => worker'[i].msg # worker'[j].msg
      BY DEF HeldAlone
    <3>1. CASE j = k
      BY <1>4, <2>3, <2>4, <2>5, <2>7, <3>1
    <3>2. CASE j # k
      BY <1>4, <2>4, <2>7, <2>9, <3>2 DEF ExpansionInv, HeldAlone
    <3> QED
      BY <3>1, <3>2
  <2>11. SecondLook'
    <3> SUFFICES ASSUME NEW j \in Worker \ crossed
                 PROVE  /\ worker'[j].pc = "storing" => W!HashOf(j)' = criteria
                        /\ worker'[j].pc = "cancelling" => W!HashOf(j)' # criteria
      BY <1>1 DEF SecondLook
    <3>1. CASE j = k
      BY <2>4, <2>7, <3>1
    <3>2. CASE j # k /\ worker[j] # W!Idle
      <4>1. worker'[j] = worker[j]
        BY <2>7, <3>2
      <4>2. message'[worker'[j].msg].of = message[worker[j].msg].of
        BY <2>9, <3>2, <4>1
      <4> QED
        BY <4>1, <4>2 DEF ExpansionInv, SecondLook, W!HashOf
    <3>3. CASE j # k /\ worker[j] = W!Idle
      BY <1>2, <2>7, <3>3
    <3> QED
      BY <3>1, <3>2, <3>3
  <2>12. OwedByOthers'
    <3>1. \A n \in Events : message[n].of = criteria /\ message[n].at \in W!Waits =>
             message'[n].of = criteria /\ message'[n].at \in W!Waits
      BY <2>3, <2>5 DEF W!Waits
    <3>2. \A j \in Worker : worker'[j].pc = "cancelling" => worker'[j] = worker[j]
      BY <2>4, <2>7
    <3> QED
      BY <1>1, <3>1, <3>2 DEF ExpansionInv, OwedByOthers
  <2> QED
    BY <2>8, <2>10, <2>11, <2>12 DEF ExpansionInv
<1> QED
  BY <1>5, <1>6

\* A step inside a worker's call: it keeps its message.
LEMMA WorkerGoesOn ==
    ASSUME ExpansionInv, NEW k \in Worker, worker[k].pc # "idle",
           NEW w \in AtWork, w.msg = worker[k].msg,
           worker' = [worker EXCEPT ![k] = w],
           w.pc = "storing" => W!HashOf(k) = criteria,
           w.pc = "cancelling" => W!HashOf(k) # criteria,
           UNCHANGED <<caller, raced, crossed, criteria, expansion, message>>,
           operation' \in [W!Criteria -> OperationStatus]
    PROVE  ExpansionTyped' /\ HeldAlone' /\ SecondLook'
<1>1. worker[k] # W!Idle
  BY HeldMessage
<1>2. \A j \in Worker : worker'[j] = IF j = k THEN w ELSE worker[j]
  BY DEF ExpansionInv, ExpansionTyped
<1>3. worker' \in [Worker -> {W!Idle} \cup AtWork]
  BY DEF ExpansionInv, ExpansionTyped
<1>4. ExpansionTyped'
  BY <1>3 DEF ExpansionInv, ExpansionTyped
<1>5. HeldAlone'
  <2>1. \A j \in Worker : worker'[j] # W!Idle => worker[j] # W!Idle /\ worker'[j].msg = worker[j].msg
    BY <1>1, <1>2
  <2> QED
    BY <2>1 DEF ExpansionInv, HeldAlone
<1>6. \A j \in Worker : W!HashOf(j)' = W!HashOf(j)
  BY <1>2 DEF W!HashOf
<1>7. SecondLook'
  BY <1>2, <1>6 DEF ExpansionInv, SecondLook
<1> QED
  BY <1>4, <1>5, <1>7

\* The fields of a worker that goes on.
LEMMA WorkerSet ==
    ASSUME NEW k \in Worker, worker \in [Worker -> {W!Idle} \cup AtWork], worker[k] \in AtWork, NEW p, NEW s
    PROVE  /\ [worker EXCEPT ![k].pc = p] =
                  [worker EXCEPT ![k] = [pc |-> p, msg |-> worker[k].msg, was |-> worker[k].was]]
           /\ [worker EXCEPT ![k].pc = p, ![k].was = s] =
                  [worker EXCEPT ![k] = [pc |-> p, msg |-> worker[k].msg, was |-> s]]
<1> DEFINE one == [pc |-> p, msg |-> worker[k].msg, was |-> worker[k].was]
           two == [pc |-> p, msg |-> worker[k].msg, was |-> s]
           mid == [worker EXCEPT ![k].pc = p]
<1>1. [worker[k] EXCEPT !.pc = p] = one
  BY DEF AtWork
<1>2. mid = [worker EXCEPT ![k] = one]
  <2>1. mid = [worker EXCEPT ![k] = [worker[k] EXCEPT !.pc = p]]
    OBVIOUS
  <2> HIDE DEF mid, one
  <2> QED
    BY <1>1, <2>1
<1>3. [worker EXCEPT ![k].pc = p, ![k].was = s] = [mid EXCEPT ![k] = [mid[k] EXCEPT !.was = s]]
  OBVIOUS
<1>4. [one EXCEPT !.was = s] = two
  OBVIOUS
<1> HIDE DEF mid, one, two
<1>5. mid[k] = one
  BY <1>2
<1>6. [mid EXCEPT ![k] = two] = [worker EXCEPT ![k] = two]
  BY <1>2
<1> QED
  BY <1>2, <1>3, <1>4, <1>5, <1>6 DEF mid, one, two

LEMMA WorksExpansion ==
    ASSUME ExpansionInv, NEW k \in Worker,
           W!CommitRunning(k) \/ W!Refresh(k)
    PROVE  ExpansionInv'
<1>1. /\ worker[k].pc # "idle" /\ worker[k] \in AtWork /\ W!HashOf(k) \in W!Criteria
      /\ worker[k].msg \in Events /\ message[worker[k].msg].at = "INFLIGHT"
  BY HeldMessage DEF W!CommitRunning, W!Refresh
<1>2. worker \in [Worker -> {W!Idle} \cup AtWork] /\ worker[k].msg \in Events /\ worker[k].was \in OperationStatus
  BY <1>1 DEF ExpansionInv, ExpansionTyped, AtWork
<1>3. ASSUME W!CommitRunning(k)
      PROVE  ExpansionInv'
  <2> DEFINE w == [pc |-> "calling", msg |-> worker[k].msg, was |-> "RUNNING"]
  <2>1. worker' = [worker EXCEPT ![k] = w]
    BY <1>1, <1>2, <1>3, WorkerSet DEF W!CommitRunning
  <2>2. w \in AtWork /\ w.msg = worker[k].msg /\ w.pc = "calling"
    BY <1>2 DEF AtWork, OperationStatus
  <2>3. /\ UNCHANGED <<criteria, expansion, message, caller, raced, crossed>>
        /\ operation' = operation \/ operation' = [operation EXCEPT ![W!HashOf(k)] = "RUNNING"]
    BY <1>3 DEF W!CommitRunning
  <2>4. operation' \in [W!Criteria -> OperationStatus]
    BY <2>3 DEF ExpansionInv, ExpansionTyped, OperationStatus
  <2> HIDE DEF w
  <2>5. ExpansionTyped' /\ HeldAlone' /\ SecondLook'
    BY <1>1, <2>1, <2>2, <2>3, <2>4, WorkerGoesOn
  <2>6. OwedByOthers'
    <3>0. \A j \in Worker : worker'[j] = IF j = k THEN w ELSE worker[j]
      BY <2>1 DEF ExpansionInv, ExpansionTyped
    <3>1. CASE W!HashOf(k) = criteria
      <4>1. \A j \in Worker : worker'[j].pc = "cancelling" => worker'[j].msg # worker[k].msg
        <5>1. \A j \in Worker : worker[j].pc = "cancelling" => worker[j] # W!Idle
          BY DEF W!Idle
        <5> QED
          BY <1>1, <2>2, <3>0, <5>1, HeldMessage DEF ExpansionInv, HeldAlone
      <4> QED
        BY <1>1, <2>3, <3>1, <4>1 DEF OwedByOthers, W!HashOf, W!Waits
    <3>2. CASE W!HashOf(k) # criteria
      <4>1. operation'[criteria] = operation[criteria]
        BY <2>3, <3>2 DEF ExpansionInv, ExpansionTyped
      <4> QED
        BY <2>2, <2>3, <3>0, <4>1 DEF ExpansionInv, OwedByOthers
    <3> QED
      BY <3>1, <3>2
  <2> QED
    BY <2>5, <2>6 DEF ExpansionInv
<1>4. ASSUME W!Refresh(k)
      PROVE  ExpansionInv'
  <2> DEFINE p == IF criteria = W!HashOf(k) THEN "storing" ELSE "cancelling"
             w == [pc |-> p, msg |-> worker[k].msg, was |-> worker[k].was]
  <2>1. worker' = [worker EXCEPT ![k] = w]
    <3>1. worker' = [worker EXCEPT ![k].pc = p]
      BY <1>4 DEF W!Refresh
    <3> HIDE DEF p
    <3> QED
      BY <1>1, <1>2, <3>1, WorkerSet
  <2>2. /\ w \in AtWork /\ w.msg = worker[k].msg
        /\ w.pc = "storing" => W!HashOf(k) = criteria
        /\ w.pc = "cancelling" => W!HashOf(k) # criteria
    BY <1>2 DEF AtWork
  <2>3. UNCHANGED <<criteria, expansion, operation, message, caller, raced, crossed>>
    BY <1>4 DEF W!Refresh
  <2>4. operation' \in [W!Criteria -> OperationStatus]
    BY <2>3 DEF ExpansionInv, ExpansionTyped
  <2> HIDE DEF w
  <2>5. ExpansionTyped' /\ HeldAlone' /\ SecondLook'
    BY <1>1, <2>1, <2>2, <2>3, <2>4, WorkerGoesOn
  <2>6. OwedByOthers'
    <3>1. \A j \in Worker : worker'[j] = IF j = k THEN w ELSE worker[j]
      BY <2>1 DEF ExpansionInv, ExpansionTyped
    <3>2. ASSUME NEW n \in Events, message[n].of = criteria,
                 \A j \in Worker : worker[j].pc = "cancelling" => worker[j].msg # n
          PROVE  \A j \in Worker : worker'[j].pc = "cancelling" => worker'[j].msg # n
      BY <2>2, <3>1, <3>2 DEF W!HashOf
    <3> QED
      BY <2>3, <3>2 DEF ExpansionInv, OwedByOthers
  <2> QED
    BY <2>5, <2>6 DEF ExpansionInv
<1> QED
  BY <1>3, <1>4

LEMMA ReturnsExpansion ==
    ASSUME ExpansionInv, NEW k \in Worker,
           \/ \E s \in {"RETRYABLE_FAILED", "PERMANENT_FAILED"} : W!ProviderFails(k, s)
           \/ W!Dies(k)
    PROVE  ExpansionInv'
<1>1. worker[k].pc # "idle" /\ W!Raise(k)
  BY DEF W!ProviderFails, W!Dies, W!Idle, ExpansionInv, ExpansionTyped, AtWork
<1>2. /\ worker[k].msg \in Events /\ message[worker[k].msg].at = "INFLIGHT"
      /\ W!HashOf(k) \in W!Criteria
  BY <1>1, HeldMessage
<1>3. PICK a \in W!Waits :
              /\ a = "WAITING" => message[worker[k].msg].receives < MaxReceive
              /\ message' = [message EXCEPT ![worker[k].msg].at = a]
              /\ worker' = [worker EXCEPT ![k] = W!Idle]
  BY <1>1, Raised
<1>4. /\ UNCHANGED <<criteria, expansion, caller, raced>>
      /\ crossed' \in {crossed, crossed \ {k}}
      /\ \/ operation' = operation
         \/ \E s \in {"RETRYABLE_FAILED", "PERMANENT_FAILED"} :
                operation' = [operation EXCEPT ![W!HashOf(k)] = s]
  BY DEF W!ProviderFails, W!Dies
<1>5. operation' \in [W!Criteria -> OperationStatus]
  BY <1>4 DEF ExpansionInv, ExpansionTyped, OperationStatus
<1>6. expansion' \in W!Criteria \cup {W!None}
  BY <1>4 DEF ExpansionInv, ExpansionTyped
<1>7. /\ ExpansionTyped' /\ HeldAlone' /\ SecondLook'
      /\ message'[worker[k].msg].of = W!HashOf(k) /\ message'[worker[k].msg].at = a
      /\ \A i \in Events : i # worker[k].msg => message'[i] = message[i]
  <2>1. raced' \in BOOLEAN
    BY <1>4 DEF ExpansionInv, ExpansionTyped
  <2> QED
    BY <1>1, <1>3, <1>4, <1>5, <1>6, <2>1, WorkerDone
<1>8. OwedByOthers'
  <2>0. \A j \in Worker : worker'[j].pc = "cancelling" =>
            j # k /\ worker'[j] = worker[j] /\ worker[j] # W!Idle
    BY <1>3 DEF ExpansionInv, ExpansionTyped, W!Idle
  <2>1. CASE W!HashOf(k) = criteria
    <3>1. \A j \in Worker : worker'[j].pc = "cancelling" => worker'[j].msg # worker[k].msg
      BY <1>1, <2>0, HeldMessage DEF ExpansionInv, HeldAlone
    <3> QED
      BY <1>2, <1>4, <1>7, <2>1, <3>1 DEF OwedByOthers
  <2>2. CASE W!HashOf(k) # criteria
    <3>1. operation'[criteria] = operation[criteria]
      BY <1>4, <2>2 DEF ExpansionInv, ExpansionTyped
    <3>2. \A n \in Events : message[n].of = criteria => message'[n] = message[n]
      BY <1>7, <2>2 DEF W!HashOf
    <3> QED
      BY <1>4, <2>0, <3>1, <3>2 DEF ExpansionInv, OwedByOthers
  <2> QED
    BY <2>1, <2>2
<1> QED
  BY <1>7, <1>8 DEF ExpansionInv

LEMMA AcksExpansion ==
    ASSUME ExpansionInv, NEW k \in Worker,
           W!OutputInvalid(k) \/ W!StoreExpansion(k) \/ W!Cancel(k)
    PROVE  ExpansionInv'
<1>1. /\ worker[k].pc # "idle"
      /\ message' = [message EXCEPT ![worker[k].msg].at = "ACKED"]
      /\ worker' = [worker EXCEPT ![k] = W!Idle]
      /\ UNCHANGED <<criteria, caller>>
      /\ crossed' \in {crossed, crossed \ {k}}
      /\ \E s \in {"DEGRADED_FAILED", "SUCCEEDED", "CANCELLED"} :
             operation' = [operation EXCEPT ![W!HashOf(k)] = s]
      /\ expansion' = expansion \/ expansion' = W!HashOf(k)
  BY DEF W!OutputInvalid, W!StoreExpansion, W!Cancel, W!Ack
<1>2. /\ worker[k].msg \in Events /\ W!HashOf(k) \in W!Criteria
  BY <1>1, HeldMessage
<1>3. /\ operation' \in [W!Criteria -> OperationStatus] /\ expansion' \in W!Criteria \cup {W!None}
      /\ raced' \in BOOLEAN /\ (raced => raced')
  BY <1>1, <1>2 DEF ExpansionInv, ExpansionTyped, OperationStatus,
     W!OutputInvalid, W!StoreExpansion, W!Cancel
<1>4. /\ ExpansionTyped' /\ HeldAlone' /\ SecondLook'
      /\ \A i \in Events : i # worker[k].msg => message'[i] = message[i]
  BY <1>1, <1>3, WorkerDone
<1>5. \A j \in Worker : worker'[j].pc = "cancelling" => worker'[j] = worker[j]
  BY <1>1 DEF ExpansionInv, ExpansionTyped, W!Idle
<1>6. OwedByOthers'
  <2> SUFFICES ASSUME ~raced'
               PROVE  OwedByOthers'
    BY DEF OwedByOthers
  <2>1. CASE W!OutputInvalid(k) /\ W!HashOf(k) = criteria
    <3>1. operation'[criteria] = "DEGRADED_FAILED"
      BY <1>2, <2>1 DEF ExpansionInv, ExpansionTyped, W!OutputInvalid
    <3> QED
      BY <1>1, <3>1 DEF OwedByOthers
  <2>2. CASE W!StoreExpansion(k) /\ W!HashOf(k) = criteria
    BY <1>1, <2>2 DEF W!StoreExpansion, OwedByOthers
  \* The message that counts is another one, and a failure that counted is still stored.
  <2>3. CASE W!Cancel(k) /\ W!HashOf(k) = criteria
    <3>1. k \in crossed
      BY <1>1, <2>3 DEF ExpansionInv, SecondLook, W!Cancel
    <3>2. operation[criteria] # "DEGRADED_FAILED" /\ expansion' = expansion
      BY <2>3, <3>1 DEF W!Cancel
    <3>3. worker[k].pc = "cancelling"
      BY <2>3 DEF W!Cancel
    <3> QED
      BY <1>1, <1>3, <1>4, <1>5, <3>2, <3>3 DEF ExpansionInv, OwedByOthers
  <2>4. CASE W!HashOf(k) # criteria
    <3>1. operation'[criteria] = operation[criteria]
      BY <1>1, <2>4 DEF ExpansionInv, ExpansionTyped
    <3>2. \A n \in Events : message[n].of = criteria => message'[n] = message[n]
      BY <1>4, <2>4 DEF W!HashOf
    <3>3. expansion = criteria => expansion' = criteria
      <4>1. CASE W!StoreExpansion(k)
        BY <2>4, <4>1 DEF ExpansionInv, SecondLook, W!StoreExpansion
      <4>2. CASE ~W!StoreExpansion(k)
        BY <4>2 DEF W!OutputInvalid, W!Cancel
      <4> QED
        BY <4>1, <4>2
    <3>4. ~raced /\ criteria' = criteria
      BY <1>1, <1>3
    <3>5. CASE expansion = criteria \/ operation[criteria] = "DEGRADED_FAILED"
      BY <3>1, <3>3, <3>4, <3>5 DEF OwedByOthers
    <3>6. CASE \E n \in Events :
                  /\ message[n].of = criteria /\ message[n].at \in W!Waits
                  /\ \A j \in Worker : worker[j].pc = "cancelling" => worker[j].msg # n
      <4>1. PICK n \in Events :
                  /\ message[n].of = criteria /\ message[n].at \in W!Waits
                  /\ \A j \in Worker : worker[j].pc = "cancelling" => worker[j].msg # n
        BY <3>6
      <4>2. message'[n].of = criteria' /\ message'[n].at \in W!Waits
        BY <3>2, <3>4, <4>1
      <4>3. \A j \in Worker : worker'[j].pc = "cancelling" => worker'[j].msg # n
        BY <1>5, <4>1
      <4> QED
        BY <4>2, <4>3 DEF OwedByOthers
    <3> QED
      BY <3>4, <3>5, <3>6 DEF ExpansionInv, OwedByOthers
  <2> QED
    BY <2>1, <2>2, <2>3, <2>4
<1> QED
  BY <1>4, <1>6 DEF ExpansionInv

LEMMA ExpansionStep == ExpansionInv /\ [W!Next]_(W!vars) => ExpansionInv'
<1> SUFFICES ASSUME ExpansionInv, [W!Next]_(W!vars)
             PROVE  ExpansionInv'
  OBVIOUS
<1>1. CASE UNCHANGED W!vars
  BY <1>1 DEF W!vars, ExpansionInv, ExpansionTyped, HeldAlone, SecondLook, W!HashOf,
     OwedByOthers
<1>2. CASE W!Next
  <2>1. ASSUME NEW c \in Caller, NEW new \in W!Criteria, W!Read(c, new)
        PROVE  ExpansionInv'
    BY <2>1, PutsExpansion
  <2>2. ASSUME NEW c \in Caller, W!Replace(c)
        PROVE  ExpansionInv'
    BY <2>2, PutsExpansion
  <2>3. ASSUME NEW k \in Worker, NEW m \in Events, W!Skip(k, m) \/ W!Load(k, m)
        PROVE  ExpansionInv'
    BY <2>3, ReceivesExpansion
  <2>4. ASSUME NEW k \in Worker, NEW s \in {"RETRYABLE_FAILED", "PERMANENT_FAILED"},
               W!ProviderFails(k, s)
        PROVE  ExpansionInv'
    BY <2>4, ReturnsExpansion
  <2>5. ASSUME NEW k \in Worker, W!CommitRunning(k) \/ W!Refresh(k)
        PROVE  ExpansionInv'
    BY <2>5, WorksExpansion
  <2>6. ASSUME NEW k \in Worker, W!OutputInvalid(k) \/ W!StoreExpansion(k) \/ W!Cancel(k)
        PROVE  ExpansionInv'
    BY <2>6, AcksExpansion
  <2>7. ASSUME NEW k \in Worker, W!Dies(k)
        PROVE  ExpansionInv'
    BY <2>7, ReturnsExpansion
  <2> QED
    BY <1>2, <2>1, <2>2, <2>3, <2>4, <2>5, <2>6, <2>7 DEF W!Next
<1> QED
  BY <1>1, <1>2

LEMMA ExpansionOwed == ExpansionInv => W!ExpansionIsOwed
BY DEF ExpansionInv, OwedByOthers, W!ExpansionIsOwed

LEMMA ExpansionTypes == ExpansionInv => W!TypeOK
<1> SUFFICES ASSUME ExpansionInv
             PROVE  W!TypeOK
  OBVIOUS
<1>1. W!Idle.pc = "idle"
  BY DEF W!Idle
<1>2. \A k \in Worker : worker[k].pc \in {"idle", "loaded", "calling", "storing", "cancelling"}
  BY <1>1 DEF ExpansionInv, ExpansionTyped, AtWork
<1> QED
  BY <1>2 DEF ExpansionInv, ExpansionTyped, ExpansionMessage, OperationStatus, W!TypeOK

-----------------------------------------------------------------------------
(* Sessions *)

SessionPc == {"idle", "login", "logout", "verify", "delete"}

SessionTyped ==
    /\ version \in Nat
    /\ session \in [Events -> [at : {"NONE", "VALID", "REVOKED", "EXPIRED", "GONE"},
                              version : Nat]]
    /\ caller \in [Caller -> [pc : SessionPc, token : Events \cup {"NONE"}, version : Nat]]
    /\ ended \subseteq Events

\* A sign-in under way has a token of its own that was not issued, any other request
\* one that was; only a token that was issued has ended.
TokensApart ==
    /\ \A t \in ended : session[t].at # "NONE"
    /\ \A c \in Caller :
          /\ caller[c].pc # "idle" => caller[c].token \in Events
          /\ caller[c].pc = "login" =>
                /\ session[caller[c].token].at = "NONE"
                /\ \A d \in Caller \ {c} :
                      caller[d].pc # "idle" => caller[d].token # caller[c].token
          /\ caller[c].pc \in {"logout", "verify", "delete"} =>
                session[caller[c].token].at # "NONE"

\* What a request read of the user's version is not above it, what a verification read
\* is it, and what ended is below it.
VersionsInOrder ==
    /\ \A t \in Events : session[t].version <= version
    /\ \A c \in Caller : caller[c].version <= version
    /\ \A c \in Caller : caller[c].pc = "verify" =>
          /\ caller[c].version = version
          /\ \A d \in Caller : caller[d].pc = "verify" => d = c
    /\ \A t \in ended : session[t].at = "VALID" => session[t].version < version

SessionInv ==
    /\ SessionTyped
    /\ TokensApart
    /\ account = "ACTIVE" /\ ~raced => VersionsInOrder

-----------------------------------------------------------------------------
LEMMA SessionInit == S!Init => SessionInv
BY DEF S!Init, SessionInv, SessionTyped, TokensApart, VersionsInOrder, S!NoSession, S!NoCall, SessionPc

\* A request begins: it has read the current version.
LEMMA RequestEnters ==
    ASSUME SessionInv, NEW c \in Caller, NEW p \in SessionPc \ {"idle"}, NEW t \in Events, S!Enter(c, p, t),
           p = "login" => session[t].at = "NONE" /\ \A d \in Caller : caller[d].token # t,
           p # "login" => session[t].at # "NONE"
    PROVE  SessionInv'
<1>1. SessionTyped /\ TokensApart
  BY DEF SessionInv
<1>2. /\ caller' = [caller EXCEPT ![c] = [pc |-> p, token |-> t, version |-> version]]
      /\ UNCHANGED <<account, version, session, ended>>
  BY DEF S!Enter
<1>3. SessionTyped'
  BY <1>1, <1>2 DEF SessionTyped
<1>4. TokensApart'
  BY <1>1, <1>2 DEF SessionTyped, TokensApart
<1>5. ASSUME account' = "ACTIVE", ~raced'
      PROVE  VersionsInOrder'
  <2>1. ~raced /\ ~(p = "verify" /\ \E d \in Caller : caller[d].pc = "verify")
    BY <1>5 DEF S!Enter
  <2>2. VersionsInOrder
    BY <1>2, <1>5, <2>1 DEF SessionInv
  <2> QED
    BY <1>1, <1>2, <2>1, <2>2 DEF SessionTyped, VersionsInOrder
<1> QED
  BY <1>3, <1>4, <1>5 DEF SessionInv

\* A request ends and changes no row.
LEMMA RequestLeaves ==
    ASSUME SessionInv, NEW c \in Caller, caller' = [caller EXCEPT ![c] = S!NoCall],
           UNCHANGED <<account, version, session, ended, raced>>
    PROVE  SessionInv'
<1>1. SessionTyped'
  <2>1. S!NoCall \in [pc : SessionPc, token : Events \cup {"NONE"}, version : Nat]
    BY DEF S!NoCall, SessionPc
  <2> QED
    BY <2>1 DEF SessionInv, SessionTyped
<1>2. TokensApart'
  <2>1. S!NoCall.pc = "idle" /\ S!NoCall.token = "NONE"
    BY DEF S!NoCall
  <2> QED
    BY <2>1 DEF SessionInv, SessionTyped, TokensApart
<1>3. account' = "ACTIVE" /\ ~raced' => VersionsInOrder'
  <2>1. S!NoCall.pc = "idle" /\ S!NoCall.version = 0
    BY DEF S!NoCall
  <2> QED
    BY <2>1 DEF SessionInv, SessionTyped, VersionsInOrder
<1> QED
  BY <1>1, <1>2, <1>3 DEF SessionInv

-----------------------------------------------------------------------------
\* No other session has the token of a sign-in under way, and none has ended with it:
\* the new session is valid and as current as what its callback read.
LEMMA IssueStep ==
    ASSUME SessionInv, NEW c \in Caller, S!Issue(c)
    PROVE  SessionInv'
<1> DEFINE t == caller[c].token
           new == [at |-> "VALID", version |-> caller[c].version]
<1>1. SessionTyped /\ TokensApart
  BY DEF SessionInv
<1>2. /\ caller[c].pc = "login" /\ caller' = [caller EXCEPT ![c] = S!NoCall]
      /\ session' = [session EXCEPT ![t] = new]
      /\ UNCHANGED <<account, version, ended, raced>>
  BY DEF S!Issue, S!Leave
<1>3. S!NoCall.pc = "idle" /\ S!NoCall.token = "NONE" /\ S!NoCall.version = 0
  BY DEF S!NoCall
<1>4. t \in Events /\ t \notin ended
  BY <1>1, <1>2 DEF TokensApart
<1>5. SessionTyped'
  <2>1. S!NoCall \in [pc : SessionPc, token : Events \cup {"NONE"}, version : Nat]
    BY DEF S!NoCall, SessionPc
  <2>2. new \in [at : {"NONE", "VALID", "REVOKED", "EXPIRED", "GONE"}, version : Nat]
    BY <1>1 DEF SessionTyped
  <2> HIDE DEF new, t
  <2> QED
    BY <1>1, <1>2, <1>4, <2>1, <2>2 DEF SessionTyped
<1>6. TokensApart'
  <2>1. new.at # "NONE"
    OBVIOUS
  <2> HIDE DEF new
  <2> QED
    BY <1>1, <1>2, <1>3, <1>4, <2>1 DEF SessionTyped, TokensApart
<1>7. ASSUME account' = "ACTIVE", ~raced'
      PROVE  VersionsInOrder'
  <2>1. VersionsInOrder
    BY <1>2, <1>7 DEF SessionInv
  <2>2. new.version <= version
    BY <2>1 DEF VersionsInOrder
  <2> HIDE DEF new
  <2> QED
    BY <1>1, <1>2, <1>3, <1>4, <2>1, <2>2 DEF SessionTyped, VersionsInOrder
<1> QED
  BY <1>5, <1>6, <1>7 DEF SessionInv

\* A session that is not valid any more, of a token that may be counted as ended.
LEMMA SessionEnds ==
    ASSUME SessionInv, NEW t \in Events, session[t].at # "NONE",
           NEW a \in {"REVOKED", "EXPIRED", "GONE"},
           session' = [session EXCEPT ![t].at = a],
           ended' = ended \cup {t},
           UNCHANGED <<account, version, raced>>,
           caller' = caller \/ \E c \in Caller : caller' = [caller EXCEPT ![c] = S!NoCall]
    PROVE  SessionInv'
<1> DEFINE new == [at |-> a, version |-> session[t].version]
<1>1. SessionTyped /\ TokensApart
  BY DEF SessionInv
<1>2. session' = [session EXCEPT ![t] = new]
  <2>1. [session[t] EXCEPT !.at = a] = new
    BY <1>1 DEF SessionTyped
  <2>2. session' = [session EXCEPT ![t] = [session[t] EXCEPT !.at = a]]
    OBVIOUS
  <2> HIDE DEF new
  <2> QED
    BY <2>1, <2>2
<1>3. new.at = a /\ new.version = session[t].version /\ a # "NONE" /\ a # "VALID"
  OBVIOUS
<1>4. /\ S!NoCall.pc = "idle" /\ S!NoCall.token = "NONE" /\ S!NoCall.version = 0
      /\ S!NoCall \in [pc : SessionPc, token : Events \cup {"NONE"}, version : Nat]
  BY DEF S!NoCall, SessionPc
<1>5. new \in [at : {"NONE", "VALID", "REVOKED", "EXPIRED", "GONE"}, version : Nat]
  BY <1>1 DEF SessionTyped
<1> HIDE DEF new
<1>6. SessionTyped'
  BY <1>1, <1>2, <1>4, <1>5 DEF SessionTyped
<1>7. TokensApart'
  <2>1. \A u \in Events : session'[u].at = "NONE" <=> session[u].at = "NONE"
    BY <1>1, <1>2, <1>3 DEF SessionTyped
  <2>2. \A u \in ended' : session'[u].at # "NONE"
    BY <1>1, <2>1 DEF SessionTyped, TokensApart
  <2>3. \A d \in Caller : caller'[d] = caller[d] \/ caller'[d] = S!NoCall
    BY <1>1 DEF SessionTyped
  <2> QED
    BY <1>1, <1>4, <2>1, <2>2, <2>3 DEF SessionTyped, TokensApart
<1>8. ASSUME account' = "ACTIVE", ~raced'
      PROVE  VersionsInOrder'
  <2>1. VersionsInOrder
    BY <1>8 DEF SessionInv
  <2>2. \A d \in Caller : caller'[d] = caller[d] \/ caller'[d] = S!NoCall
    BY <1>1 DEF SessionTyped
  <2>3. /\ \A u \in Events : session'[u].version = session[u].version
        /\ \A u \in Events \ {t} : session'[u] = session[u]
        /\ session'[t].at # "VALID"
    BY <1>1, <1>2, <1>3 DEF SessionTyped
  <2> QED
    BY <1>1, <1>4, <2>1, <2>2, <2>3 DEF SessionTyped, VersionsInOrder
<1> QED
  BY <1>6, <1>7, <1>8 DEF SessionInv

\* The version a verification read is the user's, and no other verification is under way
\* to be made late by raising it.
LEMMA MfaVerifiedStep ==
    ASSUME SessionInv, NEW c \in Caller, S!MfaVerified(c)
    PROVE  SessionInv'
<1>1. SessionTyped /\ TokensApart
  BY DEF SessionInv
<1>2. /\ caller[c].pc = "verify" /\ caller' = [caller EXCEPT ![c] = S!NoCall]
      /\ version' = caller[c].version + 1 /\ ended' = ended \cup S!Issued
      /\ UNCHANGED <<account, session, raced>>
  BY DEF S!MfaVerified, S!Leave
<1>3. /\ S!NoCall.pc = "idle" /\ S!NoCall.token = "NONE" /\ S!NoCall.version = 0
      /\ S!NoCall \in [pc : SessionPc, token : Events \cup {"NONE"}, version : Nat]
  BY DEF S!NoCall, SessionPc
<1>4. SessionTyped'
  BY <1>1, <1>2, <1>3 DEF SessionTyped, S!Issued
<1>5. TokensApart'
  BY <1>1, <1>2, <1>3 DEF SessionTyped, TokensApart, S!Issued
<1>6. ASSUME account' = "ACTIVE", ~raced'
      PROVE  VersionsInOrder'
  <2>1. VersionsInOrder
    BY <1>2, <1>6 DEF SessionInv
  <2>2. version \in Nat /\ version' = version + 1
    BY <1>1, <1>2, <2>1 DEF SessionTyped, VersionsInOrder
  <2>3. \A t \in Events : session[t].version \in Nat /\ session[t].version < version'
    BY <1>1, <2>1, <2>2 DEF SessionTyped, VersionsInOrder
  <2>4. \A d \in Caller : caller'[d].version <= version' /\ caller'[d].pc # "verify"
    BY <1>1, <1>2, <1>3, <2>1, <2>2 DEF SessionTyped, VersionsInOrder
  <2>5. ended' \subseteq Events
    BY <1>4 DEF SessionTyped
  <2> QED
    BY <1>2, <2>2, <2>3, <2>4, <2>5 DEF VersionsInOrder
<1> QED
  BY <1>4, <1>5, <1>6 DEF SessionInv

LEMMA MfaRefusedStep ==
    ASSUME SessionInv, NEW c \in Caller, S!MfaRefused(c)
    PROVE  SessionInv'
BY RequestLeaves DEF S!MfaRefused, S!Leave

LEMMA RevokeStep ==
    ASSUME SessionInv, NEW c \in Caller, S!Revoke(c)
    PROVE  SessionInv'
<1> DEFINE t == caller[c].token
<1>1. /\ caller[c].pc = "logout" /\ caller' = [caller EXCEPT ![c] = S!NoCall]
      /\ ended' = ended \cup {t} /\ UNCHANGED <<account, version, raced>>
  BY DEF S!Revoke, S!Leave
<1>2. t \in Events /\ session[t].at # "NONE"
  BY <1>1 DEF SessionInv, TokensApart
<1>3. CASE session[t].at = "GONE"
  <2>1. session' = session
    BY <1>3 DEF S!Revoke
  <2>2. [session[t] EXCEPT !.at = "GONE"] = session[t]
    BY <1>2, <1>3 DEF SessionInv, SessionTyped
  <2>3. [session EXCEPT ![t] = session[t]] = session
    BY <1>2 DEF SessionInv, SessionTyped
  <2>4. [session EXCEPT ![t].at = "GONE"] = [session EXCEPT ![t] = [session[t] EXCEPT !.at = "GONE"]]
    OBVIOUS
  <2> HIDE DEF t
  <2>5. session' = [session EXCEPT ![t].at = "GONE"]
    BY <2>1, <2>2, <2>3, <2>4
  <2> QED
    BY <1>1, <1>2, <2>5, SessionEnds
<1>4. CASE session[t].at # "GONE"
  <2>1. session' = [session EXCEPT ![t].at = "REVOKED"]
    BY <1>4 DEF S!Revoke
  <2> HIDE DEF t
  <2> QED
    BY <1>1, <1>2, <2>1, SessionEnds
<1> QED
  BY <1>3, <1>4

LEMMA ExpireStep ==
    ASSUME SessionInv, NEW t \in Events, S!Expire(t)
    PROVE  SessionInv'
<1>1. session[t].at # "NONE"
  BY DEF S!Expire
<1> QED
  BY <1>1, SessionEnds DEF S!Expire

\* The rows of the sessions go, and the account is active no more.
LEMMA SessionsDeleted ==
    ASSUME SessionInv, account' # "ACTIVE", version' \in Nat,
           session' = S!Deleted, ended' = ended \cup S!Issued,
           caller' = caller \/ \E c \in Caller : caller' = [caller EXCEPT ![c] = S!NoCall]
    PROVE  SessionInv'
<1>1. SessionTyped /\ TokensApart
  BY DEF SessionInv
<1>2. /\ S!NoCall.pc = "idle" /\ S!NoCall.token = "NONE"
      /\ S!NoCall \in [pc : SessionPc, token : Events \cup {"NONE"}, version : Nat]
  BY DEF S!NoCall, SessionPc
<1>3. /\ session' \in [Events -> [at : {"NONE", "VALID", "REVOKED", "EXPIRED", "GONE"},
                                 version : Nat]]
      /\ \A t \in Events : session'[t].at = "NONE" <=> session[t].at = "NONE"
  BY <1>1 DEF SessionTyped, S!Deleted, S!NoSession
<1>4. SessionTyped'
  BY <1>1, <1>2, <1>3 DEF SessionTyped, S!Issued
<1>5. \A d \in Caller : caller'[d] = caller[d] \/ caller'[d] = S!NoCall
  BY <1>1 DEF SessionTyped
<1>6. \A t \in ended' : session'[t].at # "NONE"
  BY <1>1, <1>3 DEF SessionTyped, TokensApart, S!Issued
<1>7. TokensApart'
  BY <1>1, <1>2, <1>3, <1>5, <1>6 DEF SessionTyped, TokensApart
<1> QED
  BY <1>4, <1>7 DEF SessionInv

LEMMA RequestDeletionStep ==
    ASSUME SessionInv, NEW c \in Caller, S!RequestDeletion(c)
    PROVE  SessionInv'
<1>1. caller' = [caller EXCEPT ![c] = S!NoCall]
  BY DEF S!RequestDeletion, S!Leave
<1>2. caller[c].version + 1 \in Nat
  BY DEF SessionInv, SessionTyped
<1>3. CASE account = "ACTIVE" /\ caller[c].version < MaxVersion
  BY <1>1, <1>2, <1>3, SessionsDeleted DEF S!RequestDeletion
<1>4. CASE ~(account = "ACTIVE" /\ caller[c].version < MaxVersion)
  BY <1>1, <1>4, RequestLeaves DEF S!RequestDeletion
<1> QED
  BY <1>3, <1>4

LEMMA FinishDeletionStep ==
    ASSUME SessionInv, S!FinishDeletion
    PROVE  SessionInv'
<1>1. version + 1 \in Nat
  BY DEF SessionInv, SessionTyped
<1> QED
  BY <1>1, SessionsDeleted DEF S!FinishDeletion

LEMMA CallbackStep ==
    ASSUME SessionInv, NEW c \in Caller, NEW t \in Events, S!Callback(c, t)
    PROVE  SessionInv'
BY RequestEnters DEF S!Callback, SessionPc

LEMMA AuthenticateStep ==
    ASSUME SessionInv, NEW c \in Caller, NEW t \in Events,
           NEW p \in {"logout", "verify", "delete"}, S!Authenticate(c, p, t)
    PROVE  SessionInv'
BY RequestEnters DEF S!Authenticate, S!Accepted, SessionPc

LEMMA SessionStep == SessionInv /\ [S!Next]_(S!vars) => SessionInv'
<1> SUFFICES ASSUME SessionInv, [S!Next]_(S!vars)
             PROVE  SessionInv'
  OBVIOUS
<1>1. CASE UNCHANGED S!vars
  BY <1>1 DEF S!vars, SessionInv, SessionTyped, TokensApart, VersionsInOrder
<1>2. CASE S!Next
  BY <1>2, CallbackStep, AuthenticateStep, IssueStep, RevokeStep, MfaVerifiedStep,
     MfaRefusedStep, RequestDeletionStep, FinishDeletionStep, ExpireStep DEF S!Next
<1> QED
  BY <1>1, <1>2

\* The bounds of the versions, and what each request holds.
LEMMA SessionTypeInit == S!Init => S!TypeOK
<1> SUFFICES ASSUME S!Init
             PROVE  S!TypeOK
  OBVIOUS
<1>1. 1 \in 1..MaxVersion /\ 0 \in 0..MaxVersion
  BY UserWorkConstants DEF UserWorkConstants
<1>2. session \in [Events -> [at : {"NONE", "VALID", "REVOKED", "EXPIRED", "GONE"},
                             version : 0..MaxVersion]]
  BY <1>1 DEF S!Init, S!NoSession
<1>3. raced \in BOOLEAN /\ ended \subseteq Events /\ version \in 1..MaxVersion
  BY <1>1 DEF S!Init
<1>4. \A c \in Caller : caller[c] = S!NoCall
  BY DEF S!Init
<1>5. account \in {"ACTIVE", "DELETION_PENDING", "DELETED"}
  BY DEF S!Init
<1> QED
  BY <1>2, <1>3, <1>4, <1>5 DEF S!TypeOK

LEMMA SessionTypeStep ==
    SessionInv /\ S!TypeOK /\ [S!Next]_(S!vars) => S!TypeOK'
<1> SUFFICES ASSUME SessionInv, S!TypeOK, [S!Next]_(S!vars)
             PROVE  S!TypeOK'
  OBVIOUS
<1> USE UserWorkConstants DEF UserWorkConstants
<1> DEFINE Held == [pc : {"login", "logout", "verify", "delete"}, token : Events,
                    version : 1..MaxVersion]
           Row == [at : {"NONE", "VALID", "REVOKED", "EXPIRED", "GONE"}, version : 0..MaxVersion]
<1>1. caller = [c \in Caller |-> caller[c]] /\ session = [t \in Events |-> session[t]]
  BY DEF SessionInv, SessionTyped
<1>2. ASSUME NEW c \in Caller, NEW x, x = S!NoCall \/ x \in Held,
             caller' = [caller EXCEPT ![c] = x]
      PROVE  \A d \in Caller : caller'[d] = S!NoCall \/ caller'[d] \in Held
  BY <1>1, <1>2 DEF S!TypeOK
<1>3. ASSUME NEW c \in Caller, NEW p, S!Leave(c, p)
      PROVE  \A d \in Caller : caller'[d] = S!NoCall \/ caller'[d] \in Held
  BY <1>2, <1>3 DEF S!Leave
<1>4. ASSUME NEW c \in Caller, caller[c].pc # "idle"
      PROVE  caller[c] \in Held
  BY <1>4 DEF S!TypeOK, S!NoCall
<1>5. S!Deleted \in [Events -> Row] /\ S!Issued \subseteq Events
  BY DEF S!TypeOK, S!Deleted, S!NoSession, S!Issued
<1>6. ASSUME NEW c \in Caller, NEW p \in {"login", "logout", "verify", "delete"},
             NEW t \in Events, S!Enter(c, p, t)
      PROVE  S!TypeOK'
  <2> DEFINE x == [pc |-> p, token |-> t, version |-> version]
  <2>1. x \in Held /\ caller' = [caller EXCEPT ![c] = x]
    BY <1>6 DEF S!Enter, S!TypeOK
  <2>2. raced' \in BOOLEAN
    BY <1>6 DEF S!Enter
  <2> HIDE DEF x
  <2>3. \A d \in Caller : caller'[d] = S!NoCall \/ caller'[d] \in Held
    BY <1>2, <2>1
  <2> QED
    BY <1>6, <2>2, <2>3 DEF S!Enter, S!TypeOK
<1>7. ASSUME NEW c \in Caller, S!Issue(c)
      PROVE  S!TypeOK'
  <2> DEFINE x == [at |-> "VALID", version |-> caller[c].version]
  <2>1. caller[c] \in Held /\ x \in Row
    BY <1>4, <1>7 DEF S!Issue, S!Leave
  <2>2. session' = [session EXCEPT ![caller[c].token] = x]
    BY <1>7 DEF S!Issue
  <2> HIDE DEF x
  <2>3. session' \in [Events -> Row]
    BY <2>1, <2>2 DEF S!TypeOK
  <2> QED
    BY <1>3, <1>7, <2>3 DEF S!Issue, S!TypeOK
<1>8. ASSUME NEW c \in Caller, S!Revoke(c)
      PROVE  S!TypeOK'
  <2>1. caller[c] \in Held
    BY <1>4, <1>8 DEF S!Revoke, S!Leave
  <2>2. session' \in [Events -> Row] /\ ended' \subseteq Events
    BY <1>8, <2>1 DEF S!Revoke, S!TypeOK
  <2> QED
    BY <1>3, <1>8, <2>2 DEF S!Revoke, S!TypeOK
<1>9. ASSUME NEW c \in Caller, S!MfaVerified(c) \/ S!MfaRefused(c)
      PROVE  S!TypeOK'
  <2>1. caller[c] \in Held
    BY <1>4, <1>9 DEF S!MfaVerified, S!MfaRefused, S!Leave
  <2>2. version' \in 1..MaxVersion /\ ended' \subseteq Events
    BY <1>5, <1>9, <2>1 DEF S!MfaVerified, S!MfaRefused, S!TypeOK
  <2> QED
    BY <1>3, <1>9, <2>2 DEF S!MfaVerified, S!MfaRefused, S!TypeOK
<1>10. ASSUME NEW c \in Caller, S!RequestDeletion(c)
       PROVE  S!TypeOK'
  <2>1. caller[c] \in Held
    BY <1>4, <1>10 DEF S!RequestDeletion, S!Leave
  <2>2. /\ account' \in {"ACTIVE", "DELETION_PENDING", "DELETED"}
        /\ version' \in 1..MaxVersion /\ ended' \subseteq Events
        /\ session' \in [Events -> Row]
    BY <1>5, <1>10, <2>1 DEF S!RequestDeletion, S!TypeOK
  <2> QED
    BY <1>3, <1>10, <2>2 DEF S!RequestDeletion, S!TypeOK
<1>11. CASE S!FinishDeletion
  BY <1>5, <1>11 DEF S!FinishDeletion, S!TypeOK
<1>12. ASSUME NEW t \in Events, S!Expire(t)
       PROVE  S!TypeOK'
  <2>1. session' \in [Events -> Row] /\ ended' \subseteq Events
    BY <1>12 DEF S!Expire, S!TypeOK
  <2> QED
    BY <1>12, <2>1 DEF S!Expire, S!TypeOK
<1>13. CASE UNCHANGED S!vars
  BY <1>13 DEF S!vars, S!TypeOK
<1> QED
  BY <1>6, <1>7, <1>8, <1>9, <1>10, <1>11, <1>12, <1>13
     DEF S!Next, S!Callback, S!Authenticate

-----------------------------------------------------------------------------
(* NotificationDelivery *)

\* A message that can be received has receives left.
CopiesFresh ==
    \A c \in Message :
        /\ copy[c] = "UNSENT" => receives[c] = 0
        /\ copy[c] = "VISIBLE" => receives[c] < MaxDeliveries

\* A worker at work read a row that was neither sent nor out of attempts.
SeenOpen ==
    \A k \in Worker : worker[k] # N!Idle =>
        worker[k].seen.status # "SENT" /\ worker[k].seen.attempts < MaxAttempts

\* Deliveries that have not overlapped are one at a time, and none once the row is SENT.
DigestAlone ==
    /\ \A j, k \in Worker : worker[j] # N!Idle /\ worker[k] # N!Idle => j = k
    /\ row.status = "SENT" => \A k \in Worker : worker[k] = N!Idle

DigestInv ==
    /\ N!TypeOK /\ CopiesFresh /\ SeenOpen
    /\ N!NoForgottenDelivery
    /\ ~overlapped => DigestAlone

-----------------------------------------------------------------------------
LEMMA DigestInit == N!Init => DigestInv
<1> SUFFICES ASSUME N!Init PROVE DigestInv
  OBVIOUS
<1> USE UserWorkConstants DEF UserWorkConstants, N!Init
<1>1. row \in N!Row /\ row # N!NoRow /\ row.status = "QUEUED" /\ row.attempts = 0
  BY DEF N!Row, N!NoRow
<1>2. N!TypeOK
  <2>1. 0 \in 0..MaxDeliveries /\ 0 \in 0..MaxAccepted
    OBVIOUS
  <2>2. row.attempts <= MaxAttempts
    BY <1>1
  <2>3. copy \in [Message -> {"UNSENT", "VISIBLE", "INFLIGHT", "ACKED", "DLQ"}]
    OBVIOUS
  <2>4. receives \in [Message -> 0..MaxDeliveries] /\ worker \in [Worker -> {N!Idle} \cup N!Busy]
    BY <2>1
  <2> QED
    BY <1>1, <2>1, <2>2, <2>3, <2>4 DEF N!TypeOK
<1>3. CopiesFresh /\ SeenOpen
  BY DEF CopiesFresh, SeenOpen
<1>4. N!NoForgottenDelivery
  BY DEF N!NoForgottenDelivery
<1>5. DigestAlone
  BY <1>1 DEF DigestAlone
<1> QED
  BY <1>2, <1>3, <1>4, <1>5 DEF DigestInv

\* The pump and the operator: a message moves and no worker is touched.
LEMMA CopyMoves ==
    ASSUME DigestInv, NEW c \in Message, N!Send(c) \/ N!Redrive(c)
    PROVE  DigestInv'
<1> USE UserWorkConstants DEF UserWorkConstants
<1>1. /\ copy' = [copy EXCEPT ![c] = "VISIBLE"]
      /\ UNCHANGED <<row, worker, accepted, overlapped>>
      /\ \/ receives' = receives /\ receives[c] = 0
         \/ receives' = [receives EXCEPT ![c] = 0]
  BY DEF N!Send, N!Redrive, DigestInv, CopiesFresh, N!TypeOK
<1>2. N!TypeOK'
  BY <1>1 DEF DigestInv, N!TypeOK
<1>3. CopiesFresh'
  BY <1>1 DEF DigestInv, CopiesFresh, N!TypeOK
<1>4. N!NoForgottenDelivery'
  BY <1>1 DEF DigestInv, N!NoForgottenDelivery, N!TypeOK
<1> QED
  BY <1>1, <1>2, <1>3, <1>4 DEF DigestInv, SeenOpen, DigestAlone

\* A message that comes back, or not.
LEMMA CopyReturns ==
    ASSUME DigestInv, NEW c \in Message,
           receives' \in [Message -> 0..MaxDeliveries],
           \A d \in Message : d # c => receives'[d] = receives[d],
           N!Raise(c) \/ N!Acknowledge(c) \/ copy' = [copy EXCEPT ![c] = "INFLIGHT"]
    PROVE  /\ copy' \in [Message -> {"UNSENT", "VISIBLE", "INFLIGHT", "ACKED", "DLQ"}]
           /\ CopiesFresh'
           /\ N!Acknowledge(c) \/ copy'[c] # "ACKED"
           /\ \A d \in Message : d # c => copy'[d] = copy[d]
BY UserWorkConstants DEF UserWorkConstants, DigestInv, N!TypeOK, CopiesFresh, N!Raise, N!Returned, N!Acknowledge

LEMMA ReceiveDigest ==
    ASSUME DigestInv, NEW k \in Worker, NEW c \in Message,
           N!ReceiveDone(k, c) \/ N!ReceiveRefused(k, c) \/ N!ReceiveWork(k, c)
    PROVE  DigestInv' /\ N!SentIsKept
<1>1. /\ N!TypeOK /\ CopiesFresh /\ SeenOpen /\ N!NoForgottenDelivery
      /\ worker[k] = N!Idle /\ copy[c] = "VISIBLE" /\ receives[c] < MaxDeliveries
      /\ receives' = [receives EXCEPT ![c] = @ + 1]
      /\ overlapped' = (overlapped \/ \E j \in Worker : worker[j] # N!Idle)
      /\ UNCHANGED <<row, accepted>>
  BY DEF DigestInv, CopiesFresh, N!Receive, N!ReceiveDone, N!ReceiveRefused, N!ReceiveWork
<1>2. receives' \in [Message -> 0..MaxDeliveries] /\ \A d \in Message : d # c => receives'[d] = receives[d]
  BY <1>1, UserWorkConstants DEF UserWorkConstants, N!TypeOK
<1>3. /\ copy' \in [Message -> {"UNSENT", "VISIBLE", "INFLIGHT", "ACKED", "DLQ"}]
      /\ CopiesFresh'
      /\ N!Acknowledge(c) \/ copy'[c] # "ACKED"
      /\ \A d \in Message : d # c => copy'[d] = copy[d]
  BY <1>2, CopyReturns DEF N!ReceiveDone, N!ReceiveRefused, N!ReceiveWork
<1>4. N!SentIsKept
  <2>1. row.status = "SENT" => row'.status = "SENT"
    BY <1>1
  <2> QED
    BY <1>1, <2>1 DEF N!SentIsKept
<1>5. CASE N!ReceiveDone(k, c) \/ N!ReceiveRefused(k, c)
  <2>1. UNCHANGED worker /\ (N!IsDone \/ copy'[c] # "ACKED")
    BY <1>1, <1>5 DEF N!ReceiveDone, N!ReceiveRefused, N!Raise, N!Returned, N!TypeOK
  <2>2. N!TypeOK' /\ SeenOpen'
    BY <1>1, <1>2, <1>3, <2>1 DEF N!TypeOK, SeenOpen
  <2>3. N!NoForgottenDelivery'
    BY <1>1, <1>3, <2>1, UserWorkConstants DEF UserWorkConstants, N!NoForgottenDelivery, N!IsDone, N!TypeOK, N!Row
  <2>4. ~overlapped' => DigestAlone'
    BY <1>1, <2>1 DEF DigestAlone, DigestInv
  <2> QED
    BY <1>3, <2>2, <2>3, <2>4, <1>4 DEF DigestInv
<1>6. CASE N!ReceiveWork(k, c)
  <2>1. PICK p \in {"send", "failed"} :
           worker' = [worker EXCEPT ![k] = [pc |-> p, copy |-> c, seen |-> row]]
    BY <1>6 DEF N!ReceiveWork
  <2>2. row \in N!Row /\ row # N!NoRow /\ row.status # "SENT" /\ row.attempts < MaxAttempts
    BY <1>1, <1>6, UserWorkConstants DEF UserWorkConstants, N!ReceiveWork, N!IsDone, N!TypeOK, N!Row
  <2> DEFINE w == [pc |-> p, copy |-> c, seen |-> row]
  <2>3. w \in N!Busy /\ w # N!Idle /\ w.seen = row
    BY <2>2 DEF N!Busy, N!Idle
  <2> HIDE DEF w
  <2>4. N!TypeOK'
    <3>1. worker' \in [Worker -> {N!Idle} \cup N!Busy]
      BY <1>1, <2>1, <2>3 DEF N!TypeOK, w
    <3>2. overlapped' \in BOOLEAN
      BY <1>1
    <3> QED
      BY <1>1, <1>2, <1>3, <3>1, <3>2 DEF N!TypeOK
  <2>5. SeenOpen'
    BY <1>1, <2>1, <2>2, <2>3 DEF SeenOpen, N!TypeOK
  <2>6. N!NoForgottenDelivery'
    BY <1>6, <1>1 DEF N!ReceiveWork, N!TypeOK, N!NoForgottenDelivery
  <2>7. ~overlapped' => DigestAlone'
    BY <1>1, <2>1, <2>2, <2>3 DEF DigestAlone, N!TypeOK
  <2> QED
    BY <1>3, <1>4, <2>4, <2>5, <2>6, <2>7 DEF DigestInv
<1> QED
  BY <1>5, <1>6

-----------------------------------------------------------------------------
\* What a worker writes of the row it read: the attempt it made, and SENT if it was.
LEMMA Flushed ==
    ASSUME NEW seen \in N!Row, seen.status # "SENT", seen.attempts < MaxAttempts,
           row \in N!Row, NEW s \in {"SENT", "FAILED"}
    PROVE  LET new == N!Flush(seen, N!Attempted(seen, s))
           IN  /\ new \in N!Row
               /\ new.attempts = seen.attempts + 1
               /\ s = "SENT" => new.status = "SENT"
<1> DEFINE new  == N!Attempted(seen, s)
           kept == N!Flush(seen, new)
<1>1. seen.attempts \in Nat /\ seen.status \in {"QUEUED", "FAILED"} /\ row.status \in {"QUEUED", "FAILED", "SENT"}
  BY DEF N!Row
<1>2. new = [status |-> s, attempts |-> seen.attempts + 1]
  BY DEF N!Attempted
<1>3. DOMAIN new = {"status", "attempts"} /\ new.status = s /\ new.attempts = seen.attempts + 1
  BY <1>2
<1> HIDE DEF new
<1>4. kept = [c \in DOMAIN new |-> N!Merge(row[c], seen[c], new[c])]
  BY DEF N!Flush
<1>5. kept = [c \in {"status", "attempts"} |-> N!Merge(row[c], seen[c], new[c])]
  BY <1>3, <1>4
<1> HIDE DEF kept
<1>6. /\ kept.status = N!Merge(row.status, seen.status, new.status)
      /\ kept.attempts = N!Merge(row.attempts, seen.attempts, new.attempts)
  BY <1>5
<1>7. kept.attempts = seen.attempts + 1
  BY <1>1, <1>3, <1>6 DEF N!Merge
<1>8. kept.status \in {"QUEUED", "FAILED", "SENT"} /\ (s = "SENT" => kept.status = "SENT")
  BY <1>1, <1>3, <1>6 DEF N!Merge
<1>9. kept = [status |-> kept.status, attempts |-> kept.attempts]
  BY <1>5
<1>10. kept \in N!Row
  BY <1>1, <1>7, <1>8, <1>9 DEF N!Row
<1> QED
  BY <1>7, <1>8, <1>10 DEF kept, new

LEMMA WorkDigest ==
    ASSUME DigestInv, NEW k \in Worker,
           N!CallProvider(k) \/ N!CommitSent(k) \/ N!CommitFailed(k) \/ N!Crash(k)
    PROVE  DigestInv' /\ N!SentIsKept
<1> DEFINE c    == worker[k].copy
           seen == worker[k].seen
<1>1. /\ N!TypeOK /\ CopiesFresh /\ SeenOpen /\ N!NoForgottenDelivery
      /\ ~overlapped => DigestAlone
  BY DEF DigestInv
<1>2. worker[k] # N!Idle /\ UNCHANGED <<receives, overlapped>>
  BY DEF N!CallProvider, N!CommitSent, N!CommitFailed, N!Crash, N!At, N!Idle
<1>3. /\ worker[k] \in N!Busy /\ c \in Message /\ seen \in N!Row
      /\ seen.status # "SENT" /\ seen.attempts < MaxAttempts
  BY <1>1, <1>2 DEF N!TypeOK, SeenOpen, N!Busy
<1>4. N!SentIsKept
  BY <1>1, <1>2 DEF N!SentIsKept, DigestAlone
<1>5. CASE N!CallProvider(k)
  <2>1. PICK answer \in {"sent", "failed"}, n \in {accepted, accepted + 1} :
           /\ n <= MaxAccepted /\ accepted' = n
           /\ worker' = [worker EXCEPT ![k].pc = answer]
    BY <1>5 DEF N!CallProvider
  <2> DEFINE w == [worker[k] EXCEPT !.pc = answer]
  <2>2. w \in N!Busy /\ w.seen = seen /\ w # N!Idle /\ worker' = [worker EXCEPT ![k] = w]
    <3>1. w \in N!Busy /\ w.seen = seen /\ worker' = [worker EXCEPT ![k] = w]
      BY <1>3, <2>1 DEF N!Busy
    <3>2. w.pc \in {"sent", "failed"}
      BY <1>3 DEF N!Busy
    <3> QED
      BY <3>1, <3>2 DEF N!Idle
  <2>3. UNCHANGED <<row, copy>>
    BY <1>5 DEF N!CallProvider
  <2> HIDE DEF w
  <2>4. accepted' \in 0..MaxAccepted
    BY <1>1, <2>1, UserWorkConstants DEF UserWorkConstants, N!TypeOK
  <2>5. N!TypeOK'
    BY <1>1, <1>2, <2>2, <2>3, <2>4 DEF N!TypeOK
  <2>6. SeenOpen'
    BY <1>1, <1>3, <2>2 DEF SeenOpen, N!TypeOK
  <2>7. DigestAlone => DigestAlone'
    BY <1>1, <1>2, <2>2, <2>3 DEF DigestAlone, N!TypeOK
  <2> QED
    BY <1>1, <1>2, <1>4, <2>3, <2>5, <2>6, <2>7 DEF DigestInv, CopiesFresh, N!NoForgottenDelivery
<1>6. ASSUME UNCHANGED accepted, N!Finish(k),
             row' \in N!Row \cup {N!NoRow}, row' # N!NoRow => row'.attempts <= MaxAttempts,
             \/ N!Raise(c)
             \/ N!Acknowledge(c) /\ row' # N!NoRow /\ row'.status = "SENT"
      PROVE  DigestInv'
  <2>1. worker' = [worker EXCEPT ![k] = N!Idle]
    BY <1>6 DEF N!Finish
  <2>2. /\ copy' \in [Message -> {"UNSENT", "VISIBLE", "INFLIGHT", "ACKED", "DLQ"}]
        /\ CopiesFresh'
        /\ N!Acknowledge(c) \/ copy'[c] # "ACKED"
    <3>1. receives' \in [Message -> 0..MaxDeliveries] /\ receives' = receives
      BY <1>1, <1>2 DEF N!TypeOK
    <3> HIDE DEF c
    <3> QED
      BY <1>3, <1>6, <3>1, CopyReturns
  <2>3. N!TypeOK'
    BY <1>1, <1>2, <1>6, <2>1, <2>2 DEF N!TypeOK
  <2>4. SeenOpen'
    BY <1>1, <2>1 DEF SeenOpen, N!TypeOK
  <2>5. N!NoForgottenDelivery'
    BY <1>3, <1>6, <2>2 DEF N!NoForgottenDelivery, N!Raise, N!Returned
  <2>6. ~overlapped' => DigestAlone'
    BY <1>1, <1>2, <2>1 DEF DigestAlone, N!TypeOK
  <2> QED
    BY <2>2, <2>3, <2>4, <2>5, <2>6 DEF DigestInv
<1>7. CASE N!CommitSent(k) /\ row # N!NoRow
  <2>1. /\ row \in N!Row /\ row' = N!Flush(seen, N!Attempted(seen, "SENT"))
        /\ UNCHANGED accepted /\ N!Finish(k) /\ N!Acknowledge(c)
    BY <1>1, <1>7 DEF N!CommitSent, N!TypeOK
  <2>2. row' \in N!Row /\ row'.status = "SENT" /\ row'.attempts = seen.attempts + 1
    BY <1>3, <2>1, Flushed
  <2>3. row'.attempts <= MaxAttempts /\ row' # N!NoRow
    BY <1>3, <2>2, UserWorkConstants DEF UserWorkConstants, N!Row, N!NoRow
  <2> QED
    BY <1>4, <1>6, <2>1, <2>2, <2>3
<1>8. CASE N!CommitFailed(k) /\ row # N!NoRow
  <2>1. /\ row \in N!Row /\ row' = N!Flush(seen, N!Attempted(seen, "FAILED"))
        /\ UNCHANGED accepted /\ N!Finish(k) /\ N!Raise(c)
    BY <1>1, <1>8 DEF N!CommitFailed, N!TypeOK
  <2>2. row' \in N!Row /\ row'.attempts = seen.attempts + 1
    BY <1>3, <2>1, Flushed
  <2>3. row'.attempts <= MaxAttempts
    BY <1>3, <2>2, UserWorkConstants DEF UserWorkConstants, N!Row
  <2> QED
    BY <1>4, <1>6, <2>1, <2>2, <2>3
<1>9. CASE N!Crash(k) \/ (row = N!NoRow /\ (N!CommitSent(k) \/ N!CommitFailed(k)))
  <2>1. UNCHANGED <<row, accepted>> /\ N!Finish(k) /\ N!Raise(c)
    BY <1>9 DEF N!Crash, N!CommitSent, N!CommitFailed
  <2> QED
    BY <1>1, <1>4, <1>6, <2>1 DEF N!TypeOK
<1> QED
  BY <1>5, <1>7, <1>8, <1>9

LEMMA DigestStep == DigestInv /\ [N!Next]_(N!vars) => DigestInv' /\ N!SentIsKept
<1> SUFFICES ASSUME DigestInv, [N!Next]_(N!vars)
             PROVE  DigestInv' /\ N!SentIsKept
  OBVIOUS
<1>1. N!TypeOK /\ CopiesFresh /\ SeenOpen /\ N!NoForgottenDelivery /\ (~overlapped => DigestAlone)
  BY DEF DigestInv
<1>2. CASE UNCHANGED N!vars
  BY <1>1, <1>2 DEF N!vars, DigestInv, N!TypeOK, CopiesFresh, SeenOpen, N!NoForgottenDelivery,
     DigestAlone, N!SentIsKept
<1>3. CASE N!DeleteDigest
  <2>1. /\ row' = N!NoRow /\ N!NoRow.status = "DELETED"
        /\ UNCHANGED <<copy, receives, worker, accepted, overlapped>>
    BY <1>3 DEF N!DeleteDigest, N!NoRow
  <2> QED
    BY <1>1, <2>1 DEF DigestInv, N!TypeOK, CopiesFresh, SeenOpen, N!NoForgottenDelivery,
       DigestAlone, N!SentIsKept
<1>4. ASSUME NEW c \in Message, N!Send(c) \/ N!Redrive(c)
      PROVE  DigestInv' /\ N!SentIsKept
  <2>1. UNCHANGED <<row, accepted>>
    BY <1>4 DEF N!Send, N!Redrive
  <2> QED
    BY <1>4, <2>1, CopyMoves DEF N!SentIsKept
<1> QED
  BY <1>2, <1>3, <1>4, ReceiveDigest, WorkDigest DEF N!Next

-----------------------------------------------------------------------------
(* The theorems *)

AiPart      == part = "ai" => AiInv
PagePart    == part = "analyze" => PageInv
WatchPart   == part = "expand" => ExpansionInv
SessionPart == part = "session" => SessionInv /\ S!TypeOK
DigestPart  == part = "digest" => DigestInv

LEMMA AiAlways == UserWork => []AiPart
<1>1. UserWorkInit => AiPart
  BY PartInits, AiInit DEF AiPart
<1>2. AiPart /\ [UserWorkNext]_allVars => AiPart'
  BY PartSteps, AiStep DEF AiPart
<1> QED
  BY <1>1, <1>2, PTL DEF UserWork

LEMMA PageAlways == UserWork => []PagePart
<1>1. UserWorkInit => PagePart
  BY PartInits, PageInit DEF PagePart
<1>2. PagePart /\ [UserWorkNext]_allVars => PagePart'
  BY PartSteps, PageStep DEF PagePart
<1> QED
  BY <1>1, <1>2, PTL DEF UserWork

LEMMA WatchAlways == UserWork => []WatchPart
<1>1. UserWorkInit => WatchPart
  BY PartInits, ExpansionInit DEF WatchPart
<1>2. WatchPart /\ [UserWorkNext]_allVars => WatchPart'
  BY PartSteps, ExpansionStep DEF WatchPart
<1> QED
  BY <1>1, <1>2, PTL DEF UserWork

LEMMA SessionAlways == UserWork => []SessionPart
<1>1. UserWorkInit => SessionPart
  BY PartInits, SessionInit, SessionTypeInit DEF SessionPart
<1>2. SessionPart /\ [UserWorkNext]_allVars => SessionPart'
  BY PartSteps, SessionStep, SessionTypeStep DEF SessionPart
<1> QED
  BY <1>1, <1>2, PTL DEF UserWork

LEMMA DigestAlways == UserWork => []DigestPart
<1>1. UserWorkInit => DigestPart
  BY PartInits, DigestInit DEF DigestPart
<1>2. DigestPart /\ [UserWorkNext]_allVars => DigestPart'
  BY PartSteps, DigestStep DEF DigestPart
<1> QED
  BY <1>1, <1>2, PTL DEF UserWork

\* The part that Init chose is the one that runs, and its variables keep their types:
\* counters their bounds, statuses what models.py admits.
THEOREM UserWorkTyped == UserWork => []TypesOK
<1> DEFINE Chosen == part \in {"ai", "analyze", "expand", "session", "digest"}
<1>1. UserWorkInit => Chosen
  BY DEF UserWorkInit
<1>2. Chosen /\ [UserWorkNext]_allVars => Chosen'
  BY PartSteps
<1>3. Chosen /\ AiPart /\ PagePart /\ WatchPart /\ SessionPart /\ DigestPart => TypesOK
  <2> SUFFICES ASSUME Chosen, AiPart, PagePart, WatchPart, SessionPart, DigestPart
               PROVE  TypesOK
    OBVIOUS
  <2>1. CASE part = "ai"
    BY <2>1, AiTypes DEF TypesOK, AiPart
  <2>2. CASE part = "analyze"
    BY <2>2, PageTypes DEF TypesOK, PagePart
  <2>3. CASE part = "expand"
    BY <2>3, ExpansionTypes DEF TypesOK, WatchPart
  <2>4. CASE part = "session"
    BY <2>4 DEF TypesOK, SessionPart
  <2>5. CASE part = "digest"
    BY <2>5 DEF TypesOK, DigestPart, DigestInv
  <2> QED
    BY <2>1, <2>2, <2>3, <2>4, <2>5
<1> QED
  BY <1>1, <1>2, <1>3, AiAlways, PageAlways, WatchAlways, SessionAlways, DigestAlways, PTL DEF UserWork

\* Private AI: an artifact the user still waits for has an event or message that brings
\* a worker to it, however requests, deletions and workers overlap
\* (PrivateAiRequestService, PrivateAiOrchestrator.process).
THEOREM ArtifactIsAwaited == UserWork => []ArtifactHasMessage
<1>1. AiPart => ArtifactHasMessage
  BY AiWaits DEF AiPart, ArtifactHasMessage
<1> QED
  BY <1>1, AiAlways, PTL

\* Private AI: a suggestion is inserted once and is in the profile only by a decision; of
\* the suggestions whose decision no other came between the profile holds exactly what the
\* user accepted (ProfileSuggestionService).
THEOREM ProfileIsWhatWasAccepted == UserWork => []ProfileHoldsDecisions
<1>1. AiPart => ProfileHoldsDecisions
  BY DEF AiPart, AiInv, AiDecided, ProfileHoldsDecisions
<1> QED
  BY <1>1, AiAlways, PTL

\* Private AI: the rows requested in a period exceed the limit of the entitlement by fewer
\* than the requests that were past its check at once (EntitlementService.require_capacity).
THEOREM QuotaNeverExceeded == UserWork => []QuotaIsKept
<1>1. AiPart => QuotaIsKept
  BY AiCounts DEF AiPart, QuotaIsKept
<1> QED
  BY <1>1, AiAlways, PTL

\* Private AI: a redelivery, a second request or a copy never overwrites a draft the user
\* edited, unless two workers had the artifact at once (PrivateAiOrchestrator.process,
\* TailoredCvService).
THEOREM EditsAreKept == UserWork => EditsSurvive
<1>1. AiPart /\ [UserWorkNext]_allVars => [part = "ai" => EditKept]_allVars
  BY PartSteps, DraftStays DEF AiPart
<1> QED
  BY <1>1, AiAlways, PTL DEF UserWork, EditsSurvive

\* Analyze a job: an analysis without a profile has an event or message left, whatever
\* another request or worker does meanwhile (AnalyzeJobService).
THEOREM PageIsAwaited == UserWork => []PageHasMessage
<1>1. PagePart => PageHasMessage
  BY DEF PagePart, PageInv, PageHasMessage
<1> QED
  BY <1>1, PageAlways, PTL

\* Watch expansion: criteria the user saved have their expansion, or an event or message
\* that asks for it, also when the edit fell between a worker's second look and its commit,
\* unless that worker undid what another stored meanwhile (WatchService,
\* WatchExpansionOrchestrator).
THEOREM ExpansionIsAsked == UserWork => []ExpansionIsOwed
<1>1. WatchPart => ExpansionIsOwed
  BY ExpansionOwed DEF WatchPart, ExpansionIsOwed
<1> QED
  BY <1>1, WatchAlways, PTL

\* What a sign-out, a verification, a deletion or its lifetime ended is refused from
\* then on (SessionService.authenticate), for any number of sessions and requests.
THEOREM EndedIsFinal == UserWork => []EndedStaysEnded
<1>1. SessionInv => S!EndedStaysEnded
  <2> SUFFICES ASSUME SessionInv, ~raced, NEW t \in ended, S!Accepted(t)
               PROVE  FALSE
    BY DEF S!EndedStaysEnded
  <2>1. session[t].at = "VALID" /\ session[t].version = version /\ account = "ACTIVE"
    BY DEF S!Accepted
  <2>2. version \in Nat /\ session[t].version < version
    BY <2>1 DEF SessionInv, SessionTyped, VersionsInOrder
  <2> QED
    BY <2>1, <2>2
<1>2. SessionPart => EndedStaysEnded
  BY <1>1 DEF SessionPart, EndedStaysEnded
<1> QED
  BY <1>2, SessionAlways, PTL

\* Notifications: a delivery that is not SENT and may still be tried keeps a message,
\* in the dead-letter queue if nowhere else, whatever overlapping workers write to it
\* (NotificationDeliveryService).
THEOREM NothingForgotten == UserWork => []NoForgottenDelivery
<1>1. DigestPart => NoForgottenDelivery
  BY DEF DigestPart, DigestInv, NoForgottenDelivery
<1> QED
  BY <1>1, DigestAlways, PTL

\* Notifications: a SENT delivery is not sent again, whatever message of it arrives,
\* unless two deliveries of it were under way at once (NotificationDeliveryService).
THEOREM SentStaysSent == UserWork => SentIsFinal
<1>1. DigestPart /\ [UserWorkNext]_allVars => [part = "digest" => N!SentIsKept]_allVars
  BY PartSteps, DigestStep DEF DigestPart
<1> QED
  BY <1>1, DigestAlways, PTL DEF UserWork, SentIsFinal
=============================================================================
