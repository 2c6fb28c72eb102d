---------------------------- MODULE MCJobsAndData ----------------------------
(***************************************************************************)
(* Three parts that share no row: the private data of a user and its        *)
(* deletion, the shared analysis of a public job, and what a user keeps     *)
(* about a job.  Init chooses the part that runs, the others stay as they   *)
(* start.                                                                   *)
(***************************************************************************)
EXTENDS PrivateData, TLC

CONSTANTS
    Message,      \* messages of an analysis; rows of the inbox
    MaxDeaths     \* bound: workers of an analysis that die

ASSUME JobsAndDataConstants == MaxDeaths \in Nat /\ "NONE" \notin Message

VARIABLES
    part,
    profile, document, op, reader, event, deliveries, analyst, ledger, beside, \* PublicAnalysis
    entry, application, children, client, said, raced                          \* Tracking

P == INSTANCE PublicAnalysis WITH
        caller <- reader, message <- event, receives <- deliveries, worker <- analyst,
        overlapped <- beside, MaxCrashes <- MaxDeaths
T == INSTANCE Tracking WITH
        Entry <- Message, Application <- Worker, caller <- client, overlapped <- raced

analysis == <<profile, document, op, reader, event, deliveries, analyst, ledger, beside>>
tracking == <<entry, application, children, client, said, raced>>

JobsAndDataInit == Init /\ P!Init /\ T!Init /\ part \in {"data", "analysis", "tracking"}

JobsAndDataNext ==
    \/ part = "data" /\ Next /\ UNCHANGED <<part, analysis, tracking>>
    \/ part = "analysis" /\ P!Next /\ UNCHANGED <<part, vars, tracking>>
    \/ part = "tracking" /\ T!Next /\ UNCHANGED <<part, vars, analysis>>

JobsAndData == JobsAndDataInit /\ [][JobsAndDataNext]_<<part, vars, analysis, tracking>>

Symmetry == Permutations(Worker) \cup Permutations(Caller) \cup Permutations(Message)

-----------------------------------------------------------------------------
(* Properties; those of PrivateData keep their names *)

\* Type correctness of every part.
TypesOK == TypeOK /\ P!TypeOK /\ T!TypeOK

\* PublicAnalysis: a profile that waits for a worker has a message left.
AnalysisHasMessage == P!WaitingHasMessage

\* PublicAnalysis: a valid answer is bought once while deliveries do not overlap.
BoughtOnce == P!BoughtOnce

\* PublicAnalysis: no call is charged twice, and every call is while deliveries do not overlap.
ChargedInFull == P!ChargedInFull

\* PublicAnalysis: an analysis that was obtained is served, whatever requests did.
ResultSurvives == P!ResultSurvives

\* Tracking: the two statuses of a job part only if the inbox set its own last or requests
\* raced.
StatusesAgree == T!StatusesAgree
=============================================================================
