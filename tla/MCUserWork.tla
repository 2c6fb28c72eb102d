----------------------------- MODULE MCUserWork -----------------------------
(***************************************************************************)
(* Five parts of what is done for one user that share no row a property is  *)
(* about: private AI, analyses of public pages, the expansion of a watch,   *)
(* sessions and the message of a digest.  Init chooses the part that runs;  *)
(* a variable the others have is Off.                                       *)
(***************************************************************************)
EXTENDS PrivateAi, TLC

CONSTANTS More,                        \* Message and More: events of a watch, tokens
          Page, Anonymous,
          Terms, Places, MaxVersion,
          MaxAttempts, MaxDeliveries, MaxAccepted

ASSUME UserWorkConstants ==
    /\ Message # {} /\ "NONE" \notin Page
    /\ Terms # {} /\ Places # {}
    /\ MaxVersion \in Nat \ {0}
    /\ MaxAttempts \in Nat /\ MaxDeliveries \in Nat \ {0} /\ MaxAccepted \in Nat

VARIABLES
    part,
    row, version, byUrl, listing,      \* AnalyzeJob
    criteria, expansion, crossed,      \* WatchExpansion
    account, session, ended,           \* Sessions
    copy, receives, accepted           \* NotificationDelivery

First == CHOOSE c \in [terms : Terms, places : Places] : TRUE
Events == Message \cup More

A == INSTANCE AnalyzeJob
W == INSTANCE WatchExpansion WITH Message <- Events
S == INSTANCE Sessions WITH Token <- Events
N == INSTANCE NotificationDelivery WITH Copy <- Message, MaxReceive <- MaxDeliveries

\* The variables that one part alone has.
own      == <<status, draft, batches, decision, faults, clones, crowd>>
analysis == <<byUrl, listing>>
watch    == <<criteria, expansion, crossed>>
users    == <<account, session, ended>>
digest   == <<copy, receives, accepted>>

Off == "off"
OwnOff ==
    /\ status = Off /\ draft = Off /\ batches = Off /\ decision = Off
    /\ faults = Off /\ clones = Off /\ crowd = Off
AnalysisOff == byUrl = Off /\ listing = Off
WatchOff    == criteria = Off /\ expansion = Off /\ crossed = Off
UsersOff    == account = Off /\ session = Off /\ ended = Off
DigestOff   == copy = Off /\ receives = Off /\ accepted = Off

UserWorkInit ==
    \/ /\ part = "ai" /\ Init
       /\ row = Off /\ version = Off
       /\ AnalysisOff /\ WatchOff /\ UsersOff /\ DigestOff
    \/ /\ part = "analyze" /\ A!Init
       /\ operation = Off /\ raced = Off /\ overlapped = Off
       /\ OwnOff /\ WatchOff /\ UsersOff /\ DigestOff
    \/ /\ part = "expand" /\ W!Init
       /\ row = Off /\ profile = Off /\ version = Off /\ overlapped = Off
       /\ OwnOff /\ AnalysisOff /\ UsersOff /\ DigestOff
    \/ /\ part = "session" /\ S!Init
       /\ row = Off /\ operation = Off /\ profile = Off /\ message = Off /\ worker = Off
       /\ overlapped = Off
       /\ OwnOff /\ AnalysisOff /\ WatchOff /\ DigestOff
    \/ /\ part = "digest" /\ N!Init
       /\ operation = Off /\ profile = Off /\ message = Off /\ caller = Off /\ raced = Off
       /\ version = Off
       /\ OwnOff /\ AnalysisOff /\ WatchOff /\ UsersOff

UserWorkNext ==
    \/ /\ part = "ai" /\ Next
       /\ UNCHANGED <<part, row, version, analysis, watch, users, digest>>
    \/ /\ part = "analyze" /\ A!Next
       /\ UNCHANGED <<part, operation, raced, overlapped, own, watch, users, digest>>
    \/ /\ part = "expand" /\ W!Next
       /\ UNCHANGED <<part, row, profile, version, overlapped, own, analysis, users, digest>>
    \/ /\ part = "session" /\ S!Next
       /\ UNCHANGED <<part, row, operation, profile, message, worker, overlapped, own,
                      analysis, watch, digest>>
    \/ /\ part = "digest" /\ N!Next
       /\ UNCHANGED <<part, operation, profile, message, caller, raced, version, own,
                      analysis, watch, users>>

allVars == <<vars, part, row, version, analysis, watch, users, digest>>
UserWork == UserWorkInit /\ [][UserWorkNext]_allVars

Symmetry == Permutations(Worker) \cup Permutations(Caller) \cup Permutations(Message)
                \cup Permutations(Tailored) \cup Permutations(Suggestions)

-----------------------------------------------------------------------------
(* The properties of the parts, each of the part that runs *)

\* Type correctness of every part.
TypesOK ==
    CASE part = "ai"      -> TypeOK
      [] part = "analyze" -> A!TypeOK
      [] part = "expand"  -> W!TypeOK
      [] part = "session" -> S!TypeOK
      [] part = "digest"  -> N!TypeOK

\* PrivateAi: edits of a tailored CV survive redeliveries.
EditsSurvive == [][part = "ai" => EditKept]_allVars

\* PrivateAi: an unfinished artifact has an event or message left.
ArtifactHasMessage == part = "ai" => WaitingHasMessage

\* PrivateAi: suggestions are proposed once, the profile holds what was accepted of them,
\* but for those whose decisions raced.
ProfileHoldsDecisions == part = "ai" => ProfileIsDecided

\* PrivateAi: no more than the requests that race for the last place exceed the entitlement.
QuotaIsKept == part = "ai" => QuotaHolds

\* AnalyzeJob: an analysis without a profile has an event or message left.
PageHasMessage == part = "analyze" => A!PageHasMessage

\* WatchExpansion: the criteria have their expansion, or one that asks for it.
ExpansionIsOwed == part = "expand" => W!ExpansionIsOwed

\* Sessions: no session that ended is accepted again.
EndedStaysEnded == part = "session" => S!EndedStaysEnded

\* NotificationDelivery: an unsent delivery that may be tried has a message left.
NoForgottenDelivery == part = "digest" => N!NoForgottenDelivery

\* NotificationDelivery: a SENT delivery is not sent again.
SentIsFinal == [][part = "digest" => N!SentIsKept]_allVars
=============================================================================
