------------------------------ MODULE Tracking ------------------------------
(***************************************************************************)
(* What one user keeps about one job: its row in the inbox (UserJob,        *)
(* InboxService) and the application for it (Application and its notes,     *)
(* interviews and reminders, ApplicationService).  The status is in both    *)
(* rows, an application writes both, the inbox only its own.  A request     *)
(* reads the rows and writes what differs from what it read at its commit;  *)
(* one whose row is gone by then fails and changes nothing.                 *)
(***************************************************************************)
CONSTANTS
    Entry,        \* bound: UserJob rows, one at a time (uq_user_job)
    Application,  \* bound: Application rows, one at a time (uq_user_application_job)
    Caller        \* requests under way at once

VARIABLES
    entry,        \* the status of each UserJob row, "NONE" before it and "GONE" after it
    application,  \* the same of each Application row
    children,     \* a note, an interview or a reminder of each application, one at most
    caller,
    said,         \* history: which of the two last set a status, or that it raced with something
    overlapped    \* history: requests under way that something else came between

vars == <<entry, application, children, caller, said, overlapped>>
rows == <<entry, application, children>>

-----------------------------------------------------------------------------
\* Both stand for more of their kind: what the inbox knows, and what follows an application.
InboxStatus       == {"NEW", "SAVED"}
ApplicationStatus == InboxStatus \cup {"APPLIED"}

Stored   == ApplicationStatus \cup {"NONE", "GONE"}
Child    == {"note", "interview", "reminder", "completed reminder"}
NoCall   == [op |-> "idle", application |-> "NONE", was |-> "NONE", entry |-> "NONE",
             shown |-> "NONE", to |-> "NONE"]

\* Type correctness; a job has one row of each kind, and only an application has children.
TypeOK ==
    /\ entry \in [Entry -> Stored] /\ application \in [Application -> Stored]
    /\ \A e, f \in Entry :
          entry[e] \in ApplicationStatus /\ entry[f] \in ApplicationStatus => e = f
    /\ \A a, b \in Application :
          application[a] \in ApplicationStatus /\ application[b] \in ApplicationStatus => a = b
    /\ children \in [Application -> Child \cup {"NONE"}]
    /\ \A a \in Application : children[a] # "NONE" => application[a] \in ApplicationStatus
    /\ \A c \in Caller : caller[c] = NoCall
           \/ caller[c] \in [op : {"create", "update", "write", "set"},
                             application : Application \cup {"NONE"}, was : Stored,
                             entry : Entry \cup {"NONE"}, shown : Stored,
                             to : ApplicationStatus]
    /\ said \in {"inbox", "application", "raced"} /\ overlapped \subseteq Caller

Init ==
    /\ entry = [e \in Entry |-> "NONE"]
    /\ application = [a \in Application |-> "NONE"]
    /\ children = [a \in Application |-> "NONE"]
    /\ caller = [c \in Caller |-> NoCall]
    /\ said = "inbox" /\ overlapped = {}

Listed(e)  == entry[e] \in ApplicationStatus
Owned(a)   == application[a] \in ApplicationStatus
NoEntry    == \A e \in Entry : ~Listed(e)
NotApplied == \A a \in Application : ~Owned(a)

Busy   == {c \in Caller : caller[c] # NoCall}
Notice == overlapped' = Busy

Enter(c, call) ==
    /\ caller[c] = NoCall
    /\ caller' = [caller EXCEPT ![c] = call]
    /\ overlapped' = IF Busy = {} THEN {} ELSE Busy \cup {c}

End(c) ==
    /\ caller' = [caller EXCEPT ![c] = NoCall]
    /\ overlapped' = overlapped \ {c}

Leave(c, op) == caller[c].op = op /\ End(c)

By(c) == IF c \in overlapped THEN "raced" ELSE "application"

\* The UPDATE of the inbox row is sent if the status differs from the one read.
Writes(call) == call.entry # "NONE" /\ call.to # call.shown
CanWrite(call) == Writes(call) => Listed(call.entry)
EntryAfter(call) == IF Writes(call) THEN [entry EXCEPT ![call.entry] = call.to] ELSE entry

-----------------------------------------------------------------------------
(* The inbox *)

\* Discovery matches the job (NEW), or the user saves its analysis (SAVED).
Appear(e, s) ==
    /\ NoEntry /\ entry[e] = "NONE"
    /\ entry' = [entry EXCEPT ![e] = s]
    /\ said' = "inbox"
    /\ Notice
    /\ UNCHANGED <<application, children, caller>>

ReadToSet(c, e, s) ==
    /\ Listed(e)
    /\ Enter(c, [NoCall EXCEPT !.op = "set", !.entry = e, !.shown = entry[e], !.to = s])
    /\ UNCHANGED <<rows, said>>

SetStatus(c) ==
    /\ Leave(c, "set") /\ CanWrite(caller[c])
    /\ entry' = EntryAfter(caller[c])
    /\ said' = "inbox"
    /\ UNCHANGED <<application, children>>

Remove(e) ==
    /\ Listed(e)
    /\ entry' = [entry EXCEPT ![e] = "GONE"]
    /\ Notice
    /\ UNCHANGED <<application, children, caller, said>>

-----------------------------------------------------------------------------
(* Applications *)

\* Only a job of the inbox can be applied for; an application there is, is returned.
ReadToCreate(c, e, s) ==
    /\ Listed(e) /\ NotApplied
    /\ Enter(c, [NoCall EXCEPT !.op = "create", !.entry = e, !.shown = entry[e], !.to = s])
    /\ UNCHANGED <<rows, said>>

Create(c) ==
    /\ Leave(c, "create") /\ CanWrite(caller[c]) /\ NotApplied
    /\ \E a \in Application :
          /\ application[a] = "NONE"
          /\ application' = [application EXCEPT ![a] = caller[c].to]
    /\ entry' = EntryAfter(caller[c])
    /\ said' = By(c)
    /\ UNCHANGED children

ReadToUpdate(c, a, s) ==
    /\ Owned(a)
    /\ Enter(c, [NoCall EXCEPT !.op = "update", !.application = a, !.was = application[a],
                               !.to = s])
    /\ UNCHANGED <<rows, said>>

\* An application whose UPDATE was sent and not committed is locked.
Locked(a) == \E c \in Caller : caller[c].op = "write" /\ caller[c].application = a

\* The query for the inbox row flushes the UPDATE of the application first.
Flush(c) ==
    LET a == caller[c].application IN
    /\ caller[c].op = "update" /\ Owned(a) /\ ~Locked(a)
    /\ caller' = [caller EXCEPT ![c] =
          IF NoEntry THEN [@ EXCEPT !.op = "write"]
          ELSE LET e == CHOOSE e \in Entry : Listed(e)
               IN  [@ EXCEPT !.op = "write", !.entry = e, !.shown = entry[e]]]
    /\ UNCHANGED <<rows, said, overlapped>>

ApplicationAfter(call) ==
    IF call.to = call.was THEN application
                          ELSE [application EXCEPT ![call.application] = call.to]

\* Mutant of Update: the inbox row keeps its status.
UpdateOne(c) ==
    /\ Leave(c, "write") /\ CanWrite(caller[c])
    /\ application' = ApplicationAfter(caller[c])
    /\ said' = By(c)
    /\ UNCHANGED <<entry, children>>

Update(c) ==
    /\ Leave(c, "write") /\ CanWrite(caller[c])
    /\ application' = ApplicationAfter(caller[c])
    /\ entry' = EntryAfter(caller[c])
    /\ said' = By(c)
    /\ UNCHANGED children

\* A row the request writes is gone, or the job was applied for by another request.
Fails(c) ==
    LET call == caller[c] IN
    /\ \/ call.op = "update" /\ ~Owned(call.application)
       \/ call.op \in {"create", "write", "set"} /\ ~CanWrite(call)
       \/ call.op = "create" /\ ~NotApplied
    /\ End(c)
    /\ UNCHANGED <<rows, said>>

\* Notes, interviews and reminders go with the application, the inbox row stays as it is.
Delete(a) ==
    /\ Owned(a) /\ ~Locked(a)
    /\ application' = [application EXCEPT ![a] = "GONE"]
    /\ children' = [children EXCEPT ![a] = "NONE"]
    /\ Notice
    /\ UNCHANGED <<entry, caller, said>>

Keep(a, old, new) ==
    /\ Owned(a) /\ children[a] = old
    /\ children' = [children EXCEPT ![a] = new]
    /\ UNCHANGED <<entry, application, caller, said, overlapped>>

AddNote(a)          == Keep(a, "NONE", "note")
DeleteNote(a)       == Keep(a, "note", "NONE")
AddInterview(a)     == Keep(a, "NONE", "interview")
AddReminder(a)      == Keep(a, "NONE", "reminder")
CompleteReminder(a) == Keep(a, "reminder", "completed reminder")

-----------------------------------------------------------------------------
Next ==
    \/ \E e \in Entry, s \in {"NEW", "SAVED"} : Appear(e, s)
    \/ \E e \in Entry : Remove(e)
    \/ \E c \in Caller, e \in Entry, s \in InboxStatus : ReadToSet(c, e, s)
    \/ \E c \in Caller, e \in Entry, s \in ApplicationStatus : ReadToCreate(c, e, s)
    \/ \E c \in Caller, a \in Application, s \in ApplicationStatus : ReadToUpdate(c, a, s)
    \/ \E c \in Caller : SetStatus(c) \/ Create(c) \/ Flush(c) \/ Update(c) \/ Fails(c)
    \/ \E a \in Application :
          \/ Delete(a) \/ AddNote(a) \/ DeleteNote(a) \/ AddInterview(a)
          \/ AddReminder(a) \/ CompleteReminder(a)

Spec == Init /\ [][Next]_vars

-----------------------------------------------------------------------------
(* Properties *)

\* The application and the inbox row agree from the commit of a request for the application
\* that nothing came between until something else sets a status, also when races had left
\* them apart before: nobody but the inbox or the next race takes them apart.
StatusesAgree ==
    said = "application" =>
        \A a \in Application, e \in Entry :
            Owned(a) /\ Listed(e) => application[a] = entry[e]

\* What the inbox lists.
Shown == {entry[e] : e \in {e \in Entry : Listed(e)}}

\* The route of the inbox declares what it answers with (InboxItemRead.status) and the
\* framework checks the answer against it: every status listed is one it declares.
InboxIsReadable == Shown \subseteq InboxStatus
=============================================================================
