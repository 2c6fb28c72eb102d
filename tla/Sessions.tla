------------------------------ MODULE Sessions ------------------------------
(***************************************************************************)
(* Sessions of one user: the sign-in callback (UserService, SessionService. *)
(* issue), authenticate, sign-out, MFA verification and the two steps of an *)
(* account deletion that touch them.  A request keeps the User it read;     *)
(* security_version is written as what was read plus one.                   *)
(***************************************************************************)
EXTENDS Naturals

CONSTANTS
    Token,        \* bound: sessions issued
    Caller,       \* requests under way at once
    MaxVersion    \* bound: security_version

VARIABLES
    account,    \* User.account_status
    version,    \* User.security_version
    session,    \* AuthSession of each token: its security_version and what became of it
    caller,
    ended,      \* history: tokens there were when something ended the sessions
    raced       \* history: two MFA verifications overlapped

vars == <<account, version, session, caller, ended, raced>>

-----------------------------------------------------------------------------
NoSession == [at |-> "NONE", version |-> 0]
NoCall    == [pc |-> "idle", token |-> "NONE", version |-> 0]

TypeOK ==
    /\ account \in {"ACTIVE", "DELETION_PENDING", "DELETED"}
    /\ version \in 1..MaxVersion
    /\ session \in [Token -> [at : {"NONE", "VALID", "REVOKED", "EXPIRED", "GONE"},
                              version : 0..MaxVersion]]
    /\ \A c \in Caller : caller[c] = NoCall \/ caller[c] \in
           [pc : {"login", "logout", "verify", "delete"}, token : Token, version : 1..MaxVersion]
    /\ ended \subseteq Token /\ raced \in BOOLEAN

Init ==
    /\ account = "ACTIVE" /\ version = 1
    /\ session = [t \in Token |-> NoSession]
    /\ caller = [c \in Caller |-> NoCall]
    /\ ended = {} /\ raced = FALSE

Issued == {t \in Token : session[t].at # "NONE"}

\* What authenticate accepts.
Accepted(t) ==
    /\ session[t].at = "VALID" /\ session[t].version = version
    /\ account = "ACTIVE"

Enter(c, p, t) ==
    /\ caller[c] = NoCall
    /\ caller' = [caller EXCEPT ![c] = [pc |-> p, token |-> t, version |-> version]]
    /\ raced' = (raced \/ (p = "verify" /\ \E d \in Caller : caller[d].pc = "verify"))
    /\ UNCHANGED <<account, version, session, ended>>

Leave(c, p) == caller[c].pc = p /\ caller' = [caller EXCEPT ![c] = NoCall]

-----------------------------------------------------------------------------
\* The subject of a deleted account is gone, and would be another user.
Callback(c, t) ==
    /\ account # "DELETED" /\ session[t].at = "NONE"
    /\ \A d \in Caller : caller[d].token # t
    /\ Enter(c, "login", t)

\* The session has the security version of the user the callback read.
Issue(c) ==
    /\ Leave(c, "login")
    /\ session' = [session EXCEPT ![caller[c].token] =
          [at |-> "VALID", version |-> caller[c].version]]
    /\ UNCHANGED <<account, version, ended, raced>>

Authenticate(c, p, t) == Accepted(t) /\ Enter(c, p, t)

\* A session that is gone by now cannot be updated.
Revoke(c) ==
    LET t == caller[c].token IN
    /\ Leave(c, "logout")
    /\ session' = IF session[t].at = "GONE" THEN session
                  ELSE [session EXCEPT ![t].at = "REVOKED"]
    /\ ended' = ended \cup {t}
    /\ UNCHANGED <<account, version, raced>>

\* Mutant of MfaVerified: the security version stays.
MfaVerifiedOnly(c) ==
    /\ Leave(c, "verify")
    /\ ended' = ended \cup Issued
    /\ UNCHANGED <<account, version, session, raced>>

\* After the call of the identity provider every session of the user has ended.
MfaVerified(c) ==
    /\ Leave(c, "verify")
    /\ caller[c].version < MaxVersion
    /\ version' = caller[c].version + 1
    /\ ended' = ended \cup Issued
    /\ UNCHANGED <<account, session, raced>>

\* The provider refuses the code.
MfaRefused(c) ==
    /\ Leave(c, "verify")
    /\ UNCHANGED <<account, version, session, ended, raced>>

Deleted == [t \in Token |-> IF session[t].at = "NONE" THEN NoSession
                            ELSE [session[t] EXCEPT !.at = "GONE"]]

\* request_deletion of the account; its marker admits one.
RequestDeletion(c) ==
    /\ Leave(c, "delete")
    /\ IF account = "ACTIVE" /\ caller[c].version < MaxVersion
       THEN /\ account' = "DELETION_PENDING"
            /\ version' = caller[c].version + 1
            /\ session' = Deleted
            /\ ended' = ended \cup Issued
       ELSE UNCHANGED <<account, version, session, ended>>
    /\ UNCHANGED raced

\* DeletionProcessor: the user becomes a tombstone.
FinishDeletion ==
    /\ account = "DELETION_PENDING" /\ version < MaxVersion
    /\ account' = "DELETED"
    /\ version' = version + 1
    /\ session' = Deleted
    /\ ended' = ended \cup Issued
    /\ UNCHANGED <<caller, raced>>

Expire(t) ==
    /\ session[t].at = "VALID"
    /\ session' = [session EXCEPT ![t].at = "EXPIRED"]
    /\ ended' = ended \cup {t}
    /\ UNCHANGED <<account, version, caller, raced>>

-----------------------------------------------------------------------------
Next ==
    \/ \E c \in Caller, t \in Token : Callback(c, t)
    \/ \E c \in Caller, t \in Token, p \in {"logout", "verify", "delete"} : Authenticate(c, p, t)
    \/ \E c \in Caller : Issue(c) \/ Revoke(c) \/ MfaVerified(c) \/ MfaRefused(c)
                            \/ RequestDeletion(c)
    \/ FinishDeletion
    \/ \E t \in Token : Expire(t)

Spec == Init /\ [][Next]_vars

-----------------------------------------------------------------------------
(* Properties *)

\* A session that a sign-out, an MFA verification, an account deletion or its lifetime
\* ended is never accepted again, unless two verifications overlapped and one raised
\* the version from a value that the other had raised before.
EndedStaysEnded == raced \/ \A t \in ended : ~Accepted(t)
=============================================================================
