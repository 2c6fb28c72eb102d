---------------------------- MODULE AtLeastOnce ----------------------------
(***************************************************************************)
(* What the transactional outbox promises: whatever a committed transaction *)
(* asked for is sent at least once, unless it is withdrawn first, and       *)
(* nothing else is ever sent.                                               *)
(***************************************************************************)
CONSTANT Event

VARIABLES
    requested,     \* the events of committed transactions
    withdrawn,     \* the events whose owner deleted them
    sent,          \* the events that were sent, once or more
    settled        \* those of them that are recorded as sent, and not withdrawn

vars == <<requested, withdrawn, sent, settled>>

Init ==
    /\ requested = {}
    /\ withdrawn = {}
    /\ sent = {}
    /\ settled = {}

Request(es) ==
    /\ es \cap requested = {}
    /\ requested' = requested \cup es
    /\ UNCHANGED <<withdrawn, sent, settled>>

Withdraw(es) ==
    /\ es \subseteq requested
    /\ withdrawn' = withdrawn \cup es
    /\ settled' = settled \ es
    /\ UNCHANGED <<requested, sent>>

Send(e) ==
    /\ e \in requested
    /\ sent' = sent \cup {e}
    /\ UNCHANGED <<requested, withdrawn, settled>>

Settle(e) ==
    /\ e \in sent \ withdrawn
    /\ settled' = settled \cup {e}
    /\ UNCHANGED <<requested, withdrawn, sent>>

Next ==
    \/ \E es \in SUBSET Event : Request(es) \/ Withdraw(es)
    \/ \E e \in Event : Send(e) \/ Settle(e)

Wanted(e) == e \in requested \ (withdrawn \cup sent)

Spec ==
    /\ Init
    /\ [][Next]_vars
    /\ \A e \in Event : WF_vars(Wanted(e) /\ Send(e))

=============================================================================
