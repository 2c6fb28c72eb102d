---------------------------- MODULE OutboxProofs ----------------------------
(***************************************************************************)
(* TLAPS proofs about Outbox, for any number of events and pumps: every     *)
(* step of the outbox is a step of AtLeastOnce or leaves it alone.  TypeOK  *)
(* is inductive as it stands; its part about what a pump holds is what the  *)
(* simulation needs.                                                        *)
(***************************************************************************)
EXTENDS Outbox, WellFoundedInduction, TLAPS

-----------------------------------------------------------------------------
(* The head of a batch *)

LEMMA LeastEvent ==
    ASSUME NEW S \in SUBSET Event, S # {}
    PROVE  \E e \in S : \A d \in S : e <= d
<1>1. S \subseteq Nat
  BY OutboxConstants DEF Event
<1>2. PICK e \in S : \A d \in S : <<d, e>> \notin OpToRel(<, Nat)
  BY <1>1, WFMin, NatLessThanWellFounded
<1>3. \A d \in S : ~(d < e)
  BY <1>1, <1>2 DEF OpToRel
<1> QED
  BY <1>1, <1>3

LEMMA HeadInBatch ==
    ASSUME TypeOK, NEW p \in Pump, pump[p].batch # {}
    PROVE  Head(p) \in pump[p].batch
<1>1. pump[p].batch \in SUBSET Event
  BY DEF TypeOK
<1> QED
  BY <1>1, LeastEvent DEF Head

LEMMA HeadUnchanged ==
    ASSUME NEW p \in Pump, pump'[p].batch = pump[p].batch
    PROVE  Head(p)' = Head(p)
BY DEF Head

\* What an action has to establish about the pumps.
HoldsCommitted(p) ==
    /\ \A e \in pump[p].batch : row[e].status # "open"
    /\ pump[p].marking => pump[p].batch # {} /\ Head(p) \in sent

LEMMA IdleHolds ==
    ASSUME NEW p \in Pump, pump'[p] = Idle
    PROVE  HoldsCommitted(p)'
BY DEF HoldsCommitted, Idle

-----------------------------------------------------------------------------
(* Type correctness *)

LEMMA InitTypeOK == Init => TypeOK
<1> SUFFICES ASSUME Init
             PROVE  TypeOK
  OBVIOUS
<1>1. /\ row \in [Event -> Row] /\ sent \subseteq Event
      /\ pump \in [Pump -> [batch : SUBSET Event, marking : BOOLEAN, seen : SUBSET Event]]
  BY DEF Init, Row, Status, Idle
<1>2. \A p \in Pump : pump[p].batch = {} /\ ~pump[p].marking
  BY DEF Init, Idle
<1> QED
  BY <1>1, <1>2 DEF TypeOK

\* Rows never go back to "open", so a pump that is left alone stays well.
LEMMA PumpUndisturbed ==
    ASSUME TypeOK, NEW p \in Pump,
           pump'[p] = pump[p], sent \subseteq sent',
           \A e \in Event : row'[e].status = "open" => row[e].status = "open"
    PROVE  HoldsCommitted(p)'
<1>1. Head(p)' = Head(p)
  BY HeadUnchanged
<1> QED
  BY <1>1 DEF TypeOK, HoldsCommitted

LEMMA StepTypeOK == TypeOK /\ [Next]_vars => TypeOK'
<1> SUFFICES ASSUME TypeOK, [Next]_vars
             PROVE  TypeOK'
  OBVIOUS
<1> DEFINE Types ==
        /\ row \in [Event -> Row]
        /\ sent \subseteq Event
        /\ pump \in [Pump -> [batch : SUBSET Event, marking : BOOLEAN, seen : SUBSET Event]]
<1>t. Types
  BY DEF TypeOK
<1>i. Idle \in [batch : SUBSET Event, marking : BOOLEAN, seen : SUBSET Event]
  BY DEF Idle
<1> SUFFICES Types' /\ \A p \in Pump : HoldsCommitted(p)'
  BY DEF TypeOK, HoldsCommitted
<1>1. CASE UNCHANGED vars
  <2>1. Types'
    BY <1>1, <1>t DEF vars
  <2>2. \A p \in Pump : HoldsCommitted(p)'
    BY <1>1, PumpUndisturbed DEF vars
  <2> QED
    BY <2>1, <2>2
<1>2. ASSUME NEW es \in SUBSET Event, CommitEvents(es) \/ DeleteEvents(es)
      PROVE  Types' /\ \A p \in Pump : HoldsCommitted(p)'
  <2>1. row' \in [Event -> Row] /\ pump' = pump /\ sent' = sent
    BY <1>2, <1>t DEF CommitEvents, DeleteEvents, Row, Status
  <2>2. \A e \in Event : row'[e].status = "open" => row[e].status = "open"
    BY <1>2, <1>t DEF CommitEvents, DeleteEvents, Row, Status
  <2>3. \A p \in Pump : HoldsCommitted(p)'
    BY <2>1, <2>2, PumpUndisturbed
  <2> QED
    BY <1>t, <2>1, <2>3
<1>3. ASSUME NEW p \in Pump, Load(p)
      PROVE  Types' /\ \A q \in Pump : HoldsCommitted(q)'
  <2>1. Batch \subseteq Event /\ \A e \in Batch : row[e].status # "open"
    BY DEF Batch, Pending
  <2>2. Types'
    BY <1>3, <1>t, <2>1 DEF Load
  <2>3. HoldsCommitted(p)'
    <3>1. pump'[p].batch = Batch /\ ~pump'[p].marking /\ row' = row
      BY <1>3, <1>t DEF Load
    <3> QED
      BY <2>1, <3>1 DEF HoldsCommitted
  <2>4. ASSUME NEW q \in Pump, q # p PROVE HoldsCommitted(q)'
    <3>1. pump'[q] = pump[q] /\ row' = row /\ sent' = sent
      BY <1>3, <1>t, <2>4 DEF Load
    <3> QED
      BY <3>1, PumpUndisturbed
  <2> QED
    BY <2>2, <2>3, <2>4
<1>4. ASSUME NEW p \in Pump, Publish(p)
      PROVE  Types' /\ \A q \in Pump : HoldsCommitted(q)'
  <2>1. Head(p) \in pump[p].batch /\ Head(p) \in Event
    BY <1>4, <1>t, HeadInBatch DEF Publish
  <2>2. Types'
    BY <1>4, <1>t, <2>1 DEF Publish
  <2>3. pump'[p].batch = pump[p].batch /\ pump[p].batch # {} /\ row' = row
    BY <1>4, <1>t DEF Publish
  <2>4. HoldsCommitted(p)'
    <3>1. Head(p)' = Head(p)
      BY <2>3, HeadUnchanged
    <3>2. Head(p) \in sent'
      BY <1>4 DEF Publish
    <3>3. \A e \in pump[p].batch : row[e].status # "open"
      BY DEF TypeOK
    <3> QED
      BY <2>3, <3>1, <3>2, <3>3 DEF HoldsCommitted
  <2>5. ASSUME NEW q \in Pump, q # p PROVE HoldsCommitted(q)'
    <3>1. pump'[q] = pump[q] /\ row' = row /\ sent \subseteq sent'
      BY <1>4, <1>t, <2>5 DEF Publish
    <3> QED
      BY <3>1, PumpUndisturbed
  <2> QED
    BY <2>2, <2>4, <2>5
<1>5. ASSUME NEW p \in Pump, Mark(p)
      PROVE  Types' /\ \A q \in Pump : HoldsCommitted(q)'
  <2> DEFINE e == Head(p)
             rest == pump[p].batch \ {e}
  <2>1. e \in pump[p].batch /\ e \in Event /\ e \in sent
    BY <1>5, <1>t, HeadInBatch DEF Mark, TypeOK
  <2>2. /\ Marked(e, pump[p].seen) \in Row
        /\ Marked(e, pump[p].seen).status = "published"
    BY <1>t, <2>1 DEF Marked, Row, Status
  <2> HIDE DEF e
  <2>r. row' = row \/ row' = [row EXCEPT ![e] = Marked(e, pump[p].seen)]
    BY <1>5 DEF Mark, e
  <2>s. row' \in [Event -> Row]
    BY <1>t, <2>1, <2>2, <2>r
  <2>3. \A d \in Event : row'[d].status = "open" => row[d].status = "open"
    BY <1>t, <2>1, <2>2, <2>r
  <2>4. \/ pump' = [pump EXCEPT ![p] = Idle]
        \/ pump' = [pump EXCEPT ![p] =
                [batch |-> rest, marking |-> FALSE, seen |-> pump[p].seen \ {e}]]
    BY <1>5 DEF Mark, e
  <2>5. sent' = sent
    BY <1>5 DEF Mark
  <2>6. Types'
    <3> DEFINE left == [batch |-> rest, marking |-> FALSE, seen |-> pump[p].seen \ {e}]
    <3>1. left \in [batch : SUBSET Event, marking : BOOLEAN, seen : SUBSET Event]
      BY <1>t
    <3>2. pump' = [pump EXCEPT ![p] = Idle] \/ pump' = [pump EXCEPT ![p] = left]
      BY <2>4
    <3> HIDE DEF left, rest
    <3> QED
      BY <1>t, <1>i, <2>s, <2>5, <3>1, <3>2
  <2>7. HoldsCommitted(p)'
    <3>1. CASE pump' = [pump EXCEPT ![p] = Idle]
      BY <3>1, <1>t, IdleHolds
    <3>2. CASE pump' = [pump EXCEPT ![p] =
                  [batch |-> rest, marking |-> FALSE, seen |-> pump[p].seen \ {e}]]
      <4>1. pump'[p].batch \subseteq pump[p].batch /\ ~pump'[p].marking
        BY <3>2, <1>t
      <4>2. \A d \in pump[p].batch : d \in Event /\ row[d].status # "open"
        BY <1>t DEF TypeOK
      <4> QED
        BY <2>3, <4>1, <4>2 DEF HoldsCommitted
    <3> QED
      BY <2>4, <3>1, <3>2
  <2>8. ASSUME NEW q \in Pump, q # p PROVE HoldsCommitted(q)'
    <3>1. pump'[q] = pump[q]
      BY <1>t, <2>4, <2>8
    <3> QED
      BY <2>3, <2>5, <3>1, PumpUndisturbed
  <2> QED
    BY <2>6, <2>7, <2>8
<1>6. ASSUME NEW p \in Pump, PublishFails(p) \/ Crash(p)
      PROVE  Types' /\ \A q \in Pump : HoldsCommitted(q)'
  <2>1. /\ sent' = sent
        /\ pump' = [pump EXCEPT ![p] = Idle]
    BY <1>6 DEF PublishFails, Crash
  <2>2. row' = row \/ \E e \in Event : row' = [row EXCEPT ![e].failed = TRUE]
    <3>1. CASE Crash(p)
      BY <3>1 DEF Crash
    <3>2. CASE PublishFails(p)
      <4>1. Head(p) \in Event
        BY <3>2, <1>t, HeadInBatch DEF PublishFails
      <4> QED
        BY <3>2, <4>1 DEF PublishFails
    <3> QED
      BY <1>6, <3>1, <3>2
  <2>r. row' \in [Event -> Row]
    BY <1>t, <2>2 DEF Row
  <2>s. \A d \in Event : row'[d].status = row[d].status
    BY <1>t, <2>2 DEF Row
  <2>3. Types'
    BY <1>t, <1>i, <2>1, <2>r
  <2>4. HoldsCommitted(p)'
    BY <1>t, <2>1, IdleHolds
  <2>5. ASSUME NEW q \in Pump, q # p PROVE HoldsCommitted(q)'
    <3>1. pump'[q] = pump[q]
      BY <1>t, <2>1, <2>5
    <3> QED
      BY <2>1, <2>s, <3>1, PumpUndisturbed
  <2> QED
    BY <2>3, <2>4, <2>5
<1> HIDE DEF Types
<1> QED
  BY <1>1, <1>2, <1>3, <1>4, <1>5, <1>6 DEF Next

\* No pump ever holds an event of a transaction that did not commit, and each
\* event is marked after the queue took it.
THEOREM TypeCorrect == Spec => []TypeOK
BY InitTypeOK, StepTypeOK, PTL DEF Spec

-----------------------------------------------------------------------------
(* The outbox implements AtLeastOnce *)

LEMMA InitSimulated == Init => Promise!Init
BY DEF Init, Promise!Init

LEMMA SameStatus ==
    ASSUME \A e \in Event : row'[e].status = row[e].status, sent' = sent
    PROVE  UNCHANGED Promise!vars
BY DEF Promise!vars

LEMMA StepSimulated == TypeOK /\ [Next]_vars => [Promise!Next]_(Promise!vars)
<1> SUFFICES ASSUME TypeOK, [Next]_vars
             PROVE  Promise!Next \/ UNCHANGED Promise!vars
  OBVIOUS
<1>t. /\ row \in [Event -> Row]
      /\ pump \in [Pump -> [batch : SUBSET Event, marking : BOOLEAN, seen : SUBSET Event]]
  BY DEF TypeOK
<1>1. CASE UNCHANGED vars
  BY <1>1, SameStatus DEF vars
<1>2. ASSUME NEW es \in SUBSET Event, CommitEvents(es) PROVE Promise!Request(es)
  BY <1>2, <1>t DEF CommitEvents, Promise!Request, Row, Status
<1>3. ASSUME NEW es \in SUBSET Event, DeleteEvents(es) PROVE Promise!Withdraw(es)
  BY <1>3, <1>t DEF DeleteEvents, Promise!Withdraw, Row, Status
<1>4. ASSUME NEW p \in Pump, Publish(p) PROVE \E e \in Event : Promise!Send(e)
  <2>1. Head(p) \in Event /\ row[Head(p)].status # "open"
    BY <1>4, <1>t, HeadInBatch DEF Publish, TypeOK
  <2>2. Promise!Send(Head(p))
    BY <1>4, <2>1 DEF Publish, Promise!Send
  <2> QED
    BY <2>1, <2>2
<1>5. ASSUME NEW p \in Pump, Mark(p)
      PROVE  (\E e \in Event : Promise!Settle(e)) \/ UNCHANGED Promise!vars
  <2> DEFINE e == Head(p)
  <2>1. e \in Event /\ row[e].status # "open" /\ e \in sent
    BY <1>5, <1>t, HeadInBatch DEF Mark, TypeOK
  <2>2. CASE Missing(e)
    <3>1. row' = row /\ sent' = sent
      BY <1>5, <2>2 DEF Mark
    <3> QED
      BY <3>1, SameStatus
  <2>3. CASE ~Missing(e)
    <3>1. /\ row' = [row EXCEPT ![e] = Marked(e, pump[p].seen)]
          /\ sent' = sent
      BY <1>5, <2>3 DEF Mark
    <3>2. /\ row'[e].status = "published"
          /\ \A d \in Event \ {e} : row'[d] = row[d]
      BY <3>1, <1>t, <2>1 DEF Marked
    <3>3. row[e].status # "deleted"
      BY <2>3 DEF Missing
    <3> HIDE DEF e
    <3>4. \E d \in Event : Promise!Settle(d)
      BY <2>1, <3>1, <3>2, <3>3 DEF Promise!Settle
    <3> QED
      BY <3>4
  <2> QED
    BY <2>2, <2>3
<1>6. ASSUME NEW p \in Pump, Load(p) \/ PublishFails(p) \/ Crash(p)
      PROVE  UNCHANGED Promise!vars
  <2>1. sent' = sent
    BY <1>6 DEF Load, PublishFails, Crash
  <2>2. row' = row \/ \E e : row' = [row EXCEPT ![e].failed = TRUE]
    BY <1>6 DEF Load, PublishFails, Crash
  <2>3. \A d \in Event : row'[d].status = row[d].status
    BY <1>t, <2>2 DEF Row
  <2> QED
    BY <2>1, <2>3, SameStatus
<1> QED
  BY <1>1, <1>2, <1>3, <1>4, <1>5, <1>6 DEF Next, Promise!Next

\* Whatever pumps, transactions and deletions do, the outbox sends only what a
\* committed transaction asked for, and marks only what was sent.
THEOREM ImplementsPromise == Spec => SendsOnlyRequested
<1>1. Spec => Promise!Init
  BY InitSimulated DEF Spec
<1>2. Spec => [][Promise!Next]_(Promise!vars)
  BY TypeCorrect, StepSimulated, PTL DEF Spec
<1> QED
  BY <1>1, <1>2 DEF SendsOnlyRequested
=============================================================================
