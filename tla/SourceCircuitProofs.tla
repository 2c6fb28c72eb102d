------------------------ MODULE SourceCircuitProofs ------------------------
(***************************************************************************)
(* TLAPS proofs about SourceCircuit, for any number of workers, any         *)
(* threshold and any choice of operator controls: type correctness with     *)
(* "a row marked DISABLED is disabled", and DisableIsHonoured.  Both rest   *)
(* on what a session that is about to commit may write over a row that      *)
(* changed since it read it.                                                *)
(***************************************************************************)
EXTENDS SourceCircuit, TLAPS

USE CircuitConstants DEF CircuitConstants

\* A worker's report never writes the switch, and never the health DISABLED.
WorkersReport ==
    \A k \in Worker : session[k].pc = "commit" =>
        /\ "enabled" \notin session[k].dirty
        /\ session[k].insert \/ "health" \in session[k].dirty => session[k].new.health # "DISABLED"

\* The switch in the operator's session is what its commit leaves in the row, and a row
\* that is marked DISABLED was so when the operator read it.
OperatorDecides ==
    LET s == session[Operator] IN s.pc = "commit" =>
        /\ s.act \in OperatorAction
        /\ s.new.health = "DISABLED" => ~s.new.enabled
        /\ ~s.insert =>
              /\ "enabled" \notin s.dirty => s.new.enabled = policy.enabled
              /\ "health" \notin s.dirty /\ policy.health = "DISABLED"
                    => s.new.health = "DISABLED"

\* A session that does not insert the row has read one, and rows are never deleted.
RowsStay ==
    \A a \in Worker \cup {Operator} :
        session[a].pc = "commit" /\ ~session[a].insert => policy # NoPolicy

IInv == TypeOK /\ WorkersReport /\ OperatorDecides /\ RowsStay

-----------------------------------------------------------------------------
(* What the service does to its copy of the row *)

LEMMA NoPolicyIsNone == NoPolicy \notin Policy /\ NoPolicy.health = "ABSENT"
<1>1. NoPolicy.health = "ABSENT"
  BY DEF NoPolicy
<1> QED
  BY <1>1 DEF Policy

LEMMA NewPolicyTyped ==
    /\ NewPolicy \in Policy /\ NewPolicy.health = "HEALTHY"
BY DEF NewPolicy, Policy

\* The failure count starts again and no cooldown is left.
LEMMA ResetTyped ==
    ASSUME NEW p \in Policy, NEW h \in {"HEALTHY", "DISABLED", p.health}
    PROVE  LET q == [p EXCEPT !.count = 0, !.cooldown = "none", !.health = h]
           IN  q \in Policy /\ q.enabled = p.enabled /\ q.health = h
<1> DEFINE p1 == [p EXCEPT !.count = 0]
           p2 == [p1 EXCEPT !.cooldown = "none"]
<1>1. p1 \in Policy /\ p1.enabled = p.enabled /\ p.health = p1.health
  BY DEF Policy
<1>2. [p EXCEPT !.count = 0, !.cooldown = "none", !.health = h] = [p2 EXCEPT !.health = h]
  OBVIOUS
<1> HIDE DEF p1
<1>3. p2 \in Policy /\ p2.enabled = p.enabled /\ p2.health = p.health
  BY <1>1 DEF Policy
<1> HIDE DEF p2
<1> QED
  BY <1>2, <1>3 DEF Policy

LEMMA ReportsTyped ==
    ASSUME NEW p \in Policy
    PROVE  /\ Probed(p) \in Policy /\ Succeeded(p) \in Policy /\ Failed(p) \in Policy
           /\ Probed(p).enabled = p.enabled /\ Succeeded(p).enabled = p.enabled
           /\ Failed(p).enabled = p.enabled
           /\ Probed(p).health # "DISABLED" /\ Failed(p).health # "DISABLED"
           /\ Succeeded(p).health = "DISABLED" => p.health = "DISABLED"
<1>1. /\ Probed(p) \in Policy /\ Probed(p).enabled = p.enabled
      /\ Probed(p).health # "DISABLED"
  BY DEF Policy, Probed
<1>2. /\ Succeeded(p) \in Policy /\ Succeeded(p).enabled = p.enabled
      /\ Succeeded(p).health = "DISABLED" => p.health = "DISABLED"
  <2>1. CASE p.enabled
    <3>1. Succeeded(p) = [p EXCEPT !.count = 0, !.cooldown = "none", !.health = "HEALTHY"]
      BY <2>1 DEF Succeeded
    <3> QED
      BY <3>1, ResetTyped
  <2>2. CASE ~p.enabled
    <3>1. Succeeded(p) = [p EXCEPT !.count = 0, !.cooldown = "none", !.health = p.health]
      BY <2>2 DEF Succeeded, Policy
    <3> QED
      BY <3>1, ResetTyped
  <2> QED
    BY <2>1, <2>2
<1>3. Counted(p) \in Policy /\ Counted(p).enabled = p.enabled
  BY DEF Policy, Counted
<1>4. /\ Failed(p) \in Policy /\ Failed(p).enabled = p.enabled
      /\ Failed(p).health # "DISABLED"
  BY <1>3 DEF Policy, Failed
<1> QED
  BY <1>1, <1>2, <1>4

LEMMA ControlsTyped ==
    ASSUME NEW p \in Policy, p.health = "DISABLED" => ~p.enabled,
           NEW act \in AllOperatorActions \ {"PUT_ENABLED", "PUT_DISABLED"}
    PROVE  /\ Controlled(p, act) \in Policy
           /\ Controlled(p, act).health = "DISABLED" => ~Controlled(p, act).enabled
<1>1. CASE act = "DISABLE"
  BY <1>1 DEF Controlled, Policy
<1>2. CASE act = "ENABLE"
  <2> DEFINE q == [p EXCEPT !.enabled = TRUE, !.health = "HEALTHY"]
             r == [q EXCEPT !.count = 0]
  <2>1. Controlled(p, act) = [r EXCEPT !.cooldown = "none"]
    BY <1>2 DEF Controlled
  <2>2. q \in Policy /\ q.health = "HEALTHY"
    BY DEF Policy
  <2> HIDE DEF q
  <2>3. r \in Policy /\ r.health = "HEALTHY"
    BY <2>2 DEF Policy
  <2> HIDE DEF r
  <2> QED
    BY <2>1, <2>3 DEF Policy
<1>3. CASE act = "MARK_DEGRADED"
  BY <1>3 DEF Controlled, Policy
<1>4. CASE act = "PAUSE"
  BY <1>4 DEF Controlled, Policy
<1>5. CASE act = "RESUME"
  BY <1>5 DEF Controlled, Policy
<1>6. CASE act = "CLEAR_FAILURES"
  <2>1. CASE p.enabled
    <3>1. Controlled(p, act) = [p EXCEPT !.count = 0, !.cooldown = "none", !.health = "HEALTHY"]
      BY <1>6, <2>1 DEF Controlled
    <3> QED
      BY <2>1, <3>1, ResetTyped
  <2>2. CASE ~p.enabled
    <3>1. Controlled(p, act) = [p EXCEPT !.count = 0, !.cooldown = "none", !.health = "DISABLED"]
      BY <1>6, <2>2 DEF Controlled
    <3> QED
      BY <2>2, <3>1, ResetTyped
  <2> QED
    BY <2>1, <2>2
<1> QED
  BY <1>1, <1>2, <1>3, <1>4, <1>5, <1>6 DEF AllOperatorActions

LEMMA PutTyped ==
    ASSUME NEW p \in Policy, p.health = "DISABLED" => ~p.enabled,
           NEW on \in BOOLEAN, NEW t \in 1..MaxThreshold
    PROVE  /\ Put(p, on, t) \in Policy
           /\ Put(p, on, t).health = "DISABLED" => ~Put(p, on, t).enabled
BY DEF Put, Policy

-----------------------------------------------------------------------------
LEMMA InitIInv == Init => IInv
BY NoPolicyIsNone DEF Init, IInv, TypeOK, WorkersReport, OperatorDecides, RowsStay, Idle,
   Session, At

\* What a session loads is a policy, of which "DISABLED means disabled" holds.
LEMMA LoadedTyped ==
    ASSUME IInv
    PROVE  /\ Loaded \in Policy
           /\ Loaded.health = "DISABLED" => ~Loaded.enabled
           /\ policy = NoPolicy => Loaded = NewPolicy
           /\ policy # NoPolicy => Loaded = policy
BY NewPolicyTyped DEF IInv, TypeOK, Loaded

\* A worker goes on and has nothing to commit.
LEMMA GoIInv ==
    ASSUME IInv, NEW k \in Worker, NEW s \in {At(p) : p \in {"idle", "fetching", "succeeded", "failed"}},
           Go(k, s), UNCHANGED policy
    PROVE  IInv'
<1>1. s \in Session /\ s.pc # "commit"
  BY DEF Session, At
<1>2. session' = [session EXCEPT ![k] = s] /\ policy' = policy
  BY DEF Go
<1>3. TypeOK'
  BY <1>1, <1>2 DEF IInv, TypeOK
<1>4. WorkersReport' /\ OperatorDecides' /\ RowsStay'
  BY <1>1, <1>2 DEF IInv, TypeOK, WorkersReport, OperatorDecides, RowsStay
<1> QED
  BY <1>3, <1>4 DEF IInv

\* A worker has a report to commit that leaves the switch alone.
LEMMA ReportIInv ==
    ASSUME IInv, NEW k \in Worker, NEW s \in Pending, s.act \in {"probe", "success", "failure"},
           Go(k, s), UNCHANGED policy,
           "enabled" \notin s.dirty,
           s.insert \/ "health" \in s.dirty => s.new.health # "DISABLED",
           ~s.insert => policy # NoPolicy,
           s.act \notin OperatorAction
    PROVE  IInv'
<1>1. s \in Session
  BY DEF Session
<1>2. session' = [session EXCEPT ![k] = s] /\ policy' = policy
  BY DEF Go
<1>3. TypeOK'
  BY <1>1, <1>2 DEF IInv, TypeOK
<1>4. WorkersReport' /\ OperatorDecides' /\ RowsStay'
  BY <1>1, <1>2 DEF IInv, TypeOK, WorkersReport, OperatorDecides, RowsStay
<1> QED
  BY <1>3, <1>4 DEF IInv

\* What a worker makes of the row it has loaded.
LEMMA PrepareIInv ==
    ASSUME IInv, NEW k \in Worker, NEW act \in {"probe", "success", "failure"},
           NEW q \in Policy, NEW written \in SUBSET (Column \ {"enabled", "health"}),
           Prepare(k, act, q, written), UNCHANGED policy,
           q.enabled = Loaded.enabled, q.health = "DISABLED" => Loaded.health = "DISABLED"
    PROVE  IInv'
<1> DEFINE s == [pc |-> "commit", act |-> act, insert |-> policy = NoPolicy, new |-> q,
                 dirty |-> Changed(Loaded, q) \cup written]
<1>1. s \in Pending
  BY DEF Pending, Changed, Column
<1>2. "enabled" \notin s.dirty
  BY DEF Changed
<1>3. s.insert \/ "health" \in s.dirty => s.new.health # "DISABLED"
  BY LoadedTyped, NewPolicyTyped DEF Changed
<1>4. ~s.insert => policy # NoPolicy
  OBVIOUS
<1>5. Go(k, s) /\ s.act = act
  BY DEF Prepare
<1>6. act \notin OperatorAction
  BY DEF AllOperatorActions
<1> HIDE DEF s
<1> QED
  BY <1>1, <1>2, <1>3, <1>4, <1>5, <1>6, ReportIInv

-----------------------------------------------------------------------------
LEMMA LookIInv ==
    ASSUME IInv, NEW k \in Worker, Look(k)
    PROVE  IInv'
<1>1. CASE Go(k, At("fetching"))
  BY <1>1, GoIInv DEF Look
<1>2. CASE HalfOpen(policy) /\ Prepare(k, "probe", Probed(policy), {})
  <2>1. policy = Loaded /\ policy \in Policy
    BY <1>2, LoadedTyped DEF HalfOpen
  <2> QED
    BY <1>2, <2>1, ReportsTyped, PrepareIInv DEF Look
<1> QED
  BY <1>1, <1>2 DEF Look

LEMMA FetchedIInv ==
    ASSUME IInv, NEW k \in Worker, Fetched(k)
    PROVE  IInv'
<1>1. PICK p \in {"succeeded", "failed"} : Go(k, At(p))
  BY DEF Fetched
<1> QED
  BY <1>1, GoIInv DEF Fetched

LEMMA RecordSuccessIInv ==
    ASSUME IInv, NEW k \in Worker, RecordSuccess(k)
    PROVE  IInv'
BY LoadedTyped, ReportsTyped, PrepareIInv DEF RecordSuccess

LEMMA RecordFailureIInv ==
    ASSUME IInv, NEW k \in Worker, RecordFailure(k)
    PROVE  IInv'
<1> DEFINE q == Failed(Loaded)
           written == {"count"} \cup IF q.health = "TEMPORARILY_PAUSED" THEN {"cooldown"} ELSE {}
<1>1. written \in SUBSET (Column \ {"enabled", "health"})
  BY DEF Column
<1>2. q \in Policy /\ q.enabled = Loaded.enabled /\ q.health # "DISABLED"
  BY LoadedTyped, ReportsTyped
<1>3. Prepare(k, "failure", q, written) /\ UNCHANGED policy
  BY DEF RecordFailure
<1> HIDE DEF q, written
<1> QED
  BY <1>1, <1>2, <1>3, PrepareIInv

LEMMA PendingChanged ==
    ASSUME NEW s \in Pending, NEW a, NEW p, NEW d
    PROVE  [s EXCEPT !.act = a, !.new = p, !.dirty = d]
             = [pc |-> "commit", act |-> a, insert |-> s.insert, new |-> p, dirty |-> d]
<1> DEFINE s1 == [s EXCEPT !.act = a]
           s2 == [s1 EXCEPT !.new = p]
<1>1. s1 = [pc |-> "commit", act |-> a, insert |-> s.insert, new |-> s.new, dirty |-> s.dirty]
  BY DEF Pending
<1>2. [s EXCEPT !.act = a, !.new = p, !.dirty = d] = [s2 EXCEPT !.dirty = d]
  OBVIOUS
<1> HIDE DEF s1
<1>3. s2 = [pc |-> "commit", act |-> a, insert |-> s.insert, new |-> p, dirty |-> s.dirty]
  BY <1>1
<1> HIDE DEF s2
<1>4. [s2 EXCEPT !.dirty = d]
        = [pc |-> "commit", act |-> a, insert |-> s.insert, new |-> p, dirty |-> d]
  BY <1>3
<1> QED
  BY <1>2, <1>4

\* The success of a probe is told with the copy the probe was admitted with.
LEMMA ProbeEndsEarlyIInv ==
    ASSUME IInv, NEW k \in Worker, ProbeEndsEarly(k)
    PROVE  IInv'
<1> DEFINE old == session[k]
           q == Succeeded(old.new)
           s == [pc |-> "commit", act |-> "success", insert |-> old.insert, new |-> q,
                 dirty |-> old.dirty \cup Changed(old.new, q)]
<1>1. old.pc = "commit" /\ old \in Session
  BY DEF ProbeEndsEarly, IInv, TypeOK
<1>2. old \in Pending
  <2>1. ASSUME NEW p \in {"idle", "fetching", "succeeded", "failed"}, old = At(p)
        PROVE  FALSE
    BY <1>1, <2>1 DEF At
  <2> QED
    BY <1>1, <2>1 DEF Session
<1>3. CASE Go(k, At("failed"))
  BY <1>3, GoIInv DEF ProbeEndsEarly
<1>4. CASE Go(k, [old EXCEPT !.act = "success", !.new = Succeeded(@),
                             !.dirty = @ \cup Changed(old.new, Succeeded(old.new))])
  <2>1. q \in Policy /\ q.enabled = old.new.enabled
        /\ (q.health = "DISABLED" => old.new.health = "DISABLED")
    BY <1>2, ReportsTyped DEF Pending
  <2>2. [old EXCEPT !.act = "success", !.new = Succeeded(@),
                    !.dirty = @ \cup Changed(old.new, Succeeded(old.new))] = s
    BY <1>2, PendingChanged
  <2>3. s \in Pending
    BY <1>2, <2>1 DEF Pending, Changed
  <2>4. "enabled" \notin s.dirty
    BY <1>1, <2>1 DEF IInv, WorkersReport, Changed
  <2>5. s.insert \/ "health" \in s.dirty => s.new.health # "DISABLED"
    BY <1>1, <2>1 DEF IInv, WorkersReport, Changed
  <2>6. ~s.insert => policy # NoPolicy
    BY <1>1 DEF IInv, RowsStay
  <2>7. "success" \notin OperatorAction /\ s.act = "success" /\ UNCHANGED policy
    BY DEF AllOperatorActions, ProbeEndsEarly
  <2> HIDE DEF s
  <2> QED
    BY <1>4, <2>2, <2>3, <2>4, <2>5, <2>6, <2>7, ReportIInv
<1> QED
  BY <1>3, <1>4 DEF ProbeEndsEarly

LEMMA AbandonIInv ==
    ASSUME IInv, NEW k \in Worker, Abandon(k)
    PROVE  IInv'
<1>1. Idle = At("idle")
  BY DEF Idle, At
<1> QED
  BY <1>1, GoIInv DEF Abandon

LEMMA ControlIInv ==
    ASSUME IInv, NEW act \in OperatorAction, Control(act)
    PROVE  IInv'
<1>1. PICK q \in Policy : /\ Prepare(Operator, act, q, {})
                          /\ q.health = "DISABLED" => ~q.enabled
  <2>1. CASE act \in {"PUT_ENABLED", "PUT_DISABLED"}
    <3>1. PICK t \in 1..MaxThreshold :
             Prepare(Operator, act, Put(Loaded, act = "PUT_ENABLED", t), {})
      BY <2>1 DEF Control
    <3>2. (act = "PUT_ENABLED") \in BOOLEAN
      OBVIOUS
    <3> QED
      BY <3>1, <3>2, LoadedTyped, PutTyped
  <2>2. CASE act \notin {"PUT_ENABLED", "PUT_DISABLED"}
    BY <2>2, LoadedTyped, ControlsTyped DEF Control
  <2> QED
    BY <2>1, <2>2
<1> DEFINE s == [pc |-> "commit", act |-> act, insert |-> policy = NoPolicy, new |-> q,
                 dirty |-> Changed(Loaded, q) \cup {}]
<1>2. s \in Pending /\ s.pc = "commit" /\ s.act = act
  BY DEF Pending, Changed, Column
<1>3. session' = [session EXCEPT ![Operator] = s] /\ policy' = policy
  BY <1>1 DEF Prepare, Go, Control
<1>4. ~s.insert =>
        /\ policy # NoPolicy
        /\ "enabled" \notin s.dirty => s.new.enabled = policy.enabled
        /\ "health" \notin s.dirty => s.new.health = policy.health
  BY LoadedTyped DEF Changed, Column
<1>5. s.new.health = "DISABLED" => ~s.new.enabled
  BY <1>1
<1> HIDE DEF s
<1>6. TypeOK'
  <2>1. s \in Session
    BY <1>2 DEF Session
  <2> QED
    BY <1>2, <1>3, <2>1 DEF IInv, TypeOK
<1>7. WorkersReport' /\ OperatorDecides' /\ RowsStay'
  BY <1>2, <1>3, <1>4, <1>5 DEF IInv, TypeOK, WorkersReport, OperatorDecides, RowsStay
<1> QED
  BY <1>6, <1>7 DEF IInv

-----------------------------------------------------------------------------
(* Commits *)

\* The row after a commit is a policy; what was not dirty is what it was.
LEMMA FlushTyped ==
    ASSUME NEW a \in Worker \cup {Operator}, IInv, session[a].pc = "commit", ~session[a].insert
    PROVE  /\ policy \in Policy /\ policy # NoPolicy
           /\ Flush(session[a]) \in Policy
           /\ Flush(session[a]).enabled =
                 IF "enabled" \in session[a].dirty THEN session[a].new.enabled ELSE policy.enabled
           /\ Flush(session[a]).health =
                 IF "health" \in session[a].dirty THEN session[a].new.health ELSE policy.health
<1> DEFINE s == session[a]
<1>1. policy \in Policy /\ policy # NoPolicy
  BY DEF IInv, TypeOK, RowsStay
<1>2. s.new \in Policy
  BY DEF IInv, TypeOK, Session, Pending, At
<1> DEFINE f == Flush(s)
<1>3. f = [c \in Column |-> IF c \in s.dirty THEN s.new[c] ELSE policy[c]]
  BY DEF Flush
<1>4. /\ f.enabled = (IF "enabled" \in s.dirty THEN s.new.enabled ELSE policy.enabled)
      /\ f.health = (IF "health" \in s.dirty THEN s.new.health ELSE policy.health)
      /\ f.count = (IF "count" \in s.dirty THEN s.new.count ELSE policy.count)
      /\ f.threshold = (IF "threshold" \in s.dirty THEN s.new.threshold ELSE policy.threshold)
      /\ f.cooldown = (IF "cooldown" \in s.dirty THEN s.new.cooldown ELSE policy.cooldown)
  BY <1>3 DEF Column
<1>5. f = [enabled |-> f.enabled, health |-> f.health, count |-> f.count,
           threshold |-> f.threshold, cooldown |-> f.cooldown]
  BY <1>3 DEF Column
<1>6. f.enabled \in BOOLEAN /\ f.health \in {"HEALTHY", "DEGRADED", "TEMPORARILY_PAUSED", "DISABLED"}
  BY <1>1, <1>2, <1>4 DEF Policy
<1>7. f.count \in 0..MaxThreshold /\ f.threshold \in 1..MaxThreshold
      /\ f.cooldown \in {"none", "running", "over"}
  BY <1>1, <1>2, <1>4 DEF Policy
<1>8. f \in Policy
  <2> HIDE DEF f
  <2> QED
    BY <1>5, <1>6, <1>7 DEF Policy
<1> QED
  BY <1>1, <1>4, <1>8

\* What is left in a session whose change is committed or given up.
LEMMA SessionOver ==
    ASSUME NEW s \in {Idle, At("fetching"), At("failed")}
    PROVE  s \in Session /\ s.pc # "commit"
BY DEF Idle, At, Session

LEMMA WorkerCommits ==
    ASSUME IInv, NEW k \in Worker, Commit(k)
    PROVE  IInv' /\ (policy # NoPolicy => policy'.enabled = policy.enabled)
<1> DEFINE s == session[k]
<1>1. PICK r \in {Idle, At("fetching")} : session' = [session EXCEPT ![k] = r]
  BY DEF Commit, Go
<1>2. r \in Session /\ r.pc # "commit"
  BY SessionOver
<1>3. s.pc = "commit" /\ s \in Session
  BY DEF Commit, IInv, TypeOK
<1>4. /\ policy' \in Policy /\ policy' # NoPolicy
      /\ policy'.health = "DISABLED" => policy # NoPolicy /\ policy.health = "DISABLED"
      /\ policy # NoPolicy => policy'.enabled = policy.enabled
  <2>1. CASE s.insert /\ policy = NoPolicy /\ policy' = s.new
    <3>1. s.new \in Policy
      BY <1>3 DEF Session, Pending, At
    <3>2. s.new.health # "DISABLED"
      BY <1>3, <2>1 DEF IInv, WorkersReport
    <3> QED
      BY <2>1, <3>1, <3>2, NoPolicyIsNone
  <2>2. CASE ~s.insert /\ policy' = Flush(s)
    <3>1. /\ "enabled" \notin s.dirty
          /\ "health" \in s.dirty => s.new.health # "DISABLED"
      BY <1>3 DEF IInv, WorkersReport
    <3> QED
      BY <1>3, <2>2, <3>1, FlushTyped, NoPolicyIsNone
  <2> QED
    BY <2>1, <2>2 DEF Commit
<1> HIDE DEF s
<1>5. TypeOK'
  BY <1>1, <1>2, <1>4 DEF IInv, TypeOK
<1>6. WorkersReport'
  BY <1>1, <1>2 DEF IInv, TypeOK, WorkersReport
<1>7. RowsStay'
  BY <1>1, <1>2, <1>4 DEF IInv, TypeOK, RowsStay
<1>8. OperatorDecides'
  <2>1. session'[Operator] = session[Operator]
    BY <1>1 DEF IInv, TypeOK
  <2>2. session[Operator].pc = "commit" /\ ~session[Operator].insert => policy # NoPolicy
    BY DEF IInv, RowsStay
  <2> QED
    BY <1>4, <2>1, <2>2 DEF IInv, OperatorDecides
<1> QED
  BY <1>4, <1>5, <1>6, <1>7, <1>8 DEF IInv

LEMMA OperatorCommits ==
    ASSUME IInv, Commit(Operator)
    PROVE  IInv'
<1> DEFINE s == session[Operator]
<1>1. session' = [session EXCEPT ![Operator] = Idle]
  <2>1. s.act # "probe"
    BY DEF Commit, IInv, OperatorDecides, AllOperatorActions
  <2> QED
    BY <2>1 DEF Commit, Go
<1>2. s.pc = "commit" /\ s \in Session
  BY DEF Commit, IInv, TypeOK
<1>3. s.new \in Policy
  BY <1>2 DEF Session, Pending, At
<1>4. /\ policy' \in Policy /\ policy' # NoPolicy
      /\ policy'.health = "DISABLED" => ~policy'.enabled
  <2>1. CASE s.insert /\ policy = NoPolicy /\ policy' = s.new
    BY <1>2, <1>3, <2>1, NoPolicyIsNone DEF IInv, OperatorDecides
  <2>2. CASE ~s.insert /\ policy' = Flush(s)
    BY <1>2, <2>2, FlushTyped, NoPolicyIsNone DEF IInv, OperatorDecides
  <2> QED
    BY <2>1, <2>2 DEF Commit
<1>5. Idle \in Session /\ Idle.pc = "idle"
  BY SessionOver DEF Idle
<1> HIDE DEF s
<1>6. TypeOK'
  BY <1>1, <1>4, <1>5 DEF IInv, TypeOK
<1>7. WorkersReport' /\ OperatorDecides' /\ RowsStay'
  BY <1>1, <1>4, <1>5 DEF IInv, TypeOK, WorkersReport, OperatorDecides, RowsStay
<1> QED
  BY <1>6, <1>7 DEF IInv

LEMMA LoseInsertIInv ==
    ASSUME IInv, NEW a \in Worker \cup {Operator}, LoseInsert(a)
    PROVE  IInv'
<1>1. CASE a \in Worker
  <2>1. Idle = At("idle")
    BY DEF Idle, At
  <2> QED
    BY <1>1, <2>1, GoIInv DEF LoseInsert
<1>2. CASE a = Operator
  <2>1. session' = [session EXCEPT ![Operator] = Idle] /\ policy' = policy
    BY <1>2 DEF LoseInsert, Go, IInv, OperatorDecides, AllOperatorActions
  <2>2. Idle \in Session /\ Idle.pc = "idle"
    BY SessionOver DEF Idle
  <2>3. TypeOK'
    BY <2>1, <2>2 DEF IInv, TypeOK
  <2>4. WorkersReport' /\ OperatorDecides' /\ RowsStay'
    BY <2>1, <2>2 DEF IInv, TypeOK, WorkersReport, OperatorDecides, RowsStay
  <2> QED
    BY <2>3, <2>4 DEF IInv
<1> QED
  BY <1>1, <1>2

LEMMA CooldownElapsesIInv ==
    ASSUME IInv, CooldownElapses
    PROVE  IInv' /\ policy'.enabled = policy.enabled
<1>1. policy \in Policy /\ policy # NoPolicy
  BY DEF IInv, TypeOK, CooldownElapses
<1>2. /\ policy' \in Policy /\ policy'.health = policy.health
      /\ policy'.enabled = policy.enabled /\ session' = session
  BY <1>1 DEF CooldownElapses, Policy
<1>3. policy' # NoPolicy
  BY <1>2, NoPolicyIsNone
<1>4. TypeOK'
  BY <1>2 DEF IInv, TypeOK
<1>5. WorkersReport' /\ OperatorDecides' /\ RowsStay'
  BY <1>2, <1>3 DEF IInv, WorkersReport, OperatorDecides, RowsStay
<1> QED
  BY <1>2, <1>4, <1>5 DEF IInv

LEMMA StepIInv == IInv /\ [Next]_vars => IInv'
<1> SUFFICES ASSUME IInv, [Next]_vars
             PROVE  IInv'
  OBVIOUS
<1>1. CASE UNCHANGED vars
  BY <1>1 DEF vars, IInv, TypeOK, WorkersReport, OperatorDecides, RowsStay
<1>2. CASE Next
  BY <1>2, CooldownElapsesIInv, ControlIInv, OperatorCommits, LoseInsertIInv, LookIInv,
     FetchedIInv, ProbeEndsEarlyIInv, RecordSuccessIInv, RecordFailureIInv, WorkerCommits,
     AbandonIInv DEF Next
<1> QED
  BY <1>1, <1>2

\* SourcePolicy keeps its type, and a row that says DISABLED is switched off, whatever
\* columns of stale reports and operator forms are mixed in it.
THEOREM TypeCorrect == Spec => []TypeOK
<1>1. IInv => TypeOK
  BY DEF IInv
<1> QED
  BY <1>1, InitIInv, StepIInv, PTL DEF Spec

\* No report of a worker ever turns a source on or off (SourcePolicyService).
THEOREM DisableHonoured == Spec => DisableIsHonoured
<1>1. IInv /\ [Next]_vars =>
        [(policy # NoPolicy /\ policy'.enabled # policy.enabled) => ByOperator]_vars
  <2> SUFFICES ASSUME IInv, Next, policy # NoPolicy, policy'.enabled # policy.enabled
               PROVE  ByOperator
    BY DEF vars
  <2>1. CASE Commit(Operator)
    <3>1. session[Operator].pc = "commit" /\ session[Operator].act # "probe"
      BY <2>1 DEF Commit, IInv, OperatorDecides, AllOperatorActions
    <3>2. session'[Operator] = Idle /\ Idle.pc = "idle"
      BY <2>1, <3>1 DEF Commit, Go, IInv, TypeOK, Idle
    <3> QED
      BY <3>1, <3>2 DEF ByOperator
  <2>2. CASE \E k \in Worker : Commit(k)
    BY <2>2, WorkerCommits
  <2>3. CASE CooldownElapses
    BY <2>3, CooldownElapsesIInv
  <2> QED
    BY <2>1, <2>2, <2>3 DEF Next, Control, LoseInsert, Look, Fetched, ProbeEndsEarly,
       RecordSuccess, RecordFailure, Abandon
<1> QED
  BY <1>1, InitIInv, StepIInv, PTL DEF Spec, DisableIsHonoured
=============================================================================
