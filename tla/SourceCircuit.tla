--------------------------- MODULE SourceCircuit ---------------------------
(***************************************************************************)
(* The circuit breaker of one source adapter: its SourcePolicy row, the     *)
(* discovery workers that ask it before a fetch and report to it after, and *)
(* the operator who disables, pauses and resumes the source.                *)
(*                                                                          *)
(* Every actor reads the row, changes its copy and commits the columns it   *)
(* changed; nothing compares versions.  A fetch lies between the worker's   *)
(* question and its report, so the report may be about another world.       *)
(***************************************************************************)
EXTENDS Naturals

CONSTANTS
    Worker,
    Operator,          \* the superadmin's session
    MaxThreshold,      \* bound on failure_threshold, and on failure_count
    OperatorAction     \* what the operator does in this instance

AllOperatorActions ==
    {"DISABLE", "ENABLE", "MARK_DEGRADED", "PAUSE", "RESUME", "CLEAR_FAILURES",
     "PUT_ENABLED", "PUT_DISABLED"}

ASSUME CircuitConstants ==
    /\ Operator \notin Worker
    /\ MaxThreshold \in Nat \ {0}
    /\ OperatorAction \subseteq AllOperatorActions

VARIABLES
    policy,     \* the row, or NoPolicy
    session     \* the database session of each worker and of the operator

vars == <<policy, session>>

-----------------------------------------------------------------------------
NoPolicy == [health |-> "ABSENT"]

\* cooldown_until is null, in the future or in the past.  failure_count is only
\* compared with the threshold, so it need not be counted past MaxThreshold.
Policy ==
    [enabled   : BOOLEAN,
     health    : {"HEALTHY", "DEGRADED", "TEMPORARILY_PAUSED", "DISABLED"},
     count     : 0..MaxThreshold,
     threshold : 1..MaxThreshold,
     cooldown  : {"none", "running", "over"}]

Column == {"enabled", "health", "count", "threshold", "cooldown"}

NewPolicy ==
    [enabled |-> TRUE, health |-> "HEALTHY", count |-> 0,
     threshold |-> MaxThreshold, cooldown |-> "none"]

Idle == [pc |-> "idle"]
At(p) == [pc |-> p]

\* A session with uncommitted changes: "dirty" names the columns it will write.
Pending ==
    [pc     : {"commit"},
     act    : {"probe", "success", "failure"} \cup OperatorAction,
     insert : BOOLEAN,
     new    : Policy,
     dirty  : SUBSET Column]

Session == {At(p) : p \in {"idle", "fetching", "succeeded", "failed"}} \cup Pending

\* Type correctness; a row marked DISABLED is disabled (the reverse fails: the
\* report of a fetch that was under way overwrites the health), and a worker
\* never holds an operator's change.
TypeOK ==
    /\ policy \in Policy \cup {NoPolicy}
    /\ policy.health = "DISABLED" => ~policy.enabled
    /\ session \in [Worker \cup {Operator} -> Session]
    /\ session[Operator].pc \in {"idle", "commit"}
    /\ \A k \in Worker : session[k].pc = "commit" => session[k].act \notin OperatorAction

Init ==
    /\ policy = NoPolicy
    /\ session = [a \in Worker \cup {Operator} |-> Idle]

-----------------------------------------------------------------------------
(* What the service and the routes do to their copy of the row *)

Changed(p, q) == {c \in Column : p[c] # q[c]}

Probed(p) == [p EXCEPT !.health = "DEGRADED", !.cooldown = "none"]

Succeeded(p) ==
    [p EXCEPT !.count = 0, !.cooldown = "none",
              !.health = IF p.enabled THEN "HEALTHY" ELSE @]

Counted(p) == [p EXCEPT !.count = IF @ < MaxThreshold THEN @ + 1 ELSE @]

Failed(p) ==
    IF Counted(p).count < p.threshold
    THEN [Counted(p) EXCEPT !.health = "DEGRADED"]
    ELSE [Counted(p) EXCEPT !.health = "TEMPORARILY_PAUSED", !.cooldown = "running"]

\* Mutant of Put: enabling leaves the health DISABLED behind.
PutKeepsHealth(p, on, t) ==
    [p EXCEPT !.enabled = on, !.threshold = t,
              !.health = IF ~on THEN "DISABLED" ELSE @,
              !.cooldown = IF on THEN @ ELSE "none"]

\* PUT sends the whole policy form, the threshold among it.
Put(p, on, t) ==
    [p EXCEPT !.enabled = on, !.threshold = t,
              !.health = IF ~on THEN "DISABLED" ELSE IF @ = "DISABLED" THEN "HEALTHY" ELSE @,
              !.cooldown = IF on THEN @ ELSE "none"]

Controlled(p, act) ==
    CASE act = "DISABLE" ->
            [p EXCEPT !.enabled = FALSE, !.health = "DISABLED", !.cooldown = "none"]
      [] act = "ENABLE" ->
            [p EXCEPT !.enabled = TRUE, !.health = "HEALTHY", !.count = 0, !.cooldown = "none"]
      [] act = "MARK_DEGRADED" -> [p EXCEPT !.health = "DEGRADED"]
      [] act = "PAUSE" -> [p EXCEPT !.health = "TEMPORARILY_PAUSED", !.cooldown = "none"]
      [] act = "RESUME" ->
            [p EXCEPT !.enabled = TRUE, !.health = "HEALTHY", !.cooldown = "none"]
      [] act = "CLEAR_FAILURES" ->
            [p EXCEPT !.count = 0, !.cooldown = "none",
                      !.health = IF p.enabled THEN "HEALTHY" ELSE "DISABLED"]

-----------------------------------------------------------------------------
Go(a, s) == session' = [session EXCEPT ![a] = s]

Loaded == IF policy = NoPolicy THEN NewPolicy ELSE policy

\* The session has loaded the row (get_or_create) and made its copy q.
Prepare(a, act, q, written) ==
    Go(a, [pc |-> "commit", act |-> act, insert |-> policy = NoPolicy, new |-> q,
           dirty |-> Changed(Loaded, q) \cup written])

Unavailable(p) ==
    p # NoPolicy /\ (~p.enabled \/ p.health = "TEMPORARILY_PAUSED")

\* Mutant of HalfOpen: the probe waits for a failure count that only a probe
\* can bring down.
HalfOpenCounted(p) ==
    /\ p # NoPolicy /\ p.enabled /\ p.health = "TEMPORARILY_PAUSED"
    /\ p.cooldown = "over" /\ p.count < p.threshold

HalfOpen(p) ==
    p # NoPolicy /\ p.enabled /\ p.health = "TEMPORARILY_PAUSED" /\ p.cooldown = "over"

\* unavailable_code: fetch, fetch as a probe, or skip the source (no step).
Look(k) ==
    /\ session[k] = Idle
    /\ \/ ~Unavailable(policy) /\ Go(k, At("fetching"))
       \/ HalfOpen(policy) /\ Prepare(k, "probe", Probed(policy), {})
    /\ UNCHANGED policy

\* The fetch ends; its failure rolls the session back.
Fetched(k) ==
    /\ session[k] = At("fetching")
    /\ \E p \in {"succeeded", "failed"} : Go(k, At(p))
    /\ UNCHANGED policy

\* A probe may end before anything commits it: served from the shared results
\* (the success goes on with the same copy), or rolled back by a failure.
ProbeEndsEarly(k) ==
    /\ session[k].pc = "commit" /\ session[k].act = "probe"
    /\ \/ Go(k, [session[k] EXCEPT !.act = "success", !.new = Succeeded(@),
                     !.dirty = @ \cup Changed(session[k].new, Succeeded(session[k].new))])
       \/ Go(k, At("failed"))
    /\ UNCHANGED policy

RecordSuccess(k) ==
    /\ session[k] = At("succeeded")
    /\ Prepare(k, "success", Succeeded(Loaded), {})
    /\ UNCHANGED policy

RecordFailure(k) ==
    LET q == Failed(Loaded) IN
    /\ session[k] = At("failed")
    /\ Prepare(k, "failure", q, {"count"} \cup
                   IF q.health = "TEMPORARILY_PAUSED" THEN {"cooldown"} ELSE {})
    /\ UNCHANGED policy

Control(act) ==
    /\ session[Operator] = Idle
    /\ \/ /\ act \in {"PUT_ENABLED", "PUT_DISABLED"}
          /\ \E t \in 1..MaxThreshold :
                Prepare(Operator, act, Put(Loaded, act = "PUT_ENABLED", t), {})
       \/ /\ act \notin {"PUT_ENABLED", "PUT_DISABLED"}
          /\ Prepare(Operator, act, Controlled(Loaded, act), {})
    /\ UNCHANGED policy

-----------------------------------------------------------------------------
\* Mutant of Flush: the UPDATE writes every column.
FlushAll(s) == s.new

Flush(s) == [c \in Column |-> IF c \in s.dirty THEN s.new[c] ELSE policy[c]]

Commit(a) ==
    LET s == session[a] IN
    /\ s.pc = "commit"
    /\ \/ s.insert /\ policy = NoPolicy /\ policy' = s.new
       \/ ~s.insert /\ policy' = Flush(s)
    /\ Go(a, IF s.act = "probe" THEN At("fetching") ELSE Idle)

\* Somebody else inserted the row.  In the worker a success becomes a failure
\* (record_success runs inside the try); any other session gives up.
LoseInsert(a) ==
    LET s == session[a] IN
    /\ s.pc = "commit" /\ s.insert /\ policy # NoPolicy
    /\ Go(a, IF s.act = "success" THEN At("failed") ELSE Idle)
    /\ UNCHANGED policy

\* The delivery ends without a report: SharedFetchPending, a crash, a timeout.
Abandon(k) ==
    /\ session[k] # Idle
    /\ Go(k, Idle)
    /\ UNCHANGED policy

CooldownElapses ==
    /\ policy # NoPolicy /\ policy.cooldown = "running"
    /\ policy' = [policy EXCEPT !.cooldown = "over"]
    /\ UNCHANGED session

Next ==
    \/ CooldownElapses
    \/ \E act \in OperatorAction : Control(act)
    \/ Commit(Operator)
    \/ LoseInsert(Operator)
    \/ \E k \in Worker :
          \/ Look(k) \/ Fetched(k) \/ ProbeEndsEarly(k)
          \/ RecordSuccess(k) \/ RecordFailure(k)
          \/ Commit(k) \/ LoseInsert(k) \/ Abandon(k)

Spec == Init /\ [][Next]_vars

\* Time passes, Watches keep asking for the source, and deliveries end.
Progress(k) ==
    \/ Look(k) \/ Fetched(k) \/ RecordSuccess(k) \/ RecordFailure(k)
    \/ Commit(k) \/ LoseInsert(k)

Fairness ==
    /\ WF_vars(CooldownElapses)
    /\ \A k \in Worker : WF_vars(Progress(k))

FairSpec == Spec /\ Fairness

-----------------------------------------------------------------------------
(* Properties *)

ByOperator == session'[Operator] # session[Operator]

Paused(p) == p # NoPolicy /\ p.health = "TEMPORARILY_PAUSED"

\* Only the operator enables or disables a source: a worker that loaded the row
\* before and commits its report after never reverts the switch.
DisableIsHonoured ==
    [][(policy # NoPolicy /\ policy'.enabled # policy.enabled) => ByOperator]_vars

Probing(k) == session[k].pc = "commit" /\ session[k].act = "probe"

\* A pause with a cooldown ends: a worker probes the source, or its state is no
\* longer the circuit's to decide (the operator paused or disabled it).
AutomaticPauseEnds ==
    (Paused(policy) /\ policy.cooldown # "none")
        ~> \/ \E k \in Worker : Probing(k)
           \/ ~Paused(policy) \/ policy.cooldown = "none" \/ ~policy.enabled
=============================================================================
