------------------------------ MODULE AiRoutes ------------------------------
(***************************************************************************)
(* The pool of Gemini routes: generate of GeminiPoolProvider and the two    *)
(* calls of it that the orchestrator makes.  A session keeps the rows it    *)
(* changed and reads every other row anew each time, because nothing else   *)
(* holds them in its weak identity map; a read flushes the changes so far,  *)
(* which locks their rows until the transaction ends.  Counters and health  *)
(* are left out; health only says whether an ended cooldown is set to null. *)
(***************************************************************************)
EXTENDS Naturals

CONSTANTS
    Routes,      \* how many there are (required_routes)
    Worker,
    Models,      \* tried in turn: the policy's, then one or two fallbacks
    Cooldown,    \* cooldown_seconds, in ticks
    MaxTime      \* bound of the clock

VARIABLES
    enabled,   \* AiProviderRoute.enabled; nothing switches it
    until,     \* AiProviderRoute.cooldown_until, committed; 0 is null
    clock,
    own,       \* per worker: the rows its session changed
    call,      \* per worker: the generate it is in
    free       \* per worker: routes out of cooldown since generate began, history

vars == <<enabled, until, clock, own, call, free>>

-----------------------------------------------------------------------------
Null  == 0
Route == 0..(Routes - 1)
Time  == 0..(MaxTime + Cooldown)

Row   == [dirty  : BOOLEAN,     \* changed and not flushed
          locked : BOOLEAN,     \* flushed
          until  : Time,
          set    : BOOLEAN]     \* a null is written too: the row had a cooldown when it was read
Clean == [dirty |-> FALSE, locked |-> FALSE, until |-> Null, set |-> FALSE]

Call == [pc      : {"idle", "trying", "looking", "asking", "failed"},
         model   : 0..Models,
         now     : 0..MaxTime,        \* the clock when _available_routes began
         look    : SUBSET Route,      \* rows it still reads
         todo    : SUBSET Route,      \* routes to try
         at      : 0..Routes,         \* the route that is asked
         cursor  : 0..Routes,
         failure : BOOLEAN,           \* last_failure is not None
         again   : BOOLEAN]           \* this is the second generate
Idle == [pc |-> "idle", model |-> 0, now |-> 0, look |-> {}, todo |-> {},
         at |-> 0, cursor |-> 0, failure |-> FALSE, again |-> FALSE]

TypeOK ==
    /\ enabled \in SUBSET Route /\ until \in [Route -> Time] /\ clock \in 1..MaxTime
    /\ own \in [Worker -> [Route -> Row]] /\ call \in [Worker -> Call]
    /\ free \in [Worker -> SUBSET Route]

Init ==
    /\ enabled \in SUBSET Route /\ clock = 1 /\ until \in [Route -> {Null} \cup 2..(1 + Cooldown)]
    /\ own = [k \in Worker |-> [r \in Route |-> Clean]]
    /\ call = [k \in Worker |-> Idle] /\ free = [k \in Worker |-> {}]

Tick == clock < MaxTime /\ clock' = clock + 1 /\ UNCHANGED <<enabled, until, own, call, free>>

-----------------------------------------------------------------------------
(* The session *)

Rested(time) == time <= clock      \* also of a null

\* Only a column that differs from what was read goes to the table.
Writes(row)  == row.set \/ row.until # Null
Flushed(row) == IF row.dirty
                THEN [row EXCEPT !.dirty = FALSE, !.locked = TRUE, !.set = Writes(row)] ELSE row
Flush(rows)  == [r \in Route |-> Flushed(rows[r])]

\* An UPDATE waits for the transaction that has the row.
MayFlush(k) == \A r \in Route, j \in Worker \ {k} :
    own[k][r].dirty => ~own[j][r].locked

\* A changed row is in memory; a flushed one may be, or is read again like any other.
MayRead(k, r, select) ==
    IF select THEN ~own[k][r].dirty /\ MayFlush(k) ELSE own[k][r].dirty \/ own[k][r].locked

Read(k, r, select) ==
    IF select /\ ~own[k][r].set
    THEN [own[k][r] EXCEPT !.until = until[r], !.set = until[r] # Null] ELSE own[k][r]

\* Rows that were read and not changed are not kept.
Keep(k, r, select, row) ==
    own' = [own EXCEPT ![k] = [(IF select THEN Flush(own[k]) ELSE own[k])
                                  EXCEPT ![r] = IF row.dirty \/ row.locked THEN row ELSE Clean]]

Changed(row, time) == [row EXCEPT !.dirty = TRUE, !.until = time]

\* The end of a transaction of k with rows in its session.
Commit(k, rows) ==
    /\ MayFlush(k)
    /\ until' = [r \in Route |-> IF Writes(rows[r]) THEN rows[r].until ELSE until[r]]
    /\ own'  = [own EXCEPT ![k] = [r \in Route |-> Clean]]
    /\ call' = [call EXCEPT ![k] = Idle]
    /\ free' = [j \in Worker |-> IF j = k THEN {} ELSE {r \in free[j] : rows[r].until = Null}]
    /\ UNCHANGED <<enabled, clock>>

-----------------------------------------------------------------------------
(* generate *)

Begin(k) ==
    /\ call[k].pc = "idle"
    /\ call' = [call EXCEPT ![k] = [Idle EXCEPT !.pc = "trying"]]
    /\ free' = [free EXCEPT ![k] = {r \in Route : Rested(until[r])}]
    /\ UNCHANGED <<enabled, until, clock, own>>

\* Routes are read and tried in the order of the tuple, from the cursor on.
Rank(k, r) == (r + Routes - call[k].cursor) % Routes
IsNext(k, r, rs) == r \in rs /\ \A q \in rs : Rank(k, r) <= Rank(k, q)

NextModel(k) ==
    /\ call[k].pc = "trying" /\ call[k].todo = {} /\ call[k].model < Models
    /\ call' = [call EXCEPT ![k].pc = "looking", ![k].model = @ + 1, ![k].now = clock,
                            ![k].look = Route]
    /\ UNCHANGED <<enabled, until, clock, own, free>>

Usable(k, r, row) == r \in enabled /\ row.until <= call[k].now

\* Mutant of RoutesToTry: no route in cooldown is ever tried, whatever the model.
OnlyUsable(k, found) == found

\* With no route out of cooldown a fallback model may use any that is enabled.
RoutesToTry(k, found) == IF found = {} /\ call[k].model > 1 THEN enabled ELSE found

\* One row of _available_routes: an ended COOLDOWN is turned into DEGRADED without a
\* cooldown; that of a DEGRADED route stays.  With the last row the routes are known.
Look(k, r, select, ended) ==
    /\ call[k].pc = "looking" /\ IsNext(k, r, call[k].look) /\ MayRead(k, r, select)
    /\ LET row   == Read(k, r, select)
           found == call[k].todo \cup (IF Usable(k, r, row) THEN {r} ELSE {})
           rest  == call[k].look \ {r}
       IN  /\ ended => Usable(k, r, row)
           /\ Keep(k, r, select, IF ended THEN Changed(row, Null) ELSE row)
           /\ call' = [call EXCEPT ![k] = IF rest # {}
                  THEN [call[k] EXCEPT !.look = rest, !.todo = found]
                  ELSE [call[k] EXCEPT !.pc = "trying", !.now = 0, !.look = {},
                                       !.todo = RoutesToTry(k, found)]]
    /\ UNCHANGED <<enabled, until, clock, free>>

\* The request is counted in the row, so the row is changed from here on.
Ask(k, r, select) ==
    /\ call[k].pc = "trying" /\ IsNext(k, r, call[k].todo) /\ MayRead(k, r, select)
    /\ LET row == Read(k, r, select) IN Keep(k, r, select, Changed(row, row.until))
    /\ call' = [call EXCEPT ![k].pc = "asking", ![k].todo = @ \ {r}, ![k].at = r]
    /\ UNCHANGED <<enabled, until, clock, free>>

Told(k, time) == [own[k] EXCEPT ![call[k].at] = Changed(@, time)]

RouteFails(k) ==
    /\ call[k].pc = "asking"
    /\ own'  = [own EXCEPT ![k] = Told(k, clock + Cooldown)]
    /\ call' = [call EXCEPT ![k].pc = "trying", ![k].at = 0, ![k].failure = TRUE]
    /\ free' = [free EXCEPT ![k] = @ \ {call[k].at}]
    /\ UNCHANGED <<enabled, until, clock>>

\* The orchestrator commits an answer that fits the schema, or the second that does not ...
RouteAnswers(k) == call[k].pc = "asking" /\ Commit(k, Told(k, Null))

\* ... and asks for the first that does not once more, in the same session.
Repair(k) ==
    /\ call[k].pc = "asking" /\ ~call[k].again
    /\ own'  = [own EXCEPT ![k] = Told(k, Null)]
    /\ call' = [call EXCEPT ![k] = [Idle EXCEPT !.pc = "trying", !.again = TRUE,
                                                !.cursor = (call[k].at + 1) % Routes]]
    /\ free' = [free EXCEPT ![k] =
          {r \in Route : Rested(until[r]) /\ Rested(Told(k, Null)[r].until)}]
    /\ UNCHANGED <<enabled, until, clock>>

GiveUp(k) ==
    /\ call[k].pc = "trying" /\ call[k].todo = {} /\ call[k].model = Models
    /\ call' = [call EXCEPT ![k].pc = "failed"]
    /\ UNCHANGED <<enabled, until, clock, own, free>>

CommitFailure(k) == call[k].pc = "failed" /\ Commit(k, own[k])

\* A worker that dies, or whose transaction is the victim of a deadlock, is rolled back.
Dies(k) ==
    /\ call[k].pc # "idle"
    /\ own'  = [own EXCEPT ![k] = [r \in Route |-> Clean]]
    /\ call' = [call EXCEPT ![k] = Idle] /\ free' = [free EXCEPT ![k] = {}]
    /\ UNCHANGED <<enabled, until, clock>>

-----------------------------------------------------------------------------
Next ==
    \/ Tick
    \/ \E k \in Worker :
          \/ Begin(k) \/ NextModel(k) \/ GiveUp(k)
          \/ RouteFails(k) \/ RouteAnswers(k) \/ Repair(k) \/ CommitFailure(k) \/ Dies(k)
    \/ \E k \in Worker, r \in Route, select \in BOOLEAN :
          Ask(k, r, select) \/ \E ended \in BOOLEAN : Look(k, r, select, ended)

Spec == Init /\ [][Next]_vars

-----------------------------------------------------------------------------
(* Properties *)

\* generate gives up only after it called some route, unless none is enabled, and every
\* enabled route that stayed out of cooldown: its own cooldowns, those that end between two
\* models and those that other workers commit meanwhile may take a route from it, but never
\* make it pass over one that was there all the time.
NoFalseOutage ==
    \A k \in Worker : call[k].pc = "failed" =>
        /\ free[k] \cap enabled = {}
        /\ call[k].failure \/ enabled = {}
=============================================================================
