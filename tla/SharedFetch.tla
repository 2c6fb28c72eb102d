---------------------------- MODULE SharedFetch ----------------------------
(***************************************************************************)
(* SourceFetchCoalescer.discover: runs that need the same public page share *)
(* one SharedSourceFetch row, which carries a lease for the run that is     *)
(* fetching and then the result, reusable for CacheTime.  The row is read,  *)
(* decided on and written back without a version check, and a worker keeps  *)
(* the row object and the clock value it started with, so several workers   *)
(* can hold the row at once.                                                *)
(***************************************************************************)
EXTENDS Integers, FiniteSets

CONSTANTS
    Run,
    NoRun,
    Worker,
    LeaseTime,       \* public_fetch_lease_seconds
    CacheTime,       \* public_fetch_cache_seconds, or the request's cache_seconds
    Lifetime,        \* timeout of the Lambda that runs discover
    MaxTime,         \* bound on the clock
    MaxChanges       \* bound: how often the public page changes

ASSUME FetchConstants ==
    /\ NoRun \notin Run
    /\ LeaseTime \in Nat \ {0}
    /\ CacheTime \in Nat \ {0}
    /\ Lifetime \in Nat \ {0}
    /\ MaxTime \in Nat \ {0}
    /\ MaxChanges \in Nat

VARIABLES
    now,       \* the clock; 0 stands for a null timestamp
    changes,   \* the times the page changed: it is known by the last of them
    row,       \* the SharedSourceFetch row of this fetch key
    worker,    \* what each worker is doing
    overlapped \* history: the runs that two workers had in hand at once

vars == <<now, changes, row, worker, overlapped>>

-----------------------------------------------------------------------------
Time == 0..(MaxTime + LeaseTime + CacheTime)
Page == 1..MaxTime

NoRow == [status |-> "ABSENT"]
Row ==
    [status  : {"RUNNING", "SUCCEEDED", "RETRYABLE_FAILED"},
     owner   : Run \cup {NoRun},
     lease   : Time,                \* lease_expires_at
     result  : Page \cup {0},       \* the page the stored results come from
     expires : Time]                \* result_expires_at

Blank == [status |-> "RUNNING", owner |-> NoRun, lease |-> 0, result |-> 0, expires |-> 0]

Idle == [pc |-> "idle"]
Busy ==
    [pc    : {"claim", "fetch", "store", "served", "pending"},
     run   : Run,
     start : Page,                  \* now, read once at the start of discover
     seen  : Row \cup {NoRow},      \* the row object of this session
     page  : Page \cup {0}]         \* the page fetched, or served from the row

\* Type correctness; no lease and no result reaches further into the future
\* than one LeaseTime or CacheTime, however often a run claims the row again.
TypeOK ==
    /\ now \in 1..MaxTime
    /\ changes \in SUBSET (1..now)
    /\ row \in Row \cup {NoRow}
    /\ row # NoRow => row.lease <= now + LeaseTime /\ row.expires <= now + CacheTime
    /\ worker \in [Worker -> {Idle} \cup Busy]
    /\ overlapped \subseteq Run

Init ==
    /\ now = 1
    /\ changes = {1}
    /\ row = NoRow
    /\ worker = [k \in Worker |-> Idle]
    /\ overlapped = {}

\* The page as it is now.
Site == CHOOSE t \in changes : \A u \in changes : u <= t

\* Only columns that changed since the row was loaded are written.
Merge(stored, seen, new) == IF new = seen THEN stored ELSE new

Flush(stored, seen, new) ==
    [c \in DOMAIN stored |-> Merge(stored[c], seen[c], new[c])]

Cached(shared, t) ==
    shared # NoRow /\ shared.status = "SUCCEEDED" /\ shared.expires > t

Leased(shared, t) ==
    shared # NoRow /\ shared.status = "RUNNING" /\ shared.lease > t

\* Mutant of HeldByOther: a run waits for its own lease too.
HeldByAnyone(shared, r, t) == Leased(shared, t)

HeldByOther(shared, r, t) == Leased(shared, t) /\ shared.owner # r

\* Mutant of Claimed: a run that claims its row again extends its lease.
ClaimedAgain(shared, r, t) ==
    [shared EXCEPT !.status = "RUNNING", !.owner = r, !.lease = @ + LeaseTime]

Claimed(shared, r, t) ==
    [shared EXCEPT !.status = "RUNNING", !.owner = r, !.lease = t + LeaseTime]

At(k, p) == worker[k].pc = p

-----------------------------------------------------------------------------
(* discover, up to the commit of the lease *)

Begin(k, r, p, shared, page) ==
    worker' = [worker EXCEPT ![k] =
        [pc |-> p, run |-> r, start |-> now, seen |-> shared, page |-> page]]

\* The worker keeps its run and its clock value.
Go(k, p, shared, page) ==
    worker' = [worker EXCEPT ![k] =
        [pc |-> p, run |-> worker[k].run, start |-> worker[k].start, seen |-> shared,
         page |-> page]]

Look(k, r) ==
    /\ worker[k] = Idle
    /\ \/ Cached(row, now) /\ Begin(k, r, "served", row, row.result)
       \/ HeldByOther(row, r, now) /\ Begin(k, r, "pending", row, 0)
       \/ /\ ~Cached(row, now) /\ ~HeldByOther(row, r, now)
          /\ Begin(k, r, "claim", row, 0)
    /\ overlapped' = IF \E j \in Worker : worker[j] # Idle /\ worker[j].run = r
                     THEN overlapped \cup {r} ELSE overlapped
    /\ UNCHANGED <<now, changes, row>>

Insert(k) ==
    LET new == Claimed(Blank, worker[k].run, worker[k].start) IN
    /\ At(k, "claim") /\ worker[k].seen = NoRow
    /\ row = NoRow
    /\ row' = new
    /\ Go(k, "fetch", new, 0)
    /\ UNCHANGED <<now, changes, overlapped>>

\* IntegrityError: another worker inserted the row first; the winner's row is
\* read and judged with the old clock value, whoever owns it.
LoseInsert(k) ==
    LET t == worker[k].start IN
    /\ At(k, "claim") /\ worker[k].seen = NoRow
    /\ row # NoRow
    /\ \/ Cached(row, t) /\ Go(k, "served", row, row.result)
       \/ Leased(row, t) /\ Go(k, "pending", row, 0)
       \/ ~Cached(row, t) /\ ~Leased(row, t) /\ Go(k, "claim", row, 0)
    /\ UNCHANGED <<now, changes, row, overlapped>>

TakeOver(k) ==
    LET new == Claimed(worker[k].seen, worker[k].run, worker[k].start) IN
    /\ At(k, "claim") /\ worker[k].seen # NoRow
    /\ row' = Flush(row, worker[k].seen, new)
    /\ Go(k, "fetch", new, 0)
    /\ UNCHANGED <<now, changes, overlapped>>

-----------------------------------------------------------------------------
(* discover, with the lease *)

Fetch(k) ==
    /\ At(k, "fetch")
    /\ Go(k, "store", worker[k].seen, Site)
    /\ UNCHANGED <<now, changes, row, overlapped>>

\* The fetch or the parser raises.
Fail(k) ==
    LET seen == worker[k].seen IN
    /\ At(k, "fetch") \/ At(k, "store")
    /\ row' = Flush(row, seen, [seen EXCEPT !.status = "RETRYABLE_FAILED", !.lease = 0])
    /\ worker' = [worker EXCEPT ![k] = Idle]
    /\ UNCHANGED <<now, changes, overlapped>>

\* Mutant of Expiry: the cache starts when the result is stored.
ExpiryAtStore(k) == now + CacheTime

Expiry(k) == worker[k].start + CacheTime

Store(k) ==
    LET seen == worker[k].seen IN
    /\ At(k, "store")
    /\ row' = Flush(row, seen,
            [status |-> "SUCCEEDED", owner |-> NoRun, lease |-> 0,
             result |-> worker[k].page, expires |-> Expiry(k)])
    /\ worker' = [worker EXCEPT ![k] = Idle]
    /\ UNCHANGED <<now, changes, overlapped>>

\* discover returned cached results, or raised SharedFetchPending.
Leave(k) ==
    /\ At(k, "served") \/ At(k, "pending")
    /\ worker' = [worker EXCEPT ![k] = Idle]
    /\ UNCHANGED <<now, changes, row, overlapped>>

Crash(k) ==
    /\ worker[k] # Idle
    /\ worker' = [worker EXCEPT ![k] = Idle]
    /\ UNCHANGED <<now, changes, row, overlapped>>

-----------------------------------------------------------------------------
(* The environment *)

\* No invocation outlives the Lambda timeout.
Tick ==
    /\ now < MaxTime
    /\ \A k \in Worker : worker[k] # Idle => now < worker[k].start + Lifetime
    /\ now' = now + 1
    /\ UNCHANGED <<changes, row, worker, overlapped>>

Change ==
    /\ now \notin changes
    /\ Cardinality(changes) <= MaxChanges
    /\ changes' = changes \cup {now}
    /\ UNCHANGED <<now, row, worker, overlapped>>

Next ==
    \/ Tick
    \/ Change
    \/ \E k \in Worker :
          \/ \E r \in Run : Look(k, r)
          \/ Insert(k) \/ LoseInsert(k) \/ TakeOver(k)
          \/ Fetch(k) \/ Fail(k) \/ Store(k) \/ Leave(k) \/ Crash(k)

Spec == Init /\ [][Next]_vars

-----------------------------------------------------------------------------
(* Properties *)

\* The page p was still online at some time after t.
OnlineAfter(p, t) ==
    p \in changes /\ \A c \in changes : c > p => c > t

\* Reused results are never older than CacheTime plus one invocation ("recently
\* successful, coalesce/reuse where safe").  The extra Lifetime is needed: a
\* worker that finds the content it loaded does not write the results column
\* again, but it does write the expiry, and the results of a late owner, older
\* by up to one Lifetime, may lie in between.
FreshResults ==
    \A k \in Worker : At(k, "served") =>
        OnlineAfter(worker[k].page, worker[k].start - CacheTime - Lifetime)

\* A crashed owner that is delivered again is not blocked by its own lease, however
\* the rows of other runs' overlapping workers were written over it.
NotBlockedByItself ==
    \A k \in Worker :
        (At(k, "pending") /\ worker[k].run \notin overlapped)
            => worker[k].seen.owner # worker[k].run
=============================================================================
