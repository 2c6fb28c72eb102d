----------------------- MODULE FetchAndRoutesProofs -----------------------
(***************************************************************************)
(* TLAPS proofs about the two parts of MCFetchAndRoutes.  SharedFetch, for  *)
(* any number of runs and workers, any times and any changes of the page:   *)
(* type correctness, with the bound on how far a lease reaches,             *)
(* NotBlockedByItself and FreshResults.  AiRoutes, for any number of routes *)
(* and models: NoFalseOutage.                                               *)
(***************************************************************************)
EXTENDS MCFetchAndRoutes, TLAPS

USE FetchConstants DEF FetchConstants

\* The page there is now exists.
HasLatest == \E t \in changes : \A u \in changes : u <= t

\* A worker started in the past; what it saw is there, and a lease is a row.
Begun ==
    \A k \in Worker : worker[k] # Idle =>
        /\ worker[k].start <= now
        /\ worker[k].seen # NoRow => row # NoRow
        /\ worker[k].pc \in {"fetch", "store"} => worker[k].seen # NoRow

\* Only a run that overlapped is in two workers' hands.
Alone ==
    \A j, k \in Worker :
        /\ worker[j] # Idle /\ worker[k] # Idle /\ j # k
        /\ worker[j].run = worker[k].run
        => worker[k].run \in overlapped

\* A row inserted since a worker found none is another run's, and stays that.
InsertedByOther ==
    \A k \in Worker :
        /\ worker[k] # Idle /\ worker[k].pc = "claim" /\ worker[k].seen = NoRow
        /\ worker[k].run \notin overlapped /\ row # NoRow
        => row.owner # worker[k].run

Pending ==
    \A k \in Worker :
        /\ worker[k] # Idle /\ worker[k].pc = "pending" /\ worker[k].run \notin overlapped
        => worker[k].seen.owner # worker[k].run

IInv == TypeOK /\ HasLatest /\ Begun /\ Alone /\ InsertedByOther /\ Pending

-----------------------------------------------------------------------------
LEMMA NoneIsNone ==
    /\ NoRow \notin Row /\ Idle \notin Busy /\ Idle.pc = "idle"
    /\ \A b \in Busy : b.pc # "idle" /\ b # Idle
<1>1. Idle.pc = "idle"
  BY DEF Idle
<1>2. NoRow.status = "ABSENT"
  BY DEF NoRow
<1> QED
  BY <1>1, <1>2 DEF Row, Busy

LEMMA InitIInv == Init => IInv
BY NoneIsNone DEF Init, IInv, TypeOK, HasLatest, Begun, Alone, InsertedByOther, Pending

\* What a claim makes of a row.
LEMMA ClaimedTyped ==
    ASSUME NEW s \in Row, NEW r \in Run, NEW t \in Page
    PROVE  /\ Claimed(s, r, t) \in Row
           /\ Claimed(s, r, t).owner = r /\ Claimed(s, r, t).lease = t + LeaseTime
           /\ Claimed(s, r, t).expires = s.expires
<1> DEFINE c1 == [s EXCEPT !.status = "RUNNING"]
           c2 == [c1 EXCEPT !.owner = r]
<1>1. c1 \in Row /\ c1.expires = s.expires
  BY DEF Row
<1>2. Claimed(s, r, t) = [c2 EXCEPT !.lease = t + LeaseTime]
  BY DEF Claimed
<1>3. t + LeaseTime \in Time
  BY DEF Time, Page
<1> HIDE DEF c1
<1>4. c2 \in Row /\ c2.expires = s.expires /\ c2.owner = r
  BY <1>1 DEF Row
<1> HIDE DEF c2
<1> QED
  BY <1>2, <1>3, <1>4 DEF Row

\* What an UPDATE of a row makes of it: every column is the stored or the new one.
LEMMA FlushTyped ==
    ASSUME NEW stored \in Row, NEW seen \in Row, NEW new \in Row
    PROVE  LET f == Flush(stored, seen, new) IN
           /\ f \in Row
           /\ f.owner \in {stored.owner, new.owner} /\ (new.owner = seen.owner => f.owner = stored.owner)
           /\ f.lease \in {stored.lease, new.lease}
           /\ f.expires \in {stored.expires, new.expires}
<1> DEFINE f == Flush(stored, seen, new)
<1>1. DOMAIN stored = {"status", "owner", "lease", "result", "expires"}
  BY DEF Row
<1>2. /\ f.status = Merge(stored.status, seen.status, new.status)
      /\ f.owner = Merge(stored.owner, seen.owner, new.owner)
      /\ f.lease = Merge(stored.lease, seen.lease, new.lease)
      /\ f.result = Merge(stored.result, seen.result, new.result)
      /\ f.expires = Merge(stored.expires, seen.expires, new.expires)
  BY <1>1 DEF Flush
<1>3. f = [status |-> f.status, owner |-> f.owner, lease |-> f.lease,
           result |-> f.result, expires |-> f.expires]
  BY <1>1 DEF Flush
<1> HIDE DEF f
<1>4. /\ f.status \in {stored.status, new.status}
      /\ f.owner \in {stored.owner, new.owner}
      /\ f.lease \in {stored.lease, new.lease}
      /\ f.result \in {stored.result, new.result}
      /\ f.expires \in {stored.expires, new.expires}
      /\ new.owner = seen.owner => f.owner = stored.owner
  BY <1>2 DEF Merge
<1>5. f \in Row
  BY <1>3, <1>4 DEF Row
<1> QED
  BY <1>4, <1>5 DEF f

-----------------------------------------------------------------------------
(* One worker with a run in hand writes the row, or does not *)

Written(k) ==
    \/ row' = row
    \/ /\ row' \in Row
       /\ row'.lease <= now + LeaseTime /\ row'.expires <= now + CacheTime
       /\ row'.owner \in {worker[k].run, NoRun} \/ (row # NoRow /\ row'.owner = row.owner)

\* A worker that found no row meets one of another run, whoever wrote it.
LEMMA WrittenByOther ==
    ASSUME IInv, NEW k \in Worker, worker[k] # Idle, Written(k),
           NEW j \in Worker \ {k}, worker[j] # Idle, worker[j].pc = "claim",
           worker[j].seen = NoRow, worker[j].run \notin overlapped, row' # NoRow
    PROVE  row'.owner # worker[j].run
<1>1. worker[j].run # worker[k].run
  BY DEF IInv, Alone
<1>2. worker[j].run \in Run
  BY DEF IInv, TypeOK, Busy
<1>3. row # NoRow => row.owner # worker[j].run
  BY DEF IInv, InsertedByOther
<1> QED
  BY <1>1, <1>2, <1>3 DEF Written

LEMMA WrittenTyped ==
    ASSUME IInv, NEW k \in Worker, Written(k), UNCHANGED now
    PROVE  /\ row' \in Row \cup {NoRow}
           /\ row' # NoRow => row'.lease <= now' + LeaseTime /\ row'.expires <= now' + CacheTime
           /\ row # NoRow => row' # NoRow
BY NoneIsNone DEF Written, IInv, TypeOK

\* The worker is done, or dies.
LEMMA EndIInv ==
    ASSUME IInv, NEW k \in Worker, worker[k] # Idle, Written(k),
           worker' = [worker EXCEPT ![k] = Idle], UNCHANGED <<now, changes, overlapped>>
    PROVE  IInv'
<1>1. TypeOK'
  BY WrittenTyped DEF IInv, TypeOK
<1>2. HasLatest'
  BY DEF IInv, HasLatest
<1>3. \A j \in Worker : worker'[j] # Idle => j # k /\ worker'[j] = worker[j]
  BY DEF IInv, TypeOK
<1>4. Begun' /\ Alone' /\ Pending'
  BY <1>3, WrittenTyped DEF IInv, Begun, Alone, Pending
<1>5. InsertedByOther'
  BY <1>3, WrittenByOther DEF InsertedByOther
<1> QED
  BY <1>1, <1>2, <1>4, <1>5 DEF IInv

\* The worker goes on with a row it knows.
LEMMA GoIInv ==
    ASSUME IInv, NEW k \in Worker, worker[k] # Idle, Written(k),
           NEW p \in {"claim", "fetch", "store", "served", "pending"},
           NEW shared \in Row, NEW page \in Page \cup {0}, Go(k, p, shared, page),
           UNCHANGED <<now, changes, overlapped>>, row' # NoRow,
           p = "pending" /\ worker[k].run \notin overlapped => shared.owner # worker[k].run
    PROVE  IInv'
<1> DEFINE w == [pc |-> p, run |-> worker[k].run, start |-> worker[k].start,
                 seen |-> shared, page |-> page]
<1>1. worker[k] \in Busy
  BY DEF IInv, TypeOK
<1>2. w \in Busy /\ w # Idle
  BY <1>1, NoneIsNone DEF Busy
<1>3. /\ w.run = worker[k].run /\ w.start = worker[k].start /\ w.seen = shared
      /\ w.pc = p /\ shared # NoRow
  BY NoneIsNone
<1>4. worker' = [worker EXCEPT ![k] = w]
  BY DEF Go
<1> HIDE DEF w
<1>5. TypeOK'
  BY <1>2, <1>4, WrittenTyped DEF IInv, TypeOK
<1>6. HasLatest'
  BY DEF IInv, HasLatest
<1>7. worker'[k] = w /\ \A j \in Worker \ {k} : worker'[j] = worker[j]
  BY <1>4 DEF IInv, TypeOK
<1>8. Begun'
  BY <1>3, <1>7, WrittenTyped DEF IInv, Begun
<1>9. Alone'
  BY <1>3, <1>7 DEF IInv, Alone
<1>10. Pending'
  BY <1>3, <1>7 DEF IInv, Pending
<1>11. InsertedByOther'
  BY <1>3, <1>7, WrittenByOther DEF InsertedByOther
<1> QED
  BY <1>5, <1>6, <1>8, <1>9, <1>10, <1>11 DEF IInv

-----------------------------------------------------------------------------
LEMMA InsertIInv ==
    ASSUME IInv, NEW k \in Worker, Insert(k)
    PROVE  IInv'
<1> DEFINE new == Claimed(Blank, worker[k].run, worker[k].start)
<1>1. worker[k] # Idle
  BY NoneIsNone DEF Insert, At
<1>2. worker[k] \in Busy /\ worker[k].start <= now
  BY <1>1 DEF IInv, TypeOK, Begun
<1>3. worker[k].start \in Page /\ worker[k].run \in Run
  BY <1>2 DEF Busy
<1>4. Blank \in Row /\ Blank.expires = 0
  BY DEF Blank, Row, Time
<1>5. /\ new \in Row /\ new.owner = worker[k].run
      /\ new.lease = worker[k].start + LeaseTime /\ new.expires = 0
  BY <1>3, <1>4, ClaimedTyped
<1>6. row' = new /\ Go(k, "fetch", new, 0) /\ UNCHANGED <<now, changes, overlapped>>
  BY DEF Insert
<1> HIDE DEF new
<1>7. Written(k)
  BY <1>2, <1>3, <1>5, <1>6 DEF Written, Page, IInv, TypeOK
<1> QED
  BY <1>1, <1>5, <1>6, <1>7, GoIInv, NoneIsNone

LEMMA LoseInsertIInv ==
    ASSUME IInv, NEW k \in Worker, LoseInsert(k)
    PROVE  IInv'
<1>1. worker[k] # Idle
  BY NoneIsNone DEF LoseInsert, At
<1>2. row \in Row /\ row # NoRow /\ row' = row /\ row.result \in Page \cup {0}
  BY DEF LoseInsert, IInv, TypeOK, Row
<1>3. worker[k].run \notin overlapped => row.owner # worker[k].run
  BY <1>1, <1>2 DEF LoseInsert, At, IInv, InsertedByOther
<1>4. Written(k) /\ UNCHANGED <<now, changes, overlapped>>
  BY <1>2 DEF Written, LoseInsert
<1>5. PICK p \in {"claim", "served", "pending"}, page \in Page \cup {0} : Go(k, p, row, page)
  BY <1>2 DEF LoseInsert
<1> QED
  BY <1>1, <1>2, <1>3, <1>4, <1>5, GoIInv

\* A worker with a lease knows the row, which is still there.
LEMMA LeaseKnown ==
    ASSUME IInv, NEW k \in Worker, worker[k].pc \in {"claim", "fetch", "store"},
           worker[k].pc = "claim" => worker[k].seen # NoRow
    PROVE  /\ worker[k] # Idle /\ worker[k] \in Busy
           /\ worker[k].run \in Run /\ worker[k].start \in Page /\ worker[k].start <= now
           /\ worker[k].page \in Page \cup {0}
           /\ worker[k].seen \in Row /\ row \in Row /\ row # NoRow
<1>1. worker[k] # Idle
  BY NoneIsNone
<1>2. worker[k] \in Busy
  BY <1>1 DEF IInv, TypeOK
<1>3. worker[k].seen # NoRow
  BY <1>1 DEF IInv, Begun
<1> QED
  BY <1>1, <1>2, <1>3 DEF Busy, IInv, TypeOK, Begun

LEMMA TakeOverIInv ==
    ASSUME IInv, NEW k \in Worker, TakeOver(k)
    PROVE  IInv'
<1> DEFINE seen == worker[k].seen
           new == Claimed(seen, worker[k].run, worker[k].start)
<1>1. worker[k].pc = "claim" /\ seen # NoRow
  BY DEF TakeOver, At
<1>2. /\ worker[k] # Idle /\ worker[k] \in Busy /\ worker[k].run \in Run
      /\ worker[k].start \in Page /\ worker[k].start <= now
      /\ seen \in Row /\ row \in Row /\ row # NoRow
  BY <1>1, LeaseKnown
<1>3. new \in Row /\ new.owner = worker[k].run /\ new.lease = worker[k].start + LeaseTime
      /\ new.expires = seen.expires
  BY <1>2, ClaimedTyped
<1>4. /\ row' = Flush(row, seen, new)
      /\ Go(k, "fetch", new, 0) /\ UNCHANGED <<now, changes, overlapped>>
  BY DEF TakeOver
<1>5. row'.expires = row.expires
  <2>1. DOMAIN row = {"status", "owner", "lease", "result", "expires"}
    BY <1>2 DEF Row
  <2>2. row'.expires = Merge(row.expires, seen.expires, new.expires)
    BY <1>4, <2>1 DEF Flush
  <2> QED
    BY <1>3, <2>2 DEF Merge
<1> HIDE DEF new
<1>6. /\ row' \in Row /\ row'.owner \in {row.owner, new.owner}
      /\ row'.lease \in {row.lease, new.lease}
  BY <1>2, <1>3, <1>4, FlushTyped
<1>7. new.lease <= now + LeaseTime
  BY <1>2, <1>3 DEF Page, IInv, TypeOK
<1>8. row.lease <= now + LeaseTime /\ row.expires <= now + CacheTime
  BY <1>2 DEF IInv, TypeOK
<1>9. Written(k)
  BY <1>2, <1>3, <1>5, <1>6, <1>7, <1>8 DEF Written
<1> QED
  BY <1>2, <1>3, <1>4, <1>6, <1>9, GoIInv, NoneIsNone

LEMMA FetchIInv ==
    ASSUME IInv, NEW k \in Worker, Fetch(k)
    PROVE  IInv'
<1>1. /\ worker[k] # Idle /\ worker[k].seen \in Row /\ row # NoRow
  BY LeaseKnown DEF Fetch, At
<1>2. Site \in changes
  BY DEF Site, IInv, HasLatest
<1>3. Site \in Page
  BY <1>2 DEF IInv, TypeOK, Page
<1>4. Written(k) /\ row' # NoRow /\ UNCHANGED <<now, changes, overlapped>>
  BY <1>1 DEF Fetch, Written
<1> QED
  BY <1>1, <1>3, <1>4, GoIInv DEF Fetch

LEMMA FailIInv ==
    ASSUME IInv, NEW k \in Worker, Fail(k)
    PROVE  IInv'
<1> DEFINE seen == worker[k].seen
           s1 == [seen EXCEPT !.status = "RETRYABLE_FAILED"]
           new == [s1 EXCEPT !.lease = 0]
<1>1. worker[k] # Idle /\ seen \in Row /\ row \in Row /\ row # NoRow
  BY LeaseKnown DEF Fail, At
<1>2. row' = Flush(row, seen, new) /\ worker' = [worker EXCEPT ![k] = Idle]
      /\ UNCHANGED <<now, changes, overlapped>>
  BY DEF Fail
<1>3. s1 \in Row /\ s1.owner = seen.owner /\ s1.expires = seen.expires
  BY <1>1 DEF Row
<1> HIDE DEF s1
<1>4. new \in Row /\ new.owner = seen.owner /\ new.expires = seen.expires /\ new.lease = 0
  BY <1>3 DEF Row, Time
<1> HIDE DEF new
<1>5. row'.expires = row.expires
  <2>1. DOMAIN row = {"status", "owner", "lease", "result", "expires"}
    BY <1>1 DEF Row
  <2>2. row'.expires = Merge(row.expires, seen.expires, new.expires)
    BY <1>2, <2>1 DEF Flush
  <2> QED
    BY <1>4, <2>2 DEF Merge
<1>6. row' \in Row /\ row'.owner = row.owner /\ row'.lease \in {row.lease, 0}
  BY <1>1, <1>2, <1>4, FlushTyped
<1>7. row.lease <= now + LeaseTime /\ row.expires <= now + CacheTime /\ 0 <= now + LeaseTime
  BY <1>1 DEF IInv, TypeOK
<1>8. Written(k)
  BY <1>1, <1>5, <1>6, <1>7 DEF Written
<1> QED
  BY <1>1, <1>2, <1>8, EndIInv

LEMMA StoreIInv ==
    ASSUME IInv, NEW k \in Worker, Store(k)
    PROVE  IInv'
<1> DEFINE seen == worker[k].seen
           new == [status |-> "SUCCEEDED", owner |-> NoRun, lease |-> 0,
                   result |-> worker[k].page, expires |-> Expiry(k)]
<1>1. /\ worker[k] # Idle /\ worker[k].start \in Page /\ worker[k].start <= now
      /\ worker[k].page \in Page \cup {0} /\ seen \in Row /\ row \in Row /\ row # NoRow
  BY LeaseKnown DEF Store, At
<1>2. row' = Flush(row, seen, new) /\ worker' = [worker EXCEPT ![k] = Idle]
      /\ UNCHANGED <<now, changes, overlapped>>
  BY DEF Store
<1>3. Expiry(k) \in Time /\ Expiry(k) <= now + CacheTime /\ 0 \in Time
  BY <1>1 DEF Expiry, Page, Time, IInv, TypeOK
<1>4. new \in Row /\ new.owner = NoRun /\ new.lease = 0 /\ new.expires = Expiry(k)
  BY <1>1, <1>3 DEF Row
<1> HIDE DEF new
<1>5. /\ row' \in Row /\ row'.owner \in {row.owner, NoRun}
      /\ row'.lease \in {row.lease, 0} /\ row'.expires \in {row.expires, Expiry(k)}
  BY <1>1, <1>2, <1>4, FlushTyped
<1>6. row.lease <= now + LeaseTime /\ row.expires <= now + CacheTime /\ 0 <= now + LeaseTime
  BY <1>1 DEF IInv, TypeOK
<1>7. Written(k)
  BY <1>1, <1>3, <1>5, <1>6 DEF Written
<1> QED
  BY <1>1, <1>2, <1>7, EndIInv

LEMMA LeaveIInv ==
    ASSUME IInv, NEW k \in Worker, Leave(k) \/ Crash(k)
    PROVE  IInv'
<1>1. worker[k] # Idle
  BY NoneIsNone DEF Leave, Crash, At
<1> QED
  BY <1>1, EndIInv DEF Leave, Crash, Written

LEMMA LookIInv ==
    ASSUME IInv, NEW k \in Worker, NEW r \in Run, Look(k, r)
    PROVE  IInv'
<1>1. PICK p \in {"served", "pending", "claim"}, page \in Page \cup {0} :
         /\ Begin(k, r, p, row, page)
         /\ p # "claim" => row # NoRow
         /\ p = "pending" => row.owner # r
  <2>1. Cached(row, now) => row.result \in Page \cup {0} /\ row # NoRow
    BY DEF Cached, IInv, TypeOK, Row
  <2>2. HeldByOther(row, r, now) => row.owner # r /\ row # NoRow
    BY DEF HeldByOther, Leased
  <2> QED
    BY <2>1, <2>2 DEF Look
<1> DEFINE w == [pc |-> p, run |-> r, start |-> now, seen |-> row, page |-> page]
<1>2. /\ worker[k] = Idle /\ worker' = [worker EXCEPT ![k] = w]
      /\ UNCHANGED <<now, changes, row>>
  BY <1>1 DEF Look, Begin
<1>3. now \in Page /\ row \in Row \cup {NoRow}
  BY DEF IInv, TypeOK, Page
<1>4. w \in Busy /\ w # Idle
  BY <1>1, <1>3, NoneIsNone DEF Busy
<1>5. w.pc = p /\ w.run = r /\ w.start = now /\ w.seen = row
  OBVIOUS
<1> HIDE DEF w
<1>6. /\ overlapped \subseteq overlapped' /\ overlapped' \subseteq Run
      /\ \A j \in Worker : worker[j] # Idle /\ worker[j].run = r => r \in overlapped'
  BY DEF Look, IInv, TypeOK
<1>7. worker'[k] = w /\ \A j \in Worker \ {k} : worker'[j] = worker[j]
  BY <1>2 DEF IInv, TypeOK
<1>8. TypeOK' /\ HasLatest'
  BY <1>2, <1>4, <1>6 DEF IInv, TypeOK, HasLatest
<1>9. Begun'
  BY <1>1, <1>2, <1>3, <1>5, <1>7 DEF IInv, Begun, Page
<1>10. Alone'
  BY <1>2, <1>5, <1>6, <1>7 DEF IInv, Alone
<1>11. InsertedByOther' /\ Pending'
  BY <1>1, <1>2, <1>5, <1>6, <1>7 DEF IInv, InsertedByOther, Pending
<1> QED
  BY <1>8, <1>9, <1>10, <1>11 DEF IInv

LEMMA TickIInv ==
    ASSUME IInv, Tick
    PROVE  IInv'
<1>1. now \in Nat /\ now' = now + 1 /\ now' \in 1..MaxTime
      /\ UNCHANGED <<changes, row, worker, overlapped>>
  BY DEF Tick, IInv, TypeOK
<1>2. row # NoRow => row.lease \in Nat /\ row.expires \in Nat
  BY DEF IInv, TypeOK, Row, Time
<1>3. TypeOK'
  BY <1>1, <1>2 DEF IInv, TypeOK
<1>4. Begun'
  <2>1. \A j \in Worker : worker[j] # Idle => worker[j].start \in Nat
    BY DEF IInv, TypeOK, Busy, Page
  <2> QED
    BY <1>1, <2>1 DEF IInv, Begun
<1>5. HasLatest' /\ Alone' /\ InsertedByOther' /\ Pending'
  BY <1>1 DEF IInv, HasLatest, Alone, InsertedByOther, Pending
<1> QED
  BY <1>3, <1>4, <1>5 DEF IInv

LEMMA ChangeIInv ==
    ASSUME IInv, Change
    PROVE  IInv'
<1>1. changes' = changes \cup {now} /\ UNCHANGED <<now, row, worker, overlapped>>
  BY DEF Change
<1>2. TypeOK'
  BY <1>1 DEF IInv, TypeOK
<1>3. HasLatest'
  <2>1. now \in changes' /\ \A u \in changes' : u <= now
    BY <1>1 DEF IInv, TypeOK
  <2> QED
    BY <2>1 DEF HasLatest
<1>4. Begun' /\ Alone' /\ InsertedByOther' /\ Pending'
  BY <1>1 DEF IInv, Begun, Alone, InsertedByOther, Pending
<1> QED
  BY <1>2, <1>3, <1>4 DEF IInv

LEMMA StepIInv == IInv /\ [Next]_vars => IInv'
<1> SUFFICES ASSUME IInv, [Next]_vars
             PROVE  IInv'
  OBVIOUS
<1>1. CASE UNCHANGED vars
  BY <1>1 DEF vars, IInv, TypeOK, HasLatest, Begun, Alone, InsertedByOther, Pending
<1>2. CASE Next
  BY <1>2, TickIInv, ChangeIInv, LookIInv, InsertIInv, LoseInsertIInv, TakeOverIInv,
     FetchIInv, FailIInv, StoreIInv, LeaveIInv DEF Next
<1> QED
  BY <1>1, <1>2

-----------------------------------------------------------------------------
(* How old a result may be *)

\* Nobody outlives its invocation.
InTime == \A k \in Worker : worker[k] # Idle => now <= worker[k].start + Lifetime

\* What a worker has fetched, or was served, was online not too long before it started.
PagesFresh ==
    \A k \in Worker :
        /\ worker[k].pc = "store" => OnlineAfter(worker[k].page, worker[k].start - 1)
        /\ worker[k].pc = "served" =>
               OnlineAfter(worker[k].page, worker[k].start - CacheTime - Lifetime)

\* The results were online one Lifetime before the start of the worker whose expiry
\* they carry, whichever two workers wrote the two columns.
RowFresh ==
    row # NoRow =>
        /\ row.status = "SUCCEEDED" => row.result # 0
        /\ row.result # 0 => OnlineAfter(row.result, row.expires - CacheTime - Lifetime - 1)

\* Results that replaced those a worker has loaded come from one that was still alive then.
ReplacedByLive ==
    \A k \in Worker :
        worker[k].pc \in {"claim", "fetch", "store"} /\ worker[k].seen # NoRow =>
            \/ row.result = worker[k].seen.result
            \/ OnlineAfter(row.result, worker[k].start - Lifetime - 1)

FreshInv == InTime /\ PagesFresh /\ RowFresh /\ ReplacedByLive

LEMMA FreshInit == Init => FreshInv
BY NoneIsNone DEF Init, FreshInv, InTime, PagesFresh, RowFresh, ReplacedByLive

\* The columns a claim and a failure leave alone.
Carried ==
    IF row = NoRow THEN row' = NoRow \/ (row'.result = 0 /\ row'.status # "SUCCEEDED")
    ELSE /\ row' # NoRow /\ row'.result = row.result /\ row'.expires = row.expires
         /\ row'.status = "SUCCEEDED" => row.status = "SUCCEEDED"

\* A worker goes on, ends or starts, and writes no result.
LEMMA FreshMoves ==
    ASSUME IInv, FreshInv, NEW k \in Worker, NEW w, worker' = [worker EXCEPT ![k] = w],
           UNCHANGED <<now, changes>>, Carried, w = Idle \/ w \in Busy,
           w # Idle => now <= w.start + Lifetime,
           w.pc = "store" => OnlineAfter(w.page, w.start - 1),
           w.pc = "served" => OnlineAfter(w.page, w.start - CacheTime - Lifetime),
           w.pc \in {"claim", "fetch", "store"} /\ w.seen # NoRow =>
               row'.result = w.seen.result \/ OnlineAfter(row'.result, w.start - Lifetime - 1)
    PROVE  FreshInv'
<1>1. worker'[k] = w /\ \A j \in Worker \ {k} : worker'[j] = worker[j]
  BY DEF IInv, TypeOK
<1>2. InTime'
  BY <1>1 DEF FreshInv, InTime
<1>3. PagesFresh'
  BY <1>1 DEF FreshInv, PagesFresh, OnlineAfter
<1>4. RowFresh'
  BY DEF FreshInv, RowFresh, Carried, OnlineAfter
<1>5. ReplacedByLive'
  <2>1. ASSUME NEW j \in Worker \ {k}, worker[j].pc \in {"claim", "fetch", "store"}, worker[j].seen # NoRow
        PROVE  \/ row'.result = worker[j].seen.result
               \/ OnlineAfter(row'.result, worker[j].start - Lifetime - 1)
    <3>1. row # NoRow
      BY <2>1, NoneIsNone DEF IInv, Begun
    <3>2. row'.result = row.result
      BY <3>1 DEF Carried
    <3> QED
      BY <2>1, <3>2 DEF FreshInv, ReplacedByLive
  <2> QED
    BY <1>1, <2>1 DEF ReplacedByLive, OnlineAfter
<1> QED
  BY <1>2, <1>3, <1>4, <1>5 DEF FreshInv

\* What an UPDATE leaves of each column.
LEMMA FlushColumns ==
    ASSUME NEW stored \in Row, NEW seen, NEW new
    PROVE  LET f == Flush(stored, seen, new) IN
           /\ f.status = Merge(stored.status, seen.status, new.status)
           /\ f.result = Merge(stored.result, seen.result, new.result)
           /\ f.expires = Merge(stored.expires, seen.expires, new.expires)
<1>1. DOMAIN stored = {"status", "owner", "lease", "result", "expires"}
  BY DEF Row
<1> QED
  BY <1>1 DEF Flush

\* A claim leaves the results as they are.
LEMMA ClaimKeeps ==
    ASSUME NEW s \in Row, NEW r \in Run, NEW t \in Page
    PROVE  /\ Claimed(s, r, t).status = "RUNNING" /\ Claimed(s, r, t).result = s.result
           /\ Claimed(s, r, t).expires = s.expires
<1> DEFINE c1 == [s EXCEPT !.status = "RUNNING"]
           c2 == [c1 EXCEPT !.owner = r]
<1>1. c1 \in Row /\ c1.expires = s.expires /\ c1.result = s.result /\ c1.status = "RUNNING"
  BY DEF Row
<1>2. Claimed(s, r, t) = [c2 EXCEPT !.lease = t + LeaseTime]
  BY DEF Claimed
<1> HIDE DEF c1
<1>3. c2 \in Row /\ c2.expires = s.expires /\ c2.result = s.result /\ c2.status = "RUNNING"
  BY <1>1 DEF Row
<1> HIDE DEF c2
<1> QED
  BY <1>2, <1>3 DEF Row

\* A row that is served at t: the results are fresh for whoever asks then.
LEMMA CachedIsFresh ==
    ASSUME IInv, FreshInv, NEW t \in Nat, Cached(row, t)
    PROVE  OnlineAfter(row.result, t - CacheTime - Lifetime)
<1>1. row \in Row /\ row # NoRow /\ row.status = "SUCCEEDED" /\ row.expires > t
  BY DEF Cached, IInv, TypeOK
<1>2. row.expires \in Nat /\ changes \subseteq Nat
  BY <1>1 DEF Row, Time, IInv, TypeOK
<1>3. OnlineAfter(row.result, row.expires - CacheTime - Lifetime - 1)
  BY <1>1 DEF FreshInv, RowFresh
<1> QED
  BY <1>1, <1>2, <1>3 DEF OnlineAfter

LEMMA FreshLook ==
    ASSUME IInv, FreshInv, NEW k \in Worker, NEW r \in Run, Look(k, r)
    PROVE  FreshInv'
<1>1. now \in Page /\ now \in Nat /\ row \in Row \cup {NoRow} /\ UNCHANGED <<now, changes, row>>
  BY DEF IInv, TypeOK, Page, Look
<1>2. Cached(row, now) => row.result \in Page \cup {0} /\ row # NoRow
  BY DEF Cached, IInv, TypeOK, Row
<1>3. PICK p \in {"served", "pending", "claim"}, page \in Page \cup {0} :
         /\ Begin(k, r, p, row, page)
         /\ p = "served" => OnlineAfter(page, now - CacheTime - Lifetime)
  BY <1>1, <1>2, CachedIsFresh DEF Look
<1> DEFINE w == [pc |-> p, run |-> r, start |-> now, seen |-> row, page |-> page]
<1>4. worker' = [worker EXCEPT ![k] = w]
  BY <1>3 DEF Begin
<1>5. w \in Busy /\ w.pc = p /\ w.start = now /\ w.seen = row /\ w.page = page
  BY <1>1 DEF Busy
<1> HIDE DEF w
<1>6. Carried
  BY <1>1 DEF Carried
<1>7. /\ now <= w.start + Lifetime
      /\ w.pc = "served" => OnlineAfter(w.page, w.start - CacheTime - Lifetime)
      /\ w.pc # "store" /\ row' = w.seen
  BY <1>1, <1>3, <1>5
<1> QED
  BY <1>1, <1>4, <1>5, <1>6, <1>7, FreshMoves

\* A worker at work, and what it still has to be.
LEMMA AtWork ==
    ASSUME IInv, FreshInv, NEW k \in Worker, worker[k].pc # "idle"
    PROVE  /\ worker[k] # Idle /\ worker[k] \in Busy /\ worker[k].start \in Page /\ worker[k].run \in Run
           /\ worker[k].start <= now /\ now <= worker[k].start + Lifetime
           /\ worker[k].seen \in Row \cup {NoRow} /\ worker[k].start \in Nat
           /\ now \in Nat /\ changes \subseteq Nat
<1>1. worker[k] # Idle
  BY NoneIsNone
<1> QED
  BY <1>1 DEF IInv, TypeOK, Begun, Busy, FreshInv, InTime, Page

LEMMA FreshGoes ==
    ASSUME IInv, FreshInv, NEW k \in Worker, worker[k].pc # "idle",
           NEW p \in {"claim", "fetch", "store", "served", "pending"},
           NEW shared \in Row, NEW page \in Page \cup {0}, Go(k, p, shared, page),
           UNCHANGED <<now, changes>>, Carried,
           p = "store" => OnlineAfter(page, worker[k].start - 1),
           p = "served" => OnlineAfter(page, worker[k].start - CacheTime - Lifetime),
           p \in {"claim", "fetch", "store"} =>
               \/ row'.result = shared.result
               \/ OnlineAfter(row'.result, worker[k].start - Lifetime - 1)
    PROVE  FreshInv'
<1> DEFINE w == [pc |-> p, run |-> worker[k].run, start |-> worker[k].start,
                 seen |-> shared, page |-> page]
<1>1. /\ worker[k].start \in Page /\ worker[k].run \in Run
      /\ now <= worker[k].start + Lifetime
  BY AtWork
<1>2. worker' = [worker EXCEPT ![k] = w]
  BY DEF Go
<1>3. /\ w \in Busy /\ w.pc = p /\ w.start = worker[k].start /\ w.seen = shared /\ w.page = page
  BY <1>1 DEF Busy
<1> HIDE DEF w
<1> QED
  BY <1>1, <1>2, <1>3, FreshMoves

LEMMA FreshClaim ==
    ASSUME IInv, FreshInv, NEW k \in Worker, Insert(k) \/ LoseInsert(k) \/ TakeOver(k)
    PROVE  FreshInv'
<1>1. worker[k].pc = "claim" /\ UNCHANGED <<now, changes>>
  BY DEF Insert, LoseInsert, TakeOver, At
<1>2. /\ worker[k].start \in Page /\ worker[k].run \in Run /\ worker[k].start \in Nat
      /\ worker[k].seen \in Row \cup {NoRow} /\ row \in Row \cup {NoRow}
  BY <1>1, AtWork DEF IInv, TypeOK
<1>3. CASE Insert(k)
  <2> DEFINE new == Claimed(Blank, worker[k].run, worker[k].start)
  <2>1. Blank \in Row /\ Blank.result = 0
    BY DEF Blank, Row, Time
  <2>2. new \in Row /\ new.result = 0 /\ new.status = "RUNNING"
    BY <1>2, <2>1, ClaimedTyped, ClaimKeeps
  <2>3. row = NoRow /\ row' = new /\ Go(k, "fetch", new, 0)
    BY <1>3 DEF Insert
  <2> HIDE DEF new
  <2>4. Carried
    BY <2>2, <2>3 DEF Carried
  <2> QED
    BY <1>1, <2>2, <2>3, <2>4, FreshGoes
<1>4. CASE LoseInsert(k)
  <2>1. row \in Row /\ row' = row /\ Carried
    BY <1>2, <1>4 DEF LoseInsert, Carried
  <2>2. row.result \in Page \cup {0}
    BY <2>1 DEF Row
  <2>3. PICK p \in {"claim", "served", "pending"}, page \in Page \cup {0} :
           Go(k, p, row, page) /\ (p = "served" => page = row.result /\ Cached(row, worker[k].start))
    BY <1>4, <2>2 DEF LoseInsert
  <2>4. p = "served" => OnlineAfter(page, worker[k].start - CacheTime - Lifetime)
    BY <1>2, <2>3, CachedIsFresh
  <2> QED
    BY <1>1, <2>1, <2>3, <2>4, FreshGoes
<1>5. CASE TakeOver(k)
  <2> DEFINE seen == worker[k].seen
             new  == Claimed(seen, worker[k].run, worker[k].start)
  <2>1. seen # NoRow /\ row' = Flush(row, seen, new) /\ Go(k, "fetch", new, 0)
    BY <1>5 DEF TakeOver
  <2>2. seen \in Row /\ row \in Row /\ row # NoRow
    BY <1>1, <1>2, <2>1, LeaseKnown
  <2>3. /\ new \in Row /\ new.result = seen.result /\ new.expires = seen.expires
        /\ new.status = "RUNNING"
    BY <1>2, <2>2, ClaimedTyped, ClaimKeeps
  <2>4. row.result = seen.result \/ OnlineAfter(row.result, worker[k].start - Lifetime - 1)
    BY <1>1, <2>1 DEF FreshInv, ReplacedByLive
  <2> HIDE DEF new
  <2>5. /\ row' \in Row
        /\ row'.status = Merge(row.status, seen.status, new.status)
        /\ row'.result = Merge(row.result, seen.result, new.result)
        /\ row'.expires = Merge(row.expires, seen.expires, new.expires)
    BY <2>1, <2>2, <2>3, FlushTyped, FlushColumns
  <2>6. Carried /\ row'.result = row.result
    BY <2>2, <2>3, <2>5, NoneIsNone DEF Carried, Merge
  <2> QED
    BY <1>1, <2>1, <2>3, <2>4, <2>6, FreshGoes
<1> QED
  BY <1>3, <1>4, <1>5

LEMMA FreshFetch ==
    ASSUME IInv, FreshInv, NEW k \in Worker, Fetch(k)
    PROVE  FreshInv'
<1>1. /\ worker[k].pc = "fetch" /\ Go(k, "store", worker[k].seen, Site)
      /\ UNCHANGED <<now, changes, row>>
  BY DEF Fetch, At
<1>2. /\ worker[k].seen \in Row /\ worker[k].seen # NoRow /\ worker[k].start \in Nat
      /\ worker[k].start <= now /\ now \in Nat /\ changes \subseteq Nat
  BY <1>1, LeaseKnown, AtWork, NoneIsNone
<1>3. Site \in changes /\ \A u \in changes : u <= Site
  BY DEF Site, IInv, HasLatest
<1>4. Site \in Page \cup {0}
  BY <1>3 DEF IInv, TypeOK, Page
<1>5. OnlineAfter(Site, worker[k].start - 1)
  BY <1>2, <1>3 DEF OnlineAfter
<1>6. Carried
  BY <1>1 DEF Carried
<1>7. \/ row'.result = worker[k].seen.result
      \/ OnlineAfter(row'.result, worker[k].start - Lifetime - 1)
  BY <1>1, <1>2 DEF FreshInv, ReplacedByLive
<1> QED
  BY <1>1, <1>2, <1>4, <1>5, <1>6, <1>7, FreshGoes

LEMMA FreshEnds ==
    ASSUME IInv, FreshInv, NEW k \in Worker, Fail(k) \/ Leave(k) \/ Crash(k)
    PROVE  FreshInv'
<1>1. worker' = [worker EXCEPT ![k] = Idle] /\ UNCHANGED <<now, changes>>
  BY DEF Fail, Leave, Crash
<1>2. Carried
  <2>1. CASE Leave(k) \/ Crash(k)
    BY <2>1 DEF Leave, Crash, Carried
  <2>2. CASE Fail(k)
    <3> DEFINE seen == worker[k].seen
               s1  == [seen EXCEPT !.status = "RETRYABLE_FAILED"]
               new == [s1 EXCEPT !.lease = 0]
    <3>1. row' = Flush(row, seen, new) /\ worker[k].pc \in {"fetch", "store"}
      BY <2>2 DEF Fail, At
    <3>2. seen \in Row /\ row \in Row /\ row # NoRow
      BY <3>1, LeaseKnown
    <3>3. /\ s1 \in Row /\ s1.result = seen.result /\ s1.expires = seen.expires
          /\ s1.status = "RETRYABLE_FAILED"
      BY <3>2 DEF Row
    <3> HIDE DEF s1
    <3>4. /\ new \in Row /\ new.result = seen.result /\ new.expires = seen.expires
          /\ new.status = "RETRYABLE_FAILED"
      BY <3>3 DEF Row, Time
    <3> HIDE DEF new
    <3>5. /\ row' \in Row
          /\ row'.status = Merge(row.status, seen.status, new.status)
          /\ row'.result = Merge(row.result, seen.result, new.result)
          /\ row'.expires = Merge(row.expires, seen.expires, new.expires)
      BY <3>1, <3>2, <3>4, FlushTyped, FlushColumns
    <3> QED
      BY <3>2, <3>4, <3>5, NoneIsNone DEF Carried, Merge
  <2> QED
    BY <2>1, <2>2
<1> QED
  BY <1>1, <1>2, NoneIsNone, FreshMoves

\* The results and their expiry may come from two workers, both alive at the later one.
LEMMA FreshStore ==
    ASSUME IInv, FreshInv, NEW k \in Worker, Store(k)
    PROVE  FreshInv'
<1> DEFINE seen == worker[k].seen
           page == worker[k].page
           s    == worker[k].start
           new  == [status |-> "SUCCEEDED", owner |-> NoRun, lease |-> 0,
                    result |-> worker[k].page, expires |-> Expiry(k)]
<1>1. /\ worker[k].pc = "store" /\ row' = Flush(row, seen, new) /\ worker' = [worker EXCEPT ![k] = Idle]
      /\ UNCHANGED <<now, changes>>
  BY DEF Store, At
<1>2. /\ seen \in Row /\ row \in Row /\ row # NoRow /\ seen # NoRow /\ s \in Nat /\ s <= now
      /\ now <= s + Lifetime /\ now \in Nat /\ changes \subseteq Nat
  BY <1>1, LeaseKnown, AtWork, NoneIsNone
<1>3. /\ row.expires \in Nat /\ row.expires <= now + CacheTime /\ 0 \notin changes
  BY <1>2 DEF Row, Time, IInv, TypeOK
<1>4. /\ row'.status = Merge(row.status, seen.status, "SUCCEEDED")
      /\ row'.result = Merge(row.result, seen.result, page)
      /\ row'.expires = Merge(row.expires, seen.expires, s + CacheTime)
  BY <1>1, <1>2, FlushColumns DEF Expiry
<1>5. OnlineAfter(page, s - 1) /\ page # 0
  BY <1>1, <1>3 DEF FreshInv, PagesFresh, OnlineAfter
<1>6. row.result = seen.result \/ OnlineAfter(row.result, s - Lifetime - 1)
  BY <1>1, <1>2 DEF FreshInv, ReplacedByLive
<1>7. row.result # 0 => OnlineAfter(row.result, row.expires - CacheTime - Lifetime - 1)
  BY <1>2 DEF FreshInv, RowFresh
<1>8. \A p : OnlineAfter(p, s - 1) => OnlineAfter(p, s - Lifetime - 1)
  BY <1>2 DEF OnlineAfter
<1>9. /\ row'.result # 0 /\ row'.expires \in {row.expires, s + CacheTime}
      /\ row'.result = page \/ (row'.result = row.result /\ page = seen.result)
  <2>1. 0 \notin changes
    BY <1>3
  <2> QED
    BY <1>4, <1>5, <1>6, <2>1 DEF Merge, OnlineAfter
<1>10. OnlineAfter(row'.result, row'.expires - CacheTime - Lifetime - 1)
  <2>1. OnlineAfter(row'.result, s - Lifetime - 1)
    BY <1>5, <1>6, <1>8, <1>9
  <2>2. CASE row'.expires = s + CacheTime
    <3>1. row'.expires - CacheTime - Lifetime - 1 = s - Lifetime - 1
      BY <1>2, <2>2
    <3> QED
      BY <2>1, <3>1
  <2>3. CASE row'.expires = row.expires /\ row'.result = page
    <3>1. row.expires - CacheTime - Lifetime - 1 <= s - 1
      BY <1>2, <1>3
    <3> QED
      BY <1>2, <1>3, <1>5, <2>3, <3>1 DEF OnlineAfter
  <2>4. CASE row'.expires = row.expires /\ row'.result = row.result
    BY <1>7, <1>9, <2>4
  <2> QED
    BY <1>9, <2>2, <2>3, <2>4
<1>11. worker'[k] = Idle /\ \A j \in Worker \ {k} : worker'[j] = worker[j]
  BY <1>1 DEF IInv, TypeOK
<1>12. RowFresh'
  <2>1. OnlineAfter(row.result, row.expires - CacheTime - Lifetime - 1)'
    BY <1>1, <1>10 DEF OnlineAfter
  <2> QED
    BY <1>9, <2>1 DEF RowFresh
<1>13. InTime' /\ PagesFresh'
  BY <1>1, <1>11, NoneIsNone DEF FreshInv, InTime, PagesFresh, OnlineAfter
<1>14. ReplacedByLive'
  <2> SUFFICES ASSUME NEW j \in Worker \ {k}, worker[j].pc \in {"claim", "fetch", "store"},
                      worker[j].seen # NoRow
               PROVE  \/ row'.result = worker[j].seen.result
                      \/ OnlineAfter(row'.result, worker[j].start - Lifetime - 1)
    BY <1>1, <1>11, NoneIsNone DEF ReplacedByLive, OnlineAfter
  <2>1. worker[j].start \in Nat /\ worker[j].start <= now
    BY AtWork
  <2>2. CASE row'.result = row.result
    BY <2>2 DEF FreshInv, ReplacedByLive
  <2>3. CASE row'.result = page
    <3>1. worker[j].start - Lifetime - 1 <= s - 1 /\ worker[j].start - Lifetime - 1 \in Int
      BY <1>2, <2>1
    <3>2. \A c \in changes : c > s - 1 => c > worker[j].start - Lifetime - 1
      BY <1>2, <2>1, <3>1
    <3>3. OnlineAfter(page, worker[j].start - Lifetime - 1)
      BY <1>5, <3>2 DEF OnlineAfter
    <3> QED
      BY <2>3, <3>3
  <2> QED
    BY <1>9, <2>2, <2>3
<1> QED
  BY <1>12, <1>13, <1>14 DEF FreshInv

LEMMA FreshTime ==
    ASSUME IInv, FreshInv, Tick \/ Change
    PROVE  FreshInv'
<1>1. UNCHANGED <<row, worker>> /\ changes' \in {changes, changes \cup {now}}
  BY DEF Tick, Change
<1>2. now \in Nat /\ changes \subseteq Nat /\ \A k \in Worker : worker[k] \in {Idle} \cup Busy
  BY DEF IInv, TypeOK
<1>3. /\ row # NoRow => row.expires \in Nat /\ row.expires <= now + CacheTime
      /\ \A k \in Worker : worker[k] # Idle => worker[k].start \in Nat /\ worker[k].start <= now
  BY DEF IInv, TypeOK, Row, Time, Busy, Page, Begun
<1>4. \A p : \A t \in Int : OnlineAfter(p, t) /\ t < now => OnlineAfter(p, t)'
  BY <1>1, <1>2 DEF OnlineAfter
<1>5. InTime'
  <2>1. CASE Tick
    BY <1>2, <1>3, <2>1 DEF Tick, InTime
  <2>2. CASE Change
    BY <2>2 DEF Change, FreshInv, InTime
  <2> QED
    BY <2>1, <2>2
<1>6. PagesFresh'
  <2> SUFFICES ASSUME NEW k \in Worker, worker[k].pc # "idle"
               PROVE  /\ worker[k].pc = "store" => OnlineAfter(worker[k].page, worker[k].start - 1)'
                      /\ worker[k].pc = "served" =>
                           OnlineAfter(worker[k].page, worker[k].start - CacheTime - Lifetime)'
    BY <1>1 DEF PagesFresh, OnlineAfter
  <2>1. worker[k].start \in Nat /\ worker[k].start <= now
    BY AtWork
  <2>2. /\ worker[k].start - 1 \in Int /\ worker[k].start - 1 < now
        /\ worker[k].start - CacheTime - Lifetime \in Int
        /\ worker[k].start - CacheTime - Lifetime < now
    BY <1>2, <2>1
  <2>3. worker[k].pc = "store" => OnlineAfter(worker[k].page, worker[k].start - 1)
    BY DEF FreshInv, PagesFresh
  <2>4. worker[k].pc = "served" => OnlineAfter(worker[k].page, worker[k].start - CacheTime - Lifetime)
    BY DEF FreshInv, PagesFresh
  <2> QED
    BY <1>1, <1>2, <2>1, <2>2, <2>3, <2>4 DEF OnlineAfter
<1>7. RowFresh'
  <2> SUFFICES ASSUME row # NoRow, row.result # 0
               PROVE  OnlineAfter(row.result, row.expires - CacheTime - Lifetime - 1)'
    BY <1>1 DEF FreshInv, RowFresh, OnlineAfter
  <2>1. OnlineAfter(row.result, row.expires - CacheTime - Lifetime - 1)
    BY DEF FreshInv, RowFresh
  <2> QED
    BY <1>1, <1>2, <1>3, <2>1 DEF OnlineAfter
<1>8. ReplacedByLive'
  <2> SUFFICES ASSUME NEW k \in Worker, worker[k].pc \in {"claim", "fetch", "store"},
                      worker[k].seen # NoRow, OnlineAfter(row.result, worker[k].start - Lifetime - 1)
               PROVE  OnlineAfter(row.result, worker[k].start - Lifetime - 1)'
    BY <1>1 DEF FreshInv, ReplacedByLive, OnlineAfter
  <2>1. worker[k].start \in Nat /\ worker[k].start <= now
    BY AtWork
  <2> QED
    BY <1>1, <1>2, <2>1 DEF OnlineAfter
<1> QED
  BY <1>5, <1>6, <1>7, <1>8 DEF FreshInv

LEMMA FreshStep == IInv /\ FreshInv /\ [Next]_vars => FreshInv'
<1> SUFFICES ASSUME IInv, FreshInv, [Next]_vars
             PROVE  FreshInv'
  OBVIOUS
<1>1. CASE UNCHANGED vars
  BY <1>1 DEF vars, FreshInv, InTime, PagesFresh, RowFresh, ReplacedByLive, OnlineAfter
<1>2. CASE Next
  BY <1>2, FreshTime, FreshLook, FreshClaim, FreshFetch, FreshStore, FreshEnds DEF Next
<1> QED
  BY <1>1, <1>2

-----------------------------------------------------------------------------
(* The theorems *)

\* The row keeps its type, and no lease and no result reaches further into the future
\* than SourceFetchCoalescer grants once, whatever late owners write.
THEOREM TypeCorrect == Spec => []TypeOK
<1>1. IInv => TypeOK
  BY DEF IInv
<1> QED
  BY <1>1, InitIInv, StepIInv, PTL DEF Spec

\* discover makes a run wait for other runs only.
THEOREM NeverBlockedByItself == Spec => []NotBlockedByItself
<1>1. IInv => NotBlockedByItself
  <2> SUFFICES ASSUME IInv, NEW k \in Worker, At(k, "pending"), worker[k].run \notin overlapped
               PROVE  worker[k].seen.owner # worker[k].run
    BY DEF NotBlockedByItself
  <2>1. worker[k] # Idle /\ worker[k].pc = "pending"
    BY NoneIsNone DEF At
  <2> QED
    BY <2>1 DEF IInv, Pending
<1> QED
  BY <1>1, InitIInv, StepIInv, PTL DEF Spec

\* Results that discover serves from the row were online at most one cache time and one
\* invocation ago, although the results column and its expiry may come from two workers.
THEOREM ServedIsFresh == Spec => []FreshResults
<1>1. FreshInv => FreshResults
  BY DEF FreshInv, PagesFresh, FreshResults, At
<1> QED
  BY <1>1, InitIInv, StepIInv, FreshInit, FreshStep, PTL DEF Spec

-----------------------------------------------------------------------------
(* AiRoutes *)

PoolRows == [R!Route -> R!Row]

\* The time at which a route was out of cooldown if it is now: the clock, but while the rows
\* are read the time at which that began.
Since(c, time) == IF c.pc = "looking" THEN c.now ELSE time

\* A route that stayed out of cooldown is out of it in the table and in the session, is still
\* to be read or to be tried, and at the end there is none; a fallback model has routes to try
\* or comes after a failure.
Served(c, rows, rest, table, time) ==
    /\ c.pc = "idle" => \A r \in R!Route : rows[r].until = 0
    /\ c.pc = "looking" => c.now <= time
    /\ \A r \in rest : table[r] <= Since(c, time) /\ rows[r].until <= Since(c, time)
    /\ c.pc = "looking" => rest \cap enabled \subseteq c.look \cup c.todo
    /\ c.pc = "trying" =>
          /\ c.model > 0 \/ c.todo # {} => rest \cap enabled \subseteq c.todo
          /\ c.model > 1 => enabled = {} \/ c.failure \/ c.todo # {}
    /\ c.pc = "asking" => c.at \in R!Route /\ rest \cap enabled \subseteq c.todo \cup {c.at}
    /\ c.pc = "failed" => rest \cap enabled = {} /\ (c.failure \/ enabled = {})

RoutesInv ==
    /\ R!TypeOK
    /\ \A k \in Worker : Served(call[k], own[k], free[k], until, clock)

LEMMA PoolTyped ==
    ASSUME RoutesInv
    PROVE  /\ enabled \in SUBSET R!Route /\ until \in [R!Route -> R!Time]
           /\ clock \in 1..MaxClock /\ clock \in R!Time /\ clock + Cooldown \in R!Time
           /\ \A k \in Worker :
                 /\ own[k] \in PoolRows /\ call[k] \in R!Call /\ free[k] \in SUBSET R!Route
                 /\ Served(call[k], own[k], free[k], until, clock)
BY PoolConstants DEF PoolConstants, RoutesInv, R!TypeOK, R!Time, PoolRows

\* Kinds of rows.
LEMMA RowTyped ==
    /\ R!Clean \in R!Row /\ R!Clean.until = 0 /\ ~R!Writes(R!Clean)
    /\ R!Null \in R!Time /\ R!Null = 0 /\ R!Time \in SUBSET Nat
    /\ \A x \in R!Row :
          /\ x.until \in R!Time /\ x.set \in BOOLEAN
          /\ R!Flushed(x) \in R!Row /\ R!Flushed(x).until = x.until
          /\ \A t \in R!Time : R!Changed(x, t) \in R!Row /\ R!Changed(x, t).until = t
<1> USE PoolConstants DEF PoolConstants, R!Row, R!Null, R!Time
<1>1. R!Clean \in R!Row /\ R!Clean.until = 0 /\ ~R!Writes(R!Clean)
  BY DEF R!Clean, R!Writes
<1>2. ASSUME NEW x \in R!Row
      PROVE  /\ R!Flushed(x) \in R!Row /\ R!Flushed(x).until = x.until
             /\ \A t \in R!Time : R!Changed(x, t) \in R!Row /\ R!Changed(x, t).until = t
  BY DEF R!Flushed, R!Changed, R!Writes
<1> QED
  BY <1>1, <1>2

LEMMA CallTyped ==
    /\ R!Idle \in R!Call /\ R!Idle.pc = "idle" /\ R!Idle.model = 0 /\ R!Idle.todo = {}
    /\ \A c \in R!Call :
          /\ c.model \in Nat /\ c.now \in Nat /\ c.look \in SUBSET R!Route /\ c.todo \in SUBSET R!Route
          /\ c.failure \in BOOLEAN
BY PoolConstants DEF PoolConstants, R!Call, R!Idle

\* A step of one worker that leaves the table alone: the others keep what they have.
LEMMA OneWorker ==
    ASSUME RoutesInv, NEW k \in Worker, NEW c \in R!Call, NEW rows \in PoolRows,
           NEW rest \in SUBSET R!Route, Served(c, rows, rest, until, clock),
           call' = [call EXCEPT ![k] = c], own' = [own EXCEPT ![k] = rows],
           free' = [free EXCEPT ![k] = rest], UNCHANGED <<enabled, until, clock>>
    PROVE  RoutesInv'
<1>1. R!TypeOK'
  BY DEF RoutesInv, R!TypeOK, PoolRows
<1>2. \A j \in Worker : Served(call'[j], own'[j], free'[j], until, clock)
  BY DEF RoutesInv, R!TypeOK
<1> QED
  BY <1>1, <1>2 DEF RoutesInv, Served

LEMMA RoutesInit == R!Init => RoutesInv
<1> SUFFICES ASSUME R!Init PROVE RoutesInv
  OBVIOUS
<1>1. /\ enabled \in SUBSET R!Route /\ clock = 1 /\ until \in [R!Route -> {0} \cup 2..(1 + Cooldown)]
      /\ own = [k \in Worker |-> [r \in R!Route |-> R!Clean]]
      /\ call = [k \in Worker |-> R!Idle] /\ free = [k \in Worker |-> {}]
  BY DEF R!Init, R!Null
<1>2. R!TypeOK
  <2>1. until \in [R!Route -> R!Time] /\ clock \in 1..MaxClock
    BY <1>1, PoolConstants DEF PoolConstants, R!Time
  <2>2. own \in [Worker -> [R!Route -> R!Row]]
    BY <1>1, RowTyped
  <2> QED
    BY <1>1, <2>1, <2>2, CallTyped DEF R!TypeOK
<1>3. \A k \in Worker : Served(call[k], own[k], free[k], until, clock)
  BY <1>1, RowTyped, CallTyped DEF Served
<1> QED
  BY <1>2, <1>3 DEF RoutesInv

LEMMA TimePasses ==
    ASSUME RoutesInv, R!Tick
    PROVE  RoutesInv'
<1>1. clock' = clock + 1 /\ clock < MaxClock /\ UNCHANGED <<enabled, until, own, call, free>>
  BY DEF R!Tick
<1>2. R!TypeOK'
  BY <1>1, PoolConstants DEF PoolConstants, RoutesInv, R!TypeOK
<1>3. ASSUME NEW k \in Worker PROVE Served(call[k], own[k], free[k], until, clock')
  <2>1. /\ clock \in Nat /\ clock' \in Nat /\ call[k].now \in Nat
        /\ \A r \in R!Route : until[r] \in Nat /\ own[k][r].until \in Nat
    <3>1. \A r \in R!Route : until[r] \in R!Time /\ own[k][r] \in R!Row
      BY PoolTyped DEF PoolRows
    <3>2. call[k] \in R!Call /\ clock \in R!Time
      BY PoolTyped
    <3>3. \A t \in R!Time : t \in Nat
      BY RowTyped
    <3>4. clock \in Nat /\ clock + 1 \in Nat /\ call[k].now \in Nat
      BY <3>2, <3>3, CallTyped
    <3>5. \A r \in R!Route : until[r] \in Nat /\ own[k][r].until \in Nat
      BY <3>1, <3>3, RowTyped
    <3> QED
      BY <1>1, <3>4, <3>5
  <2> QED
    BY <1>1, <2>1, PoolTyped DEF Served, Since
<1> QED
  BY <1>1, <1>2, <1>3 DEF RoutesInv, Served

LEMMA TimesAreNumbers ==
    ASSUME RoutesInv, NEW k \in Worker
    PROVE  /\ clock \in Nat /\ Since(call[k], clock) \in Nat /\ Since(call[k], clock) <= clock
           /\ \A r \in R!Route : until[r] \in Nat /\ own[k][r] \in R!Row /\ own[k][r].until \in Nat
<1>1. \A t \in R!Time : t \in Nat
  BY RowTyped
<1>2. /\ clock \in Nat /\ call[k].now \in Nat
      /\ \A r \in R!Route : until[r] \in R!Time /\ own[k][r] \in R!Row
      /\ call[k].pc = "looking" => call[k].now <= clock
  BY <1>1, PoolTyped, CallTyped DEF PoolRows, Served
<1>3. \A r \in R!Route : own[k][r].until \in Nat
  BY <1>1, <1>2, RowTyped
<1>4. Since(call[k], clock) \in Nat /\ Since(call[k], clock) <= clock
  BY <1>2 DEF Since
<1> QED
  BY <1>1, <1>2, <1>3, <1>4

\* The rows of a transaction that ends reach the table; a cooldown among them takes its
\* route from every other call.
LEMMA TransactionEnds ==
    ASSUME RoutesInv, NEW k \in Worker, NEW rows \in PoolRows, R!Commit(k, rows)
    PROVE  RoutesInv'
<1> DEFINE table == [r \in R!Route |-> IF R!Writes(rows[r]) THEN rows[r].until ELSE until[r]]
           clean == [r \in R!Route |-> R!Clean]
           left  == [j \in Worker |-> IF j = k THEN {} ELSE {r \in free[j] : rows[r].until = R!Null}]
<1>1. /\ until' = table /\ own' = [own EXCEPT ![k] = clean] /\ call' = [call EXCEPT ![k] = R!Idle]
      /\ free' = left /\ UNCHANGED <<enabled, clock>>
  BY DEF R!Commit
<1>2. \A r \in R!Route : rows[r] \in R!Row /\ rows[r].until \in R!Time
  BY RowTyped DEF PoolRows
<1>3. table \in [R!Route -> R!Time] /\ clean \in PoolRows /\ \A r \in R!Route : clean[r].until = 0
  BY <1>2, PoolTyped, RowTyped DEF PoolRows
<1>4. left \in [Worker -> SUBSET R!Route] /\ left[k] = {}
  BY PoolTyped
<1>5. R!TypeOK'
  BY <1>1, <1>3, <1>4, CallTyped DEF RoutesInv, R!TypeOK, PoolRows
<1>6. ASSUME NEW j \in Worker PROVE Served(call'[j], own'[j], left[j], table, clock)
  <2>1. CASE j = k
    <3>1. call'[j] = R!Idle /\ own'[j] = clean
      BY <1>1, <2>1 DEF RoutesInv, R!TypeOK
    <3> QED
      BY <1>3, <1>4, <2>1, <3>1, CallTyped DEF Served
  <2>2. CASE j # k
    <3>1. /\ call'[j] = call[j] /\ own'[j] = own[j]
          /\ left[j] = {r \in free[j] : rows[r].until = 0}
      BY <1>1, <2>2, RowTyped DEF RoutesInv, R!TypeOK
    <3>2. \A r \in left[j] : table[r] = 0 \/ table[r] = until[r]
      BY <1>4, <3>1
    <3> HIDE DEF table, left
    <3>3. /\ Served(call[j], own[j], free[j], until, clock) /\ left[j] \subseteq free[j]
          /\ Since(call[j], clock) \in Nat
      BY <3>1, PoolTyped, TimesAreNumbers
    <3>4. \A r \in left[j] : table[r] <= Since(call[j], clock)
      BY <3>2, <3>3 DEF Served
    <3> QED
      BY <3>1, <3>3, <3>4 DEF Served
  <2> QED
    BY <2>1, <2>2
<1> HIDE DEF table, left, clean
<1> QED
  BY <1>1, <1>5, <1>6 DEF RoutesInv, Served

LEMMA WorkerDies ==
    ASSUME RoutesInv, NEW k \in Worker, R!Dies(k)
    PROVE  RoutesInv'
<1> DEFINE clean == [r \in R!Route |-> R!Clean]
<1>1. clean \in PoolRows /\ \A r \in R!Route : clean[r].until = 0
  BY RowTyped DEF PoolRows
<1>2. Served(R!Idle, clean, {}, until, clock)
  BY <1>1, CallTyped DEF Served
<1> QED
  BY <1>1, <1>2, CallTyped, OneWorker DEF R!Dies

LEMMA CallBegins ==
    ASSUME RoutesInv, NEW k \in Worker, R!Begin(k)
    PROVE  RoutesInv'
<1> DEFINE c == [R!Idle EXCEPT !.pc = "trying"]
           rest == {r \in R!Route : R!Rested(until[r])}
<1>1. /\ call[k].pc = "idle" /\ call' = [call EXCEPT ![k] = c] /\ free' = [free EXCEPT ![k] = rest]
      /\ own' = [own EXCEPT ![k] = own[k]] /\ UNCHANGED <<enabled, until, clock>>
  BY DEF R!Begin, RoutesInv, R!TypeOK
<1>2. c \in R!Call /\ c.pc = "trying" /\ c.model = 0 /\ c.todo = {}
  BY CallTyped DEF R!Call
<1>3. \A r \in rest : until[r] <= clock /\ own[k][r].until = 0
  BY <1>1, PoolTyped DEF R!Rested, Served
<1> HIDE DEF c, rest
<1>4. rest \in SUBSET R!Route
  BY DEF rest
<1>5. Served(c, own[k], rest, until, clock)
  BY <1>2, <1>3, TimesAreNumbers DEF Served, Since
<1> QED
  BY <1>1, <1>2, <1>4, <1>5, PoolTyped, OneWorker

LEMMA ModelBegins ==
    ASSUME RoutesInv, NEW k \in Worker, R!NextModel(k)
    PROVE  RoutesInv'
<1> DEFINE a == [call[k] EXCEPT !.pc = "looking"]
           b == [a EXCEPT !.model = @ + 1]
           d == [b EXCEPT !.now = clock]
           c == [d EXCEPT !.look = R!Route]
<1>1. /\ call[k].pc = "trying" /\ call[k].model < Models
      /\ call' = [call EXCEPT ![k] = c] /\ UNCHANGED <<enabled, until, clock, own, free>>
  BY DEF R!NextModel
<1>0. own' = [own EXCEPT ![k] = own[k]] /\ free' = [free EXCEPT ![k] = free[k]]
  BY <1>1 DEF RoutesInv, R!TypeOK
<1>2. call[k] \in R!Call /\ clock \in 1..MaxClock
  BY PoolTyped
<1>a. a \in R!Call /\ a.pc = "looking" /\ a.model = call[k].model
  BY <1>2 DEF R!Call
<1> HIDE DEF a
<1>b. b \in R!Call /\ b.pc = "looking"
  BY <1>1, <1>a, PoolConstants DEF PoolConstants, R!Call
<1> HIDE DEF b
<1>d. d \in R!Call /\ d.pc = "looking" /\ d.now = clock
  BY <1>2, <1>b, PoolConstants DEF PoolConstants, R!Call
<1> HIDE DEF d
<1>3. c \in R!Call /\ c.pc = "looking" /\ c.now = clock /\ c.look = R!Route
  BY <1>d DEF R!Call
<1> HIDE DEF c
<1>4. Served(c, own[k], free[k], until, clock)
  BY <1>1, <1>3, PoolTyped, TimesAreNumbers DEF Served, Since
<1> QED
  BY <1>0, <1>1, <1>3, <1>4, PoolTyped, OneWorker

LEMMA ModelsExhausted ==
    ASSUME RoutesInv, NEW k \in Worker, R!GiveUp(k)
    PROVE  RoutesInv'
<1> DEFINE c == [call[k] EXCEPT !.pc = "failed"]
<1>1. /\ call[k].pc = "trying" /\ call[k].todo = {} /\ call[k].model = Models
      /\ call' = [call EXCEPT ![k] = c] /\ free' = [free EXCEPT ![k] = free[k]]
      /\ own' = [own EXCEPT ![k] = own[k]] /\ UNCHANGED <<enabled, until, clock>>
  BY DEF R!GiveUp, RoutesInv, R!TypeOK
<1>2. c \in R!Call /\ c.pc = "failed" /\ c.failure = call[k].failure
  BY PoolTyped DEF R!Call
<1> HIDE DEF c
<1>3. Models \in Nat /\ Models > 1
  BY PoolConstants DEF PoolConstants
<1>4. Served(call[k], own[k], free[k], until, clock)
  BY PoolTyped
<1>5. free[k] \cap enabled = {} /\ (call[k].failure \/ enabled = {})
  <2>1. call[k].model > 0 /\ call[k].model > 1
    BY <1>1, <1>3
  <2>2. free[k] \cap enabled = {}
    BY <1>1, <1>4, <2>1 DEF Served
  <2>3. enabled = {} \/ call[k].failure \/ call[k].todo # {}
    BY <1>1, <1>4, <2>1, Zenon DEF Served
  <2> QED
    BY <1>1, <2>2, <2>3, Zenon
<1>6. c.failure \/ enabled = {}
  BY <1>2, <1>5, Zenon
<1>7. Served(c, own[k], free[k], until, clock)
  BY <1>1, <1>2, <1>4, <1>5, <1>6 DEF Served, Since
<1> QED
  BY <1>1, <1>2, <1>7, PoolTyped, OneWorker

\* What a session reads of a row is its own change or what is in the table, and out of
\* cooldown if the route stayed so.
LEMMA RowRead ==
    ASSUME RoutesInv, NEW k \in Worker, NEW r \in R!Route, NEW select \in BOOLEAN
    PROVE  LET x == R!Read(k, r, select)
           IN  /\ x \in R!Row /\ x.until \in R!Time /\ x.until \in Nat
               /\ r \in free[k] => x.until <= Since(call[k], clock)
<1> DEFINE y == [own[k][r] EXCEPT !.until = until[r], !.set = until[r] # R!Null]
<1>1. own[k][r] \in R!Row /\ until[r] \in R!Time /\ (until[r] # R!Null) \in BOOLEAN
  BY PoolTyped DEF PoolRows
<1>2. y \in R!Row /\ y.until = until[r]
  BY <1>1 DEF R!Row
<1>3. R!Read(k, r, select) \in {own[k][r], y}
  BY DEF R!Read
<1> HIDE DEF y
<1>4. r \in free[k] => /\ own[k][r].until <= Since(call[k], clock)
                       /\ until[r] <= Since(call[k], clock)
  BY PoolTyped DEF Served
<1>5. /\ own[k][r].until \in R!Time /\ own[k][r].until \in Nat /\ until[r] \in Nat
  BY <1>1, RowTyped, TimesAreNumbers
<1>6. CASE R!Read(k, r, select) = own[k][r]
  BY <1>1, <1>4, <1>5, <1>6
<1>7. CASE R!Read(k, r, select) = y
  BY <1>1, <1>2, <1>4, <1>5, <1>7
<1> QED
  BY <1>3, <1>6, <1>7

\* The rows a session has after it read one and perhaps changed it.
LEMMA RowKept ==
    ASSUME RoutesInv, NEW k \in Worker, NEW r \in R!Route, NEW select \in BOOLEAN, NEW x \in R!Row
    PROVE  \E rows \in PoolRows :
              /\ \A q \in R!Route : \/ rows[q].until = own[k][q].until
                                    \/ q = r /\ rows[q].until \in {x.until, 0}
              /\ R!Keep(k, r, select, x) => own' = [own EXCEPT ![k] = rows]
<1> DEFINE base == IF select THEN R!Flush(own[k]) ELSE own[k]
           y    == IF x.dirty \/ x.locked THEN x ELSE R!Clean
           rows == [base EXCEPT ![r] = y]
<1>1. y \in R!Row /\ y.until \in {x.until, 0}
  BY RowTyped
<1>2. own[k] \in PoolRows /\ \A q \in R!Route : own[k][q] \in R!Row
  BY PoolTyped DEF PoolRows
<1>3. base \in PoolRows /\ \A q \in R!Route : base[q].until = own[k][q].until
  <2>1. R!Flush(own[k]) \in PoolRows /\ \A q \in R!Route : R!Flush(own[k])[q].until = own[k][q].until
    BY <1>2, RowTyped DEF R!Flush, PoolRows
  <2> QED
    BY <1>2, <2>1
<1>4. R!Keep(k, r, select, x) => own' = [own EXCEPT ![k] = rows]
  BY DEF R!Keep
<1> HIDE DEF base, y
<1>5. rows \in PoolRows /\ rows[r] = y /\ \A q \in R!Route : q # r => rows[q] = base[q]
  BY <1>1, <1>3 DEF PoolRows
<1> HIDE DEF rows
<1> QED
  BY <1>1, <1>3, <1>4, <1>5

\* A route that stayed out of cooldown is usable when its row is read, and put among those
\* to try.
LEMMA RowLooked ==
    ASSUME RoutesInv, NEW k \in Worker, NEW r \in R!Route, NEW select \in BOOLEAN,
           NEW ended \in BOOLEAN, R!Look(k, r, select, ended)
    PROVE  RoutesInv'
<1> DEFINE x     == R!Read(k, r, select)
           y     == IF ended THEN R!Changed(x, R!Null) ELSE x
           found == call[k].todo \cup (IF R!Usable(k, r, x) THEN {r} ELSE {})
           rest  == call[k].look \ {r}
           a1    == [call[k] EXCEPT !.look = rest]
           c1    == [a1 EXCEPT !.todo = found]
           a2    == [call[k] EXCEPT !.pc = "trying"]
           b2    == [a2 EXCEPT !.now = 0]
           d2    == [b2 EXCEPT !.look = {}]
           c2    == [d2 EXCEPT !.todo = R!RoutesToTry(k, found)]
<1>1. /\ call[k].pc = "looking" /\ r \in call[k].look /\ R!Keep(k, r, select, y)
      /\ call' = [call EXCEPT ![k] = IF rest # {} THEN c1 ELSE c2]
      /\ UNCHANGED <<enabled, until, clock, free>>
  BY DEF R!Look, R!IsNext
<1>2. /\ x \in R!Row /\ x.until \in R!Time /\ x.until \in Nat
      /\ r \in free[k] => x.until <= Since(call[k], clock)
  BY RowRead
<1> HIDE DEF x
<1>3. y \in R!Row /\ y.until \in {x.until, 0}
  BY <1>2, RowTyped
<1>4. PICK rows \in PoolRows :
          /\ \A q \in R!Route : \/ rows[q].until = own[k][q].until
                                \/ q = r /\ rows[q].until \in {y.until, 0}
          /\ own' = [own EXCEPT ![k] = rows]
  BY <1>1, <1>3, RowKept
<1>5. /\ call[k] \in R!Call /\ free[k] \in SUBSET R!Route /\ enabled \in SUBSET R!Route
      /\ Served(call[k], own[k], free[k], until, clock)
      /\ Since(call[k], clock) = call[k].now /\ call[k].now \in Nat
      /\ clock \in Nat /\ call[k].now <= clock
      /\ call[k].look \in SUBSET R!Route /\ call[k].todo \in SUBSET R!Route /\ call[k].failure \in BOOLEAN
  BY <1>1, PoolTyped, CallTyped, TimesAreNumbers DEF Since
<1>6. free' = [free EXCEPT ![k] = free[k]]
  BY <1>1 DEF RoutesInv, R!TypeOK
<1>7. \A q \in free[k] : /\ until[q] \in Nat /\ until[q] <= call[k].now
                         /\ rows[q].until \in Nat /\ rows[q].until <= call[k].now
  <2> SUFFICES ASSUME NEW q \in free[k]
               PROVE  /\ until[q] \in Nat /\ until[q] <= call[k].now
                      /\ rows[q].until \in Nat /\ rows[q].until <= call[k].now
    OBVIOUS
  <2>1. /\ until[q] \in Nat /\ own[k][q].until \in Nat
        /\ until[q] <= call[k].now /\ own[k][q].until <= call[k].now
    BY <1>5, TimesAreNumbers DEF Served
  <2>2. \/ rows[q].until = own[k][q].until
        \/ q = r /\ rows[q].until \in {x.until, 0}
    BY <1>3, <1>4, <1>5
  <2> QED
    BY <1>2, <1>5, <2>1, <2>2
<1>8. /\ found \in SUBSET R!Route
      /\ free[k] \cap enabled \subseteq rest \cup found
  <2>1. r \in free[k] \cap enabled => R!Usable(k, r, x)
    BY <1>2, <1>5 DEF R!Usable
  <2> QED
    BY <1>1, <1>5, <2>1 DEF Served
<1> HIDE DEF found
<1>9. CASE rest # {}
  <2>1. rest \in SUBSET R!Route
    BY <1>5
  <2> HIDE DEF rest
  <2>2. /\ a1 \in R!Call /\ a1.pc = "looking" /\ a1.look = rest /\ a1.now = call[k].now
    BY <1>1, <1>5, <2>1 DEF R!Call
  <2> HIDE DEF a1
  <2>3. /\ c1 \in R!Call /\ c1.pc = "looking" /\ c1.look = rest /\ c1.todo = found
        /\ c1.now = call[k].now
    BY <1>8, <2>2 DEF R!Call
  <2>4. call' = [call EXCEPT ![k] = c1]
    BY <1>1, <1>9
  <2> HIDE DEF c1
  <2>5. Served(c1, rows, free[k], until, clock)
    BY <1>5, <1>7, <1>8, <2>3 DEF Served, Since
  <2> QED
    BY <1>1, <1>4, <1>5, <1>6, <2>3, <2>4, <2>5, OneWorker
<1>10. CASE rest = {}
  <2> DEFINE todo == R!RoutesToTry(k, found)
  <2>1. /\ todo \in SUBSET R!Route /\ free[k] \cap enabled \subseteq todo
        /\ call[k].model > 1 => enabled = {} \/ todo # {}
    BY <1>5, <1>8, <1>10 DEF R!RoutesToTry
  <2> HIDE DEF todo
  <2>2. a2 \in R!Call /\ a2.pc = "trying" /\ a2.model = call[k].model
    BY <1>5 DEF R!Call
  <2> HIDE DEF a2
  <2>3. b2 \in R!Call /\ b2.pc = "trying" /\ b2.model = call[k].model
    BY <2>2, PoolConstants DEF PoolConstants, R!Call
  <2> HIDE DEF b2
  <2>4. d2 \in R!Call /\ d2.pc = "trying" /\ d2.model = call[k].model
    BY <2>3 DEF R!Call
  <2> HIDE DEF d2
  <2>5. c2 \in R!Call /\ c2.pc = "trying" /\ c2.model = call[k].model /\ c2.todo = todo
    BY <2>1, <2>4 DEF R!Call, todo
  <2>6. call' = [call EXCEPT ![k] = c2]
    BY <1>1, <1>10
  <2> HIDE DEF c2
  <2>7. \A q \in free[k] : until[q] <= clock /\ rows[q].until <= clock
    BY <1>5, <1>7
  <2>8. c2.model > 1 => enabled = {} \/ c2.failure \/ c2.todo # {}
    BY <2>1, <2>5, Zenon
  <2>9. Served(c2, rows, free[k], until, clock)
    BY <2>1, <2>5, <2>7, <2>8 DEF Served, Since
  <2> QED
    BY <1>1, <1>4, <1>5, <1>6, <2>5, <2>6, <2>9, OneWorker
<1> QED
  BY <1>9, <1>10

LEMMA RouteAsked ==
    ASSUME RoutesInv, NEW k \in Worker, NEW r \in R!Route, NEW select \in BOOLEAN,
           R!Ask(k, r, select)
    PROVE  RoutesInv'
<1> DEFINE x == R!Read(k, r, select)
           y == R!Changed(x, x.until)
           a == [call[k] EXCEPT !.pc = "asking"]
           b == [a EXCEPT !.todo = @ \ {r}]
           c == [b EXCEPT !.at = r]
<1>1. /\ call[k].pc = "trying" /\ r \in call[k].todo /\ R!Keep(k, r, select, y)
      /\ call' = [call EXCEPT ![k] = c] /\ UNCHANGED <<enabled, until, clock, free>>
  BY DEF R!Ask, R!IsNext
<1>2. /\ x \in R!Row /\ x.until \in R!Time /\ x.until \in Nat
      /\ r \in free[k] => x.until <= Since(call[k], clock)
  BY RowRead
<1> HIDE DEF x
<1>3. y \in R!Row /\ y.until = x.until
  BY <1>2, RowTyped
<1> HIDE DEF y
<1>4. PICK rows \in PoolRows :
          /\ \A q \in R!Route : \/ rows[q].until = own[k][q].until
                                \/ q = r /\ rows[q].until \in {y.until, 0}
          /\ own' = [own EXCEPT ![k] = rows]
  BY <1>1, <1>3, RowKept
<1>5. /\ call[k] \in R!Call /\ free[k] \in SUBSET R!Route
      /\ Served(call[k], own[k], free[k], until, clock)
      /\ Since(call[k], clock) = clock /\ clock \in Nat /\ call[k].model \in Nat
  BY <1>1, PoolTyped, CallTyped, TimesAreNumbers DEF Since
<1>6. free' = [free EXCEPT ![k] = free[k]]
  BY <1>1 DEF RoutesInv, R!TypeOK
<1>7. \A q \in free[k] : until[q] <= clock /\ rows[q].until <= clock
  <2> SUFFICES ASSUME NEW q \in free[k] PROVE until[q] <= clock /\ rows[q].until <= clock
    OBVIOUS
  <2>1. until[q] <= clock /\ own[k][q].until <= clock
    BY <1>5 DEF Served
  <2>2. rows[q].until = own[k][q].until \/ (q = r /\ rows[q].until \in {x.until, 0})
    BY <1>3, <1>4, <1>5
  <2> QED
    BY <1>2, <1>5, <2>1, <2>2
<1>8. a \in R!Call /\ a.pc = "asking" /\ a.todo = call[k].todo
  BY <1>5 DEF R!Call
<1> HIDE DEF a
<1>9. b \in R!Call /\ b.pc = "asking" /\ b.todo = call[k].todo \ {r}
  BY <1>8 DEF R!Call
<1> HIDE DEF b
<1>10. c \in R!Call /\ c.pc = "asking" /\ c.todo = call[k].todo \ {r} /\ c.at = r
  BY <1>9, PoolConstants DEF PoolConstants, R!Call, R!Route
<1> HIDE DEF c
<1>11. free[k] \cap enabled \subseteq call[k].todo
  BY <1>1, <1>5 DEF Served
<1>12. Served(c, rows, free[k], until, clock)
  BY <1>5, <1>7, <1>10, <1>11 DEF Served, Since
<1> QED
  BY <1>1, <1>4, <1>5, <1>6, <1>10, <1>12, OneWorker

LEMMA RouteTold ==
    ASSUME RoutesInv, NEW k \in Worker, call[k].pc = "asking", NEW t \in R!Time
    PROVE  /\ R!Told(k, t) \in PoolRows
           /\ \A q \in R!Route : q # call[k].at => R!Told(k, t)[q] = own[k][q]
<1> DEFINE y == R!Changed(own[k][call[k].at], t)
<1>1. call[k].at \in R!Route /\ own[k] \in PoolRows /\ own[k][call[k].at] \in R!Row
  BY PoolTyped DEF PoolRows, Served
<1>2. y \in R!Row
  BY <1>1, RowTyped
<1>3. R!Told(k, t) = [own[k] EXCEPT ![call[k].at] = y]
  BY DEF R!Told
<1> HIDE DEF y
<1> QED
  BY <1>1, <1>2, <1>3 DEF PoolRows

\* A route that fails is in cooldown and no longer one that stayed out of it.
LEMMA RouteFailed ==
    ASSUME RoutesInv, NEW k \in Worker, R!RouteFails(k)
    PROVE  RoutesInv'
<1> DEFINE rows == R!Told(k, clock + Cooldown)
           rest == free[k] \ {call[k].at}
           a    == [call[k] EXCEPT !.pc = "trying"]
           b    == [a EXCEPT !.at = 0]
           c    == [b EXCEPT !.failure = TRUE]
<1>1. /\ call[k].pc = "asking" /\ call' = [call EXCEPT ![k] = c]
      /\ own' = [own EXCEPT ![k] = rows] /\ UNCHANGED <<enabled, until, clock>>
      /\ free' = [free EXCEPT ![k] = rest]
  BY DEF R!RouteFails
<1>2. rows \in PoolRows /\ \A q \in R!Route : q # call[k].at => rows[q] = own[k][q]
  BY <1>1, PoolTyped, RouteTold
<1> HIDE DEF rows
<1>3. /\ call[k] \in R!Call /\ free[k] \in SUBSET R!Route
      /\ Served(call[k], own[k], free[k], until, clock)
      /\ Since(call[k], clock) = clock
  BY <1>1, PoolTyped DEF Since
<1>4. a \in R!Call /\ a.pc = "trying" /\ a.todo = call[k].todo
  BY <1>3 DEF R!Call
<1> HIDE DEF a
<1>5. b \in R!Call /\ b.pc = "trying" /\ b.todo = call[k].todo
  BY <1>4, PoolConstants DEF PoolConstants, R!Call
<1> HIDE DEF b
<1>6. c \in R!Call /\ c.pc = "trying" /\ c.todo = call[k].todo /\ c.failure
  BY <1>5 DEF R!Call
<1> HIDE DEF c
<1>7. /\ \A q \in rest : until[q] <= clock /\ rows[q].until <= clock
      /\ rest \cap enabled \subseteq call[k].todo /\ rest \in SUBSET R!Route
  BY <1>1, <1>2, <1>3 DEF Served
<1> HIDE DEF rest
<1>8. Served(c, rows, rest, until, clock)
  BY <1>6, <1>7 DEF Served, Since
<1> QED
  BY <1>1, <1>2, <1>6, <1>7, <1>8, OneWorker

\* The second generate begins with the routes that are out of cooldown by now.
LEMMA AnswerRepaired ==
    ASSUME RoutesInv, NEW k \in Worker, R!Repair(k)
    PROVE  RoutesInv'
<1> DEFINE rows == R!Told(k, R!Null)
           rest == {r \in R!Route : R!Rested(until[r]) /\ R!Rested(rows[r].until)}
           a    == [R!Idle EXCEPT !.pc = "trying"]
           b    == [a EXCEPT !.again = TRUE]
           c    == [b EXCEPT !.cursor = (call[k].at + 1) % Routes]
<1>1. /\ call[k].pc = "asking" /\ call' = [call EXCEPT ![k] = c]
      /\ own' = [own EXCEPT ![k] = rows] /\ UNCHANGED <<enabled, until, clock>>
      /\ free' = [free EXCEPT ![k] = rest]
  BY DEF R!Repair
<1>2. rows \in PoolRows
  BY <1>1, RowTyped, RouteTold
<1> HIDE DEF rows
<1>3. (call[k].at + 1) % Routes \in 0..Routes
  <2>1. call[k].at \in 0..Routes
    BY PoolTyped DEF R!Call
  <2> QED
    BY <2>1, PoolConstants DEF PoolConstants
<1>4. a \in R!Call /\ a.pc = "trying" /\ a.model = 0 /\ a.todo = {}
  BY CallTyped DEF R!Call
<1> HIDE DEF a
<1>5. b \in R!Call /\ b.pc = "trying" /\ b.model = 0 /\ b.todo = {}
  BY <1>4 DEF R!Call
<1> HIDE DEF b
<1>6. c \in R!Call /\ c.pc = "trying" /\ c.model = 0 /\ c.todo = {}
  BY <1>3, <1>5 DEF R!Call
<1> HIDE DEF c
<1>7. rest \in SUBSET R!Route /\ \A r \in rest : until[r] <= clock /\ rows[r].until <= clock
  BY DEF R!Rested
<1> HIDE DEF rest
<1>8. Served(c, rows, rest, until, clock)
  BY <1>6, <1>7 DEF Served, Since
<1> QED
  BY <1>1, <1>2, <1>6, <1>7, <1>8, OneWorker

LEMMA RoutesStep ==
    ASSUME RoutesInv, [R!Next]_(R!vars)
    PROVE  RoutesInv'
<1>1. CASE UNCHANGED R!vars
  BY <1>1 DEF R!vars, RoutesInv, R!TypeOK, Served
<1>2. ASSUME NEW k \in Worker,
             \/ R!Begin(k) \/ R!NextModel(k) \/ R!GiveUp(k) \/ R!RouteFails(k) \/ R!RouteAnswers(k)
             \/ R!Repair(k) \/ R!CommitFailure(k) \/ R!Dies(k)
      PROVE  RoutesInv'
  <2>1. CASE R!RouteAnswers(k)
    BY <2>1, RowTyped, RouteTold, TransactionEnds DEF R!RouteAnswers
  <2>2. CASE R!CommitFailure(k)
    BY <2>2, PoolTyped, TransactionEnds DEF R!CommitFailure
  <2> QED
    BY <1>2, <2>1, <2>2, CallBegins, ModelBegins, ModelsExhausted, RouteFailed, AnswerRepaired, WorkerDies
<1>3. ASSUME NEW k \in Worker, NEW r \in R!Route, NEW select \in BOOLEAN,
             R!Ask(k, r, select) \/ \E ended \in BOOLEAN : R!Look(k, r, select, ended)
      PROVE  RoutesInv'
  BY <1>3, RouteAsked, RowLooked
<1> QED
  BY <1>1, <1>2, <1>3, TimePasses DEF R!Next

LEMMA RoutesServe == RoutesInv => R!NoFalseOutage
BY DEF RoutesInv, R!NoFalseOutage, Served

-----------------------------------------------------------------------------
(* The parts *)

LEMMA PartInits ==
    FetchAndRoutesInit => Init /\ part \in {"fetch", "routes"} /\ (part = "routes" => R!Init)
BY DEF FetchAndRoutesInit

\* A step is one of the part that runs and leaves the other as it is.
LEMMA PartSteps ==
    [FetchAndRoutesNext]_<<part, vars, pool>> =>
        UNCHANGED part /\ [Next]_vars /\ (part = "routes" => [R!Next]_(R!vars))
<1> SUFFICES ASSUME [FetchAndRoutesNext]_<<part, vars, pool>>
             PROVE  UNCHANGED part /\ [Next]_vars /\ (part = "routes" => [R!Next]_(R!vars))
  OBVIOUS
<1>1. UNCHANGED pool => UNCHANGED R!vars
  BY DEF pool, R!vars
<1>2. CASE UNCHANGED <<part, vars, pool>>
  BY <1>1, <1>2
<1>3. CASE part = "fetch" /\ Next /\ UNCHANGED <<part, pool>>
  BY <1>3
<1>4. CASE part = "routes" /\ R!Next /\ UNCHANGED <<part, vars>>
  BY <1>4
<1> QED
  BY <1>2, <1>3, <1>4 DEF FetchAndRoutesNext

-----------------------------------------------------------------------------
(* The theorems about the composition *)

\* What the composition does to the shared row is a behaviour of SharedFetch, so that the
\* theorems above hold where the run checks them.
THEOREM FetchRunsAlone == FetchAndRoutes => Spec
BY PartInits, PartSteps, PTL DEF FetchAndRoutes, Spec

RoutesPart == part = "routes" => RoutesInv

LEMMA RoutesAlways == FetchAndRoutes => []RoutesPart
<1>1. FetchAndRoutesInit => RoutesPart
  BY PartInits, RoutesInit DEF RoutesPart
<1>2. RoutesPart /\ [FetchAndRoutesNext]_<<part, vars, pool>> => RoutesPart'
  BY PartSteps, RoutesStep DEF RoutesPart
<1> QED
  BY <1>1, <1>2, PTL DEF FetchAndRoutes

\* Type correctness of both parts, with the bound on how far a lease reaches.
THEOREM FetchAndRoutesTyped == FetchAndRoutes => []TypesOK
<1>1. TypeOK /\ RoutesPart => TypesOK
  BY DEF RoutesPart, RoutesInv, TypesOK
<1> QED
  BY <1>1, FetchRunsAlone, TypeCorrect, RoutesAlways, PTL

\* generate fails only after it called every enabled route that stayed out of cooldown since
\* it began, and some route unless none is enabled, for any number of routes, models and
\* workers and any cooldown (GeminiPoolProvider.generate).
THEOREM OutageIsReal == FetchAndRoutes => []NoFalseOutage
<1>1. RoutesPart => NoFalseOutage
  BY RoutesServe DEF RoutesPart, NoFalseOutage
<1> QED
  BY <1>1, RoutesAlways, PTL
=============================================================================
