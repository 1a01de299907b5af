----------------------------- MODULE PushOutbox -----------------------------
(***************************************************************************)
(* The push job's outbox (app/push/outbox.py and the sending half of       *)
(* app/push/job.py).  A message is queued once per dedup key.  A run of    *)
(* the job claims due messages in one transaction, sends them outside any  *)
(* transaction and records what came of them in another, by id and without *)
(* looking at the rows again.  Runs overlap, die between the two           *)
(* transactions and outlast their lease.                                   *)
(*                                                                         *)
(* `now` is the database's clock, in minutes; a run's own clock stands     *)
(* still at its start and only decides what has expired.  The messages'    *)
(* texts and the time to live given to the push service are left out.      *)
(***************************************************************************)
EXTENDS Integers, FiniteSets, FiniteSetTheorems, TLAPS

CONSTANTS
    Message,      \* the messages, named by their dedup key
    Run,          \* the runs of the job; none comes back
    MaxAttempts,  \* MAX_ATTEMPTS
    Lease,        \* LEASE
    RetryAfter,   \* RETRY_AFTER
    Expires,      \* a message's expires_at
    Batch,        \* SEND_BATCH
    Batches,      \* SEND_BATCHES
    MaxTime       \* bound: the last value of `now`

VARIABLES
    now,
    outbox,       \* the table: status, attempts and lease_until of each row
    run,          \* what each run of the job holds
    deliveries    \* how often a browser was given each message

vars == <<now, outbox, run, deliveries>>

NoRow == [status |-> "none", attempts |-> 0, lease |-> 0]
NoRun == [step |-> "waiting", start |-> 0, batches |-> 0, rows |-> {},
          seen |-> [m \in Message |-> 0], got |-> [m \in Message |-> "unsent"],
          leased |-> 0]

Init ==
    /\ now = 0
    /\ outbox = [m \in Message |-> NoRow]
    /\ run = [r \in Run |-> NoRun]
    /\ deliveries = [m \in Message |-> 0]

\* enqueue with skip_queued: the unique key leaves a queued message alone, so
\* two requests or two runs that queue the same event queue one message.
Enqueue(m) ==
    /\ outbox[m].status = "none"
    /\ outbox' = [outbox EXCEPT ![m] = [NoRow EXCEPT !.status = "pending"]]
    /\ UNCHANGED <<now, run, deliveries>>

Start(r) ==
    /\ run[r].step = "waiting"
    /\ run' = [run EXCEPT ![r].step = "claiming", ![r].start = now]
    /\ UNCHANGED <<now, outbox, deliveries>>

\* `free`: no lease, or one the database's clock has passed.
Free(row) == row.lease = 0 \/ row.lease < now

\* Mistake: rows a dead run left leased are taken again however often.
Swept_NoLimit(r, left) ==
    [m \in Message |->
        IF outbox[m].status = "pending" /\ (Expires[m] <= run[r].start \/ m \in left)
        THEN [outbox[m] EXCEPT !.status = "dropped"]
        ELSE outbox[m]]

\* The rows as claim leaves them before it selects: expired messages and those
\* of a member who has left are dropped, those out of attempts have failed.
Swept(r, left) ==
    [m \in Message |->
        IF outbox[m].status # "pending" THEN outbox[m]
        ELSE IF Expires[m] <= run[r].start \/ m \in left
             THEN [outbox[m] EXCEPT !.status = "dropped"]
        ELSE IF Free(outbox[m]) /\ outbox[m].attempts >= MaxAttempts
             THEN [outbox[m] EXCEPT !.status = "failed", !.lease = 0]
        ELSE outbox[m]]

\* Mistake: the lease is taken as expired from the start.
Leased_Expired(row) == [row EXCEPT !.lease = 0, !.attempts = @ + 1]

Leased(row) == [row EXCEPT !.lease = now + Lease, !.attempts = @ + 1]

\* claim: SKIP LOCKED may pass over rows another claim holds, so any part of
\* the due rows up to SEND_BATCH is taken; none ends the run.
Claim(r) ==
    /\ run[r].step = "claiming"
    /\ \E left \in SUBSET Message :
         LET swept == Swept(r, left)
             due == {m \in Message : swept[m].status = "pending" /\ Free(swept[m])}
         IN \E rows \in SUBSET due :
              /\ Cardinality(rows) <= Batch
              /\ outbox' = [m \in Message |-> IF m \in rows THEN Leased(swept[m])
                                              ELSE swept[m]]
              /\ run' = [run EXCEPT ![r] =
                   [@ EXCEPT !.step = IF rows = {} THEN "over" ELSE "sending",
                             !.rows = rows,
                             !.seen = [m \in Message |-> swept[m].attempts],
                             !.got = [m \in Message |-> "unsent"],
                             !.leased = now]]
    /\ UNCHANGED <<now, deliveries>>

\* drain's send: the account's browsers took the message, answered with an
\* error, or there were none (or only ones the push service calls gone).
Send(r, m) ==
    /\ run[r].step = "sending"
    /\ m \in run[r].rows
    /\ run[r].got[m] = "unsent"
    /\ \E got \in {"delivered", "error", "none"} :
         /\ run' = [run EXCEPT ![r].got[m] = got]
         /\ deliveries' = [deliveries EXCEPT ![m] = IF got = "delivered" THEN @ + 1 ELSE @]
    /\ UNCHANGED <<now, outbox>>

\* What record_outcomes writes on a row, from the attempts the claim read.
Recorded(row, seen, got) ==
    CASE got = "delivered" -> [row EXCEPT !.status = "sent", !.lease = 0]
      [] got = "error" /\ seen + 1 >= MaxAttempts ->
            [row EXCEPT !.status = "failed", !.lease = 0]
      [] got = "error" /\ seen + 1 < MaxAttempts ->
            [row EXCEPT !.status = "pending", !.lease = now + RetryAfter]
      [] got = "none" -> [row EXCEPT !.status = "dropped", !.lease = 0]

\* record_outcomes, then the next batch (at most SEND_BATCHES).
Record(r) ==
    /\ run[r].step = "sending"
    /\ \A m \in run[r].rows : run[r].got[m] # "unsent"
    /\ outbox' = [m \in Message |->
         IF m \in run[r].rows THEN Recorded(outbox[m], run[r].seen[m], run[r].got[m])
         ELSE outbox[m]]
    /\ run' = [run EXCEPT ![r].step = IF run[r].batches + 1 < Batches THEN "claiming"
                                      ELSE "over",
                          ![r].batches = @ + 1, ![r].rows = {},
                          ![r].seen = NoRun.seen, ![r].got = NoRun.got]
    /\ UNCHANGED <<now, deliveries>>

\* The process ends: what it has sent stays sent, nothing is recorded.
Die(r) ==
    /\ run[r].step \in {"claiming", "sending"}
    /\ run' = [run EXCEPT ![r] = [NoRun EXCEPT !.step = "over"]]
    /\ UNCHANGED <<now, outbox, deliveries>>

Tick ==
    /\ now < MaxTime
    /\ now' = now + 1
    /\ UNCHANGED <<outbox, run, deliveries>>

Next ==
    \/ Tick
    \/ \E m \in Message : Enqueue(m)
    \/ \E r \in Run : Start(r) \/ Claim(r) \/ Record(r) \/ Die(r)
                      \/ \E m \in Message : Send(r, m)

Spec == Init /\ [][Next]_vars

-----------------------------------------------------------------------------
TypeOK ==
    /\ now \in 0 .. MaxTime
    /\ outbox \in [Message -> [status : {"none", "pending", "sent", "failed", "dropped"},
                               attempts : Nat, lease : Nat]]
    /\ run \in [Run -> [step : {"waiting", "claiming", "sending", "over"},
                        start : 0 .. MaxTime, batches : 0 .. Batches,
                        rows : SUBSET Message, seen : [Message -> Nat],
                        got : [Message -> {"unsent", "delivered", "error", "none"}],
                        leased : 0 .. MaxTime]]
    /\ deliveries \in [Message -> Nat]

\* However runs overlap, die after sending or overwrite each other's outcomes,
\* a browser is given a message at most MAX_ATTEMPTS times: the attempt is
\* counted by the claim, before anything is sent.
DeliveriesBounded == \A m \in Message : deliveries[m] <= MaxAttempts

\* Two runs hold a message at once only when one of them has outlasted its
\* lease: neither an overlapping claim nor a late outcome of an older run (whose
\* RETRY_AFTER is longer than a lease) frees a message that is being sent.
HeldByOne ==
    \A m \in Message : \A r, s \in Run :
        r # s /\ m \in run[r].rows /\ m \in run[s].rows =>
            \/ run[r].leased + Lease < now
            \/ run[s].leased + Lease < now
-----------------------------------------------------------------------------
(* Proofs, for any messages, any number of overlapping runs, any limits and  *)
(* any clock.                                                                *)

\* What a run waits after an error covers the lease of the run that holds the message meanwhile
\* (RETRY_AFTER and LEASE), and a limit of attempts is a number.
Times == Lease \in Nat \ {0} /\ RetryAfter \in Nat /\ Lease <= RetryAfter /\ MaxAttempts \in Nat

Row == [status : {"none", "pending", "sent", "failed", "dropped"}, attempts : Nat, lease : Nat]
Held == [step : {"waiting", "claiming", "sending", "over"}, start : Nat, batches : Nat,
         rows : SUBSET Message, seen : [Message -> Nat],
         got : [Message -> {"unsent", "delivered", "error", "none"}], leased : Nat]

\* Only a run that sends holds rows, which it claimed before now.
Types ==
    /\ now \in Nat /\ outbox \in [Message -> Row] /\ deliveries \in [Message -> Nat]
    /\ run \in [Run -> Held]
    /\ \A r \in Run : run[r].leased <= now /\ (run[r].step # "sending" => run[r].rows = {})

\* The runs that may still send a message.
Unsent(m) == {r \in Run : m \in run[r].rows /\ run[r].got[m] = "unsent"}

\* Each delivery, made or still possible, is an attempt that was counted.
Accounted ==
    \A m \in Message :
        /\ deliveries[m] + Cardinality(Unsent(m)) <= outbox[m].attempts
        /\ outbox[m].attempts <= MaxAttempts

\* A message nobody queued is in nobody's hands.
Unqueued ==
    \A m \in Message : outbox[m].status = "none" =>
        outbox[m].attempts = 0 /\ \A r \in Run : m \notin run[r].rows

\* Until a run's lease is over, nobody may claim what it holds: whoever wrote the row since
\* ended the message or leased it for longer.
Protected ==
    \A r \in Run : \A m \in run[r].rows :
        now <= run[r].leased + Lease =>
            outbox[m].status # "pending" \/ run[r].leased + Lease <= outbox[m].lease

OutboxInv == Types /\ Accounted /\ Unqueued /\ Protected /\ HeldByOne

LEMMA UnsentIsFinite ==
    ASSUME IsFiniteSet(Run), NEW m
    PROVE  IsFiniteSet(Unsent(m)) /\ Cardinality(Unsent(m)) \in Nat
<1>1. IsFiniteSet(Unsent(m))
  BY FS_Subset DEF Unsent
<1> QED BY <1>1, FS_CardinalityType

LEMMA NoRunHeld == NoRun \in Held /\ NoRun.rows = {} /\ NoRun.leased = 0 /\ NoRun.step = "waiting"
BY DEF NoRun, Held

LEMMA OutboxInitially ==
    ASSUME Times, Init
    PROVE  OutboxInv
<1>1. Types
  BY NoRunHeld DEF Init, Types, NoRow, Row
<1>2. ASSUME NEW m \in Message PROVE Unsent(m) = {}
  BY NoRunHeld DEF Init, Unsent
<1>3. Accounted
  BY <1>2, FS_EmptySet DEF Init, Accounted, NoRow, Times
<1>4. Unqueued /\ Protected /\ HeldByOne
  BY NoRunHeld DEF Init, Unqueued, Protected, HeldByOne, NoRow
<1> QED BY <1>1, <1>3, <1>4 DEF OutboxInv

\* Sweeping ends messages and changes nothing else; what it leaves pending and free has an
\* attempt left.
LEMMA SweptRows ==
    ASSUME Times, Types, NEW r \in Run, NEW left, NEW m \in Message
    PROVE  LET row == Swept(r, left)[m] IN
           /\ row \in Row /\ row.attempts = outbox[m].attempts
           /\ (row.status = "none") = (outbox[m].status = "none")
           /\ row.status = "pending" => row = outbox[m]
           /\ row.status = "pending" /\ Free(row) => row.attempts < MaxAttempts
<1> DEFINE row == Swept(r, left)[m]
<1>1. outbox[m] \in Row
  BY DEF Types
<1>2. \/ row = outbox[m]
      \/ row = [outbox[m] EXCEPT !.status = "dropped"] /\ outbox[m].status = "pending"
      \/ row = [outbox[m] EXCEPT !.status = "failed", !.lease = 0] /\ outbox[m].status = "pending"
  BY DEF Swept
<1>3. outbox[m].status = "pending" /\ Free(outbox[m]) /\ outbox[m].attempts >= MaxAttempts =>
         \/ row = [outbox[m] EXCEPT !.status = "dropped"]
         \/ row = [outbox[m] EXCEPT !.status = "failed", !.lease = 0]
  BY DEF Swept
<1> HIDE DEF row
<1>4. /\ row \in Row /\ row.attempts = outbox[m].attempts
      /\ (row.status = "none") = (outbox[m].status = "none")
      /\ row.status = "pending" => row = outbox[m]
  <2>1. CASE row = outbox[m]
    BY <1>1, <2>1
  <2>2. CASE row = [outbox[m] EXCEPT !.status = "dropped"] /\ outbox[m].status = "pending"
    BY <1>1, <2>2 DEF Row
  <2>3. CASE row = [outbox[m] EXCEPT !.status = "failed", !.lease = 0] /\ outbox[m].status = "pending"
    BY <1>1, <2>3 DEF Row
  <2> QED BY <1>2, <2>1, <2>2, <2>3
<1>5. row.status = "pending" /\ Free(row) => row.attempts < MaxAttempts
  <2>1. SUFFICES ASSUME row.status = "pending", Free(row) PROVE row.attempts < MaxAttempts
    OBVIOUS
  <2>2. row = outbox[m] /\ Free(outbox[m]) /\ outbox[m].status = "pending"
    BY <1>4, <2>1
  <2>3. ~(outbox[m].attempts >= MaxAttempts)
    BY <1>1, <1>3, <2>1, <2>2 DEF Row
  <2> QED BY <1>1, <2>2, <2>3 DEF Row, Times
<1> QED BY <1>4, <1>5 DEF row

LEMMA TickKeeps ==
    ASSUME Times, OutboxInv, Tick
    PROVE  OutboxInv'
<1>1. now \in Nat /\ now' = now + 1 /\ UNCHANGED <<outbox, run, deliveries>>
  BY DEF Tick, OutboxInv, Types
<1>2. Types'
  BY <1>1 DEF OutboxInv, Types, Held
<1>3. Accounted' /\ Unqueued'
  BY <1>1 DEF OutboxInv, Accounted, Unqueued, Unsent
<1>4. \A r \in Run : run[r].leased + Lease \in Nat
  BY DEF OutboxInv, Types, Held, Times
<1>5. Protected' /\ HeldByOne'
  BY <1>1, <1>4 DEF OutboxInv, Protected, HeldByOne
<1> QED BY <1>2, <1>3, <1>5 DEF OutboxInv

LEMMA EnqueueKeeps ==
    ASSUME Times, OutboxInv, NEW m \in Message, Enqueue(m)
    PROVE  OutboxInv'
<1>1. /\ outbox[m].status = "none" /\ UNCHANGED <<now, run, deliveries>>
      /\ outbox' = [outbox EXCEPT ![m] = [NoRow EXCEPT !.status = "pending"]]
  BY DEF Enqueue
<1>2. /\ outbox'[m] = [NoRow EXCEPT !.status = "pending"]
      /\ \A n \in Message \ {m} : outbox'[n] = outbox[n]
  BY <1>1 DEF OutboxInv, Types
<1>3. Types'
  BY <1>1 DEF OutboxInv, Types, NoRow, Row
<1>4. \A r \in Run : m \notin run[r].rows
  BY <1>1 DEF OutboxInv, Unqueued
<1>5. \A n \in Message : outbox'[n].attempts = outbox[n].attempts
  BY <1>1, <1>2 DEF OutboxInv, Unqueued, NoRow
<1>6. Accounted'
  BY <1>1, <1>5 DEF OutboxInv, Accounted, Unsent
<1>7. Unqueued'
  BY <1>1, <1>2, <1>5 DEF OutboxInv, Unqueued, NoRow
<1>8. Protected'
  BY <1>1, <1>2, <1>4 DEF OutboxInv, Protected, Types, Held
<1>9. HeldByOne'
  BY <1>1 DEF OutboxInv, HeldByOne
<1> QED BY <1>3, <1>6, <1>7, <1>8, <1>9 DEF OutboxInv

\* A run that holds nothing but what it held before changes nobody's claims: starting, sending
\* and dying.
LEMMA HoldingLess ==
    ASSUME Times, OutboxInv, NEW r \in Run, NEW h \in Held, run' = [run EXCEPT ![r] = h],
           UNCHANGED <<now, outbox>>,
           h.rows = {} \/ (h.rows = run[r].rows /\ h.step = run[r].step /\ h.leased = run[r].leased),
           h.leased <= now
    PROVE  /\ now' \in Nat /\ outbox' \in [Message -> Row] /\ run' \in [Run -> Held]
           /\ \A p \in Run :
                 run'[p].leased <= now' /\ (run'[p].step # "sending" => run'[p].rows = {})
           /\ Unqueued' /\ Protected' /\ HeldByOne'
<1>1. /\ run'[r] = h /\ \A p \in Run \ {r} : run'[p] = run[p]
      /\ run' \in [Run -> Held]
  BY DEF OutboxInv, Types
<1>2. \A p \in Run : run'[p].rows = {}
         \/ (run'[p].rows = run[p].rows /\ run'[p].leased = run[p].leased)
  BY <1>1
<1>3. \A p \in Run :
         run'[p].leased <= now' /\ (run'[p].step # "sending" => run'[p].rows = {})
  BY <1>1 DEF OutboxInv, Types
<1>4. Unqueued'
  BY <1>2 DEF OutboxInv, Unqueued
<1>5. Protected'
  BY <1>2 DEF OutboxInv, Protected
<1>6. HeldByOne'
  BY <1>2 DEF OutboxInv, HeldByOne
<1> QED BY <1>1, <1>3, <1>4, <1>5, <1>6 DEF OutboxInv, Types

LEMMA StartKeeps ==
    ASSUME Times, OutboxInv, IsFiniteSet(Run), NEW r \in Run, Start(r) \/ Die(r)
    PROVE  OutboxInv'
<1>1. run[r] \in Held
  BY DEF OutboxInv, Types
<1>2. PICK h \in Held : /\ run' = [run EXCEPT ![r] = h] /\ h.rows = {} /\ h.leased <= now
                        /\ UNCHANGED <<now, outbox, deliveries>>
  <2>1. CASE Start(r)
    <3> DEFINE h == [run[r] EXCEPT !.step = "claiming", !.start = now]
    <3>1. h \in Held /\ h.rows = run[r].rows /\ h.leased = run[r].leased
      BY <1>1 DEF Held, OutboxInv, Types
    <3>2. run[r].step = "waiting" /\ run' = [run EXCEPT ![r] = h]
      BY <2>1, <1>1 DEF Start, Held, OutboxInv, Types
    <3>3. run[r].rows = {} /\ run[r].leased <= now
      BY <3>2 DEF OutboxInv, Types
    <3> QED BY <2>1, <3>1, <3>2, <3>3 DEF Start
  <2>2. CASE Die(r)
    <3> DEFINE h == [NoRun EXCEPT !.step = "over"]
    <3>1. h \in Held /\ h.rows = {} /\ h.leased = 0
      BY NoRunHeld DEF Held
    <3>2. run' = [run EXCEPT ![r] = h] /\ UNCHANGED <<now, outbox, deliveries>>
      BY <2>2 DEF Die
    <3>3. now \in Nat
      BY DEF OutboxInv, Types
    <3> HIDE DEF h
    <3>4. h.leased <= now
      BY <3>1, <3>3
    <3> QED BY <3>1, <3>2, <3>4, Zenon
  <2> QED BY <2>1, <2>2
<1>3. /\ Unqueued' /\ Protected' /\ HeldByOne' /\ Types'
  BY <1>2, HoldingLess DEF OutboxInv, Types
<1>4. ASSUME NEW m \in Message PROVE Cardinality(Unsent(m)') <= Cardinality(Unsent(m))
  <2>1. Unsent(m)' \subseteq Unsent(m)
    BY <1>2 DEF Unsent, OutboxInv, Types
  <2> QED BY <2>1, UnsentIsFinite, FS_Subset
<1>5. Accounted'
  <2> SUFFICES ASSUME NEW m \in Message
               PROVE /\ deliveries[m] + Cardinality(Unsent(m)') <= outbox[m].attempts
                     /\ outbox[m].attempts <= MaxAttempts
    BY <1>2 DEF Accounted
  <2>1. Cardinality(Unsent(m)) \in Nat /\ Cardinality(Unsent(m)') \in Nat
    <3>1. Unsent(m)' \subseteq Unsent(m)
      BY <1>2 DEF Unsent, OutboxInv, Types
    <3> QED BY <3>1, UnsentIsFinite, FS_Subset, FS_CardinalityType
  <2>2. deliveries[m] \in Nat /\ outbox[m].attempts \in Nat
    BY DEF OutboxInv, Types, Row
  <2> QED BY <1>4, <2>1, <2>2 DEF OutboxInv, Accounted
<1> QED BY <1>3, <1>5 DEF OutboxInv

LEMMA SendKeeps ==
    ASSUME Times, OutboxInv, IsFiniteSet(Run), NEW r \in Run, NEW m \in Message, Send(r, m)
    PROVE  OutboxInv'
<1>1. PICK got \in {"delivered", "error", "none"} :
         /\ run' = [run EXCEPT ![r].got[m] = got]
         /\ deliveries' = [deliveries EXCEPT ![m] = IF got = "delivered" THEN @ + 1 ELSE @]
  BY DEF Send
<1>2. /\ run[r].step = "sending" /\ m \in run[r].rows /\ run[r].got[m] = "unsent"
      /\ UNCHANGED <<now, outbox>>
  BY DEF Send
<1>3. run[r] \in Held /\ deliveries[m] \in Nat /\ outbox[m].attempts \in Nat
  BY DEF OutboxInv, Types, Row
<1> DEFINE h == [run[r] EXCEPT !.got[m] = got]
<1>4. /\ h \in Held /\ h.rows = run[r].rows /\ h.step = run[r].step /\ h.leased = run[r].leased
      /\ h.got[m] = got /\ \A n \in Message \ {m} : h.got[n] = run[r].got[n]
  BY <1>3 DEF Held
<1>5. run' = [run EXCEPT ![r] = h]
  BY <1>1
<1> HIDE DEF h
<1>6. run[r].leased <= now
  BY DEF OutboxInv, Types
<1>7. /\ now' \in Nat /\ outbox' \in [Message -> Row] /\ run' \in [Run -> Held]
      /\ \A p \in Run :
            run'[p].leased <= now' /\ (run'[p].step # "sending" => run'[p].rows = {})
      /\ Unqueued' /\ Protected' /\ HeldByOne'
  BY <1>2, <1>4, <1>5, <1>6, HoldingLess
<1>8. deliveries' \in [Message -> Nat]
  BY <1>1, <1>3 DEF OutboxInv, Types
<1>9. run'[r] = h /\ \A p \in Run \ {r} : run'[p] = run[p]
  BY <1>5 DEF OutboxInv, Types
<1>10. \A n \in Message \ {m} : deliveries'[n] = deliveries[n] /\ Unsent(n)' = Unsent(n)
  BY <1>1, <1>4, <1>9 DEF OutboxInv, Types, Unsent
<1>11. Unsent(m)' = Unsent(m) \ {r} /\ r \in Unsent(m)
  BY <1>2, <1>4, <1>9 DEF Unsent
<1>12. Cardinality(Unsent(m)') = Cardinality(Unsent(m)) - 1
  BY <1>11, UnsentIsFinite, FS_RemoveElement
<1>13. deliveries'[m] <= deliveries[m] + 1
  BY <1>1, <1>3 DEF OutboxInv, Types
<1>14. deliveries'[m] + Cardinality(Unsent(m)') <= deliveries[m] + Cardinality(Unsent(m))
  BY <1>3, <1>8, <1>12, <1>13, UnsentIsFinite
<1>15. Cardinality(Unsent(m)) \in Nat /\ Cardinality(Unsent(m)') \in Int
  BY <1>12, UnsentIsFinite
<1>16. deliveries'[m] + Cardinality(Unsent(m)') <= outbox[m].attempts
  <2>1. deliveries[m] + Cardinality(Unsent(m)) <= outbox[m].attempts
    BY DEF OutboxInv, Accounted
  <2> QED BY <1>3, <1>8, <1>14, <1>15, <2>1
<1>17. Accounted'
  BY <1>2, <1>10, <1>16 DEF OutboxInv, Accounted
<1> QED BY <1>7, <1>8, <1>17 DEF OutboxInv, Types

\* A claim counts an attempt for each message it takes, and takes none that another run holds
\* under its lease.
LEMMA ClaimKeeps ==
    ASSUME Times, OutboxInv, IsFiniteSet(Run), NEW r \in Run, Claim(r)
    PROVE  OutboxInv'
<1>1. PICK left \in SUBSET Message, rows \in SUBSET Message :
         LET swept == Swept(r, left) IN
         /\ \A m \in rows : swept[m].status = "pending" /\ Free(swept[m])
         /\ outbox' = [m \in Message |-> IF m \in rows THEN Leased(swept[m]) ELSE swept[m]]
         /\ run' = [run EXCEPT ![r] =
              [@ EXCEPT !.step = IF rows = {} THEN "over" ELSE "sending",
                        !.rows = rows, !.seen = [m \in Message |-> swept[m].attempts],
                        !.got = [m \in Message |-> "unsent"], !.leased = now]]
  BY DEF Claim
<1> DEFINE swept == Swept(r, left)
           h == [run[r] EXCEPT !.step = IF rows = {} THEN "over" ELSE "sending",
                               !.rows = rows, !.seen = [m \in Message |-> swept[m].attempts],
                               !.got = [m \in Message |-> "unsent"], !.leased = now]
<1>2. run[r].step = "claiming" /\ UNCHANGED <<now, deliveries>>
  BY DEF Claim
<1>3. \A m \in Message :
        /\ swept[m] \in Row /\ swept[m].attempts = outbox[m].attempts
        /\ (swept[m].status = "none") = (outbox[m].status = "none")
        /\ swept[m].status = "pending" => swept[m] = outbox[m]
        /\ swept[m].status = "pending" /\ Free(swept[m]) => swept[m].attempts < MaxAttempts
  BY SweptRows DEF OutboxInv
<1>4. /\ \A m \in rows : swept[m].status = "pending" /\ Free(swept[m])
      /\ \A m \in rows : outbox'[m] = Leased(swept[m])
      /\ \A m \in Message \ rows : outbox'[m] = swept[m]
      /\ outbox' = [m \in Message |-> IF m \in rows THEN Leased(swept[m]) ELSE swept[m]]
      /\ run' = [run EXCEPT ![r] = h]
  BY <1>1
<1>5. /\ now \in Nat /\ run[r] \in Held /\ run[r].rows = {} /\ DOMAIN run = Run
      /\ \A m \in Message : swept[m].attempts \in Nat /\ swept[m].lease \in Nat
  BY <1>2, <1>3 DEF OutboxInv, Types, Row
<1> HIDE DEF swept
<1>6. /\ h \in Held /\ h.rows = rows /\ h.leased = now /\ (h.step # "sending" => rows = {})
      /\ \A m \in Message : h.got[m] = "unsent"
  BY <1>5 DEF Held
<1> HIDE DEF h
<1>7. run'[r] = h /\ \A p \in Run \ {r} : run'[p] = run[p]
  BY <1>4, <1>5
<1>8. \A m \in rows : /\ outbox'[m] \in Row /\ outbox'[m].status = "pending"
                      /\ outbox'[m].lease = now + Lease
                      /\ outbox'[m].attempts = outbox[m].attempts + 1
                      /\ outbox'[m].attempts <= MaxAttempts
  <2> SUFFICES ASSUME NEW m \in rows
               PROVE  /\ Leased(swept[m]) \in Row /\ Leased(swept[m]).status = "pending"
                      /\ Leased(swept[m]).lease = now + Lease
                      /\ Leased(swept[m]).attempts = outbox[m].attempts + 1
                      /\ Leased(swept[m]).attempts <= MaxAttempts
    BY <1>4
  <2>1. /\ swept[m] \in Row /\ swept[m].status = "pending" /\ now + Lease \in Nat
        /\ swept[m].attempts = outbox[m].attempts /\ swept[m].attempts < MaxAttempts
    BY <1>3, <1>4, <1>5 DEF Times
  <2>2. swept[m].attempts + 1 \in Nat /\ swept[m].attempts + 1 <= MaxAttempts
    BY <1>5, <2>1 DEF Times
  <2> QED BY <2>1, <2>2 DEF Leased, Row
<1>9. Types'
  <2>1. outbox' \in [Message -> Row]
    BY <1>3, <1>4, <1>8
  <2> QED BY <1>2, <1>4, <1>5, <1>6, <1>7, <2>1 DEF OutboxInv, Types
\* The run was in nobody's set before, as it held nothing.
<1>10. ASSUME NEW m \in Message
       PROVE  /\ deliveries'[m] + Cardinality(Unsent(m)') <= outbox'[m].attempts
              /\ outbox'[m].attempts <= MaxAttempts
  <2>1. /\ deliveries[m] \in Nat /\ outbox[m].attempts \in Nat /\ MaxAttempts \in Nat
        /\ deliveries[m] + Cardinality(Unsent(m)) <= outbox[m].attempts
        /\ outbox[m].attempts <= MaxAttempts
    BY DEF OutboxInv, Types, Row, Accounted, Times
  <2>2. r \notin Unsent(m) /\ Cardinality(Unsent(m)) \in Nat /\ IsFiniteSet(Unsent(m))
    BY <1>5, UnsentIsFinite DEF Unsent
  <2>3. CASE m \in rows
    <3>1. Unsent(m)' = Unsent(m) \union {r}
      BY <1>6, <1>7, <2>3 DEF Unsent
    <3>2. Cardinality(Unsent(m)') = Cardinality(Unsent(m)) + 1
      BY <2>2, <3>1, FS_AddElement
    <3> QED BY <1>2, <1>8, <2>1, <2>2, <2>3, <3>2
  <2>4. CASE m \notin rows
    <3>1. Unsent(m)' = Unsent(m)
      BY <1>6, <1>7, <2>2, <2>4 DEF Unsent
    <3>2. outbox'[m].attempts = outbox[m].attempts
      BY <1>3, <1>4, <2>4
    <3> QED BY <1>2, <2>1, <3>1, <3>2
  <2> QED BY <2>3, <2>4
<1>11. Accounted'
  BY <1>10 DEF Accounted
<1>12. Unqueued'
  <2> SUFFICES ASSUME NEW m \in Message, outbox'[m].status = "none"
               PROVE  outbox'[m].attempts = 0 /\ \A p \in Run : m \notin run'[p].rows
    BY DEF Unqueued
  <2>1. m \notin rows
    BY <1>8
  <2>2. outbox[m].status = "none" /\ outbox'[m].attempts = outbox[m].attempts
    BY <1>3, <1>4, <2>1
  <2> QED BY <1>6, <1>7, <2>1, <2>2 DEF OutboxInv, Unqueued
\* What another run holds under its lease is not free.
<1>13. ASSUME NEW p \in Run, p # r, NEW m \in run[p].rows, now <= run[p].leased + Lease
       PROVE  m \notin rows
  <2>1. outbox[m].status # "pending" \/ run[p].leased + Lease <= outbox[m].lease
    BY <1>13 DEF OutboxInv, Protected
  <2>2. run[p].leased \in Nat /\ m \in Message /\ outbox[m].lease \in Nat
    BY DEF OutboxInv, Types, Held, Row
  <2> QED BY <1>3, <1>4, <1>5, <1>13, <2>1, <2>2 DEF Free, Times
<1>14. Protected'
  <2> SUFFICES ASSUME NEW p \in Run, NEW m \in run'[p].rows, now <= run'[p].leased + Lease
               PROVE  outbox'[m].status # "pending" \/ run'[p].leased + Lease <= outbox'[m].lease
    BY <1>2 DEF Protected
  <2>1. CASE p = r
    BY <1>5, <1>6, <1>7, <1>8, <2>1 DEF Times
  <2>2. CASE p # r
    <3>1. run'[p] = run[p] /\ m \in Message
      BY <1>7, <2>2 DEF OutboxInv, Types, Held
    <3>2. outbox'[m] = swept[m]
      BY <1>4, <1>13, <2>2, <3>1
    <3> QED BY <1>3, <3>1, <3>2 DEF OutboxInv, Protected
  <2> QED BY <2>1, <2>2
<1>15. HeldByOne'
  <2> SUFFICES ASSUME NEW m \in Message, NEW p \in Run, NEW q \in Run, p # q,
                      m \in run'[p].rows, m \in run'[q].rows
               PROVE  run'[p].leased + Lease < now \/ run'[q].leased + Lease < now
    BY <1>2 DEF HeldByOne
  <2>1. CASE p = r
    <3>1. run'[q] = run[q] /\ m \in rows
      BY <1>6, <1>7, <2>1
    <3>2. ~(now <= run[q].leased + Lease)
      BY <1>13, <2>1, <3>1
    <3> QED BY <1>5, <3>1, <3>2 DEF OutboxInv, Types, Held, Times
  <2>2. CASE q = r
    <3>1. run'[p] = run[p] /\ m \in rows
      BY <1>6, <1>7, <2>2
    <3>2. ~(now <= run[p].leased + Lease)
      BY <1>13, <2>2, <3>1
    <3> QED BY <1>5, <3>1, <3>2 DEF OutboxInv, Types, Held, Times
  <2>3. CASE p # r /\ q # r
    BY <1>7, <2>3 DEF OutboxInv, HeldByOne
  <2> QED BY <2>1, <2>2, <2>3
<1> QED BY <1>9, <1>11, <1>12, <1>14, <1>15 DEF OutboxInv

\* What an outcome makes of a row: the message ends, or waits longer than a lease.
LEMMA RecordedRows ==
    ASSUME Times, now \in Nat, NEW row \in Row, NEW seen \in Nat,
           NEW got \in {"delivered", "error", "none"}
    PROVE  /\ Recorded(row, seen, got) \in Row
           /\ Recorded(row, seen, got).attempts = row.attempts
           /\ Recorded(row, seen, got).status # "none"
           /\ Recorded(row, seen, got).status = "pending" =>
                 Recorded(row, seen, got).lease = now + RetryAfter
<1> DEFINE new == Recorded(row, seen, got)
<1>1. now + RetryAfter \in Nat
  BY DEF Times
<1>2. \/ new = [row EXCEPT !.status = "sent", !.lease = 0]
      \/ new = [row EXCEPT !.status = "failed", !.lease = 0]
      \/ new = [row EXCEPT !.status = "pending", !.lease = now + RetryAfter]
      \/ new = [row EXCEPT !.status = "dropped", !.lease = 0]
  BY DEF Recorded, Times
<1> HIDE DEF new
<1>3. /\ new \in Row /\ new.attempts = row.attempts
      /\ new.status \in {"sent", "failed", "pending", "dropped"}
  <2>1. CASE new = [row EXCEPT !.status = "sent", !.lease = 0]
    BY <2>1 DEF Row
  <2>2. CASE new = [row EXCEPT !.status = "failed", !.lease = 0]
    BY <2>2 DEF Row
  <2>3. CASE new = [row EXCEPT !.status = "pending", !.lease = now + RetryAfter]
    BY <1>1, <2>3 DEF Row
  <2>4. CASE new = [row EXCEPT !.status = "dropped", !.lease = 0]
    BY <2>4 DEF Row
  <2> QED BY <1>2, <2>1, <2>2, <2>3, <2>4
<1>4. new.status = "pending" => new.lease = now + RetryAfter
  BY <1>2 DEF Row
<1> QED BY <1>3, <1>4 DEF new

LEMMA RecordKeeps ==
    ASSUME Times, OutboxInv, IsFiniteSet(Run), NEW r \in Run, Record(r)
    PROVE  OutboxInv'
<1> DEFINE h == [run[r] EXCEPT !.step = IF run[r].batches + 1 < Batches THEN "claiming" ELSE "over",
                               !.batches = @ + 1, !.rows = {},
                               !.seen = NoRun.seen, !.got = NoRun.got]
<1>1. /\ \A m \in run[r].rows : run[r].got[m] # "unsent"
      /\ outbox' = [m \in Message |->
            IF m \in run[r].rows THEN Recorded(outbox[m], run[r].seen[m], run[r].got[m])
            ELSE outbox[m]]
      /\ run' = [run EXCEPT ![r] = h] /\ UNCHANGED <<now, deliveries>>
  BY DEF Record
<1>2. /\ now \in Nat /\ run[r] \in Held /\ run[r].leased <= now /\ DOMAIN run = Run
      /\ run[r].rows \subseteq Message
  BY DEF OutboxInv, Types, Held
<1>3. h \in Held /\ h.rows = {} /\ h.leased = run[r].leased
  <2>1. NoRun.seen \in [Message -> Nat]
        /\ NoRun.got \in [Message -> {"unsent", "delivered", "error", "none"}]
    BY NoRunHeld DEF Held
  <2>2. run[r].batches + 1 \in Nat
    BY <1>2 DEF Held
  <2> DEFINE step == IF run[r].batches + 1 < Batches THEN "claiming" ELSE "over"
  <2>3. step \in {"waiting", "claiming", "sending", "over"}
    OBVIOUS
  <2>4. h = [run[r] EXCEPT !.step = step, !.batches = run[r].batches + 1, !.rows = {},
                           !.seen = NoRun.seen, !.got = NoRun.got]
    OBVIOUS
  <2> HIDE DEF step, h
  <2> QED BY <1>2, <2>1, <2>2, <2>3, <2>4 DEF Held
<1> HIDE DEF h
<1>4. run'[r] = h /\ \A p \in Run \ {r} : run'[p] = run[p]
  BY <1>1, <1>2
<1>5. ASSUME NEW m \in run[r].rows
      PROVE  /\ outbox'[m] \in Row /\ outbox'[m].attempts = outbox[m].attempts
             /\ outbox'[m].status # "none"
             /\ outbox'[m].status = "pending" => outbox'[m].lease = now + RetryAfter
  <2>1. /\ outbox[m] \in Row /\ run[r].seen[m] \in Nat
        /\ run[r].got[m] \in {"delivered", "error", "none"}
    BY <1>1, <1>2 DEF OutboxInv, Types, Held
  <2>2. outbox'[m] = Recorded(outbox[m], run[r].seen[m], run[r].got[m])
    BY <1>1, <1>2
  <2> DEFINE got == run[r].got[m]
             seen == run[r].seen[m]
  <2>3. seen \in Nat /\ got \in {"delivered", "error", "none"} /\ outbox'[m] = Recorded(outbox[m], seen, got)
    BY <2>1, <2>2
  <2> HIDE DEF got, seen
  <2>4. /\ Recorded(outbox[m], seen, got) \in Row
        /\ Recorded(outbox[m], seen, got).attempts = outbox[m].attempts
        /\ Recorded(outbox[m], seen, got).status # "none"
        /\ Recorded(outbox[m], seen, got).status = "pending" =>
              Recorded(outbox[m], seen, got).lease = now + RetryAfter
    BY <1>2, <2>1, <2>3, RecordedRows, Zenon
  <2> QED BY <2>3, <2>4
<1>6. \A m \in Message \ run[r].rows : outbox'[m] = outbox[m]
  BY <1>1
<1>7. Types'
  <2>1. outbox' \in [Message -> Row]
    BY <1>1, <1>5, <1>6 DEF OutboxInv, Types
  <2> QED BY <1>1, <1>2, <1>3, <1>4, <2>1 DEF OutboxInv, Types
<1>8. Accounted'
  <2>1. \A m \in Message : Unsent(m)' = Unsent(m) /\ outbox'[m].attempts = outbox[m].attempts
    BY <1>1, <1>3, <1>4, <1>5, <1>6 DEF Unsent
  <2> QED BY <1>1, <2>1 DEF OutboxInv, Accounted
<1>9. Unqueued'
  BY <1>3, <1>4, <1>5, <1>6 DEF OutboxInv, Unqueued
<1>10. Protected'
  <2> SUFFICES ASSUME NEW p \in Run, NEW m \in run'[p].rows, now <= run'[p].leased + Lease
               PROVE  outbox'[m].status # "pending" \/ run'[p].leased + Lease <= outbox'[m].lease
    BY <1>1 DEF Protected
  <2>1. run'[p] = run[p] /\ m \in Message /\ run[p].leased \in Nat /\ run[p].leased <= now
    BY <1>3, <1>4 DEF OutboxInv, Types, Held
  <2>2. CASE m \in run[r].rows
    BY <1>2, <1>5, <2>1, <2>2 DEF Times
  <2>3. CASE m \notin run[r].rows
    BY <1>6, <2>1, <2>3 DEF OutboxInv, Protected
  <2> QED BY <2>2, <2>3
<1>11. HeldByOne'
  BY <1>1, <1>3, <1>4 DEF OutboxInv, HeldByOne
<1> QED BY <1>7, <1>8, <1>9, <1>10, <1>11 DEF OutboxInv

LEMMA OutboxStep ==
    ASSUME Times, IsFiniteSet(Run), OutboxInv, [Next]_vars
    PROVE  OutboxInv'
<1>1. CASE UNCHANGED vars
  BY <1>1 DEF vars, OutboxInv, Types, Accounted, Unsent, Unqueued, Protected, HeldByOne
<1> QED BY <1>1, TickKeeps, EnqueueKeeps, StartKeeps, ClaimKeeps, RecordKeeps, SendKeeps DEF Next

LEMMA OutboxBounds ==
    ASSUME Times, IsFiniteSet(Run), OutboxInv
    PROVE  DeliveriesBounded
<1> SUFFICES ASSUME NEW m \in Message PROVE deliveries[m] <= MaxAttempts
  BY DEF DeliveriesBounded
<1>1. /\ deliveries[m] \in Nat /\ outbox[m].attempts \in Nat /\ MaxAttempts \in Nat
      /\ deliveries[m] + Cardinality(Unsent(m)) <= outbox[m].attempts
      /\ outbox[m].attempts <= MaxAttempts
  BY DEF OutboxInv, Types, Row, Accounted, Times
<1> QED BY <1>1, UnsentIsFinite

\* However runs overlap, die after sending and overwrite each other's outcomes, a browser is
\* given a message MAX_ATTEMPTS times at most.
THEOREM DeliveriesStayBounded ==
    ASSUME Times, IsFiniteSet(Run)
    PROVE  Spec => []DeliveriesBounded
<1>1. Init => OutboxInv
  BY OutboxInitially
<1>2. OutboxInv /\ [Next]_vars => OutboxInv'
  BY OutboxStep
<1>3. OutboxInv => DeliveriesBounded
  BY OutboxBounds
<1> QED BY <1>1, <1>2, <1>3, PTL DEF Spec

\* While two runs hold a message, one of them has outlasted its lease.
THEOREM OneRunHolds ==
    ASSUME Times, IsFiniteSet(Run)
    PROVE  Spec => []HeldByOne
<1>1. Init => OutboxInv
  BY OutboxInitially
<1>2. OutboxInv /\ [Next]_vars => OutboxInv'
  BY OutboxStep
<1> QED BY <1>1, <1>2, PTL DEF Spec, OutboxInv
=============================================================================
