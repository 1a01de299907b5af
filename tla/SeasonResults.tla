---------------------------- MODULE SeasonResults ----------------------------
(***************************************************************************)
(* The season's results behind the snapshot cache: cached()                 *)
(* (apps/api/app/matchcentre/cache.py) with season_results and              *)
(* _fetch_results (matchcentre/service.py), asked for by several requests    *)
(* at once while the feed fails and recovers and the cache itself may fail.   *)
(*                                                                         *)
(* Results are the moment the feed gave them: it may have news at any.        *)
(***************************************************************************)
EXTENDS Integers, FiniteSetsExt

CONSTANTS
    None,
    Requests,
    MaxTtl,        \* how long results stay fresh at most (TTL_MAX)
    TtlFailed,     \* and a failure, or results kept through one (TTL_FAILED)
    StaleLimit,    \* STALE_LIMIT
    MaxTime        \* bound

VARIABLES
    now,
    snapshot,   \* the row of piele.external_snapshots, or None
    request     \* request -> None, or where it stands

vars == <<now, snapshot, request>>

Time == 0 .. MaxTime

\* An ok snapshot's data and, when it was kept through a failure, when it was really fetched.
Snapshot ==
    [status : {"ok", "unavailable"}, data : Time, kept : Time \union {None}, fetched : Time,
     expires : 0 .. MaxTime + MaxTtl + TtlFailed]

TypeOK ==
    /\ now \in Time
    /\ snapshot \in Snapshot \union {None}
    /\ \A r \in Requests :
          /\ request[r] = None
             \/ (request[r].step \in {"fetch", "failed", "put"} /\ request[r].at \in Time)

-----------------------------------------------------------------------------
Fresh(s, at) == s # None /\ s.expires > at
Failure(at) ==
    [status |-> "unavailable", data |-> 0, kept |-> None, fetched |-> at,
     expires |-> at + TtlFailed]

Init ==
    /\ now = 0 /\ snapshot = None
    /\ request = [r \in Requests |-> None]

Tick ==
    /\ now < MaxTime /\ now' = now + 1
    /\ UNCHANGED <<snapshot, request>>

Goes(r, step, s) ==
    request' = [request EXCEPT ![r] = [step |-> step, at |-> request[r].at, snapshot |-> s]]

\* cached, the read: a fresh snapshot is the answer, and a read that fails is as none.
Ask(r) ==
    /\ request[r] = None
    /\ \E s \in {snapshot, None} : ~Fresh(s, now)
    /\ request' = [request EXCEPT ![r] = [step |-> "fetch", at |-> now, snapshot |-> None]]
    /\ UNCHANGED <<now, snapshot>>

\* _fetch_results: the feed answers, with what it has by then.
Fetch(r) ==
    /\ request[r] # None /\ request[r].step = "fetch"
    /\ \E ttl \in {TtlFailed, MaxTtl} :
          Goes(r, "put", [status |-> "ok", data |-> now, kept |-> None,
                          fetched |-> request[r].at, expires |-> request[r].at + ttl])
    /\ UNCHANGED <<now, snapshot>>

FetchFails(r) ==
    /\ request[r] # None /\ request[r].step = "fetch" /\ Goes(r, "failed", None)
    /\ UNCHANGED <<now, snapshot>>

\* The last good snapshot is kept, as of when it was fetched, unless that is too long ago.
Original(s) == IF s.kept = None THEN s.fetched ELSE s.kept
Keep(r) ==
    /\ request[r] # None /\ request[r].step = "failed"
    /\ \E s \in {snapshot, None} :
          LET at == request[r].at IN
          Goes(r, "put",
               IF s # None /\ s.status = "ok" /\ at - Original(s) <= StaleLimit
               THEN [s EXCEPT !.kept = Original(s), !.fetched = at, !.expires = at + TtlFailed]
               ELSE Failure(at))
    /\ UNCHANGED <<now, snapshot>>

\* The write may fail too; the request answers either way.
Put(r) ==
    /\ request[r] # None /\ request[r].step = "put"
    /\ snapshot' \in {snapshot, request[r].snapshot}
    /\ request' = [request EXCEPT ![r] = None]
    /\ UNCHANGED now

Next ==
    \/ Tick
    \/ \E r \in Requests : Ask(r) \/ Fetch(r) \/ FetchFails(r) \/ Keep(r) \/ Put(r)

Spec == Init /\ [][Next]_vars

-----------------------------------------------------------------------------
\* What is answered at the moment: a snapshot still fresh, or what a request is about to put.
Answered ==
    (IF Fresh(snapshot, now) THEN {[at |-> now, snapshot |-> snapshot]} ELSE {})
    \union {[at |-> request[r].at, snapshot |-> request[r].snapshot] :
            r \in {q \in Requests : request[q] # None /\ request[q].step = "put"}}

\* Whatever the feed, the cache and other requests do: results served are at least as new as
\* the moment told with them, and they are never older than the limit and the one failure they
\* were kept through.
ResultsAreAsTold ==
    \A a \in Answered : a.snapshot.status = "ok" =>
        /\ Original(a.snapshot) <= a.snapshot.data
        /\ a.at - Original(a.snapshot) < Max({MaxTtl, StaleLimit + TtlFailed})

\* The lifetimes are positive and None is no moment. The inductive invariant behind it: results,
\* wherever they are, are as new as they say, and expire before they are older than the limit.
Lifetimes == MaxTtl \in Nat /\ StaleLimit \in Nat /\ TtlFailed \in Nat \ {0} /\ None \notin Int

Oldest == Max({MaxTtl, StaleLimit + TtlFailed})

Sound(s) ==
    s.status = "ok" =>
        /\ s \in [status : {"ok"}, data : Nat, kept : Nat \union {None}, fetched : Nat, expires : Nat]
        /\ Original(s) <= s.data /\ s.expires - Original(s) <= Oldest

ResultsInv ==
    /\ now \in Nat /\ (snapshot = None \/ Sound(snapshot)) /\ request = [r \in Requests |-> request[r]]
    /\ \A r \in Requests : request[r] # None =>
          /\ request[r].at \in 0 .. now
          /\ request[r].step = "put" =>
                /\ Sound(request[r].snapshot)
                /\ request[r].snapshot.status = "ok" =>
                      request[r].at - Original(request[r].snapshot) < Oldest
=============================================================================
