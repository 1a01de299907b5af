------------------------------ MODULE Previews ------------------------------
(***************************************************************************)
(* One fixture's preview: the agent's ticks claim it through POST          *)
(* /v1/agent/dispatches, every claim starts one writing session, and a     *)
(* session submits its preview through POST /v1/agent/previews, again when *)
(* an answer is lost (apps/agent, routers/agent.py, agent/previews.py).    *)
(*                                                                         *)
(* A request reads in one statement and writes in a later one; unique keys *)
(* (attempt; revision; session) decide between requests that read the      *)
(* same.  `now` counts five minutes; a request keeps the time it started   *)
(* at and takes at most Slow of it before it reads.  Fixtures are          *)
(* independent but for DISPATCH_LIMIT, which only delays a claim; what a   *)
(* preview says, its sources and their checks are left out.                *)
(***************************************************************************)
EXTENDS Integers, Sequences, TLAPS

CONSTANTS
    Tick,          \* POST /dispatches requests: schedule ticks and runs by hand
    Submit,        \* POST /previews requests
    Lease,         \* DISPATCH_LEASE
    Slow,          \* the providers' reads of a request end within this
    MaxDispatches, \* MAX_DISPATCHES
    SaveAttempts,  \* SAVE_ATTEMPTS
    Published,     \* when both teamsheets are published
    Kickoff,
    MaxTime        \* bound: the last value of `now`

VARIABLES
    now,
    dispatches,    \* the dispatch rows in attempt order: when, and whether forced
    ticks,         \* the dispatch requests
    sessions,      \* the attempts whose session is at work, with a state to write from
    saves,         \* the submissions
    previews       \* the stored previews in revision order: their session

vars == <<now, dispatches, ticks, sessions, saves, previews>>

Idle == [step |-> "idle", start |-> 0, forced |-> FALSE, attempt |-> 0]
NoSave == [step |-> "idle", session |-> 0, revision |-> 0, tries |-> 0]

Init ==
    /\ now = 0
    /\ dispatches = << >>
    /\ ticks = [t \in Tick |-> Idle]
    /\ sessions = {}
    /\ saves = [s \in Submit |-> NoSave]
    /\ previews = << >>

\* A schedule tick (every fifteen minutes) or POST /previews/run, forced or not.
Post(t) ==
    /\ ticks[t].step = "idle"
    /\ \E forced \in BOOLEAN :
         ticks' = [ticks EXCEPT ![t] = [Idle EXCEPT !.step = "reading", !.start = now,
                                                    !.forced = forced]]
    /\ UNCHANGED <<now, dispatches, sessions, saves, previews>>

Last == dispatches[Len(dispatches)]

\* Mistake: only the number of claims is looked at.
Due_NoLease(t) ==
    /\ ticks[t].start >= Published
    /\ ticks[t].start < Kickoff
    /\ ticks[t].forced \/ (previews = << >> /\ Len(dispatches) < MaxDispatches)

\* due_reason, at the time the request started.
Due(t) ==
    /\ ticks[t].start >= Published
    /\ ticks[t].start < Kickoff
    /\ \/ ticks[t].forced
       \/ /\ previews = << >>
          /\ \/ dispatches = << >>
             \/ /\ Len(dispatches) < MaxDispatches
                /\ ticks[t].start - Last.at >= Lease

\* dispatch reads what is due, after the providers have answered.
ReadDue(t) ==
    /\ ticks[t].step = "reading"
    /\ now <= ticks[t].start + Slow
    /\ ticks' = [ticks EXCEPT ![t] =
         IF Due(t) THEN [@ EXCEPT !.step = "claiming", !.attempt = Len(dispatches) + 1]
         ELSE [@ EXCEPT !.step = "over"]]
    /\ UNCHANGED <<now, dispatches, sessions, saves, previews>>

\* claim, and the session started for it unless the agent dies first: the key
\* (fixture, attempt) gives a claim to one of two requests that read the same.
Claim(t) ==
    /\ ticks[t].step = "claiming"
    /\ ticks' = [ticks EXCEPT ![t].step = "over"]
    /\ IF ticks[t].attempt <= Len(dispatches)
       THEN UNCHANGED <<dispatches, sessions>>
       ELSE /\ dispatches' = Append(dispatches, [at |-> ticks[t].start,
                                                 forced |-> ticks[t].forced])
            /\ \/ sessions' = sessions \cup {ticks[t].attempt}
               \/ UNCHANGED sessions
    /\ UNCHANGED <<now, saves, previews>>

\* A session dies, gives up or ends without having saved.
GiveUp(a) ==
    /\ a \in sessions
    /\ sessions' = sessions \ {a}
    /\ UNCHANGED <<now, dispatches, ticks, saves, previews>>

\* save_preview of the agent: a submission, or the same one again when its
\* answer was lost; get_fixture_state has given the session its inputs.
SavePreview(s, a) ==
    /\ a \in sessions
    /\ saves[s].step = "idle"
    /\ now < Kickoff                                   \* open_fixture
    /\ saves' = [saves EXCEPT ![s] = [NoSave EXCEPT !.step = "looking", !.session = a]]
    /\ UNCHANGED <<now, dispatches, ticks, sessions, previews>>

Stored(a) == \E i \in DOMAIN previews : previews[i] = a

\* The head of save's loop: a stored run answers with its own preview, else the
\* next revision is read.  SAVE_ATTEMPTS lost inserts raise PreviewConflict.
Look(s) ==
    /\ saves[s].step = "looking"
    /\ saves' = [saves EXCEPT ![s] =
         IF saves[s].tries >= SaveAttempts THEN [@ EXCEPT !.step = "conflict"]
         ELSE IF Stored(saves[s].session) THEN [@ EXCEPT !.step = "stored"]
         ELSE [@ EXCEPT !.step = "inserting", !.revision = Len(previews) + 1]]
    /\ UNCHANGED <<now, dispatches, ticks, sessions, previews>>

\* The insert: refused by the unique revision or the unique run, it looks again.
Insert(s) ==
    /\ saves[s].step = "inserting"
    /\ IF saves[s].revision <= Len(previews) \/ Stored(saves[s].session)
       THEN /\ saves' = [saves EXCEPT ![s].step = "looking", ![s].tries = @ + 1]
            /\ UNCHANGED previews
       ELSE /\ saves' = [saves EXCEPT ![s].step = "stored"]
            /\ previews' = Append(previews, saves[s].session)
    /\ UNCHANGED <<now, dispatches, ticks, sessions>>

Pass ==
    /\ now < MaxTime
    /\ \A t \in Tick : ticks[t].step = "reading" => now < ticks[t].start + Slow
    /\ now' = now + 1
    /\ UNCHANGED <<dispatches, ticks, sessions, saves, previews>>

Next ==
    \/ Pass
    \/ \E t \in Tick : Post(t) \/ ReadDue(t) \/ Claim(t)
    \/ \E a \in 1 .. Len(dispatches) : GiveUp(a) \/ \E s \in Submit : SavePreview(s, a)
    \/ \E s \in Submit : Look(s) \/ Insert(s)

Spec == Init /\ [][Next]_vars

-----------------------------------------------------------------------------
TypeOK ==
    /\ now \in 0 .. MaxTime
    /\ dispatches \in Seq([at : 0 .. MaxTime, forced : BOOLEAN])
    /\ ticks \in [Tick -> [step : {"idle", "reading", "claiming", "over"},
                           start : 0 .. MaxTime, forced : BOOLEAN, attempt : Nat]]
    /\ sessions \subseteq 1 .. Len(dispatches)
    /\ saves \in [Submit -> [step : {"idle", "looking", "inserting", "stored", "conflict"},
                             session : Nat, revision : Nat,
                             tries : 0 .. SaveAttempts]]
    /\ previews \in Seq(1 .. Len(dispatches))

\* Overlapping ticks never start two sessions for a fixture within its lease,
\* but for the time a request spends on the providers between the moment it
\* calls now and the moment it reads the claims.
ClaimsApart ==
    \A i, j \in DOMAIN dispatches :
        i < j /\ ~dispatches[j].forced =>
            dispatches[j].at - dispatches[i].at >= Lease - Slow

\* A submission is refused as a conflict only when each of its attempts lost to
\* another session's preview: its own session is not stored, and SAVE_ATTEMPTS
\* others are.
ConflictMeansCrowded ==
    \A s \in Submit : saves[s].step = "conflict" =>
        Stored(saves[s].session) \/ Len(previews) >= SaveAttempts

\* A submission repeated because its answer was lost, even while the first is still under way,
\* makes no second revision (previews.py:230-231).
OneRevision == \A i, j \in DOMAIN previews : previews[i] = previews[j] => i = j
-----------------------------------------------------------------------------
(* Proofs, for any number of requests and submissions, any lease and limits. *)

Dispatch == [at : Nat, forced : BOOLEAN]
Ticking == [step : {"idle", "reading", "claiming", "over"}, start : Nat, forced : BOOLEAN, attempt : Nat]
Saving == [step : {"idle", "looking", "inserting", "stored", "conflict"},
           session : Nat, revision : Nat, tries : Nat]
Among(a, stored) == \E i \in DOMAIN stored : stored[i] = a

PreviewTypes ==
    /\ now \in Nat /\ dispatches \in Seq(Dispatch) /\ previews \in Seq(Nat)
    /\ sessions \subseteq Nat
    /\ ticks \in [Tick -> Ticking] /\ saves \in [Submit -> Saving]

\* Nothing is dated in the future, and a claim was read no later than Slow after its date: the
\* claims before it are not dated later than that.
InOrder ==
    /\ \A i \in DOMAIN dispatches : dispatches[i].at <= now
    /\ \A t \in Tick : ticks[t].start <= now
    /\ \A i, j \in DOMAIN dispatches : i < j => dispatches[i].at <= dispatches[j].at + Slow

\* What a request that is about to claim has read still holds of the claims it read: later ones
\* take its attempt.
ReadClaims ==
    \A t \in Tick : ticks[t].step = "claiming" =>
        /\ ticks[t].attempt <= Len(dispatches) + 1
        /\ \A i \in DOMAIN dispatches : i < ticks[t].attempt =>
              /\ dispatches[i].at <= ticks[t].start + Slow
              /\ ~ticks[t].forced => ticks[t].start - dispatches[i].at >= Lease - Slow

\* A submission has lost to as many previews as it has tried, and waits for a later revision.
Crowded(s) ==
    CASE saves[s].step = "looking" -> saves[s].tries <= Len(previews)
      [] saves[s].step = "inserting" -> saves[s].tries < saves[s].revision
      [] saves[s].step = "conflict" -> SaveAttempts <= Len(previews)
      [] OTHER -> TRUE

PreviewInv ==
    /\ PreviewTypes /\ InOrder /\ ReadClaims /\ ClaimsApart
    /\ \A s \in Submit : Stored(saves[s].session) \/ Crowded(s)

\* What the types say of the claims and of one request.
LEMMA ClaimTypes ==
    ASSUME PreviewTypes
    PROVE  /\ now \in Nat /\ dispatches \in Seq(Dispatch) /\ Len(dispatches) \in Nat
           /\ DOMAIN dispatches = 1 .. Len(dispatches)
           /\ \A i \in DOMAIN dispatches : dispatches[i].at \in Nat
<1>1. dispatches \in Seq(Dispatch) /\ now \in Nat
  BY DEF PreviewTypes
<1>2. DOMAIN dispatches = 1 .. Len(dispatches) /\ Len(dispatches) \in Nat
  BY <1>1
<1>3. \A i \in DOMAIN dispatches : dispatches[i] \in Dispatch
  BY <1>1
<1> QED BY <1>1, <1>2, <1>3 DEF Dispatch

LEMMA TickTypes ==
    ASSUME PreviewTypes, NEW t \in Tick
    PROVE  /\ ticks[t] \in Ticking /\ ticks[t].start \in Nat /\ ticks[t].attempt \in Nat
           /\ ticks[t].forced \in BOOLEAN
BY DEF PreviewTypes, Ticking

LEMMA PreviewsInitially ==
    ASSUME Init
    PROVE  PreviewInv
<1>1. /\ now = 0 /\ dispatches = << >> /\ previews = << >> /\ sessions = {}
      /\ ticks = [t \in Tick |-> Idle] /\ saves = [s \in Submit |-> NoSave]
  BY DEF Init
<1>2. PreviewTypes
  BY <1>1 DEF PreviewTypes, Ticking, Saving, Idle, NoSave
<1>3. InOrder /\ ReadClaims /\ ClaimsApart
  BY <1>1 DEF InOrder, ReadClaims, ClaimsApart, Idle
<1>4. \A s \in Submit : Crowded(s)
  BY <1>1 DEF Crowded, NoSave
<1> QED BY <1>2, <1>3, <1>4 DEF PreviewInv

\* Of the claims nothing changes; time may pass.
LEMMA SameClaims ==
    ASSUME Slow \in Nat, Lease \in Nat, PreviewInv, now' \in Nat, now <= now',
           UNCHANGED <<dispatches, ticks>>
    PROVE  InOrder' /\ ReadClaims' /\ ClaimsApart'
<1>1. \A i \in DOMAIN dispatches : dispatches[i].at \in Nat
  BY ClaimTypes DEF PreviewInv
<1>2. \A t \in Tick : ticks[t].start \in Nat
  BY TickTypes DEF PreviewInv
<1>3. now \in Nat
  BY DEF PreviewInv, PreviewTypes
<1> QED BY <1>1, <1>2, <1>3 DEF PreviewInv, InOrder, ReadClaims, ClaimsApart

\* A request's tick moves on, to a start no later than now, and is not about to claim.
LEMMA PostKeeps ==
    ASSUME Slow \in Nat, Lease \in Nat, PreviewInv, NEW t \in Tick, Post(t)
    PROVE  PreviewInv'
<1>1. PICK forced \in BOOLEAN :
         ticks' = [ticks EXCEPT ![t] = [Idle EXCEPT !.step = "reading", !.start = now,
                                                    !.forced = forced]]
  BY DEF Post
<1>2. UNCHANGED <<now, dispatches, sessions, saves, previews>>
  BY DEF Post
<1> DEFINE new == [Idle EXCEPT !.step = "reading", !.start = now, !.forced = forced]
<1>3. /\ new \in Ticking
      /\ new.step = "reading" /\ new.start = now
  BY DEF PreviewInv, PreviewTypes, Ticking, Idle
<1>4. ticks' = [ticks EXCEPT ![t] = new]
  BY <1>1
<1> HIDE DEF new
<1>5. ticks'[t] = new /\ \A u \in Tick \ {t} : ticks'[u] = ticks[u]
  BY <1>4 DEF PreviewInv, PreviewTypes
<1>6. PreviewTypes'
  BY <1>2, <1>3, <1>4 DEF PreviewInv, PreviewTypes
<1>7. now \in Nat
  BY DEF PreviewInv, PreviewTypes
<1>8. InOrder'
  BY <1>2, <1>3, <1>5, <1>7 DEF PreviewInv, InOrder
<1>9. ReadClaims'
  BY <1>2, <1>3, <1>5 DEF PreviewInv, ReadClaims
<1>10. ClaimsApart' /\ \A s \in Submit : (Stored(saves[s].session) \/ Crowded(s))'
  BY <1>2 DEF PreviewInv, ClaimsApart, Stored, Crowded
<1> QED BY <1>6, <1>8, <1>9, <1>10 DEF PreviewInv

\* What is due was read when the claims were the ones there, so what Due saw of the last claim
\* holds of them all, within Slow.
LEMMA ReadDueKeeps ==
    ASSUME Slow \in Nat, Lease \in Nat, PreviewInv, NEW t \in Tick, ReadDue(t)
    PROVE  PreviewInv'
<1> DEFINE new == IF Due(t) THEN [ticks[t] EXCEPT !.step = "claiming", !.attempt = Len(dispatches) + 1]
                  ELSE [ticks[t] EXCEPT !.step = "over"]
<1>1. /\ now <= ticks[t].start + Slow /\ ticks' = [ticks EXCEPT ![t] = new]
      /\ UNCHANGED <<now, dispatches, sessions, saves, previews>>
  BY DEF ReadDue
<1>2. /\ ticks[t] \in Ticking /\ ticks[t].start \in Nat
      /\ now \in Nat /\ Len(dispatches) \in Nat
      /\ \A i \in DOMAIN dispatches : i \in 1 .. Len(dispatches) /\ dispatches[i].at \in Nat
  BY ClaimTypes, TickTypes DEF PreviewInv
<1>3. /\ new \in Ticking
      /\ new.start = ticks[t].start /\ new.forced = ticks[t].forced
      /\ new.step = "claiming" => Due(t) /\ new.attempt = Len(dispatches) + 1
  <2> DEFINE n == Len(dispatches) + 1
  <2>1. CASE Due(t)
    <3>1. new = [ticks[t] EXCEPT !.step = "claiming", !.attempt = n]
      BY <2>1
    <3>2. n \in Nat
      BY <1>2
    <3> HIDE DEF n, new
    <3>3. /\ new \in Ticking /\ new.start = ticks[t].start /\ new.forced = ticks[t].forced
          /\ new.attempt = n
      BY <1>2, <3>1, <3>2 DEF Ticking
    <3> QED BY <2>1, <3>3 DEF n
  <2>2. CASE ~Due(t)
    <3>1. new = [ticks[t] EXCEPT !.step = "over"]
      BY <2>2
    <3> HIDE DEF new
    <3> QED BY <1>2, <3>1 DEF Ticking
  <2> QED BY <2>1, <2>2
<1> HIDE DEF new
<1>4. ticks'[t] = new /\ \A u \in Tick \ {t} : ticks'[u] = ticks[u]
  BY <1>1 DEF PreviewInv, PreviewTypes
<1>5. PreviewTypes'
  BY <1>1, <1>3 DEF PreviewInv, PreviewTypes
<1>6. InOrder'
  BY <1>1, <1>3, <1>4 DEF PreviewInv, InOrder
<1>7. ASSUME NEW i \in DOMAIN dispatches, Due(t)
      PROVE  /\ dispatches[i].at <= ticks[t].start + Slow
             /\ ~ticks[t].forced => ticks[t].start - dispatches[i].at >= Lease - Slow
  <2>1. dispatches[i].at <= now
    BY DEF PreviewInv, InOrder
  <2>2. dispatches[i].at <= ticks[t].start + Slow
    BY <1>1, <1>2, <2>1
  <2>3. ASSUME ~ticks[t].forced PROVE ticks[t].start - dispatches[i].at >= Lease - Slow
    <3>1. /\ Len(dispatches) \in DOMAIN dispatches
          /\ ticks[t].start - dispatches[Len(dispatches)].at >= Lease
      BY <1>2, <1>7, <2>3 DEF Due, Last
    <3>2. \/ i = Len(dispatches)
          \/ dispatches[i].at <= dispatches[Len(dispatches)].at + Slow
      BY <1>2, <3>1 DEF PreviewInv, InOrder
    <3> QED BY <1>2, <3>1, <3>2
  <2> QED BY <2>2, <2>3
<1>8. ReadClaims'
  <2> SUFFICES ASSUME NEW u \in Tick, ticks'[u].step = "claiming"
               PROVE  /\ ticks'[u].attempt <= Len(dispatches) + 1
                      /\ \A i \in DOMAIN dispatches : i < ticks'[u].attempt =>
                            /\ dispatches[i].at <= ticks'[u].start + Slow
                            /\ ~ticks'[u].forced =>
                                  ticks'[u].start - dispatches[i].at >= Lease - Slow
    BY <1>1 DEF ReadClaims
  <2>1. CASE u = t
    BY <1>2, <1>3, <1>4, <1>7, <2>1
  <2>2. CASE u # t
    BY <1>4, <2>2 DEF PreviewInv, ReadClaims
  <2> QED BY <2>1, <2>2
<1>9. ClaimsApart' /\ \A s \in Submit : (Stored(saves[s].session) \/ Crowded(s))'
  BY <1>1 DEF PreviewInv, ClaimsApart, Stored, Crowded
<1> QED BY <1>5, <1>6, <1>8, <1>9 DEF PreviewInv

LEMMA ClaimKeeps ==
    ASSUME Slow \in Nat, Lease \in Nat, PreviewInv, NEW t \in Tick, Claim(t)
    PROVE  PreviewInv'
<1> DEFINE new == [at |-> ticks[t].start, forced |-> ticks[t].forced]
           done == [ticks[t] EXCEPT !.step = "over"]
<1>0. PICK n \in Nat : n = Len(dispatches)
  BY ClaimTypes DEF PreviewInv
<1>1. /\ ticks[t].step = "claiming" /\ ticks' = [ticks EXCEPT ![t] = done]
      /\ UNCHANGED <<now, saves, previews>>
      /\ \/ UNCHANGED <<dispatches, sessions>>
         \/ /\ ~(ticks[t].attempt <= n) /\ dispatches' = Append(dispatches, new)
            /\ sessions' = sessions \union {ticks[t].attempt} \/ UNCHANGED sessions
  BY <1>0 DEF Claim
<1>2. /\ ticks[t] \in Ticking /\ ticks[t].start \in Nat /\ ticks[t].attempt \in Nat
      /\ ticks[t].forced \in BOOLEAN
      /\ now \in Nat /\ dispatches \in Seq(Dispatch) /\ n \in Nat /\ DOMAIN dispatches = 1 .. n
      /\ \A i \in DOMAIN dispatches : dispatches[i].at \in Nat
  BY <1>0, ClaimTypes, TickTypes DEF PreviewInv
<1>3. /\ new \in Dispatch /\ new.at = ticks[t].start /\ new.forced = ticks[t].forced
      /\ done \in Ticking
      /\ done.start = ticks[t].start /\ done.step = "over"
  BY <1>2 DEF Dispatch, Ticking
<1> HIDE DEF new, done
<1>4. ticks'[t] = done /\ \A u \in Tick \ {t} : ticks'[u] = ticks[u]
  BY <1>1 DEF PreviewInv, PreviewTypes
<1>5. \A s \in Submit : (Stored(saves[s].session) \/ Crowded(s))'
  BY <1>1 DEF PreviewInv, Stored, Crowded
<1>6. CASE UNCHANGED <<dispatches, sessions>>
  <2>1. PreviewTypes'
    BY <1>1, <1>3, <1>6 DEF PreviewInv, PreviewTypes
  <2>2. InOrder' /\ ReadClaims' /\ ClaimsApart'
    BY <1>1, <1>3, <1>4, <1>6 DEF PreviewInv, InOrder, ReadClaims, ClaimsApart
  <2> QED BY <1>5, <2>1, <2>2 DEF PreviewInv
<1>7. ASSUME ~(ticks[t].attempt <= n), dispatches' = Append(dispatches, new),
             sessions' = sessions \union {ticks[t].attempt} \/ UNCHANGED sessions
      PROVE  PreviewInv'
  <2>1. ticks[t].attempt = n + 1
    <3>1. ticks[t].attempt <= n + 1
      BY <1>0, <1>1 DEF PreviewInv, ReadClaims
    <3> QED BY <1>2, <1>7, <3>1
  <2>2. /\ dispatches' \in Seq(Dispatch) /\ Len(dispatches') = n + 1
        /\ DOMAIN dispatches' = 1 .. n + 1 /\ dispatches'[n + 1] = new
        /\ \A i \in 1 .. n : dispatches'[i] = dispatches[i]
    BY <1>0, <1>2, <1>3, <1>7
  <2>3. PreviewTypes'
    BY <1>1, <1>2, <1>3, <1>7, <2>2 DEF PreviewInv, PreviewTypes
  <2>4. \A i \in 1 .. n : /\ dispatches[i].at <= new.at + Slow
                          /\ ~new.forced => new.at - dispatches[i].at >= Lease - Slow
    <3>1. \A i \in DOMAIN dispatches : i < ticks[t].attempt =>
             /\ dispatches[i].at <= ticks[t].start + Slow
             /\ ~ticks[t].forced => ticks[t].start - dispatches[i].at >= Lease - Slow
      BY <1>1 DEF PreviewInv, ReadClaims
    <3>2. \A i \in 1 .. n : i \in DOMAIN dispatches /\ i < ticks[t].attempt
      BY <1>2, <2>1
    <3> QED BY <1>3, <3>1, <3>2
  <2>5. InOrder'
    <3>1. \A i \in 1 .. n + 1 : dispatches'[i].at <= now
      <4>1. \A i \in 1 .. n : dispatches[i].at <= now
        BY <1>2 DEF PreviewInv, InOrder
      <4>2. new.at <= now
        BY <1>3 DEF PreviewInv, InOrder
      <4>3. \A i \in 1 .. n + 1 : i \in 1 .. n \/ i = n + 1
        OBVIOUS
      <4> QED BY <2>2, <4>1, <4>2, <4>3
    <3>2. \A u \in Tick : ticks'[u].start <= now
      BY <1>3, <1>4 DEF PreviewInv, InOrder
    <3>3. \A i, j \in 1 .. n + 1 : i < j => dispatches'[i].at <= dispatches'[j].at + Slow
      <4> SUFFICES ASSUME NEW i \in 1 .. n + 1, NEW j \in 1 .. n + 1, i < j
                   PROVE  dispatches'[i].at <= dispatches'[j].at + Slow
        OBVIOUS
      <4>1. i \in 1 .. n
        BY <1>2
      <4>2. j = n + 1 \/ j \in 1 .. n
        BY <1>2
      <4> QED BY <1>2, <2>2, <2>4, <4>1, <4>2 DEF PreviewInv, InOrder
    <3> QED BY <1>1, <2>2, <3>1, <3>2, <3>3 DEF InOrder
  <2>6. ReadClaims'
    <3> SUFFICES ASSUME NEW u \in Tick, ticks'[u].step = "claiming"
                 PROVE  /\ ticks'[u].attempt <= Len(dispatches') + 1
                        /\ \A i \in DOMAIN dispatches' : i < ticks'[u].attempt =>
                              /\ dispatches'[i].at <= ticks'[u].start + Slow
                              /\ ~ticks'[u].forced =>
                                    ticks'[u].start - dispatches'[i].at >= Lease - Slow
      BY DEF ReadClaims
    <3>1. /\ ticks'[u] = ticks[u] /\ ticks[u].attempt <= n + 1 /\ ticks[u].attempt \in Nat
          /\ \A i \in 1 .. n : i < ticks[u].attempt =>
                /\ dispatches[i].at <= ticks[u].start + Slow
                /\ ~ticks[u].forced => ticks[u].start - dispatches[i].at >= Lease - Slow
      <4>1. u # t
        BY <1>3, <1>4
      <4> QED BY <1>2, <1>4, <4>1, <1>0, TickTypes DEF PreviewInv, ReadClaims
    <3>2. \A i \in 1 .. n + 1 : i < ticks[u].attempt => i \in 1 .. n
      BY <1>2, <3>1
    <3>3. ticks'[u].attempt <= Len(dispatches') + 1
      BY <1>2, <2>2, <3>1
    <3> QED BY <2>2, <3>1, <3>2, <3>3
  <2>7. ClaimsApart'
    <3> SUFFICES ASSUME NEW i \in 1 .. n + 1, NEW j \in 1 .. n + 1, i < j,
                        ~dispatches'[j].forced
                 PROVE  dispatches'[j].at - dispatches'[i].at >= Lease - Slow
      BY <2>2 DEF ClaimsApart
    <3>1. i \in 1 .. n
      BY <1>2
    <3>2. j = n + 1 \/ j \in 1 .. n
      BY <1>2
    <3> QED BY <1>2, <2>2, <2>4, <3>1, <3>2 DEF PreviewInv, ClaimsApart
  <2> QED BY <1>5, <2>3, <2>5, <2>6, <2>7 DEF PreviewInv
<1> QED BY <1>1, <1>6, <1>7

\* A preview that is stored stays stored, and the others' number only grows.
LEMMA StoredStays ==
    ASSUME NEW old \in Seq(Nat), NEW a \in Nat, NEW new, new = Append(old, a)
    PROVE  /\ new \in Seq(Nat) /\ Len(old) <= Len(new) /\ Len(new) \in Nat
           /\ \A b : Among(b, old) => Among(b, new)
<1>1. /\ new \in Seq(Nat) /\ Len(new) = Len(old) + 1 /\ Len(old) \in Nat
      /\ DOMAIN old = 1 .. Len(old) /\ DOMAIN new = 1 .. Len(old) + 1
      /\ \A i \in DOMAIN old : new[i] = old[i]
  OBVIOUS
<1>2. DOMAIN old \subseteq DOMAIN new
  BY <1>1
<1>3. \A b : Among(b, old) => Among(b, new)
  BY <1>1, <1>2 DEF Among
<1> QED BY <1>1, <1>3

\* A submission takes a step: it looks, saves, begins or gives up.
LEMMA SubmissionKeeps ==
    ASSUME Slow \in Nat, Lease \in Nat, SaveAttempts \in Nat, PreviewInv, NEW s \in Submit,
           Look(s) \/ Insert(s) \/ \E a \in 1 .. Len(dispatches) : SavePreview(s, a)
    PROVE  PreviewInv'
<1>1. UNCHANGED <<now, dispatches, ticks, sessions>>
  BY DEF Look, Insert, SavePreview
<1>2. InOrder' /\ ReadClaims' /\ ClaimsApart'
  BY <1>1, SameClaims DEF PreviewInv, PreviewTypes
<1>3. PICK k \in Saving : k = saves[s]
  BY DEF PreviewInv, PreviewTypes
<1>4. /\ previews \in Seq(Nat) /\ Len(previews) \in Nat /\ saves \in [Submit -> Saving]
      /\ k.tries \in Nat /\ k.revision \in Nat /\ k.session \in Nat
  BY DEF PreviewInv, PreviewTypes, Saving
<1>5. Among(k.session, previews) \/ Crowded(s)
  BY <1>3 DEF PreviewInv, Stored, Among
<1>6. ASSUME NEW new \in Saving, saves' = [saves EXCEPT ![s] = new],
             previews' = previews \/ \E a \in Nat : previews' = Append(previews, a),
             \/ Among(new.session, previews)
             \/ new.step = "looking" /\ new.tries <= Len(previews)
             \/ new.step = "inserting" /\ new.tries < new.revision
             \/ new.step = "conflict" /\ SaveAttempts <= Len(previews)
             \/ new.step \in {"idle", "stored"}
      PROVE  PreviewInv'
  <2>1. /\ saves'[s] = new /\ saves' \in [Submit -> Saving]
        /\ \A u \in Submit \ {s} : saves'[u] = saves[u]
    BY <1>4, <1>6
  <2>2. /\ previews' \in Seq(Nat) /\ Len(previews) <= Len(previews') /\ Len(previews') \in Nat
        /\ \A a : Among(a, previews) => Among(a, previews')
    <3>1. CASE previews' = previews
      BY <1>4, <3>1
    <3>2. ASSUME NEW a \in Nat, previews' = Append(previews, a)
          PROVE  /\ previews' \in Seq(Nat) /\ Len(previews) <= Len(previews') /\ Len(previews') \in Nat
                 /\ \A b : Among(b, previews) => Among(b, previews')
      BY <1>4, <3>2, StoredStays
    <3> QED BY <1>6, <3>1, <3>2
  <2>3. PreviewTypes'
    BY <1>1, <2>1, <2>2 DEF PreviewInv, PreviewTypes
  <2>4. Among(new.session, previews') \/ Crowded(s)'
    <3>1. new.tries \in Nat
      BY DEF Saving
    <3>2. CASE Among(new.session, previews)
      BY <2>2, <3>2
    <3>3. CASE new.step = "looking" /\ new.tries <= Len(previews)
      BY <1>4, <2>1, <2>2, <3>1, <3>3 DEF Crowded
    <3>4. CASE new.step = "inserting" /\ new.tries < new.revision
      BY <2>1, <3>4 DEF Crowded
    <3>5. CASE new.step = "conflict" /\ SaveAttempts <= Len(previews)
      BY <1>4, <2>1, <2>2, <3>5 DEF Crowded
    <3>6. CASE new.step \in {"idle", "stored"}
      BY <2>1, <3>6 DEF Crowded
    <3> QED BY <1>6, <3>2, <3>3, <3>4, <3>5, <3>6
  <2>5. ASSUME NEW u \in Submit, u # s PROVE Among(saves'[u].session, previews') \/ Crowded(u)'
    <3>1. saves'[u] = saves[u] /\ saves[u].tries \in Nat
      BY <1>4, <2>1, <2>5 DEF Saving
    <3>2. Among(saves[u].session, previews) \/ Crowded(u)
      BY DEF PreviewInv, Stored, Among
    <3>3. Crowded(u) => Crowded(u)'
      BY <1>4, <2>2, <3>1 DEF Crowded
    <3> QED BY <2>2, <3>1, <3>2, <3>3
  <2>6. \A u \in Submit : (Stored(saves[u].session) \/ Crowded(u))'
    BY <2>1, <2>4, <2>5 DEF Stored, Among
  <2> QED BY <1>2, <2>3, <2>6 DEF PreviewInv
<1>7. ASSUME NEW a \in 1 .. Len(dispatches), SavePreview(s, a) PROVE PreviewInv'
  <2> DEFINE new == [NoSave EXCEPT !.step = "looking", !.session = a]
  <2>1. saves' = [saves EXCEPT ![s] = new] /\ previews' = previews
    BY <1>7 DEF SavePreview
  <2>2. a \in Nat
    BY DEF PreviewInv, PreviewTypes
  <2>3. new \in Saving /\ new.step = "looking" /\ new.tries = 0
    BY <2>2 DEF NoSave, Saving
  <2> HIDE DEF new
  <2>4. new.tries <= Len(previews)
    BY <1>4, <2>3
  <2> QED BY <1>6, <2>1, <2>3, <2>4
<1>8. ASSUME Look(s) PROVE PreviewInv'
  <2>1. previews' = previews /\ k.step = "looking"
    BY <1>3, <1>8 DEF Look
  <2>2. Among(k.session, previews) \/ k.tries <= Len(previews)
    BY <1>3, <1>5, <2>1 DEF Crowded
  <2>3. CASE k.tries >= SaveAttempts
    <3> DEFINE new == [k EXCEPT !.step = "conflict"]
    <3>1. saves' = [saves EXCEPT ![s] = new]
      BY <1>3, <1>8, <2>3 DEF Look
    <3>2. new \in Saving /\ new.step = "conflict" /\ new.session = k.session
      BY <1>3 DEF Saving
    <3> HIDE DEF new
    <3>3. Among(new.session, previews) \/ SaveAttempts <= Len(previews)
      BY <1>4, <2>2, <2>3, <3>2
    <3> QED BY <1>6, <2>1, <3>1, <3>2, <3>3
  <2>4. CASE ~(k.tries >= SaveAttempts) /\ Among(k.session, previews)
    <3> DEFINE new == [k EXCEPT !.step = "stored"]
    <3>1. saves' = [saves EXCEPT ![s] = new]
      BY <1>3, <1>8, <2>4 DEF Look, Stored, Among
    <3>2. new \in Saving /\ new.step = "stored"
      BY <1>3 DEF Saving
    <3> HIDE DEF new
    <3> QED BY <1>6, <2>1, <3>1, <3>2
  <2>5. CASE ~(k.tries >= SaveAttempts) /\ ~Among(k.session, previews)
    <3> DEFINE next == Len(previews) + 1
               new == [k EXCEPT !.step = "inserting", !.revision = next]
    <3>1. saves' = [saves EXCEPT ![s] = new]
      BY <1>3, <1>8, <2>5 DEF Look, Stored, Among
    <3>2. next \in Nat /\ k.tries < next
      BY <1>4, <2>2, <2>5
    <3> HIDE DEF next
    <3>3. new \in Saving /\ new.step = "inserting" /\ new.tries = k.tries /\ new.revision = next
      BY <1>3, <3>2 DEF Saving
    <3> HIDE DEF new
    <3>4. new.tries < new.revision
      BY <3>2, <3>3
    <3> QED BY <1>6, <2>1, <3>1, <3>3, <3>4
  <2> QED BY <2>3, <2>4, <2>5
<1>9. ASSUME Insert(s) PROVE PreviewInv'
  <2>1. k.step = "inserting"
    BY <1>3, <1>9 DEF Insert
  <2>2. Among(k.session, previews) \/ k.tries < k.revision
    BY <1>3, <1>5, <2>1 DEF Crowded
  <2>3. CASE k.revision <= Len(previews) \/ Among(k.session, previews)
    <3> DEFINE tries == k.tries + 1
               new == [k EXCEPT !.step = "looking", !.tries = tries]
    <3>1. saves' = [saves EXCEPT ![s] = new] /\ previews' = previews
      BY <1>3, <1>9, <2>3 DEF Insert, Stored, Among
    <3>2. tries \in Nat /\ (Among(k.session, previews) \/ tries <= Len(previews))
      BY <1>4, <2>2, <2>3
    <3> HIDE DEF tries
    <3>3. new \in Saving /\ new.step = "looking" /\ new.session = k.session /\ new.tries = tries
      BY <1>3, <3>2 DEF Saving
    <3> HIDE DEF new
    <3>4. Among(new.session, previews) \/ new.tries <= Len(previews)
      BY <3>2, <3>3
    <3> QED BY <1>6, <3>1, <3>3, <3>4
  <2>4. CASE ~(k.revision <= Len(previews) \/ Among(k.session, previews))
    <3> DEFINE new == [k EXCEPT !.step = "stored"]
    <3>1. saves' = [saves EXCEPT ![s] = new] /\ previews' = Append(previews, k.session)
      BY <1>3, <1>9, <2>4 DEF Insert, Stored, Among
    <3>2. new \in Saving /\ new.step = "stored"
      BY <1>3 DEF Saving
    <3> HIDE DEF new
    <3> QED BY <1>4, <1>6, <3>1, <3>2
  <2> QED BY <2>3, <2>4
<1> QED BY <1>7, <1>8, <1>9

LEMMA PreviewStep ==
    ASSUME Slow \in Nat, Lease \in Nat, SaveAttempts \in Nat, PreviewInv, [Next]_vars
    PROVE  PreviewInv'
<1>1. CASE Pass
  <2>1. now \in Nat /\ now' = now + 1 /\ UNCHANGED <<dispatches, ticks, sessions, saves, previews>>
    BY <1>1 DEF Pass, PreviewInv, PreviewTypes
  <2>2. InOrder' /\ ReadClaims' /\ ClaimsApart'
    BY <2>1, SameClaims
  <2> QED BY <2>1, <2>2 DEF PreviewInv, PreviewTypes, Stored, Crowded
<1>2. ASSUME NEW a \in 1 .. Len(dispatches), GiveUp(a) PROVE PreviewInv'
  <2>1. sessions' = sessions \ {a} /\ UNCHANGED <<now, dispatches, ticks, saves, previews>>
    BY <1>2 DEF GiveUp
  <2>2. InOrder' /\ ReadClaims' /\ ClaimsApart'
    BY <2>1, SameClaims DEF PreviewInv, PreviewTypes
  <2> QED BY <2>1, <2>2 DEF PreviewInv, PreviewTypes, Stored, Crowded
<1>3. CASE UNCHANGED vars
  <2>1. InOrder' /\ ReadClaims' /\ ClaimsApart'
    BY <1>3, SameClaims DEF vars, PreviewInv, PreviewTypes
  <2> QED BY <1>3, <2>1 DEF vars, PreviewInv, PreviewTypes, Stored, Crowded
<1> QED BY <1>1, <1>2, <1>3, PostKeeps, ReadDueKeeps, ClaimKeeps, SubmissionKeeps DEF Next

\* Overlapping requests start the sessions of a fixture a lease apart, but for the time a request
\* spends on the providers: however many there are, and however late they claim what they read.
THEOREM ClaimsStayApart ==
    ASSUME Slow \in Nat, Lease \in Nat, SaveAttempts \in Nat
    PROVE  Spec => []ClaimsApart
<1>1. Init => PreviewInv
  BY PreviewsInitially
<1>2. PreviewInv /\ [Next]_vars => PreviewInv'
  BY PreviewStep
<1> QED BY <1>1, <1>2, PTL DEF Spec, PreviewInv

\* A submission gives up only with everything it may try used up.
LEMMA CrowdedOut ==
    ASSUME SaveAttempts \in Nat, PreviewInv
    PROVE  ConflictMeansCrowded
<1> SUFFICES ASSUME NEW s \in Submit, saves[s].step = "conflict"
             PROVE  Stored(saves[s].session) \/ Len(previews) >= SaveAttempts
  BY DEF ConflictMeansCrowded
<1>1. Stored(saves[s].session) \/ SaveAttempts <= Len(previews)
  BY DEF PreviewInv, Crowded
<1>2. Len(previews) \in Nat
  BY DEF PreviewInv, PreviewTypes
<1> QED BY <1>1, <1>2

LEMMA OneInitially ==
    ASSUME Init
    PROVE  OneRevision
BY DEF Init, OneRevision

\* Only an insert adds a revision, of a session that has none.
LEMMA OneStep ==
    ASSUME PreviewTypes, OneRevision, [Next]_vars
    PROVE  OneRevision'
<1>1. CASE UNCHANGED previews
  BY <1>1 DEF OneRevision
<1>2. ASSUME NEW s \in Submit, Insert(s), ~ UNCHANGED previews PROVE OneRevision'
  <2>1. previews' = Append(previews, saves[s].session) /\ ~Stored(saves[s].session)
    BY <1>2 DEF Insert
  <2>2. previews \in Seq(Nat) /\ saves[s].session \in Nat
    BY DEF PreviewTypes, Saving
  <2>3. /\ Len(previews) \in Nat /\ DOMAIN previews = 1 .. Len(previews)
        /\ DOMAIN previews' = 1 .. Len(previews) + 1
        /\ previews'[Len(previews) + 1] = saves[s].session
        /\ \A i \in 1 .. Len(previews) : previews'[i] = previews[i]
    BY <2>1, <2>2
  <2>4. \A i \in 1 .. Len(previews) : previews'[i] # saves[s].session
    BY <2>1, <2>3 DEF Stored
  <2>5. \A i \in DOMAIN previews' : i \in 1 .. Len(previews) \/ i = Len(previews) + 1
    BY <2>3
  <2> QED BY <2>3, <2>4, <2>5 DEF OneRevision
<1>3. UNCHANGED previews \/ \E s \in Submit : Insert(s)
  BY DEF Next, vars, Pass, Post, ReadDue, Claim, GiveUp, SavePreview, Look
<1> QED BY <1>1, <1>2, <1>3

\* Only a submission that lost to SAVE_ATTEMPTS other previews is refused as a conflict, unless
\* its own session's preview is stored.
THEOREM ConflictsAreCrowded ==
    ASSUME Slow \in Nat, Lease \in Nat, SaveAttempts \in Nat
    PROVE  Spec => []ConflictMeansCrowded
<1>1. Init => PreviewInv
  BY PreviewsInitially
<1>2. PreviewInv /\ [Next]_vars => PreviewInv'
  BY PreviewStep
<1>3. PreviewInv => ConflictMeansCrowded
  BY CrowdedOut
<1> QED BY <1>1, <1>2, <1>3, PTL DEF Spec
=============================================================================
