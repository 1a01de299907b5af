----------------------------- MODULE RoundUpdates -----------------------------
(***************************************************************************)
(* A match's full time as the notifications panel and the pool are told it:  *)
(* round_updates (apps/api/app/matchcentre/updates.py), the milestone it      *)
(* records once (milestones.py), the round's scores behind the snapshot       *)
(* cache (cached in cache.py) and stored_results (league/service.py).         *)
(*                                                                         *)
(* A request reads the milestone in one transaction, asks for the scores      *)
(* outside any, and records in a second one. Requests overlap, the feed and    *)
(* the cache fail, and the feed corrects a score after the match.              *)
(***************************************************************************)
EXTENDS Integers, TLAPS

CONSTANTS
    None,
    Requests,
    Start,        \* PRE_KICKOFF before the kickoff: scores are asked for from here
    Ttl,          \* TTL_LIVE
    MaxTime,      \* bound
    MaxAnswers    \* bound

VARIABLES
    now,
    feed,        \* the match as the feed has it
    snapshot,    \* the round's row of piele.external_snapshots, or None
    milestone,   \* full_time in piele.fixture_milestones, or None
    request,     \* request -> where it stands, or None
    answers,     \* how many were given
    told,        \* the first full time told, or None
    last,        \* the last answer: [final, late], late if asked for after told
    finals       \* the scores the feed has given as final

vars == <<now, feed, snapshot, milestone, request, answers, told, last, finals>>

Time == 0 .. MaxTime
Match == [state : {"scheduled", "live", "full_time", "postponed"}, score : {0, 1}]
Final == [at : Time, score : {0, 1}] \union {None}

\* The match a snapshot holds: None when it says the scores are unavailable.
Snapshot == [match : Match \union {None}, expires : Nat] \union {None}

\* Where a request stands: the milestone it read, and the snapshot it holds.
Request ==
    [step : {"look", "fetch", "put", "answer"}, at : Time, known : Final, holds : Snapshot,
     late : BOOLEAN]

TypeOK ==
    /\ now \in Time /\ feed \in Match /\ milestone \in Final /\ told \in Final
    /\ snapshot \in Snapshot /\ answers \in 0 .. MaxAnswers
    /\ request \in [Requests -> Request \union {None}]
    /\ last \in [final : Final, late : BOOLEAN] /\ finals \subseteq {0, 1}

-----------------------------------------------------------------------------
Init ==
    /\ now = 0 /\ feed = [state |-> "scheduled", score |-> 0]
    /\ snapshot = None /\ milestone = None /\ told = None /\ answers = 0
    /\ request = [r \in Requests |-> None] /\ last = [final |-> None, late |-> FALSE]
    /\ finals = {}

Tick ==
    /\ now < MaxTime /\ now' = now + 1
    /\ UNCHANGED <<feed, snapshot, milestone, request, answers, told, last, finals>>

\* The match goes on, or is postponed; once over, its score may be corrected.
Play ==
    /\ \E next \in Match :
          /\ \/ feed.state = "scheduled" /\ next.state \in {"live", "postponed"} /\ next.score = 0
             \/ feed.state = "live" /\ next.state = "full_time"
             \/ feed.state = "full_time" /\ next.state = "full_time" /\ next # feed
          /\ feed' = next
          /\ finals' = IF next.state = "full_time" THEN finals \union {next.score} ELSE finals
    /\ UNCHANGED <<now, snapshot, milestone, request, answers, told, last>>

At(r, step) == request[r] # None /\ request[r].step = step
Goes(r, step, holds) ==
    request' = [request EXCEPT ![r].step = step, ![r].holds = holds]

\* The first transaction; before the start no scores are asked for.
Ask(r) ==
    /\ request[r] = None /\ answers < MaxAnswers /\ answers' = answers + 1
    /\ request' = [request EXCEPT ![r] =
          [step |-> IF now >= Start THEN "look" ELSE "answer", at |-> now, known |-> milestone,
           holds |-> None, late |-> told # None]]
    /\ UNCHANGED <<now, feed, snapshot, milestone, told, last, finals>>

\* cached: a read that fails is as none.
Look(r) ==
    /\ At(r, "look")
    /\ \E s \in {snapshot, None} :
          Goes(r, IF s # None /\ s.expires > request[r].at THEN "answer" ELSE "fetch", s)
    /\ UNCHANGED <<now, feed, snapshot, milestone, answers, told, last, finals>>

Lifetime(match) == IF match.state \in {"full_time", "postponed"} THEN MaxTime ELSE Ttl

Fetch(r) ==
    /\ At(r, "fetch")
    /\ Goes(r, "put", [match |-> feed, expires |-> request[r].at + Lifetime(feed)])
    /\ UNCHANGED <<now, feed, snapshot, milestone, answers, told, last, finals>>

\* A stale snapshot is better than a failure.
FetchFails(r) ==
    /\ At(r, "fetch")
    /\ IF request[r].holds # None /\ request[r].holds.match # None
       THEN Goes(r, "answer", request[r].holds)
       ELSE Goes(r, "put", [match |-> None, expires |-> request[r].at + Ttl])
    /\ UNCHANGED <<now, feed, snapshot, milestone, answers, told, last, finals>>

Put(r) ==
    /\ At(r, "put") /\ snapshot' \in {snapshot, request[r].holds}
    /\ Goes(r, "answer", request[r].holds)
    /\ UNCHANGED <<now, feed, milestone, answers, told, last, finals>>

\* Mistake: the last one to record wins.
Record_Last(final) == milestone' = final

\* milestones.record: inserts unless it is known, and either way returns the stored row.
Record(final) == milestone' = IF milestone = None THEN final ELSE milestone

\* The second transaction, where the scores say full time and the first one knew of none.
Answer(r) ==
    /\ At(r, "answer")
    /\ LET q == request[r]
           match == IF q.holds = None THEN None ELSE q.holds.match
           seen == match # None /\ match.state = "full_time" /\ q.known = None
           final == IF seen THEN milestone' ELSE q.known
       IN /\ IF seen THEN Record([at |-> q.at, score |-> match.score]) ELSE UNCHANGED milestone
          /\ told' = IF told = None THEN final ELSE told
          /\ last' = [final |-> final, late |-> q.late]
    /\ request' = [request EXCEPT ![r] = None]
    /\ UNCHANGED <<now, feed, snapshot, answers, finals>>

Next ==
    \/ Tick \/ Play
    \/ \E r \in Requests :
          Ask(r) \/ Look(r) \/ Fetch(r) \/ FetchFails(r) \/ Put(r) \/ Answer(r)

Spec == Init /\ [][Next]_vars

-----------------------------------------------------------------------------
\* stored_results: the pool scores the milestone, else the match the snapshot holds.
Result ==
    IF milestone # None THEN [state |-> "full_time", score |-> milestone.score]
    ELSE IF snapshot = None THEN None
    ELSE IF snapshot.match = None \/ snapshot.match.state = "scheduled" THEN None
    ELSE snapshot.match

\* Once somebody is told of full time, everyone who asks after that is told of it, with the same
\* time and a score that was final, and the pool is scored by it: whoever recorded first, whatever the feed says
\* since and whatever older match a slow or failing request brings back to the cache.
FullTimeIsOne ==
    /\ last.final # None => last.final = told
    /\ last.late => last.final = told
    /\ told # None => told.score \in finals
    /\ told # None => Result = [state |-> "full_time", score |-> told.score]

-----------------------------------------------------------------------------
(***************************************************************************)
(* Proof that full time is told once and for all (FullTimeIsOne), for any  *)
(* number of requests at a time, any times and lifetimes.                  *)
(*                                                                         *)
(* FullTimeIsOne is not inductive: it says nothing of what a request has   *)
(* read and still holds.  TellsIt strengthens it: a milestone a request    *)
(* has read is the milestone, and every full time on its way was given by  *)
(* the feed.                                                               *)
(***************************************************************************)

\* A full time held by the feed, a snapshot or a request was given by the feed.
Given(match) == match # None /\ match.state = "full_time" => match.score \in finals
HoldsGiven(s) == s # None => Given(s.match)

\* What is told is the milestone, and what a request read of it still is.
TellsIt ==
    /\ told # None => milestone = told
    /\ milestone # None => milestone.score \in finals
    /\ \A r \in Requests : request[r] # None =>
          /\ request[r].known # None => request[r].known = milestone
          /\ request[r].late => request[r].known # None /\ told # None
          /\ HoldsGiven(request[r].holds)
    /\ HoldsGiven(snapshot)
    /\ Given(feed)
    /\ last.final # None => last.final = told
    /\ last.late => last.final = told

\* At the start nothing is held, told or recorded.
LEMMA Initially == ASSUME MaxTime \in Nat, MaxAnswers \in Nat, Init PROVE TypeOK /\ TellsIt
<1>1. TypeOK
  BY DEF Init, TypeOK, Time, Match, Final, Snapshot
<1>2. TellsIt
  BY DEF Init, TellsIt, Given, HoldsGiven
<1> QED BY <1>1, <1>2

\* The feed's own match changes: what it gave before stays given.
LEMMA PlayTells ==
    ASSUME TypeOK, TellsIt, Play PROVE TypeOK' /\ TellsIt'
<1>1. PICK next \in Match :
        /\ feed' = next
        /\ finals' = IF next.state = "full_time" THEN finals \union {next.score} ELSE finals
  BY DEF Play
<1>2. UNCHANGED <<now, snapshot, milestone, request, answers, told, last>>
  BY DEF Play
<1>3. finals \subseteq finals' /\ finals' \subseteq {0, 1}
  BY <1>1 DEF TypeOK, Match
<1>4. TypeOK'
  BY <1>1, <1>2, <1>3 DEF TypeOK
<1>5. \A match : Given(match) => Given(match)'
  BY <1>3 DEF Given
<1>6. Given(feed)'
  BY <1>1 DEF Given
<1>7. TellsIt'
  <2>1. HoldsGiven(snapshot)'
    BY <1>2, <1>3 DEF TellsIt, HoldsGiven, Given
  <2>2. \A r \in Requests : request[r] # None => HoldsGiven(request[r].holds)'
    BY <1>2, <1>3 DEF TellsIt, HoldsGiven, Given
  <2>3. milestone' # None => milestone'.score \in finals'
    BY <1>2, <1>3 DEF TellsIt
  <2> QED BY <1>2, <1>6, <2>1, <2>2, <2>3 DEF TellsIt
<1> QED BY <1>4, <1>7

\* A request that goes on, with a snapshot the feed's full time is given in.
LEMMA GoesTells ==
    ASSUME TypeOK, TellsIt, NEW r \in Requests, request[r] # None,
           NEW step \in {"look", "fetch", "put", "answer"}, NEW holds \in Snapshot,
           HoldsGiven(holds), Goes(r, step, holds),
           UNCHANGED <<now, feed, milestone, answers, told, last, finals>>,
           snapshot' = snapshot \/ snapshot' = request[r].holds
    PROVE TypeOK' /\ TellsIt'
<1>1. request[r] \in Request
  BY DEF TypeOK
<1>2. request' = [request EXCEPT ![r] = [request[r] EXCEPT !.step = step, !.holds = holds]]
  BY <1>1 DEF Goes, TypeOK, Request
<1>3. [request[r] EXCEPT !.step = step, !.holds = holds] \in Request
  BY <1>1 DEF Request
<1>4. snapshot' \in Snapshot /\ HoldsGiven(snapshot)'
  BY <1>1 DEF TypeOK, TellsIt, Request, HoldsGiven, Given
<1>5. TypeOK'
  BY <1>2, <1>3, <1>4 DEF TypeOK
<1>6. request'[r].known = request[r].known /\ request'[r].late = request[r].late
      /\ request'[r].holds = holds
  BY <1>1, <1>2 DEF TypeOK, Request
<1>7. \A q \in Requests \ {r} : request'[q] = request[q]
  BY <1>2 DEF TypeOK
<1>8. \A q \in Requests : request'[q] # None =>
        /\ request'[q].known # None => request'[q].known = milestone
        /\ request'[q].late => request'[q].known # None /\ told # None
        /\ HoldsGiven(request'[q].holds)
  BY <1>6, <1>7 DEF TellsIt
<1>9. TellsIt'
  BY <1>4, <1>8 DEF TellsIt, HoldsGiven, Given
<1> QED BY <1>5, <1>9

\* A request begins: it reads the milestone as it is.
LEMMA AskTells ==
    ASSUME MaxAnswers \in Nat, TypeOK, TellsIt, NEW r \in Requests, Ask(r)
    PROVE TypeOK' /\ TellsIt'
<1> DEFINE new == [step |-> IF now >= Start THEN "look" ELSE "answer", at |-> now,
                   known |-> milestone, holds |-> None, late |-> told # None]
<1>1. /\ request' = [request EXCEPT ![r] = new] /\ answers' = answers + 1
      /\ answers < MaxAnswers
      /\ UNCHANGED <<now, feed, snapshot, milestone, told, last, finals>>
  BY DEF Ask
<1>2. new \in Request
  BY DEF TypeOK, Request, Snapshot
<1>3. answers' \in 0 .. MaxAnswers
  BY <1>1 DEF TypeOK
<1>4. TypeOK'
  BY <1>1, <1>2, <1>3 DEF TypeOK
<1>5. new.known = milestone /\ new.late = (told # None) /\ new.holds = None
  OBVIOUS
<1>6. request'[r] = new /\ \A q \in Requests \ {r} : request'[q] = request[q]
  BY <1>1 DEF TypeOK
<1> HIDE DEF new
<1>7. \A q \in Requests : request'[q] # None =>
        /\ request'[q].known # None => request'[q].known = milestone
        /\ request'[q].late => request'[q].known # None /\ told # None
        /\ HoldsGiven(request'[q].holds)
  BY <1>5, <1>6 DEF TellsIt, HoldsGiven
<1>8. TellsIt'
  BY <1>1, <1>7 DEF TellsIt, HoldsGiven, Given
<1> QED BY <1>4, <1>8

\* A request answers: it records what it saw, unless somebody did, and tells what is recorded.
LEMMA AnswerTells ==
    ASSUME TypeOK, TellsIt, NEW r \in Requests, Answer(r) PROVE TypeOK' /\ TellsIt'
<1> DEFINE q == request[r]
           match == IF q.holds = None THEN None ELSE q.holds.match
           seen == match # None /\ match.state = "full_time" /\ q.known = None
           final == IF seen THEN milestone' ELSE q.known
<1>1. /\ request[r] # None
      /\ IF seen THEN Record([at |-> q.at, score |-> match.score]) ELSE UNCHANGED milestone
      /\ told' = IF told = None THEN final ELSE told
      /\ last' = [final |-> final, late |-> q.late]
      /\ request' = [request EXCEPT ![r] = None]
      /\ UNCHANGED <<now, feed, snapshot, answers, finals>>
  BY DEF Answer, At
<1>2. q \in Request
  BY <1>1 DEF TypeOK
<1>3. seen => match \in Match /\ match.score \in finals
  BY <1>1, <1>2 DEF TellsIt, HoldsGiven, Given, Request, Snapshot
<1>4. /\ q.known # None => q.known = milestone
      /\ q.late => q.known # None /\ told # None
      /\ q.at \in Time /\ q.known \in Final /\ q.late \in BOOLEAN
  BY <1>1, <1>2 DEF TellsIt, Request
<1> HIDE DEF q, match
<1>5. milestone # None => milestone' = milestone
  BY <1>1 DEF Record
<1>6. milestone' \in Final
  <2>1. CASE ~seen
    BY <1>1, <2>1 DEF TypeOK
  <2>2. CASE seen
    <3>1. match.score \in {0, 1}
      BY <1>3, <2>2 DEF Match
    <3>2. [at |-> q.at, score |-> match.score] \in Final
      BY <1>4, <3>1 DEF Final
    <3> QED BY <1>1, <2>2, <3>2 DEF Record, TypeOK
  <2> QED BY <2>1, <2>2
<1>7. milestone' # None => milestone'.score \in finals
  <2>1. CASE milestone # None
    BY <1>5, <2>1 DEF TellsIt
  <2>2. CASE milestone = None /\ seen
    BY <1>1, <1>3, <2>2 DEF Record
  <2>3. CASE milestone = None /\ ~seen
    BY <1>1, <2>3
  <2> QED BY <2>1, <2>2, <2>3
<1>8. final \in Final /\ (final # None => final = milestone')
  BY <1>4, <1>5, <1>6
<1> HIDE DEF final
<1>9. told' # None => milestone' = told'
  BY <1>1, <1>5, <1>8 DEF TellsIt
<1>10. last'.final = final /\ last'.late = q.late
  BY <1>1
<1>11. q.late => final # None
  BY <1>4 DEF final
<1>12. final # None => final = told'
  BY <1>1, <1>5, <1>8 DEF TellsIt
<1>13. request'[r] = None /\ \A p \in Requests \ {r} : request'[p] = request[p]
  BY <1>1 DEF TypeOK
<1>14. \A p \in Requests : request'[p] # None =>
        /\ request'[p].known # None => request'[p].known = milestone'
        /\ request'[p].late => request'[p].known # None /\ told' # None
        /\ HoldsGiven(request'[p].holds)
  <2> SUFFICES ASSUME NEW p \in Requests, request'[p] # None
               PROVE /\ request'[p].known # None => request'[p].known = milestone'
                     /\ request'[p].late => request'[p].known # None /\ told' # None
                     /\ HoldsGiven(request'[p].holds)
    OBVIOUS
  <2>1. request'[p] = request[p] /\ request[p] # None
    BY <1>13
  <2>2. told # None => told' # None
    BY <1>1
  <2> QED BY <1>5, <2>1, <2>2 DEF TellsIt
<1>15. TypeOK'
  <2>1. told' \in Final
    BY <1>1, <1>8 DEF TypeOK
  <2>2. last' \in [final : Final, late : BOOLEAN]
    BY <1>1, <1>4, <1>8
  <2>3. request' \in [Requests -> Request \union {None}]
    BY <1>1 DEF TypeOK
  <2> QED BY <1>1, <1>6, <2>1, <2>2, <2>3 DEF TypeOK
<1>16. TellsIt'
  BY <1>1, <1>7, <1>9, <1>10, <1>11, <1>12, <1>14 DEF TellsIt, HoldsGiven, Given
<1> QED BY <1>15, <1>16

\* Every step keeps TellsIt: only answering records or tells.
LEMMA StepTells ==
    ASSUME MaxTime \in Nat, Ttl \in Nat, MaxAnswers \in Nat, TypeOK, TellsIt, [Next]_vars
    PROVE TypeOK' /\ TellsIt'
<1>1. CASE Tick
  <2>1. now' \in Time
    BY <1>1 DEF Tick, TypeOK, Time
  <2>2. UNCHANGED <<feed, snapshot, milestone, request, answers, told, last, finals>>
    BY <1>1 DEF Tick
  <2> QED BY <2>1, <2>2 DEF TypeOK, TellsIt, HoldsGiven, Given
<1>2. CASE Play
  BY <1>2, PlayTells
<1>3. ASSUME NEW r \in Requests, Ask(r) PROVE TypeOK' /\ TellsIt'
  BY <1>3, AskTells
<1>4. ASSUME NEW r \in Requests, Answer(r) PROVE TypeOK' /\ TellsIt'
  BY <1>4, AnswerTells
<1>5. ASSUME NEW r \in Requests, Look(r) \/ Fetch(r) \/ FetchFails(r) \/ Put(r)
      PROVE TypeOK' /\ TellsIt'
  <2>1. request[r] # None /\ request[r] \in Request
    BY <1>5 DEF Look, Fetch, FetchFails, Put, At, TypeOK
  <2>2. request[r].at \in Nat /\ request[r].holds \in Snapshot /\ HoldsGiven(request[r].holds)
    BY <2>1 DEF Request, Time, TellsIt
  <2>3. snapshot \in Snapshot /\ HoldsGiven(snapshot)
    BY DEF TypeOK, TellsIt
  <2>4. CASE Look(r)
    <3>1. PICK s \in {snapshot, None} :
            Goes(r, IF s # None /\ s.expires > request[r].at THEN "answer" ELSE "fetch", s)
      BY <2>4 DEF Look
    <3>2. s \in Snapshot /\ HoldsGiven(s)
      BY <2>3 DEF Snapshot, HoldsGiven
    <3>3. UNCHANGED <<now, feed, snapshot, milestone, answers, told, last, finals>>
      BY <2>4 DEF Look
    <3> DEFINE step == IF s # None /\ s.expires > request[r].at THEN "answer" ELSE "fetch"
    <3>4. step \in {"look", "fetch", "put", "answer"} /\ Goes(r, step, s)
      BY <3>1
    <3> HIDE DEF step
    <3> QED BY <2>1, <3>2, <3>3, <3>4, GoesTells
  <2>5. CASE Fetch(r)
    <3> DEFINE s == [match |-> feed, expires |-> request[r].at + Lifetime(feed)]
    <3>1. Goes(r, "put", s)
          /\ UNCHANGED <<now, feed, snapshot, milestone, answers, told, last, finals>>
      BY <2>5 DEF Fetch
    <3>2. Lifetime(feed) \in Nat
      BY DEF Lifetime
    <3>3. s \in Snapshot /\ s.match = feed
      BY <2>2, <3>2 DEF Snapshot, TypeOK
    <3>4. HoldsGiven(s)
      BY <3>3 DEF HoldsGiven, TellsIt
    <3> HIDE DEF s
    <3> QED BY <2>1, <3>1, <3>3, <3>4, GoesTells
  <2>6. CASE FetchFails(r)
    <3>1. UNCHANGED <<now, feed, snapshot, milestone, answers, told, last, finals>>
      BY <2>6 DEF FetchFails
    <3>2. CASE request[r].holds # None /\ request[r].holds.match # None
      <4>1. Goes(r, "answer", request[r].holds)
        BY <2>6, <3>2 DEF FetchFails
      <4> QED BY <2>1, <2>2, <3>1, <4>1, GoesTells
    <3>3. CASE ~(request[r].holds # None /\ request[r].holds.match # None)
      <4> DEFINE s == [match |-> None, expires |-> request[r].at + Ttl]
      <4>1. Goes(r, "put", s)
        BY <2>6, <3>3 DEF FetchFails
      <4>2. s \in Snapshot /\ s.match = None
        BY <2>2 DEF Snapshot
      <4>3. HoldsGiven(s)
        BY <4>2 DEF HoldsGiven, Given
      <4> HIDE DEF s
      <4> QED BY <2>1, <3>1, <4>1, <4>2, <4>3, GoesTells
    <3> QED BY <3>2, <3>3
  <2>7. CASE Put(r)
    <3>1. /\ snapshot' = snapshot \/ snapshot' = request[r].holds
          /\ Goes(r, "answer", request[r].holds)
          /\ UNCHANGED <<now, feed, milestone, answers, told, last, finals>>
      BY <2>7 DEF Put
    <3> QED BY <2>1, <2>2, <3>1, GoesTells
  <2> QED BY <1>5, <2>4, <2>5, <2>6, <2>7
<1>6. CASE UNCHANGED vars
  BY <1>6 DEF vars, TypeOK, TellsIt, HoldsGiven, Given
<1> QED BY <1>1, <1>2, <1>3, <1>4, <1>5, <1>6 DEF Next

\* TellsIt is more than FullTimeIsOne, where None is not a full time.
LEMMA TellsMeansOne ==
    ASSUME TypeOK, TellsIt PROVE FullTimeIsOne
<1>1. told # None => milestone = told /\ told.score \in finals
  BY DEF TellsIt
<1>2. told # None => Result = [state |-> "full_time", score |-> told.score]
  BY <1>1 DEF Result
<1> QED BY <1>1, <1>2 DEF TellsIt, FullTimeIsOne

\* Once somebody is told of full time, everyone who asks after that is told of it, with the same
\* time and score, and the pool is scored by it: for any requests, times and lifetimes.
THEOREM FullTimeStays ==
    ASSUME MaxTime \in Nat, Ttl \in Nat, MaxAnswers \in Nat
    PROVE Spec => []FullTimeIsOne
<1>1. Init => TypeOK /\ TellsIt
  BY Initially
<1>2. (TypeOK /\ TellsIt) /\ [Next]_vars => (TypeOK /\ TellsIt)'
  BY StepTells
<1>3. TypeOK /\ TellsIt => FullTimeIsOne
  BY TellsMeansOne
<1> QED BY <1>1, <1>2, <1>3, PTL DEF Spec
=============================================================================
