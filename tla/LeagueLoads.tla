------------------------------ MODULE LeagueLoads ------------------------------
(***************************************************************************)
(* Choosing a league in the browser: LeagueContext                         *)
(* (core/league/league-context.ts) and the records of HttpLeagueData       *)
(* (core/league/data/http-league-data.ts).                                 *)
(*                                                                         *)
(* The route guard calls select with the league in the address; the        *)
(* records of the league before it are cleared and the chosen league's     *)
(* `me` and records are fetched.  Nothing cancels a request, so answers    *)
(* of the league left behind arrive while the next one loads: fetch and    *)
(* refresh compare the league before they keep an answer, the answers of   *)
(* single writes do not.                                                   *)
(*                                                                         *)
(* Left out: the router, the photo (one per account), timers (module       *)
(* KickoffReads) and the contents of records: a record is the league it    *)
(* belongs to.                                                             *)
(***************************************************************************)
EXTENDS Integers, FiniteSets

CONSTANTS
    League,
    None,       \* no league
    MaxFetches, \* bound: league loads
    MaxWrites   \* bound: single writes and refreshes

VARIABLES
    allowed,        \* the leagues the API lets the account into
    chosen,         \* league of HttpLeagueData
    membership,
    pending,        \* the fetch that later calls share, or 0
    fetches,        \* number -> the league loads so far
    records,        \* what is shown -> the league it belongs to
    calls,          \* the single requests in flight
    writes,         \* their number so far
    refused,        \* refused of LeagueContext
    lastUsed

vars == <<allowed, chosen, membership, pending, fetches, records, calls,
          writes, refused, lastUsed>>

\* members, duties, cases and marks come with a refresh; me, rules, feed, read
\* marks, standings and picks are also replaced by what a write returns.
Kept == {"members", "refreshed", "adopted"}
Cleared == [k \in Kept |-> None]

Fetch == [league : League, at : {"me", "records", "done"}, guard : BOOLEAN]

TypeOK ==
    /\ allowed \in SUBSET League /\ refused \in SUBSET League
    /\ chosen \in League \union {None} /\ lastUsed \in League \union {None}
    /\ membership \in {"unknown", "loading", "member", "not_member", "error"}
    /\ fetches \in UNION {[1 .. n -> Fetch] : n \in 0 .. MaxFetches}
    /\ pending \in {0} \union DOMAIN fetches
    /\ records \in [Kept -> League \union {None}]
    /\ calls \in SUBSET [league : League, kind : {"refresh", "change", "adopt"}]
    /\ writes \in 0 .. MaxWrites

Init ==
    /\ allowed = League /\ refused = {}
    /\ chosen = None /\ membership = "unknown" /\ pending = 0 /\ fetches = <<>>
    /\ records = Cleared /\ calls = {} /\ writes = 0 /\ lastUsed = None

InFlight(l) == {f \in DOMAIN fetches : fetches[f].league = l /\ fetches[f].at # "done"}

-----------------------------------------------------------------------------
\* ensureLoaded, once `chosen` is l: a settled membership answers at once, a
\* load in flight is shared, otherwise a new one starts.
EnsureLoaded(l, state, shared, guard) ==
    \/ /\ state \in {"member", "not_member"}
       /\ membership' = state /\ pending' = shared
       /\ UNCHANGED fetches
    \/ /\ state \notin {"member", "not_member"} /\ shared # 0
       /\ membership' = state /\ pending' = shared
       /\ fetches' = [fetches EXCEPT ![shared].guard = @ \/ guard]
    \/ /\ state \notin {"member", "not_member"} /\ shared = 0
       /\ Cardinality(DOMAIN fetches) < MaxFetches
       /\ membership' = "loading" /\ pending' = Cardinality(DOMAIN fetches) + 1
       /\ fetches' = [f \in DOMAIN fetches \union {pending'} |->
              IF f \in DOMAIN fetches THEN fetches[f]
              ELSE [league |-> l, at |-> "me", guard |-> guard]]

\* clear, then load: the load in flight is shared only by calls for its league.
SharedAfter(l) == IF chosen = l THEN pending ELSE 0

\* select, up to its await: the league is shown and its load started or joined.
Select(l) ==
    /\ l \notin refused
    /\ chosen' = l
    /\ EnsureLoaded(l, IF chosen = l THEN membership ELSE "unknown", SharedAfter(l), TRUE)
    /\ records' = IF chosen = l THEN records ELSE Cleared
    /\ IF chosen = l /\ membership = "not_member" THEN refused' = refused \union {l}
       ELSE UNCHANGED refused
    /\ lastUsed' = IF chosen = l /\ membership = "member" THEN l ELSE lastUsed
    /\ UNCHANGED <<allowed, calls, writes>>

\* reload, while the membership did not load: the retry in the shell.
Retry ==
    /\ chosen # None /\ membership = "error"
    /\ EnsureLoaded(chosen, membership, pending, FALSE)
    /\ UNCHANGED <<allowed, chosen, records, calls, writes, refused, lastUsed>>

\* Fetch f resolves to `state`; its finally forgets it and select goes on:
\* a refused league is remembered, a loaded one becomes the last used.
Resolve(f, state, refusedNow) ==
    LET l == fetches[f].league IN
    /\ fetches' = [fetches EXCEPT ![f].at = "done"]
    /\ pending' = IF pending = f THEN 0 ELSE pending
    /\ refused' = refused \union refusedNow
           \union (IF fetches[f].guard /\ state = "not_member" THEN {l} ELSE {})
    /\ lastUsed' = IF fetches[f].guard /\ state = "member" THEN l ELSE lastUsed

\* The load fails: the API refused the league, or the request was lost.
Fails(f) ==
    LET l == fetches[f].league
        no == l \notin allowed
        state == IF no THEN "not_member" ELSE "error" IN
    /\ membership' = IF chosen = l THEN state ELSE membership
    /\ Resolve(f, state, IF no THEN {l} ELSE {})

\* `me` answers.  A load whose league was left resolves to the membership of
\* the league chosen since.
MeAnswers(f) ==
    LET l == fetches[f].league IN
    /\ fetches[f].at = "me"
    /\ \/ /\ l \in allowed /\ chosen # l
          /\ Resolve(f, membership, {})
          /\ UNCHANGED <<membership, records>>
       \/ /\ l \in allowed /\ chosen = l
          /\ fetches' = [fetches EXCEPT ![f].at = "records"]
          /\ records' = [records EXCEPT !["adopted"] = l]
          /\ UNCHANGED <<membership, pending, refused, lastUsed>>
       \/ Fails(f) /\ UNCHANGED records
    /\ UNCHANGED <<allowed, chosen, calls, writes>>

\* Mistake: refresh keeps an answer whatever league is chosen.
Refreshed_Late(l) == [records EXCEPT !["members"] = l, !["refreshed"] = l, !["adopted"] = l]

\* loadMembers and the rest of refresh, for the records of l.
Refreshed(l) ==
    IF chosen # l THEN records
    ELSE [records EXCEPT !["members"] = l, !["refreshed"] = l, !["adopted"] = l]

\* The records of a load answer: all of them, or at least one request failed
\* (the team sheet may have come by then).
RecordsAnswer(f) ==
    LET l == fetches[f].league IN
    /\ fetches[f].at = "records"
    /\ \/ /\ l \in allowed
          /\ records' = Refreshed(l)
          /\ membership' = IF chosen = l THEN "member" ELSE membership
          /\ Resolve(f, "member", {})
       \/ /\ Fails(f)
          /\ \/ UNCHANGED records
             \/ l \in allowed /\ chosen = l /\ records' = [records EXCEPT !["members"] = l]
    /\ UNCHANGED <<allowed, chosen, calls, writes>>

-----------------------------------------------------------------------------
\* Writes and refreshes of the chosen league.

\* A refresh (reload, a timer, the tab shown again), a change that is followed
\* by a refresh, or a write whose answer is adopted as it is.
StartCall(kind) ==
    /\ chosen # None /\ membership = "member" /\ writes < MaxWrites
    /\ writes' = writes + 1
    /\ calls' = calls \union {[league |-> chosen, kind |-> kind]}
    /\ UNCHANGED <<allowed, chosen, membership, pending, fetches, records,
                   refused, lastUsed>>

\* submitEvidence, createDuty and the other writes whose records are read again.
Change == StartCall("change")
\* savePick, recordPicks, saveRules, the standings: the answer replaces its records.
Adopt == StartCall("adopt")
Refresh == StartCall("refresh")

\* An answer: a change starts a refresh of the league chosen by then.  A
\* refusal is heard by LeagueContext whatever league is chosen.
CallAnswers(c) ==
    /\ c \in calls
    /\ \/ /\ c.league \in allowed
          /\ calls' = (calls \ {c}) \union
                (IF c.kind = "change" /\ chosen # None
                 THEN {[league |-> chosen, kind |-> "refresh"]} ELSE {})
          /\ records' = IF c.kind = "refresh" THEN Refreshed(c.league)
                        ELSE IF c.kind = "adopt" THEN [records EXCEPT !["adopted"] = c.league]
                        ELSE records
          /\ UNCHANGED refused
       \/ /\ c.league \notin allowed
          /\ calls' = calls \ {c}
          /\ refused' = refused \union {c.league}
          /\ UNCHANGED records
       \/ /\ calls' = calls \ {c}
          /\ UNCHANGED <<records, refused>>
    /\ UNCHANGED <<allowed, chosen, membership, pending, fetches, writes, lastUsed>>

\* The account is withdrawn from a league, or the league archived.
ApiCloses(l) ==
    /\ l \in allowed
    /\ allowed' = allowed \ {l}
    /\ UNCHANGED <<chosen, membership, pending, fetches, records, calls, writes,
                   refused, lastUsed>>

Next ==
    \/ \E l \in League : Select(l) \/ ApiCloses(l)
    \/ Retry
    \/ \E f \in DOMAIN fetches : MeAnswers(f) \/ RecordsAnswer(f)
    \/ Change \/ Adopt \/ Refresh
    \/ \E c \in calls : CallAnswers(c)

Spec == Init /\ [][Next]_vars

-----------------------------------------------------------------------------
\* What a refresh shows belongs to the chosen league, whatever answers are
\* still on their way (http-league-data.ts:704, refresh).
RefreshedOfChosen == {records["members"], records["refreshed"]} \subseteq {chosen, None}

\* A chosen league that shows as loading is being loaded, so its page does not
\* wait for ever (http-league-data.ts:185, ensureLoaded and clear).
LoadingIsFetched ==
    (chosen # None /\ membership \in {"unknown", "loading"}) => InFlight(chosen) # {}

\* All records shown belong to the chosen league: "choosing another clears
\* these records and loads that league's" (http-league-data.ts:71).
RecordsOfChosen == \A k \in Kept : records[k] \in {chosen, None}
-----------------------------------------------------------------------------
(* The inductive invariant behind them.                                      *)

\* The loads are numbered, and the one that later calls share is under way and for the chosen
\* league.
LoadTypes ==
    /\ chosen \in League \union {None} /\ membership \in {"unknown", "loading", "member", "not_member", "error"}
    /\ records \in [Kept -> League \union {None}]
    /\ IsFiniteSet(DOMAIN fetches) /\ DOMAIN fetches = 1 .. Cardinality(DOMAIN fetches)
    /\ fetches \in [DOMAIN fetches -> Fetch]
    /\ calls \subseteq [league : League, kind : {"refresh", "change", "adopt"}]

SharedIsChosen == pending # 0 => pending \in InFlight(chosen)

LoadInv ==
    /\ LoadTypes /\ SharedIsChosen /\ RefreshedOfChosen /\ LoadingIsFetched
===============================================================================
