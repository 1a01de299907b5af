------------------------------- MODULE LiveScores -------------------------------
(***************************************************************************)
(* The live scores of the selected round (core/api/live-scores.service.ts): *)
(* what is asked of the API and when, and the scores kept through a failed  *)
(* refresh.                                                                 *)
(*                                                                         *)
(* A round is before its first kickoff, in play or past its last match's    *)
(* window; the service sees the time only when it polls.  A request that    *)
(* is no longer wanted is cancelled, so its answer never arrives.           *)
(***************************************************************************)
EXTENDS Naturals

CONSTANTS
    Rounds,
    None,
    MaxSelects   \* bound: changes of round

VARIABLES
    selected,
    time,        \* of each round: "before", "in_play" or "past"
    now,         \* the time as the service saw it last
    final,       \* the rounds whose matches have all ended, as the API knows
    visible,     \* the page
    resource,    \* [of, status, value]: of a round or None; value is None or whether it was final
    scores,      \* None or [round, final]: what the pages show
    answered,    \* (history) the selected round has been answered since it was selected
    tick,        \* pages refresh their own data, by parity
    selects

vars == <<selected, time, now, final, visible, resource, scores, answered, tick, selects>>

Phases == {"before", "in_play", "past"}

TypeOK ==
    /\ selected \in Rounds
    /\ time \in [Rounds -> Phases] /\ now \in [Rounds -> Phases]
    /\ final \subseteq Rounds /\ visible \in BOOLEAN
    /\ resource \in [of : Rounds \union {None}, status : {"idle", "loading", "reloading", "resolved", "error"},
                     value : BOOLEAN \union {None}]
    /\ scores \in [round : Rounds, final : BOOLEAN] \union {None}
    /\ answered \in BOOLEAN /\ tick \in {0, 1} /\ selects \in 0 .. MaxSelects

\* Rounds that have not started make no request.
Wanted(round, seen) == IF seen[round] # "before" THEN round ELSE None

\* A resource drops its value, and its request, when what it asks for changes.
Follow(round, seen) ==
    LET of == Wanted(round, seen) IN
    IF of = resource.of THEN resource
    ELSE [of |-> of, status |-> IF of = None THEN "idle" ELSE "loading", value |-> None]

\* scores: the latest of the selected round, kept through a failed refresh.
Keep(r, round) ==
    IF r.value # None THEN [round |-> r.of, final |-> r.value]
    ELSE IF scores # None /\ scores.round = round THEN scores ELSE None

\* polling: a match is in its window and has not ended, as far as the scores say.
Polling(round, seen, known) == seen[round] = "in_play" /\ ~(known # None /\ known.final)

Init ==
    /\ selected \in Rounds
    /\ time \in [Rounds -> Phases] /\ now = time
    /\ final = {} /\ visible = TRUE
    /\ resource = [of |-> Wanted(selected, now),
                   status |-> IF Wanted(selected, now) = None THEN "idle" ELSE "loading", value |-> None]
    /\ scores = None /\ answered = FALSE /\ tick = 0 /\ selects = 0

-----------------------------------------------------------------------------
\* Time passes and matches end, whether or not anybody looks.
Pass ==
    /\ \/ \E r \in Rounds : \/ time[r] = "before" /\ time' = [time EXCEPT ![r] = "in_play"]
                            \/ time[r] = "in_play" /\ time' = [time EXCEPT ![r] = "past"]
       \/ UNCHANGED time
    /\ \/ final' = final
       \/ \E r \in Rounds : time[r] # "before" /\ final' = final \union {r}
    /\ UNCHANGED <<selected, now, visible, resource, scores, answered, tick, selects>>

Select ==
    /\ selects < MaxSelects /\ selects' = selects + 1
    /\ selected' \in Rounds \ {selected}
    /\ resource' = Follow(selected', now) /\ scores' = Keep(resource', selected')
    /\ answered' = FALSE
    /\ UNCHANGED <<time, now, final, visible, tick>>

\* poll, by the timer, or when the page is visible again.
Poll(seen) ==
    LET r == Follow(selected, time) IN
    /\ visible' = seen /\ now' = time
    /\ scores' = Keep(r, selected)
    /\ IF Polling(selected, time, scores') /\ seen
       THEN /\ tick' = 1 - tick
            /\ resource' = IF r.status \in {"resolved", "error"} THEN [r EXCEPT !.status = "reloading"] ELSE r
       ELSE UNCHANGED tick /\ resource' = r
    /\ UNCHANGED <<selected, time, final, answered, selects>>

Interval == Poll(visible)
VisibilityChange ==
    IF visible THEN visible' = FALSE /\ UNCHANGED <<selected, time, now, final, resource, scores, answered, tick, selects>>
    ELSE Poll(TRUE)

\* The API answers, or the request fails.
Answer ==
    /\ resource.status \in {"loading", "reloading"}
    /\ \/ /\ resource' = [resource EXCEPT !.status = "resolved", !.value = (resource.of \in final)]
          /\ answered' = TRUE
       \/ /\ resource' = [resource EXCEPT !.status = "error", !.value = None]
          /\ UNCHANGED answered
    /\ scores' = Keep(resource', selected)
    /\ UNCHANGED <<selected, time, now, final, visible, tick, selects>>

Next == Pass \/ Select \/ Interval \/ VisibilityChange \/ Answer

Spec == Init /\ [][Next]_vars

-----------------------------------------------------------------------------
\* The scores shown are of the selected round, only ever of one that has begun, and once there
\* are some a failed refresh does not take them away; a round shows as ended only once the API
\* said so.
ScoresFollowRound ==
    /\ scores # None =>
          /\ scores.round = selected /\ time[selected] # "before"
          /\ scores.final => selected \in final
    /\ answered => scores # None
=============================================================================
