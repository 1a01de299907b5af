--------------------------------- MODULE Season ---------------------------------
(***************************************************************************)
(* A competition's season (core/competition): the round current when the    *)
(* page was loaded, each round's status by it, the round the address        *)
(* selects, and the kickoff ruler of the home page, the member's picks laid *)
(* along the kickoffs of the selected round.                                *)
(*                                                                         *)
(* The schedule is part of the build.  The pages look at the time by the    *)
(* clock of the live scores, which runs behind.  Names and dates are left   *)
(* out.                                                                     *)
(***************************************************************************)
EXTENDS Naturals, FiniteSetsExt

CONSTANTS
    RegularRounds,
    LastRound,   \* the playoffs are the rounds after RegularRounds
    PerRound,    \* bound: fixtures of a round
    MatchLength,
    Latest,      \* bound: the last kickoff
    MaxPicks,    \* bound: picks
    None

VARIABLES
    kickoff,     \* of each fixture, or None while it is not published
    now,
    clock,       \* the time the page has seen
    current,     \* the current round, as of loading the page
    selected,
    picks        \* each fixture's pick of the member: None, "picked" or "missed"

vars == <<kickoff, now, clock, current, selected, picks>>

Rounds == 1 .. LastRound
Fixtures == Rounds \X (1 .. PerRound)
Of(round) == {f \in Fixtures : f[1] = round}
Times == 0 .. Latest + MatchLength + 1

TypeOK ==
    /\ kickoff \in [Fixtures -> (1 .. Latest) \union {None}]
    /\ now \in Times /\ clock \in 0 .. now
    /\ current \in Rounds /\ selected \in Rounds
    /\ picks \in [Fixtures -> {None, "picked", "missed"}]

\* currentRoundId: of the earliest match in progress or still to come, else the last regular
\* one; of matches at one time, the first of the schedule.
Known == {f \in Fixtures : kickoff[f] # None}
Unfinished(t) == {f \in Known : kickoff[f] + MatchLength >= t}
CurrentRoundId(t) ==
    LET first == {f \in Unfinished(t) : \A g \in Unfinished(t) : kickoff[f] <= kickoff[g]} IN
    IF first = {} THEN RegularRounds ELSE Min({f[1] : f \in first})

\* buildRounds: the statuses follow the current round.
Status(round) ==
    CASE round = current -> "Current" [] round < current -> "Completed" [] OTHER -> "Upcoming"

Locked(f, t) == IF kickoff[f] = None THEN FALSE ELSE kickoff[f] <= t

\* kickoffRuler: the fixtures by kickoff, those without one last.
Dot(f) ==
    CASE picks[f] = "picked" -> "picked"
      [] picks[f] = "missed" -> "missed"
      [] picks[f] = None -> IF Locked(f, clock) THEN "missed" ELSE "open"
Slots == {kickoff[f] : f \in Of(selected)} \ {None}
Count(state) == Cardinality({f \in Of(selected) : Dot(f) = state})
Passed == {k \in Slots : k <= clock}
Finished == Passed = Slots /\ \A f \in Of(selected) : kickoff[f] # None
Ruler ==
    IF Of(selected) = {} \/ (Finished /\ Count("picked") = 0) THEN None
    ELSE [made |-> Count("picked"), open |-> Count("open"), missed |-> Count("missed"),
          pin |-> IF Finished THEN None ELSE Cardinality(Passed)]

\* The schedule of a season: rounds follow one another.
InOrder == \A f, g \in Known : f[1] < g[1] => kickoff[f] <= kickoff[g]

\* A fixture number says nothing of its time: a round's are numbered by kickoff, None last.
Numbered(k) ==
    \A f, g \in Fixtures : f[1] = g[1] /\ f[2] < g[2] =>
       IF k[f] = None THEN k[g] = None ELSE IF k[g] = None THEN TRUE ELSE k[f] <= k[g]

Init ==
    /\ kickoff \in {k \in [Fixtures -> (1 .. Latest) \union {None}] : Numbered(k)}
    /\ now \in {0, Latest} /\ clock = now
    /\ current = CurrentRoundId(now) /\ selected = current
    /\ picks = [f \in Fixtures |-> None]

-----------------------------------------------------------------------------
Tick ==
    /\ now + 1 \in Times /\ now' = now + 1
    /\ UNCHANGED <<kickoff, clock, current, selected, picks>>

\* The poll of the live scores.
Poll ==
    /\ clock' = now
    /\ UNCHANGED <<kickoff, now, current, selected, picks>>

\* The page is loaded again.
Load ==
    /\ clock' = now /\ current' = CurrentRoundId(now)
    /\ selected' \in {selected, current'}
    /\ UNCHANGED <<kickoff, now, picks>>

Select ==
    /\ selected' \in Rounds
    /\ UNCHANGED <<kickoff, now, clock, current, picks>>

\* The member picks before kickoff; what Superbru recorded is entered after it.
Pick ==
    /\ Cardinality({f \in Fixtures : picks[f] # None}) < MaxPicks
    /\ \E f \in Of(selected), p \in {"picked", "missed"} :
       /\ p = "picked" \/ Locked(f, now)
       /\ picks' = [picks EXCEPT ![f] = p]
    /\ UNCHANGED <<kickoff, now, clock, current, selected>>

Next == Tick \/ Poll \/ Load \/ Select \/ Pick

Spec == Init /\ [][Next]_vars

-----------------------------------------------------------------------------
\* On a page just loaded, no round marked completed has a match to come and none marked upcoming
\* a match played, in a season whose rounds follow one another and until its last match is over;
\* the ruler counts every fixture once, what it calls open can still be picked as far as the page
\* knows, and it is gone, or has lost its pin, only when nothing is left to pick.
SeasonIsAsShown ==
    /\ clock = now /\ current = CurrentRoundId(now) /\ InOrder /\ Unfinished(now) # {} =>
          \A f \in Known :
             /\ Status(f[1]) = "Completed" => f \notin Unfinished(now)
             /\ Status(f[1]) = "Upcoming" => now <= kickoff[f] + MatchLength
    /\ Ruler # None =>
          /\ Ruler.made + Ruler.open + Ruler.missed = Cardinality(Of(selected))
          /\ Ruler.pin = None => Ruler.open = 0
          /\ Ruler.pin # None =>
                Ruler.open <= Cardinality({f \in Of(selected) : kickoff[f] \notin Passed})
    /\ Ruler = None => \A f \in Of(selected) : Dot(f) = "missed"
=============================================================================
