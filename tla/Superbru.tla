-------------------------------- MODULE Superbru --------------------------------
(***************************************************************************)
(* Superbru scoring in the browser: the pure functions of                  *)
(* core/league/superbru.ts under StandingService                           *)
(* (core/league/standings/standing.service.ts).                            *)
(*                                                                         *)
(* Round and season tables are derived from the picks and the results as   *)
(* they change: scores move while a match is played, fixtures are          *)
(* postponed, the captain records a round's total over the derived one.    *)
(* Nothing is stored, so a table is an operator of the state.              *)
(*                                                                         *)
(* Points are whole units of 1/300: the shares of up to three winners and  *)
(* the hundredths of a recorded total are exact (the code rounds to a      *)
(* millionth).  Margins are signed from the home side.  All rounds are     *)
(* regular.  Left out: names and their order, live scores apart from       *)
(* stored results, photos and colours.                                     *)
(***************************************************************************)
EXTENDS Integers, FiniteSets, FiniteSetsExt, SequencesExt

CONSTANTS
    Member,
    Fixture,
    RoundOf,        \* fixture -> its round
    Pickable,       \* fixture -> the margins picked in it
    Played,         \* fixture -> the margins it may be played to
    Total,          \* totals the captain may record
    Starting,       \* startingRound
    WinPoints, MarginPoint, MarginWindow,
    BonusPoint, Split, Capped, BonusValue, MinimumShare, BonusRange,
    GrandSlam

VARIABLES
    picks,      \* fixture -> member -> pick
    results,    \* fixture -> result
    recorded    \* round -> member -> the recorded total, or NoTotal

vars == <<picks, results, recorded>>

Round == {RoundOf[f] : f \in Fixture}
NoTotal == -1
Pick == [kind : {"none", "missed", "default", "pick"}, margin : Int]
Result == [state : {"scheduled", "live", "full_time", "void"}, margin : Int]

TypeOK ==
    /\ picks \in [Fixture -> [Member -> Pick]]
    /\ results \in [Fixture -> Result]
    /\ recorded \in [Round -> [Member -> Total \union {NoTotal}]]

\* Any picks the members made before the kickoffs.
PicksOf(f) ==
    {[kind |-> k, margin |-> 0] : k \in {"none", "missed"}}
        \union {[kind |-> "pick", margin |-> x] : x \in Pickable[f]}
        \union {[kind |-> "default", margin |-> x] : x \in {y \in Pickable[f] : y > 0}}

Init ==
    /\ picks \in [Fixture -> UNION {[Member -> PicksOf(f)] : f \in Fixture}]
    /\ \A f \in Fixture : picks[f] \in [Member -> PicksOf(f)]
    /\ results = [f \in Fixture |-> [state |-> "scheduled", margin |-> 0]]
    /\ recorded = [r \in Round |-> [m \in Member |-> NoTotal]]

-----------------------------------------------------------------------------
\* Scoring one fixture (scoreFixture).

Sign(x) == IF x > 0 THEN 1 ELSE IF x < 0 THEN -1 ELSE 0
Distance(f, m) ==
    IF picks[f][m].margin > results[f].margin THEN picks[f][m].margin - results[f].margin
    ELSE results[f].margin - picks[f][m].margin

IsScored(f) == results[f].state \in {"live", "full_time"}
IsVoided(f) == results[f].state = "void"
IsSettled(f) == results[f].state \in {"full_time", "void"}

Has(f, m) == picks[f][m].kind # "none"
Correct(f, m) ==
    /\ picks[f][m].kind \in {"pick", "default"}
    /\ Sign(picks[f][m].margin) = Sign(results[f].margin)

Wp(f, m) == IF Correct(f, m) THEN WinPoints ELSE 0
Mp(f, m) == IF picks[f][m].kind = "pick" /\ Distance(f, m) <= MarginWindow THEN MarginPoint ELSE 0

\* A pick that may win the bonus point.
Bonus(f, m) ==
    /\ BonusPoint /\ picks[f][m].kind = "pick" /\ Correct(f, m)
    /\ Capped => Distance(f, m) <= BonusRange

\* Mistake: the picks furthest from the margin win.
Winners_Furthest(f) ==
    {m \in Member : Bonus(f, m) /\ \A n \in Member : Bonus(f, n) => Distance(f, n) <= Distance(f, m)}

\* The closest of them.
Winners(f) ==
    {m \in Member : Bonus(f, m) /\ \A n \in Member : Bonus(f, n) => Distance(f, m) <= Distance(f, n)}

\* What each winner gets: the bonus point, split among them but not below the
\* minimum share.
Share(f) ==
    IF ~Split THEN BonusValue
    ELSE LET part == BonusValue \div Cardinality(Winners(f))
             floor == IF part > MinimumShare THEN part ELSE MinimumShare
         IN IF floor > BonusValue THEN BonusValue ELSE floor
Bp(f, m) == IF m \in Winners(f) THEN Share(f) ELSE 0

Points(f, m) == IF IsScored(f) THEN Wp(f, m) + Mp(f, m) + Bp(f, m) ELSE 0

-----------------------------------------------------------------------------
\* Tables (roundTable, rankRows, roundBadges, seasonTable).

FixturesOf(r) == {f \in Fixture : RoundOf[f] = r}
RoundSettled(r) == \A f \in FixturesOf(r) : IsSettled(f)
Counted(r) == {f \in FixturesOf(r) : ~IsVoided(f)}
PickedAll(r, m) == \A f \in Counted(r) : Has(f, m)

GrandSlammed(r, m) ==
    /\ RoundSettled(r) /\ Counted(r) # {}
    /\ \A f \in Counted(r) : Correct(f, m) /\ picks[f][m].kind = "pick"

Sum(S, op(_)) == MapThenSumSet(op, S)
Derived(r, m) ==
    Sum(FixturesOf(r), LAMBDA f : Points(f, m)) + (IF GrandSlammed(r, m) THEN GrandSlam ELSE 0)

Recorded(r, m) == recorded[r][m] # NoTotal
Listed(r) == {m \in Member : Recorded(r, m) \/ \E f \in FixturesOf(r) : Has(f, m)}
RowOf(r, m) ==
    [member |-> m, points |-> IF Recorded(r, m) THEN recorded[r][m] ELSE Derived(r, m),
     wp |-> Sum(FixturesOf(r), LAMBDA f : IF IsScored(f) THEN Wp(f, m) ELSE 0),
     mp |-> Sum(FixturesOf(r), LAMBDA f : IF IsScored(f) THEN Mp(f, m) ELSE 0),
     distance |-> Sum(FixturesOf(r), LAMBDA f :
        IF IsScored(f) /\ picks[f][m].kind = "pick" THEN Distance(f, m) ELSE 0)]

\* A round has a table from its first score or recorded total.
Tabled(r) ==
    /\ r >= Starting
    /\ (\E f \in FixturesOf(r) : IsScored(f)) \/ \E m \in Member : Recorded(r, m)
Rows(r) == IF Tabled(r) THEN {RowOf(r, m) : m \in Listed(r)} ELSE {}
Complete(r) ==
    RoundSettled(r) /\ \A row \in Rows(r) : PickedAll(r, row.member) \/ Recorded(r, row.member)

\* sameTotal: equal to the hundredth; compareRank: Superbru's tie order.
SameTotal(x, y) == x - y \in -1 .. 1
Better(a, b) ==
    IF ~SameTotal(a.points, b.points) THEN a.points > b.points
    ELSE IF ~SameTotal(a.wp, b.wp) THEN a.wp > b.wp
    ELSE IF ~SameTotal(a.mp, b.mp) THEN a.mp > b.mp
    ELSE a.distance < b.distance

\* Whoever is not level with the one before takes the number of the row.
NextRank(i, rank) == i

\* rankRows: the rows in order, each with its rank.
Ranked(rows) ==
    LET ordered[S \in SUBSET rows] ==
            IF S = {} THEN <<>>
            ELSE LET first == CHOOSE a \in S : \A b \in S : ~Better(b, a)
                 IN <<first>> \o ordered[S \ {first}]
        seq == ordered[rows]
        rank[i \in DOMAIN seq] ==
            IF i = 1 THEN 1
            ELSE IF Better(seq[i - 1], seq[i]) THEN NextRank(i, rank[i - 1]) ELSE rank[i - 1]
    IN [i \in DOMAIN seq |-> [row |-> seq[i], rank |-> rank[i]]]

\* roundBadges: nobody holds either before the round is complete.
Holders(rows, p) == {row.member : row \in {x \in rows : SameTotal(x.points, p)}}
Badged(r) == Rows(r) # {} /\ Complete(r)
Badges(r) ==
    LET rows == Rows(r)  totals == {row.points : row \in rows} IN
    IF ~Badged(r) THEN [cap |-> {}, spoon |-> {}]
    ELSE [cap |-> Holders(rows, Max(totals)),
          spoon |-> IF SameTotal(Max(totals), Min(totals)) THEN {} ELSE Holders(rows, Min(totals))]

\* seasonTable: a line for everyone with a line in a round.
SeasonRows ==
    LET lines == UNION {{[round |-> r, row |-> row] : row \in Rows(r)} : r \in Round}
        of(m, field(_)) == Sum({x \in lines : x.row.member = m}, LAMBDA x : field(x.row))
    IN {[member |-> m, points |-> of(m, LAMBDA x : x.points), wp |-> of(m, LAMBDA x : x.wp),
         mp |-> of(m, LAMBDA x : x.mp), distance |-> of(m, LAMBDA x : x.distance)] :
            m \in {x.row.member : x \in lines}}

-----------------------------------------------------------------------------
\* A match's picks as its page lists them (orderPicks, sway).

Margined(f) == {m \in Member : picks[f][m].kind \in {"pick", "default"}}

\* orderPicks: m may stand before n: from the biggest home margin to the biggest away margin,
\* missed picks last; equal margins in any order, for names are left out.
Before(f, m, n) == n \in Margined(f) => m \in Margined(f) /\ picks[f][m].margin >= picks[f][n].margin

\* sway: the sides' shares in whole percentages, the largest remainders rounded up.
Sides == <<1, 0, -1>>
Sway(f) ==
    LET on(side) == Cardinality({m \in Margined(f) : Sign(picks[f][m].margin) = side})
        count == <<on(1), on(0), on(-1)>>
        total == Cardinality(Margined(f))
        remainder(i) == (100 * count[i]) % total
        ahead(i) == {j \in 1 .. 3 : remainder(j) > remainder(i) \/ (remainder(j) = remainder(i) /\ j < i)}
        left == 100 - Sum(1 .. 3, LAMBDA i : (100 * count[i]) \div total)
        share(i) == IF total = 0 THEN 0
            ELSE (100 * count[i]) \div total + (IF Cardinality(ahead(i)) < left THEN 1 ELSE 0)
    IN <<share(1), share(2), share(3)>>

-----------------------------------------------------------------------------
\* A score, from the feed or the stored full time: a match in play has any
\* score so far, one that has ended keeps it.
ScoreIs(f, state, x) ==
    /\ results[f].state \in {"scheduled", "live"}
    /\ results' = [results EXCEPT ![f] = [state |-> state, margin |-> x]]
    /\ UNCHANGED <<picks, recorded>>

\* Postponed or cancelled: never scored.
CalledOff(f) ==
    /\ results[f].state \in {"scheduled", "live"}
    /\ results' = [results EXCEPT ![f] = [state |-> "void", margin |-> 0]]
    /\ UNCHANGED <<picks, recorded>>

\* The captain records a total, or clears the recorded one.
RecordTotal(r, m, x) ==
    /\ x # recorded[r][m]
    /\ \A q \in Round, n \in Member : recorded[q][n] # NoTotal => <<q, n>> = <<r, m>>  \* bound: one
    /\ recorded' = [recorded EXCEPT ![r][m] = x]
    /\ UNCHANGED <<picks, results>>

Next ==
    \/ \E f \in Fixture : CalledOff(f) \/ \E x \in Played[f] :
        ScoreIs(f, "live", x) \/ ScoreIs(f, "full_time", x)
    \/ \E r \in Round, m \in Member, x \in Total \union {NoTotal} : RecordTotal(r, m, x)

Spec == Init /\ [][Next]_vars

-----------------------------------------------------------------------------
\* Of two members who both called the result, or both did not, the one who was
\* nearer to the margin never scores less in that fixture (superbru.ts:146,
\* scoreFixture).
CloserIsNeverWorse ==
    \A f \in {g \in Fixture : IsScored(g)} : \A m, n \in Member :
        (/\ picks[f][m].kind = "pick" /\ picks[f][n].kind = "pick"
         /\ Correct(f, m) <=> Correct(f, n)
         /\ Distance(f, m) <= Distance(f, n)) => Points(f, m) >= Points(f, n)

\* A rank is one more than the number of members who did better, also with
\* recorded totals and in the season's table (superbru.ts:281, rankRows).
RanksCountTheBetter ==
    \A rows \in {Rows(r) : r \in Round} \union {SeasonRows} :
        LET ranked == Ranked(rows) IN \A i \in DOMAIN ranked :
            ranked[i].rank = 1 + Cardinality({x \in rows : Better(x, ranked[i].row)})

\* Whoever is first in a round that gives badges holds the cap, nobody holds both, and whoever
\* holds the spoon is behind everybody who does not: the totals that count as equal are the same
\* for ranks and badges (superbru.ts:391, roundBadges).
BadgesFollowRanks ==
    \A r \in {q \in Round : Badged(q)} :
        LET rows == Rows(r)  badges == Badges(r)  cap == badges.cap  spoon == badges.spoon IN
        /\ cap \intersect spoon = {}
        /\ \A a \in rows : (\A b \in rows : ~Better(b, a)) => a.member \in cap
        /\ \A a, b \in rows : a.member \notin spoon /\ b.member \in spoon => Better(a, b)

\* In the list of a match's picks the winners of the bonus point stand together, but for default
\* picks among them; and the shares of the sides make 100, none for a side nobody picked and never
\* less for a side more picked (superbru.ts:210 and 232, orderPicks and sway, against scoreFixture).
ListsAreFair ==
    \A f \in Fixture :
        /\ IsScored(f) => LET winners == Winners(f) IN \A m, n \in winners, between \in Member \ winners :
              (Has(f, between) /\ Before(f, m, between) /\ Before(f, between, n)) =>
                  picks[f][between].kind = "default"
        /\ LET sway == Sway(f)
               of(i) == {m \in Margined(f) : Sign(picks[f][m].margin) = Sides[i]}
           IN /\ Margined(f) # {} => sway[1] + sway[2] + sway[3] = 100
              /\ \A i, j \in 1 .. 3 : Cardinality(of(i)) > Cardinality(of(j)) => sway[i] >= sway[j]
              /\ \A i \in 1 .. 3 : of(i) = {} => sway[i] = 0
=============================================================================
