---------------------------- MODULE MCComponents ----------------------------
(***************************************************************************)
(* The components that share no state with each other, on small instances, *)
(* in one run: those of ProvedParts, with its `part` and variables, and    *)
(* the others.                                                             *)
(***************************************************************************)
EXTENDS ProvedParts, TLC

CONSTANTS s1, s2, t1, t2, t3, u1, u2

\* The two kinds of interchangeable names.
Interchangeable == Permutations({s1, s2}) \cup Permutations({t1, t2, t3})

-----------------------------------------------------------------------------
\* What the instances take for their sets and functions (named, TLC computes them once).
Two == {1, 2}
Three == {1, 2, 3}
Nothing == {}
Device1 == {u1}

-----------------------------------------------------------------------------
\* Two rounds of one fixture; the points are hundredths.
PoolRounds == <<1, 2>>
PoolPicks == <<{-1, 2, 5}, {3}>>
PoolScores == <<{3}, {1}>>
PoolTotals == {399}
Pool == INSTANCE Superbru WITH
    Member <- Actors, Fixture <- Two, RoundOf <- PoolRounds,
    Pickable <- PoolPicks, Played <- PoolScores, Total <- PoolTotals, Starting <- 1,
    WinPoints <- 300, MarginPoint <- 150, MarginWindow <- 2, BonusPoint <- TRUE, Split <- TRUE,
    Capped <- TRUE, BonusValue <- 300, MinimumShare <- 75, BonusRange <- 4, GrandSlam <- 600,
    picks <- v1, results <- v2, recorded <- v3

\* Two leagues, one page opened on the way and one change of the API's state.
Route == INSTANCE Navigation WITH
    League <- Two, MaxVisits <- 1, MaxChanges <- 1,
    api <- v1, session <- v2, account <- v3, refused <- v4, current <- v5, membership <- v6,
    me <- v7, url <- v8, nav <- v9, back <- v10, hops <- v11, visits <- v12, changes <- v13

\* The stack of notices among modals ...
Stack == INSTANCE Alerts WITH
    MaxVisible <- 1, MaxShows <- 2, MaxModals <- 1,
    cards <- v1, holds <- v2, raised <- v3, modals <- v4, stack <- v5, watched <- v6,
    pending <- v7, shows <- v8, opened <- v9

\* ... and the notices, their keys and clocks.
Notices == INSTANCE Alerts WITH
    MaxVisible <- 2, MaxShows <- 3, MaxModals <- 0,
    cards <- v1, holds <- v2, raised <- v3, modals <- v4, stack <- v5, watched <- v6,
    pending <- v7, shows <- v8, opened <- v9

\* A section that folds away.
Fold == INSTANCE Dropdown WITH
    MaxTaps <- 3, MaxResets <- 2,
    animates <- v1, open <- v2, named <- v3, animating <- v4, animation <- v5,
    unsettled <- v6, pinned <- v7, stuck <- v8, measuring <- v9, closing <- v10,
    watch <- v11, taps <- v12, resets <- v13

\* Push on this device: subscribing, unsubscribing and signing out.
Device == INSTANCE PushDevice WITH
    Leagues <- Device1, Members <- Device1, Kinds <- Nothing, None <- None, MaxSubs <- 2, MaxTaps <- 0,
    browser <- v1, api <- v2, subscribed <- v3, preferences <- v4, league <- v5,
    turning <- v6, puts <- v7, calls <- v8, seen <- v9, crossed <- v10, chosen <- v11,
    taps <- v12, astray <- v13

\* The kinds of message each league sends.
ChoiceKinds == {"picks"}
Choices == INSTANCE PushDevice WITH
    Leagues <- Games, Members <- Device1, Kinds <- ChoiceKinds, None <- None, MaxSubs <- 1, MaxTaps <- 2,
    browser <- v1, api <- v2, subscribed <- v3, preferences <- v4, league <- v5,
    turning <- v6, puts <- v7, calls <- v8, seen <- v9, crossed <- v10, chosen <- v11,
    taps <- v12, astray <- v13

\* The scores of a match on the drawn pitch.
PitchSides == {"home"}
PitchMinutes == {40, 42}
Pitch == INSTANCE Scoring WITH
    Sides <- PitchSides, Minutes <- PitchMinutes, None <- None, MaxEvents <- 3,
    state <- v1, minute <- v2, events <- v3

\* The match page under its address.
Page == INSTANCE MatchPage WITH
    LastRound <- 2, None <- None, MaxMoves <- 2,
    url <- v1, pending <- v2, hops <- v3, featuredId <- v4, lastFixtureId <- v5, team <- v6,
    centre <- v7, data <- v8, moves <- v9

\* The live scores of the selected round.
Scores == INSTANCE LiveScores WITH
    Rounds <- Two, None <- None, MaxSelects <- 2,
    selected <- v1, time <- v2, now <- v3, final <- v4, visible <- v5, resource <- v6,
    scores <- v7, answered <- v8, tick <- v9, selects <- v10

\* Times entered on the league's clock.
ClockOffsets == {-10, 0, 2}
ClockShifts == {-2, 0, 2}
Clocks == INSTANCE LeagueTime WITH
    Offsets <- ClockOffsets, Shifts <- ClockShifts, Span <- 12,
    zone <- v1, input <- v2, instant <- v3, saved <- v4

\* A season of one regular round and one playoff round.
OneSeason == INSTANCE Season WITH
    RegularRounds <- 1, LastRound <- 2, PerRound <- 2, MatchLength <- 1, Latest <- 2, MaxPicks <- 2, None <- None,
    kickoff <- v1, now <- v2, clock <- v3, current <- v4, selected <- v5, picks <- v6

\* Two matches of the current round and one of the next, which is the member's team's.
FlagRounds == <<1, 1, 2>>
FlagKickoffs == <<1, 2, 3>>
FlagTeams == {3}
Flag == INSTANCE NoticePanel WITH
    Fixture <- Three, Round <- FlagRounds, Kickoff <- FlagKickoffs, Current <- 1, Favourite <- FlagTeams, MatchLength <- 1, Recent <- 1, MaxTime <- 3, MaxReads <- 1, MaxAsks <- 1,
    now <- v1, featured <- v2, observed <- v3, loads <- v4, byRound <- v5, stale <- v6,
    read <- v7, stored <- v8, loading <- v9, reads <- v10, asks <- v11, settled <- v12

\* Two duties of a round or of the season, seen by the captain, and an open poll.
WaitingRounds == {0, 1}
Waiting == INSTANCE WaitingWork WITH
    None <- None, Duty <- Two, Rounds <- Two, DutyRounds <- WaitingRounds, MaxEvidence <- 2,
    duty <- v1, rules <- v2, administers <- v3, poll <- v4, selected <- v5

\* The trail of pages: two leagues on one competition, a third on another.
TrailCompetitions == <<1, 1, 2>>
TrailFixtures == <<{1, 2}, {3}>>
Trail == INSTANCE Trails WITH
    League <- Three, Competition <- TrailCompetitions, Fixtures <- TrailFixtures,
    MaxNavigations <- 4, MaxReloads <- 1, MaxHistory <- 3,
    history <- v1, position <- v2, id <- v3, entries <- v4, last <- v5, trail <- v6,
    reloads <- v7, foreign <- v8

\* What stands around the pages, over two leagues.
Around == INSTANCE Frame WITH
    League <- Two,
    up <- v1, load <- v2, identity <- v3, card <- v4, page <- v5, flag <- v6, switcher <- v7,
    opened <- v8

\* What the agent may be sent: nothing, a block left open after another, and a block with lines
\* after it.
Line(tag) == [tag |-> tag, n |-> None, link |-> None]
Source(n, link) == [tag |-> "entry", n |-> n, link |-> link]
ChatContexts ==
    {<<>>,
     <<Line("open"), Source("2", "b"), Line("shut"), Source("1", "a"),
       Line("open"), Source("1", "c"), Source("1", "d")>>,
     <<Line("open"), Source("2", "b"), Source("1", "a"), Source("1", None), Line("shut"),
       Source("2", "c")>>}

\* The sample leagues, and one the management centre can make: two changes ...
SamplesAdded == {4}
Samples == INSTANCE SampleLeagues WITH
    Added <- SamplesAdded, KickoffTimes <- Two, MaxTime <- 1, MaxDelay <- 2, MaxChanges <- 2,
    admin <- v1, leagues <- v2, showing <- v3, now <- v4, timer <- v5, changes <- v6

\* ... and a timer that reaches its kickoff by shorter delays.
Delays == INSTANCE SampleLeagues WITH
    Added <- SamplesAdded, KickoffTimes <- Two, MaxTime <- 2, MaxDelay <- 1, MaxChanges <- 1,
    admin <- v1, leagues <- v2, showing <- v3, now <- v4, timer <- v5, changes <- v6

-----------------------------------------------------------------------------
Init ==
    \/ /\ ProvedInit
       \* Bound: one set of saved values on a card of the desk.
       /\ part = "desk" => \A f \in DOMAIN v2 : v2[f] = 1
       \* Bound: a duty is created where the register stands still and the reverse.
       /\ part = "duties" =>
            /\ v8 = {}
            /\ IF v1 = "create" THEN v9 = [f \in {u1, u2} |-> IF f = u1 THEN {s1} ELSE {s1, s2}]
                                    /\ v3 = [d \in Dialogs!Duties |-> "waiting"]
               ELSE v9 = [f \in {u1, u2} |-> {}]
       \* Bound: an active league that everybody has joined but the admin, scoring from round one.
       /\ part = "manage" =>
            /\ v2.status = "active" /\ v2.claimed = {s1, s2} /\ v2.start = 1
            /\ v2.mine <=> v1 = "rename"
       /\ part = "profile" /\ v1 = "api" =>
            v4 = 2 /\ v2.photo = 1 /\ v3.legacy \in {None, [team |-> 2, photo |-> 2]}
       /\ part = "members" => v1[2].claimed
    \* Bound: nobody is without a pick of their own in the second round, and in the first at
    \* most one member has none and one the default.
    \/ /\ part = "pool" /\ Pool!Init /\ Free4
       /\ \A w \in Actors : v1[2][w].kind = "pick"
       /\ \A kinds \in {{"none", "missed"}, {"default"}} :
             Cardinality({w \in Actors : v1[1][w].kind \in kinds}) <= 1
    \* Bound: three ways in; the admin is no member, and who chose a team did in each league.
    \/ /\ part = "route" /\ Route!Init
       /\ v9.to \in {Route!PageOf("page", 1), Route!PageOf("captain", 0), Route!PageOf("join", 0)}
       /\ v1.admin => v1.members = {}
       /\ v1.profiles # {} => v1.profiles = v1.members
    \/ part = "stack" /\ Stack!Init /\ Free10
    \/ part = "notices" /\ Notices!Init /\ Free10
    \/ part = "fold" /\ Fold!Init
    \/ part = "device" /\ Device!Init
    \/ part = "choices" /\ Choices!Init
    \/ part = "pitch" /\ Pitch!Init /\ Free4
    \/ part = "matchpage" /\ Page!Init /\ Free10
    \/ part = "scores" /\ Scores!Init /\ Free11
    \/ part = "clocks" /\ Clocks!Init /\ Free5
    \/ part = "season" /\ OneSeason!Init /\ Free7
    \/ part = "flag" /\ Flag!Init /\ Free13
    \/ part = "waiting" /\ Waiting!Init /\ Free6
       /\ v2 /\ v3 /\ v4.status = "Open"
    \/ part = "trail" /\ Trail!Init /\ Free9
    \/ part = "frame" /\ Around!Init /\ Free9
    \/ part = "samples" /\ Samples!Init /\ Free7
    \/ part = "delays" /\ Delays!Init /\ Free7

Next ==
    \/ ProvedNext
    \/ /\ UNCHANGED part
       /\ \/ part = "pool" /\ Pool!Next /\ UNCHANGED <<v4, v5, v6, v7, v8, v9, v10, v11, v12, v13>>
          \/ part = "route" /\ Route!Next
          \/ part = "stack" /\ Stack!Next /\ UNCHANGED <<v10, v11, v12, v13>>
          \/ part = "notices" /\ Notices!Next /\ UNCHANGED <<v10, v11, v12, v13>>
          \/ part = "fold" /\ Fold!Next
          \/ part = "device" /\ Device!Next
          \* Bound: once calls crossed, which stays, nothing more is said of the kinds; what the API
          \* keeps of a device whose card says off is looked at in "device".
          \/ part = "choices" /\ ~v10 /\ "stored" \notin v13 /\ Choices!Next
          \/ part = "pitch" /\ Pitch!Next /\ UNCHANGED <<v4, v5, v6, v7, v8, v9, v10, v11, v12, v13>>
          \/ part = "matchpage" /\ Page!Next /\ UNCHANGED <<v10, v11, v12, v13>>
          \/ part = "scores" /\ Scores!Next /\ UNCHANGED <<v11, v12, v13>>
          \/ part = "clocks" /\ Clocks!Next /\ UNCHANGED <<v5, v6, v7, v8, v9, v10, v11, v12, v13>>
          \/ part = "season" /\ OneSeason!Next /\ UNCHANGED <<v7, v8, v9, v10, v11, v12, v13>>
          \/ part = "flag" /\ Flag!Next /\ UNCHANGED v13
          \/ part = "waiting" /\ Waiting!Next /\ UNCHANGED <<v6, v7, v8, v9, v10, v11, v12, v13>>
          \/ part = "trail" /\ Trail!Next /\ UNCHANGED <<v9, v10, v11, v12, v13>>
          \/ part = "frame" /\ Around!Next /\ UNCHANGED <<v9, v10, v11, v12, v13>>
          \/ part = "samples" /\ Samples!Next /\ UNCHANGED <<v7, v8, v9, v10, v11, v12, v13>>
          \/ part = "delays" /\ Delays!Next /\ UNCHANGED <<v7, v8, v9, v10, v11, v12, v13>>

Spec == Init /\ [][Next]_vars

-----------------------------------------------------------------------------
\* Every variable of every component keeps to the values its operations are written for.
TypesOK ==
    /\ part = "sample" => Sample!TypeOK
    /\ part = "seeds" => Seeds!TypeOK
    /\ part = "loads" => Loads!TypeOK
    /\ part = "kickoffs" => Kickoffs!TypeOK
    /\ part = "panel" => Panel!TypeOK
    /\ part = "marks" => Marks!TypeOK
    /\ part = "pool" => Pool!TypeOK
    /\ part = "push" => Push!TypeOK
    /\ part = "sessions" => Sessions!TypeOK
    /\ part = "form" => Form!TypeOK
    /\ part = "grid" => Grid!TypeOK
    /\ part = "league" => NewLeague!TypeOK
    /\ part = "cards" => Cards!TypeOK
    /\ part = "route" => Route!TypeOK
    /\ part = "desk" => Desk!TypeOK
    /\ part = "duties" => Dialogs!TypeOK
    /\ part = "manage" => Manage!TypeOK
    /\ part = "profile" => Profile!TypeOK
    /\ part = "members" => Sheet!TypeOK
    /\ part = "stack" => Stack!TypeOK
    /\ part = "notices" => Notices!TypeOK
    /\ part = "fold" => Fold!TypeOK
    /\ part = "device" => Device!TypeOK
    /\ part = "choices" => Choices!TypeOK
    /\ part = "pitch" => Pitch!TypeOK
    /\ part = "matchpage" => Page!TypeOK
    /\ part = "scores" => Scores!TypeOK
    /\ part = "clocks" => Clocks!TypeOK
    /\ part = "season" => OneSeason!TypeOK
    /\ part = "flag" => Flag!TypeOK
    /\ part = "waiting" => Waiting!TypeOK
    /\ part = "trail" => Trail!TypeOK
    /\ part = "frame" => Around!TypeOK
    /\ part = "turn" => Turn!TypeOK
    /\ part = "samples" => Samples!TypeOK
    /\ part = "delays" => Delays!TypeOK
    /\ part = "fulltime" => FullTime!TypeOK
    /\ part = "results" => Results!TypeOK
    /\ part = "dutymarks" => Counted!TypeOK

\* The better margin never wins fewer points, a rank counts who is ahead, and the badges of a
\* round go to its first and its last (Superbru).
PoolIsFair ==
    part = "pool" =>
        /\ Pool!CloserIsNeverWorse /\ Pool!ListsAreFair
        /\ Pool!RanksCountTheBetter /\ Pool!BadgesFollowRanks


\* A navigation ends at a page, and a league's pages show to nobody who has not chosen a
\* team there (Navigation).
NavigationEnds == part = "route" => Route!NavigationEnds /\ Route!ShownWithProfile
=============================================================================
