------------------------------- MODULE MatchPage -------------------------------
(***************************************************************************)
(* The match page (features/match/match.page.ts) over the selected round    *)
(* and the featured fixture: the address names a fixture and a round, which *)
(* members change apart, by the timeline, the ribbon and links; the page    *)
(* brings them together again with navigations of its own, and shows the    *)
(* match centre of the fixture featured.                                    *)
(*                                                                         *)
(* A navigation ends later; one that starts meanwhile takes its place.  The *)
(* page looks at the address when a navigation has ended.                   *)
(***************************************************************************)
EXTENDS Naturals

CONSTANTS
    LastRound,   \* rounds 1 .. LastRound, of two fixtures each
    None,
    MaxMoves     \* bound: navigations of the member

VARIABLES
    url,         \* [fixture, round]: of the match page, or fixture None elsewhere
    pending,     \* the address navigated to, or None
    hops,        \* the page's own navigations since the member's last
    featuredId,  \* the fixture chosen
    lastFixtureId,
    team,        \* the member's team is known: it plays second in each round
    centre,      \* the match centre's resource: [of, status, value]
    data,        \* the match centre shown, by its fixture, or None
    moves

vars == <<url, pending, hops, featuredId, lastFixtureId, team, centre, data, moves>>

Rounds == 1 .. LastRound
Fixtures == Rounds \X {1, 2}
Unknown == <<0, 0>>
Urls == [fixture : Fixtures \union {Unknown, None}, round : Rounds \union {0, None}]
Shown == Fixtures \union {None}

TypeOK ==
    /\ url \in Urls /\ pending \in Urls \union {None}
    /\ hops \in 0 .. 3
    /\ featuredId \in Shown /\ lastFixtureId \in Shown \union {Unknown}
    /\ team \in BOOLEAN
    /\ centre \in [of : Shown, status : {"idle", "loading", "reloading", "resolved", "error"}, value : BOOLEAN]
    /\ data \in Shown
    /\ moves \in 0 .. MaxMoves

\* SelectedRoundService.id: the round of the address, else the current one, here the last.
Selected(u) == IF u.round \in Rounds THEN u.round ELSE LastRound

\* FixtureService.featured: the chosen one, else the member's team, else the opener.
Featured(u, chosen, known) ==
    IF chosen # None /\ chosen[1] = Selected(u) THEN chosen
    ELSE <<Selected(u), IF known THEN 2 ELSE 1>>

OnPage(u) == u.fixture # None
Fixture == Featured(url, featuredId, team)

\* A resource drops its value when what it asks for changes.
Follow(fixture) ==
    IF fixture = centre.of THEN centre
    ELSE [of |-> fixture, status |-> IF fixture = None THEN "idle" ELSE "loading", value |-> FALSE]

\* data: the latest match centre, kept through a refresh of the same fixture.
Keep(resource, fixture) ==
    IF resource.value THEN resource.of
    ELSE IF data = fixture THEN data ELSE None

Sync ==
    LET fixture == IF OnPage(url') THEN Featured(url', featuredId', team') ELSE None IN
    /\ centre' = Follow(fixture)
    /\ data' = IF fixture = None THEN None ELSE Keep(Follow(fixture), fixture)

Init ==
    /\ url \in {u \in Urls : u.fixture = None} /\ pending = None /\ hops = 0
    /\ featuredId = None /\ lastFixtureId = None
    /\ team \in BOOLEAN
    /\ centre = [of |-> None, status |-> "idle", value |-> FALSE] /\ data = None
    /\ moves = 0

-----------------------------------------------------------------------------
Navigate(u) == moves < MaxMoves /\ moves' = moves + 1 /\ pending' = u /\ hops' = 0
Stay == UNCHANGED <<url, featuredId, lastFixtureId, team, centre, data>>

\* A link to a match, with a round or none, to another page, or the way back.
Open ==
    /\ \E u \in Urls : Navigate(u)
    /\ Stay

\* The timeline and the round picker: select.
SelectRound ==
    /\ \E r \in Rounds : Navigate([url EXCEPT !.round = r])
    /\ Stay

\* The ribbon: a fixture of the selected round, opened here and featured elsewhere.
Choose ==
    \E place \in {1, 2} :
        LET fixture == <<Selected(url), place>> IN
        IF OnPage(url) THEN Navigate([url EXCEPT !.fixture = fixture]) /\ Stay
        ELSE /\ featuredId' = fixture
             /\ UNCHANGED <<url, pending, hops, lastFixtureId, team, centre, data, moves>>

\* The profile arrives.
TeamKnown ==
    /\ ~team /\ team' = TRUE
    /\ UNCHANGED <<url, pending, hops, featuredId, lastFixtureId, moves>>
    /\ Sync

\* reconcile, at the end of a navigation to u; `last` is None for a page just created.
Reconcile(u, last) ==
    LET hop(v) == pending' = v /\ hops' = hops + 1 IN
    IF u.fixture = Unknown
    THEN /\ hop([u EXCEPT !.fixture = None])
         /\ UNCHANGED featuredId /\ lastFixtureId' = last
    ELSE /\ lastFixtureId' = u.fixture
         /\ IF u.fixture[1] = Selected(u)
            THEN featuredId' = u.fixture /\ pending' = None /\ UNCHANGED hops
            ELSE /\ UNCHANGED featuredId
                 /\ IF last = u.fixture
                    THEN hop([u EXCEPT !.fixture = Featured(u, featuredId, team)])
                    ELSE hop([u EXCEPT !.round = u.fixture[1]])

NavigationEnd ==
    /\ pending # None /\ url' = pending
    /\ IF OnPage(pending)
       THEN Reconcile(pending, IF OnPage(url) THEN lastFixtureId ELSE None)
       ELSE pending' = None /\ lastFixtureId' = None /\ UNCHANGED <<hops, featuredId>>
    /\ UNCHANGED <<team, moves>>
    /\ Sync

\* A live poll or the member asks again; the answer, or a failure.
Reload ==
    /\ OnPage(url) /\ centre.status \in {"resolved", "error"}
    /\ centre' = [centre EXCEPT !.status = "reloading"]
    /\ data' = Keep(centre', Fixture)
    /\ UNCHANGED <<url, pending, hops, featuredId, lastFixtureId, team, moves>>

Answer ==
    /\ centre.status \in {"loading", "reloading"}
    /\ centre' \in {[centre EXCEPT !.status = "resolved", !.value = TRUE],
                    [centre EXCEPT !.status = "error", !.value = FALSE]}
    /\ data' = Keep(centre', Fixture)
    /\ UNCHANGED <<url, pending, hops, featuredId, lastFixtureId, team, moves>>

Next == Open \/ SelectRound \/ Choose \/ TeamKnown \/ NavigationEnd \/ Reload \/ Answer

Spec == Init /\ [][Next]_vars

-----------------------------------------------------------------------------
\* Once navigations end, the match page shows the fixture its address names, in the round the
\* rest of the application shows, and it gets there in two navigations of its own; whatever it
\* keeps of the match centre is of the fixture it shows.
PageFollowsUrl ==
    /\ pending = None /\ OnPage(url) => url.fixture = Fixture /\ Selected(url) = url.fixture[1]
    /\ hops <= 2
    /\ data # None => data = Fixture
=============================================================================
