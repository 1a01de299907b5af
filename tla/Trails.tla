------------------------------- MODULE Trails -------------------------------
(***************************************************************************)
(* The pages that led to the one shown (core/layout/shell/breadcrumbs.ts),   *)
(* over the browser's history: links, the navigation bar, the round picker, *)
(* the league switcher (league-switcher.ts), Back, Forward and a reload.    *)
(*                                                                         *)
(* An address is a league, a path and the round in its query.  A path is a  *)
(* route of app.routes.ts and, for a match, its fixture.  The router gives  *)
(* every navigation a number, keeps it and the link's state with the       *)
(* history entry, hands it back when the entry is returned to (which is     *)
(* then numbered anew) and starts again at one after a reload.  Labels, the *)
(* onboarding and the account's pages are left out; of the main pages Duties *)
(* and Decisions are as More is, and the captain's desk is as the rules are.  *)
(***************************************************************************)
EXTENDS Integers, Sequences, FiniteSets

CONSTANTS
    None,
    League,
    Competition,   \* each league's
    Fixtures,      \* each competition's
    MaxNavigations, \* bound: navigations since the page was loaded
    MaxReloads,     \* bound
    MaxHistory      \* bound: entries

VARIABLES
    history,   \* entries: the address, its navigation, the trail shown and the link's state:
               \* whether a bar led there (reset), the address to return to
    position,
    id,        \* the latest navigation
    entries,   \* by navigation since the page was loaded: its path and trail, and (history) its league
    last,      \* the latest page of the shell: its league, path and trail
    trail,
    reloads,
    foreign    \* (history) since the page was loaded, the trail of another league was restored

vars == <<history, position, id, entries, last, trail, reloads, foreign>>

Home == <<"home", None>>
More == <<"more", None>>
Parent == [match |-> Home, standings |-> More, constitution |-> More]
Bar == {Home, More, <<"standings", None>>}
Profile == <<"profile", None>>

Paths(league) ==
    Bar \union {<<"constitution", None>>, Profile} \union
    {<<"match", f>> : f \in Fixtures[Competition[league]]}

Address(league, path, round) == [league |-> league, path |-> path, round |-> round]
Here == history[position].at
Navigations == 1 .. MaxNavigations

TypeOK ==
    /\ position \in DOMAIN history /\ id \in Navigations /\ reloads \in 0 .. MaxReloads
    /\ foreign \in BOOLEAN
    /\ \A i \in DOMAIN history :
          /\ history[i].at.league \in League /\ history[i].reset \in BOOLEAN
          /\ history[i].returnUrl = None \/ history[i].returnUrl.league \in League
    /\ DOMAIN entries = Navigations
    /\ last = None \/ last.league \in League
    /\ trail \in Seq(UNION {Paths(l) : l \in League})

-----------------------------------------------------------------------------
First(path, s) == {i \in DOMAIN s : s[i] = path /\ \A j \in 1 .. i - 1 : s[j] # path}

TrailTo(at, reset, before) ==
    LET earlier == IF before = None THEN {} ELSE First(at.path, before.trail) IN
    CASE at.path[1] \notin DOMAIN Parent \/ reset -> <<>>
      [] at.path[1] \in DOMAIN Parent /\ ~reset ->
            IF before = None THEN <<Parent[at.path[1]]>>
            ELSE CASE before.league # at.league -> <<Parent[at.path[1]]>>
                   [] before.league = at.league /\ before.path[1] = at.path[1] -> before.trail
                   [] OTHER ->
                        IF earlier = {} THEN Append(before.trail, before.path)
                        ELSE SubSeq(before.trail, 1, (CHOOSE i \in earlier : TRUE) - 1)

\* breadcrumbs.ts, arrive: `restored` is the navigation of the entry returned to.  Numbers start
\* again after a reload, so what is known by that number counts for the same path only.
Kept(at, restored, known) ==
    restored # None /\ known[restored] # None /\ known[restored].path = at.path

\* What is known after the arrival; pages outside the shell leave it as it was.
Arrive(at, reset, restored, known, before) ==
    LET entry == known[restored]
        to == IF Kept(at, restored, known) THEN entry.trail ELSE TrailTo(at, reset, before) IN
    IF at.path = Profile
    THEN entries' = known /\ last' = before /\ trail' = (IF before = None THEN <<>> ELSE trail)
    ELSE /\ entries' = [known EXCEPT ![id'] = [league |-> at.league, path |-> at.path, trail |-> to]]
         /\ last' = [league |-> at.league, path |-> at.path, trail |-> to]
         /\ trail' = to

Nothing == [n \in Navigations |-> None]

Init ==
    /\ \E at \in {Address(CHOOSE l \in League : TRUE, p, None) : p \in {Home, <<"standings", None>>}} :
          /\ trail = TrailTo(at, FALSE, None)
          /\ history = <<[at |-> at, id |-> 1, reset |-> FALSE, returnUrl |-> None, shown |-> trail]>>
          /\ last = [league |-> at.league, path |-> at.path, trail |-> trail]
          /\ entries = [Nothing EXCEPT ![1] = [league |-> at.league, path |-> at.path, trail |-> trail]]
    /\ position = 1 /\ id = 1 /\ reloads = 0 /\ foreign = FALSE

\* The router takes no step to the address it is at.  The way forward is lost, or, if the entry
\* is replaced, kept.
Navigate(at, reset, returnUrl, replace) ==
    LET before == SubSeq(history, 1, IF replace THEN position - 1 ELSE position)
        after == IF replace THEN SubSeq(history, position + 1, Len(history)) ELSE <<>>
        entry == [at |-> at, id |-> id', reset |-> reset, returnUrl |-> returnUrl,
                  shown |-> IF at.path = Profile THEN None ELSE trail'] IN
    /\ at # Here /\ Len(before) < MaxHistory /\ id < MaxNavigations /\ id' = id + 1
    /\ Arrive(at, reset, None, entries, last)
    /\ position' = Len(before) + 1
    /\ history' = Append(before, entry) \o after
    /\ UNCHANGED <<reloads, foreign>>

\* A link of a page or of the breadcrumb keeps the round; a feed item's or a notice's names one.
Follow ==
    /\ Here.path # Profile
    /\ \E path \in Paths(Here.league) \ {Profile}, round \in {Here.round, Competition[Here.league]} :
          Navigate(Address(Here.league, path, round), FALSE, None, FALSE)

NavigationBar ==
    /\ Here.path # Profile
    /\ \E path \in Bar : Navigate(Address(Here.league, path, Here.round), TRUE, None, FALSE)

\* The header's link keeps no round, and carries the address.
OpenProfile ==
    /\ Here.path # Profile
    /\ Navigate(Address(Here.league, Profile, None), FALSE, Here, FALSE)

\* profile.page.ts, leave; the crest leads home.
LeaveProfile ==
    /\ Here.path = Profile
    /\ \E to \in {history[position].returnUrl, Address(Here.league, Home, None)} :
          Navigate(to, FALSE, None, FALSE)

SelectRound ==
    /\ Here.path # Profile
    /\ Navigate(Address(Here.league, Here.path, Competition[Here.league]), FALSE, None, TRUE)

\* league-switcher.ts, targets.
Target(league) ==
    LET same == Competition[league] = Competition[Here.league] IN
    Address(league,
            IF ~same /\ Here.path[1] = "match" THEN Home ELSE Here.path,
            IF same THEN Here.round ELSE None)

Switch ==
    /\ Here.path # Profile
    /\ \E league \in League \ {Here.league} : Navigate(Target(league), FALSE, None, FALSE)

\* Returning to an entry at the same address moves there without a navigation, and leaves the
\* trail that is shown.
Traverse(to) ==
    LET entry == history[to] IN
    /\ position' = to
    /\ IF entry.at = Here
       THEN /\ history' = [history EXCEPT ![to].shown = None]
            /\ UNCHANGED <<id, entries, last, trail, foreign>>
       ELSE /\ id < MaxNavigations /\ id' = id + 1
            /\ Arrive(entry.at, entry.reset, entry.id, entries, last)
            /\ foreign' = \/ foreign
                          \/ /\ Kept(entry.at, entry.id, entries)
                             /\ entries[entry.id].league # entry.at.league
            /\ history' = [history EXCEPT ![to] =
                  [entry EXCEPT !.id = id',
                      !.shown = IF entry.at.path = Profile THEN None
                                ELSE IF entry.shown = None THEN trail' ELSE entry.shown]]
    /\ UNCHANGED reloads

Back == position > 1 /\ Traverse(position - 1)
Forward == position < Len(history) /\ Traverse(position + 1)

\* The page is loaded again at the address shown: everything but the history is lost.
Reload ==
    /\ reloads < MaxReloads /\ reloads' = reloads + 1 /\ id' = 1 /\ foreign' = FALSE
    /\ Arrive(Here, history[position].reset, None, Nothing, None)
    /\ history' = [i \in DOMAIN history |->
          IF i = position
          THEN [history[i] EXCEPT !.id = 1,
                   !.shown = IF Here.path = Profile THEN None ELSE trail']
          ELSE [history[i] EXCEPT !.shown = None]]
    /\ UNCHANGED position

Next ==
    \/ Follow \/ NavigationBar \/ OpenProfile \/ LeaveProfile \/ SelectRound \/ Switch
    \/ Back \/ Forward \/ Reload

Spec == Init /\ [][Next]_vars

-----------------------------------------------------------------------------
\* A page returned to through the browser's history shows the trail it had, when it was visited
\* since the last reload: of entries made before it the trails are lost, whatever the comment at
\* breadcrumbs.ts:29-30 says.  A trail leads through the page's own league, unless one of another
\* league was restored by a number that a reload gave out again (breadcrumbs.ts:65-67).  It leads
\* never twice in a row through the same kind of page and, the matches aside, never twice through
\* the same page, nor through the page shown; and the match and the round an address names are of
\* its league's competition, wherever the switcher led.
TrailLeadsHere ==
    LET entry == history[position]
        way == Append(trail, Here.path) IN
    /\ Here.path[1] = "match" => Here.path[2] \in Fixtures[Competition[Here.league]]
    /\ Here.round \in {None, Competition[Here.league]}
    /\ Here.path # Profile =>
          /\ entry.shown \in {None, trail}
          /\ \A i \in DOMAIN trail : way[i][1] # way[i + 1][1]
          /\ \A i, j \in DOMAIN way : way[i] = way[j] /\ way[i][1] # "match" => i = j
          /\ ~foreign => \A i \in DOMAIN trail :
                trail[i][1] = "match" => trail[i][2] \in Fixtures[Competition[Here.league]]
=============================================================================
