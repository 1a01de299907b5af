------------------------------- MODULE Navigation -------------------------------
(***************************************************************************)
(* Where a navigation of the web app ends: the routes and their guards      *)
(* (app.routes.ts, the guards of core/auth, core/league, core/profile and   *)
(* features/captain) with the account and the league LeagueContext holds.   *)
(*                                                                         *)
(* A guard lets the navigation go on or sends it to another address, whose  *)
(* guards run again.  The league's guard asks the API, so the account can   *)
(* be withdrawn from a league, or navigate elsewhere, while it waits.  The  *)
(* records of a league and their late answers are module LeagueLoads.       *)
(*                                                                         *)
(* Left out: query parameters but returnUrl, and builds without sign-in or  *)
(* without the API.                                                         *)
(***************************************************************************)
EXTENDS Naturals, FiniteSets, FiniteSetsExt

CONSTANTS
    League,     \* 1, 2, ... in the order of their names
    MaxVisits,  \* bound: addresses opened on the way, sessions that end
    MaxChanges  \* bound: changes of the API's state

NoLeague == 0
NoAccount == [leagues |-> {}, members |-> {}, last |-> NoLeague, loaded |-> FALSE]
NoMe == [member |-> FALSE, profile |-> FALSE, steward |-> FALSE]

VARIABLES
    api,        \* what the API knows: members, stewards, profiles, open leagues, admin
    session,    \* the browser has a session
    account,    \* accountState of LeagueContext
    refused,    \* refused of LeagueContext
    current,    \* currentState of LeagueContext
    membership, \* membership and me of HttpLeagueData, for `current`
    me,
    url,        \* the page that is shown
    nav,        \* the navigation in progress
    back,       \* returnUrl of the sign-in and the welcome page
    hops,       \* redirects of this navigation
    visits, changes

vars == <<api, session, account, refused, current, membership, me, url, nav, back, hops, visits, changes>>

\* The addresses.  A league's page without a league is an address from before
\* leagues had slugs.
InLeague == {"page", "captain", "welcome", "profile"}
InShell == {"page", "captain"}
Page == [kind : {"home", "sign-in", "no-league", "manage", "join"}, league : {NoLeague}]
        \union [kind : InLeague, league : League \union {NoLeague}]
PageOf(kind, l) == [kind |-> kind, league |-> l]
Home == PageOf("home", NoLeague)
SignInPage == PageOf("sign-in", NoLeague)
NoLeaguePage == PageOf("no-league", NoLeague)

\* Bound: redirects are counted up to LongestWay + 1.
LongestWay == 2 * Cardinality(League) + 3

Idle == [to |-> Home, at |-> "done"]
Going(p) == [to |-> p, at |-> "guard"]

TypeOK ==
    /\ api \in [members : SUBSET League, stewards : SUBSET League, profiles : SUBSET League,
                open : SUBSET League, last : League \union {NoLeague}, admin : BOOLEAN]
    /\ session \in BOOLEAN
    /\ account \in [leagues : SUBSET League, members : SUBSET League,
                    last : League \union {NoLeague}, loaded : BOOLEAN]
    /\ refused \in SUBSET League /\ current \in League \union {NoLeague}
    /\ membership \in {"unknown", "member", "not_member", "error"}
    /\ me \in [member : BOOLEAN, profile : BOOLEAN, steward : BOOLEAN]
    /\ url \in Page /\ nav \in [to : Page, at : {"guard", "league", "profile", "captain", "done"}]
    /\ back \in Page /\ hops \in 0 .. LongestWay + 1 /\ visits \in 0 .. MaxVisits /\ changes \in 0 .. MaxChanges

\* A first visit, with or without the stored session, to any address.
Init ==
    /\ \E members, profiles \in SUBSET League, admin \in BOOLEAN :
          /\ profiles \subseteq members
          /\ api = [members |-> members, stewards |-> {}, profiles |-> profiles,
                    open |-> League, last |-> NoLeague, admin |-> admin]
    /\ session \in BOOLEAN
    /\ account = NoAccount /\ refused = {} /\ current = NoLeague /\ membership = "unknown" /\ me = NoMe
    /\ url = Home /\ back = Home /\ hops = 0 /\ visits = 0 /\ changes = 0
    /\ \E p \in Page : nav = Going(p)

-----------------------------------------------------------------------------
\* The account: GET /v1/me lists the leagues it may open.

Listed(x) == IF x.admin THEN x.open ELSE x.members \intersect x.open
Answer(x) ==
    [leagues |-> Listed(x), members |-> x.members \intersect x.open, last |-> x.last, loaded |-> TRUE]

\* ensureAccount: the account that is held, or the API's answer, or none when
\* the API cannot be reached.
EnsureAccount ==
    IF account.loaded THEN UNCHANGED account
    ELSE account' = Answer(api) \/ UNCHANGED account

\* Mistake: `/` opens a league that was refused.
HomeLeagues_Refused(a, no) == a.leagues

\* home: the last used league, else the first the account is a member of, else
\* the admin's first; never one that was refused.
HomeLeagues(a, no) == a.leagues \ no
HomeOf(a, no) ==
    LET leagues == HomeLeagues(a, no) IN
    IF a.last \in leagues THEN a.last
    ELSE IF leagues \intersect a.members # {} THEN Min(leagues \intersect a.members)
    ELSE IF api.admin /\ leagues # {} THEN Min(leagues) ELSE NoLeague

-----------------------------------------------------------------------------
\* Guards.

Redirect(p) ==
    nav' = Going(p) /\ hops' = (IF hops > LongestWay THEN hops ELSE hops + 1) /\ UNCHANGED url
Arrive == url' = nav.to /\ nav' = Idle /\ hops' = 0
GoOn(at) == nav' = [nav EXCEPT !.at = at] /\ UNCHANGED <<url, hops>>

\* Routes shared with the page that is left keep their guards' answer.
SameLeague == nav.to.league # NoLeague /\ url.league = nav.to.league
SameShell == SameLeague /\ {url.kind, nav.to.kind} \subseteq InShell

AtGuard(kinds) == nav.at = "guard" /\ nav.to.kind \in kinds /\ (nav.to = url => url = Home)

\* The address of the page that is shown is not opened again.
StayHere ==
    /\ nav.at = "guard" /\ nav.to = url /\ url # Home
    /\ Arrive
    /\ UNCHANGED <<api, session, account, refused, current, membership, me, back, visits, changes>>

\* signedOut.
EnterSignIn ==
    /\ AtGuard({"sign-in"})
    /\ IF session THEN Redirect(Home) ELSE Arrive
    /\ UNCHANGED <<api, session, account, refused, current, membership, me, back, visits, changes>>

\* signedIn; the other guards of the route stand back.
NeedsSession ==
    /\ AtGuard({"home", "no-league", "manage", "join"} \union InLeague) /\ ~session /\ ~SameLeague
    /\ back' = nav.to
    /\ Redirect(SignInPage)
    /\ UNCHANGED <<api, session, account, refused, current, membership, me, visits, changes>>

EnterPlain ==
    /\ AtGuard({"join", "no-league"}) /\ session
    /\ Arrive
    /\ UNCHANGED <<api, session, account, refused, current, membership, me, back, visits, changes>>

\* leagueHome, legacyLeaguePath: the home league, or the page `/no-league`.
EnterHome ==
    /\ AtGuard({"home"} \union InLeague) /\ nav.to.league = NoLeague /\ session
    /\ EnsureAccount
    /\ LET home == IF account'.loaded THEN HomeOf(account', refused) ELSE NoLeague IN
       Redirect(IF home = NoLeague THEN NoLeaguePage
                ELSE PageOf(IF nav.to.kind = "home" THEN "page" ELSE nav.to.kind, home))
    /\ UNCHANGED <<api, session, refused, current, membership, me, back, visits, changes>>

\* adminOnly.
EnterManage ==
    /\ AtGuard({"manage"}) /\ session
    /\ EnsureAccount
    /\ IF account'.loaded /\ api.admin THEN Arrive ELSE Redirect(Home)
    /\ UNCHANGED <<api, session, refused, current, membership, me, back, visits, changes>>

\* leagueRequired, up to what select does before it waits: a league that is not
\* listed or was refused leads to `/`, another one is shown and loaded.
EnterLeague ==
    /\ AtGuard(InLeague) /\ nav.to.league # NoLeague
    /\ \/ /\ SameLeague
          /\ GoOn("profile")
          /\ UNCHANGED <<account, current, membership, me>>
       \/ /\ ~SameLeague /\ session
          /\ EnsureAccount
          /\ \/ /\ ~account'.loaded
                /\ Redirect(NoLeaguePage) /\ UNCHANGED <<current, membership, me>>
             \/ /\ account'.loaded /\ nav.to.league \notin account'.leagues \ refused
                /\ Redirect(Home) /\ UNCHANGED <<current, membership, me>>
             \/ /\ account'.loaded /\ nav.to.league \in account'.leagues \ refused
                /\ current' = nav.to.league
                /\ IF current = nav.to.league THEN UNCHANGED <<membership, me>>
                   ELSE membership' = "unknown" /\ me' = NoMe
                /\ GoOn("league")
    /\ UNCHANGED <<api, session, refused, back, visits, changes>>

\* ensureLoaded, for the league shown: the answer held, or the API's, or an error.
EnsureLoaded ==
    IF membership \in {"member", "not_member"} THEN UNCHANGED <<membership, me>>
    ELSE \/ /\ current \in Listed(api)
            /\ membership' = "member"
            /\ me' = [member |-> current \in api.members, profile |-> current \in api.profiles,
                      steward |-> api.admin \/ current \in api.stewards]
         \/ current \notin Listed(api) /\ membership' = "not_member" /\ UNCHANGED me
         \/ membership' = "error" /\ UNCHANGED me

\* The rest of select: a refused league leads to `/`; one that could not be
\* loaded opens, and the shell shows it.  A loaded one becomes the last used,
\* also for the API, unless that write fails.
LeagueAnswers ==
    /\ nav.at = "league"
    /\ EnsureLoaded
    /\ \/ /\ membership' = "not_member"
          /\ refused' = refused \union {current}
          /\ Redirect(Home)
          /\ UNCHANGED <<api, account>>
       \/ /\ membership' # "not_member"
          /\ GoOn("profile")
          /\ IF membership' = "member" /\ account.loaded /\ account.last # current
             THEN /\ account' = [account EXCEPT !.last = current]
                  /\ api' = [api EXCEPT !.last = current] \/ UNCHANGED api
             ELSE UNCHANGED <<api, account>>
          /\ UNCHANGED refused
    /\ UNCHANGED <<session, current, back, visits, changes>>

\* onRefused: a league refused while its pages show is left for `/`.
Leave(p) == nav' = Going(p) /\ hops' = 0 /\ UNCHANGED url
IsRefused(otherwise) ==
    /\ refused' = refused \union {current}
    /\ IF url.league = current THEN Leave(Home) ELSE otherwise

\* whenKnown: false when the profile cannot be known.
Known == membership' = "member" /\ me'.member

\* profileRequired and profileMissing: nobody without a profile passes the
\* welcome page, and nobody else stays there.  What cannot be known passes.
ProfileGuard ==
    /\ nav.at = "profile"
    /\ LET next == IF nav.to.kind = "captain" THEN GoOn("captain") ELSE Arrive IN
       \/ /\ SameShell \/ ~session
          /\ next /\ UNCHANGED <<membership, me, refused, back>>
       \/ /\ ~SameShell /\ session
          /\ EnsureLoaded
          /\ \/ /\ ~Known
                /\ IF membership' = "not_member" /\ membership # "not_member"
                   THEN IsRefused(next) ELSE next /\ UNCHANGED refused
                /\ UNCHANGED back
             \/ /\ Known
                /\ \/ /\ nav.to.kind = "welcome" /\ me'.profile
                      /\ Redirect(PageOf("page", current)) /\ UNCHANGED back
                   \/ /\ nav.to.kind # "welcome" /\ ~me'.profile
                      /\ Redirect(PageOf("welcome", current)) /\ back' = nav.to
                   \/ /\ nav.to.kind = "welcome" <=> ~me'.profile
                      /\ next /\ UNCHANGED back
                /\ UNCHANGED refused
    /\ UNCHANGED <<api, session, account, current, visits, changes>>

\* captainOnly.
CaptainGuard ==
    /\ nav.at = "captain"
    /\ IF me.steward THEN Arrive ELSE Redirect(PageOf("page", current))
    /\ UNCHANGED <<api, session, account, refused, current, membership, me, back, visits, changes>>

-----------------------------------------------------------------------------
\* The pages.

\* A link, the address bar or the back button, at any time: the navigation in
\* progress is given up.
Visit(p) ==
    /\ visits < MaxVisits /\ visits' = visits + 1
    /\ Leave(p)
    /\ UNCHANGED <<api, session, account, refused, current, membership, me, back, changes>>

\* withPassword goes on to returnUrl; coming back from Google loads this page
\* anew, with nothing held.
SignIn ==
    /\ nav = Idle /\ url.kind = "sign-in" /\ ~session
    /\ session' = TRUE
    /\ \/ /\ Leave(back) /\ UNCHANGED <<account, refused, current, membership, me>>
       \/ /\ Leave(SignInPage)
          /\ account' = NoAccount /\ refused' = {}
          /\ current' = NoLeague /\ membership' = "unknown" /\ me' = NoMe
    /\ back' = Home
    /\ UNCHANGED <<api, visits, changes>>

\* The session ends elsewhere: nothing is forgotten.
SessionEnds ==
    /\ session /\ nav = Idle /\ visits < MaxVisits
    /\ session' = FALSE /\ visits' = visits + 1
    /\ UNCHANGED <<api, account, refused, current, membership, me, url, nav, back, hops, changes>>

\* signOut and clear.
SignOut ==
    /\ nav = Idle /\ session /\ url.kind \in {"page", "profile", "welcome", "join", "no-league"}
    /\ session' = FALSE
    /\ account' = NoAccount /\ refused' = {}
    /\ current' = NoLeague /\ membership' = "unknown" /\ me' = NoMe
    /\ back' = Home
    /\ Leave(SignInPage)
    /\ UNCHANGED <<api, visits, changes>>

\* reloadAccount: the account is read again and every refusal forgotten.
ReloadAccount == account' \in {Answer(api'), NoAccount} /\ refused' = {}

\* claim on the join page of league l: the name is the account's, and the league opens.
Claim(l) ==
    /\ nav = Idle /\ session /\ url.kind = "join" /\ l \in api.open \ api.members
    /\ changes < MaxChanges /\ changes' = changes + 1
    /\ api' = [api EXCEPT !.members = @ \union {l}]
    /\ ReloadAccount
    /\ Leave(PageOf("page", l))
    /\ UNCHANGED <<session, current, membership, me, back, visits>>

\* retry on the page without a league.
Retry ==
    /\ nav = Idle /\ session /\ url.kind = "no-league"
    /\ UNCHANGED api
    /\ ReloadAccount
    /\ LET home == IF account'.loaded THEN HomeOf(account', {}) ELSE NoLeague
       IN IF home = NoLeague THEN UNCHANGED <<url, nav, hops>> ELSE Leave(PageOf("page", home))
    /\ UNCHANGED <<session, current, membership, me, back, visits, changes>>

\* The profile is saved in the league that is shown, and the page left for the
\* address the member came for.
SaveProfile ==
    /\ nav = Idle /\ session /\ url.kind \in {"welcome", "profile"}
    /\ membership = "member" /\ me.member /\ current \in api.members \intersect api.open
    /\ api' = [api EXCEPT !.profiles = @ \union {current}]
    /\ me' = [me EXCEPT !.profile = TRUE]
    /\ Leave(IF url.kind = "welcome" /\ back # Home THEN back ELSE PageOf("page", current))
    /\ back' = Home
    /\ UNCHANGED <<session, account, refused, current, membership, visits, changes>>

\* The API refuses a request of the league's pages.
RequestRefused ==
    /\ session /\ membership = "member" /\ current \notin Listed(api)
    /\ IsRefused(UNCHANGED <<url, nav, hops>>)
    /\ UNCHANGED <<api, session, account, current, membership, me, back, visits, changes>>

\* The captain withdraws the account, or the admin archives the league; the
\* captaincy moves.
ApiChanges ==
    /\ changes < MaxChanges /\ changes' = changes + 1
    /\ \E l \in League :
          \/ l \in api.members /\ api' = [api EXCEPT !.members = @ \ {l}, !.stewards = @ \ {l},
                                                       !.profiles = @ \ {l}]
          \/ l \in api.open /\ api' = [api EXCEPT !.open = @ \ {l}]
          \/ l \in api.members \ api.stewards /\ api' = [api EXCEPT !.stewards = @ \union {l}]
    /\ UNCHANGED <<session, account, refused, current, membership, me, url, nav, back, hops, visits>>

Next ==
    \/ StayHere \/ EnterSignIn \/ NeedsSession \/ EnterPlain \/ EnterHome \/ EnterManage
    \/ EnterLeague \/ LeagueAnswers \/ ProfileGuard \/ CaptainGuard
    \/ SignIn \/ SessionEnds \/ SignOut \/ Retry \/ SaveProfile \/ RequestRefused \/ ApiChanges
    \/ \E p \in Page : Visit(p)
    \/ \E l \in League : Claim(l)

Spec == Init /\ [][Next]_vars

-----------------------------------------------------------------------------
\* A navigation is not sent round for ever: it passes each league once or twice
\* before a page shows, however the account's leagues change (league.guards.ts:21
\* leagueRequired, league-context.ts:104 home, profile.guards.ts:12) ... unless
\* the league it was on the way to is refused while another league's page is
\* shown, whose guard then does not choose that league again.
NavigationEnds ==
    hops <= LongestWay \/ (url.league \notin {NoLeague, current} /\ current \in refused)

\* The comment above `current` (league-context.ts:49): "The league in the URL,
\* once the guard has accepted it."  A league that is refused stays there.
CurrentIsInUrl ==
    (session /\ nav = Idle /\ url.kind \in InLeague) => current = url.league

\* A league's pages show only to an account that has chosen its team there, or
\* one whose membership is not known (profile.guards.ts:12, profileRequired).
ShownWithProfile ==
    (session /\ nav = Idle /\ url.kind \in InShell /\ current = url.league /\ membership = "member" /\ me.member)
        => me.profile
=============================================================================
