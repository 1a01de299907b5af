-------------------------------- MODULE Profiles --------------------------------
(***************************************************************************)
(* The member's favourite team and photo: the profile editor                *)
(* (features/profile), ProfileService and ProfileControlService             *)
(* (core/profile), the profile HttpLeagueData holds for the chosen league,  *)
(* and the profile kept in this browser by builds without an account.       *)
(*                                                                         *)
(* The team belongs to the league, the photo to the account.  The editor    *)
(* takes a copy when it opens and saves against what is held when it is     *)
(* saved: the photo may arrive in between, the league may change while a    *)
(* photo is being uploaded, and the profile kept before leagues had         *)
(* addresses of their own is split when a league is saved.                  *)
(*                                                                         *)
(* Left out: the name (it goes with the photo), signing out, the page after *)
(* the editor (Navigation), and the order of other records (LeagueLoads).   *)
(***************************************************************************)
EXTENDS Naturals

CONSTANTS
    None,       \* no answer, no editor, no request, nothing kept
    MaxVisits,  \* bound: leagues opened, loads tried again
    MaxSaves    \* bound: saves, and changes on another device

League == 1 .. 2
First == 1                \* the league that existed before leagues had addresses
Clubs(l) == l .. l + 1    \* of its competition; the leagues share one club
Teams == 0 .. 3           \* 0: not chosen
Photos == 0 .. 2          \* 0: none

VARIABLES
    build,      \* "api", or "local" without an account
    api,        \* the account's photo and its team in each league
    store,      \* localStorage: [account, team, legacy]
    league,     \* the chosen league
    membership, \* of HttpLeagueData: "loading", "member", "error"
    me,         \* the team in the answer held for the chosen league, 0 for none
    photo,      \* the photo HttpLeagueData holds
    fetch,      \* the league's load: [at, photo], or None
    late,       \* downloads of a photo whose load was left or has failed
    editor,     \* [league, team, photo, kept, preparing], or None; `kept` is history:
                \* a photo is shown that nobody has removed
    request,    \* the save in flight, or None
    picked,     \* history: the team last saved in each league
    counts      \* [visits, saves]

vars == <<build, api, store, league, membership, me, photo, fetch, late, editor, request, picked, counts>>

TypeOK ==
    /\ build \in {"api", "local"} /\ league \in League
    /\ api \in [photo : Photos, team : [League -> Teams]]
    /\ store.account \in Photos \union {None}
    /\ store.team \in [League -> Teams \union {None}]
    /\ membership \in {"loading", "member", "error"}
    /\ me \in Teams /\ photo \in Photos /\ late \in SUBSET Photos
    /\ picked \in [League -> Teams]
    /\ counts.visits \in 0 .. 2 * MaxVisits /\ counts.saves \in 0 .. 2 * MaxSaves

\* A profile from before leagues had addresses: this browser kept it whole.
Legacy == [team : Clubs(First), photo : {0, 2}]
NoStore(old) == [account |-> None, team |-> [l \in League |-> None], legacy |-> old]

Init ==
    /\ build \in {"api", "local"}
    /\ api \in [photo : {0, 1}, team : {[l \in League |-> 0], [l \in League |-> IF l = First THEN 1 ELSE 0]}]
    /\ store \in {NoStore(old) : old \in Legacy \union {None}}
    /\ build = "local" => api = [photo |-> 0, team |-> [l \in League |-> 0]]
    /\ league \in League
    /\ me = 0 /\ photo = 0 /\ late = {}
    /\ IF build = "api" THEN membership = "loading" /\ fetch = [at |-> "me", photo |-> None]
       ELSE membership = "member" /\ fetch = None
    /\ editor = None /\ request = None
    /\ picked = [l \in League |->
                   IF build = "local" /\ l = First /\ store.legacy # None THEN store.legacy.team ELSE 0]
    /\ counts = [visits |-> 0, saves |-> 0]

\* The bounds are twice as high without an account, where a save is one step.
Bound(n) == IF build = "local" THEN 2 * n ELSE n

-----------------------------------------------------------------------------
\* The profile kept in this browser.
Account == IF store.account # None THEN store.account
           ELSE IF store.legacy # None THEN store.legacy.photo ELSE None

LocalTeam(l) ==
    IF store.team[l] # None THEN store.team[l]
    ELSE IF l = First /\ store.legacy # None THEN store.legacy.team ELSE 0

\* profile: the current league's, None until a team is chosen there.
Profile ==
    IF build = "api"
    THEN IF me # 0 THEN [team |-> me, photo |-> photo] ELSE None
    ELSE IF Account # None /\ LocalTeam(league) \in Clubs(league)
         THEN [team |-> LocalTeam(league), photo |-> Account] ELSE None

\* earlier: what onboarding starts from.
Earlier ==
    IF build = "api"
    THEN IF store.legacy # None /\ store.legacy.team \in Clubs(league) THEN store.legacy ELSE None
    ELSE IF Account # None THEN [team |-> 0, photo |-> Account] ELSE None

-----------------------------------------------------------------------------
\* select, load: another league is chosen; the editor of the one before shows
\* until the new page's guards are through.
Choose ==
    /\ counts.visits < Bound(MaxVisits) /\ counts' = [counts EXCEPT !.visits = @ + 1]
    /\ league' \in League \ {league}
    /\ IF build = "api"
       THEN /\ membership' = "loading" /\ me' = 0 /\ photo' = 0
            /\ fetch' = [at |-> "me", photo |-> None]
            /\ late' = IF fetch # None /\ fetch.photo # None THEN late \union {fetch.photo} ELSE late
            /\ UNCHANGED editor
       ELSE editor' = None /\ UNCHANGED <<membership, me, photo, fetch, late>>
    /\ UNCHANGED <<build, api, store, request, picked>>

\* fetch: `me` is adopted, then the photo and the records are read together.
MeArrives ==
    /\ fetch # None /\ fetch.at = "me"
    /\ me' = api.team[league]
    /\ fetch' = [at |-> "records", photo |-> api.photo]
    /\ UNCHANGED <<build, api, store, league, membership, photo, late, editor, request, picked, counts>>

\* loadPhoto: it may fail, and then there is none.
PhotoArrives ==
    \/ /\ fetch # None /\ fetch.photo # None
       /\ photo' \in {fetch.photo, 0}
       /\ fetch' = [fetch EXCEPT !.photo = None]
       /\ UNCHANGED <<build, api, store, league, membership, me, late, editor, request, picked, counts>>
    \/ \E p \in late :
       /\ photo' \in {p, 0} /\ late' = late \ {p}
       /\ UNCHANGED <<build, api, store, league, membership, me, fetch, editor, request, picked, counts>>

\* The load is done when both are; it fails as soon as the records do.
LoadEnds ==
    /\ fetch # None
    /\ \/ /\ fetch.at = "records" /\ fetch.photo = None
          /\ membership' = "member" /\ UNCHANGED late
       \/ /\ membership' = "error"
          /\ late' = IF fetch.photo # None THEN late \union {fetch.photo} ELSE late
    /\ fetch' = None
    /\ editor' = IF editor # None /\ editor.league # league THEN None ELSE editor
    /\ UNCHANGED <<build, api, store, league, me, photo, request, picked, counts>>

\* reload after an error: the guards of the next page, or the retry button.
Reload ==
    /\ build = "api" /\ membership = "error"
    /\ counts.visits < MaxVisits /\ counts' = [counts EXCEPT !.visits = @ + 1]
    /\ membership' = "loading" /\ fetch' = [at |-> "me", photo |-> None]
    /\ UNCHANGED <<build, api, store, league, me, photo, late, editor, request, picked>>

\* Another device.
Elsewhere ==
    /\ build = "api" /\ counts.saves < Bound(MaxSaves) /\ counts' = [counts EXCEPT !.saves = @ + 1]
    /\ \E p \in {0, 2} \ {api.photo} : api' = [api EXCEPT !.photo = p]
    /\ UNCHANGED <<build, store, league, membership, me, photo, fetch, late, editor, request, picked>>

-----------------------------------------------------------------------------
\* The editor starts from the saved profile, or from what came before it.
Start == IF Profile # None THEN Profile ELSE Earlier

Open ==
    /\ editor = None /\ membership # "loading"
    /\ LET from == IF Start # None THEN Start ELSE [team |-> 0, photo |-> 0] IN
       editor' = [league |-> league, team |-> from.team, photo |-> from.photo,
                  kept |-> from.photo # 0, preparing |-> FALSE]
    /\ UNCHANGED <<build, api, store, league, membership, me, photo, fetch, late, request, picked, counts>>

Leave ==
    /\ editor # None /\ editor' = None
    /\ UNCHANGED <<build, api, store, league, membership, me, photo, fetch, late, request, picked, counts>>

Enabled == editor # None /\ ~editor.preparing /\ request = None

ChooseTeam ==
    /\ Enabled
    /\ \E t \in Clubs(league) \ {editor.team} : editor' = [editor EXCEPT !.team = t]
    /\ UNCHANGED <<build, api, store, league, membership, me, photo, fetch, late, request, picked, counts>>

\* choosePhoto: a file is prepared, or cannot be used.
ChoosePhoto ==
    /\ Enabled /\ editor' = [editor EXCEPT !.preparing = TRUE]
    /\ UNCHANGED <<build, api, store, league, membership, me, photo, fetch, late, request, picked, counts>>

PhotoPrepared ==
    /\ editor # None /\ editor.preparing
    /\ editor' \in {[editor EXCEPT !.preparing = FALSE, !.photo = 2, !.kept = TRUE],
                    [editor EXCEPT !.preparing = FALSE]}
    /\ UNCHANGED <<build, api, store, league, membership, me, photo, fetch, late, request, picked, counts>>

RemovePhoto ==
    /\ Enabled /\ editor.photo # 0
    /\ editor' = [editor EXCEPT !.photo = 0, !.kept = FALSE]
    /\ UNCHANGED <<build, api, store, league, membership, me, photo, fetch, late, request, picked, counts>>

-----------------------------------------------------------------------------
\* save, in a build with an account: saveProfile compares the editor's photo with
\* the one held by now, and uploads a new one first.
Change ==
    IF editor.photo # 0 /\ editor.photo # photo THEN "upload"
    ELSE IF editor.photo = 0 /\ photo # 0 THEN "remove" ELSE "keep"

SaveToAccount ==
    /\ build = "api" /\ Enabled /\ editor.team \in Clubs(league)
    /\ counts.saves < Bound(MaxSaves) /\ counts' = [counts EXCEPT !.saves = @ + 1]
    /\ request' = [at |-> IF Change = "upload" THEN "upload" ELSE "put", change |-> Change,
                   league |-> league, team |-> editor.team, photo |-> editor.photo,
                   kept |-> editor.kept]
    /\ UNCHANGED <<build, api, store, league, membership, me, photo, fetch, late, editor, picked>>

\* The photo is stored; the profile is then put to the league chosen by now.
Uploaded ==
    /\ request # None /\ request.at = "upload"
    /\ request' = [request EXCEPT !.at = "put", !.league = league]
    /\ UNCHANGED <<build, api, store, league, membership, me, photo, fetch, late, editor, picked, counts>>

\* update_profile: a team of another competition is refused.
Put ==
    /\ request # None /\ request.at = "put" /\ request.team \in Clubs(request.league)
    /\ api' = [team |-> [api.team EXCEPT ![request.league] = request.team],
               photo |-> IF request.change = "upload" THEN request.photo
                         ELSE IF request.change = "remove" THEN 0 ELSE api.photo]
    /\ picked' = [picked EXCEPT ![request.league] = request.team]
    /\ request' = [request EXCEPT !.at = "answer"]
    /\ UNCHANGED <<build, store, league, membership, me, photo, fetch, late, editor, counts>>

\* The answer is adopted, whichever league is chosen by now; the browser's old
\* profile is dropped and the page is left.
Saved ==
    /\ request # None /\ request.at = "answer"
    /\ me' = request.team /\ photo' = request.photo
    /\ store' = [store EXCEPT !.legacy = None]
    /\ request' = None /\ editor' = None
    /\ UNCHANGED <<build, api, league, membership, fetch, late, picked, counts>>

SaveFails ==
    /\ request # None /\ request' = None
    /\ UNCHANGED <<build, api, store, league, membership, me, photo, fetch, late, editor, picked, counts>>

\* storeLocal, in a build without an account: moveLegacy splits the old profile
\* into the shared photo and the first league's team, then the profile is
\* written.  The browser may refuse any of the writes.
Moved ==
    IF store.legacy = None THEN store
    ELSE [account |-> IF store.account = None THEN store.legacy.photo ELSE store.account,
          team |-> [store.team EXCEPT ![First] = IF @ = None THEN store.legacy.team ELSE @],
          legacy |-> None]

SaveToBrowser ==
    /\ build = "local" /\ Enabled /\ editor.team \in Clubs(league)
    /\ counts.saves < Bound(MaxSaves) /\ counts' = [counts EXCEPT !.saves = @ + 1]
    /\ \/ /\ store' = [Moved EXCEPT !.account = editor.photo, !.team[league] = editor.team]
          /\ picked' = [picked EXCEPT ![league] = editor.team]
          /\ editor' = None
       \/ /\ store' \in {store, [store EXCEPT !.account = Moved.account],
                         [Moved EXCEPT !.legacy = store.legacy], Moved,
                         [Moved EXCEPT !.account = editor.photo]}
          /\ UNCHANGED <<editor, picked>>
    /\ UNCHANGED <<build, api, league, membership, me, photo, fetch, late, request>>

Next ==
    \/ Choose \/ MeArrives \/ PhotoArrives \/ LoadEnds \/ Reload \/ Elsewhere
    \/ Open \/ Leave \/ ChooseTeam \/ ChoosePhoto \/ PhotoPrepared \/ RemovePhoto
    \/ SaveToAccount \/ Uploaded \/ Put \/ Saved \/ SaveFails \/ SaveToBrowser

Spec == Init /\ [][Next]_vars

-----------------------------------------------------------------------------
\* In a browser without an account every league keeps the team last chosen in it, the first
\* league the one from before leagues had addresses, wherever a save is refused on the way.
TeamsAreKept ==
    build = "local" => \A l \in League : LocalTeam(l) = picked[l]

\* A member who was shown the photo does not lose it without asking.
ShownPhotoStays ==
    request # None /\ request.change = "remove" => ~request.kept

\* The inductive invariant behind them: nothing is on its way to an account a build does not
\* have, what the old profile says of the first league stands until it is moved, and a photo
\* that was shown and not removed is still in the editor.
ProfileInv ==
    /\ store = [account |-> store.account, team |-> store.team, legacy |-> store.legacy]
    /\ store.team \in [League -> Teams \union {None}] /\ store.legacy \in Legacy \union {None}
    /\ league \in League /\ picked \in [League -> Teams]
    /\ build = "local" => request = None
    /\ editor # None => /\ editor.kept => editor.photo # 0
                        /\ editor = [league |-> editor.league, team |-> editor.team, photo |-> editor.photo,
                                     kept |-> editor.kept, preparing |-> editor.preparing]
    /\ request # None => request = [at |-> request.at, change |-> request.change,
           league |-> request.league, team |-> request.team, photo |-> request.photo,
           kept |-> request.kept]
    /\ TeamsAreKept /\ ShownPhotoStays
=============================================================================
