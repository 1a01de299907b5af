---------------------------- MODULE SampleLeagues ----------------------------
(***************************************************************************)
(* The sample build's leagues together (SampleLeagueData,                  *)
(* core/league/data/sample-league-data.ts): the one showing, the account    *)
(* document, join links, the management centre's changes                    *)
(* (SampleAdminData, core/league/admin/admin-data.ts) and the timer that    *)
(* reads the showing league again at a kickoff.                             *)
(*                                                                         *)
(* What goes on inside a league is in SampleLeague and SampleRecords: here  *)
(* a league is its status, the account's name in it, who is captain, its    *)
(* join code, when its clock was read last, the first kickoff its rules     *)
(* score from and whether what only a steward may change was changed.       *)
(* Random join codes differ.                                                *)
(***************************************************************************)
EXTENDS Integers, FiniteSetsExt

CONSTANTS
    None,
    Added,         \* the leagues the management centre can make; 1, 2 and 3 are there
    KickoffTimes,  \* when the fixtures without a sample result kick off
    MaxTime,       \* bound
    MaxDelay,      \* setTimeout's longest delay
    MaxChanges     \* bound: changes by the management centre, stewards, of links and of the name

VARIABLES
    admin,     \* the account is the admin: read once from the first page's address
    leagues,   \* league -> record, or None
    showing,
    now,
    timer,     \* when the kickoff timer runs, or None
    changes

vars == <<admin, leagues, showing, now, timer, changes>>

Seeded == 1 .. 3
League == Seeded \union Added
Known == {l \in League : leagues[l] # None}
Time == 0 .. MaxTime
Codes == Seeded \union {10 + change : change \in 1 .. MaxChanges}

TypeOK ==
    /\ admin \in BOOLEAN /\ showing \in Known /\ now \in Time /\ changes \in 0 .. MaxChanges
    /\ \A l \in Known : leagues[l] \in
          [status : {"active", "archived"}, name : {None, "claimed", "released"},
           captain : {"me", "other"},
           code : Codes \union {None}, clock : Time, start : KickoffTimes, changed : BOOLEAN]
    /\ timer = None \/ timer \in Nat

\* Piele, the Pofadder Bowl and the Sample Third XV, which the account only sees as the admin.
MakeLeague(member, captain, code, at, start) ==
    [status |-> "active", name |-> IF member THEN "claimed" ELSE None, captain |-> captain,
     code |-> code, clock |-> at, start |-> start, changed |-> FALSE]
SAMPLE_LEAGUES ==
    LET make(member, captain, code) == MakeLeague(member, captain, code, 0, Min(KickoffTimes)) IN
    <<make(TRUE, "me", 1), make(TRUE, "other", 2), make(FALSE, "other", 3)>>

-----------------------------------------------------------------------------
Administers(l) == admin \/ leagues[l].captain = "me"
Account == {l \in Known : leagues[l].status = "active" /\ (admin \/ leagues[l].name # None)}
Preview(code) == {l \in Known : leagues[l].status = "active" /\ leagues[l].code = code}

\* picks, those not locked: from the starting round on, and not kicked off by the league's clock.
Unlocked(league) == {k \in KickoffTimes : k >= league.start /\ k > league.clock}

\* The effect of the constructor: it runs when the picks of the league showing change.
WaitFor(league) ==
    timer' = IF Unlocked(league) = {} THEN None
             ELSE Max({now, Min({Min(Unlocked(league)), now + MaxDelay})})

Init ==
    /\ admin \in BOOLEAN /\ now = 0 /\ changes = 0
    /\ leagues = [l \in League |-> IF l \in Seeded THEN SAMPLE_LEAGUES[l] ELSE None]
    /\ showing = 1
    /\ timer = Min({Min(KickoffTimes), MaxDelay})

Put(l, league) == leagues' = [leagues EXCEPT ![l] = league]

\* A league's records change; their effect, if it is the league showing.
Change(l, league) ==
    /\ Put(l, league)
    /\ IF l = showing THEN WaitFor(league) ELSE UNCHANGED timer

\* Switching does not read the league's clock again.
Select ==
    /\ \E l \in Account \ {showing} : showing' = l /\ WaitFor(leagues[l])
    /\ UNCHANGED <<admin, leagues, now, changes>>

\* SampleLeague, reload, and the timer of its votes, which runs whichever league shows: the
\* clock is read, and where it reads the same nothing changes.
Read(l) ==
    /\ now > leagues[l].clock /\ Change(l, [leagues[l] EXCEPT !.clock = now])
    /\ UNCHANGED <<admin, showing, now, changes>>

Reload == Read(showing)
TimerRuns == timer # None /\ timer <= now /\ Read(showing)
Settlement == \E l \in Known : Read(l)

\* A timer may be late by any time.
Tick ==
    /\ now < MaxTime /\ now' = now + 1
    /\ UNCHANGED <<admin, leagues, showing, timer, changes>>

\* Picks, and the other names of the team sheet, which anybody may change who can see the page.
RecordsChange ==
    /\ WaitFor(leagues[showing]) /\ UNCHANGED <<admin, leagues, showing, now, changes>>

-----------------------------------------------------------------------------
Changes == changes < MaxChanges /\ changes' = changes + 1 /\ UNCHANGED <<admin, showing, now>>

\* createLeague: with "captain is me" the account is a member, else it may add itself.
Add ==
    /\ admin /\ Changes
    /\ \E l \in Added \ Known, addMe, captainIsMe \in BOOLEAN, start \in KickoffTimes :
          Put(l, MakeLeague(addMe \/ captainIsMe, IF captainIsMe THEN "me" ELSE "other",
                            10 + changes', now, start))
    /\ UNCHANGED timer

\* The rules change, the first kickoff or another, which the picks are read again for.
SaveRules(l, league) ==
    /\ Put(l, [league EXCEPT !.changed = TRUE])
    /\ IF l = showing THEN WaitFor(league) ELSE UNCHANGED timer

\* updateLeague: the rules if any are given, and then the status: the league is archived or
\* opened again.
Update ==
    /\ admin /\ Changes
    /\ \E l \in Known, start \in KickoffTimes, status \in {"active", "archived"} :
          \/ SaveRules(l, [leagues[l] EXCEPT !.status = status, !.start = start])
          \/ Put(l, [leagues[l] EXCEPT !.status = status]) /\ UNCHANGED timer

\* postCaptain: a claimed member of an active league; nobody else claims a name in a new one.
Appoint ==
    /\ admin /\ Changes
    /\ \E l \in Known, captain \in {"me", "other"} :
          /\ leagues[l].status = "active" /\ leagues[l].captain # captain
          /\ captain = "me" => leagues[l].name = "claimed"
          /\ captain = "other" => l \in Seeded
          /\ Put(l, [leagues[l] EXCEPT !.captain = captain])
    /\ UNCHANGED timer

\* postMe, addAdmin: the admin adds itself.
AddMe ==
    /\ admin /\ Changes
    /\ \E l \in Known :
          /\ leagues[l].status = "active" /\ leagues[l].name = None
          /\ Change(l, [leagues[l] EXCEPT !.name = "claimed"])

\* The account's own name: the captain's stays, and nobody withdraws itself.
Release ==
    /\ Changes /\ leagues[showing].name = "claimed" /\ leagues[showing].captain # "me"
    /\ Change(showing, [leagues[showing] EXCEPT !.name = "released"])

\* The join link: the captain's desk offers it, and the data ask no more.
Rotate ==
    /\ Changes
    /\ Put(showing, [leagues[showing] EXCEPT !.code = 10 + changes'])
    /\ UNCHANGED timer

CloseCode ==
    /\ Changes
    /\ Put(showing, [leagues[showing] EXCEPT !.code = None])
    /\ UNCHANGED timer

\* steward(): picks and rules, which the timer follows, and standings and the stand-in reviewer,
\* which it does not; refused to anyone else.
StewardWrite ==
    /\ Changes
    /\ IF Administers(showing)
       THEN \/ \E start \in KickoffTimes :
                  SaveRules(showing, [leagues[showing] EXCEPT !.start = start])
            \/ Put(showing, [leagues[showing] EXCEPT !.changed = TRUE]) /\ UNCHANGED timer
       ELSE UNCHANGED <<leagues, timer>>

Next ==
    \/ Select \/ Reload \/ TimerRuns \/ Settlement \/ Tick \/ RecordsChange
    \/ Add \/ Update \/ Appoint \/ AddMe
    \/ Release \/ Rotate \/ CloseCode \/ StewardWrite

Spec == Init /\ [][Next]_vars

-----------------------------------------------------------------------------
\* Whichever league shows and since whenever, a kickoff that has passed is shown as one or the
\* timer that reads it is due, however late it runs; what is a steward's was changed only in
\* leagues the account administers; a captain has claimed a name; and a join code opens one league.
SamplesHold ==
    /\ \A k \in Unlocked(leagues[showing]) : k <= now => timer # None /\ timer <= now
    /\ \A l \in Known :
          /\ leagues[l].changed => Administers(l)
          /\ leagues[l].captain = "me" => leagues[l].name = "claimed"
    /\ \A code \in Codes : Cardinality(Preview(code)) <= 1
=============================================================================
