------------------------------- MODULE Frame -------------------------------
(***************************************************************************)
(* What stands around every page (core/layout/shell/shell.ts): the header's *)
(* identity, the card of a league that failed to load, the sign of a page   *)
(* that is long in coming, and the two panels: the notifications flag       *)
(* (notifications-flag.ts) and the league switcher (league-switcher.ts), of *)
(* which the layout shows one.                                              *)
(*                                                                         *)
(* A league loads as in http-league-data.ts, one load of it at a time       *)
(* (LeagueLoads has several); a person is the league whose `me` says who    *)
(* the member is.  The account pages, the profile and the management centre *)
(* stand outside the frame: it is taken down for them and put up anew.      *)
(* Effects run with the change that causes them.  Focus and what the panels *)
(* list are left out.                                                       *)
(***************************************************************************)
EXTENDS Integers, FiniteSets

CONSTANTS
    None,
    League

VARIABLES
    up,         \* the frame stands
    load,       \* the chosen league, how far its load is, the error kept and whose `me` is held
    identity,   \* whose photo and name the header shows
    card,       \* the load's card; `closed`: it went while the error stayed
    page,       \* the navigation under way, the 150 ms running, the sign; `scrolled`: not at the top
    flag,       \* the notifications
    switcher,   \* the leagues, and the join field's mark and card
    opened      \* how the panel opened last was: by pointer or by key

vars == <<up, load, identity, card, page, flag, switcher, opened>>

Errors == {"offline", "failed"}
Underway == {"me", "records", "photo"}

TypeOK ==
    /\ up \in BOOLEAN
    /\ load \in [league : League, at : Underway \union {"member", "error", "refused"},
                 error : Errors \union {None}, me : League \union {None}]
    /\ identity \in League \union {None}
    /\ card \in [shown : BOOLEAN, closed : BOOLEAN]
    /\ page \in [going : {None, "page", "round"}, waiting : BOOLEAN, loading : BOOLEAN,
                 scrolled : BOOLEAN]
    /\ flag \in [open : BOOLEAN, settled : BOOLEAN, timer : BOOLEAN]
    /\ switcher \in [open : BOOLEAN, invalid : BOOLEAN, card : BOOLEAN]
    /\ opened \in {None, "pointer", "key"}

NoCard == [shown |-> FALSE, closed |-> FALSE]
Still == [going |-> None, waiting |-> FALSE, loading |-> FALSE, scrolled |-> FALSE]
Furled == [open |-> FALSE, settled |-> FALSE, timer |-> FALSE]
Folded == [open |-> FALSE, invalid |-> FALSE, card |-> FALSE]

Init ==
    /\ up = TRUE
    /\ \E league \in League :
          /\ load = [league |-> league, at |-> "member", error |-> None, me |-> league]
          /\ identity = league
    /\ card = NoCard /\ page = Still /\ flag = Furled /\ switcher = Folded /\ opened = None

-----------------------------------------------------------------------------
\* shell.ts, identity: while a league loads, whoever was shown stays.
Identity(next, before) == IF next.at \in Underway THEN before ELSE next.me

ShowIdentity == identity' = Identity(load', identity)

\* The effect of the load's error: it runs when the error changes.
ShowError ==
    card' = IF load'.error = load.error THEN card
            ELSE [shown |-> load'.error # None, closed |-> FALSE]

Loads(to) ==
    /\ load' = to
    /\ IF up THEN ShowIdentity /\ ShowError ELSE UNCHANGED <<identity, card>>
    /\ UNCHANGED <<up, page, flag, switcher, opened>>

\* A guard runs for a page under way: the frame sees those that start while it stands.
Guarded == ~up \/ page.going = "page"

\* leagueRequired: another league is chosen, and what was held of the one before is cleared.
Choose ==
    /\ Guarded
    /\ \E league \in League \ {load.league} :
          Loads([league |-> league, at |-> "me", error |-> None, me |-> None])

\* fetch: `me` first; then the records, which clear the error, and the photo.
MeAnswers == load.at = "me" /\ Loads([load EXCEPT !.at = "records", !.me = load.league])

RecordsAnswer ==
    /\ load.at = "records"
    /\ \E at \in {"photo", "member"} : Loads([load EXCEPT !.at = at, !.error = None])

PhotoAnswers == load.at = "photo" /\ Loads([load EXCEPT !.at = "member"])

\* An error is kept until the records are in; a refusal is none.
LoadFails ==
    /\ load.at \in {"me", "records"}
    /\ \/ Loads([load EXCEPT !.at = "refused", !.error = None])
       \/ \E error \in Errors : Loads([load EXCEPT !.at = "error", !.error = error])

\* ensureLoaded: a load under way is shared and a member stays one.
EnsureLoaded == IF load.at = "error" THEN [load EXCEPT !.at = "me"] ELSE load

\* profileRequired waits for the profile, and so tries a league that failed again.
LoadAgain == Guarded /\ load.at = "error" /\ Loads(EnsureLoaded)

\* The card's action reloads, and then the card goes; it does not stand for a member.
Retry ==
    /\ card.shown /\ load' = EnsureLoaded
    /\ card' = [shown |-> FALSE, closed |-> TRUE]
    /\ UNCHANGED <<up, identity, page, flag, switcher, opened>>

\* The member closes the card, or newer cards leave no room for it.
CloseCard ==
    /\ card.shown /\ card' = [shown |-> FALSE, closed |-> TRUE]
    /\ UNCHANGED <<up, load, identity, page, flag, switcher, opened>>

-----------------------------------------------------------------------------
\* shell.ts, pageLoading.  A navigation that starts while another is under way cancels it first;
\* one that only changes the round does not count.  Another page starts at the top, unless it is
\* gone back or forward to.
Going(to, popped) ==
    [going |-> to, waiting |-> to = "page", loading |-> FALSE,
     scrolled |-> page.scrolled /\ (popped \/ to = "round")]

Start ==
    /\ up /\ \E to \in {"page", "round"}, popped \in BOOLEAN : page' = Going(to, popped)
    /\ UNCHANGED <<up, load, identity, card, flag, switcher, opened>>

\* A button of a panel: it stays, or leads to another page or round; what is there already is
\* no navigation.
Leads == page' \in {Going("page", FALSE), Going("round", FALSE), page}

Long ==
    /\ page.waiting /\ page' = [page EXCEPT !.waiting = FALSE, !.loading = TRUE]
    /\ UNCHANGED <<up, load, identity, card, flag, switcher, opened>>

\* The page is there, or the navigation was cancelled or failed.
End ==
    /\ page.going # None
    /\ page' = [page EXCEPT !.going = None, !.waiting = FALSE, !.loading = FALSE]
    /\ UNCHANGED <<up, load, identity, card, flag, switcher, opened>>

Scroll ==
    /\ up /\ page' = [page EXCEPT !.scrolled = ~page.scrolled]
    /\ UNCHANGED <<up, load, identity, card, flag, switcher, opened>>

\* A page outside the frame: the frame goes, and with it its card and the panels.
TakeDown ==
    /\ up /\ page.going = "page" /\ up' = FALSE
    /\ card' = NoCard /\ page' = Still /\ flag' = Furled /\ opened' = None
    /\ switcher' = [Folded EXCEPT !.card = switcher.card]
    /\ UNCHANGED <<load, identity>>

\* The frame is put up by a navigation whose start it did not see, once the guards have waited
\* for the league.
PutUp ==
    /\ ~up /\ load.at \in {"member", "error"} /\ up' = TRUE
    /\ identity' = load.me
    /\ card' = [shown |-> load.error # None, closed |-> FALSE]
    /\ UNCHANGED <<load, page, flag, switcher, opened>>

-----------------------------------------------------------------------------
\* notifications-flag.ts: the effect of `open` clears the timer of the drop and, when the flag
\* opens, starts it; without motion the cloth is at rest at once.
Rest == flag' = Furled
Unfurl ==
    \E reduced \in BOOLEAN : flag' = [open |-> TRUE, settled |-> reduced, timer |-> ~reduced]

Settle ==
    /\ flag.timer /\ flag' = [flag EXCEPT !.settled = TRUE, !.timer = FALSE]
    /\ UNCHANGED <<up, load, identity, card, page, switcher, opened>>

\* league-switcher.ts
Show == switcher' = [switcher EXCEPT !.open = TRUE, !.invalid = FALSE]
Close == switcher' = [switcher EXCEPT !.open = FALSE]

\* A press outside a panel closes it; one on a card closes the flag alone.
Press(on) ==
    /\ up
    /\ IF on = "flag" THEN UNCHANGED flag ELSE Rest
    /\ IF on \in {"switcher", "card"} THEN UNCHANGED switcher ELSE Close
    /\ UNCHANGED <<up, load, identity, card, page, opened>>

Pointer == \E on \in {"flag", "switcher", "card", "page"} : Press(on)

\* What is used in one panel by pointer is a press outside the other; by key it is not.
SwitcherLeft(by) == IF by = "pointer" THEN Close ELSE UNCHANGED switcher
FlagLeft(by) == IF by = "pointer" THEN Rest ELSE UNCHANGED flag

By == {"pointer", "key"}

ToggleFlag ==
    /\ up /\ (IF flag.open THEN Rest ELSE Unfurl)
    /\ \E by \in By : SwitcherLeft(by) /\ opened' = by
    /\ UNCHANGED <<up, load, identity, card, page>>

ToggleSwitcher ==
    /\ up /\ (IF switcher.open THEN Close ELSE Show)
    /\ \E by \in By : FlagLeft(by) /\ opened' = by
    /\ UNCHANGED <<up, load, identity, card, page>>

\* The flag's close button, or a notice that is followed: it goes to its page in its round.
LeaveFlag ==
    /\ up /\ flag.open /\ Rest
    /\ Leads
    /\ \E by \in By : SwitcherLeft(by)
    /\ UNCHANGED <<up, load, identity, card, opened>>

\* The switcher's close button or scrim, a league, or the management centre.
LeaveSwitcher ==
    /\ up /\ switcher.open /\ Close
    /\ Leads
    /\ \E by \in By : FlagLeft(by)
    /\ UNCHANGED <<up, load, identity, card, opened>>

Escape ==
    /\ up /\ Rest /\ Close
    /\ UNCHANGED <<up, load, identity, card, page, opened>>

\* The join field: a code goes to its page, anything else is marked and told on one card.
Join ==
    /\ up /\ switcher.open
    /\ \/ /\ switcher' = [switcher EXCEPT !.invalid = TRUE, !.card = TRUE]
          /\ UNCHANGED page
       \/ /\ switcher' = Folded
          /\ page' = Going("page", FALSE)
    /\ \E by \in By : FlagLeft(by)
    /\ UNCHANGED <<up, load, identity, card, opened>>

Edit ==
    /\ switcher.open /\ switcher' = [switcher EXCEPT !.invalid = FALSE]
    /\ UNCHANGED <<up, load, identity, card, page, flag, opened>>

CardGoes ==
    /\ switcher.card /\ switcher' = [switcher EXCEPT !.card = FALSE]
    /\ UNCHANGED <<up, load, identity, card, page, flag, opened>>

Next ==
    \/ Choose \/ MeAnswers \/ RecordsAnswer \/ PhotoAnswers \/ LoadFails \/ LoadAgain
    \/ Retry \/ CloseCard
    \/ Start \/ Long \/ End \/ Scroll \/ TakeDown \/ PutUp
    \/ Settle \/ Pointer \/ ToggleFlag \/ ToggleSwitcher \/ LeaveFlag \/ LeaveSwitcher \/ Escape
    \/ Join \/ Edit \/ CardGoes

Spec == Init /\ [][Next]_vars

-----------------------------------------------------------------------------
\* With the league loaded the header shows that league's member; the load's card stands for an
\* error that is still there, for every one that has not been closed or tried again, and never
\* for a member; a page under way is waited for or said to be loading, and nothing else is; the
\* cloth comes to rest only while it hangs, and does; and two panels are open together only
\* through the keyboard.
FrameHolds ==
    /\ up =>
          /\ load.at \notin Underway => identity = load.me
          /\ load.error # None /\ ~card.closed => card.shown
    /\ card.shown => load.error # None /\ load.at # "member"
    /\ (page.going = "page") = (page.waiting \/ page.loading)
    /\ flag.open = (flag.settled \/ flag.timer)
    /\ flag.open /\ switcher.open => opened = "key"
=============================================================================
