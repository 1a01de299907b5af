------------------------------ MODULE ManageLeague ------------------------------
(***************************************************************************)
(* One league in the management centre: the admin's list of leagues         *)
(* (admin-data.ts), the league's card with its rename form, its captain     *)
(* panel and its confirmations (league-card.ts), and the account read again *)
(* after each change (admin-league-control.service.ts).                     *)
(*                                                                         *)
(* The card and the confirmation dialog each have one write at a time, and  *)
(* the two overlap; another admin changes the same league.  The league has  *)
(* a status, a captain, the admin as a member or not, and the round its     *)
(* season scores from, which stands for every field of the rename form.  A  *)
(* behaviour is about that form and archiving, or about the people.         *)
(***************************************************************************)
EXTENDS Naturals

CONSTANTS
    Members,     \* of the league
    Nobody,      \* no member chosen
    None,        \* no list, no form, no request, no answer
    Regular,     \* regular rounds of the league's competition
    MaxChanges   \* bound: changes by another admin

VARIABLES
    panel,       \* "rename" or "people": what this behaviour is about
    api,         \* the league as the API keeps it
    list,        \* as the page lists it, or None before the list arrives
    reading,     \* the answer to a read of the list that has not arrived, or None
    rounds,      \* the list of competitions: "unread", "reading", "known"
    form,        \* the rename form, or None while it is closed
    candidates,  \* the claimed members once the captain panel has read them
    choice,      \* chosen in the captain panel
    dialog,      \* the confirmation: [open, ask, member]
    request,     \* the write of the "card" and of the "dialog"
    account,     \* whether the account's own list has the league, for the switcher
    changes

vars == <<panel, api, list, reading, rounds, form, candidates, choice, dialog, request, account, changes>>

League == [status : {"active", "archived"}, captain : Members,
           claimed : SUBSET Members, mine : BOOLEAN, start : 1 .. Regular]
Listed(l) == l.status = "active" /\ l.mine
Closed == [open |-> FALSE, ask |-> "", member |-> Nobody]
Asks == {"archived", "active", "captain"}

TypeOK ==
    /\ panel \in {"rename", "people"}
    /\ api \in League /\ list \in League \union {None} /\ reading \in League \union {None}
    /\ rounds \in {"unread", "reading", "known"}
    /\ candidates \in SUBSET Members \union {None} /\ choice \in Members \union {Nobody}
    /\ dialog.open \in BOOLEAN /\ dialog.ask \in Asks \union {""}
    /\ DOMAIN request = {"card", "dialog"}
    /\ changes \in 0 .. MaxChanges

Init ==
    /\ panel \in {"rename", "people"}
    /\ api \in League /\ list = None /\ reading = api
    /\ rounds = "unread" /\ form = None /\ candidates = None /\ choice = Nobody
    /\ dialog = Closed
    /\ request = [by \in {"card", "dialog"} |-> None]
    /\ account = Listed(api) /\ changes = 0

Busy(by) == request[by] # None
Shown == list # None

-----------------------------------------------------------------------------
\* load: the list is read when the page opens, and again when it is opened
\* again or asked to; the answer may be older than what is listed by then.
Load ==
    /\ reading = None /\ reading' = api
    /\ UNCHANGED <<panel, api, list, rounds, form, candidates, choice, dialog, request, account, changes>>

Loaded ==
    /\ reading # None /\ reading' = None
    /\ list' \in {reading, list}      \* or the read fails
    /\ UNCHANGED <<panel, api, rounds, form, candidates, choice, dialog, request, account, changes>>

\* Another admin, or the members.
Elsewhere ==
    /\ changes < MaxChanges /\ changes' = changes + 1
    /\ \/ panel = "rename" /\ \E r \in 1 .. Regular : api' = [api EXCEPT !.start = r]
       \/ panel = "people" /\ \E m \in api.claimed \ {api.captain} : api' = [api EXCEPT !.claimed = @ \ {m}]
    /\ api' # api
    /\ UNCHANGED <<panel, list, reading, rounds, form, candidates, choice, dialog, request, account>>

-----------------------------------------------------------------------------
\* lastRound: the league's own starting round until the competitions are known.
LastRound == IF rounds = "known" THEN Regular ELSE list.start

\* loadRegularRounds: asked for by startRename; a failure is forgotten.
CompetitionsRead ==
    /\ rounds = "reading"
    /\ rounds' \in {"known", "unread"}
    /\ UNCHANGED <<panel, api, list, reading, form, candidates, choice, dialog, request, account, changes>>

\* startRename: the form takes the league's values.
StartRename ==
    /\ panel = "rename" /\ Shown /\ form = None /\ ~Busy("card") /\ ~dialog.open
    /\ form' = [start |-> list.start]
    /\ rounds' = IF rounds = "unread" THEN "reading" ELSE rounds
    /\ UNCHANGED <<panel, api, list, reading, candidates, choice, dialog, request, account, changes>>

Edit ==
    /\ form # None /\ ~dialog.open
    /\ \E r \in (1 .. Regular + 1) \ {form.start} : form' = [form EXCEPT !.start = r]
    /\ UNCHANGED <<panel, api, list, reading, rounds, candidates, choice, dialog, request, account, changes>>

CancelRename ==
    /\ form # None /\ ~Busy("card") /\ ~dialog.open
    /\ form' = None
    /\ UNCHANGED <<panel, api, list, reading, rounds, candidates, choice, dialog, request, account, changes>>

\* renamePatch: what differs from the league as it is listed now.
RenamePatch ==
    [k \in {f \in DOMAIN form : form[f] # list[f]} |-> form[k]]

Send(by, kind, patch, member) ==
    request' = [request EXCEPT ![by] =
        [kind |-> kind, patch |-> patch, member |-> member, step |-> "sent", answer |-> None]]

NoPatch == [k \in {} |-> None]

\* saveRename: problems stop it, and an unchanged form only closes.
SaveRename ==
    /\ form # None /\ ~Busy("card") /\ ~dialog.open
    /\ form.start <= LastRound
    /\ IF DOMAIN RenamePatch = {} THEN form' = None /\ UNCHANGED request
       ELSE Send("card", "update", RenamePatch, Nobody) /\ UNCHANGED form
    /\ UNCHANGED <<panel, api, list, reading, rounds, candidates, choice, dialog, account, changes>>

\* addMe.
AddMe ==
    /\ panel = "people" /\ Shown /\ list.status = "active" /\ ~list.mine /\ ~Busy("card") /\ ~dialog.open
    /\ Send("card", "me", NoPatch, Nobody)
    /\ UNCHANGED <<panel, api, list, reading, rounds, form, candidates, choice, dialog, account, changes>>

-----------------------------------------------------------------------------
\* loadCandidates, reloadCandidates: read once, when the panel opens.
LoadCandidates ==
    /\ panel = "people" /\ Shown /\ list.status = "active" /\ candidates = None /\ ~dialog.open
    /\ candidates' = api.claimed
    /\ UNCHANGED <<panel, api, list, reading, rounds, form, choice, dialog, request, account, changes>>

Choices == IF candidates = None THEN {} ELSE candidates \ {list.captain}

ChooseCaptain ==
    /\ list # None /\ ~dialog.open
    /\ choice' \in Choices /\ choice' # choice
    /\ UNCHANGED <<panel, api, list, reading, rounds, form, candidates, dialog, request, account, changes>>

\* archive, restore, appoint: the dialog asks first.
Ask ==
    /\ Shown /\ ~dialog.open
    /\ \/ /\ panel = "rename" /\ ~Busy("card")
          /\ dialog' = [open |-> TRUE, member |-> Nobody,
                        ask |-> IF list.status = "active" THEN "archived" ELSE "active"]
       \/ /\ panel = "people" /\ list.status = "active" /\ choice \in Choices
          /\ dialog' = [open |-> TRUE, ask |-> "captain", member |-> choice]
    /\ UNCHANGED <<panel, api, list, reading, rounds, form, candidates, choice, request, account, changes>>

CloseDialog ==
    /\ dialog.open /\ dialog' = Closed
    /\ UNCHANGED <<panel, api, list, reading, rounds, form, candidates, choice, request, account, changes>>

Confirm ==
    /\ dialog.open /\ ~Busy("dialog")
    /\ IF dialog.ask = "captain" THEN Send("dialog", "captain", NoPatch, dialog.member)
       ELSE Send("dialog", "update", [k \in {"status"} |-> dialog.ask], Nobody)
    /\ UNCHANGED <<panel, api, list, reading, rounds, form, candidates, choice, dialog, account, changes>>

-----------------------------------------------------------------------------
\* The API applies a write or refuses it ...
Patched(patch) ==
    [k \in DOMAIN api |-> IF k \in DOMAIN patch THEN patch[k] ELSE api[k]]

Accepts(r) ==
    r.kind = "captain" => r.member \in api.claimed /\ r.member # api.captain

Applied(r) ==
    IF r.kind = "update" THEN Patched(r.patch)
    ELSE IF r.kind = "captain" THEN [api EXCEPT !.captain = r.member]
    ELSE [api EXCEPT !.mine = TRUE]

Apply(by) ==
    /\ Busy(by) /\ request[by].step = "sent" /\ Accepts(request[by])
    /\ api' = Applied(request[by])
    /\ request' = [request EXCEPT ![by].step = "applied",
                                  ![by].answer = Applied(request[by])]
    /\ UNCHANGED <<panel, list, reading, rounds, form, candidates, choice, dialog, account, changes>>

\* ... `adopt` lists the answer, whatever was listed since; after addMe the
\* list is read, which may fail ...
Adopt(by) ==
    /\ Busy(by) /\ request[by].step = "applied"
    /\ IF request[by].kind = "me" THEN list' \in {api, list} ELSE list' = request[by].answer
    /\ request' = [request EXCEPT ![by].step = "adopted"]
    /\ UNCHANGED <<panel, api, reading, rounds, form, candidates, choice, dialog, account, changes>>

\* ... the account is read again, which may fail, and the form or the dialog
\* closes, whatever it shows by now.
Finish(by) ==
    /\ Busy(by) /\ request[by].step = "adopted"
    /\ account' \in {Listed(api), account}
    /\ IF by = "dialog" THEN dialog' = Closed /\ UNCHANGED form
       ELSE /\ form' = IF request[by].kind = "update" THEN None ELSE form
            /\ UNCHANGED dialog
    /\ choice' = IF request[by].kind = "captain" THEN Nobody ELSE choice
    /\ request' = [request EXCEPT ![by] = None]
    /\ UNCHANGED <<panel, api, list, reading, rounds, candidates, changes>>

\* A refusal or a failure is shown, and everything stays as it is.
Refused(by) ==
    /\ Busy(by) /\ request[by].step = "sent"
    /\ request' = [request EXCEPT ![by] = None]
    /\ UNCHANGED <<panel, api, list, reading, rounds, form, candidates, choice, dialog, account, changes>>

Next ==
    \/ Load \/ Loaded \/ Elsewhere \/ CompetitionsRead
    \/ StartRename \/ Edit \/ CancelRename \/ SaveRename \/ AddMe
    \/ LoadCandidates \/ ChooseCaptain \/ Ask \/ CloseDialog \/ Confirm
    \/ \E by \in {"card", "dialog"} : Apply(by) \/ Adopt(by) \/ Finish(by) \/ Refused(by)

Spec == Init /\ [][Next]_vars

-----------------------------------------------------------------------------
\* A rename never asks for a starting round the competition does not have, however late the
\* competitions arrive and whatever the list shows by then, nor for nothing; an appointment is
\* of a member the panel listed.
SentIsAllowed ==
    \A by \in {"card", "dialog"} :
        LET r == request[by] IN
        r # None =>
            /\ r.kind = "update" => DOMAIN r.patch # {}
            /\ "start" \in DOMAIN r.patch => r.patch["start"] <= Regular
            /\ r.kind = "captain" => candidates # None /\ r.member \in candidates

\* The inductive invariant behind it: every league that is listed, read or answered has a
\* starting round of its competition, and so has every patch on its way.
Fits(r) ==
    /\ r = [kind |-> r.kind, patch |-> r.patch, member |-> r.member, step |-> r.step,
            answer |-> r.answer]
    /\ r.kind \in {"update", "captain", "me"} /\ r.step \in {"sent", "applied", "adopted"}
    /\ DOMAIN r.patch \subseteq {"start", "status"}
    /\ "start" \in DOMAIN r.patch => r.patch["start"] \in 1 .. Regular
    /\ "status" \in DOMAIN r.patch => r.patch["status"] \in {"active", "archived"}
    /\ r.step = "applied" => r.answer \in League

ManageInv ==
    /\ api \in League /\ {list, reading} \subseteq League \union {None}
    /\ form # None => list \in League /\ form \in [start : 1 .. Regular + 1]
    /\ dialog.open => dialog.ask \in Asks
    /\ dialog.open /\ dialog.ask = "captain" => candidates # None /\ dialog.member \in candidates
    /\ DOMAIN request = {"card", "dialog"} /\ request = [by \in {"card", "dialog"} |-> request[by]]
    /\ \A by \in {"card", "dialog"} : Busy(by) => Fits(request[by])
    /\ SentIsAllowed
=============================================================================
