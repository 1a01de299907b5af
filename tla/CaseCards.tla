----------------------------- MODULE CaseCards -----------------------------
(***************************************************************************)
(* One evidence case as a member sees and acts on it: the case card        *)
(* (case-card.ts), the desk's override (evidence-review.ts), the reason    *)
(* dialog they share (reason-dialog.ts), the requests behind them          *)
(* (case-control.service.ts, http-league-data.ts) and the version by which *)
(* the API knows a ruling made on an older case (cases.py, review).        *)
(*                                                                         *)
(* The member may vote, and rule on anybody's veto but their own.  The     *)
(* page holds the case as it last read it.  The dialog is modal, can be    *)
(* closed and opened again while its request is under way, and its         *)
(* `busy` outlives it.                                                     *)
(***************************************************************************)
EXTENDS Integers

CONSTANTS
    None,
    MaxVersion   \* bound: the case's changes

VARIABLES
    api,        \* the case: status, version, the pending veto (by its number) and whose it is
    page,       \* as the page holds it
    dialog,     \* the reason dialog: open, its request, the reason given, marked invalid
    action,     \* the dialog's request under way and how far it is, or None
    accepting,  \* the card's accept: "no", "sent" or "refreshing"
    reloading,  \* a reload after a 409 is under way
    ruled       \* the vetoes ruled on here: the one seen and the one the API ruled

vars == <<api, page, dialog, action, accepting, reloading, ruled>>

Kind == {"veto", "upheld", "dismissed", "override"}
Request == [kind : Kind, version : 0 .. MaxVersion, veto : 0 .. MaxVersion]

Init ==
    /\ api = [status |-> "open", version |-> 0, veto |-> 0, own |-> FALSE, mine |-> "none"]
    /\ page = api
    /\ dialog = [open |-> FALSE, request |-> None, reason |-> FALSE, invalid |-> FALSE]
    /\ action = None
    /\ accepting = "no"
    /\ reloading = FALSE
    /\ ruled = {}

\* case_views.
CanRespond(c) == c.status = "open" /\ c.mine # "veto"
CanReview(c) == c.status = "in_review" /\ ~c.own

Changed(c) == [c EXCEPT !.version = c.version + 1]
Closed(c) == [Changed(c) EXCEPT !.status = "closed", !.veto = 0, !.own = FALSE]
Reopened(c) == [Changed(c) EXCEPT !.status = "open", !.veto = 0, !.own = FALSE]
Vetoed(c, own) ==
    [Changed(c) EXCEPT !.status = "in_review", !.veto = c.version + 1, !.own = own]

\* Others vote, rule, override and submit again, and the window closes.
Elsewhere ==
    /\ api.version < MaxVersion
    /\ \/ api.status = "open" /\ api' \in {Vetoed(api, FALSE), Closed(api)}
       \/ api.status = "in_review" /\ api' \in {Reopened(api), Closed(api)}
    /\ UNCHANGED <<page, dialog, action, accepting, reloading, ruled>>

\* The panel: a ballot, a ruling, or the desk's override of pending evidence.
Offered(kind) ==
    CASE kind = "veto" -> CanRespond(page)
      [] kind = "override" -> page.status # "closed"
      [] OTHER -> CanReview(page)

Open(kind) ==
    /\ ~dialog.open
    /\ Offered(kind)
    /\ dialog' = [open |-> TRUE, reason |-> FALSE, invalid |-> FALSE,
                  request |-> [kind |-> kind, version |-> page.version, veto |-> page.veto]]
    /\ UNCHANGED <<api, page, action, accepting, reloading, ruled>>

GiveReason ==
    /\ dialog.open
    /\ dialog' = [dialog EXCEPT !.reason = TRUE, !.invalid = FALSE]
    /\ UNCHANGED <<api, page, action, accepting, reloading, ruled>>

Dismiss ==
    /\ dialog.open
    /\ dialog' = [dialog EXCEPT !.open = FALSE]
    /\ UNCHANGED <<api, page, action, accepting, reloading, ruled>>

\* An accepted override needs no reason.
Submit ==
    /\ dialog.open
    /\ action = None                                        \* busy
    /\ IF dialog.reason \/ dialog.request.kind = "override"
       THEN action' = [request |-> dialog.request, step |-> "sent"] /\ UNCHANGED dialog
       ELSE dialog' = [dialog EXCEPT !.invalid = TRUE] /\ UNCHANGED action
    /\ UNCHANGED <<api, page, accepting, reloading, ruled>>

\* respond, review and the override: what the request makes of the case, if anything.
Fresh_Any(request) == TRUE     \* Mistake: the version is not looked at.
Fresh(request) == request.version = api.version

Outcomes(request) ==
    CASE request.kind = "veto" ->
           IF CanRespond(api) THEN {[Vetoed(api, TRUE) EXCEPT !.mine = "veto"]} ELSE {}
      [] request.kind = "upheld" ->
           IF Fresh(request) /\ CanReview(api) THEN {Closed(api)} ELSE {}
      [] request.kind = "dismissed" ->
           IF Fresh(request) /\ CanReview(api) THEN {Reopened(api), Closed(api)} ELSE {}
      [] OTHER -> IF api.status # "closed" THEN {Closed(api)} ELSE {}

Ruling(request) == request.kind \in {"upheld", "dismissed"}

\* The request takes effect and the records are read; its answer may be lost, which
\* leaves the dialog open over a case that has changed.
TakesEffect ==
    /\ action # None => action.step = "sent" /\ Outcomes(action.request) # {}
    /\ action # None
    /\ api.version < MaxVersion
    /\ api' \in Outcomes(action.request)
    /\ ruled' = IF Ruling(action.request) THEN ruled \cup {<<action.request.veto, api.veto>>} ELSE ruled
    /\ action' \in {None, [action EXCEPT !.step = "refreshing"]}
    /\ UNCHANGED <<page, dialog, accepting, reloading>>

\* A refusal: the dialog, whatever it shows by now, closes with a warning, and the
\* records are read again.
IsRefused ==
    /\ action # None => action.step = "sent" /\ Outcomes(action.request) = {}
    /\ action # None
    /\ reloading' = TRUE
    /\ dialog' = [dialog EXCEPT !.open = FALSE]
    /\ action' = None
    /\ UNCHANGED <<api, page, accepting, ruled>>

\* The request is lost, or the reading after it: a failure card, and the dialog stays.
Fails ==
    /\ action # None
    /\ action' = None
    /\ UNCHANGED <<api, page, dialog, accepting, reloading, ruled>>

Done ==
    /\ action # None => action.step = "refreshing"
    /\ action # None
    /\ page' = api
    /\ dialog' = [dialog EXCEPT !.open = FALSE]
    /\ action' = None
    /\ UNCHANGED <<api, accepting, reloading, ruled>>

\* The card's accept has no dialog: the accept that makes a majority closes the case.
Accept ==
    /\ accepting = "no"
    /\ CanRespond(page)
    /\ page.mine # "accept"
    /\ accepting' = "sent"
    /\ UNCHANGED <<api, page, dialog, action, reloading, ruled>>

AcceptArrives ==
    /\ accepting = "sent"
    /\ IF CanRespond(api)
       THEN /\ api' \in {[api EXCEPT !.mine = "accept"]} \cup
                        (IF api.mine = "none" /\ api.version < MaxVersion
                         THEN {[Closed(api) EXCEPT !.mine = "accept"]} ELSE {})
            /\ accepting' \in {"no", "refreshing"}
            /\ UNCHANGED reloading
       ELSE accepting' = "no" /\ reloading' = TRUE /\ UNCHANGED api
    /\ UNCHANGED <<page, dialog, action, ruled>>

AcceptEnds ==
    /\ accepting # "no"
    /\ accepting' = "no"
    /\ page' \in {page} \cup (IF accepting = "refreshing" THEN {api} ELSE {})
    /\ UNCHANGED <<api, dialog, action, reloading, ruled>>

\* The reload, and the refresh of a page that comes back into view.
Reload ==
    /\ page' = api
    /\ reloading' = FALSE
    /\ UNCHANGED <<api, dialog, action, accepting, ruled>>

Next ==
    \/ Elsewhere \/ GiveReason \/ Dismiss \/ Submit \/ TakesEffect \/ IsRefused \/ Fails \/ Done
    \/ Accept \/ AcceptArrives \/ AcceptEnds \/ Reload
    \/ \E kind \in Kind : Open(kind)

Spec == Init /\ [][Next]_vars

-----------------------------------------------------------------------------
Case == [status : {"open", "in_review", "closed"}, version : 0 .. MaxVersion,
         veto : 0 .. MaxVersion, own : BOOLEAN, mine : {"none", "accept", "veto"}]

TypeOK ==
    /\ api \in Case /\ page \in Case
    /\ dialog \in [open : BOOLEAN, request : Request \cup {None}, reason : BOOLEAN, invalid : BOOLEAN]
    /\ action = None \/ action \in [request : Request, step : {"sent", "refreshing"}]
    /\ accepting \in {"no", "sent", "refreshing"}
    /\ reloading \in BOOLEAN
    /\ ruled \subseteq (0 .. MaxVersion) \X (0 .. MaxVersion)

\* A ruling falls on the veto its reviewer read: not on the next veto of the same
\* case when the first was ruled on meanwhile, however long the dialog stood open,
\* nor when a ruling whose answer was lost is sent again.
RulingsWereMeant == \A pair \in ruled : pair[1] = pair[2]

\* The inductive invariant behind it: a copy of the case, or a request made from one, is never
\* ahead of the API, and one of the API's version has the veto that waits there.
Behind(copy, c) == copy.version <= c.version /\ (copy.version = c.version => copy.veto = c.veto)

RulingInv ==
    /\ TypeOK
    /\ Behind(page, api)
    /\ dialog.open => dialog.request \in Request /\ Behind(dialog.request, api)
    /\ action # None => Behind(action.request, api)
    /\ RulingsWereMeant
=============================================================================
