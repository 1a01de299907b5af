------------------------------ MODULE DutyDialogs ------------------------------
(***************************************************************************)
(* The two dialogs of the duty register: evidence of a duty                 *)
(* (evidence-dialog.ts), opened from the duty's card (duty-card.ts), and    *)
(* the captain's new duty (create-duty-dialog.ts and its form).             *)
(*                                                                         *)
(* Either dialog can be closed while its submission is on the way, opened   *)
(* again and filled in for something else: the answer then closes what it   *)
(* finds open.  One dialog is modelled at a time.                           *)
(***************************************************************************)
EXTENDS Naturals, FiniteSets

CONSTANTS
    Members,   \* in the season
    Fixtures,  \* of the first of two rounds
    Nobody,    \* no member, no duty, no submission
    MaxChanges \* bound: changes of a duty by others, kickoffs

VARIABLES
    kind,      \* "evidence" or "create": the dialog this behaviour is of
    captain,   \* whether the viewer administers the league
    stage,     \* duty -> where the register says it stands
    open,      \* whether the dialog shows
    shown,     \* the duty the evidence dialog was opened for
    form,      \* what is filled in
    unticked,  \* fixtures left off the pick confirmation
    locked,    \* fixtures that have kicked off
    lacking,   \* fixture -> the members without a pick of their own there
    invalid,   \* controls marked as wanting
    cards,     \* the alert cards of this dialog: "warning", "failure"
    sent,      \* the submission on the way
    changes

vars == <<kind, captain, stage, open, shown, form, unticked, locked, lacking, invalid, cards,
          sent, changes>>

register == <<stage, locked, changes>>
settled == <<kind, captain, lacking>>

Duties == {"own", "other"}
Mine(d) == d = "own"

\* A duty as its card reads it: its status, the latest evidence's decision, and
\* the live case of the evidence that is pending.
Entry == [
    undated   |-> [status |-> "pending_deadline", latest |-> "none", vote |-> "none"],
    waiting   |-> [status |-> "open", latest |-> "none", vote |-> "none"],
    voting    |-> [status |-> "open", latest |-> "pending", vote |-> "open"],
    vetoed    |-> [status |-> "open", latest |-> "pending", vote |-> "in_review"],
    rejected  |-> [status |-> "open", latest |-> "rejected", vote |-> "none"],
    completed |-> [status |-> "completed", latest |-> "accepted", vote |-> "none"],
    voided    |-> [status |-> "voided", latest |-> "superseded", vote |-> "none"]]
Stages == DOMAIN Entry

IsLive(d) == Entry[stage[d]].status \in {"open", "pending_deadline"}

\* What the card offers ...
CanUpload(d) == Mine(d) /\ IsLive(d)
CanRecord(d) == captain /\ ~Mine(d) /\ IsLive(d)
CanReset(d) == captain /\ ~Mine(d) /\ Entry[stage[d]].status = "open"
CaptainTools(d) == CanReset(d) \/ (captain /\ IsLive(d))

\* ... and what its lead panel says.
Lead(d) ==
    LET e == Entry[stage[d]] IN
    IF e.status \in {"completed", "voided"} THEN e.status
    ELSE IF e.vote # "none" THEN IF e.vote = "open" THEN "voting" ELSE "ruling"
    ELSE IF e.latest = "pending" THEN "submitted"
    ELSE IF e.latest = "rejected" THEN "again"
    ELSE IF Mine(d) THEN "upload" ELSE "wait"

\* The forms as they open.
NoEvidence == [file |-> Nobody, completed |-> ""]
NoDuty == [member |-> Nobody, type |-> "spoon", round |-> 1, deadline |-> ""]
Prefill == {NoDuty} \union {[NoDuty EXCEPT !.member = m, !.round = 2] : m \in Members}

TypeOK ==
    /\ kind \in {"evidence", "create"} /\ captain \in BOOLEAN
    /\ stage \in [Duties -> Stages] /\ open \in BOOLEAN
    /\ shown \in Duties \union {Nobody}
    /\ unticked \subseteq Fixtures /\ locked \subseteq Fixtures
    /\ lacking \in [Fixtures -> SUBSET Members]
    /\ invalid \subseteq {"file", "completed", "member", "deadline"}
    /\ cards \subseteq {"warning", "failure"}
    /\ changes \in 0 .. MaxChanges

Init ==
    /\ kind \in {"evidence", "create"} /\ captain \in BOOLEAN
    /\ kind = "create" => captain
    /\ stage \in [Duties -> Stages]
    /\ open = FALSE /\ shown = Nobody /\ unticked = {} /\ invalid = {} /\ cards = {}
    /\ form = IF kind = "evidence" THEN NoEvidence ELSE NoDuty
    /\ locked \in SUBSET Fixtures /\ lacking \in [Fixtures -> SUBSET Members]
    /\ sent = Nobody /\ changes = 0

busy == sent # Nobody

-----------------------------------------------------------------------------
\* Others move a duty on; matches kick off.
Later == [undated |-> {"waiting", "voting", "voided"}, waiting |-> {"voting", "voided"},
          voting |-> {"vetoed", "rejected", "completed", "voided"},
          vetoed |-> {"rejected", "completed", "voided"}, rejected |-> {"voting", "voided"},
          completed |-> {}, voided |-> {}]

Elsewhere ==
    /\ kind = "evidence" /\ changes < MaxChanges /\ changes' = changes + 1
    /\ \E d \in Duties : \E s \in Later[stage[d]] : stage' = [stage EXCEPT ![d] = s]
    /\ UNCHANGED <<settled, open, shown, form, unticked, locked, invalid, cards, sent>>

KicksOff ==
    /\ kind = "create" /\ changes < MaxChanges /\ changes' = changes + 1
    /\ \E f \in Fixtures \ locked : locked' = locked \union {f}
    /\ UNCHANGED <<settled, stage, open, shown, form, unticked, invalid, cards, sent>>

-----------------------------------------------------------------------------
\* open of the evidence dialog, from the card's button.
OpenEvidence(d) ==
    /\ kind = "evidence" /\ ~open
    /\ CanUpload(d) \/ CanRecord(d)
    /\ shown' = d /\ form' = NoEvidence /\ invalid' = {} /\ open' = TRUE
    /\ UNCHANGED <<settled, register, unticked, cards, sent>>

\* open of the new duty, empty or proposed from the round table.
OpenDuty ==
    /\ kind = "create" /\ ~open
    /\ form' \in Prefill /\ unticked' = {} /\ invalid' = {} /\ open' = TRUE
    /\ UNCHANGED <<settled, register, shown, cards, sent>>

\* However the dialog closes, its warning goes with it.
Close ==
    /\ open /\ open' = FALSE
    /\ cards' = cards \ {"warning"}
    /\ UNCHANGED <<settled, register, shown, form, unticked, invalid, sent>>

\* A refusal: the controls are marked and one warning says why.
Warn(controls) == invalid' = controls /\ cards' = cards \union {"warning"}

-----------------------------------------------------------------------------
\* pickFile: a video of the right size, another file, or none.
PickFile ==
    /\ kind = "evidence" /\ open
    /\ \/ /\ form' = [form EXCEPT !.file = Nobody]
          /\ Warn({"file"})
       \/ /\ \E file \in {Nobody, shown} : form' = [form EXCEPT !.file = file]
          /\ IF "file" \in invalid THEN invalid' = {} /\ cards' = cards \ {"warning"}
             ELSE UNCHANGED <<invalid, cards>>
    /\ UNCHANGED <<settled, register, open, shown, unticked, sent>>

\* The completion time, asked for on behalf of another member.
FillCompleted ==
    /\ kind = "evidence" /\ open /\ ~Mine(shown)
    /\ \E at \in {"", "past", "future"} :
          at # form.completed /\ form' = [form EXCEPT !.completed = at]
    /\ invalid' = invalid \ {"completed"}
    /\ UNCHANGED <<settled, register, open, shown, unticked, cards, sent>>

\* submit of the evidence dialog.
MayBeCompleted == Mine(shown) \/ form.completed = "past"

SubmitEvidence ==
    /\ kind = "evidence" /\ open /\ ~busy
    /\ form.file # Nobody
    /\ IF MayBeCompleted
       THEN /\ invalid' = {} /\ cards' = cards \ {"warning"}
            /\ sent' = [duty |-> shown, file |-> form.file,
                        subject |-> IF Mine(shown) THEN Nobody ELSE shown,
                        completed |-> IF Mine(shown) THEN "" ELSE form.completed]
       ELSE Warn({"completed"}) /\ UNCHANGED sent
    /\ UNCHANGED <<settled, register, open, shown, form, unticked>>

-----------------------------------------------------------------------------
\* The form of a new duty.
Fill ==
    /\ kind = "create" /\ open
    /\ \/ \E m \in Members : form' = [form EXCEPT !.member = m] /\ invalid' = invalid \ {"member"}
       \/ \E t \in {"spoon", "pick_confirmation"} : form' = [form EXCEPT !.type = t] /\ UNCHANGED invalid
       \/ \E r \in {1, 2} : form' = [form EXCEPT !.round = r] /\ UNCHANGED invalid
       \/ /\ \E at \in {"", "bad", "good"} : form' = [form EXCEPT !.deadline = at]
          /\ invalid' = invalid \ {"deadline"}
    /\ form' # form
    /\ UNCHANGED <<settled, register, open, shown, unticked, cards, sent>>

\* pickFixtures: what the confirmation can cover.
Candidates ==
    IF form.type = "pick_confirmation" /\ form.round = 1
    THEN {f \in locked : form.member \in lacking[f]} ELSE {}

Toggle ==
    /\ kind = "create" /\ open
    /\ \E f \in Candidates :
          unticked' = IF f \in unticked THEN unticked \ {f} ELSE unticked \union {f}
    /\ UNCHANGED <<settled, register, open, shown, form, invalid, cards, sent>>

\* dutyProblems: a spoon duty may wait for its deadline, a confirmation may not.
Problems ==
    {c \in {"member", "deadline"} :
        \/ c = "member" /\ form.member = Nobody
        \/ c = "deadline" /\ (form.deadline = "bad"
                              \/ (form.deadline = "" /\ form.type # "spoon"))}

SubmitDuty ==
    /\ kind = "create" /\ open /\ ~busy
    /\ IF Problems = {}
       THEN /\ invalid' = {} /\ cards' = cards \ {"warning"}
            /\ sent' = [member |-> form.member, type |-> form.type, round |-> form.round,
                        deadline |-> form.deadline, fixtures |-> Candidates \ unticked]
       ELSE Warn(Problems) /\ UNCHANGED sent
    /\ UNCHANGED <<settled, register, open, shown, form, unticked>>

-----------------------------------------------------------------------------
\* The answer: recorded, and the dialog closes, whatever it shows by now; or
\* refused, as it must be for a duty that is no longer live.
Recorded ==
    /\ busy
    /\ kind = "evidence" => IsLive(sent.duty)
    /\ stage' = IF kind = "evidence" THEN [stage EXCEPT ![sent.duty] = "voting"] ELSE stage
    /\ open' = FALSE /\ cards' = {} /\ sent' = Nobody
    /\ UNCHANGED <<settled, shown, form, unticked, locked, invalid, changes>>

Refused ==
    /\ busy
    /\ cards' = cards \union {"failure"} /\ sent' = Nobody
    /\ UNCHANGED <<settled, register, open, shown, form, unticked, invalid>>

Next ==
    \/ Elsewhere \/ KicksOff
    \/ \E d \in Duties : OpenEvidence(d)
    \/ OpenDuty \/ Close
    \/ PickFile \/ FillCompleted \/ SubmitEvidence
    \/ Fill \/ Toggle \/ SubmitDuty
    \/ Recorded \/ Refused

Spec == Init /\ [][Next]_vars

-----------------------------------------------------------------------------
\* The evidence on the way is the video chosen for its duty, with the time of completion
\* exactly when it is another member's; a confirmation has its deadline and covers only
\* matches that have kicked off without a pick of the member's own.
SentIsMeant ==
    busy => IF kind = "evidence"
            THEN sent.file = sent.duty /\ (sent.completed = "past" <=> ~Mine(sent.duty))
                 /\ (sent.subject = Nobody <=> Mine(sent.duty))
            ELSE /\ sent.member # Nobody
                 /\ sent.type # "spoon" => sent.deadline = "good"
                 /\ \A f \in sent.fixtures :
                       sent.type # "spoon" /\ f \in locked /\ sent.member \in lacking[f]

\* A warning is shown only over its dialog.
WarningHasDialog == "warning" \in cards => open

\* The card asks for evidence exactly where it offers to take it or waits for somebody who can.
LeadFitsTools ==
    \A d \in Duties :
        /\ Lead(d) = "upload" => CanUpload(d)
        /\ (Lead(d) \in {"completed", "voided"}) <=> ~IsLive(d)
        /\ CaptainTools(d) => Lead(d) \notin {"completed", "voided"}

\* The inductive invariant behind them: the chosen video is the shown duty's whatever was
\* opened before, and what is on the way keeps what was so when it was sent.
DialogInv ==
    /\ kind \in {"evidence", "create"} /\ stage \in [Duties -> Stages]
    /\ shown \in Duties \union {Nobody}
    /\ kind = "evidence" => /\ form.file \in {Nobody, shown}
                            /\ open => shown \in Duties
                            /\ form = [file |-> form.file, completed |-> form.completed]
    /\ kind = "create" => form.deadline \in {"", "bad", "good"}
           /\ form = [member |-> form.member, type |-> form.type, round |-> form.round,
                      deadline |-> form.deadline]
    /\ busy /\ kind = "evidence" => sent.duty \in Duties
    /\ SentIsMeant /\ WarningHasDialog
=============================================================================
