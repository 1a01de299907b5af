------------------------------ MODULE PickForm ------------------------------
(***************************************************************************)
(* The match page's own-pick form (picks-panel.ts, picks-panel.form.ts,    *)
(* picks-panel.view.ts): two form controls, a side and a margin, that the  *)
(* scale, the crests, the quick margins, the stepper and typing all write; *)
(* saving them; and the API's kickoff lock (service.py, save_own_pick).    *)
(*                                                                         *)
(* A margin is 0 when it is typed and not a margin, Blank when the control *)
(* is empty.  The panel stays while the page moves to another fixture, and *)
(* one save is under way at a time: the button is off while saving.        *)
(***************************************************************************)
EXTENDS Integers

CONSTANTS
    Fixture,
    NoPick,
    MaxMargin,   \* 150
    Reach        \* SCALE_REACH: the scale's end, and the quick margins are on it

VARIABLES
    shown,       \* fixtureId
    form,        \* the controls: side, margin, and whether the margin is disabled
    editing,
    saving,      \* the request under way, or NoPick
    mine,        \* the member's pick of each fixture, as the page holds it
    stored,      \* and as the API holds it
    kicked       \* the fixtures that have kicked off

vars == <<shown, form, editing, saving, mine, stored, kicked>>

Blank == -1
Side == {"home", "away", "draw"}
NoForm == [side |-> "none", margin |-> Blank, off |-> FALSE]
Pick == [side : Side, margin : 0 .. MaxMargin]

\* The controls after pickFormValue of a pick that is in, or of none.
Filled(pick) ==
    IF pick = NoPick THEN NoForm
    ELSE [side |-> pick.side, margin |-> IF pick.side = "draw" THEN Blank ELSE pick.margin,
          off |-> pick.side = "draw"]

Init ==
    /\ shown \in Fixture
    /\ form = NoForm
    /\ editing = FALSE
    /\ saving = NoPick
    /\ mine = [f \in Fixture |-> NoPick]
    /\ stored = mine
    /\ kicked = {}

\* showForm: before kickoff, until the pick is in or while editing.
ShowForm == shown \notin kicked /\ (mine[shown] = NoPick \/ editing)

\* Mistake: the margin stays off once a draw was chosen.
WithSide_StaysOff(side) ==
    IF side = "draw" THEN [side |-> "draw", margin |-> Blank, off |-> TRUE]
    ELSE [form EXCEPT !.side = side]

\* The side control's subscription: a draw clears the margin and turns it off,
\* any other side turns it on again.
WithSide(side) ==
    IF side = "draw" THEN [side |-> "draw", margin |-> Blank, off |-> TRUE]
    ELSE [form EXCEPT !.side = side, !.off = FALSE]

Parsed(margin) == IF margin \in 1 .. MaxMargin THEN margin ELSE 0

Signed ==
    CASE form.side = "home" -> -Parsed(form.margin)
      [] form.side = "away" -> Parsed(form.margin)
      [] OTHER -> 0

\* Mistake: nothing stops the value at the top.
Within_Low(low, high, n) == IF n < low THEN low ELSE n

Within(low, high, n) == IF n < low THEN low ELSE IF n > high THEN high ELSE n

\* setSigned: toward home is negative, the middle a draw.
WithSigned(n) ==
    IF n = 0 THEN WithSide("draw")
    ELSE [WithSide(IF n < 0 THEN "home" ELSE "away") EXCEPT
            !.margin = IF n < 0 THEN -n ELSE n]

Write(new) ==
    /\ ShowForm
    /\ form' = new
    /\ UNCHANGED <<shown, editing, saving, mine, stored, kicked>>

\* The range, a quick margin or the Draw chip: any value on the scale.
Slide == \E n \in -Reach .. Reach : Write(WithSigned(n))

\* A crest: a point toward that side, through a draw at the middle.
Nudge == \E step \in {-1, 1} :
    Write(WithSigned(Within(-MaxMargin, MaxMargin, Signed + step)))

\* The stepper, once a club is chosen: it keeps the side.
StepMargin ==
    /\ form.side \in {"home", "away"}
    /\ \E delta \in {-1, 1} :
         Write([form EXCEPT !.margin = Within(1, MaxMargin, Parsed(form.margin) + delta)])

TypeMargin == ~form.off /\ \E margin \in Blank .. MaxMargin :
    Write([form EXCEPT !.margin = margin])

Edit ==
    /\ ~ShowForm
    /\ shown \notin kicked
    /\ editing' = TRUE
    /\ form' = Filled(mine[shown])
    /\ UNCHANGED <<shown, saving, mine, stored, kicked>>

Cancel ==
    /\ ShowForm
    /\ editing
    /\ editing' = FALSE
    /\ form' = NoForm
    /\ UNCHANGED <<shown, saving, mine, stored, kicked>>

\* Another fixture starts from a clean form, whatever is under way.
Navigate(f) ==
    /\ f # shown
    /\ shown' = f
    /\ editing' = FALSE
    /\ form' = NoForm
    /\ UNCHANGED <<saving, mine, stored, kicked>>

\* The form is valid when every control that is on is; a control that is off
\* is not looked at.
Valid == form.side # "none" /\ (form.off \/ form.margin \in 1 .. MaxMargin)

\* save, and pickFromForm: a draw has no margin, an empty one counts as 0.
Save ==
    /\ ShowForm
    /\ Valid
    /\ saving = NoPick
    /\ saving' = [fixture |-> shown, step |-> "sent",
                  pick |-> [side |-> form.side,
                            margin |-> IF form.side = "draw" THEN 0 ELSE Parsed(form.margin)]]
    /\ UNCHANGED <<shown, form, editing, mine, stored, kicked>>

\* save_own_pick: kickoff is looked at, then the pick's lock is waited for.
Check ==
    /\ saving # NoPick => saving.step = "sent"
    /\ saving # NoPick
    /\ saving' = [saving EXCEPT !.step = IF saving.fixture \in kicked THEN "locked" ELSE "checked"]
    /\ UNCHANGED <<shown, form, editing, mine, stored, kicked>>

\* The write, and its answer unless the answer is lost.
Store ==
    /\ saving # NoPick => saving.step = "checked"
    /\ saving # NoPick
    /\ stored' = [stored EXCEPT ![saving.fixture] = saving.pick]
    /\ \E step \in {"stored", "failed"} : saving' = [saving EXCEPT !.step = step]
    /\ UNCHANGED <<shown, form, editing, mine, kicked>>

\* The answer: the page adopts the pick and clears the form of the fixture that
\* is shown by now, which need not be the pick's.
Saved ==
    /\ saving # NoPick => saving.step = "stored"
    /\ saving # NoPick
    /\ mine' = [mine EXCEPT ![saving.fixture] = saving.pick]
    /\ saving' = NoPick
    /\ editing' = FALSE
    /\ form' = NoForm
    /\ UNCHANGED <<shown, stored, kicked>>

\* refuse: only a notice; the form keeps what it holds.
Refused ==
    /\ saving # NoPick => saving.step \in {"locked", "failed"}
    /\ saving # NoPick
    /\ saving' = NoPick
    /\ UNCHANGED <<shown, form, editing, mine, stored, kicked>>

\* A refresh of the league's records.
Refresh ==
    /\ mine # stored
    /\ mine' = stored
    /\ UNCHANGED <<shown, form, editing, saving, stored, kicked>>

Kickoff(f) ==
    /\ f \notin kicked
    /\ kicked' = kicked \cup {f}
    /\ UNCHANGED <<shown, form, editing, saving, mine, stored>>

Next ==
    \/ Slide \/ Nudge \/ StepMargin \/ TypeMargin
    \/ Edit \/ Cancel \/ Save \/ Check \/ Store \/ Saved \/ Refused \/ Refresh
    \/ \E f \in Fixture : Navigate(f) \/ Kickoff(f)

Spec == Init /\ [][Next]_vars

-----------------------------------------------------------------------------
TypeOK ==
    /\ shown \in Fixture
    /\ form \in [side : Side \cup {"none"}, margin : Blank .. MaxMargin, off : BOOLEAN]
    /\ editing \in BOOLEAN
    /\ saving = NoPick \/ saving \in [fixture : Fixture, pick : [side : Side, margin : Nat],
            step : {"sent", "checked", "locked", "stored", "failed"}]
    /\ mine \in [Fixture -> [side : Side, margin : Nat] \cup {NoPick}]
    /\ stored \in [Fixture -> [side : Side, margin : Nat] \cup {NoPick}]
    /\ kicked \subseteq Fixture

Whole(pick) == pick.margin = 0 <=> pick.side = "draw"

\* Whatever order the scale, crests, stepper, typing, draws, edits, late answers
\* and moves to other fixtures come in, the two controls agree: the margin is off
\* and empty exactly for a draw, so that the form's validity, which skips a
\* control that is off, lets no pick go with a side and no margin of 1 to 150.
FormIsWhole ==
    /\ form.off <=> form.side = "draw"
    /\ form.off => form.margin = Blank
    /\ saving # NoPick => Whole(saving.pick) /\ saving.pick.margin <= MaxMargin

\* The inductive invariant behind it: whatever is written to one control, the other agrees.
Controls(f) ==
    /\ f \in [side : Side \cup {"none"}, margin : Int, off : BOOLEAN]
    /\ f.off <=> f.side = "draw"
    /\ f.off => f.margin = Blank

Request ==
    {r \in [fixture : Fixture, pick : [side : Side, margin : Nat],
            step : {"sent", "checked", "locked", "stored", "failed"}] :
       Whole(r.pick) /\ r.pick.margin <= MaxMargin}

FormInv ==
    /\ shown \in Fixture /\ Controls(form)
    /\ saving # NoPick => saving \in Request
    /\ {mine, stored} \subseteq [Fixture -> [side : Side, margin : Nat] \cup {NoPick}]
=============================================================================
