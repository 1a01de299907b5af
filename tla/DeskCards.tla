------------------------------ MODULE DeskCards ------------------------------
(***************************************************************************)
(* The cards of the captain's desk that keep a draft of what the league     *)
(* has saved: Superbru rules (rules-card.ts, rules-form.ts), the stand-in   *)
(* reviewer (stand-in-card.ts), the league's look (appearance-card.ts) and  *)
(* the join link (join-link-card.ts), which has no draft.                   *)
(*                                                                         *)
(* Another steward changes the same values at the API, answers of earlier   *)
(* reads arrive late, and a write may take effect although its answer is    *)
(* lost.  One card is modelled at a time: they share no values.             *)
(***************************************************************************)
EXTENDS Naturals, FiniteSets

CONSTANTS
    Unset,     \* a draft of the look that keeps what is saved
    MaxChanges \* bound: changes by somebody else, new join codes

VARIABLES
    card,      \* the card this behaviour is of
    api,       \* field -> the value the API keeps
    saved,     \* as the browser holds it
    draft,     \* what the card's fields hold
    touched,   \* the fields edited since the card last followed `saved`
    task,      \* what the card is doing
    reading,   \* the values of a read whose answer has not arrived, or none
    changes

vars == <<card, api, saved, draft, touched, task, reading, changes>>

Fields == [rules |-> {"flag", "regular", "final"}, standIn |-> {"member"},
           look |-> {"emblem", "accent"}, join |-> {"code"}]
Field == Fields[card]
Value == {0, 1}
Bad == 2           \* a number outside its range, or none

\* A rule of its own, or part of the win points, which are one value.
KeyOf(f) == IF f \in {"regular", "final"} THEN "winPoints" ELSE f
Keys(fields) == {KeyOf(f) : f \in fields}

NoTask == [step |-> "none", sent |-> {}, wanted |-> [f \in Field |-> 0], chosen |-> {}]
Idle == task.step = "none"
Unsaved == [f \in Field |-> IF card = "look" THEN Unset ELSE saved[f]]

\* What the card shows.
Shown == [f \in Field |-> IF draft[f] = Unset THEN saved[f] ELSE draft[f]]

TypeOK ==
    /\ card \in DOMAIN Fields
    /\ api \in [Field -> Nat] /\ saved \in [Field -> Nat]
    /\ draft \in [Field -> 0 .. MaxChanges + 2 \union {Unset}]
    /\ touched \subseteq Field
    /\ task.step \in {"none", "preparing", "saving"} /\ task.sent \subseteq Keys(Field)
    /\ \A values \in reading : values \in [Field -> Nat]
    /\ changes \in 0 .. MaxChanges

Init ==
    /\ card \in DOMAIN Fields
    /\ api \in [Field -> Value]
    /\ saved = api
    /\ draft = Unsaved
    /\ touched = {} /\ task = NoTask /\ reading = {} /\ changes = 0

-----------------------------------------------------------------------------
\* The card follows the saved values: the rules and the stand-in when they
\* differ from the ones before, the look's draft never.
Follow(values) ==
    /\ saved' = values
    /\ IF card = "look" \/ values = saved THEN UNCHANGED <<draft, touched>>
       ELSE draft' = values /\ touched' = {}

\* A read of the league's values, answered by the API now ...
Read ==
    /\ reading = {}
    /\ reading' = {api}
    /\ UNCHANGED <<card, api, saved, draft, touched, task, changes>>

\* ... and adopted later.
ReadArrives ==
    /\ \E values \in reading : Follow(values)
    /\ reading' = {}
    /\ UNCHANGED <<card, api, task, changes>>

\* Another steward saves.
Elsewhere ==
    /\ changes < MaxChanges /\ changes' = changes + 1
    /\ \E f \in Field : \E v \in Value : api[f] # v /\ api' = [api EXCEPT ![f] = v]
    /\ card # "join"
    /\ UNCHANGED <<card, saved, draft, touched, task, reading>>

-----------------------------------------------------------------------------
\* Editing.  The rules and the look are disabled while they are saved; the
\* stand-in is not.
Edit(f) ==
    /\ card # "join" /\ (card = "standIn" \/ Idle)
    /\ \E v \in Value \union (IF card = "rules" /\ f # "flag" THEN {Bad} ELSE {}) :
          v # Shown[f] /\ draft' = [draft EXCEPT ![f] = v]
    /\ touched' = touched \union {f}
    /\ UNCHANGED <<card, api, saved, task, reading, changes>>

\* chooseFile: the image is prepared before it is the draft's, or refused.
ChooseFile ==
    /\ card = "look" /\ Idle
    /\ task' = [NoTask EXCEPT !.step = "preparing"]
    /\ UNCHANGED <<card, api, saved, draft, touched, reading, changes>>

FilePrepared ==
    /\ task.step = "preparing"
    /\ task' = NoTask
    /\ \/ /\ draft' = [draft EXCEPT !["emblem"] = 1]
          /\ touched' = touched \union {"emblem"}
       \/ UNCHANGED <<draft, touched>>
    /\ UNCHANGED <<card, api, saved, reading, changes>>

\* undo, discard; the look's also while an image is prepared.
Discard ==
    /\ card \in {"rules", "look"} /\ task.step # "saving" /\ touched # {}
    /\ card = "rules" => Idle
    /\ draft' = Unsaved /\ touched' = {}
    /\ UNCHANGED <<card, api, saved, task, reading, changes>>

-----------------------------------------------------------------------------
\* Saving.

\* rulesChange, the look's change: the keys that differ from what is saved; an
\* emblem is sent whenever one was chosen.
Change == Keys({f \in Field : draft[f] \notin {Unset, saved[f]} \/ (f = "emblem" /\ draft[f] # Unset)})

\* save.  Invalid rules are pointed at; a draft equal to what is saved is only
\* marked as unedited.
Save ==
    /\ card # "join" /\ Idle /\ touched # {}
    /\ \A f \in Field : draft[f] # Bad
    /\ IF Change = {}
       THEN draft' = Unsaved /\ touched' = {} /\ UNCHANGED task
       ELSE /\ task' = [step |-> "saving", sent |-> Change, chosen |-> Keys(touched),
                         wanted |-> [f \in Field |-> IF KeyOf(f) \in Change THEN Shown[f] ELSE 0]]
            /\ UNCHANGED <<draft, touched>>
    /\ UNCHANGED <<card, api, saved, reading, changes>>

\* The values once the keys that were sent are written.
Written == [f \in Field |-> IF KeyOf(f) \in task.sent THEN task.wanted[f] ELSE api[f]]

\* The write takes effect and its answer replaces what is saved; the look's
\* draft is spent.  An answer that is lost, or a write that is refused, leaves
\* the draft as it is.
SaveEnds ==
    /\ card # "join" /\ task.step = "saving"
    /\ task' = NoTask
    /\ \/ /\ api' = Written
          /\ saved' = Written
          /\ IF card = "look" THEN draft' = [f \in Field |-> Unset] /\ touched' = {}
             ELSE IF Written # saved THEN draft' = Written /\ touched' = {}
             ELSE touched' = (IF card = "rules" THEN {} ELSE touched) /\ UNCHANGED draft
       \/ api' \in {Written, api} /\ UNCHANGED <<saved, draft, touched>>
    /\ UNCHANGED <<card, reading, changes>>

\* rotate, closeJoining, openJoining: 0 is a league that is closed.
NewCode ==
    /\ card = "join" /\ Idle /\ changes < MaxChanges
    /\ changes' = changes + 1
    /\ \E code \in {0, changes + 2} :
          /\ code = 0 => saved["code"] # 0
          /\ task' = [step |-> "saving", sent |-> {"code"}, wanted |-> [f \in Field |-> code],
                      chosen |-> {"code"}]
    /\ UNCHANGED <<card, api, saved, draft, touched, reading>>

CodeAnswers ==
    /\ card = "join" /\ task.step = "saving"
    /\ \/ api' = Written /\ saved' = Written /\ draft' = Written
       \/ api' \in {Written, api} /\ UNCHANGED <<saved, draft>>
    /\ task' = NoTask
    /\ UNCHANGED <<card, touched, reading, changes>>

Next ==
    \/ Read \/ ReadArrives \/ Elsewhere \/ ChooseFile \/ FilePrepared \/ Discard
    \/ Save \/ SaveEnds \/ NewCode \/ CodeAnswers
    \/ \E f \in Field : Edit(f)

Spec == Init /\ [][Next]_vars

-----------------------------------------------------------------------------
\* "Saving sends only the rules that changed" (rules-card.ts:43): whatever was
\* read, saved or changed elsewhere since, a save writes no key of which no
\* field was edited in the draft it was made from, on any card.
SavesOnlyChoices == task.sent \subseteq task.chosen

\* A card nobody has edited shows what is saved, after any order of answers
\* (rules-card.ts:110, stand-in-card.ts:57, appearance-card.ts:80).
UntouchedIsSaved == touched = {} => Shown = saved

\* The inductive invariant behind the two: a field that differs from what is saved was edited;
\* the look's draft holds only what was edited; and the rules, disabled while they are saved, are
\* on their way wherever they differ.
Differs(f) == draft[f] \notin {Unset, saved[f]}

DeskInv ==
    /\ card \in DOMAIN Fields
    /\ api \in [Field -> Nat] /\ saved \in [Field -> Nat] /\ draft \in [Field -> Nat \union {Unset}]
    /\ touched \subseteq Field /\ reading \subseteq [Field -> Nat] /\ changes \in Nat
    /\ task \in [step : {"none", "preparing", "saving"}, sent : SUBSET Keys(Field),
                 wanted : [Field -> Nat], chosen : SUBSET Keys(Field)]
    /\ task.step = "preparing" => card = "look"
    /\ SavesOnlyChoices
    /\ \A f \in Field : Differs(f) => f \in touched
    /\ card = "look" => \A f \in Field : draft[f] # Unset => f \in touched
    /\ card = "rules" /\ ~Idle =>
          \A f \in Field : Differs(f) => KeyOf(f) \in task.sent /\ task.wanted[f] = draft[f]
=============================================================================
