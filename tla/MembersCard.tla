------------------------------ MODULE MembersCard ------------------------------
(***************************************************************************)
(* The team sheet on the captain's desk (features/captain/members-card):    *)
(* reserving a name for an email, releasing a claimed one, removing and     *)
(* reinstating a member, adding one; with the API's rules for each          *)
(* (service.py) and the sheet read again after each write.                  *)
(*                                                                         *)
(* One text field serves every row, and one slot says which row is busy,    *)
(* while writes of several rows overlap.  Names are claimed and gather      *)
(* records meanwhile.                                                       *)
(*                                                                         *)
(* Left out: messages and focus, the reason's text (CaseCards), what a      *)
(* withdrawal does to duties and cases (EvidenceCases), the sheet of        *)
(* another league (LeagueLoads).                                            *)
(***************************************************************************)
EXTENDS Naturals, FiniteSets

CONSTANTS
    None,       \* no row, no dialog
    MaxWrites,  \* bound: writes sent
    MaxChanges  \* bound: changes elsewhere

Member == 1 .. 3
Captain == 1        \* the steward's own row too
New == 3            \* the name that may be added
Email == 0 .. 1     \* 0: none
Bad == 2            \* not an address

VARIABLES
    api,        \* member -> [status, email, claimed, records]
    sheet,      \* as the card lists it
    editing,    \* the row whose email is edited, or None
    text,       \* emailControl
    row,        \* history: the row the text was entered in
    busy,       \* memberBusy: a row, or None
    dialog,     \* the reason dialog: [kind, member, deletes, sending], or None
    form,       \* the form of a new member: "empty", "bad", "whole"
    calls,      \* the writes in flight: [kind, member, email, row, at]
    writes, changes

vars == <<api, sheet, editing, text, row, busy, dialog, form, calls, writes, changes>>

Name == [status : {"none", "active", "withdrawn"}, email : Email,
         claimed : BOOLEAN, records : BOOLEAN]

TypeOK ==
    /\ api \in [Member -> Name] /\ sheet \in [Member -> Name]
    /\ editing \in Member \union {None} /\ busy \in Member \union {None}
    /\ row \in Member \union {None} /\ text \in Email \union {Bad}
    /\ form \in {"empty", "bad", "whole"}
    /\ \A c \in calls : c.at \in {"sent", "applied"} /\ c.email \in Email
    /\ writes \in 0 .. MaxWrites /\ changes \in 0 .. MaxChanges

Fresh == [status |-> "active", email |-> 0, claimed |-> FALSE, records |-> FALSE]

Init ==
    /\ \E two \in {Fresh, [Fresh EXCEPT !.claimed = TRUE], [Fresh EXCEPT !.records = TRUE],
                   [Fresh EXCEPT !.status = "withdrawn", !.records = TRUE]} :
       api = [m \in Member |-> IF m = New THEN [Fresh EXCEPT !.status = "none"]
                               ELSE IF m = 2 THEN two ELSE Fresh]
    /\ sheet = api
    /\ editing = None /\ text = 0 /\ row = None /\ busy = None
    /\ dialog = None /\ form = "empty" /\ calls = {} /\ writes = 0 /\ changes = 0

Listed(m) == sheet[m].status = "active"

\* A name is claimed by an account, or is given a record.
Elsewhere ==
    /\ changes < MaxChanges /\ changes' = changes + 1
    /\ \E m \in Member \ {Captain} :
       /\ api[m].status = "active"
       /\ api' \in {[api EXCEPT ![m].claimed = TRUE], [api EXCEPT ![m].records = TRUE]} \ {api}
    /\ UNCHANGED <<sheet, editing, text, row, busy, dialog, form, calls, writes>>

-----------------------------------------------------------------------------
\* edit, cancelEdit: the field takes the row's email.
Edit ==
    /\ dialog = None
    /\ \E m \in Member \ {editing, busy} :
       /\ Listed(m) /\ ~sheet[m].claimed
       /\ editing' = m /\ text' = sheet[m].email /\ row' = m
    /\ UNCHANGED <<api, sheet, busy, dialog, form, calls, writes, changes>>

CancelEdit ==
    /\ editing # None /\ dialog = None
    /\ editing' = None
    /\ UNCHANGED <<api, sheet, text, row, busy, dialog, form, calls, writes, changes>>

EditShown == editing # None /\ Listed(editing) /\ dialog = None

Type ==
    /\ EditShown
    /\ text' \in (Email \union {Bad}) \ {text} /\ row' = editing
    /\ UNCHANGED <<api, sheet, editing, busy, dialog, form, calls, writes, changes>>

Call(kind, m, email) ==
    /\ writes < MaxWrites /\ writes' = writes + 1
    /\ calls' = calls \union {[kind |-> kind, member |-> m, email |-> email, row |-> row, at |-> "sent"]}

\* saveEmail.
SaveEmail ==
    /\ EditShown /\ busy # editing /\ text # Bad
    /\ Call("email", editing, text) /\ busy' = editing
    /\ UNCHANGED <<api, sheet, editing, text, row, dialog, form, changes>>

\* release, removable, remove: the dialog asks first; what it says of a removal
\* follows from the sheet and the records loaded by now.
Removable(m) == m # Captain
Deletes(m) == ~sheet[m].claimed /\ ~sheet[m].records

Ask ==
    /\ dialog = None
    /\ \E m \in Member \ {editing, busy} :
       /\ Listed(m)
       /\ \/ /\ sheet[m].claimed /\ m # Captain
             /\ dialog' = [kind |-> "release", member |-> m, deletes |-> FALSE, sending |-> FALSE]
          \/ /\ Removable(m)
             /\ dialog' = [kind |-> "remove", member |-> m, deletes |-> Deletes(m), sending |-> FALSE]
    /\ UNCHANGED <<api, sheet, editing, text, row, busy, form, calls, writes, changes>>

CloseDialog ==
    /\ dialog # None /\ dialog' = None
    /\ UNCHANGED <<api, sheet, editing, text, row, busy, form, calls, writes, changes>>

\* Only a removal marks its row as busy.
Confirm ==
    /\ dialog # None /\ ~dialog.sending
    /\ Call(dialog.kind, dialog.member, 0)
    /\ dialog' = [dialog EXCEPT !.sending = TRUE]
    /\ busy' = IF dialog.kind = "remove" THEN dialog.member ELSE busy
    /\ UNCHANGED <<api, sheet, editing, text, row, form, changes>>

\* reinstate, from the withdrawn group.
Reinstate ==
    /\ dialog = None
    /\ \E m \in Member \ {busy} :
       /\ sheet[m].status = "withdrawn"
       /\ Call("reinstate", m, 0) /\ busy' = m
    /\ UNCHANGED <<api, sheet, editing, text, row, dialog, form, changes>>

\* addMember: one at a time, once the form has no problems.
Fill ==
    /\ dialog = None
    /\ form' \in {"bad", "whole"} \ {form}
    /\ UNCHANGED <<api, sheet, editing, text, row, busy, dialog, calls, writes, changes>>

Adding == \E c \in calls : c.kind = "add"

AddMember ==
    /\ form = "whole" /\ ~Adding /\ dialog = None
    /\ Call("add", New, 0)
    /\ UNCHANGED <<api, sheet, editing, text, row, busy, dialog, form, changes>>

-----------------------------------------------------------------------------
\* The API: an address is reserved once; a release needs a claim; the captain
\* is not removed, and a name without a claim or records is deleted.
Accepts(c) ==
    /\ c.kind # "add" => api[c.member].status # "none"
    /\ c.kind = "email" => c.email = 0 \/ \A m \in Member \ {c.member} : api[m].email # c.email
    /\ c.kind = "release" => api[c.member].claimed
    /\ c.kind = "remove" => c.member # Captain /\ api[c.member].status = "active"
    /\ c.kind = "reinstate" => api[c.member].status = "withdrawn"
    /\ c.kind = "add" => api[New].status = "none"     \* bound: one name is added

Becomes(c) ==
    LET now == api[c.member] IN
    CASE c.kind = "email"     -> [now EXCEPT !.email = c.email]
      [] c.kind = "release"   -> [now EXCEPT !.claimed = FALSE]
      [] c.kind = "remove"    -> IF now.claimed \/ now.records THEN [now EXCEPT !.status = "withdrawn"]
                                 ELSE [Fresh EXCEPT !.status = "none"]
      [] c.kind = "reinstate" -> [now EXCEPT !.status = "active"]
      [] c.kind = "add"       -> Fresh

Apply ==
    \E c \in calls :
    /\ c.at = "sent" /\ Accepts(c)
    /\ api' = [api EXCEPT ![c.member] = Becomes(c)]
    /\ calls' = (calls \ {c}) \union {[c EXCEPT !.at = "applied"]}
    /\ UNCHANGED <<sheet, editing, text, row, busy, dialog, form, writes, changes>>

\* What the end of a call leaves of the busy slot, whichever row holds it.
Freed(c) == IF c.kind \in {"email", "remove", "reinstate"} THEN None ELSE busy

\* refresh: the sheet is read, then the card goes on.
Answer ==
    \E c \in calls :
    /\ c.at = "applied" /\ calls' = calls \ {c}
    /\ sheet' = api
    /\ editing' = IF c.kind = "email" THEN None ELSE editing
    /\ form' = IF c.kind = "add" THEN "empty" ELSE form
    /\ dialog' = IF c.kind \in {"release", "remove"} THEN None ELSE dialog
    /\ busy' = Freed(c)
    /\ UNCHANGED <<api, text, row, writes, changes>>

\* A refusal, a lost answer or a sheet that could not be read: shown as failed.
Fails ==
    \E c \in calls :
    /\ calls' = calls \ {c}
    /\ dialog' = IF c.kind \in {"release", "remove"} /\ dialog # None
                 THEN [dialog EXCEPT !.sending = FALSE] ELSE dialog
    /\ busy' = Freed(c)
    /\ UNCHANGED <<api, sheet, editing, text, row, form, writes, changes>>

Next ==
    \/ Elsewhere \/ Edit \/ CancelEdit \/ Type \/ SaveEmail
    \/ Ask \/ CloseDialog \/ Confirm \/ Reinstate \/ Fill \/ AddMember
    \/ Apply \/ Answer \/ Fails

Spec == Init /\ [][Next]_vars

-----------------------------------------------------------------------------
\* The address sent for a name was entered in that name's row, although all rows share the field.
SentIsOfItsRow == \A c \in calls : c.kind = "email" => c.row = c.member

\* A row is busy only while a write about it is on its way: no row stays locked.
NothingStaysBusy == busy # None => \E c \in calls : c.member = busy

\* The inductive invariant behind them: the row edited is the one the field was filled in, and
\* the busy row's own call, not just any of its calls, is on its way.
SheetInv ==
    /\ editing # None => row = editing
    /\ dialog # None => /\ dialog.kind \in {"release", "remove"}
                        /\ dialog = [kind |-> dialog.kind, member |-> dialog.member,
                                     deletes |-> dialog.deletes, sending |-> dialog.sending]
    /\ \A c \in calls : c = [kind |-> c.kind, member |-> c.member, email |-> c.email,
                             row |-> c.row, at |-> c.at]
    /\ SentIsOfItsRow
    /\ busy # None => \E c \in calls : c.member = busy /\ c.kind \in {"email", "remove", "reinstate"}
=============================================================================
