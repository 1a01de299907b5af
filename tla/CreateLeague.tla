---------------------------- MODULE CreateLeague ----------------------------
(***************************************************************************)
(* The management centre's new-league form (create-league-form.ts,         *)
(* create-league-form.form.ts, member-rows.ts): the subscriptions by which *)
(* one control writes another, the team sheet's rows, the checks, and the  *)
(* one request that makes the league.                                      *)
(*                                                                         *)
(* A Superbru name is a number; n and -n are spelled alike but for case.   *)
(* `zone` stands for the time zone and the season name, which the          *)
(* competition fills in alike.  The inputs stay open while the request is  *)
(* under way; only the button is off.                                      *)
(***************************************************************************)
EXTENDS Integers, FiniteSets, Sequences, SequencesExt

CONSTANTS
    Spelling,    \* the Superbru names typed: numbers other than 0
    Competition,
    None,
    StartingRows, \* STARTING_ROWS
    MaxMembers,  \* MAX_MEMBERS
    MaxEdits     \* bound: edits of the form

VARIABLES
    rows,       \* the team sheet: a name, Blank, or Half: a row without its Superbru name
    captain,    \* a spelling, or NoName
    look,       \* captainIsMe, captainEmail and addMe
    title,      \* the name and the slug: 0 blank, 1 the name's, 2 typed; slugEdited
    place,      \* the competition, the zone it filled in or the typed one, zoneEdited
    options,    \* the competition list has been loaded
    apiField,   \* the field a refusal marked
    sent,       \* the request under way, or None
    edits

vars == <<rows, captain, look, title, place, options, apiField, sent, edits>>

NoName == 0
Blank == "blank"
Half == "half"
Typed == "typed"
Row == [kind : {Blank, Half}, name : {NoName}] \cup [kind : {"full"}, name : Spelling]
BlankRow == [kind |-> Blank, name |-> NoName]

Init ==
    /\ rows = [i \in 1 .. StartingRows |-> BlankRow]
    /\ captain = NoName
    /\ look = [isMe |-> TRUE, email |-> "none", addMe |-> FALSE]
    /\ title = [name |-> 0, slug |-> 0, edited |-> FALSE]
    /\ place = [competition |-> None, zone |-> None, edited |-> FALSE]
    /\ options = FALSE
    /\ apiField = None
    /\ sent = None
    /\ edits = 0

\* checkMembers: a name already spelled in an earlier usable row is an error, and so
\* is a row that is begun; blank rows are skipped.
Usable(sheet) == {i \in DOMAIN sheet :
    sheet[i].kind = "full" /\ \A j \in 1 .. i - 1 : sheet[j].name # -sheet[i].name
                                                     /\ sheet[j].name # sheet[i].name}
RowErrors(sheet) == {i \in DOMAIN sheet : sheet[i].kind # Blank} \ Usable(sheet)
Members(sheet) == {sheet[i].name : i \in Usable(sheet)}

Cleared(field) == IF apiField = field THEN None ELSE apiField

Edits == edits < MaxEdits /\ edits' = edits + 1

\* Mistake: the captain outlives the row.
SheetIs_CaptainStays(sheet) ==
    /\ rows' = sheet
    /\ apiField' = Cleared("members")
    /\ UNCHANGED <<captain, look, title, place, options, sent>>

\* The subscription on the rows: a captain whose row went or was renamed is no choice.
SheetIs(sheet) ==
    /\ rows' = sheet
    /\ captain' = IF captain \in Members(sheet) THEN captain ELSE NoName
    /\ apiField' = Cleared("members")
    /\ UNCHANGED <<look, title, place, options, sent>>

TypeRow(i) == Edits /\ \E row \in Row : row # rows[i] /\ SheetIs([rows EXCEPT ![i] = row])

AddRow == Edits /\ Len(rows) < MaxMembers /\ SheetIs(Append(rows, BlankRow))

\* The sheet keeps at least one row.
RemoveRow(i) == Edits /\ Len(rows) > 1 /\ SheetIs(RemoveAt(rows, i))

ChooseCaptain(name) ==
    /\ Edits
    /\ name \in Members(rows)
    /\ captain' = name
    /\ UNCHANGED <<rows, look, title, place, options, apiField, sent>>

LookIs(new) == look' = new /\ UNCHANGED <<rows, captain, title, place, options, apiField, sent>>

\* The email and "add me" are shown only for a captain other than the admin.
CaptainIsMe ==
    /\ Edits
    /\ LookIs([look EXCEPT !.isMe = ~look.isMe, !.addMe = look.addMe /\ look.isMe])

TypeEmail == Edits /\ ~look.isMe /\ \E e \in {"none", "bad", "good"} : LookIs([look EXCEPT !.email = e])
AddMe == Edits /\ ~look.isMe /\ LookIs([look EXCEPT !.addMe = ~look.addMe])

\* The slug follows the name until it is typed, and again once it is emptied.
TypeName ==
    /\ Edits
    /\ \E name \in {0, 1} \ {title.name} :
         title' = [title EXCEPT !.name = name, !.slug = IF title.edited THEN title.slug ELSE name]
    /\ apiField' = IF title.edited THEN apiField ELSE Cleared("slug")
    /\ UNCHANGED <<rows, captain, look, place, options, sent>>

TypeSlug ==
    /\ Edits
    /\ \E slug \in {0, 2} : title' = [title EXCEPT !.slug = slug, !.edited = slug # 0]
    /\ apiField' = Cleared("slug")
    /\ UNCHANGED <<rows, captain, look, place, options, sent>>

\* applyCompetition: the zone and the season name follow until they are edited.
Chosen(id) == [place EXCEPT !.competition = id, !.zone = IF place.edited THEN place.zone ELSE id]

\* loadCompetitions: the first is chosen when none is; a failure leaves the form as it is.
CompetitionsLoaded ==
    /\ ~options
    /\ options' = TRUE
    /\ place' = IF place.competition = None
                THEN Chosen(CHOOSE id \in Competition : TRUE) ELSE place
    /\ UNCHANGED <<rows, captain, look, title, apiField, sent, edits>>

ChooseCompetition(id) ==
    /\ Edits
    /\ options
    /\ place' = Chosen(id)
    /\ UNCHANGED <<rows, captain, look, title, options, apiField, sent>>

ChooseZone ==
    /\ Edits
    /\ \E zone \in {Typed, None} : place' = [place EXCEPT !.zone = zone, !.edited = TRUE]
    /\ UNCHANGED <<rows, captain, look, title, options, apiField, sent>>

\* createLeagueProblems, and the controls' validators: the hidden email is checked too.
Problems ==
    \/ title.name = 0 \/ title.slug = 0
    \/ None \in {place.competition, place.zone}
    \/ RowErrors(rows) # {} \/ Members(rows) = {}
    \/ captain = NoName
    \/ look.email = "bad" \/ (~look.isMe /\ look.email = "none")

\* newLeagueBody.
Body == [members |-> Members(rows), captain |-> captain,
         email |-> IF look.isMe THEN "none" ELSE look.email,
         addMe |-> ~look.isMe /\ look.addMe]

Submit ==
    /\ sent = None
    /\ apiField' = None
    /\ sent' = IF Problems THEN None ELSE Body
    /\ UNCHANGED <<rows, captain, look, title, place, options, edits>>

\* The league is made and opened: the form goes, and the next one starts afresh.
Created ==
    /\ sent # None
    /\ rows' = [i \in 1 .. StartingRows |-> BlankRow]
    /\ captain' = NoName
    /\ look' = [isMe |-> TRUE, email |-> "none", addMe |-> FALSE]
    /\ title' = [name |-> 0, slug |-> 0, edited |-> FALSE]
    /\ place' = [competition |-> None, zone |-> None, edited |-> FALSE]
    /\ options' = FALSE
    /\ apiField' = None
    /\ sent' = None
    /\ UNCHANGED edits

\* A refusal marks its field (FIELD_OF_CODE) or none.  It is never the captain's:
\* see SentLeagueIsWhole.
Refused ==
    /\ sent # None
    /\ sent' = None
    /\ apiField' \in {None, "slug", "members"}
    /\ UNCHANGED <<rows, captain, look, title, place, options, edits>>

Next ==
    \/ AddRow \/ CaptainIsMe \/ TypeEmail \/ AddMe \/ TypeName \/ TypeSlug
    \/ CompetitionsLoaded \/ ChooseZone \/ Submit \/ Created \/ Refused
    \/ \E i \in DOMAIN rows : TypeRow(i) \/ RemoveRow(i)
    \/ \E name \in Members(rows) : ChooseCaptain(name)
    \/ \E id \in Competition : ChooseCompetition(id)

Spec == Init /\ [][Next]_vars

-----------------------------------------------------------------------------
TypeOK ==
    /\ Len(rows) \in 1 .. MaxMembers /\ \A i \in DOMAIN rows : rows[i] \in Row
    /\ captain \in Spelling \cup {NoName}
    /\ look \in [isMe : BOOLEAN, email : {"none", "bad", "good"}, addMe : BOOLEAN]
    /\ title \in [name : {0, 1}, slug : 0 .. 2, edited : BOOLEAN]
    /\ place \in [competition : Competition \cup {None},
                  zone : Competition \cup {None, Typed}, edited : BOOLEAN]
    /\ options \in BOOLEAN
    /\ apiField \in {None, "slug", "members"}
    /\ sent = None \/ sent \in [members : SUBSET Spelling, captain : Spelling,
                                email : {"none", "good"}, addMe : BOOLEAN]
    /\ edits \in 0 .. MaxEdits

\* Whatever order the form was filled in: the request names a captain among its
\* members, no two members alike but for case, and the admin as a further member
\* only beside a captain named by an email, so unknown_captain is never the answer.
\* The zone and the season name are the chosen competition's until they are edited.
SentLeagueIsWhole ==
    /\ sent # None =>
         /\ sent.captain \in sent.members
         /\ \A n \in sent.members : -n \notin sent.members
         /\ sent.addMe => sent.email = "good"
    /\ place.edited \/ place.zone = place.competition

\* The inductive invariant behind it: the captain is one of the sheet's members at all times,
\* and what is on the way keeps what was so when it was sent.
LeagueInv ==
    /\ rows \in Seq(Row) /\ captain \in Members(rows) \cup {NoName}
    /\ look \in [isMe : BOOLEAN, email : {"none", "bad", "good"}, addMe : BOOLEAN]
    /\ place \in [competition : Competition \cup {None},
                  zone : Competition \cup {None, Typed}, edited : BOOLEAN]
    /\ SentLeagueIsWhole
=============================================================================
