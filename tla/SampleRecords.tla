----------------------------- MODULE SampleRecords -----------------------------
(***************************************************************************)
(* The other records of a sample league (sample-league-data.ts): picks,    *)
(* the pick confirmation duties they are under, recorded round totals, and *)
(* the names all of these are recorded against.  SampleLeague has the      *)
(* votes on evidence.                                                      *)
(*                                                                         *)
(* A name that is still unclaimed and has no records is deleted by a       *)
(* withdrawal, every other name is kept with its records, hidden until a   *)
(* reinstatement.  One match, one round; sides and points are left out.    *)
(***************************************************************************)
EXTENDS Integers, FiniteSets

CONSTANTS
    Member,     \* names a team sheet can hold
    Me,         \* the account's name, the captain
    Duty        \* bound: duties of the season

VARIABLES
    kickedOff,  \* whether the match is locked
    team,       \* name -> "absent", "unclaimed", "claimed", "withdrawn" (unclaimed) or "left" (claimed)
    duty,       \* duty -> [type, owner], or NoDuty
    pick,       \* name -> "none", Unlinked, or the duty its pick is under
    totals,     \* names with a recorded total for the round
    champion,   \* the rules' previous champion, or NoName
    vote        \* the open poll: the account's choice and how many took part

vars == <<kickedOff, team, duty, pick, totals, champion, vote>>

NoName == "nobody"
NoDuty == [type |-> "none", owner |-> NoName]
Unlinked == "no duty"

TypeOK ==
    /\ kickedOff \in BOOLEAN
    /\ team \in [Member -> {"absent", "unclaimed", "claimed", "withdrawn", "left"}]
    /\ duty \in [Duty -> {NoDuty} \union [type : {"spoon", "pick_confirmation"}, owner : Member]]
    /\ pick \in [Member -> {"none", Unlinked} \union Duty]
    /\ totals \subseteq Member
    /\ champion \in Member \union {NoName}
    /\ vote \in [mine : {"none", "yes", "no"}, participants : 0 .. 2]

Init ==
    /\ kickedOff = FALSE
    /\ team = [m \in Member |-> IF m = Me THEN "claimed" ELSE "absent"]
    /\ duty = [d \in Duty |-> NoDuty]
    /\ pick = [m \in Member |-> "none"]
    /\ totals = {} /\ champion = NoName
    /\ vote = [mine |-> "none", participants |-> 1]

Active(m) == team[m] \in {"unclaimed", "claimed"}
PicksOf(m) == pick[m] # "none"

-----------------------------------------------------------------------------
\* createDuty: the member's pick is put under the duty, a missing one recorded as missed.
\* (An earlier duty of the type may be over by then.)
CreateDuty(m, d, type) ==
    /\ Active(m)
    /\ duty[d] = NoDuty
    /\ duty' = [duty EXCEPT ![d] = [type |-> type, owner |-> m]]
    /\ \/ type = "pick_confirmation" /\ pick' = [pick EXCEPT ![m] = d]
       \/ UNCHANGED pick      \* a spoon duty, or a duty about other matches
    /\ UNCHANGED <<kickedOff, team, totals, champion, vote>>

\* savePick: the member's own, before kickoff; it stays under its duty.
SavePick ==
    /\ ~kickedOff
    /\ pick' = [pick EXCEPT ![Me] = IF PicksOf(Me) THEN @ ELSE Unlinked]
    /\ UNCHANGED <<kickedOff, team, duty, totals, champion, vote>>

LinkAllowed(m, link) == link # Unlinked => duty[link] = [type |-> "pick_confirmation", owner |-> m]

\* recordPicks: an omitted duty keeps the link, null unlinks.
RecordPick(m, link) ==
    /\ Active(m)
    /\ LinkAllowed(m, link)
    /\ pick' = [pick EXCEPT ![m] = link]
    /\ UNCHANGED <<kickedOff, team, duty, totals, champion, vote>>

RemovePick(m) ==
    /\ PicksOf(m)
    /\ pick' = [pick EXCEPT ![m] = "none"]
    /\ UNCHANGED <<kickedOff, team, duty, totals, champion, vote>>

\* recordStandings: replaces the round's totals; clearStanding: one member's.
RecordStandings(names) ==
    /\ \A m \in names : Active(m)
    /\ totals' = names
    /\ UNCHANGED <<kickedOff, team, duty, pick, champion, vote>>

ClearStanding(m) ==
    /\ m \in totals
    /\ totals' = totals \ {m}
    /\ UNCHANGED <<kickedOff, team, duty, pick, champion, vote>>

\* saveRules, for the champion: checked on every save, whatever else changes.
SaveRules(m) ==
    /\ m # NoName => team[m] # "absent"
    /\ champion' = m
    /\ UNCHANGED <<kickedOff, team, duty, pick, totals, vote>>

\* castVote: a second choice replaces the first.
CastVote(choice) ==
    /\ vote' = [mine |-> choice, participants |-> vote.participants + (IF vote.mine = "none" THEN 1 ELSE 0)]
    /\ UNCHANGED <<kickedOff, team, duty, pick, totals, champion>>

-----------------------------------------------------------------------------
\* The team sheet.

AddMember(m) ==
    /\ team[m] = "absent"
    /\ team' = [team EXCEPT ![m] = "unclaimed"]
    /\ UNCHANGED <<kickedOff, duty, pick, totals, champion, vote>>

\* Mistake: recorded totals are not records.
HasRecords_NoTotals(m) == PicksOf(m) \/ \E d \in Duty : duty[d].owner = m

HasRecords(m) == PicksOf(m) \/ m \in totals \/ \E d \in Duty : duty[d].owner = m

WithdrawMember(m) ==
    /\ Active(m) /\ m # Me
    /\ team' = [team EXCEPT ![m] = IF @ = "claimed" THEN "left"
                                   ELSE IF HasRecords(m) THEN "withdrawn" ELSE "absent"]
    /\ UNCHANGED <<kickedOff, duty, pick, totals, champion, vote>>

ReinstateMember(m) ==
    /\ team[m] \in {"withdrawn", "left"}
    /\ team' = [team EXCEPT ![m] = IF @ = "left" THEN "claimed" ELSE "unclaimed"]
    /\ UNCHANGED <<kickedOff, duty, pick, totals, champion, vote>>

KicksOff == ~kickedOff /\ kickedOff' = TRUE /\ UNCHANGED <<team, duty, pick, totals, champion, vote>>

Next ==
    \/ \E m \in Member, d \in Duty, type \in {"spoon", "pick_confirmation"} : CreateDuty(m, d, type)
    \/ SavePick
    \/ \E m \in Member, link \in Duty \union {Unlinked} : RecordPick(m, link)
    \/ \E m \in Member : RemovePick(m) \/ ClearStanding(m)
    \/ \E names \in SUBSET Member : RecordStandings(names)
    \/ \E m \in Member \union {NoName} : SaveRules(m)
    \/ \E choice \in {"yes", "no"} : CastVote(choice)
    \/ \E m \in Member : AddMember(m) \/ WithdrawMember(m) \/ ReinstateMember(m)
    \/ KicksOff

Spec == Init /\ [][Next]_vars

-----------------------------------------------------------------------------
\* Every record names somebody who is, or was, on the team sheet (hasRecords keeps
\* the name a withdrawal would delete).
RecordsHaveNames ==
    \A m \in Member : team[m] = "absent" =>
        pick[m] = "none" /\ m \notin totals /\ \A d \in Duty : duty[d].owner # m

\* A pick is under a pick confirmation duty of its own member, through every way of
\* linking it (createDuty, recordPicks, savePick).
PicksUnderOwnDuty ==
    \A m \in Member : pick[m] \in Duty => duty[pick[m]] = [type |-> "pick_confirmation", owner |-> m]

\* What the names may be, and the inductive invariant behind the two: the captain is never
\* withdrawn, so the picks the account saves have a name too.
NamesApart == Me \in Member /\ NoName \notin Member /\ Duty \intersect {"none", Unlinked} = {}

RecordsInv ==
    /\ TypeOK /\ RecordsHaveNames /\ PicksUnderOwnDuty
    /\ team[Me] = "claimed"
    /\ vote.participants = IF vote.mine = "none" THEN 1 ELSE 2
=============================================================================
