----------------------------- MODULE ProvedParts -----------------------------
(***************************************************************************)
(* The components whose properties are proved for every value of their     *)
(* constants, next to each other as MCComponents checks them: `part` says  *)
(* which of them a behaviour is of, and v1, v2, ... are its variables, in  *)
(* the order it declares them. What it does not use stays Unused.          *)
(*                                                                         *)
(* Each component's instance is followed by the proofs about it: its       *)
(* initial states have its invariant, its steps keep it. The proofs of     *)
(* SampleLeague, NotificationsRead, PushOutbox, Previews and RoundUpdates  *)
(* are in those modules. Then come the behaviours of all, the properties,  *)
(* what the constants may be, and the theorems.                            *)
(***************************************************************************)
EXTENDS Integers, Sequences, FiniteSets, FiniteSetTheorems, SequenceTheorems, TLAPS

CONSTANTS
    None,
    Me,
    Places,     \* leagues, fixtures, devices, requests, duties or members: what a component has
    Actors,     \* the runs of a job, submissions
    People,     \* names of a sample league's team sheet
    Messages,   \* messages to send, picks
    Squad, Tasks, Movers, SampleWindow, SampleLinks, SampleTime,
    LoadFetches, LoadWrites, KickoffRefreshes,
    ReadAhead, ReadKeys, ReadTime, ReadSaves,
    PushAttempts, PushLease, PushRetry, PushExpires, PushBatch, PushBatches, PushTime,
    SessionLease, SessionSlow, SessionDispatches, SessionSaves, SessionPublished, SessionKickoff,
    SessionTime,
    CardVersions, DeskChanges,
    FeedStart, FeedTtl, FeedTime, FeedAnswers,
    ResultsTtl, ResultsFailed, ResultsStale, ResultsTime,
    MarkWeek, MarkTime,
    Games,      \* competitions, or fixtures
    FormMargin, FormReach,
    LeagueNames, LeagueRows, LeagueMembers, LeagueEdits,
    DialogChanges, ManageRounds, ManageChanges, ProfileVisits, ProfileSaves, SheetWrites, SheetChanges,
    PanelTurns, PanelReads,
    Numbers, Conversations, TurnMessages, TurnText

VARIABLES part, v1, v2, v3, v4, v5, v6, v7, v8, v9, v10, v11, v12, v13

vars == <<part, v1, v2, v3, v4, v5, v6, v7, v8, v9, v10, v11, v12, v13>>

-----------------------------------------------------------------------------
\* The records of a sample league's team sheet.
Seeds == INSTANCE SampleRecords WITH
    Member <- People, Duty <- Places,
    kickedOff <- v1, team <- v2, duty <- v3, pick <- v4, totals <- v5, champion <- v6, vote <- v7

\* SampleRecords: kickedOff is v1, team v2, duty v3, pick v4, totals v5, champion v6, vote v7.

\* A new sample league has no records.
LEMMA RecordsInitially ==
    ASSUME Seeds!NamesApart, Seeds!Init
    PROVE  Seeds!RecordsInv
<1>0. v7 \in [mine : {"none", "yes", "no"}, participants : 0 .. 2]
  BY DEF Seeds!Init
<1>1. Seeds!TypeOK
  BY <1>0 DEF Seeds!NamesApart, Seeds!Init, Seeds!TypeOK
<1>2. Seeds!RecordsHaveNames
  BY DEF Seeds!NamesApart, Seeds!Init, Seeds!RecordsHaveNames, Seeds!NoDuty
<1>3. Seeds!PicksUnderOwnDuty
  BY DEF Seeds!NamesApart, Seeds!Init, Seeds!PicksUnderOwnDuty
<1> QED BY <1>1, <1>2, <1>3 DEF Seeds!RecordsInv, Seeds!NamesApart, Seeds!Init

\* Every step keeps the names of records and the owners of picks.
LEMMA RecordsStep ==
    ASSUME Seeds!NamesApart, Seeds!RecordsInv, [Seeds!Next]_(Seeds!vars)
    PROVE  Seeds!RecordsInv'
<1> USE DEF Seeds!NamesApart, Seeds!RecordsInv
<1>a. Seeds!TypeOK /\ Me \in People
      /\ v2 \in [People -> {"absent", "unclaimed", "claimed", "withdrawn", "left"}]
      /\ v4 \in [People -> {"none", Seeds!Unlinked} \union Places]
  BY DEF Seeds!TypeOK
<1>1. ASSUME NEW m \in People, NEW d \in Places,
      NEW type \in {"spoon", "pick_confirmation"}, Seeds!CreateDuty(m, d, type)
      PROVE  Seeds!RecordsInv'
  <2>1. Seeds!TypeOK' /\ UNCHANGED <<v2, v5, v7>> /\ v2[m] # "absent"
    BY <1>1 DEF Seeds!CreateDuty, Seeds!TypeOK, Seeds!Active
  <2>2. Seeds!RecordsHaveNames'
    BY <1>a, <1>1, <2>1 DEF Seeds!CreateDuty, Seeds!TypeOK, Seeds!RecordsHaveNames
  <2>3. Seeds!PicksUnderOwnDuty'
    <3> SUFFICES ASSUME NEW x \in People, v4'[x] \in Places
                 PROVE  v3'[v4'[x]] = [type |-> "pick_confirmation", owner |-> x]
      BY DEF Seeds!PicksUnderOwnDuty
    <3>1. v3' = [v3 EXCEPT ![d] = [type |-> type, owner |-> m]] /\ v3[d] = Seeds!NoDuty
          /\ v3 \in [Places -> {Seeds!NoDuty} \union [type : {"spoon", "pick_confirmation"}, owner : People]]
      BY <1>1 DEF Seeds!CreateDuty, Seeds!TypeOK
    <3>2. CASE v4'[x] = v4[x]
      <4>1. v3[v4[x]] = [type |-> "pick_confirmation", owner |-> x]
        BY <3>2 DEF Seeds!PicksUnderOwnDuty
      <4>2. v3[v4[x]].type = "pick_confirmation" /\ Seeds!NoDuty.type = "none"
        BY <4>1 DEF Seeds!NoDuty
      <4>3. v4[x] # d
        BY <3>1, <4>2
      <4> QED BY <3>1, <3>2, <4>1, <4>3
    <3>3. CASE v4'[x] # v4[x]
      <4>1. x = m /\ type = "pick_confirmation" /\ v4'[x] = d
        BY <1>a, <1>1, <3>3 DEF Seeds!CreateDuty
      <4> QED BY <3>1, <4>1
    <3> QED BY <3>2, <3>3
  <2> QED BY <2>1, <2>2, <2>3 DEF Seeds!TypeOK
<1>2. CASE Seeds!SavePick
  <2>1. Seeds!Unlinked \notin Places /\ v2[Me] # "absent" /\ UNCHANGED <<v2, v3, v5, v7>>
    BY <1>2 DEF Seeds!SavePick
  <2>2. v4' = [v4 EXCEPT ![Me] = IF v4[Me] # "none" THEN v4[Me] ELSE Seeds!Unlinked]
    BY <1>2 DEF Seeds!SavePick, Seeds!PicksOf
  <2>3. Seeds!TypeOK'
    BY <1>a, <1>2, <2>2 DEF Seeds!SavePick, Seeds!TypeOK
  <2> QED BY <1>a, <2>1, <2>2, <2>3 DEF Seeds!RecordsHaveNames, Seeds!PicksUnderOwnDuty
<1>3. ASSUME NEW m \in People,
      NEW link \in Places \union {Seeds!Unlinked}, Seeds!RecordPick(m, link)
      PROVE  Seeds!RecordsInv'
  BY <1>a, <1>3 DEF Seeds!RecordPick, Seeds!TypeOK, Seeds!RecordsHaveNames,
     Seeds!PicksUnderOwnDuty, Seeds!Active, Seeds!LinkAllowed
<1>4. ASSUME NEW m \in People, Seeds!RemovePick(m) PROVE Seeds!RecordsInv'
  BY <1>a, <1>4 DEF Seeds!RemovePick, Seeds!TypeOK, Seeds!RecordsHaveNames,
     Seeds!PicksUnderOwnDuty
<1>5. ASSUME NEW m \in People, Seeds!ClearStanding(m) PROVE Seeds!RecordsInv'
  BY <1>a, <1>5 DEF Seeds!ClearStanding, Seeds!TypeOK, Seeds!RecordsHaveNames,
     Seeds!PicksUnderOwnDuty
<1>6. ASSUME NEW names \in SUBSET People, Seeds!RecordStandings(names) PROVE Seeds!RecordsInv'
  BY <1>a, <1>6 DEF Seeds!RecordStandings, Seeds!TypeOK, Seeds!RecordsHaveNames,
     Seeds!PicksUnderOwnDuty, Seeds!Active
<1>7. ASSUME NEW m \in People \union {Seeds!NoName}, Seeds!SaveRules(m) PROVE Seeds!RecordsInv'
  BY <1>a, <1>7 DEF Seeds!SaveRules, Seeds!TypeOK, Seeds!RecordsHaveNames, Seeds!PicksUnderOwnDuty
<1>9. ASSUME NEW m \in People, Seeds!AddMember(m) PROVE Seeds!RecordsInv'
  BY <1>a, <1>9 DEF Seeds!AddMember, Seeds!TypeOK, Seeds!RecordsHaveNames, Seeds!PicksUnderOwnDuty
<1>10. ASSUME NEW m \in People, Seeds!WithdrawMember(m) PROVE Seeds!RecordsInv'
  BY <1>a, <1>10 DEF Seeds!WithdrawMember, Seeds!TypeOK, Seeds!RecordsHaveNames,
     Seeds!PicksUnderOwnDuty, Seeds!HasRecords, Seeds!PicksOf, Seeds!Active
<1>11. ASSUME NEW m \in People, Seeds!ReinstateMember(m) PROVE Seeds!RecordsInv'
  BY <1>a, <1>11 DEF Seeds!ReinstateMember, Seeds!TypeOK, Seeds!RecordsHaveNames,
     Seeds!PicksUnderOwnDuty
<1>12. CASE Seeds!KicksOff
  BY <1>12 DEF Seeds!KicksOff, Seeds!TypeOK, Seeds!RecordsHaveNames, Seeds!PicksUnderOwnDuty
<1>13. CASE UNCHANGED Seeds!vars
  BY <1>13 DEF Seeds!vars, Seeds!TypeOK, Seeds!RecordsHaveNames, Seeds!PicksUnderOwnDuty
<1>8. ASSUME NEW choice \in {"yes", "no"}, Seeds!CastVote(choice) PROVE Seeds!RecordsInv'
  <2>1. v7'.mine = choice
        /\ v7'.participants = v7.participants + (IF v7.mine = "none" THEN 1 ELSE 0)
        /\ v7' = [mine |-> choice, participants |-> v7'.participants]
    BY <1>8 DEF Seeds!CastVote
  <2>2. v7'.participants = 2
    BY <2>1 DEF Seeds!TypeOK
  <2>3. v7' \in [mine : {"none", "yes", "no"}, participants : 0 .. 2]
    BY <2>1, <2>2
  <2> QED BY <1>a, <1>8, <2>1, <2>2, <2>3 DEF Seeds!CastVote, Seeds!TypeOK,
     Seeds!RecordsHaveNames, Seeds!PicksUnderOwnDuty
<1> QED BY <1>1, <1>2, <1>3, <1>4, <1>5, <1>6, <1>7, <1>8, <1>9, <1>10, <1>11, <1>12, <1>13 DEF
   Seeds!Next

-----------------------------------------------------------------------------
\* The kickoffs of the loaded picks.
Kickoffs == INSTANCE KickoffReads WITH
    Fixture <- Places, MaxReads <- KickoffRefreshes,
    kicked <- v1, locked <- v2, kickoffsRead <- v3, load <- v4, refreshes <- v5, timer <- v6,
    visible <- v7, reads <- v8, excused <- v9

\* KickoffReads: kicked is v1, locked v2, kickoffsRead v3, load v4, refreshes v5, timer v6,
\* visible v7, reads v8, excused v9.

\* Nothing is loaded at first, and the first read is under way.
LEMMA KickoffsInitially ==
    ASSUME KickoffRefreshes \in Nat, Kickoffs!Init
    PROVE  Kickoffs!KickoffInv
BY DEF Kickoffs!Init, Kickoffs!KickoffInv, Kickoffs!TypeOK, Kickoffs!NoLoad

\* An answer leaves nothing counted as read that is not shown, excused or being read.
LEMMA AnswerCounts ==
    ASSUME v3 \subseteq v1, v1 \subseteq Places, NEW sent, Kickoffs!SetPicks(sent)
    PROVE  /\ v2' \subseteq v1 /\ v2' \in SUBSET Places
           /\ v9' \in SUBSET Places /\ v6' \in BOOLEAN
           /\ v3 \subseteq v2' \union v9'
           /\ v6' \/ Places \subseteq v2' \union v9'
BY DEF Kickoffs!SetPicks, Kickoffs!Waits

\* Every step leaves a kickoff that is held read, or a load, a timer or a return to come for it.
LEMMA KickoffStep ==
    ASSUME KickoffRefreshes \in Nat, Kickoffs!KickoffInv, [Kickoffs!Next]_(Kickoffs!vars)
    PROVE  Kickoffs!KickoffInv'
<1> DEFINE Rest == \E r \in v5 : r.back
           Watched == \/ Places \subseteq v2 \union v9 \/ v6 \/ v4 # Kickoffs!NoLoad
                      \/ Rest \/ (~v7 /\ Kickoffs!Due # {})
           CountsAll == v3 \subseteq v1 \intersect (v2 \union v9 \union v4.due)
<1> USE DEF Kickoffs!KickoffInv
<1>a. /\ Kickoffs!TypeOK /\ v2 \subseteq v1 /\ CountsAll /\ Watched
      /\ v3 \subseteq v1 /\ v1 \subseteq Places
      /\ v4 = Kickoffs!NoLoad => v4.due = {}
  BY DEF Kickoffs!TypeOK, Kickoffs!NoLoad
<1>b. v8 \in 0 .. KickoffRefreshes /\ (v8 < KickoffRefreshes => v8 + 1 \in 0 .. KickoffRefreshes)
  BY DEF Kickoffs!TypeOK
<1>c. Kickoffs!Due \subseteq v1
      /\ [due |-> Kickoffs!Due, sent |-> v1] \in [due : SUBSET Places, sent : SUBSET Places]
  BY <1>a DEF Kickoffs!Due
<1>d. v5 \subseteq Kickoffs!Refreshing /\ v6 \in BOOLEAN /\ v7 \in BOOLEAN /\ v9 \subseteq Places
      /\ v4 \in [due : SUBSET Places, sent : SUBSET Places]
  BY DEF Kickoffs!TypeOK
<1>e. [sent |-> v1, back |-> TRUE] \in Kickoffs!Refreshing
      /\ [sent |-> v1, back |-> FALSE] \in Kickoffs!Refreshing
  BY <1>a DEF Kickoffs!Refreshing
<1> SUFFICES Kickoffs!TypeOK' /\ (v2 \subseteq v1)' /\ CountsAll' /\ Watched'
  OBVIOUS
<1>1. ASSUME NEW f \in Places, Kickoffs!KickOff(f)
      PROVE  Kickoffs!TypeOK' /\ (v2 \subseteq v1)' /\ CountsAll' /\ Watched'
  BY <1>a, <1>1 DEF Kickoffs!KickOff, Kickoffs!TypeOK, Kickoffs!Due
<1>2. CASE Kickoffs!TimerFires
  <2>1. CASE v4 # Kickoffs!NoLoad \/ ~v7
    <3>1. Kickoffs!TypeOK' /\ (v2 \subseteq v1)' /\ CountsAll'
      BY <1>a, <1>2, <2>1 DEF Kickoffs!TimerFires, Kickoffs!ReloadAtKickoff, Kickoffs!TypeOK
    <3>2. Watched'
      BY <1>a, <1>2, <2>1 DEF Kickoffs!TimerFires, Kickoffs!ReloadAtKickoff, Kickoffs!TypeOK,
         Kickoffs!Due
    <3> QED BY <3>1, <3>2
  <2>2. CASE v4 = Kickoffs!NoLoad /\ v7 /\ Kickoffs!Due = {}
    <3>1. UNCHANGED <<v1, v2, v3, v4, v5, v7, v8, v9>> /\ v6' = Kickoffs!Waits(v2, v3)
      BY <1>2, <2>2 DEF Kickoffs!TimerFires, Kickoffs!ReloadAtKickoff
    <3> QED BY <1>a, <2>2, <3>1 DEF Kickoffs!Waits, Kickoffs!TypeOK
  <2>3. CASE v4 = Kickoffs!NoLoad /\ v7 /\ Kickoffs!Due # {}
    <3>1. /\ UNCHANGED <<v1, v2, v5, v7, v9>> /\ v6' = FALSE /\ v8' = v8 + 1
              /\ v8 < KickoffRefreshes
          /\ v3' = v3 \union Kickoffs!Due /\ v4' = [due |-> Kickoffs!Due, sent |-> v1]
      BY <1>2, <2>3 DEF Kickoffs!TimerFires, Kickoffs!ReloadAtKickoff
    <3>2. v4' # Kickoffs!NoLoad /\ v4'.due = Kickoffs!Due
      BY <3>1, <2>3 DEF Kickoffs!NoLoad
    <3>3. Kickoffs!TypeOK'
      BY <1>a, <1>b, <1>c, <1>d, <3>1 DEF Kickoffs!TypeOK
    <3>4. CountsAll'
      BY <1>a, <1>c, <2>3, <3>1, <3>2
    <3> QED BY <1>a, <3>1, <3>2, <3>3, <3>4
  <2> QED BY <2>1, <2>2, <2>3
<1>3. CASE Kickoffs!Hide
  BY <1>a, <1>3 DEF Kickoffs!Hide, Kickoffs!TypeOK
<1>4. CASE Kickoffs!Show
  <2>0. UNCHANGED <<v1, v2, v9>> /\ ~v7 /\ v7' = TRUE
    BY <1>4 DEF Kickoffs!Show
  <2>1. CASE Kickoffs!StartRefresh(TRUE)
    <3> DEFINE asked == [sent |-> v1, back |-> TRUE]
    <3>1. v5' = v5 \union {asked} /\ UNCHANGED <<v3, v4, v6>>
      BY <2>1 DEF Kickoffs!StartRefresh
    <3>0. asked.back /\ asked \in Kickoffs!Refreshing
      BY <1>e
    <3>2. v5' \subseteq Kickoffs!Refreshing /\ Rest'
      <4> HIDE DEF asked
      <4> QED BY <1>d, <3>0, <3>1
    <3>3. v8' \in 0 .. KickoffRefreshes
      BY <1>b, <2>1 DEF Kickoffs!StartRefresh
    <3> QED BY <1>a, <1>d, <2>0, <3>1, <3>2, <3>3 DEF Kickoffs!TypeOK
  <2>2. CASE Kickoffs!Due # {} /\ Kickoffs!ReloadAtKickoff(v6) /\ UNCHANGED v5
    <3>1. CASE v4 # Kickoffs!NoLoad
      <4>1. UNCHANGED <<v6, v3, v4, v8>>
        BY <3>1, <2>2 DEF Kickoffs!ReloadAtKickoff
      <4> QED BY <1>a, <2>0, <2>2, <3>1, <4>1 DEF Kickoffs!TypeOK
    <3>2. CASE v4 = Kickoffs!NoLoad
      <4>1. /\ v6' = v6 /\ v8' = v8 + 1 /\ v8 < KickoffRefreshes
            /\ v3' = v3 \union Kickoffs!Due /\ v4' = [due |-> Kickoffs!Due, sent |-> v1]
        BY <2>0, <2>2, <3>2 DEF Kickoffs!ReloadAtKickoff
      <4>2. v4' # Kickoffs!NoLoad /\ v4'.due = Kickoffs!Due
        BY <4>1, <2>2 DEF Kickoffs!NoLoad
      <4>3. Kickoffs!TypeOK'
        BY <1>a, <1>b, <1>c, <1>d, <2>0, <2>2, <4>1 DEF Kickoffs!TypeOK
      <4>4. CountsAll'
        BY <1>a, <1>c, <2>0, <3>2, <4>1, <4>2
      <4> QED BY <1>a, <2>0, <4>2, <4>3, <4>4
    <3> QED BY <3>1, <3>2
  <2>3. CASE Kickoffs!Due = {} /\ UNCHANGED <<v3, v4, v5, v6, v8>>
    BY <1>a, <2>0, <2>3 DEF Kickoffs!TypeOK
  <2> QED BY <1>4, <2>1, <2>2, <2>3 DEF Kickoffs!Show
<1>5. CASE Kickoffs!Refresh
  <2>1. /\ v5' = v5 \union {[sent |-> v1, back |-> FALSE]}
        /\ UNCHANGED <<v1, v2, v3, v4, v6, v7, v9>>
    BY <1>5 DEF Kickoffs!Refresh, Kickoffs!StartRefresh
  <2>2. v5 \subseteq v5' /\ v5' \subseteq Kickoffs!Refreshing /\ v8' \in 0 .. KickoffRefreshes
    BY <1>b, <1>d, <1>e, <1>5, <2>1 DEF Kickoffs!Refresh, Kickoffs!StartRefresh
  <2> QED BY <1>a, <1>d, <2>1, <2>2 DEF Kickoffs!TypeOK, Kickoffs!Due
<1>6. CASE Kickoffs!LoadAnswers
  <2>0. v4' = Kickoffs!NoLoad /\ Kickoffs!NoLoad.due = {}
        /\ Kickoffs!NoLoad \in [due : SUBSET Places, sent : SUBSET Places]
            /\ UNCHANGED <<v1, v5, v7, v8>>
    BY <1>6 DEF Kickoffs!LoadAnswers, Kickoffs!NoLoad
  <2>1. CASE Kickoffs!SetPicks(v4.sent) /\ UNCHANGED v3
    BY <1>a, <2>0, <2>1, AnswerCounts DEF Kickoffs!TypeOK
  <2>2. CASE v3' = Kickoffs!AfterFailure(v4.due) /\ v6' = TRUE /\ UNCHANGED <<v2, v9>>
    BY <1>a, <2>0, <2>2 DEF Kickoffs!TypeOK, Kickoffs!AfterFailure
  <2> QED BY <1>6, <2>1, <2>2 DEF Kickoffs!LoadAnswers
<1>7. ASSUME NEW r \in v5, Kickoffs!RefreshAnswers(r)
      PROVE  Kickoffs!TypeOK' /\ (v2 \subseteq v1)' /\ CountsAll' /\ Watched'
  <2>0. v5' = v5 \ {r} /\ UNCHANGED <<v1, v3, v4, v7, v8>>
    BY <1>7 DEF Kickoffs!RefreshAnswers
  <2>1. CASE Kickoffs!SetPicks(r.sent)
    BY <1>a, <2>0, <2>1, AnswerCounts DEF Kickoffs!TypeOK
  <2>2. CASE v9' = (IF r.back /\ ~v6 THEN Places \ v2 ELSE v9) /\ UNCHANGED <<v2, v6>>
    BY <1>a, <2>0, <2>2 DEF Kickoffs!TypeOK, Kickoffs!Due
  <2> QED BY <1>7, <2>1, <2>2 DEF Kickoffs!RefreshAnswers
<1>8. CASE UNCHANGED Kickoffs!vars
  BY <1>a, <1>8 DEF Kickoffs!vars, Kickoffs!TypeOK, Kickoffs!Due
<1> QED BY <1>1, <1>2, <1>3, <1>4, <1>5, <1>6, <1>7, <1>8 DEF Kickoffs!Next

\* What the inductive invariant says of the kickoffs is that they are watched.
LEMMA KickoffsAreWatched ==
    ASSUME Kickoffs!KickoffInv
    PROVE  Kickoffs!KickoffWatched
BY DEF Kickoffs!KickoffInv, Kickoffs!KickoffWatched, Kickoffs!TypeOK

-----------------------------------------------------------------------------
\* The pool's grid of picks.
Grid == INSTANCE PickGrid WITH
    Member <- Places, Pick <- Messages,
    locked <- v1, api <- v2, saved <- v3, grid <- v4, edited <- v5, task <- v6

\* PickGrid: locked is v1, api v2, saved v3, grid v4, edited v5, task v6.

\* The grid opens on what is saved, with nothing edited.
LEMMA GridInitially ==
    ASSUME Grid!Init
    PROVE  Grid!GridInv
BY DEF Grid!Init, Grid!GridInv, Grid!TypeOK, Grid!NoTask, Grid!SavesOnlyEdits

\* Picks adopted from the API leave what was edited as it is.
LEMMA AdoptKeeps ==
    ASSUME NEW picks \in [Places -> Messages \cup {None}], Grid!GridInv, Grid!Adopt(picks)
    PROVE  /\ v3' \in [Places -> Messages \cup {None}] /\ v4' \in [Places -> Messages \cup {None}]
           /\ v5' \subseteq Places
           /\ \A m \in Places : v4'[m] # v3'[m] => m \in v5'
BY DEF Grid!GridInv, Grid!TypeOK, Grid!Adopt

\* Every step keeps what differs among what was edited, and a save within it.
LEMMA GridStep ==
    ASSUME Grid!GridInv, [Grid!Next]_(Grid!vars)
    PROVE  Grid!GridInv'
<1> DEFINE Task == [step : {"none", "recording", "removing"}, record : SUBSET Places,
                    wanted : [Places -> Messages \cup {None}], remove : SUBSET Places,
                    edited : SUBSET Places]
           Kept == /\ v1' \in BOOLEAN /\ v2' \in [Places -> Messages \cup {None}]
                   /\ v3' \in [Places -> Messages \cup {None}]
                       /\ v4' \in [Places -> Messages \cup {None}]
                   /\ v5' \subseteq Places
                   /\ \A m \in Places : v4'[m] # v3'[m] => m \in v5'
                   /\ v6' \in Task /\ v6'.record \cup v6'.remove \subseteq v6'.edited
<1>a. /\ v1 \in BOOLEAN /\ v2 \in [Places -> Messages \cup {None}]
      /\ v3 \in [Places -> Messages \cup {None}] /\ v4 \in [Places -> Messages \cup {None}]
      /\ v5 \subseteq Places
      /\ \A m \in Places : v4[m] # v3[m] => m \in v5
      /\ v6 \in Task /\ v6.record \cup v6.remove \subseteq v6.edited
  BY DEF Grid!GridInv, Grid!TypeOK, Grid!SavesOnlyEdits
<1>b. Grid!NoTask \in Task
      /\ Grid!NoTask.record \cup Grid!NoTask.remove \subseteq Grid!NoTask.edited
  BY DEF Grid!NoTask
<1> SUFFICES Kept
  BY DEF Grid!GridInv, Grid!TypeOK, Grid!SavesOnlyEdits
<1> HIDE DEF Task
<1>1. CASE Grid!Kickoff
  BY <1>a, <1>1 DEF Grid!Kickoff
<1>2. CASE Grid!Read
  BY <1>a, <1>2, AdoptKeeps DEF Grid!Read
<1>3. CASE Grid!Save
  <2> DEFINE sent == [step |-> IF Grid!Recorded # {} THEN "recording" ELSE "removing",
                      record |-> Grid!Recorded, wanted |-> v4, remove |-> Grid!Removed, edited |-> v5]
  <2>1. Grid!Recorded \subseteq v5 /\ Grid!Removed \subseteq v5
    BY <1>a DEF Grid!Recorded, Grid!Removed
  <2>2. sent \in Task /\ sent.record \cup sent.remove \subseteq sent.edited
    BY <1>a, <2>1 DEF Task
  <2>3. v6' = sent /\ UNCHANGED <<v1, v2, v3, v4, v5>>
    BY <1>3 DEF Grid!Save
  <2> HIDE DEF sent
  <2> QED BY <1>a, <2>2, <2>3
<1>4. CASE Grid!RecordPicks
  <2>1. v6' = Grid!NoTask \/ v6' = [v6 EXCEPT !.step = "removing"]
    BY <1>4 DEF Grid!RecordPicks
  <2>2. v6' \in Task /\ v6'.record \cup v6'.remove \subseteq v6'.edited
    BY <1>a, <1>b, <2>1 DEF Task
  <2>3. CASE /\ v2' = [m \in Places |-> IF m \in v6.record THEN v6.wanted[m] ELSE v2[m]]
             /\ Grid!Adopt(v2') /\ UNCHANGED v1
    <3>1. v6.wanted \in [Places -> Messages \cup {None}]
      BY <1>a DEF Task
    <3>2. v2' \in [Places -> Messages \cup {None}]
      BY <1>a, <2>3, <3>1
    <3> QED BY <1>a, <2>2, <2>3, <3>2, AdoptKeeps
  <2>4. CASE UNCHANGED <<v1, v2, v3, v4, v5>>
    BY <1>a, <2>2, <2>4
  <2> QED BY <1>4, <2>3, <2>4 DEF Grid!RecordPicks
<1>5. ASSUME NEW m \in Places, Grid!RemovePick(m) PROVE Kept
  <2>1. v6' = Grid!NoTask \/ v6' = [v6 EXCEPT !.remove = @ \ {m}]
    BY <1>5 DEF Grid!RemovePick
  <2>2. v6' \in Task /\ v6'.record \cup v6'.remove \subseteq v6'.edited
    BY <1>a, <1>b, <2>1 DEF Task
  <2>3. v2' = [v2 EXCEPT ![m] = None] \/ v2' = v2
    BY <1>5 DEF Grid!RemovePick
  <2>4. v2' \in [Places -> Messages \cup {None}] /\ UNCHANGED v1
    BY <1>a, <1>5, <2>3 DEF Grid!RemovePick
  <2>5. Grid!Adopt(v2') \/ UNCHANGED <<v3, v4, v5>>
    BY <1>5 DEF Grid!RemovePick
  <2> QED BY <1>a, <2>2, <2>4, <2>5, AdoptKeeps
<1>6. ASSUME NEW m \in Places, Grid!EditRow(m) PROVE Kept
  BY <1>a, <1>6 DEF Grid!EditRow
<1>7. ASSUME NEW m \in Places, Grid!Elsewhere(m) PROVE Kept
  BY <1>a, <1>7 DEF Grid!Elsewhere
<1>8. CASE UNCHANGED Grid!vars
  BY <1>a, <1>8 DEF Grid!vars
<1> QED BY <1>1, <1>2, <1>3, <1>4, <1>5, <1>6, <1>7, <1>8 DEF Grid!Next

-----------------------------------------------------------------------------
\* The case's card and dialog.
Cards == INSTANCE CaseCards WITH
    MaxVersion <- CardVersions,
    api <- v1, page <- v2, dialog <- v3, action <- v4, accepting <- v5, reloading <- v6, ruled <- v7

\* CaseCards: api is v1, page v2, dialog v3, action v4, accepting v5, reloading v6, ruled v7.

\* The page opens on the case as it is.
LEMMA CardsInitially ==
    ASSUME CardVersions \in Nat, Cards!Init
    PROVE  Cards!RulingInv
<1>1. v1 \in Cards!Case
  BY DEF Cards!Init, Cards!Case
<1>2. Cards!Behind(v2, v1)
  BY DEF Cards!Init, Cards!Behind
<1>3. v3 \in [open : BOOLEAN, request : Cards!Request \cup {None}, reason : BOOLEAN, invalid : BOOLEAN] /\ ~v3.open
  BY DEF Cards!Init
<1> QED BY <1>1, <1>2, <1>3 DEF Cards!Init, Cards!RulingInv, Cards!TypeOK, Cards!RulingsWereMeant

\* Whatever happens to a case leaves a case, one version on.
LEMMA CaseMoves ==
    ASSUME CardVersions \in Nat, NEW c \in Cards!Case, c.version < CardVersions
    PROVE  /\ Cards!Closed(c) \in Cards!Case /\ Cards!Closed(c).version = c.version + 1
           /\ Cards!Reopened(c) \in Cards!Case /\ Cards!Reopened(c).version = c.version + 1
           /\ Cards!Vetoed(c, TRUE) \in Cards!Case
               /\ Cards!Vetoed(c, TRUE).version = c.version + 1
           /\ Cards!Vetoed(c, FALSE) \in Cards!Case
               /\ Cards!Vetoed(c, FALSE).version = c.version + 1
<1>1. Cards!Changed(c) \in Cards!Case /\ Cards!Changed(c).version = c.version + 1
  BY DEF Cards!Changed, Cards!Case
<1>2. ASSUME NEW k \in Cards!Case, NEW s \in {"open", "in_review", "closed"},
      NEW v \in 0 .. CardVersions, NEW o \in BOOLEAN
      PROVE  /\ [k EXCEPT !.status = s, !.veto = v, !.own = o] \in Cards!Case
             /\ [k EXCEPT !.status = s, !.veto = v, !.own = o].version = k.version
  BY DEF Cards!Case
<1>3. c.version + 1 \in 0 .. CardVersions /\ 0 \in 0 .. CardVersions
  BY DEF Cards!Case
<1>4. Cards!Closed(c) \in Cards!Case /\ Cards!Closed(c).version = c.version + 1
  BY <1>1, <1>2, <1>3 DEF Cards!Closed
<1>5. Cards!Reopened(c) \in Cards!Case /\ Cards!Reopened(c).version = c.version + 1
  BY <1>1, <1>2, <1>3 DEF Cards!Reopened
<1>6. Cards!Vetoed(c, TRUE) \in Cards!Case /\ Cards!Vetoed(c, TRUE).version = c.version + 1
  BY <1>1, <1>2, <1>3 DEF Cards!Vetoed
<1>7. Cards!Vetoed(c, FALSE) \in Cards!Case /\ Cards!Vetoed(c, FALSE).version = c.version + 1
  BY <1>1, <1>2, <1>3 DEF Cards!Vetoed
<1> QED BY <1>4, <1>5, <1>6, <1>7

\* A ballot changes neither the version nor the veto.
LEMMA VotedCase ==
    ASSUME NEW c \in Cards!Case, NEW vote \in {"none", "accept", "veto"}
    PROVE  /\ [c EXCEPT !.mine = vote] \in Cards!Case
           /\ [c EXCEPT !.mine = vote].version = c.version
               /\ [c EXCEPT !.mine = vote].veto = c.veto
BY DEF Cards!Case

\* A copy that was not ahead of the case falls no further ahead: it is older, or of the same veto.
LEMMA StaysBehind ==
    ASSUME NEW c \in Cards!Case, NEW e \in Cards!Case,
           e.version = c.version + 1 \/ (e.version = c.version /\ e.veto = c.veto),
           NEW copy \in Cards!Case \cup Cards!Request, Cards!Behind(copy, c)
    PROVE  Cards!Behind(copy, e)
<1>1. copy.version \in Nat /\ c.version \in Nat
  BY DEF Cards!Case, Cards!Request
<1> QED BY <1>1 DEF Cards!Behind

\* Every step keeps the copies behind the case and every ruling on the veto it was read with.
LEMMA CardsStep ==
    ASSUME CardVersions \in Nat, Cards!RulingInv, [Cards!Next]_(Cards!vars)
    PROVE  Cards!RulingInv'
<1> DEFINE Dialog == [open : BOOLEAN, request : Cards!Request \cup {None}, reason : BOOLEAN, invalid : BOOLEAN]
           Action == [request : Cards!Request, step : {"sent", "refreshing"}]
           Tie(e) == e.version = v1.version + 1 \/ (e.version = v1.version /\ e.veto = v1.veto)
<1>a. /\ v1 \in Cards!Case /\ v2 \in Cards!Case /\ v3 \in Dialog
      /\ v4 # None => v4 \in Action /\ v4.request \in Cards!Request
  BY DEF Cards!RulingInv, Cards!TypeOK
<1>b. /\ Cards!Behind(v2, v1)
      /\ v3.open => v3.request \in Cards!Request /\ Cards!Behind(v3.request, v1)
      /\ v4 # None => Cards!Behind(v4.request, v1)
  BY DEF Cards!RulingInv
<1>c. Cards!Behind(v1, v1)
  BY <1>a DEF Cards!Case, Cards!Behind
<1>d. ASSUME v1' \in Cards!Case, Tie(v1')
      PROVE  /\ Cards!Behind(v2, v1')
             /\ v3.open => Cards!Behind(v3.request, v1')
             /\ v4 # None => Cards!Behind(v4.request, v1')
  BY <1>a, <1>b, <1>d, StaysBehind
<1>e. [v3 EXCEPT !.open = FALSE] \in Dialog /\ ~[v3 EXCEPT !.open = FALSE].open
  BY <1>a
<1> HIDE DEF Dialog, Action, Tie
<1> DEFINE Kept ==
             /\ v1' \in Cards!Case /\ v2' \in Cards!Case /\ v3' \in Dialog
             /\ v4' # None => v4' \in Action
             /\ v5' \in {"no", "sent", "refreshing"} /\ v6' \in BOOLEAN
             /\ v7' \subseteq (0 .. CardVersions) \X (0 .. CardVersions)
                 /\ Cards!RulingsWereMeant'
             /\ Cards!Behind(v2', v1')
             /\ v3'.open => v3'.request \in Cards!Request /\ Cards!Behind(v3'.request, v1')
             /\ v4' # None => Cards!Behind(v4'.request, v1')
<1> SUFFICES Kept
  BY DEF Cards!RulingInv, Cards!TypeOK, Dialog, Action
<1>f. /\ v5 \in {"no", "sent", "refreshing"} /\ v6 \in BOOLEAN
      /\ v7 \subseteq (0 .. CardVersions) \X (0 .. CardVersions)
      /\ Cards!RulingsWereMeant /\ (v7' = v7 => Cards!RulingsWereMeant')
  BY DEF Cards!RulingInv, Cards!TypeOK, Cards!RulingsWereMeant
<1>1. CASE Cards!Elsewhere
  <2>1. v1' \in Cards!Case /\ Tie(v1')
    BY <1>1, <1>a, CaseMoves DEF Cards!Elsewhere, Tie
  <2> QED BY <1>1, <1>a, <1>b, <1>d, <1>f, <2>1 DEF Cards!Elsewhere
<1>2. CASE Cards!GiveReason
  <2>1. v3' \in Dialog /\ v3'.request = v3.request /\ v3.open
    BY <1>2, <1>a DEF Cards!GiveReason, Dialog
  <2> QED BY <1>2, <1>a, <1>b, <1>f, <2>1 DEF Cards!GiveReason
<1>3. CASE Cards!Dismiss
  BY <1>3, <1>a, <1>b, <1>e, <1>f DEF Cards!Dismiss
<1>4. CASE Cards!Submit
  <2>1. v3' \in Dialog /\ v3'.request = v3.request /\ v3.open
    BY <1>4, <1>a DEF Cards!Submit, Dialog
  <2>2. v4' # None => v4' \in Action /\ v4'.request = v3.request
    BY <1>4, <1>b DEF Cards!Submit, Action
  <2> QED BY <1>4, <1>a, <1>b, <1>f, <2>1, <2>2 DEF Cards!Submit
<1>5. CASE Cards!TakesEffect
  <2>1. v4 # None /\ v4 \in Action /\ v4.request \in Cards!Request /\ v1.version < CardVersions
    BY <1>5, <1>a DEF Cards!TakesEffect
  <2>2. v1' \in Cards!Case /\ Tie(v1')
    <3>1. v1' \in {Cards!Closed(v1), Cards!Reopened(v1), [Cards!Vetoed(v1, TRUE) EXCEPT !.mine = "veto"]}
      BY <1>5 DEF Cards!TakesEffect, Cards!Outcomes
    <3>2. /\ Cards!Vetoed(v1, TRUE) \in Cards!Case
              /\ Cards!Vetoed(v1, TRUE).version = v1.version + 1
          /\ Cards!Closed(v1) \in Cards!Case /\ Cards!Closed(v1).version = v1.version + 1
          /\ Cards!Reopened(v1) \in Cards!Case /\ Cards!Reopened(v1).version = v1.version + 1
      BY <1>a, <2>1, CaseMoves
    <3>3. [Cards!Vetoed(v1, TRUE) EXCEPT !.mine = "veto"] \in Cards!Case
          /\ [Cards!Vetoed(v1, TRUE) EXCEPT !.mine = "veto"].version = v1.version + 1
      BY <3>2, VotedCase
    <3> QED BY <3>1, <3>2, <3>3 DEF Tie
  <2>3. Cards!Ruling(v4.request) => v4.request.veto = v1.veto
    <3> SUFFICES ASSUME Cards!Ruling(v4.request) PROVE Cards!Fresh(v4.request)
      BY <1>b, <2>1 DEF Cards!Fresh, Cards!Behind
    <3> QED BY <1>5 DEF Cards!TakesEffect, Cards!Ruling, Cards!Outcomes
  <2>4. v4.request.veto \in 0 .. CardVersions /\ v1.veto \in 0 .. CardVersions
    BY <1>a, <2>1 DEF Cards!Request, Cards!Case
  <2>5. v7' \subseteq (0 .. CardVersions) \X (0 .. CardVersions) /\ Cards!RulingsWereMeant'
    BY <1>5, <1>f, <2>3, <2>4 DEF Cards!TakesEffect, Cards!RulingsWereMeant
  <2>6. v4' # None => v4' \in Action /\ v4'.request = v4.request
    BY <1>5, <2>1 DEF Cards!TakesEffect, Action
  <2> QED BY <1>5, <1>a, <1>b, <1>d, <1>f, <2>1, <2>2, <2>5, <2>6 DEF Cards!TakesEffect
<1>6. CASE Cards!IsRefused
  BY <1>6, <1>a, <1>b, <1>e, <1>f DEF Cards!IsRefused
<1>7. CASE Cards!Fails
  BY <1>7, <1>a, <1>b, <1>f DEF Cards!Fails
<1>8. CASE Cards!Done
  BY <1>8, <1>a, <1>c, <1>e, <1>f DEF Cards!Done
<1>9. CASE Cards!Accept
  BY <1>9, <1>a, <1>b, <1>f DEF Cards!Accept
<1>10. CASE Cards!AcceptArrives
  <2>1. v1' \in Cards!Case /\ Tie(v1')
    <3>1. [v1 EXCEPT !.mine = "accept"] \in Cards!Case /\ Tie([v1 EXCEPT !.mine = "accept"])
      BY <1>a, VotedCase DEF Tie
    <3>2. ASSUME v1.version < CardVersions
          PROVE  [Cards!Closed(v1) EXCEPT !.mine = "accept"] \in Cards!Case
                 /\ Tie([Cards!Closed(v1) EXCEPT !.mine = "accept"])
      <4>1. Cards!Closed(v1) \in Cards!Case /\ Cards!Closed(v1).version = v1.version + 1
        BY <1>a, <3>2, CaseMoves
      <4> QED BY <4>1, VotedCase DEF Tie
    <3>3. \/ v1' = v1 \/ v1' = [v1 EXCEPT !.mine = "accept"]
          \/ v1.version < CardVersions /\ v1' = [Cards!Closed(v1) EXCEPT !.mine = "accept"]
      BY <1>10 DEF Cards!AcceptArrives
    <3> QED BY <1>a, <3>1, <3>2, <3>3 DEF Tie
  <2> QED BY <1>10, <1>a, <1>b, <1>d, <1>f, <2>1 DEF Cards!AcceptArrives
<1>11. CASE Cards!AcceptEnds
  BY <1>11, <1>a, <1>b, <1>c, <1>f DEF Cards!AcceptEnds
<1>12. CASE Cards!Reload
  BY <1>12, <1>a, <1>b, <1>c, <1>f DEF Cards!Reload
<1>13. ASSUME NEW kind \in Cards!Kind, Cards!Open(kind) PROVE Kept
  <2> DEFINE request == [kind |-> kind, version |-> v2.version, veto |-> v2.veto]
  <2>1. request \in Cards!Request /\ Cards!Behind(request, v1)
    BY <1>a, <1>b DEF Cards!Case, Cards!Request, Cards!Behind
  <2>2. v3' \in Dialog /\ v3'.request = request
    BY <1>13, <2>1 DEF Cards!Open, Dialog
  <2> HIDE DEF request
  <2>3. /\ v1' \in Cards!Case /\ v2' \in Cards!Case /\ v4' = v4 /\ UNCHANGED <<v5, v6, v7>>
        /\ v1' = v1 /\ v2' = v2
    BY <1>13, <1>a DEF Cards!Open
  <2> QED BY <1>a, <1>b, <1>f, <2>1, <2>2, <2>3
<1>14. CASE UNCHANGED Cards!vars
  BY <1>14, <1>a, <1>b, <1>f DEF Cards!vars
<1> QED BY <1>1, <1>2, <1>3, <1>4, <1>5, <1>6, <1>7, <1>8, <1>9, <1>10, <1>11, <1>12, <1>13, <1>14
   DEF Cards!Next

-----------------------------------------------------------------------------
\* A card of the captain's desk: one change by somebody else, or join code.
Desk == INSTANCE DeskCards WITH
    Unset <- None, MaxChanges <- DeskChanges,
    card <- v1, api <- v2, saved <- v3, draft <- v4, touched <- v5, task <- v6,
    reading <- v7, changes <- v8

\* DeskCards: card is v1, api v2, saved v3, draft v4, touched v5, task v6, reading v7, changes v8.

\* A card opens on what is saved, with nothing touched.
LEMMA DeskInitially ==
    ASSUME Desk!Init
    PROVE  Desk!DeskInv
<1>1. v1 \in DOMAIN Desk!Fields /\ v2 \in [Desk!Field -> Nat] /\ v3 = v2
  BY DEF Desk!Init, Desk!Value
<1>2. v4 = [f \in Desk!Field |-> IF v1 = "look" THEN None ELSE v3[f]]
  BY DEF Desk!Init, Desk!Unsaved
<1>3. v4 \in [Desk!Field -> Nat \union {None}] /\ \A f \in Desk!Field : ~Desk!Differs(f)
      /\ (v1 = "look" => v4[f] = None)
  BY <1>1, <1>2 DEF Desk!Differs
<1>4. Desk!NoTask \in [step : {"none", "preparing", "saving"}, sent : SUBSET Desk!Keys(Desk!Field),
                  wanted : [Desk!Field -> Nat], chosen : SUBSET Desk!Keys(Desk!Field)] /\ Desk!NoTask.sent = {} /\ Desk!NoTask.step = "none"
  BY DEF Desk!NoTask
<1> QED BY <1>1, <1>3, <1>4 DEF Desk!Init, Desk!DeskInv, Desk!SavesOnlyChoices, Desk!Idle

\* Values that arrive move everything but what was touched.
LEMMA DeskFollows ==
    ASSUME Desk!DeskInv,
           NEW values \in [Desk!Field -> Nat], Desk!Follow(values), UNCHANGED <<v1, v6>>
    PROVE  /\ v3' \in [Desk!Field -> Nat] /\ v4' \in [Desk!Field -> Nat \union {None}]
               /\ v5' \subseteq Desk!Field
           /\ \A f \in Desk!Field : Desk!Differs(f)' => f \in v5'
           /\ v1 = "look" => \A f \in Desk!Field : v4'[f] # None => f \in v5'
           /\ v1 = "rules" /\ ~Desk!Idle =>
                \A f \in Desk!Field : Desk!Differs(f)' => Desk!KeyOf(f) \in v6.sent
                      /\ v6.wanted[f] = v4'[f]
<1>1. CASE v1 = "look"
  BY <1>1 DEF Desk!DeskInv, Desk!Follow, Desk!Differs
<1>2. CASE v1 # "look" /\ values = v3
  BY <1>2 DEF Desk!DeskInv, Desk!Follow, Desk!Differs
<1>3. CASE v1 # "look" /\ values # v3
  BY <1>3 DEF Desk!DeskInv, Desk!Follow, Desk!Differs
<1> QED BY <1>1, <1>2, <1>3

\* Every step keeps what differs among what was touched, and a save within it.
LEMMA DeskStep ==
    ASSUME Desk!DeskInv, [Desk!Next]_(Desk!vars)
    PROVE  Desk!DeskInv'
<1> DEFINE Task == [step : {"none", "preparing", "saving"}, sent : SUBSET Desk!Keys(Desk!Field),
                    wanted : [Desk!Field -> Nat], chosen : SUBSET Desk!Keys(Desk!Field)]
           Fits(v) == v \in [Desk!Field -> Nat]
           Edited == \A f \in Desk!Field : Desk!Differs(f) => f \in v5
           Drafted == v1 = "look" => \A f \in Desk!Field : v4[f] # None => f \in v5
           Under == v1 = "rules" /\ ~Desk!Idle =>
                      \A f \in Desk!Field : Desk!Differs(f) => Desk!KeyOf(f) \in v6.sent
                            /\ v6.wanted[f] = v4[f]
<1>a. /\ v1 \in DOMAIN Desk!Fields /\ Fits(v2) /\ Fits(v3)
          /\ v4 \in [Desk!Field -> Nat \union {None}]
      /\ v5 \subseteq Desk!Field /\ v7 \subseteq [Desk!Field -> Nat] /\ v8 \in Nat
      /\ v6 \in Task /\ v6.sent \subseteq v6.chosen
      /\ Edited /\ Drafted /\ Under /\ (v6.step = "preparing" => v1 = "look")
  BY DEF Desk!DeskInv, Desk!SavesOnlyChoices
<1>b. v1' = v1 /\ Desk!Field' = Desk!Field
  BY DEF Desk!Next, Desk!vars, Desk!Field, Desk!Read, Desk!ReadArrives, Desk!Elsewhere,
     Desk!ChooseFile, Desk!FilePrepared, Desk!Discard, Desk!Save, Desk!SaveEnds, Desk!NewCode,
     Desk!CodeAnswers, Desk!Edit
<1> DEFINE Kept == /\ Fits(v2') /\ Fits(v3') /\ v4' \in [Desk!Field -> Nat \union {None}]
                   /\ v5' \subseteq Desk!Field /\ v7' \subseteq [Desk!Field -> Nat] /\ v8' \in Nat
                   /\ v6' \in Task /\ v6'.sent \subseteq v6'.chosen
                   /\ Edited' /\ Drafted' /\ Under' /\ (v6'.step = "preparing" => v1 = "look")
<1> SUFFICES Kept
  BY <1>a, <1>b DEF Desk!DeskInv, Desk!SavesOnlyChoices, Desk!Keys, Desk!KeyOf
<1>c. Desk!NoTask \in Task /\ Desk!NoTask.sent = {} /\ Desk!NoTask.step = "none"
  BY DEF Desk!NoTask
<1>d. Fits(Desk!Written)
  BY <1>a DEF Desk!Written
<1> HIDE DEF Task
<1>1. CASE Desk!Read
  BY <1>a, <1>b, <1>1 DEF Desk!Read, Desk!Differs, Desk!Idle
<1>2. CASE Desk!ReadArrives
  <2>1. PICK values \in v7 : Desk!Follow(values)
    BY <1>2 DEF Desk!ReadArrives
  <2> QED BY <1>a, <1>b, <1>2, <2>1, DeskFollows DEF Desk!ReadArrives, Desk!Idle
<1>3. CASE Desk!Elsewhere
  BY <1>a, <1>b, <1>3 DEF Desk!Elsewhere, Desk!Differs, Desk!Idle, Desk!Value
<1>4. ASSUME NEW f \in Desk!Field, Desk!Edit(f) PROVE Kept
  <2>1. /\ v4' \in [Desk!Field -> Nat \union {None}] /\ v5' = v5 \union {f}
            /\ \A g \in Desk!Field : g # f => v4'[g] = v4[g]
    BY <1>a, <1>4 DEF Desk!Edit, Desk!Value, Desk!Bad
  <2>2. UNCHANGED <<v2, v3, v6, v7, v8>> /\ (v1 = "rules" => Desk!Idle)
    BY <1>4 DEF Desk!Edit
  <2> QED BY <1>a, <1>b, <2>1, <2>2 DEF Desk!Differs, Desk!Idle
<1>5. CASE Desk!ChooseFile
  <2>1. v6' \in Task /\ v6'.sent = {}
    BY <1>5, <1>c DEF Desk!ChooseFile, Task
  <2>2. UNCHANGED <<v2, v3, v4, v5, v7, v8>> /\ v1 = "look"
    BY <1>5 DEF Desk!ChooseFile
  <2> QED BY <1>a, <1>b, <2>1, <2>2 DEF Desk!Differs
<1>6. CASE Desk!FilePrepared
  <2>1. v1 = "look" => "emblem" \in Desk!Field
    BY DEF Desk!Field, Desk!Fields
  <2>2. /\ v4' \in [Desk!Field -> Nat \union {None}] /\ v5 \subseteq v5'
            /\ v5' \subseteq Desk!Field
        /\ \A f \in Desk!Field : v4'[f] = v4[f] \/ f \in v5'
    BY <1>a, <1>6, <2>1 DEF Desk!FilePrepared
  <2>3. v6' = Desk!NoTask /\ v1 = "look" /\ UNCHANGED <<v2, v3, v7, v8>>
    BY <1>a, <1>6 DEF Desk!FilePrepared
  <2> QED BY <1>a, <1>b, <1>c, <2>2, <2>3 DEF Desk!Differs
<1>7. CASE Desk!Discard
  <2>1. Desk!Unsaved \in [Desk!Field -> Nat \union {None}]
        /\ \A f \in Desk!Field : Desk!Unsaved[f] \in {None, v3[f]}
            /\ (v1 = "look" => Desk!Unsaved[f] = None)
    BY <1>a DEF Desk!Unsaved
  <2> QED BY <1>a, <1>b, <1>7, <2>1 DEF Desk!Discard, Desk!Differs, Desk!Idle
<1>8. CASE Desk!Save
  <2>1. CASE Desk!Change = {}
    <3>1. Desk!Unsaved \in [Desk!Field -> Nat \union {None}]
          /\ \A f \in Desk!Field : Desk!Unsaved[f] \in {None, v3[f]}
              /\ (v1 = "look" => Desk!Unsaved[f] = None)
      BY <1>a DEF Desk!Unsaved
    <3> QED BY <1>a, <1>b, <1>8, <2>1, <3>1 DEF Desk!Save, Desk!Differs, Desk!Idle
  <2>2. CASE Desk!Change # {}
    <3> DEFINE wanted == [f \in Desk!Field |-> IF Desk!KeyOf(f) \in Desk!Change THEN Desk!Shown[f] ELSE 0]
               new == [step |-> "saving", sent |-> Desk!Change, chosen |-> Desk!Keys(v5), wanted |-> wanted]
    <3>1. v6' = new /\ UNCHANGED <<v2, v3, v4, v5, v7, v8>>
      BY <1>8, <2>2 DEF Desk!Save
    <3>2. Desk!Shown \in [Desk!Field -> Nat]
      BY <1>a DEF Desk!Shown
    <3>3. wanted \in [Desk!Field -> Nat]
      BY <3>2
    <3>4. Desk!Change \subseteq Desk!Keys(v5) /\ Desk!Keys(v5) \subseteq Desk!Keys(Desk!Field)
      <4>1. "emblem" \in Desk!Field => v1 = "look"
        BY <1>a DEF Desk!Field, Desk!Fields
      <4>2. {f \in Desk!Field : v4[f] \notin {None, v3[f]} \/ (f = "emblem" /\ v4[f] # None)} \subseteq v5
        BY <1>a, <4>1 DEF Desk!Differs
      <4> QED BY <1>a, <4>2 DEF Desk!Change, Desk!Keys
    <3>5. new \in Task /\ new.sent \subseteq new.chosen
      BY <3>3, <3>4 DEF Task
    <3>6. \A f \in Desk!Field : Desk!Differs(f) => Desk!KeyOf(f) \in Desk!Change
          /\ wanted[f] = v4[f]
      BY <1>a DEF Desk!Differs, Desk!Change, Desk!Keys, Desk!Shown
    <3> QED BY <1>a, <1>b, <3>1, <3>5, <3>6 DEF Desk!Differs, Desk!Idle
  <2> QED BY <2>1, <2>2
<1>9. CASE Desk!SaveEnds
  <2>1. v6' = Desk!NoTask /\ UNCHANGED <<v7, v8>>
    BY <1>9 DEF Desk!SaveEnds
  <2>2. CASE v2' = Desk!Written /\ v3' = Desk!Written /\ v1 = "look"
        /\ v4' = [f \in Desk!Field |-> None] /\ v5' = {}
    BY <1>a, <1>b, <1>c, <1>d, <2>1, <2>2 DEF Desk!Differs
  <2>3. CASE v2' = Desk!Written /\ v3' = Desk!Written /\ v4' = Desk!Written /\ v5' = {}
        /\ v1 # "look"
    BY <1>a, <1>b, <1>c, <1>d, <2>1, <2>3 DEF Desk!Differs, Desk!Idle
  <2>4. CASE v2' = Desk!Written /\ v3' = Desk!Written /\ Desk!Written = v3 /\ v1 # "look"
        /\ v5' = (IF v1 = "rules" THEN {} ELSE v5) /\ UNCHANGED v4
    <3>1. v1 = "rules" => \A f \in Desk!Field : ~Desk!Differs(f)
      BY <1>a, <1>9, <2>4 DEF Desk!SaveEnds, Desk!Idle, Desk!Written, Desk!Differs
    <3> QED BY <1>a, <1>b, <1>c, <1>d, <2>1, <2>4, <3>1 DEF Desk!Differs, Desk!Idle
  <2>5. CASE v2' \in {Desk!Written, v2} /\ UNCHANGED <<v3, v4, v5>>
    BY <1>a, <1>b, <1>c, <1>d, <2>1, <2>5 DEF Desk!Differs, Desk!Idle
  <2> QED BY <1>9, <2>2, <2>3, <2>4, <2>5 DEF Desk!SaveEnds
<1>10. CASE Desk!NewCode
  <2>1. PICK code \in {0, v8 + 2} :
          v6' = [step |-> "saving", sent |-> {"code"}, wanted |-> [f \in Desk!Field |-> code], chosen |-> {"code"}]
    BY <1>10 DEF Desk!NewCode
  <2>2. code \in Nat /\ v1 = "join" /\ v8' \in Nat /\ UNCHANGED <<v2, v3, v4, v5, v7>>
    BY <1>a, <1>10 DEF Desk!NewCode
  <2>3. "code" \in Desk!Keys(Desk!Field)
    BY <2>2 DEF Desk!Keys, Desk!KeyOf, Desk!Field, Desk!Fields
  <2>4. v6' \in Task /\ v6'.sent \subseteq v6'.chosen /\ v6'.step = "saving"
    BY <2>1, <2>2, <2>3 DEF Task
  <2> QED BY <1>a, <1>b, <2>2, <2>4 DEF Desk!Differs
<1>11. CASE Desk!CodeAnswers
  BY <1>a, <1>b, <1>c, <1>d, <1>11 DEF Desk!CodeAnswers, Desk!Differs, Desk!Idle
<1>12. CASE UNCHANGED Desk!vars
  BY <1>a, <1>b, <1>12 DEF Desk!vars, Desk!Differs, Desk!Idle
<1> QED BY <1>1, <1>2, <1>3, <1>4, <1>5, <1>6, <1>7, <1>8, <1>9, <1>10, <1>11, <1>12 DEF Desk!Next

\* What is sent of a card is then what was chosen.
LEMMA DeskSaves ==
    ASSUME Desk!DeskInv
    PROVE  Desk!SavesOnlyChoices /\ Desk!UntouchedIsSaved
BY DEF Desk!DeskInv, Desk!UntouchedIsSaved, Desk!Shown, Desk!Differs

-----------------------------------------------------------------------------
\* Two requests for the results; they may be kept for as long as two fetches stay fresh.
Results == INSTANCE SeasonResults WITH
    Requests <- Places, MaxTtl <- ResultsTtl, TtlFailed <- ResultsFailed,
    StaleLimit <- ResultsStale, MaxTime <- ResultsTime,
    now <- v1, snapshot <- v2, request <- v3

\* SeasonResults: now is v1, snapshot v2, request v3.

\* The longest that results may live.
LEMMA OldestBounds ==
    ASSUME Results!Lifetimes
    PROVE  Results!Oldest \in Nat /\ ResultsTtl <= Results!Oldest
           /\ ResultsStale + ResultsFailed <= Results!Oldest /\ 0 < Results!Oldest
<1> DEFINE S == {ResultsTtl, ResultsStale + ResultsFailed}
<1>1. \E x \in S : \A y \in S : x >= y
  BY DEF Results!Lifetimes
<1>2. Results!Oldest \in S /\ \A y \in S : Results!Oldest >= y
  BY <1>1 DEF Results!Oldest, Results!Max
<1> QED BY <1>2 DEF Results!Lifetimes

\* There is no snapshot at first.
LEMMA ResultsInitially ==
    ASSUME Results!Init PROVE Results!ResultsInv
BY DEF Results!Init, Results!ResultsInv, Results!Sound

\* A request that holds sound results may go on with them.
LEMMA GoesKeeps ==
    ASSUME Results!ResultsInv, NEW r \in Places, v3[r] # None, NEW step,
           NEW s, Results!Goes(r, step, s),
           step = "put" => Results!Sound(s)
                /\ (s.status = "ok" => v3[r].at - Results!Original(s) < Results!Oldest),
           UNCHANGED <<v1, v2>>
    PROVE  Results!ResultsInv'
<1>1. /\ v3'[r] = [step |-> step, at |-> v3[r].at, snapshot |-> s]
      /\ \A q \in Places : q # r => v3'[q] = v3[q]
      /\ v3' = [q \in Places |-> v3'[q]]
  BY DEF Results!ResultsInv, Results!Goes
<1>2. v1' = v1 /\ v2' = v2
  OBVIOUS
<1>3. \A k : Results!Sound(k)' <=> Results!Sound(k)
  BY DEF Results!Sound, Results!Original
<1> QED BY <1>1, <1>2, <1>3 DEF Results!ResultsInv, Results!Original

\* What a request kept, put or fetched is sound, and the others are as before.
LEMMA TickResults ==
    ASSUME Results!ResultsInv, Results!Tick
    PROVE  Results!ResultsInv'
<1>1. v1' \in Nat /\ v1 < v1' /\ v2' = v2 /\ v3' = v3
  BY DEF Results!Tick, Results!ResultsInv
<1>3. \A k : Results!Sound(k)' <=> Results!Sound(k)
  BY DEF Results!Sound, Results!Original
<1> QED BY <1>1, <1>3 DEF Results!ResultsInv, Results!Original

\* A request asks at the moment it is at.
LEMMA AskResults ==
    ASSUME Results!ResultsInv, NEW r \in Places, Results!Ask(r)
    PROVE  Results!ResultsInv'
<1>1. /\ v3'[r] = [step |-> "fetch", at |-> v1, snapshot |-> None]
      /\ \A q \in Places : q # r => v3'[q] = v3[q]
      /\ v3' = [q \in Places |-> v3'[q]]
  BY DEF Results!ResultsInv, Results!Ask
<1>2. v1' = v1 /\ v2' = v2
  BY DEF Results!Ask
<1>3. \A k : Results!Sound(k)' <=> Results!Sound(k)
  BY DEF Results!Sound, Results!Original
<1> QED BY <1>1, <1>2, <1>3 DEF Results!ResultsInv, Results!Original, Results!Sound

\* What the feed answers is of that moment or later than it was asked.
LEMMA FetchResults ==
    ASSUME Results!Lifetimes, Results!ResultsInv, NEW r \in Places, Results!Fetch(r)
    PROVE  Results!ResultsInv'
<1>1. /\ v3[r] # None /\ v3[r].step = "fetch" /\ v1' = v1 /\ v2' = v2
      /\ v1 \in Nat /\ v3[r].at \in Nat /\ v3[r].at <= v1
  BY DEF Results!Fetch, Results!ResultsInv
<1>2. PICK ttl \in {ResultsFailed, ResultsTtl} :
         Results!Goes(r, "put", [status |-> "ok", data |-> v1, kept |-> None,
                         fetched |-> v3[r].at, expires |-> v3[r].at + ttl])
  BY DEF Results!Fetch
<1> DEFINE at == v3[r].at
           s == [status |-> "ok", data |-> v1, kept |-> None, fetched |-> at, expires |-> at + ttl]
<1>3. ttl \in Nat /\ ttl <= Results!Oldest /\ Results!Oldest \in Nat /\ 0 < Results!Oldest
  BY OldestBounds DEF Results!Lifetimes
<1>4. s.status = "ok" /\ s.data = v1 /\ s.kept = None /\ s.fetched = at /\ s.expires = at + ttl
  OBVIOUS
<1>5. Results!Goes(r, "put", s)
  BY <1>2
<1> HIDE DEF s, at
<1>6. at \in Nat /\ at <= v1
  BY <1>1 DEF at
<1>7. Results!Original(s) = at
  BY <1>4 DEF Results!Original
<1>8. Results!Sound(s)
  <2>1. s \in [status : {"ok"}, data : Nat, kept : Nat \union {None}, fetched : Nat, expires : Nat]
    BY <1>1, <1>3, <1>6 DEF s
  <2> QED BY <2>1, <1>1, <1>3, <1>4, <1>6, <1>7 DEF Results!Sound
<1>9. v3[r].at - Results!Original(s) < Results!Oldest
  BY <1>1, <1>3, <1>6, <1>7 DEF at
<1> QED BY <1>1, <1>5, <1>8, <1>9, GoesKeeps

\* A failure holds no results yet.
LEMMA FailsResults ==
    ASSUME Results!ResultsInv, NEW r \in Places, Results!FetchFails(r)
    PROVE  Results!ResultsInv'
<1>1. v3[r] # None /\ Results!Goes(r, "failed", None) /\ UNCHANGED <<v1, v2>>
  BY DEF Results!FetchFails
<1> QED BY <1>1, GoesKeeps

\* Results are kept as of when they were fetched, and no longer than the limit.
LEMMA KeepResults ==
    ASSUME Results!Lifetimes, Results!ResultsInv, NEW r \in Places, Results!Keep(r)
    PROVE  Results!ResultsInv'
<1> DEFINE at == v3[r].at
           kept(s) == [s EXCEPT !.kept = Results!Original(s), !.fetched = at, !.expires = at + ResultsFailed]
           good(s) == s # None /\ s.status = "ok" /\ at - Results!Original(s) <= ResultsStale
<1>1. /\ v3[r] # None /\ UNCHANGED <<v1, v2>>
      /\ at \in Nat /\ ResultsStale \in Nat /\ ResultsFailed \in Nat /\ 0 < ResultsFailed
  BY DEF Results!Keep, Results!ResultsInv, Results!Lifetimes
<1>2. PICK s \in {v2, None} : Results!Goes(r, "put", IF good(s) THEN kept(s) ELSE Results!Failure(at))
  BY DEF Results!Keep
<1>3. CASE ~good(s)
  <2>1. Results!Failure(at).status # "ok"
    BY DEF Results!Failure
  <2>2. Results!Goes(r, "put", Results!Failure(at))
    BY <1>2, <1>3
  <2> HIDE DEF at
  <2> QED BY <1>1, <2>1, <2>2, GoesKeeps DEF Results!Sound
<1>4. CASE good(s)
  <2> DEFINE Good == [status : {"ok"}, data : Nat, kept : Nat \union {None}, fetched : Nat, expires : Nat]
             k == kept(s)
  <2>1. s \in Good /\ Results!Original(s) <= s.data /\ at - Results!Original(s) <= ResultsStale
        /\ Results!Original(s) \in Nat
    BY <1>2, <1>4 DEF Results!ResultsInv, Results!Sound, Results!Original
  <2>2. /\ k.status = "ok" /\ k.data = s.data /\ k.kept = Results!Original(s) /\ k.fetched = at
        /\ k.expires = at + ResultsFailed /\ k \in Good
    <3>1. \A o, f, e \in Nat :
             LET c == [s EXCEPT !.kept = o, !.fetched = f, !.expires = e] IN
             c.status = "ok" /\ c.data = s.data /\ c.kept = o /\ c.fetched = f /\ c.expires = e
                   /\ c \in Good
      BY <2>1
    <3>2. Results!Original(s) \in Nat /\ at \in Nat /\ at + ResultsFailed \in Nat
      BY <1>1, <2>1
    <3> DEFINE o == Results!Original(s)
               e == at + ResultsFailed
    <3>3. k = [s EXCEPT !.kept = o, !.fetched = at, !.expires = e]
      OBVIOUS
    <3>4. o \in Nat /\ at \in Nat /\ e \in Nat
      BY <3>2
    <3> HIDE DEF Good, at, o, e, k
    <3>5. LET c == [s EXCEPT !.kept = o, !.fetched = at, !.expires = e] IN
          c.status = "ok" /\ c.data = s.data /\ c.kept = o /\ c.fetched = at /\ c.expires = e
                /\ c \in Good
      BY <3>1, <3>4, Zenon
    <3> QED BY <3>3, <3>5 DEF o, e
  <2>3. Results!Goes(r, "put", k)
    BY <1>2, <1>4
  <2> HIDE DEF k, at
  <2>4. Results!Original(k) = Results!Original(s)
    BY <2>2, <2>1, <1>1 DEF Results!Original, Results!Lifetimes
  <2>5. at - Results!Original(k) < Results!Oldest
        /\ k.expires - Results!Original(k) <= Results!Oldest
    BY <2>1, <2>2, <2>4, <1>1, OldestBounds
  <2>6. Results!Sound(k)
    BY <2>1, <2>2, <2>4, <2>5 DEF Results!Sound
  <2>7. v3[r].at - Results!Original(k) < Results!Oldest
    BY <2>5 DEF at
  <2> QED BY <1>1, <2>3, <2>6, <2>7, GoesKeeps
<1> QED BY <1>3, <1>4

\* Only what a request holds is put.
LEMMA PutResults ==
    ASSUME Results!ResultsInv, NEW r \in Places, Results!Put(r)
    PROVE  Results!ResultsInv'
<1>1. /\ v3'[r] = None
      /\ \A q \in Places : q # r => v3'[q] = v3[q]
      /\ v3' = [q \in Places |-> v3'[q]]
      /\ v1' = v1 /\ v3[r] # None /\ v3[r].step = "put"
      /\ v2' \in {v2, v3[r].snapshot}
  BY DEF Results!ResultsInv, Results!Put
<1>2. \A k : Results!Sound(k)' <=> Results!Sound(k)
  BY DEF Results!Sound, Results!Original
<1>3. v2' = None \/ Results!Sound(v2')
  BY <1>1 DEF Results!ResultsInv
<1> QED BY <1>1, <1>2, <1>3 DEF Results!ResultsInv, Results!Original

\* Every step keeps results, wherever they are, as new as they say.
LEMMA ResultsStep ==
    ASSUME Results!Lifetimes, Results!ResultsInv, [Results!Next]_(Results!vars)
    PROVE  Results!ResultsInv'
<1>1. CASE UNCHANGED Results!vars
  <2>1. \A k : Results!Sound(k)' <=> Results!Sound(k)
    BY DEF Results!Sound, Results!Original
  <2> QED BY <1>1, <2>1 DEF Results!vars, Results!ResultsInv, Results!Original
<1> QED BY <1>1, TickResults, AskResults, FetchResults, FailsResults, KeepResults, PutResults DEF
   Results!Next

\* And what is answered from them is then no older than it may be.
LEMMA ResultsAreTold ==
    ASSUME Results!Lifetimes, Results!ResultsInv
    PROVE  Results!ResultsAreAsTold
<1>1. Results!Oldest \in Nat
  BY OldestBounds
<1> SUFFICES ASSUME NEW a \in Results!Answered, a.snapshot.status = "ok"
             PROVE  /\ Results!Original(a.snapshot) <= a.snapshot.data
                    /\ a.at - Results!Original(a.snapshot) < Results!Oldest
  BY DEF Results!ResultsAreAsTold, Results!Oldest
<1>2. CASE Results!Fresh(v2, v1) /\ a = [at |-> v1, snapshot |-> v2]
  <2>1. a.at = v1 /\ a.snapshot = v2 /\ v2 # None /\ v2.expires > v1 /\ v1 \in Nat
    BY <1>2 DEF Results!Fresh, Results!ResultsInv
  <2>2. Results!Sound(v2)
    BY <2>1 DEF Results!ResultsInv
  <2>3. /\ v2.expires \in Nat /\ Results!Original(v2) \in Nat
        /\ Results!Original(v2) <= v2.data /\ v2.expires - Results!Original(v2) <= Results!Oldest
    BY <2>1, <2>2 DEF Results!Sound, Results!Original
  <2> QED BY <2>1, <2>3, <1>1
<1>3. CASE \E r \in Places : /\ v3[r] # None /\ v3[r].step = "put"
                               /\ a = [at |-> v3[r].at, snapshot |-> v3[r].snapshot]
  BY <1>3 DEF Results!ResultsInv, Results!Sound
<1> QED BY <1>2, <1>3 DEF Results!Answered

-----------------------------------------------------------------------------
\* A duty over two weeks of its marks.
Counted == INSTANCE DutyMarks WITH
    Week <- MarkWeek, MaxTime <- MarkTime,
    now <- v1, duty <- v2, pending <- v3, closure <- v4, told <- v5

\* DutyMarks: now is v1, duty v2, pending v3, closure v4, told v5.

\* What a division by a week is ...
LEMMA WholeWeeks ==
    ASSUME NEW w \in Nat \ {0}, NEW x \in Int
    PROVE  x \div w \in Int /\ w * (x \div w) <= x /\ x < w * (x \div w + 1)
<1>1. x \div w \in Int /\ w * (x \div w) <= x /\ x < w * (x \div w) + w
  OBVIOUS
<1>2. \A a \in Int : w * (a + 1) = w * a + w
  OBVIOUS
<1> QED BY <1>1, <1>2

\* ... and that no more weeks fit in less time.
LEMMA FewerWeeks ==
    ASSUME NEW w \in Nat \ {0}, NEW a \in Int, NEW b \in Int, NEW x \in Int, NEW y \in Int,
           w * a <= x, x <= y, y < w * (b + 1)
    PROVE  a <= b
<1> SUFFICES ASSUME b + 1 <= a PROVE FALSE
  OBVIOUS
<1>1. \A c, d \in Int : c <= d => w * c <= w * d
  OBVIOUS
<1>2. w * (b + 1) <= w * a
  BY <1>1
<1> QED BY <1>2

\* The first of up to three moments, as far as they are known, and another.
LEMMA FirstOf ==
    ASSUME NEW a \in Nat \union {None}, NEW b \in Nat \union {None},
           NEW c \in Nat \union {None}, NEW at \in Nat, None \notin Int
    PROVE  LET S == ({a, b, c} \ {None}) \union {at} IN
           Counted!Min(S) \in S /\ \A t \in S : Counted!Min(S) <= t
<1> DEFINE S == ({a, b, c} \ {None}) \union {at}
           m1 == IF a # None /\ a < at THEN a ELSE at
           m2 == IF b # None /\ b < m1 THEN b ELSE m1
           m3 == IF c # None /\ c < m2 THEN c ELSE m2
<1>1. m1 \in Nat /\ m1 \in {a, at} /\ m1 \in S /\ m1 <= at /\ (a # None => m1 <= a)
  OBVIOUS
<1> HIDE DEF m1
<1>2. m2 \in Nat /\ m2 \in S /\ m2 <= at /\ (a # None => m2 <= a) /\ (b # None => m2 <= b)
  BY <1>1
<1> HIDE DEF m2
<1>3. m3 \in S /\ m3 <= at /\ (a # None => m3 <= a) /\ (b # None => m3 <= b)
      /\ (c # None => m3 <= c)
  BY <1>2
<1> HIDE DEF m3
<1>4. \A t \in S : m3 <= t
  BY <1>3
<1> QED BY <1>3, <1>4 DEF Counted!Min

\* The clock starts at the deadline or at a later reset.
LEMMA StartIs ==
    ASSUME Counted!Weeks, NEW at \in Nat, NEW d, Counted!IsDuty(d, at), d.deadline # None
    PROVE  /\ Counted!Start(d) \in Nat /\ d.deadline <= Counted!Start(d)
           /\ Counted!Start(d) = IF d.reset # None /\ d.deadline <= d.reset THEN d.reset
               ELSE d.deadline
<1> DEFINE a == d.deadline
           b == IF d.reset = None THEN a ELSE d.reset
<1>1. a \in Nat /\ b \in Nat
  BY DEF Counted!IsDuty
<1>2. Counted!Start(d) = Counted!Max({a, b})
  BY DEF Counted!Start
<1>3. \A x, y \in Nat : Counted!Max({x, y}) = IF x <= y THEN y ELSE x
  BY DEF Counted!Max
<1>4. Counted!Start(d) = IF a <= b THEN b ELSE a
  <2> HIDE DEF a, b
  <2> QED BY <1>1, <1>2, <1>3
<1> QED BY <1>1, <1>4

\* It runs until the first of what stops it.
LEMMA EndIs ==
    ASSUME Counted!Weeks, NEW at \in Nat, NEW d, Counted!IsDuty(d, at),
           NEW closed \in Nat \union {None}, NEW t \in Nat
    PROVE  /\ Counted!End(d, closed, t) \in Nat /\ Counted!End(d, closed, t) <= t
           /\ Counted!End(d, closed, t) \in Counted!Stops(d, closed) \union {t}
           /\ \A s \in Counted!Stops(d, closed) : s \in Nat /\ Counted!End(d, closed, t) <= s
<1> DEFINE a == d.completed
           c == IF d.withdrawn THEN d.voided ELSE None
<1>1. a \in Nat \union {None} /\ c \in Nat \union {None} /\ None \notin Int
  BY DEF Counted!IsDuty, Counted!Weeks
<1>2. Counted!Stops(d, closed) = {a, closed, c} \ {None}
  BY DEF Counted!Stops
<1>3. Counted!End(d, closed, t) = Counted!Min(({a, closed, c} \ {None}) \union {t})
  BY <1>2 DEF Counted!End
<1> HIDE DEF a, c
<1>4. LET S == ({a, closed, c} \ {None}) \union {t} IN Counted!Min(S) \in S
               /\ \A s \in S : Counted!Min(S) <= s
  BY <1>1, FirstOf
<1> QED BY <1>1, <1>2, <1>3, <1>4

\* What is told of a duty that earns marks: the whole weeks, and when the next one ends.
LEMMA CalculateIs ==
    ASSUME Counted!Weeks, NEW at \in Nat, NEW d, Counted!IsDuty(d, at),
           NEW closed \in 0 .. at \union {None},
           NEW t \in Nat, at <= t, Counted!Earns(d)
    PROVE  LET m == Counted!Calculate(d, closed, t)[1]
               s == Counted!Start(d)
               e == Counted!End(d, closed, t) IN
           /\ m \in Nat /\ (m = 0 \/ MarkWeek * m <= e - s) /\ e - s < MarkWeek * (m + 1)
           /\ Counted!Calculate(d, closed, t)[2] = IF Counted!Stops(d, closed) = {} THEN s + MarkWeek * (m + 1) ELSE None
           /\ Counted!Stops(d, closed) = {} => e = t
<1> DEFINE s == Counted!Start(d)
           e == Counted!End(d, closed, t)
           stops == Counted!Stops(d, closed)
           stopped == \E x \in stops : x <= e
           marks == IF e <= s THEN 0 ELSE (e - s) \div MarkWeek
           due == IF e <= s THEN s + MarkWeek ELSE e + (marks + 1) * MarkWeek - (e - s)
<1>1. Counted!Calculate(d, closed, t) = <<marks, IF stopped THEN None ELSE due>>
  BY DEF Counted!Calculate
<1>2. s \in Nat
  BY StartIs DEF Counted!Earns
<1>3. /\ e \in Nat /\ e \in stops \union {t} /\ e <= t
      /\ \A x \in stops : x \in Nat /\ e <= x
  <2>1. closed \in Nat \union {None}
    OBVIOUS
  <2> QED BY <2>1, EndIs
<1>4. \A x \in stops : x <= at
  BY DEF Counted!Stops, Counted!IsDuty, Counted!Weeks
<1>5. stopped <=> stops # {}
  BY <1>3, <1>4
<1> HIDE DEF s, e, stops, stopped
<1>6. /\ marks \in Nat /\ (marks = 0 \/ MarkWeek * marks <= e - s)
          /\ e - s < MarkWeek * (marks + 1)
  <2>1. MarkWeek \in Nat \ {0} /\ e - s \in Int
    BY <1>2, <1>3 DEF Counted!Weeks
  <2>2. CASE e <= s
    BY <2>1, <2>2, <1>2, <1>3
  <2>3. CASE ~(e <= s)
    <3> DEFINE q == (e - s) \div MarkWeek
    <3>1. q \in Int /\ MarkWeek * q <= e - s /\ e - s < MarkWeek * (q + 1)
      BY <2>1, WholeWeeks
    <3>2. MarkWeek * 0 = 0
      BY <2>1
    <3>3. marks = q
      BY <2>3
    <3> HIDE DEF q
    <3>4. 0 <= q
      BY <3>1, <3>2, <2>1, <2>3, <1>2, <1>3, FewerWeeks
    <3> HIDE DEF marks
    <3> QED BY <3>1, <3>3, <3>4
  <2> QED BY <2>2, <2>3
<1>7. due = s + MarkWeek * (marks + 1)
  <2>1. \A a \in Int : MarkWeek \in Int /\ a * MarkWeek = MarkWeek * a
    BY DEF Counted!Weeks
  <2>2. CASE e <= s
    BY <2>1, <2>2, <1>2 DEF Counted!Weeks
  <2>3. CASE ~(e <= s)
    <3>1. marks + 1 \in Int
      BY <1>6
    <3> HIDE DEF marks
    <3>2. (marks + 1) * MarkWeek = MarkWeek * (marks + 1) /\ (marks + 1) * MarkWeek \in Int
      BY <2>1, <3>1
    <3> DEFINE p == (marks + 1) * MarkWeek
    <3>3. due = e + p - (e - s)
      BY <2>3
    <3> HIDE DEF p, due
    <3> QED BY <3>2, <3>3, <1>2, <1>3 DEF p
  <2> QED BY <2>2, <2>3
<1>8. stops = {} => e = t
  BY <1>3
<1> HIDE DEF marks, due
<1>9. Counted!Calculate(d, closed, t)[1] = marks
      /\ Counted!Calculate(d, closed, t)[2] = IF stopped THEN None ELSE due
  BY <1>1
<1> QED BY <1>5, <1>6, <1>7, <1>8, <1>9 DEF s, e, stops

\* Everything that happened by one moment happened by a later one.
LEMMA DutyLater ==
    ASSUME NEW a \in Nat, NEW b \in Nat, a <= b, NEW d, Counted!IsDuty(d, a)
    PROVE  Counted!IsDuty(d, b)
<1>1. 0 .. a \subseteq 0 .. b
  OBVIOUS
<1> QED BY <1>1 DEF Counted!IsDuty

\* Nothing has happened to a new duty.
LEMMA MarksInitially ==
    ASSUME Counted!Init, Counted!Weeks
    PROVE  Counted!MarksInv
<1>1. PICK deadline \in Counted!Time \union {None} :
         v2 = [status |-> IF deadline = None THEN "pending_deadline" ELSE "open",
                 deadline |-> deadline, completed |-> None, reset |-> None, voided |-> None,
                 withdrawn |-> FALSE]
  BY DEF Counted!Init
<1>2. deadline \in Nat \union {None}
  BY DEF Counted!Time
<1> QED BY <1>1, <1>2 DEF Counted!Init, Counted!MarksInv, Counted!IsDuty

\* What is told stays true of the duty when a step leaves the clock and the answer alone.
LEMMA DutyFollows ==
    ASSUME Counted!Weeks, Counted!MarksInv, v1' = v1, v5' = v5, Counted!IsDuty(v2', v1),
           v3' \in 0 .. v1 \union {None},
           v4' = v4 \/ (v4 = None /\ v4' = v1),
           v2' = v2
           \/ /\ v2.status \in {"open", "pending_deadline"} /\ v2'.deadline = v2.deadline
              /\ (v2'.reset = v2.reset \/ v2'.reset = v1)
              /\ (v2'.withdrawn => v2'.voided = v1)
    PROVE  Counted!MarksInv'
<1>1. v4' \in 0 .. v1 \union {None}
  BY DEF Counted!MarksInv
<1>2. ASSUME v5 # None PROVE Counted!TellsStill'
  <2> DEFINE d == v5.duty
  <2>1. Counted!TellsStill /\ v1 \in Nat /\ v5.at \in 0 .. v1
    BY <1>2 DEF Counted!MarksInv, Counted!TellsStill
  <2>2. Counted!Since(v5.closed, v5.at, v4')
    BY <2>1 DEF Counted!TellsStill, Counted!Since, Counted!Weeks
  <2>3. v2'.deadline = d.deadline
    BY <2>1 DEF Counted!TellsStill
  <2>4. v2'.reset = d.reset \/ Counted!Between(v5.at, v2'.reset, v1)
    BY <2>1 DEF Counted!TellsStill, Counted!Between, Counted!Weeks
  <2>5. d.status \in {"completed", "voided"} => v2' = d
    BY <2>1 DEF Counted!TellsStill
  <2>6. v2'.withdrawn => v2' = d \/ v5.at <= v2'.voided
    BY <2>1 DEF Counted!TellsStill
  <2>7. /\ v5.marks = Counted!Calculate(d, v5.closed, v5.at)[1]
        /\ v5.next = Counted!Calculate(d, v5.closed, v5.at)[2]
        /\ Counted!IsDuty(d, v5.at) /\ v5.closed \in 0 .. v5.at \union {None}
    BY <2>1 DEF Counted!TellsStill
  <2>8. Counted!IsDuty(d, v5.at)' <=> Counted!IsDuty(d, v5.at)
    BY DEF Counted!IsDuty
  <2>9. Counted!Calculate(d, v5.closed, v5.at)' = Counted!Calculate(d, v5.closed, v5.at)
    BY DEF Counted!Calculate, Counted!Earns, Counted!Start, Counted!End, Counted!Stops
  <2> HIDE DEF d
  <2> QED BY <2>1, <2>2, <2>3, <2>4, <2>5, <2>6, <2>7, <2>8, <2>9 DEF Counted!TellsStill,
     Counted!Since, Counted!Between, d
<1>3. Counted!IsDuty(v2, v1)'
  BY DEF Counted!IsDuty
<1> QED BY <1>1, <1>2, <1>3 DEF Counted!MarksInv

\* Time passing changes nothing of what was told.
LEMMA TickMarks ==
    ASSUME Counted!Weeks, Counted!MarksInv, Counted!Tick
    PROVE  Counted!MarksInv'
<1>1. v1 \in Nat /\ v1' \in Nat /\ v1 <= v1' /\ UNCHANGED <<v2, v3, v4, v5>>
  BY DEF Counted!Tick, Counted!MarksInv
<1>2. Counted!IsDuty(v2, v1')
  BY <1>1, DutyLater DEF Counted!MarksInv
<1>3. Counted!IsDuty(v2, v1)'
  BY <1>1, <1>2 DEF Counted!IsDuty
<1>4. ASSUME v5 # None PROVE Counted!TellsStill'
  <2> DEFINE d == v5.duty
  <2>1. Counted!TellsStill /\ v5' = v5 /\ v2' = v2 /\ v4' = v4
    BY <1>1, <1>4 DEF Counted!MarksInv
  <2>2. v5.at \in 0 .. v1'
    BY <1>1, <2>1 DEF Counted!TellsStill
  <2>3. v2.reset = d.reset \/ Counted!Between(v5.at, v2.reset, v1')
    <3>1. CASE v2.reset = d.reset
      BY <3>1
    <3>2. CASE Counted!Between(v5.at, v2.reset, v1)
      <4>1. v2.reset \in Nat \union {None}
        BY DEF Counted!MarksInv, Counted!IsDuty
      <4> QED BY <1>1, <3>2, <4>1 DEF Counted!Between
    <3> QED BY <2>1, <3>1, <3>2 DEF Counted!TellsStill
  <2>4. Counted!IsDuty(d, v5.at)' <=> Counted!IsDuty(d, v5.at)
    BY <2>1 DEF Counted!IsDuty
  <2>5. Counted!Calculate(d, v5.closed, v5.at)' = Counted!Calculate(d, v5.closed, v5.at)
    BY <2>1 DEF Counted!Calculate, Counted!Earns, Counted!Start, Counted!End, Counted!Stops
  <2> HIDE DEF d
  <2> QED BY <2>1, <2>2, <2>3, <2>4, <2>5 DEF Counted!TellsStill, Counted!Since, Counted!Between,
     d
<1> QED BY <1>1, <1>3, <1>4 DEF Counted!MarksInv

\* What is told is of the moment.
LEMMA TellMarks ==
    ASSUME Counted!Weeks, Counted!MarksInv, Counted!Tell
    PROVE  Counted!MarksInv'
<1>1. /\ v5' = [at |-> v1, marks |-> Counted!Marks, next |-> Counted!NextMark, duty |-> v2, closed |-> v4]
      /\ UNCHANGED <<v1, v2, v3, v4>> /\ v1 \in Nat
  BY DEF Counted!Tell, Counted!MarksInv
<1>2. /\ v5'.at = v1 /\ v5'.duty = v2 /\ v5'.closed = v4
      /\ v5'.marks = Counted!Marks /\ v5'.next = Counted!NextMark
  BY <1>1
<1>3. v5'.duty = v2' /\ v5'.closed = v4' /\ v5'.at = v1'
  BY <1>1, <1>2
<1>4. Counted!Calculate(v5.duty, v5.closed, v5.at)' = Counted!Calculate(v2, v4, v1)
  <2>1. \A d, c, t : Counted!Calculate(d, c, t)' = Counted!Calculate(d, c, t)
    BY DEF Counted!Calculate, Counted!Earns, Counted!Start, Counted!End, Counted!Stops
  <2> QED BY <1>2, <2>1
<1>5. Counted!IsDuty(v5.duty, v5.at)' /\ Counted!IsDuty(v2, v1)'
  BY <1>1, <1>2 DEF Counted!MarksInv, Counted!IsDuty
<1>6. v5'.closed \in 0 .. v1 \union {None}
  BY <1>2 DEF Counted!MarksInv
<1>7. v2'.withdrawn => v2' = v5'.duty
  BY <1>3
<1>8. Counted!TellsStill'
  BY <1>1, <1>2, <1>3, <1>4, <1>5, <1>6, <1>7 DEF Counted!TellsStill, Counted!Marks,
     Counted!NextMark, Counted!Since
<1> QED BY <1>1, <1>5, <1>8 DEF Counted!MarksInv

\* Every step keeps what is settled settled, and what changes later than what was told.
LEMMA MarksStep ==
    ASSUME Counted!Weeks, Counted!MarksInv, [Counted!Next]_(Counted!vars)
    PROVE  Counted!MarksInv'
<1>0. v1 \in Nat /\ Counted!IsDuty(v2, v1) /\ v1 \in 0 .. v1 /\ v3 \in 0 .. v1 \union {None}
  BY DEF Counted!MarksInv
<1>1. CASE Counted!Submit \/ Counted!Reject
  <2>1. v1' = v1 /\ v2' = v2 /\ v5' = v5 /\ v4' = v4 /\ v3' \in 0 .. v1 \union {None}
    BY <1>1 DEF Counted!Submit, Counted!Reject
  <2> QED BY <1>0, <2>1, DutyFollows
<1>2. CASE Counted!CloseSeason
  <2>1. v1' = v1 /\ v2' = v2 /\ v5' = v5 /\ v3' = v3 /\ v4 = None /\ v4' = v1
    BY <1>2 DEF Counted!CloseSeason
  <2> QED BY <1>0, <2>1, DutyFollows
<1>3. CASE Counted!Accept
  <2>1. /\ v1' = v1 /\ v5' = v5 /\ v3' = None /\ v4' = v4
        /\ v2.status \in {"open", "pending_deadline"} /\ v3 \in 0 .. v1
        /\ v2' = [v2 EXCEPT !.status = "completed", !.completed = v3]
    BY <1>0, <1>3 DEF Counted!Accept, Counted!Live
  <2>2. /\ v2'.deadline = v2.deadline /\ v2'.reset = v2.reset /\ ~v2'.withdrawn
        /\ Counted!IsDuty(v2', v1)
    BY <1>0, <2>1 DEF Counted!IsDuty
  <2> QED BY <1>0, <2>1, <2>2, DutyFollows
<1>4. CASE Counted!ResetClock
  <2>1. /\ v1' = v1 /\ v5' = v5 /\ v3' = v3 /\ v4' = v4
        /\ v2.status = "open" /\ v2' = [v2 EXCEPT !.reset = v1]
    BY <1>4 DEF Counted!ResetClock
  <2>2. /\ v2'.deadline = v2.deadline /\ v2'.reset = v1 /\ ~v2'.withdrawn
        /\ Counted!IsDuty(v2', v1)
    BY <1>0, <2>1 DEF Counted!IsDuty
  <2> QED BY <1>0, <2>1, <2>2, DutyFollows
<1>5. CASE Counted!VoidDuty
  <2>1. /\ v1' = v1 /\ v5' = v5 /\ v3' = None /\ v4' = v4
        /\ v2.status \in {"open", "pending_deadline"}
        /\ v2' = [v2 EXCEPT !.status = "voided", !.voided = v1, !.withdrawn = FALSE]
    BY <1>5 DEF Counted!VoidDuty, Counted!Void, Counted!Live
  <2> DEFINE Shape == [status : {"open", "pending_deadline", "completed", "voided"},
                       deadline : Nat \union {None}, completed : 0 .. v1 \union {None},
                       reset : 0 .. v1 \union {None}, voided : 0 .. v1 \union {None}, withdrawn : BOOLEAN]
  <2>2. v2 \in Shape /\ v2.completed = None
    BY <1>0, <2>1 DEF Counted!IsDuty
  <2>3. /\ v2' \in Shape /\ v2'.deadline = v2.deadline /\ v2'.reset = v2.reset
        /\ v2'.voided = v1 /\ v2'.completed = v2.completed /\ v2'.status = "voided"
    BY <1>0, <2>1, <2>2
  <2>4. Counted!IsDuty(v2', v1) /\ v2'.voided = v1
    BY <1>0, <2>2, <2>3 DEF Counted!IsDuty, Counted!Weeks
  <2> QED BY <1>0, <2>1, <2>3, <2>4, DutyFollows
<1>6. CASE Counted!WithdrawMember
  <2>1. /\ v1' = v1 /\ v5' = v5 /\ v3' = None /\ v4' = v4
        /\ v2.status \in {"open", "pending_deadline"}
        /\ v2' = [v2 EXCEPT !.status = "voided", !.voided = v1, !.withdrawn = TRUE]
    BY <1>6 DEF Counted!WithdrawMember, Counted!Void, Counted!Live
  <2> DEFINE Shape == [status : {"open", "pending_deadline", "completed", "voided"},
                       deadline : Nat \union {None}, completed : 0 .. v1 \union {None},
                       reset : 0 .. v1 \union {None}, voided : 0 .. v1 \union {None}, withdrawn : BOOLEAN]
  <2>2. v2 \in Shape /\ v2.completed = None
    BY <1>0, <2>1 DEF Counted!IsDuty
  <2>3. /\ v2' \in Shape /\ v2'.deadline = v2.deadline /\ v2'.reset = v2.reset
        /\ v2'.voided = v1 /\ v2'.completed = v2.completed /\ v2'.status = "voided"
    BY <1>0, <2>1, <2>2
  <2>4. Counted!IsDuty(v2', v1) /\ v2'.voided = v1
    BY <1>0, <2>2, <2>3 DEF Counted!IsDuty, Counted!Weeks
  <2> QED BY <1>0, <2>1, <2>3, <2>4, DutyFollows
<1>7. CASE UNCHANGED Counted!vars
  <2>1. v1' = v1 /\ v2' = v2 /\ v5' = v5 /\ v4' = v4 /\ v3' = v3
    BY <1>7 DEF Counted!vars
  <2> QED BY <1>0, <2>1, DutyFollows
<1> QED BY <1>1, <1>2, <1>3, <1>4, <1>5, <1>6, <1>7, TickMarks, TellMarks DEF Counted!Next

\* More time is no fewer marks.
LEMMA MarksGrow ==
    ASSUME NEW w \in Nat \ {0}, NEW a \in Nat, NEW b \in Nat, NEW x \in Int, NEW y \in Int,
           a = 0 \/ w * a <= x, x <= y, y < w * (b + 1)
    PROVE  a <= b
<1>1. CASE a = 0
  BY <1>1
<1>2. CASE w * a <= x
  BY <1>2, FewerWeeks
<1> QED BY <1>1, <1>2

\* A duty without a deadline, or voided, has no marks and no next one.
LEMMA NothingEarned ==
    ASSUME NEW d, NEW closed, NEW t, ~Counted!Earns(d)
    PROVE  Counted!Calculate(d, closed, t)[1] = 0 /\ Counted!Calculate(d, closed, t)[2] = None
BY DEF Counted!Calculate

\* Marks that stopped growing: the end is the first of what stopped them.
LEMMA StoppedEnd ==
    ASSUME Counted!Weeks, NEW at \in Nat, NEW d, Counted!IsDuty(d, at),
           NEW closed \in 0 .. at \union {None},
           NEW t \in Nat, at <= t, Counted!Stops(d, closed) # {}
    PROVE  Counted!End(d, closed, t) \in Counted!Stops(d, closed)
<1>1. closed \in Nat \union {None}
  OBVIOUS
<1>2. \A x \in Counted!Stops(d, closed) : x <= t /\ x \in Nat
  BY DEF Counted!Stops, Counted!IsDuty, Counted!Weeks
<1>3. /\ Counted!End(d, closed, t) \in Nat
          /\ Counted!End(d, closed, t) \in Counted!Stops(d, closed) \union {t}
      /\ \A s \in Counted!Stops(d, closed) : Counted!End(d, closed, t) <= s
  BY <1>1, EndIs
<1> QED BY <1>2, <1>3

\* What was told then holds: marks come when they were said to, and stay.
LEMMA MarksStand ==
    ASSUME Counted!Weeks, Counted!MarksInv
    PROVE  Counted!MarksHold
<1> DEFINE Marked(d, c, t, m) ==
             /\ m \in Nat /\ (m = 0 \/ MarkWeek * m <= Counted!End(d, c, t) - Counted!Start(d))
             /\ Counted!End(d, c, t) - Counted!Start(d) < MarkWeek * (m + 1)
<1>1. v1 \in Nat /\ Counted!IsDuty(v2, v1) /\ v4 \in 0 .. v1 \union {None}
      /\ MarkWeek \in Nat \ {0}
  BY DEF Counted!MarksInv, Counted!Weeks
<1>2. ASSUME Counted!Earns(v2)
      PROVE  /\ Marked(v2, v4, v1, Counted!Marks)
             /\ Counted!NextMark = IF Counted!Stops(v2, v4) = {} THEN Counted!Start(v2) + MarkWeek * (Counted!Marks + 1) ELSE None
             /\ Counted!Stops(v2, v4) = {} => Counted!End(v2, v4, v1) = v1
             /\ Counted!End(v2, v4, v1) \in Nat /\ Counted!End(v2, v4, v1) <= v1
             /\ Counted!End(v2, v4, v1) \in Counted!Stops(v2, v4) \union {v1}
             /\ Counted!Start(v2) \in Nat /\ v2.deadline \in Nat
                 /\ v2.deadline <= Counted!Start(v2)
  <2>1. v4 \in Nat \union {None} /\ v1 <= v1
    BY <1>1
  <2>2. /\ Marked(v2, v4, v1, Counted!Marks)
        /\ Counted!NextMark = IF Counted!Stops(v2, v4) = {} THEN Counted!Start(v2) + MarkWeek * (Counted!Marks + 1) ELSE None
        /\ Counted!Stops(v2, v4) = {} => Counted!End(v2, v4, v1) = v1
    BY <1>1, <1>2, <2>1, CalculateIs DEF Counted!Marks, Counted!NextMark
  <2>3. /\ Counted!End(v2, v4, v1) \in Nat /\ Counted!End(v2, v4, v1) <= v1
        /\ Counted!End(v2, v4, v1) \in Counted!Stops(v2, v4) \union {v1}
    BY <1>1, <2>1, EndIs
  <2>4. Counted!Start(v2) \in Nat /\ v2.deadline \in Nat /\ v2.deadline <= Counted!Start(v2)
    BY <1>1, <1>2, StartIs DEF Counted!Earns, Counted!IsDuty
  <2> QED BY <2>2, <2>3, <2>4
<1>3. Counted!Marks \in Nat
  BY <1>2, NothingEarned DEF Counted!Marks
<1>4. ASSUME Counted!Marks > 0
      PROVE v2.deadline # None /\ Counted!Marks * MarkWeek <= v1 - v2.deadline
  <2>1. Counted!Earns(v2)
    BY <1>4, NothingEarned DEF Counted!Marks
  <2>2. MarkWeek * Counted!Marks <= Counted!End(v2, v4, v1) - Counted!Start(v2)
    BY <1>2, <1>4, <2>1
  <2>3. MarkWeek * Counted!Marks = Counted!Marks * MarkWeek /\ MarkWeek * Counted!Marks \in Int
    BY <1>1, <1>3
  <2>4. v2.deadline # None
    BY <2>1 DEF Counted!Earns
  <2> QED BY <1>1, <1>2, <2>1, <2>2, <2>3, <2>4
<1>5. ASSUME v5 # None
      PROVE  /\ v5.duty = v2 /\ v5.closed = v4 =>
                   IF v5.next = None \/ v1 < v5.next THEN Counted!Marks = v5.marks
                   ELSE Counted!Marks = v5.marks + 1 + (v1 - v5.next) \div MarkWeek
             /\ Counted!Marks < v5.marks =>
                   \/ Counted!Between(v5.at, v2.reset, v1) /\ v2.reset # v5.duty.reset
                   \/ v2.status = "voided" /\ ~v2.withdrawn
                   \/ v2.completed # None /\ v2.completed < v5.at
             /\ v5.duty.withdrawn => Counted!Marks = v5.marks /\ Counted!NextMark = None
  <2> DEFINE d == v5.duty
             c == v5.closed
             at == v5.at
             m == v5.marks
             e == Counted!End(d, c, at)
             f == Counted!End(v2, v4, v1)
  <2>1. /\ Counted!TellsStill /\ at \in Nat /\ at <= v1 /\ at <= at /\ Counted!IsDuty(d, at)
            /\ c \in 0 .. at \union {None}
        /\ m = Counted!Calculate(d, c, at)[1] /\ v5.next = Counted!Calculate(d, c, at)[2]
    BY <1>1, <1>5 DEF Counted!MarksInv, Counted!TellsStill
  <2>2. ASSUME Counted!Earns(d)
        PROVE  /\ Marked(d, c, at, m) /\ e \in Nat /\ e <= at
               /\ v5.next = IF Counted!Stops(d, c) = {} THEN Counted!Start(d) + MarkWeek * (m + 1)
                   ELSE None
               /\ Counted!Stops(d, c) = {} => e = at
               /\ \A s \in Counted!Stops(d, c) : e <= s
               /\ Counted!Start(d) \in Nat
    <3>1. c \in Nat \union {None} /\ at <= at
      BY <2>1
    <3>2. /\ Marked(d, c, at, m)
          /\ v5.next = IF Counted!Stops(d, c) = {} THEN Counted!Start(d) + MarkWeek * (m + 1)
              ELSE None
          /\ Counted!Stops(d, c) = {} => e = at
      <4> DEFINE k == Counted!Calculate(d, c, at)[1]
      <4>1. /\ k \in Nat /\ (k = 0 \/ MarkWeek * k <= e - Counted!Start(d))
                /\ e - Counted!Start(d) < MarkWeek * (k + 1)
            /\ Counted!Calculate(d, c, at)[2] = IF Counted!Stops(d, c) = {} THEN Counted!Start(d) + MarkWeek * (k + 1) ELSE None
            /\ Counted!Stops(d, c) = {} => e = at
        <5> HIDE DEF d, c, at
        <5> QED BY <2>1, <2>2, CalculateIs
      <4>2. k = m
        BY <2>1
      <4> HIDE DEF k, m, d, c, at
      <4> QED BY <2>1, <4>1, <4>2
    <3>3. e \in Nat /\ e <= at /\ \A s \in Counted!Stops(d, c) : e <= s
      BY <2>1, <3>1, EndIs
    <3>4. Counted!Start(d) \in Nat
      BY <2>1, <2>2, StartIs DEF Counted!Earns
    <3> QED BY <3>2, <3>3, <3>4
  <2>3. m \in Nat
    BY <2>1, <2>2, NothingEarned
  <2>4. ASSUME d = v2, c = v4
        PROVE  IF v5.next = None \/ v1 < v5.next THEN Counted!Marks = m
               ELSE Counted!Marks = m + 1 + (v1 - v5.next) \div MarkWeek
    <3>1. CASE ~Counted!Earns(d)
      BY <2>1, <2>4, <3>1, NothingEarned DEF Counted!Marks
    <3>2. CASE Counted!Earns(d) /\ Counted!Stops(d, c) # {}
      <4>1. v5.next = None
        BY <2>2, <3>2
      <4>2. e \in Counted!Stops(d, c) /\ f \in Counted!Stops(d, c) /\ f <= e
        <5>1. e \in Counted!Stops(d, c)
          BY <2>1, <3>2, StoppedEnd
        <5>2. f \in Counted!Stops(d, c)
          BY <1>1, <2>1, <2>4, <3>2, StoppedEnd
        <5>3. v4 \in Nat \union {None}
          BY <1>1
        <5>4. \A s \in Counted!Stops(v2, v4) : f <= s
          BY <1>1, <5>3, EndIs
        <5> QED BY <5>1, <5>2, <5>4, <2>4
      <4>3. e <= f /\ e \in Nat /\ f \in Nat
        BY <1>2, <2>2, <2>4, <3>2, <4>2
      <4>4. e = f
        BY <4>2, <4>3
      <4>5. m = Counted!Marks
        BY <2>1, <2>4, <4>4 DEF Counted!Marks, Counted!Calculate
      <4> QED BY <4>1, <4>5
    <3>3. CASE Counted!Earns(d) /\ Counted!Stops(d, c) = {}
      <4> DEFINE n == v5.next
                 s == Counted!Start(d)
      <4>1. /\ n = s + MarkWeek * (m + 1) /\ s \in Nat /\ e = at /\ f = v1
            /\ Marked(d, c, at, m) /\ Marked(v2, v4, v1, Counted!Marks)
        BY <1>2, <2>2, <2>4, <3>3
      <4>2. /\ (m = 0 \/ MarkWeek * m <= at - s) /\ at - s <= v1 - s
            /\ (Counted!Marks = 0 \/ MarkWeek * Counted!Marks <= v1 - s)
                /\ v1 - s < MarkWeek * (Counted!Marks + 1)
            /\ at - s \in Int /\ v1 - s \in Int
        BY <1>1, <2>1, <2>4, <4>1
      <4>3. MarkWeek * (m + 1) \in Nat
        BY <1>1, <2>3
      <4> HIDE DEF n, s, e, f, m, c, d, at, Marked
      <4>4. CASE v1 < n
        <5>1. m <= Counted!Marks
          BY <1>1, <1>3, <2>3, <4>2, MarksGrow
        <5>2. v1 - s < MarkWeek * (m + 1)
          BY <1>1, <4>1, <4>3, <4>4
        <5>3. Counted!Marks <= m
          BY <1>1, <1>3, <2>3, <4>2, <5>2, MarksGrow
        <5> QED BY <5>1, <5>3, <1>3, <2>3, <4>4 DEF n
      <4>5. CASE n <= v1
        <5> DEFINE q == (v1 - n) \div MarkWeek
        <5>1. n \in Nat /\ v1 - n \in Int
          BY <1>1, <4>1, <4>3
        <5>2. q \in Int /\ MarkWeek * q <= v1 - n /\ v1 - n < MarkWeek * (q + 1)
          BY <1>1, <5>1, WholeWeeks
        <5> HIDE DEF q
        <5>3. 0 <= q
          <6>1. MarkWeek * 0 <= 0 /\ 0 <= v1 - n
            BY <1>1, <4>5, <5>1
          <6> QED BY <1>1, <5>1, <5>2, <6>1, FewerWeeks
        <5>4. MarkWeek * (m + 1 + q) = MarkWeek * (m + 1) + MarkWeek * q
          BY <1>1, <2>3, <5>2
        <5>5. MarkWeek * (m + 1 + q + 1) = MarkWeek * (m + 1) + MarkWeek * (q + 1)
          BY <1>1, <2>3, <5>2
        <5> DEFINE k == m + 1 + q
        <5>6. k \in Nat /\ MarkWeek * k <= v1 - s /\ v1 - s < MarkWeek * (k + 1)
          <6>1. MarkWeek * q \in Int /\ MarkWeek * (q + 1) \in Int
            BY <1>1, <5>2
          <6>2. v1 - s = MarkWeek * (m + 1) + (v1 - n)
            BY <1>1, <4>1, <4>3, <5>1
          <6> QED BY <5>2, <5>3, <5>4, <5>5, <6>1, <6>2, <5>1, <4>2, <4>3, <2>3
        <5> HIDE DEF k
        <5>7. k <= Counted!Marks /\ Counted!Marks <= k
          BY <1>1, <1>3, <4>2, <5>6, MarksGrow
        <5>8. Counted!Marks = k
          BY <1>3, <5>6, <5>7
        <5>9. n # None /\ ~(v1 < n)
          BY <1>1, <4>5, <5>1 DEF Counted!Weeks
        <5> QED BY <5>8, <5>9 DEF k, q, n
      <4>6. n \in Nat
        BY <4>1, <4>3
      <4> QED BY <1>1, <4>4, <4>5, <4>6 DEF n, m
    <3> QED BY <3>1, <3>2, <3>3
  <2>5. ASSUME Counted!Marks < m
        PROVE  \/ Counted!Between(at, v2.reset, v1) /\ v2.reset # d.reset
               \/ v2.status = "voided" /\ ~v2.withdrawn
               \/ v2.completed # None /\ v2.completed < at
    <3> SUFFICES ASSUME ~(Counted!Between(at, v2.reset, v1) /\ v2.reset # d.reset),
                        ~(v2.status = "voided" /\ ~v2.withdrawn),
                        ~(v2.completed # None /\ v2.completed < at)
                 PROVE  FALSE
      OBVIOUS
    <3>1. Counted!Earns(d)
      BY <1>3, <2>1, <2>5, NothingEarned
    <3>2. Counted!Earns(v2)
      BY <2>1, <3>1 DEF Counted!Earns, Counted!TellsStill
    <3>3. Counted!Start(v2) = Counted!Start(d)
      BY <2>1 DEF Counted!TellsStill, Counted!Start
    <3>4. e <= f
      <4>1. f \in Counted!Stops(v2, v4) \union {v1} /\ f \in Nat /\ e \in Nat /\ e <= at
            /\ \A s \in Counted!Stops(d, c) : e <= s
        BY <1>2, <2>2, <3>1, <3>2
      <4> HIDE DEF f, e
      <4>2. CASE at <= f
        BY <2>1, <4>1, <4>2
      <4>3. CASE f = v2.completed /\ f # None
        <5>1. v2.completed \in Int /\ ~(v2.completed < at)
          BY <4>1, <4>3
        <5> QED BY <2>1, <4>1, <4>3, <5>1
      <4>4. CASE f = v4 /\ f # None
        <5>1. f = c \/ at <= f
          BY <2>1, <4>4 DEF Counted!TellsStill, Counted!Since
        <5>2. f = c => f \in Counted!Stops(d, c)
          BY <4>4 DEF Counted!Stops
        <5> QED BY <2>1, <4>1, <4>2, <5>1, <5>2
      <4>5. CASE v2.withdrawn /\ f = v2.voided /\ f # None
        <5>1. v2 = d \/ at <= f
          BY <2>1, <4>5 DEF Counted!TellsStill
        <5>2. v2 = d => f \in Counted!Stops(d, c)
          BY <4>5 DEF Counted!Stops
        <5> QED BY <2>1, <4>1, <4>2, <5>1, <5>2
      <4> QED BY <1>1, <2>1, <4>1, <4>2, <4>3, <4>4, <4>5 DEF Counted!Stops
    <3>5. Marked(d, c, at, m) /\ Marked(v2, v4, v1, Counted!Marks) /\ e \in Nat /\ f \in Nat
          /\ Counted!Start(d) \in Nat
      BY <1>2, <2>2, <3>1, <3>2
    <3> DEFINE s == Counted!Start(d)
    <3>6. /\ (m = 0 \/ MarkWeek * m <= e - s) /\ f - s < MarkWeek * (Counted!Marks + 1)
          /\ e - s \in Int /\ f - s \in Int /\ e - s <= f - s
      BY <3>3, <3>4, <3>5
    <3> HIDE DEF s, e, f, m
    <3>7. m <= Counted!Marks
      BY <1>1, <1>3, <2>3, <3>6, MarksGrow
    <3> QED BY <1>3, <2>3, <2>5, <3>7 DEF m
  <2>6. ASSUME d.withdrawn PROVE Counted!Marks = m /\ Counted!NextMark = None
    <3>1. v2 = d /\ d.voided \in Nat /\ d.voided # None /\ d.status = "voided"
      BY <2>1, <2>6 DEF Counted!TellsStill, Counted!IsDuty, Counted!Weeks
    <3>2. CASE ~Counted!Earns(d)
      BY <2>1, <3>1, <3>2, NothingEarned DEF Counted!Marks, Counted!NextMark
    <3>3. CASE Counted!Earns(d)
      <4>1. d.voided \in Counted!Stops(d, c) /\ d.voided \in Counted!Stops(v2, v4)
        BY <2>6, <3>1 DEF Counted!Stops
      <4>2. Counted!NextMark = None
        BY <1>2, <3>1, <3>3, <4>1
      <4>3. e \in Counted!Stops(d, c) /\ f \in Counted!Stops(v2, v4)
        <5>1. e \in Counted!Stops(d, c)
          BY <2>1, <4>1, StoppedEnd
        <5>2. f \in Counted!Stops(v2, v4)
          BY <1>1, <4>1, StoppedEnd
        <5> QED BY <5>1, <5>2
      <4>4. \A s \in Counted!Stops(v2, v4) : f <= s /\ s \in Nat
        <5>1. v4 \in Nat \union {None}
          BY <1>1
        <5> QED BY <1>1, <5>1, EndIs
      <4>5. /\ e \in Nat /\ f \in Nat /\ e <= at /\ \A s \in Counted!Stops(d, c) : e <= s
        BY <1>2, <2>2, <3>1, <3>3
      <4>6. Counted!Since(c, at, v4)
        BY <2>1 DEF Counted!TellsStill
      <4> HIDE DEF e, f
      <4>7. f <= e
        <5>1. Counted!Stops(d, c) \subseteq Counted!Stops(v2, v4)
          BY <3>1, <4>6 DEF Counted!Stops, Counted!Since
        <5> QED BY <4>3, <4>4, <5>1
      <4>8. e <= f
        <5>1. f \in Counted!Stops(d, c) \/ at <= f
          BY <3>1, <4>3, <4>6 DEF Counted!Stops, Counted!Since
        <5> QED BY <2>1, <4>5, <5>1
      <4>9. e = f
        BY <4>5, <4>7, <4>8
      <4>10. Counted!Marks = m
        BY <2>1, <3>1, <4>9 DEF Counted!Marks, Counted!Calculate, e, f
      <4> QED BY <4>2, <4>10
    <3> QED BY <3>2, <3>3
  <2> QED BY <2>4, <2>5, <2>6
<1> QED BY <1>4, <1>5 DEF Counted!MarksHold

-----------------------------------------------------------------------------
\* The loads of two leagues.
Loads == INSTANCE LeagueLoads WITH
    League <- Places, MaxFetches <- LoadFetches, MaxWrites <- LoadWrites,
    allowed <- v1, chosen <- v2, membership <- v3, pending <- v4, fetches <- v5,
    records <- v6, calls <- v7, writes <- v8, refused <- v9, lastUsed <- v10

\* LeagueLoads: allowed is v1, chosen v2, membership v3, pending v4, fetches v5, records v6,
\* calls v7, writes v8, refused v9, lastUsed v10.

\* What counting is to LeagueLoads.
LEMMA LoadsCount ==
    /\ \A S : Loads!Cardinality(S) = Cardinality(S)
    /\ \A S : Loads!IsFiniteSet(S) <=> IsFiniteSet(S)
BY DEF Loads!Cardinality, Cardinality, Loads!IsFiniteSet, IsFiniteSet

LEMMA LoadsInitially ==
    ASSUME Loads!Init
    PROVE  Loads!LoadInv
<1>1. /\ v5 = <<>> /\ DOMAIN v5 = {} /\ Cardinality(DOMAIN v5) = 0
      /\ IsFiniteSet(DOMAIN v5)
  BY FS_EmptySet DEF Loads!Init
<1>2. v5 \in [DOMAIN v5 -> Loads!Fetch]
  BY <1>1
<1>3. Loads!LoadTypes
  BY <1>1, <1>2, LoadsCount DEF Loads!Init, Loads!LoadTypes, Loads!Cleared
<1> QED BY <1>3 DEF Loads!Init, Loads!LoadInv, Loads!SharedIsChosen, Loads!RefreshedOfChosen, Loads!LoadingIsFetched, Loads!Cleared, Loads!Kept

\* What ensureLoaded leaves: unless the membership is settled or failed, the load that is shared
\* is under way.
LEMMA EnsureKeeps ==
    ASSUME Loads!LoadTypes, NEW l \in Places, NEW state \in {"unknown", "loading", "member", "not_member", "error"},
           NEW shared, NEW guard \in BOOLEAN, shared # 0 => shared \in Loads!InFlight(l),
           Loads!EnsureLoaded(l, state, shared, guard)
    PROVE  /\ v3' \in {"unknown", "loading", "member", "not_member", "error"}
           /\ IsFiniteSet(DOMAIN v5') /\ DOMAIN v5' = 1 .. Cardinality(DOMAIN v5')
           /\ v5' \in [DOMAIN v5' -> Loads!Fetch]
           /\ v4' # 0 => v4' \in Loads!InFlight(l)'
           /\ v3' \in {"unknown", "loading"} => v4' # 0
<1> DEFINE n == Cardinality(DOMAIN v5)
<1>1. /\ IsFiniteSet(DOMAIN v5) /\ DOMAIN v5 = 1 .. n /\ n \in Nat
      /\ v5 \in [DOMAIN v5 -> Loads!Fetch]
  BY FS_CardinalityType, LoadsCount DEF Loads!LoadTypes
<1> HIDE DEF n
<1>2. CASE /\ state \in {"member", "not_member"} /\ v3' = state /\ v4' = shared
           /\ UNCHANGED v5
  <2>1. DOMAIN v5' = 1 .. Cardinality(DOMAIN v5')
    BY <1>2, LoadsCount DEF Loads!LoadTypes
  <2> QED BY <1>1, <1>2, <2>1 DEF Loads!InFlight
<1>3. CASE /\ state \notin {"member", "not_member"} /\ shared # 0
           /\ v3' = state /\ v4' = shared
           /\ v5' = [v5 EXCEPT ![shared].guard = @ \/ guard]
  <2>1. shared \in DOMAIN v5 /\ v5[shared] \in Loads!Fetch
        /\ v5[shared].league = l /\ v5[shared].at # "done"
    BY <1>1, <1>3 DEF Loads!InFlight
  <2> DEFINE new == [v5[shared] EXCEPT !.guard = @ \/ guard]
  <2>2. new \in Loads!Fetch /\ new.league = l /\ new.at = v5[shared].at
    BY <2>1 DEF Loads!Fetch
  <2>3. v5' = [v5 EXCEPT ![shared] = new]
    BY <1>3
  <2> HIDE DEF new
  <2>4. DOMAIN v5' = DOMAIN v5 /\ v5' \in [DOMAIN v5 -> Loads!Fetch] /\ v5'[shared] = new
    BY <1>1, <2>1, <2>2, <2>3
  <2>5. Cardinality(DOMAIN v5') = n
    BY <2>4 DEF n
  <2> QED BY <1>1, <1>3, <2>1, <2>2, <2>4, <2>5 DEF Loads!InFlight
<1>4. CASE /\ v3' = "loading" /\ v4' = n + 1
           /\ v5' = [f \in DOMAIN v5 \union {v4'} |->
                  IF f \in DOMAIN v5 THEN v5[f]
                  ELSE [league |-> l, at |-> "me", guard |-> guard]]
  <2> DEFINE new == [league |-> l, at |-> "me", guard |-> guard]
  <2>1. new \in Loads!Fetch /\ new.league = l /\ new.at = "me"
    BY DEF Loads!Fetch
  <2>2. n + 1 \notin DOMAIN v5 /\ DOMAIN v5 \union {n + 1} = 1 .. n + 1 /\ n + 1 # 0
    BY <1>1
  <2> HIDE DEF new
  <2>3. /\ DOMAIN v5' = DOMAIN v5 \union {n + 1} /\ v5'[n + 1] = new
        /\ \A f \in DOMAIN v5 : v5'[f] = v5[f]
        /\ v5' = [f \in DOMAIN v5 \union {n + 1} |-> IF f \in DOMAIN v5 THEN v5[f] ELSE new]
    BY <1>4, <2>2 DEF new
  <2>4. v5' \in [DOMAIN v5' -> Loads!Fetch]
    BY <1>1, <2>1, <2>3
  <2>5. IsFiniteSet(DOMAIN v5') /\ Cardinality(DOMAIN v5') = n + 1
    BY <1>1, <2>2, <2>3, FS_AddElement DEF n
  <2>6. DOMAIN v5' = 1 .. Cardinality(DOMAIN v5')
    BY <2>2, <2>3, <2>5
  <2> QED BY <1>4, <2>1, <2>2, <2>3, <2>4, <2>5, <2>6 DEF Loads!InFlight
<1> QED BY <1>2, <1>3, <1>4, LoadsCount DEF Loads!EnsureLoaded, n

\* With a load under way while the membership is not known, LoadingIsFetched holds.
LEMMA SharedMeansFetched ==
    ASSUME v3 \in {"unknown", "loading"} => v4 # 0, Loads!SharedIsChosen
    PROVE  Loads!LoadingIsFetched
BY DEF Loads!SharedIsChosen, Loads!LoadingIsFetched

LEMMA SelectKeeps ==
    ASSUME Loads!LoadInv, NEW l \in Places, Loads!Select(l)
    PROVE  Loads!LoadInv'
<1> DEFINE state == IF v2 = l THEN v3 ELSE "unknown"
           shared == Loads!SharedAfter(l)
<1>1. /\ v2' = l /\ Loads!EnsureLoaded(l, state, shared, TRUE) /\ v7' = v7
      /\ v6' = IF v2 = l THEN v6 ELSE Loads!Cleared
  BY DEF Loads!Select
<1>2. state \in {"unknown", "loading", "member", "not_member", "error"}
  BY LoadsCount DEF Loads!LoadInv, Loads!LoadTypes
<1>3. shared # 0 => shared \in Loads!InFlight(l)
  BY DEF Loads!SharedAfter, Loads!LoadInv, Loads!SharedIsChosen
<1> HIDE DEF state, shared
<1>4. /\ v3' \in {"unknown", "loading", "member", "not_member", "error"}
      /\ IsFiniteSet(DOMAIN v5') /\ DOMAIN v5' = 1 .. Cardinality(DOMAIN v5')
      /\ v5' \in [DOMAIN v5' -> Loads!Fetch]
      /\ v4' # 0 => v4' \in Loads!InFlight(l)'
      /\ v3' \in {"unknown", "loading"} => v4' # 0
  BY <1>1, <1>2, <1>3, EnsureKeeps DEF Loads!LoadInv
<1>5. v6' \in [Loads!Kept -> Places \union {None}] /\ Loads!RefreshedOfChosen'
  <2>1. CASE v2 = l
    BY <1>1, <2>1, LoadsCount DEF Loads!LoadInv, Loads!LoadTypes, Loads!RefreshedOfChosen
  <2>2. CASE v2 # l
    BY <1>1, <2>2 DEF Loads!Cleared, Loads!Kept, Loads!RefreshedOfChosen
  <2> QED BY <2>1, <2>2
<1>6. Loads!LoadTypes'
  BY <1>1, <1>4, <1>5, LoadsCount DEF Loads!LoadInv, Loads!LoadTypes
<1>7. Loads!InFlight(v2)' = Loads!InFlight(l)'
  BY <1>1 DEF Loads!InFlight
<1>8. Loads!SharedIsChosen' /\ Loads!LoadingIsFetched'
  BY <1>4, <1>7 DEF Loads!SharedIsChosen, Loads!LoadingIsFetched
<1> QED BY <1>5, <1>6, <1>8 DEF Loads!LoadInv

LEMMA RetryKeeps ==
    ASSUME Loads!LoadInv, Loads!Retry
    PROVE  Loads!LoadInv'
<1>1. /\ v2 \in Places /\ v3 = "error" /\ UNCHANGED <<v2, v6, v7>>
      /\ Loads!EnsureLoaded(v2, "error", v4, FALSE)
  BY LoadsCount DEF Loads!Retry, Loads!LoadInv, Loads!LoadTypes
<1>2. v4 # 0 => v4 \in Loads!InFlight(v2)
  BY DEF Loads!LoadInv, Loads!SharedIsChosen
<1>3. /\ v3' \in {"unknown", "loading", "member", "not_member", "error"}
      /\ IsFiniteSet(DOMAIN v5') /\ DOMAIN v5' = 1 .. Cardinality(DOMAIN v5')
      /\ v5' \in [DOMAIN v5' -> Loads!Fetch]
      /\ \A l \in Places : l = v2 =>
            /\ v4' # 0 => v4' \in Loads!InFlight(l)'
            /\ v3' \in {"unknown", "loading"} => v4' # 0
  BY <1>1, <1>2, EnsureKeeps DEF Loads!LoadInv
<1>4. /\ v4' # 0 => v4' \in Loads!InFlight(v2)'
      /\ v3' \in {"unknown", "loading"} => v4' # 0
  BY <1>1, <1>3 DEF Loads!InFlight
<1> QED BY <1>1, <1>3, <1>4, LoadsCount DEF Loads!LoadInv, Loads!LoadTypes, Loads!SharedIsChosen, Loads!LoadingIsFetched, Loads!RefreshedOfChosen

\* A load goes on or ends.  Once it has ended, the membership of its league is settled or failed.
LEMMA FetchMoves ==
    ASSUME Loads!LoadInv, NEW f \in DOMAIN v5, NEW at \in {"records", "done"},
           v5' = [v5 EXCEPT ![f].at = at],
           v4' = IF at = "done" /\ v4 = f THEN 0 ELSE v4,
           v3' = v3
              \/ (v3' \in {"member", "not_member", "error"} /\ v2 = v5[f].league),
           at = "done" /\ v2 = v5[f].league => v3' \in {"member", "not_member", "error"},
           UNCHANGED <<v2, v7>>,
           v6' \in [Loads!Kept -> Places \union {None}], Loads!RefreshedOfChosen'
    PROVE  Loads!LoadInv'
<1> DEFINE n == Cardinality(DOMAIN v5)
           new == [v5[f] EXCEPT !.at = at]
<1>1. /\ IsFiniteSet(DOMAIN v5) /\ DOMAIN v5 = 1 .. n
      /\ v5 \in [DOMAIN v5 -> Loads!Fetch] /\ v5[f] \in Loads!Fetch
      /\ \A g \in DOMAIN v5 : g # 0
  BY FS_CardinalityType, LoadsCount DEF Loads!LoadInv, Loads!LoadTypes
<1>2. new \in Loads!Fetch /\ new.league = v5[f].league /\ new.at = at
  BY <1>1 DEF Loads!Fetch
<1>3. v5' = [v5 EXCEPT ![f] = new]
  OBVIOUS
<1> HIDE DEF n, new
<1>4. /\ DOMAIN v5' = DOMAIN v5 /\ v5' \in [DOMAIN v5 -> Loads!Fetch] /\ v5'[f] = new
      /\ \A g \in DOMAIN v5 \ {f} : v5'[g] = v5[g]
  BY <1>1, <1>2, <1>3
<1>5. Cardinality(DOMAIN v5') = n
  BY <1>4 DEF n
<1>6. Loads!LoadTypes'
  BY <1>1, <1>4, <1>5, LoadsCount DEF Loads!LoadInv, Loads!LoadTypes
<1>7. \A g \in Loads!InFlight(v2) :
         g \in Loads!InFlight(v2)' \/ (g = f /\ at = "done" /\ v2 = v5[f].league)
  BY <1>2, <1>4 DEF Loads!InFlight
<1>8. Loads!SharedIsChosen'
  BY <1>7 DEF Loads!LoadInv, Loads!SharedIsChosen
<1>9. Loads!LoadingIsFetched'
  BY <1>7 DEF Loads!LoadInv, Loads!LoadingIsFetched
<1> QED BY <1>6, <1>8, <1>9 DEF Loads!LoadInv

\* Nothing but what a refresh or an adopted answer replaces changes in the records.
LEMMA Adopted ==
    ASSUME Loads!LoadInv, NEW l \in Places, UNCHANGED v2,
           \/ v6' = v6
           \/ v6' = [v6 EXCEPT !["adopted"] = l]
           \/ v6' = Loads!Refreshed(l)
           \/ v2 = l /\ v6' = [v6 EXCEPT !["members"] = l]
    PROVE  v6' \in [Loads!Kept -> Places \union {None}] /\ Loads!RefreshedOfChosen'
<1>1. v6 \in [Loads!Kept -> Places \union {None}] /\ {v6["members"], v6["refreshed"]} \subseteq {v2, None}
  BY LoadsCount DEF Loads!LoadInv, Loads!LoadTypes, Loads!RefreshedOfChosen
<1>2. /\ v6'["members"] = v6["members"] \/ (v2 = l /\ v6'["members"] = l)
      /\ v6'["refreshed"] = v6["refreshed"] \/ (v2 = l /\ v6'["refreshed"] = l)
      /\ v6' \in [Loads!Kept -> Places \union {None}]
  BY <1>1 DEF Loads!Refreshed, Loads!Kept
<1> QED BY <1>1, <1>2 DEF Loads!RefreshedOfChosen

LEMMA ResolveMoves ==
    ASSUME NEW f, NEW state, NEW refusedNow, Loads!Resolve(f, state, refusedNow)
    PROVE  /\ v5' = [v5 EXCEPT ![f].at = "done"]
           /\ v4' = IF v4 = f THEN 0 ELSE v4
BY DEF Loads!Resolve

LEMMA FailsMoves ==
    ASSUME Loads!LoadInv, NEW f \in DOMAIN v5, Loads!Fails(f)
    PROVE  /\ v5' = [v5 EXCEPT ![f].at = "done"]
           /\ v4' = IF v4 = f THEN 0 ELSE v4
           /\ v3' = v3
                 \/ (v3' \in {"member", "not_member", "error"} /\ v2 = v5[f].league)
           /\ v2 = v5[f].league => v3' \in {"member", "not_member", "error"}
<1> DEFINE l == v5[f].league
           no == l \notin v1
           state == IF no THEN "not_member" ELSE "error"
<1>1. Loads!Resolve(f, state, IF no THEN {l} ELSE {})
  BY DEF Loads!Fails
<1>2. v3' = IF v2 = l THEN state ELSE v3
  BY DEF Loads!Fails
<1>3. state \in {"member", "not_member", "error"}
  OBVIOUS
<1> HIDE DEF no, state
<1> QED BY <1>1, <1>2, <1>3, ResolveMoves

\* A load that has ended.
LEMMA EndedKeeps ==
    ASSUME Loads!LoadInv, NEW f \in DOMAIN v5, UNCHANGED <<v2, v7>>,
           v5' = [v5 EXCEPT ![f].at = "done"],
           v4' = IF v4 = f THEN 0 ELSE v4,
           v3' = v3
              \/ (v3' \in {"member", "not_member", "error"} /\ v2 = v5[f].league),
           v2 = v5[f].league => v3' \in {"member", "not_member", "error"},
           \/ v6' = v6
           \/ v6' = Loads!Refreshed(v5[f].league)
           \/ v2 = v5[f].league /\ v6' = [v6 EXCEPT !["members"] = v5[f].league]
    PROVE  Loads!LoadInv'
<1>1. v5[f].league \in Places
  BY LoadsCount DEF Loads!LoadInv, Loads!LoadTypes, Loads!Fetch
<1>2. v6' \in [Loads!Kept -> Places \union {None}] /\ Loads!RefreshedOfChosen'
  BY <1>1, Adopted
<1> QED BY <1>2, FetchMoves

LEMMA AnswersKeep ==
    ASSUME Loads!LoadInv, NEW f \in DOMAIN v5, Loads!MeAnswers(f) \/ Loads!RecordsAnswer(f)
    PROVE  Loads!LoadInv'
<1>1. v5[f].league \in Places /\ UNCHANGED <<v2, v7>>
  BY LoadsCount DEF Loads!LoadInv, Loads!LoadTypes, Loads!Fetch, Loads!MeAnswers, Loads!RecordsAnswer
<1>2. ASSUME Loads!Fails(f),
             \/ v6' = v6
             \/ v2 = v5[f].league
                /\ v6' = [v6 EXCEPT !["members"] = v5[f].league]
      PROVE  Loads!LoadInv'
  BY <1>1, <1>2, FailsMoves, EndedKeeps
<1>3. CASE Loads!MeAnswers(f)
  <2>1. CASE v2 # v5[f].league /\ Loads!Resolve(f, v3, {}) /\ UNCHANGED <<v3, v6>>
    <3>1. /\ v5' = [v5 EXCEPT ![f].at = "done"]
          /\ v4' = IF v4 = f THEN 0 ELSE v4
      BY <2>1, ResolveMoves
    <3> QED BY <1>1, <2>1, <3>1, EndedKeeps
  <2>2. CASE /\ v2 = v5[f].league /\ v5' = [v5 EXCEPT ![f].at = "records"]
             /\ v6' = [v6 EXCEPT !["adopted"] = v5[f].league]
             /\ UNCHANGED <<v3, v4>>
    <3>1. v6' \in [Loads!Kept -> Places \union {None}] /\ Loads!RefreshedOfChosen'
      BY <1>1, <2>2, Adopted
    <3> QED BY <1>1, <2>2, <3>1, FetchMoves
  <2>3. CASE Loads!Fails(f) /\ UNCHANGED v6
    BY <1>2, <2>3
  <2> QED BY <1>3, <2>1, <2>2, <2>3 DEF Loads!MeAnswers
<1>4. CASE Loads!RecordsAnswer(f)
  <2>1. CASE /\ v6' = Loads!Refreshed(v5[f].league) /\ Loads!Resolve(f, "member", {})
             /\ v3' = IF v2 = v5[f].league THEN "member" ELSE v3
    <3>1. /\ v5' = [v5 EXCEPT ![f].at = "done"]
          /\ v4' = IF v4 = f THEN 0 ELSE v4
      BY <2>1, ResolveMoves
    <3> QED BY <1>1, <2>1, <3>1, EndedKeeps
  <2>2. ASSUME Loads!Fails(f), UNCHANGED v6 \/ (v2 = v5[f].league
                            /\ v6' = [v6 EXCEPT !["members"] = v5[f].league])
        PROVE  Loads!LoadInv'
    BY <1>2, <2>2
  <2> QED BY <1>4, <2>1, <2>2 DEF Loads!RecordsAnswer
<1> QED BY <1>3, <1>4

\* Nothing of the loads changes.
LEMMA CallKeeps ==
    ASSUME Loads!LoadInv, NEW l \in Places, UNCHANGED <<v2, v3, v4, v5>>,
           v7' \subseteq [league : Places, kind : {"refresh", "change", "adopt"}],
           \/ v6' = v6 \/ v6' = [v6 EXCEPT !["adopted"] = l]
           \/ v6' = Loads!Refreshed(l)
    PROVE  Loads!LoadInv'
<1>1. v6' \in [Loads!Kept -> Places \union {None}] /\ Loads!RefreshedOfChosen'
  BY Adopted
<1> QED BY <1>1, LoadsCount DEF Loads!LoadInv, Loads!LoadTypes, Loads!SharedIsChosen, Loads!LoadingIsFetched, Loads!InFlight

LEMMA LoadStep ==
    ASSUME Loads!LoadInv, [Loads!Next]_(Loads!vars)
    PROVE  Loads!LoadInv'
<1>1. ASSUME NEW kind \in {"refresh", "change", "adopt"}, Loads!StartCall(kind) PROVE Loads!LoadInv'
  <2>1. v2 \in Places /\ v7' = v7 \union {[league |-> v2, kind |-> kind]}
    BY <1>1, LoadsCount DEF Loads!StartCall, Loads!LoadInv, Loads!LoadTypes
  <2>2. v7' \subseteq [league : Places, kind : {"refresh", "change", "adopt"}]
    BY <2>1, LoadsCount DEF Loads!LoadInv, Loads!LoadTypes
  <2> QED BY <1>1, <2>1, <2>2, CallKeeps DEF Loads!StartCall
<1>2. ASSUME NEW c \in v7, Loads!CallAnswers(c) PROVE Loads!LoadInv'
  <2>1. c.league \in Places
    BY LoadsCount DEF Loads!LoadInv, Loads!LoadTypes
  <2>2. v7' \subseteq [league : Places, kind : {"refresh", "change", "adopt"}]
    BY <1>2, LoadsCount DEF Loads!CallAnswers, Loads!LoadInv, Loads!LoadTypes
  <2> QED BY <1>2, <2>1, <2>2, CallKeeps DEF Loads!CallAnswers
<1>3. ASSUME NEW l \in Places, Loads!ApiCloses(l) PROVE Loads!LoadInv'
  BY <1>3, CallKeeps, LoadsCount DEF Loads!ApiCloses, Loads!LoadInv, Loads!LoadTypes
<1>4. CASE UNCHANGED Loads!vars
  BY <1>4, LoadsCount DEF Loads!vars, Loads!LoadInv, Loads!LoadTypes, Loads!SharedIsChosen, Loads!LoadingIsFetched, Loads!InFlight, Loads!RefreshedOfChosen
<1> QED BY <1>1, <1>2, <1>3, <1>4, SelectKeeps, RetryKeeps, AnswersKeep DEF Loads!Next, Loads!Change, Loads!Adopt, Loads!Refresh

-----------------------------------------------------------------------------
\* A match's pick form.
Form == INSTANCE PickForm WITH
    Fixture <- Places, NoPick <- None, MaxMargin <- FormMargin, Reach <- FormReach,
    shown <- v1, form <- v2, editing <- v3, saving <- v4, mine <- v5, stored <- v6, kicked <- v7

\* PickForm: shown is v1, form v2, editing v3, saving v4, mine v5, stored v6, kicked v7.

\* What the two controls hold, whoever writes them.
LEMMA ControlsAgree ==
    ASSUME FormMargin \in Nat, Form!FormInv
    PROVE  /\ \A side \in {"home", "away", "draw"} : Form!Controls(Form!WithSide(side))
           /\ \A n \in Int : Form!Controls(Form!WithSigned(n))
           /\ \A n \in Int : v2.side \in {"home", "away"} => Form!Controls([v2 EXCEPT !.margin = n])
           /\ \A n \in Int : ~v2.off => Form!Controls([v2 EXCEPT !.margin = n])
<1>1. v2 = [side |-> v2.side, margin |-> v2.margin, off |-> v2.off]
      /\ v2.side \in {"home", "away", "draw", "none"} /\ v2.margin \in Int /\ v2.off \in BOOLEAN
      /\ (v2.off <=> v2.side = "draw") /\ (v2.off => v2.margin = Form!Blank)
  BY DEF Form!FormInv, Form!Controls, Form!Side
<1>2. ASSUME NEW side \in {"home", "away", "draw"} PROVE Form!Controls(Form!WithSide(side))
  <2>1. CASE side = "draw"
    BY <2>1 DEF Form!WithSide, Form!Controls, Form!Blank, Form!Side
  <2>2. CASE side # "draw"
    <3>1. Form!WithSide(side) = [v2 EXCEPT !.side = side, !.off = FALSE]
      BY <2>2 DEF Form!WithSide
    <3>2. [v2 EXCEPT !.side = side, !.off = FALSE] \in [side : {side}, margin : {v2.margin}, off : {FALSE}]
      BY <1>1
    <3>3. Form!WithSide(side) \in [side : {side}, margin : {v2.margin}, off : {FALSE}]
      BY <3>1, <3>2
    <3> QED BY <1>1, <2>2, <3>3 DEF Form!Controls, Form!Side
  <2> QED BY <2>1, <2>2
<1>3. ASSUME NEW n \in Int PROVE Form!Controls(Form!WithSigned(n))
  <2>1. CASE n = 0
    BY <1>2, <2>1 DEF Form!WithSigned
  <2>2. ASSUME n # 0, NEW side \in {"home", "away"}, NEW m \in Int
        PROVE  Form!Controls([Form!WithSide(side) EXCEPT !.margin = m])
    <3>1. PICK w : w = Form!WithSide(side)
      OBVIOUS
    <3>2. w \in [side : {side}, margin : Int, off : {FALSE}]
      <4>1. w = [v2 EXCEPT !.side = side, !.off = FALSE]
        BY <3>1, <2>2 DEF Form!WithSide
      <4>2. [v2 EXCEPT !.side = side, !.off = FALSE] \in [side : {side}, margin : Int, off : {FALSE}]
        BY <1>1
      <4> QED BY <4>1, <4>2
    <3>3. [w EXCEPT !.margin = m] \in [side : {side}, margin : {m}, off : {FALSE}]
      BY <3>2
    <3> QED BY <2>2, <3>1, <3>3 DEF Form!Controls, Form!Side
  <2>3. CASE n < 0
    BY <2>2, <2>3 DEF Form!WithSigned
  <2>4. CASE n > 0
    BY <2>2, <2>4 DEF Form!WithSigned
  <2> QED BY <2>1, <2>3, <2>4
<1>4. ASSUME NEW n \in Int, ~v2.off PROVE Form!Controls([v2 EXCEPT !.margin = n])
  <2>1. [v2 EXCEPT !.margin = n] = [side |-> v2.side, margin |-> n, off |-> v2.off]
    BY <1>1
  <2> QED BY <1>1, <1>4, <2>1 DEF Form!Controls, Form!Side
<1> QED BY <1>1, <1>2, <1>3, <1>4

LEMMA FormInitially ==
    ASSUME Form!Init
    PROVE  Form!FormInv
BY DEF Form!Init, Form!FormInv, Form!Controls, Form!Blank, Form!NoForm, Form!Side

\* Every step leaves the controls agreed and what is being saved a whole pick.
LEMMA FormStep ==
    ASSUME FormMargin \in Nat, FormReach \in Nat, Form!FormInv, [Form!Next]_(Form!vars)
    PROVE  Form!FormInv'
<1>1. v2.side \in {"home", "away", "draw", "none"} /\ v2.margin \in Int /\ Form!Controls(v2)
  BY DEF Form!FormInv, Form!Controls, Form!Side, Form!Blank
<1>a. Form!Parsed(v2.margin) \in Int /\ Form!Signed \in Int
  BY <1>1 DEF Form!Parsed, Form!Signed
<1>b. ASSUME NEW new, Form!Controls(new), Form!Write(new) PROVE Form!FormInv'
  BY <1>b DEF Form!Write, Form!FormInv
<1>c. ASSUME NEW low \in Int, NEW high \in Int, NEW n \in Int PROVE Form!Within(low, high, n) \in Int
  BY DEF Form!Within
<1>2. CASE Form!Slide
  BY <1>2, <1>b, ControlsAgree DEF Form!Slide
<1>3. CASE Form!Nudge
  <2>1. PICK step \in {-1, 1} : Form!Write(Form!WithSigned(Form!Within(-FormMargin, FormMargin, Form!Signed + step)))
    BY <1>3 DEF Form!Nudge
  <2>2. Form!Within(-FormMargin, FormMargin, Form!Signed + step) \in Int
    BY <1>a, <1>c
  <2> QED BY <1>b, <2>1, <2>2, ControlsAgree
<1>4. CASE Form!StepMargin
  <2>1. v2.side \in {"home", "away"}
    BY <1>4 DEF Form!StepMargin
  <2>2. PICK delta \in {-1, 1} :
           Form!Write([v2 EXCEPT !.margin = Form!Within(1, FormMargin, Form!Parsed(v2.margin) + delta)])
    BY <1>4 DEF Form!StepMargin
  <2>3. Form!Within(1, FormMargin, Form!Parsed(v2.margin) + delta) \in Int
    BY <1>a, <1>c
  <2> QED BY <1>b, <2>1, <2>2, <2>3, ControlsAgree
<1>5. CASE Form!TypeMargin
  <2>1. ~v2.off
    BY <1>5 DEF Form!TypeMargin
  <2>2. PICK margin \in Form!Blank .. FormMargin : Form!Write([v2 EXCEPT !.margin = margin])
    BY <1>5 DEF Form!TypeMargin
  <2>3. margin \in Int
    BY DEF Form!Blank
  <2> QED BY <1>b, <2>1, <2>2, <2>3, ControlsAgree
<1>6. CASE Form!Edit
  <2>1. PICK p : p = v5[v1]
    OBVIOUS
  <2>2. p \in [side : Form!Side, margin : Nat] \union {None}
    BY <2>1 DEF Form!FormInv
  <2>3. Form!Controls(Form!Filled(p))
    <3>1. CASE p = None
      BY <3>1 DEF Form!Filled, Form!Controls, Form!NoForm, Form!Blank, Form!Side
    <3>2. CASE p # None
      <4>1. PICK s \in Form!Side, m \in Nat : s = p.side /\ m = p.margin
        BY <2>2, <3>2
      <4>2. Form!Filled(p) = [side |-> s, margin |-> IF s = "draw" THEN Form!Blank ELSE m, off |-> s = "draw"]
        BY <3>2, <4>1 DEF Form!Filled
      <4>3. CASE s = "draw"
        <5>1. Form!Filled(p) = [side |-> "draw", margin |-> Form!Blank, off |-> TRUE]
          BY <4>2, <4>3
        <5> QED BY <5>1 DEF Form!Controls, Form!Blank, Form!Side
      <4>4. CASE s # "draw"
        <5>1. Form!Filled(p) = [side |-> s, margin |-> m, off |-> FALSE]
          BY <4>2, <4>4
        <5> QED BY <4>4, <5>1 DEF Form!Controls, Form!Side
      <4> QED BY <4>3, <4>4
    <3> QED BY <3>1, <3>2
  <2>4. Form!Controls(Form!Filled(v5[v1]))
    BY <2>1, <2>3
  <2> QED BY <1>6, <2>4 DEF Form!Edit, Form!FormInv
<1>7. Form!Controls(Form!NoForm)
  BY DEF Form!Controls, Form!NoForm, Form!Blank, Form!Side
<1>8. CASE Form!Cancel
  BY <1>7, <1>8 DEF Form!Cancel, Form!FormInv
<1>9. CASE Form!Save
  <2> DEFINE pick == [side |-> v2.side, margin |-> IF v2.side = "draw" THEN 0 ELSE Form!Parsed(v2.margin)]
  <2>1. v4' = [fixture |-> v1, step |-> "sent", pick |-> pick] /\ UNCHANGED <<v1, v2, v3, v5, v6, v7>>
        /\ Form!Valid
    BY <1>9 DEF Form!Save
  <2>2. pick \in [side : Form!Side, margin : Nat] /\ Form!Whole(pick) /\ pick.margin <= FormMargin
    BY <1>1, <2>1 DEF Form!Valid, Form!Side, Form!Whole, Form!Parsed, Form!Controls
  <2>3. v1 \in Places
    BY DEF Form!FormInv
  <2> HIDE DEF pick
  <2> QED BY <2>1, <2>2, <2>3 DEF Form!FormInv, Form!Request
<1>10. ASSUME NEW step \in {"sent", "checked", "locked", "stored", "failed"}, v4 # None,
              v4' = [v4 EXCEPT !.step = step] PROVE v4' # None => v4' \in Form!Request
  <2>1. v4 \in Form!Request
    BY <1>10 DEF Form!FormInv
  <2>2. v4' = [fixture |-> v4.fixture, step |-> step, pick |-> v4.pick]
        /\ v4.fixture \in Places /\ v4.pick \in [side : Form!Side, margin : Nat]
        /\ Form!Whole(v4.pick) /\ v4.pick.margin <= FormMargin
    BY <1>10, <2>1 DEF Form!Request
  <2> QED BY <2>2 DEF Form!Request
<1>11. CASE Form!Check
  BY <1>10, <1>11 DEF Form!Check, Form!FormInv
<1>12. CASE Form!Store
  <2>1. v4 \in Form!Request
    BY <1>12 DEF Form!Store, Form!FormInv
  <2>2. v4.pick \in [side : Form!Side, margin : Nat]
    BY <2>1 DEF Form!Request
  <2>3. v6' \in [Places -> [side : Form!Side, margin : Nat] \union {None}]
    BY <1>12, <2>2 DEF Form!Store, Form!FormInv
  <2> QED BY <1>10, <1>12, <2>3 DEF Form!Store, Form!FormInv
<1>13. CASE Form!Saved
  <2>1. v4 \in Form!Request
    BY <1>13 DEF Form!Saved, Form!FormInv
  <2>2. v4.pick \in [side : Form!Side, margin : Nat]
    BY <2>1 DEF Form!Request
  <2>3. v5' \in [Places -> [side : Form!Side, margin : Nat] \union {None}]
    BY <1>13, <2>2 DEF Form!Saved, Form!FormInv
  <2> QED BY <1>7, <1>13, <2>3 DEF Form!Saved, Form!FormInv
<1>14. CASE Form!Refused
  BY <1>14 DEF Form!Refused, Form!FormInv
<1>15. CASE Form!Refresh
  BY <1>15 DEF Form!Refresh, Form!FormInv
<1>16. ASSUME NEW f \in Places, Form!Navigate(f) \/ Form!Kickoff(f) PROVE Form!FormInv'
  BY <1>7, <1>16 DEF Form!Navigate, Form!Kickoff, Form!FormInv
<1>17. CASE UNCHANGED Form!vars
  BY <1>17 DEF Form!vars, Form!FormInv
<1> QED BY <1>2, <1>3, <1>4, <1>5, <1>6, <1>8, <1>9, <1>11, <1>12, <1>13, <1>14, <1>15, <1>16, <1>17
    DEF Form!Next

LEMMA FormsHold ==
    ASSUME Form!FormInv PROVE Form!FormIsWhole
BY DEF Form!FormInv, Form!Controls, Form!Request, Form!FormIsWhole, Form!Whole

-----------------------------------------------------------------------------
\* The dialogs of the duty register.
Dialogs == INSTANCE DutyDialogs WITH
    Members <- Places, Fixtures <- Games, Nobody <- None, MaxChanges <- DialogChanges,
    kind <- v1, captain <- v2, stage <- v3, open <- v4, shown <- v5, form <- v6,
    unticked <- v7, locked <- v8, lacking <- v9, invalid <- v10, cards <- v11, sent <- v12,
    changes <- v13

\* DutyDialogs: kind is v1, captain v2, stage v3, open v4, shown v5, form v6, unticked v7,
\* locked v8, lacking v9, invalid v10, cards v11, sent v12, changes v13.

LEMMA StagesAre ==
    Dialogs!Stages = {"undated", "waiting", "voting", "vetoed", "rejected", "completed", "voided"}
BY DEF Dialogs!Stages, Dialogs!Entry

LEMMA DialogInitially ==
    ASSUME Dialogs!Init
    PROVE  Dialogs!DialogInv
BY DEF Dialogs!Init, Dialogs!DialogInv, Dialogs!NoEvidence, Dialogs!NoDuty, Dialogs!busy, Dialogs!SentIsMeant, Dialogs!WarningHasDialog

\* Whatever is opened, chosen, submitted or answered in between, what is sent is meant.
LEMMA DialogStep ==
    ASSUME None \notin Dialogs!Duties, Dialogs!DialogInv, [Dialogs!Next]_(Dialogs!vars)
    PROVE  Dialogs!DialogInv'
<1> USE DEF Dialogs!settled, Dialogs!register
<1>1. CASE Dialogs!Elsewhere
  <2>1. PICK d \in Dialogs!Duties, s \in Dialogs!Stages : v3' = [v3 EXCEPT ![d] = s]
    <3>1. PICK d \in Dialogs!Duties : \E s \in Dialogs!Later[v3[d]] : v3' = [v3 EXCEPT ![d] = s]
      BY <1>1 DEF Dialogs!Elsewhere
    <3>2. PICK s \in Dialogs!Later[v3[d]] : v3' = [v3 EXCEPT ![d] = s]
      BY <3>1
    <3>3. v3[d] \in Dialogs!Stages
      BY DEF Dialogs!DialogInv
    <3>4. s \in Dialogs!Stages
      BY <3>2, <3>3, StagesAre DEF Dialogs!Later
    <3> QED BY <3>2, <3>4
  <2>2. v3' \in [Dialogs!Duties -> Dialogs!Stages]
    BY <2>1 DEF Dialogs!DialogInv
  <2> QED BY <1>1, <2>2 DEF Dialogs!Elsewhere, Dialogs!DialogInv, Dialogs!busy, Dialogs!SentIsMeant, Dialogs!WarningHasDialog
<1>2. CASE Dialogs!KicksOff
  BY <1>2 DEF Dialogs!KicksOff, Dialogs!DialogInv, Dialogs!busy, Dialogs!SentIsMeant, Dialogs!WarningHasDialog
<1>3. ASSUME NEW d \in Dialogs!Duties, Dialogs!OpenEvidence(d) PROVE Dialogs!DialogInv'
  BY <1>3 DEF Dialogs!OpenEvidence, Dialogs!DialogInv, Dialogs!NoEvidence, Dialogs!busy, Dialogs!SentIsMeant, Dialogs!WarningHasDialog
<1>4. CASE Dialogs!OpenDuty
  <2>1. \A p \in Dialogs!Prefill : p.deadline = ""
          /\ p = [member |-> p.member, type |-> p.type, round |-> p.round, deadline |-> p.deadline]
    <3>1. \A m \in Places : [Dialogs!NoDuty EXCEPT !.member = m, !.round = 2]
                             \in [member : {m}, type : {"spoon"}, round : {2}, deadline : {""}]
      BY DEF Dialogs!NoDuty
    <3>2. Dialogs!NoDuty \in [member : {None}, type : {"spoon"}, round : {1}, deadline : {""}]
      BY DEF Dialogs!NoDuty
    <3>3. ASSUME NEW m, NEW r, NEW p \in [member : {m}, type : {"spoon"}, round : {r}, deadline : {""}]
          PROVE  p.deadline = ""
             /\ p = [member |-> p.member, type |-> p.type, round |-> p.round, deadline |-> p.deadline]
      OBVIOUS
    <3>4. TAKE p \in Dialogs!Prefill
    <3>5. CASE p = Dialogs!NoDuty
      BY <3>2, <3>3, <3>5
    <3>6. ASSUME NEW m \in Places, p = [Dialogs!NoDuty EXCEPT !.member = m, !.round = 2]
          PROVE  p.deadline = ""
             /\ p = [member |-> p.member, type |-> p.type, round |-> p.round, deadline |-> p.deadline]
      BY <3>1, <3>3, <3>6
    <3> QED BY <3>5, <3>6 DEF Dialogs!Prefill
  <2> QED BY <1>4, <2>1 DEF Dialogs!OpenDuty, Dialogs!DialogInv, Dialogs!busy, Dialogs!SentIsMeant, Dialogs!WarningHasDialog
<1>5. CASE Dialogs!Close
  BY <1>5 DEF Dialogs!Close, Dialogs!DialogInv, Dialogs!busy, Dialogs!SentIsMeant, Dialogs!WarningHasDialog
<1>6. CASE Dialogs!PickFile
  <2>1. PICK file \in {None, v5} : v6' = [v6 EXCEPT !.file = file]
    BY <1>6 DEF Dialogs!PickFile
  <2>2. v6' = [file |-> file, completed |-> v6.completed]
    BY <1>6, <2>1 DEF Dialogs!PickFile, Dialogs!DialogInv
  <2>3. UNCHANGED <<v1, v2, v9, v3, v8, v13, v4, v5, v7, v12>> /\ v4 = TRUE /\ v1 = "evidence"
    BY <1>6 DEF Dialogs!PickFile
  <2> QED BY <2>1, <2>2, <2>3 DEF Dialogs!DialogInv, Dialogs!busy, Dialogs!SentIsMeant, Dialogs!WarningHasDialog
<1>7. CASE Dialogs!FillCompleted
  <2>1. PICK at : v6' = [v6 EXCEPT !.completed = at]
    BY <1>7 DEF Dialogs!FillCompleted
  <2>2. v6' = [file |-> v6.file, completed |-> at]
    BY <1>7, <2>1 DEF Dialogs!FillCompleted, Dialogs!DialogInv
  <2> QED BY <1>7, <2>2 DEF Dialogs!FillCompleted, Dialogs!DialogInv, Dialogs!busy, Dialogs!SentIsMeant, Dialogs!WarningHasDialog
<1>8. CASE Dialogs!SubmitEvidence
  <2>1. v5 \in Dialogs!Duties /\ v6.file = v5 /\ v1 = "evidence" /\ v4
        /\ UNCHANGED <<v1, v2, v3, v4, v5, v6, v8, v9>>
    BY <1>8 DEF Dialogs!SubmitEvidence, Dialogs!DialogInv
  <2>2. CASE Dialogs!MayBeCompleted
    <3>1. v12' = [duty |-> v5, file |-> v6.file, subject |-> IF Dialogs!Mine(v5) THEN None ELSE v5,
                  completed |-> IF Dialogs!Mine(v5) THEN "" ELSE v6.completed]
          /\ v11' = v11 \ {"warning"}
      BY <1>8, <2>2 DEF Dialogs!SubmitEvidence
    <3>2. v12'.duty = v5 /\ v12'.file = v5 /\ v12'.subject = (IF Dialogs!Mine(v5) THEN None ELSE v5)
          /\ v12'.completed = IF Dialogs!Mine(v5) THEN "" ELSE v6.completed
      BY <2>1, <3>1
    <3>3. (v12'.completed = "past" <=> ~Dialogs!Mine(v5)) /\ (v12'.subject = None <=> Dialogs!Mine(v5))
      BY <2>1, <2>2, <3>2 DEF Dialogs!MayBeCompleted
    <3>4. Dialogs!SentIsMeant'
      BY <2>1, <3>2, <3>3 DEF Dialogs!SentIsMeant, Dialogs!busy, Dialogs!Mine
    <3> QED BY <2>1, <3>1, <3>2, <3>4 DEF Dialogs!DialogInv, Dialogs!busy, Dialogs!WarningHasDialog
  <2>3. CASE ~Dialogs!MayBeCompleted
    BY <1>8, <2>1, <2>3 DEF Dialogs!SubmitEvidence, Dialogs!Warn, Dialogs!DialogInv, Dialogs!busy, Dialogs!SentIsMeant, Dialogs!WarningHasDialog
  <2> QED BY <2>2, <2>3
<1>9. CASE Dialogs!Fill
  <2>1. v1 = "create" /\ v4 /\ UNCHANGED <<v1, v2, v9, v3, v8, v13, v4, v5, v7, v11, v12>>
    BY <1>9 DEF Dialogs!Fill
  <2>2. v6'.deadline \in {"", "bad", "good"}
        /\ v6' = [member |-> v6'.member, type |-> v6'.type, round |-> v6'.round, deadline |-> v6'.deadline]
    BY <1>9 DEF Dialogs!Fill, Dialogs!DialogInv
  <2> QED BY <2>1, <2>2 DEF Dialogs!DialogInv, Dialogs!busy, Dialogs!SentIsMeant, Dialogs!WarningHasDialog
<1>10. CASE Dialogs!Toggle
  BY <1>10 DEF Dialogs!Toggle, Dialogs!DialogInv, Dialogs!busy, Dialogs!SentIsMeant, Dialogs!WarningHasDialog
<1>11. CASE Dialogs!SubmitDuty
  <2>1. v1 = "create" /\ v4 /\ UNCHANGED <<v1, v2, v3, v4, v5, v6, v8, v9>>
    BY <1>11 DEF Dialogs!SubmitDuty
  <2>2. CASE Dialogs!Problems = {}
    <3> DEFINE covered == Dialogs!Candidates \ v7
    <3>1. v12' = [member |-> v6.member, type |-> v6.type, round |-> v6.round,
                  deadline |-> v6.deadline, fixtures |-> covered]
          /\ v11' = v11 \ {"warning"}
      BY <1>11, <2>2 DEF Dialogs!SubmitDuty
    <3>2. v6.member # None /\ (v6.type # "spoon" => v6.deadline = "good")
      <4>1. "member" \notin Dialogs!Problems /\ "deadline" \notin Dialogs!Problems
        BY <2>2
      <4> QED BY <2>1, <4>1 DEF Dialogs!Problems, Dialogs!DialogInv
    <3>3. \A f \in covered : v6.type # "spoon" /\ f \in v8 /\ v6.member \in v9[f]
      BY DEF Dialogs!Candidates
    <3> HIDE DEF covered
    <3>4. v12'.member = v6.member /\ v12'.type = v6.type /\ v12'.deadline = v6.deadline
          /\ v12'.fixtures = covered
      BY <3>1
    <3>5. Dialogs!SentIsMeant'
      BY <2>1, <3>2, <3>3, <3>4 DEF Dialogs!SentIsMeant, Dialogs!busy
    <3> QED BY <2>1, <3>1, <3>5 DEF Dialogs!DialogInv, Dialogs!busy, Dialogs!WarningHasDialog
  <2>3. CASE Dialogs!Problems # {}
    <3>1. v12' = v12
      BY <1>11, <2>3 DEF Dialogs!SubmitDuty
    <3> QED BY <2>1, <3>1 DEF Dialogs!DialogInv, Dialogs!busy, Dialogs!SentIsMeant, Dialogs!WarningHasDialog
  <2> QED BY <2>2, <2>3
<1>12. CASE Dialogs!Recorded
  <2>1. v3' \in [Dialogs!Duties -> Dialogs!Stages]
    BY <1>12, StagesAre DEF Dialogs!Recorded, Dialogs!DialogInv
  <2> QED BY <1>12, <2>1 DEF Dialogs!Recorded, Dialogs!DialogInv, Dialogs!busy, Dialogs!SentIsMeant, Dialogs!WarningHasDialog
<1>13. CASE Dialogs!Refused
  BY <1>13 DEF Dialogs!Refused, Dialogs!DialogInv, Dialogs!busy, Dialogs!SentIsMeant, Dialogs!WarningHasDialog
<1>14. CASE UNCHANGED Dialogs!vars
  BY <1>14 DEF Dialogs!vars, Dialogs!DialogInv, Dialogs!busy, Dialogs!SentIsMeant, Dialogs!WarningHasDialog
<1> QED BY <1>1, <1>2, <1>3, <1>4, <1>5, <1>6, <1>7, <1>8, <1>9, <1>10, <1>11, <1>12, <1>13, <1>14
    DEF Dialogs!Next

LEMMA DialogsHold ==
    ASSUME Dialogs!DialogInv
    PROVE  Dialogs!SentIsMeant /\ Dialogs!WarningHasDialog /\ Dialogs!LeadFitsTools
<1>1. ASSUME NEW d \in Dialogs!Duties
      PROVE  /\ Dialogs!Lead(d) = "upload" => Dialogs!CanUpload(d)
             /\ (Dialogs!Lead(d) \in {"completed", "voided"}) <=> ~Dialogs!IsLive(d)
             /\ Dialogs!CaptainTools(d) => Dialogs!Lead(d) \notin {"completed", "voided"}
  <2>1. PICK s \in Dialogs!Stages : s = v3[d]
    BY DEF Dialogs!DialogInv
  <2>2. PICK status, vote, latest : status = Dialogs!Entry[s].status /\ vote = Dialogs!Entry[s].vote
           /\ latest = Dialogs!Entry[s].latest
    OBVIOUS
  <2>3. status \in {"open", "pending_deadline", "completed", "voided"}
    BY <2>2, StagesAre DEF Dialogs!Entry
  <2>4. Dialogs!IsLive(d) <=> status \in {"open", "pending_deadline"}
    BY <2>1, <2>2 DEF Dialogs!IsLive
  <2>5. Dialogs!Lead(d) = (IF status \in {"completed", "voided"} THEN status
          ELSE IF vote # "none" THEN IF vote = "open" THEN "voting" ELSE "ruling"
          ELSE IF latest = "pending" THEN "submitted"
          ELSE IF latest = "rejected" THEN "again"
          ELSE IF Dialogs!Mine(d) THEN "upload" ELSE "wait")
    BY <2>1, <2>2 DEF Dialogs!Lead
  <2>6. Dialogs!CaptainTools(d) => Dialogs!IsLive(d)
    BY <2>1, <2>2, <2>4 DEF Dialogs!CaptainTools, Dialogs!CanReset
  <2> QED BY <2>3, <2>4, <2>5, <2>6 DEF Dialogs!CanUpload
<1> QED BY <1>1 DEF Dialogs!LeadFitsTools, Dialogs!DialogInv

-----------------------------------------------------------------------------
\* A league in the management centre.
Manage == INSTANCE ManageLeague WITH
    Members <- Places, Nobody <- Me, None <- None, Regular <- ManageRounds, MaxChanges <- ManageChanges,
    panel <- v1, api <- v2, list <- v3, reading <- v4, rounds <- v5, form <- v6,
    candidates <- v7, choice <- v8, dialog <- v9, request <- v10, account <- v11,
    changes <- v12

\* ManageLeague: panel is v1, api v2, list v3, reading v4, rounds v5, form v6, candidates v7,
\* choice v8, dialog v9, request v10, account v11, changes v12.

LEMMA ManageInitially ==
    ASSUME Manage!Init
    PROVE  Manage!ManageInv
BY DEF Manage!Init, Manage!ManageInv, Manage!Closed, Manage!Busy, Manage!SentIsAllowed

LEMMA ClosedIsClosed == Manage!Closed.open = FALSE
BY DEF Manage!Closed

\* What a league becomes by a write is a league again.
LEMMA AppliedIsLeague ==
    ASSUME Manage!ManageInv, NEW r, Manage!Fits(r), Manage!Accepts(r)
    PROVE  Manage!Applied(r) \in Manage!League
<1>1. v2 \in Manage!League
  BY DEF Manage!ManageInv
<1>2. CASE r.kind = "update"
  <2>1. DOMAIN v2 = {"status", "captain", "claimed", "mine", "start"}
    BY <1>1 DEF Manage!League
  <2>2. Manage!Patched(r.patch) = [k \in {"status", "captain", "claimed", "mine", "start"} |->
                                     IF k \in DOMAIN r.patch THEN r.patch[k] ELSE v2[k]]
    BY <2>1 DEF Manage!Patched
  <2>3. Manage!Patched(r.patch) \in Manage!League
    BY <1>1, <2>2 DEF Manage!Fits, Manage!League
  <2> QED BY <1>2, <2>3 DEF Manage!Applied
<1>3. CASE r.kind = "captain"
  <2>1. r.member \in Places
    BY <1>1, <1>3 DEF Manage!Accepts, Manage!League
  <2> QED BY <1>1, <1>3, <2>1 DEF Manage!Applied, Manage!League
<1>4. CASE r.kind = "me"
  BY <1>1, <1>4 DEF Manage!Applied, Manage!League
<1> QED BY <1>2, <1>3, <1>4 DEF Manage!Fits

\* Whatever is read, listed, asked and answered in between, a write asks for what may be asked.
LEMMA ManageStep ==
    ASSUME ManageRounds \in Nat, Manage!ManageInv, [Manage!Next]_(Manage!vars)
    PROVE  Manage!ManageInv'
<1>1. CASE Manage!Load \/ Manage!Loaded \/ Manage!CompetitionsRead \/ Manage!ChooseCaptain \/ Manage!CancelRename \/ Manage!CloseDialog
  <2>1. UNCHANGED <<v2, v7, v10>> /\ v6' \in {v6, None} /\ v3' \in {v3, v4} /\ v4' \in {v4, v2, None}
        /\ (v3' # v3 => v4 # None) /\ v9' \in {v9, Manage!Closed}
    BY <1>1 DEF Manage!Load, Manage!Loaded, Manage!CompetitionsRead, Manage!ChooseCaptain, Manage!CancelRename, Manage!CloseDialog
  <2>2. v9' = v9 \/ ~v9'.open
    BY <2>1, ClosedIsClosed
  <2>3. {v3', v4'} \subseteq Manage!League \union {None} /\ v2' \in Manage!League
    BY <2>1 DEF Manage!ManageInv
  <2>4. v6' # None => v3' \in Manage!League /\ v6' \in [start : 1 .. ManageRounds + 1]
    BY <2>1 DEF Manage!ManageInv
  <2> QED BY <2>1, <2>2, <2>3, <2>4 DEF Manage!ManageInv, Manage!Busy, Manage!SentIsAllowed
<1>2. CASE Manage!Elsewhere
  <2>1. v2' \in Manage!League
    BY <1>2 DEF Manage!Elsewhere, Manage!ManageInv, Manage!League
  <2> QED BY <1>2, <2>1 DEF Manage!Elsewhere, Manage!ManageInv, Manage!Busy, Manage!SentIsAllowed
<1>3. CASE Manage!StartRename
  <2>1. v6' = [start |-> v3.start] /\ v3 \in Manage!League
    BY <1>3 DEF Manage!StartRename, Manage!Shown, Manage!ManageInv
  <2>2. v6' \in [start : 1 .. ManageRounds + 1]
    BY <2>1 DEF Manage!League
  <2> QED BY <1>3, <2>1, <2>2 DEF Manage!StartRename, Manage!ManageInv, Manage!Busy, Manage!SentIsAllowed
<1>4. CASE Manage!Edit
  <2>1. v6' \in [start : 1 .. ManageRounds + 1]
    BY <1>4 DEF Manage!Edit, Manage!ManageInv
  <2> QED BY <1>4, <2>1 DEF Manage!Edit, Manage!ManageInv, Manage!Busy, Manage!SentIsAllowed
\* A write that fits and is allowed may go.
<1>5. ASSUME NEW by \in {"card", "dialog"}, NEW r, v10' = [v10 EXCEPT ![by] = r],
             Manage!Fits(r),
             /\ r.kind = "update" => DOMAIN r.patch # {}
             /\ "start" \in DOMAIN r.patch => r.patch["start"] <= ManageRounds
             /\ r.kind = "captain" => v7 # None /\ r.member \in v7,
             v7' = v7
      PROVE  /\ DOMAIN v10' = {"card", "dialog"} /\ v10' = [b \in {"card", "dialog"} |-> v10'[b]]
             /\ (\A b \in {"card", "dialog"} : Manage!Busy(b) => Manage!Fits(v10[b]))'
             /\ Manage!SentIsAllowed'
  <2>1. v10'[by] = r /\ \A b \in {"card", "dialog"} \ {by} : v10'[b] = v10[b]
    BY <1>5 DEF Manage!ManageInv
  <2>2. DOMAIN v10' = {"card", "dialog"} /\ v10' = [b \in {"card", "dialog"} |-> v10'[b]]
    BY <1>5 DEF Manage!ManageInv
  <2>3. \A b \in {"card", "dialog"} : v10'[b] # None => Manage!Fits(v10'[b])
    BY <1>5, <2>1 DEF Manage!ManageInv, Manage!Busy
  <2>4. Manage!SentIsAllowed'
    BY <1>5, <2>1 DEF Manage!ManageInv, Manage!SentIsAllowed
  <2> QED BY <2>2, <2>3, <2>4 DEF Manage!Busy, Manage!Fits
<1>6. ASSUME NEW by \in {"card", "dialog"}, v10' = [v10 EXCEPT ![by] = None], v7' = v7
      PROVE  /\ DOMAIN v10' = {"card", "dialog"} /\ v10' = [b \in {"card", "dialog"} |-> v10'[b]]
             /\ (\A b \in {"card", "dialog"} : Manage!Busy(b) => Manage!Fits(v10[b]))'
             /\ Manage!SentIsAllowed'
  <2>1. v10'[by] = None /\ \A b \in {"card", "dialog"} \ {by} : v10'[b] = v10[b]
    BY <1>6 DEF Manage!ManageInv
  <2>2. DOMAIN v10' = {"card", "dialog"} /\ v10' = [b \in {"card", "dialog"} |-> v10'[b]]
    BY <1>6 DEF Manage!ManageInv
  <2>3. \A b \in {"card", "dialog"} : v10'[b] # None => Manage!Fits(v10'[b])
    BY <1>6, <2>1 DEF Manage!ManageInv, Manage!Busy
  <2>4. Manage!SentIsAllowed'
    BY <1>6, <2>1 DEF Manage!ManageInv, Manage!SentIsAllowed
  <2> QED BY <2>2, <2>3, <2>4 DEF Manage!Busy, Manage!Fits
<1>7. ASSUME NEW by \in {"card", "dialog"}, NEW kind \in {"update", "captain", "me"}, NEW patch, NEW member,
             Manage!Send(by, kind, patch, member), v7' = v7,
             DOMAIN patch \subseteq {"start", "status"},
             "start" \in DOMAIN patch => patch["start"] \in 1 .. ManageRounds,
             "status" \in DOMAIN patch => patch["status"] \in {"active", "archived"},
             kind = "update" => DOMAIN patch # {},
             kind = "captain" => v7 # None /\ member \in v7
      PROVE  /\ DOMAIN v10' = {"card", "dialog"} /\ v10' = [b \in {"card", "dialog"} |-> v10'[b]]
             /\ (\A b \in {"card", "dialog"} : Manage!Busy(b) => Manage!Fits(v10[b]))'
             /\ Manage!SentIsAllowed'
  <2>1. PICK r : r = [kind |-> kind, patch |-> patch, member |-> member, step |-> "sent", answer |-> None]
    OBVIOUS
  <2>2. v10' = [v10 EXCEPT ![by] = r]
    BY <1>7, <2>1 DEF Manage!Send
  <2>3. r.kind = kind /\ r.patch = patch /\ r.member = member /\ r.step = "sent" /\ r.answer = None
        /\ r = [kind |-> r.kind, patch |-> r.patch, member |-> r.member, step |-> r.step, answer |-> r.answer]
    BY <2>1
  <2>4. Manage!Fits(r)
    BY <1>7, <2>3 DEF Manage!Fits
  <2>5. "start" \in DOMAIN r.patch => r.patch["start"] <= ManageRounds
    BY <1>7, <2>3
  <2> QED BY <1>5, <1>7, <2>2, <2>3, <2>4, <2>5
<1>8. CASE Manage!SaveRename
  <2>1. v6 \in [start : 1 .. ManageRounds + 1] /\ v6.start <= Manage!LastRound /\ v7' = v7
        /\ UNCHANGED <<v1, v2, v3, v4, v5, v8, v9, v11, v12>>
    BY <1>8 DEF Manage!SaveRename, Manage!ManageInv
  <2>2. CASE DOMAIN Manage!RenamePatch = {}
    BY <1>8, <2>1, <2>2 DEF Manage!SaveRename, Manage!ManageInv, Manage!Busy, Manage!SentIsAllowed
  <2>3. CASE DOMAIN Manage!RenamePatch # {}
    <3> DEFINE patch == Manage!RenamePatch
    <3>1. Manage!Send("card", "update", patch, Me) /\ v6' = v6
      BY <1>8, <2>3 DEF Manage!SaveRename
    <3>2. DOMAIN patch \subseteq {"start"} /\ \A k \in DOMAIN patch : patch[k] = v6[k] /\ v6[k] # v3[k]
      BY <2>1 DEF Manage!RenamePatch
    <3>3. v3 \in Manage!League
      BY <1>8 DEF Manage!SaveRename, Manage!ManageInv
    <3>4. v6.start \in 1 .. ManageRounds
      <4>1. v3.start \in 1 .. ManageRounds /\ v6.start \in 1 .. ManageRounds + 1
        BY <2>1, <3>3 DEF Manage!League
      <4> QED BY <2>1, <4>1 DEF Manage!LastRound
    <3>5. DOMAIN patch \subseteq {"start", "status"} /\ "status" \notin DOMAIN patch
          /\ ("start" \in DOMAIN patch => patch["start"] \in 1 .. ManageRounds)
      BY <3>2, <3>4
    <3> HIDE DEF patch
    <3> QED BY <1>7, <2>1, <2>3, <3>1, <3>5 DEF Manage!ManageInv, patch
  <2> QED BY <2>2, <2>3
<1>9. CASE Manage!AddMe
  <2>1. Manage!Send("card", "me", Manage!NoPatch, Me) /\ UNCHANGED <<v1, v2, v3, v4, v5, v6, v7, v8, v9, v11, v12>>
    BY <1>9 DEF Manage!AddMe
  <2>2. DOMAIN Manage!NoPatch = {}
    BY DEF Manage!NoPatch
  <2> QED BY <1>7, <2>1, <2>2 DEF Manage!ManageInv
<1>10. CASE Manage!LoadCandidates
  BY <1>10 DEF Manage!LoadCandidates, Manage!ManageInv, Manage!Busy, Manage!SentIsAllowed
<1>11. CASE Manage!Ask
  <2>1. UNCHANGED <<v2, v3, v4, v6, v7, v10>>
        /\ v9'.ask \in Manage!Asks
        /\ (v9'.ask = "captain" => v7 # None /\ v9'.member \in v7)
    BY <1>11 DEF Manage!Ask, Manage!Asks, Manage!Choices
  <2> QED BY <2>1 DEF Manage!ManageInv, Manage!Busy, Manage!SentIsAllowed
<1>12. CASE Manage!Confirm
  <2>1. v9.open /\ UNCHANGED <<v1, v2, v3, v4, v5, v6, v7, v8, v9, v11, v12>>
    BY <1>12 DEF Manage!Confirm
  <2>2. CASE v9.ask = "captain"
    <3>1. Manage!Send("dialog", "captain", Manage!NoPatch, v9.member)
      BY <1>12, <2>2 DEF Manage!Confirm
    <3>2. DOMAIN Manage!NoPatch = {}
      BY DEF Manage!NoPatch
    <3>3. v7 # None /\ v9.member \in v7
      BY <2>1, <2>2 DEF Manage!ManageInv
    <3> QED BY <1>7, <2>1, <3>1, <3>2, <3>3 DEF Manage!ManageInv
  <2>3. CASE v9.ask # "captain"
    <3> DEFINE patch == [k \in {"status"} |-> v9.ask]
    <3>1. Manage!Send("dialog", "update", patch, Me)
      BY <1>12, <2>3 DEF Manage!Confirm
    <3>2. DOMAIN patch = {"status"} /\ patch["status"] \in {"active", "archived"}
      BY <2>1, <2>3 DEF Manage!ManageInv, Manage!Asks
    <3> HIDE DEF patch
    <3> QED BY <1>7, <2>1, <3>1, <3>2 DEF Manage!ManageInv
  <2> QED BY <2>2, <2>3
<1>13. ASSUME NEW by \in {"card", "dialog"}, Manage!Apply(by) PROVE Manage!ManageInv'
  <2>1. PICK r : r = v10[by]
    OBVIOUS
  <2>2. Manage!Fits(r) /\ Manage!Accepts(r) /\ r # None /\ v2' = Manage!Applied(r)
        /\ v10' = [v10 EXCEPT ![by].step = "applied", ![by].answer = Manage!Applied(r)]
        /\ UNCHANGED <<v3, v4, v6, v7, v9>>
    BY <1>13, <2>1 DEF Manage!Apply, Manage!Busy, Manage!ManageInv
  <2>3. Manage!Applied(r) \in Manage!League
    BY <2>2, AppliedIsLeague
  <2>4. PICK now : now = [kind |-> r.kind, patch |-> r.patch, member |-> r.member, step |-> "applied",
                          answer |-> Manage!Applied(r)]
    OBVIOUS
  <2>5. v10' = [v10 EXCEPT ![by] = now]
    <3>1. r \in [kind : {r.kind}, patch : {r.patch}, member : {r.member}, step : {r.step}, answer : {r.answer}]
      BY <2>2 DEF Manage!Fits
    <3>2. [r EXCEPT !.step = "applied", !.answer = Manage!Applied(r)]
             \in [kind : {r.kind}, patch : {r.patch}, member : {r.member}, step : {"applied"},
                  answer : {Manage!Applied(r)}]
      BY <3>1
    <3>0. ASSUME NEW w, NEW k, NEW p, NEW m, NEW s, NEW a,
                 w \in [kind : {k}, patch : {p}, member : {m}, step : {s}, answer : {a}]
          PROVE  w = [kind |-> k, patch |-> p, member |-> m, step |-> s, answer |-> a]
      BY <3>0
    <3>3. PICK w : w = [r EXCEPT !.step = "applied", !.answer = Manage!Applied(r)]
      OBVIOUS
    <3>5. w \in [kind : {r.kind}, patch : {r.patch}, member : {r.member}, step : {"applied"},
                answer : {Manage!Applied(r)}]
      BY <3>2, <3>3
    <3>6. w = now
      BY <2>4, <3>0, <3>5
    <3>4. v10' = [v10 EXCEPT ![by] = w]
      BY <2>1, <2>2, <3>3 DEF Manage!ManageInv
    <3> QED BY <3>6, <3>4
  <2>6. now.kind = r.kind /\ now.patch = r.patch /\ now.member = r.member /\ now.step = "applied"
        /\ now.answer = Manage!Applied(r)
        /\ now = [kind |-> now.kind, patch |-> now.patch, member |-> now.member, step |-> now.step, answer |-> now.answer]
    BY <2>4
  <2>7. Manage!Fits(now)
    BY <2>2, <2>3, <2>6 DEF Manage!Fits
  <2>8. /\ now.kind = "update" => DOMAIN now.patch # {}
        /\ "start" \in DOMAIN now.patch => now.patch["start"] <= ManageRounds
        /\ now.kind = "captain" => v7 # None /\ now.member \in v7
    BY <2>1, <2>2, <2>6 DEF Manage!ManageInv, Manage!SentIsAllowed
  <2> QED BY <1>5, <2>2, <2>3, <2>5, <2>7, <2>8 DEF Manage!ManageInv
<1>14. ASSUME NEW by \in {"card", "dialog"}, Manage!Adopt(by) PROVE Manage!ManageInv'
  <2>1. PICK r : r = v10[by]
    OBVIOUS
  <2>2. Manage!Fits(r) /\ r # None /\ r.step = "applied" /\ v10' = [v10 EXCEPT ![by].step = "adopted"]
        /\ UNCHANGED <<v2, v4, v6, v7, v9>>
    BY <1>14, <2>1 DEF Manage!Adopt, Manage!Busy, Manage!ManageInv
  <2>3. v3' \in Manage!League \/ v3' = v3
    BY <1>14, <2>1, <2>2 DEF Manage!Adopt, Manage!ManageInv, Manage!Fits
  <2>4. PICK now : now = [kind |-> r.kind, patch |-> r.patch, member |-> r.member, step |-> "adopted",
                          answer |-> r.answer]
    OBVIOUS
  <2>5. v10' = [v10 EXCEPT ![by] = now]
    <3>1. [r EXCEPT !.step = "adopted"] = now
      BY <2>2, <2>4 DEF Manage!Fits
    <3>2. v10' = [v10 EXCEPT ![by] = [r EXCEPT !.step = "adopted"]]
      BY <2>1, <2>2 DEF Manage!ManageInv
    <3> QED BY <3>1, <3>2
  <2>6. now.kind = r.kind /\ now.patch = r.patch /\ now.member = r.member /\ now.step = "adopted"
        /\ now = [kind |-> now.kind, patch |-> now.patch, member |-> now.member, step |-> now.step, answer |-> now.answer]
    BY <2>4
  <2>7. Manage!Fits(now)
    BY <2>2, <2>6 DEF Manage!Fits
  <2>8. /\ now.kind = "update" => DOMAIN now.patch # {}
        /\ "start" \in DOMAIN now.patch => now.patch["start"] <= ManageRounds
        /\ now.kind = "captain" => v7 # None /\ now.member \in v7
    BY <2>1, <2>2, <2>6 DEF Manage!ManageInv, Manage!SentIsAllowed
  <2> QED BY <1>5, <2>2, <2>3, <2>5, <2>7, <2>8 DEF Manage!ManageInv
<1>15. ASSUME NEW by \in {"card", "dialog"}, Manage!Finish(by) \/ Manage!Refused(by) PROVE Manage!ManageInv'
  <2>1. v10' = [v10 EXCEPT ![by] = None] /\ UNCHANGED <<v2, v3, v4, v7>>
        /\ v6' \in {v6, None} /\ v9' \in {v9, Manage!Closed}
    BY <1>15 DEF Manage!Finish, Manage!Refused
  <2>2. v9' = v9 \/ ~v9'.open
    BY <2>1, ClosedIsClosed
  <2> QED BY <1>6, <2>1, <2>2 DEF Manage!ManageInv
<1>16. CASE UNCHANGED Manage!vars
  BY <1>16 DEF Manage!vars, Manage!ManageInv, Manage!Busy, Manage!SentIsAllowed
<1> QED BY <1>1, <1>2, <1>3, <1>4, <1>8, <1>9, <1>10, <1>11, <1>12, <1>13, <1>14, <1>15, <1>16
    DEF Manage!Next

LEMMA ManagesHold ==
    ASSUME Manage!ManageInv PROVE Manage!SentIsAllowed
BY DEF Manage!ManageInv

-----------------------------------------------------------------------------
\* The favourite team and the photo, in two leagues.
Profile == INSTANCE Profiles WITH
    None <- None, MaxVisits <- ProfileVisits, MaxSaves <- ProfileSaves,
    build <- v1, api <- v2, store <- v3, league <- v4, membership <- v5, me <- v6,
    photo <- v7, fetch <- v8, late <- v9, editor <- v10, request <- v11, picked <- v12,
    counts <- v13

\* Profiles: build is v1, api v2, store v3, league v4, membership v5, me v6, photo v7, fetch v8,
\* late v9, editor v10, request v11, picked v12, counts v13.

LEMMA ProfileInitially ==
    ASSUME Profile!Init
    PROVE  Profile!ProfileInv
<1>1. PICK old \in Profile!Legacy \union {None} : v3 = Profile!NoStore(old)
  BY DEF Profile!Init
<1>2. v3 = [account |-> None, team |-> [l \in Profile!League |-> None], legacy |-> old]
  BY <1>1 DEF Profile!NoStore
<1>3. old # None => old.team \in 1 .. 2
  BY <1>1 DEF Profile!Legacy, Profile!Clubs, Profile!First
<1>4. v12 = [l \in Profile!League |-> IF v1 = "local" /\ l = Profile!First /\ old # None THEN old.team ELSE 0]
  BY <1>2 DEF Profile!Init
<1>5. v12 \in [Profile!League -> Profile!Teams]
  BY <1>3, <1>4 DEF Profile!Teams, Profile!League
<1>6. v3.legacy = old /\ v3.team = [l \in Profile!League |-> None]
  BY <1>2
<1>7. Profile!TeamsAreKept
  BY <1>4, <1>6 DEF Profile!TeamsAreKept, Profile!LocalTeam
<1> QED BY <1>1, <1>2, <1>5, <1>6, <1>7
    DEF Profile!Init, Profile!ProfileInv, Profile!ShownPhotoStays

\* Whatever is written of the old profile and the new, every league keeps its team.
LEMMA MovedKeeps ==
    ASSUME None \notin Nat, Profile!ProfileInv, NEW s,
           s = [account |-> s.account, team |-> s.team, legacy |-> s.legacy],
           \/ s.team = v3.team /\ s.legacy = v3.legacy
           \/ s.team = Profile!Moved.team /\ s.legacy \in {v3.legacy, Profile!Moved.legacy}
    PROVE  /\ s.team \in [Profile!League -> Profile!Teams \union {None}]
           /\ s.legacy \in Profile!Legacy \union {None}
           /\ \A l \in Profile!League :
                (IF s.team[l] # None THEN s.team[l]
                 ELSE IF l = Profile!First /\ s.legacy # None THEN s.legacy.team ELSE 0) = Profile!LocalTeam(l)
<1>1. v3.team \in [Profile!League -> Profile!Teams \union {None}] /\ v3.legacy \in Profile!Legacy \union {None}
  BY DEF Profile!ProfileInv
<1>2. CASE s.team = v3.team /\ s.legacy = v3.legacy
  BY <1>1, <1>2 DEF Profile!LocalTeam
<1>3. CASE v3.legacy = None /\ s.team = Profile!Moved.team /\ s.legacy \in {v3.legacy, Profile!Moved.legacy}
  BY <1>1, <1>2, <1>3 DEF Profile!Moved
<1>4. CASE v3.legacy # None /\ s.team = Profile!Moved.team /\ s.legacy \in {v3.legacy, Profile!Moved.legacy}
  <2>1. v3.legacy.team \in 1 .. 2
    BY <1>1, <1>4 DEF Profile!Legacy, Profile!Clubs, Profile!First
  <2>2. Profile!Moved.team = [v3.team EXCEPT ![Profile!First] = IF @ = None THEN v3.legacy.team ELSE @]
        /\ Profile!Moved.legacy = None
    BY <1>4 DEF Profile!Moved
  <2>3. Profile!First \in Profile!League
    BY DEF Profile!First, Profile!League
  <2>4. s.team[Profile!First] = (IF v3.team[Profile!First] = None THEN v3.legacy.team ELSE v3.team[Profile!First])
        /\ \A l \in Profile!League \ {Profile!First} : s.team[l] = v3.team[l]
    BY <1>1, <1>4, <2>2, <2>3
  <2>5. s.team \in [Profile!League -> Profile!Teams \union {None}]
    <3>1. PICK x : x = IF v3.team[Profile!First] = None THEN v3.legacy.team ELSE v3.team[Profile!First]
      OBVIOUS
    <3>2. x \in Profile!Teams \union {None}
      BY <1>1, <2>1, <2>3, <3>1 DEF Profile!Teams
    <3>3. s.team = [v3.team EXCEPT ![Profile!First] = x]
      BY <1>1, <1>4, <2>2, <2>3, <3>1
    <3> QED BY <1>1, <3>2, <3>3
  <2>6. s.legacy \in Profile!Legacy \union {None}
    BY <1>1, <1>4, <2>2
  <2> QED BY <1>4, <2>1, <2>4, <2>5, <2>6 DEF Profile!LocalTeam
<1> QED BY <1>2, <1>3, <1>4

\* Whatever is loaded, edited, saved and refused in between, the teams and the photo stay.
LEMMA ProfileStep ==
    ASSUME None \notin Nat, Profile!ProfileInv, [Profile!Next]_(Profile!vars)
    PROVE  Profile!ProfileInv'
\* Nothing but the photo's or the league's own state changes.
<1>1. ASSUME UNCHANGED <<v1, v3, v12>>, v4' \in Profile!League, v10' \in {v10, None}, v11' \in {v11, None}
      PROVE  Profile!ProfileInv'
  <2>1. Profile!TeamsAreKept'
    BY <1>1 DEF Profile!ProfileInv, Profile!TeamsAreKept, Profile!LocalTeam
  <2> QED BY <1>1, <2>1 DEF Profile!ProfileInv, Profile!ShownPhotoStays
<1>2. v4 \in Profile!League
  BY DEF Profile!ProfileInv
<1>3. CASE Profile!Choose
  BY <1>1, <1>2, <1>3 DEF Profile!Choose
<1>4. CASE Profile!MeArrives \/ Profile!PhotoArrives \/ Profile!LoadEnds \/ Profile!Reload
           \/ Profile!Elsewhere \/ Profile!Leave \/ Profile!SaveFails
  BY <1>1, <1>2, <1>4 DEF Profile!MeArrives, Profile!PhotoArrives, Profile!LoadEnds, Profile!Reload,
     Profile!Elsewhere, Profile!Leave, Profile!SaveFails
\* The editor is written.
<1>5. ASSUME UNCHANGED <<v1, v3, v4, v11, v12>>, v10'.kept => v10'.photo # 0,
             v10' = [league |-> v10'.league, team |-> v10'.team, photo |-> v10'.photo,
                     kept |-> v10'.kept, preparing |-> v10'.preparing]
      PROVE  Profile!ProfileInv'
  <2>1. Profile!TeamsAreKept'
    BY <1>5 DEF Profile!ProfileInv, Profile!TeamsAreKept, Profile!LocalTeam
  <2> QED BY <1>5, <2>1 DEF Profile!ProfileInv, Profile!ShownPhotoStays
<1>6. CASE Profile!Open
  <2>1. PICK from : v10' = [league |-> v4, team |-> from.team, photo |-> from.photo,
                            kept |-> from.photo # 0, preparing |-> FALSE]
    BY <1>6 DEF Profile!Open
  <2>2. v10'.photo = from.photo /\ v10'.kept = (from.photo # 0)
        /\ v10' = [league |-> v10'.league, team |-> v10'.team, photo |-> v10'.photo,
                   kept |-> v10'.kept, preparing |-> v10'.preparing]
    BY <2>1
  <2>3. UNCHANGED <<v1, v3, v4, v11, v12>>
    BY <1>6 DEF Profile!Open
  <2>4. v10'.kept => v10'.photo # 0
    BY <2>2
  <2> QED BY <1>5, <2>2, <2>3, <2>4
<1>7. ASSUME v10 # None
      PROVE  v10 \in [league : {v10.league}, team : {v10.team}, photo : {v10.photo}, kept : {v10.kept},
                      preparing : {v10.preparing}] /\ (v10.kept => v10.photo # 0)
  BY <1>7 DEF Profile!ProfileInv
<1>8. CASE Profile!ChooseTeam
  <2>1. PICK t : v10' = [v10 EXCEPT !.team = t] /\ v10 # None
    BY <1>8 DEF Profile!ChooseTeam, Profile!Enabled
  <2>2. v10' \in [league : {v10.league}, team : {t}, photo : {v10.photo}, kept : {v10.kept},
                  preparing : {v10.preparing}]
    BY <1>7, <2>1
  <2> QED BY <1>5, <1>7, <1>8, <2>1, <2>2 DEF Profile!ChooseTeam
<1>9. CASE Profile!ChoosePhoto
  <2>1. v10' \in [league : {v10.league}, team : {v10.team}, photo : {v10.photo}, kept : {v10.kept},
                  preparing : {TRUE}] /\ v10 # None
    BY <1>7, <1>9 DEF Profile!ChoosePhoto, Profile!Enabled
  <2> QED BY <1>5, <1>7, <1>9, <2>1 DEF Profile!ChoosePhoto
<1>10. CASE Profile!PhotoPrepared
  <2>1. v10' \in [league : {v10.league}, team : {v10.team}, photo : {2}, kept : {TRUE}, preparing : {FALSE}]
        \/ v10' \in [league : {v10.league}, team : {v10.team}, photo : {v10.photo}, kept : {v10.kept},
                     preparing : {FALSE}]
    BY <1>7, <1>10 DEF Profile!PhotoPrepared
  <2>2. UNCHANGED <<v1, v3, v4, v11, v12>> /\ v10 # None
    BY <1>10 DEF Profile!PhotoPrepared
  <2>3. v10'.kept => v10'.photo # 0
    <3>1. CASE v10' \in [league : {v10.league}, team : {v10.team}, photo : {2}, kept : {TRUE}, preparing : {FALSE}]
      BY <3>1
    <3>2. CASE v10' \in [league : {v10.league}, team : {v10.team}, photo : {v10.photo}, kept : {v10.kept},
                         preparing : {FALSE}]
      <4>1. v10'.photo = v10.photo /\ v10'.kept = v10.kept
        BY <3>2
      <4> QED BY <1>7, <2>2, <4>1
    <3> QED BY <2>1, <3>1, <3>2
  <2>4. v10' = [league |-> v10'.league, team |-> v10'.team, photo |-> v10'.photo,
                kept |-> v10'.kept, preparing |-> v10'.preparing]
    BY <2>1
  <2> QED BY <1>5, <2>2, <2>3, <2>4
<1>11. CASE Profile!RemovePhoto
  <2>1. v10' \in [league : {v10.league}, team : {v10.team}, photo : {0}, kept : {FALSE},
                  preparing : {v10.preparing}]
    BY <1>7, <1>11 DEF Profile!RemovePhoto, Profile!Enabled
  <2> QED BY <1>5, <1>11, <2>1 DEF Profile!RemovePhoto
\* The save is written.
<1>12. ASSUME UNCHANGED <<v1, v3, v4, v10>>, v1 = "local" => v11' = None /\ v12' = v12,
              v12' \in [Profile!League -> Profile!Teams],
              v11' # None => /\ v11'.change = "remove" => ~v11'.kept
                             /\ v11' = [at |-> v11'.at, change |-> v11'.change, league |-> v11'.league,
                                        team |-> v11'.team, photo |-> v11'.photo, kept |-> v11'.kept]
       PROVE  Profile!ProfileInv'
  <2>1. Profile!TeamsAreKept'
    BY <1>12 DEF Profile!ProfileInv, Profile!TeamsAreKept, Profile!LocalTeam
  <2> QED BY <1>12, <2>1 DEF Profile!ProfileInv, Profile!ShownPhotoStays
<1>13. CASE Profile!SaveToAccount
  <2>1. v11' = [at |-> IF Profile!Change = "upload" THEN "upload" ELSE "put", change |-> Profile!Change,
                league |-> v4, team |-> v10.team, photo |-> v10.photo, kept |-> v10.kept]
        /\ v10 # None /\ v1 = "api" /\ UNCHANGED <<v1, v3, v4, v10, v12>>
    BY <1>13 DEF Profile!SaveToAccount, Profile!Enabled
  <2>2. v11'.change = Profile!Change /\ v11'.kept = v10.kept
        /\ v11' = [at |-> v11'.at, change |-> v11'.change, league |-> v11'.league,
                   team |-> v11'.team, photo |-> v11'.photo, kept |-> v11'.kept]
    BY <2>1
  <2>3. Profile!Change = "remove" => v10.photo = 0
    BY DEF Profile!Change
  <2> QED BY <1>7, <1>12, <2>1, <2>2, <2>3 DEF Profile!ProfileInv
<1>14. ASSUME v11 # None
       PROVE  /\ v1 # "local" /\ v12 \in [Profile!League -> Profile!Teams]
              /\ v11 \in [at : {v11.at}, change : {v11.change}, league : {v11.league},
                          team : {v11.team}, photo : {v11.photo}, kept : {v11.kept}]
              /\ v11.change = "remove" => ~v11.kept
  BY <1>14 DEF Profile!ProfileInv, Profile!ShownPhotoStays
<1>15. CASE Profile!Uploaded
  <2>1. v11' \in [at : {"put"}, change : {v11.change}, league : {v4},
                  team : {v11.team}, photo : {v11.photo}, kept : {v11.kept}]
    BY <1>14, <1>15 DEF Profile!Uploaded
  <2> QED BY <1>12, <1>14, <1>15, <2>1 DEF Profile!Uploaded
<1>16. CASE Profile!Put
  <2>1. v11' \in [at : {"answer"}, change : {v11.change}, league : {v11.league},
                  team : {v11.team}, photo : {v11.photo}, kept : {v11.kept}]
    BY <1>14, <1>16 DEF Profile!Put
  <2>2. v12' \in [Profile!League -> Profile!Teams]
    <3>1. PICK l, t : t \in Profile!Clubs(l) /\ v12' = [v12 EXCEPT ![l] = t]
      BY <1>16 DEF Profile!Put
    <3>2. l \in Profile!League => t \in Profile!Teams
      BY <3>1 DEF Profile!League, Profile!Clubs, Profile!Teams
    <3> QED BY <1>14, <1>16, <3>1, <3>2 DEF Profile!Put
  <2> QED BY <1>12, <1>14, <1>16, <2>1, <2>2 DEF Profile!Put
<1>17. CASE Profile!Saved
  <2>1. v1 # "local" /\ UNCHANGED <<v1, v4, v12>> /\ v11' = None /\ v10' = None
        /\ v3' = [v3 EXCEPT !.legacy = None]
    BY <1>14, <1>17 DEF Profile!Saved
  <2>2. v3' = [account |-> v3.account, team |-> v3.team, legacy |-> None]
    BY <2>1 DEF Profile!ProfileInv
  <2> QED BY <2>1, <2>2 DEF Profile!ProfileInv, Profile!TeamsAreKept, Profile!ShownPhotoStays
<1>18. CASE Profile!SaveToBrowser
  <2>1. v1 = "local" /\ v10 # None /\ v11 = None /\ v10.team \in Profile!Clubs(v4) /\ UNCHANGED <<v1, v4, v11>>
    BY <1>18 DEF Profile!SaveToBrowser, Profile!Enabled
  <2>2. v3 \in [account : {v3.account}, team : {v3.team}, legacy : {v3.legacy}]
    BY DEF Profile!ProfileInv
  <2>3. Profile!Moved \in [account : {Profile!Moved.account}, team : {Profile!Moved.team}, legacy : {Profile!Moved.legacy}]
    BY <2>2 DEF Profile!Moved
  <2>4. CASE v12' = v12 /\ v10' = v10
             /\ v3' \in {v3, [v3 EXCEPT !.account = Profile!Moved.account],
                        [Profile!Moved EXCEPT !.legacy = v3.legacy], Profile!Moved,
                        [Profile!Moved EXCEPT !.account = v10.photo]}
    <3>1. /\ v3' = [account |-> v3'.account, team |-> v3'.team, legacy |-> v3'.legacy]
          /\ \/ v3'.team = v3.team /\ v3'.legacy = v3.legacy
             \/ v3'.team = Profile!Moved.team /\ v3'.legacy \in {v3.legacy, Profile!Moved.legacy}
      <4>1. ASSUME NEW a, NEW t, NEW o, NEW w \in [account : {a}, team : {t}, legacy : {o}]
            PROVE  w = [account |-> w.account, team |-> w.team, legacy |-> w.legacy]
                   /\ w.team = t /\ w.legacy = o
        OBVIOUS
      <4>2. v3' \in [account : {v3.account, Profile!Moved.account}, team : {v3.team}, legacy : {v3.legacy}]
            \/ v3' \in [account : {Profile!Moved.account, v10.photo}, team : {Profile!Moved.team},
                        legacy : {v3.legacy, Profile!Moved.legacy}]
        BY <2>2, <2>3, <2>4
      <4>3. PICK a, t, o : v3' \in [account : {a}, team : {t}, legacy : {o}]
              /\ \/ t = v3.team /\ o = v3.legacy
                 \/ t = Profile!Moved.team /\ o \in {v3.legacy, Profile!Moved.legacy}
        BY <4>2
      <4> QED BY <4>1, <4>3
    <3>2. /\ v3'.team \in [Profile!League -> Profile!Teams \union {None}]
          /\ v3'.legacy \in Profile!Legacy \union {None}
          /\ \A l \in Profile!League :
               (IF v3'.team[l] # None THEN v3'.team[l]
                ELSE IF l = Profile!First /\ v3'.legacy # None THEN v3'.legacy.team ELSE 0) = Profile!LocalTeam(l)
      BY <3>1, MovedKeeps
    <3>3. Profile!TeamsAreKept'
      BY <2>1, <2>4, <3>2 DEF Profile!ProfileInv, Profile!TeamsAreKept, Profile!LocalTeam
    <3> QED BY <2>1, <2>4, <3>1, <3>2, <3>3 DEF Profile!ProfileInv, Profile!ShownPhotoStays
  <2>5. CASE v12' = [v12 EXCEPT ![v4] = v10.team] /\ v10' = None
             /\ v3' = [Profile!Moved EXCEPT !.account = v10.photo, !.team[v4] = v10.team]
    <3>1. v3' = [account |-> v10.photo, team |-> [Profile!Moved.team EXCEPT ![v4] = v10.team],
                 legacy |-> Profile!Moved.legacy]
      <4>1. PICK m : m = Profile!Moved
        OBVIOUS
      <4>2. [m EXCEPT !.account = v10.photo, !.team[v4] = v10.team]
              \in [account : {v10.photo}, team : {[m.team EXCEPT ![v4] = v10.team]}, legacy : {m.legacy}]
        BY <2>3, <4>1
      <4>3. ASSUME NEW a, NEW t, NEW o, NEW w \in [account : {a}, team : {t}, legacy : {o}]
            PROVE  w = [account |-> a, team |-> t, legacy |-> o]
        OBVIOUS
      <4> QED BY <2>5, <4>1, <4>2, <4>3
    <3>2. /\ Profile!Moved.team \in [Profile!League -> Profile!Teams \union {None}]
          /\ Profile!Moved.legacy \in Profile!Legacy \union {None}
          /\ \A l \in Profile!League :
               (IF Profile!Moved.team[l] # None THEN Profile!Moved.team[l]
                ELSE IF l = Profile!First /\ Profile!Moved.legacy # None THEN Profile!Moved.legacy.team ELSE 0)
                = Profile!LocalTeam(l)
      BY <2>3, MovedKeeps
    <3>3. v10.team \in Profile!Teams /\ v10.team # None
      BY <1>2, <2>1 DEF Profile!Clubs, Profile!League, Profile!Teams
    <3>4. v3'.team \in [Profile!League -> Profile!Teams \union {None}]
          /\ v12' \in [Profile!League -> Profile!Teams]
      BY <2>5, <3>1, <3>2, <3>3 DEF Profile!ProfileInv
    <3>5. ASSUME NEW l \in Profile!League
          PROVE  (IF v3'.team[l] # None THEN v3'.team[l]
                  ELSE IF l = Profile!First /\ v3'.legacy # None THEN v3'.legacy.team ELSE 0) = v12'[l]
      <4>1. CASE l = v4
        BY <2>5, <3>1, <3>2, <3>3, <4>1 DEF Profile!ProfileInv
      <4>2. CASE l # v4
        <5>1. v3'.team[l] = Profile!Moved.team[l] /\ v3'.legacy = Profile!Moved.legacy /\ v12'[l] = v12[l]
          BY <2>5, <3>1, <3>2, <4>2 DEF Profile!ProfileInv
        <5> QED BY <2>1, <3>2, <5>1 DEF Profile!ProfileInv, Profile!TeamsAreKept
      <4> QED BY <4>1, <4>2
    <3>6. Profile!TeamsAreKept'
      BY <3>5 DEF Profile!TeamsAreKept, Profile!LocalTeam
    <3>7. v3' = [account |-> v3'.account, team |-> v3'.team, legacy |-> v3'.legacy]
          /\ v3'.legacy \in Profile!Legacy \union {None}
      BY <3>1, <3>2
    <3> QED BY <2>1, <2>5, <3>4, <3>6, <3>7 DEF Profile!ProfileInv, Profile!ShownPhotoStays
  <2> QED BY <1>18, <2>4, <2>5 DEF Profile!SaveToBrowser
<1>19. CASE UNCHANGED Profile!vars
  BY <1>1, <1>2, <1>19 DEF Profile!vars
<1> QED BY <1>3, <1>4, <1>6, <1>8, <1>9, <1>10, <1>11, <1>13, <1>15, <1>16, <1>17, <1>18, <1>19
    DEF Profile!Next

LEMMA ProfilesHold ==
    ASSUME Profile!ProfileInv PROVE Profile!TeamsAreKept /\ Profile!ShownPhotoStays
BY DEF Profile!ProfileInv

-----------------------------------------------------------------------------
\* The team sheet on the captain's desk.
Sheet == INSTANCE MembersCard WITH
    None <- None, MaxWrites <- SheetWrites, MaxChanges <- SheetChanges,
    api <- v1, sheet <- v2, editing <- v3, text <- v4, row <- v5, busy <- v6, dialog <- v7,
    form <- v8, calls <- v9, writes <- v10, changes <- v11

\* MembersCard: api is v1, sheet v2, editing v3, text v4, row v5, busy v6, dialog v7, form v8,
\* calls v9, writes v10, changes v11.

LEMMA SheetInitially ==
    ASSUME Sheet!Init
    PROVE  Sheet!SheetInv
BY DEF Sheet!Init, Sheet!SheetInv, Sheet!SentIsOfItsRow

\* Whatever rows are edited, asked about and answered in between, an email goes to the row it
\* was entered in, and the busy row's call is on its way.
LEMMA SheetStep ==
    ASSUME Sheet!SheetInv, [Sheet!Next]_(Sheet!vars)
    PROVE  Sheet!SheetInv'
<1>1. CASE Sheet!Elsewhere \/ Sheet!Edit \/ Sheet!CancelEdit \/ Sheet!Type
           \/ Sheet!CloseDialog \/ Sheet!Fill
  BY <1>1 DEF Sheet!Elsewhere, Sheet!Edit, Sheet!CancelEdit, Sheet!EditShown, Sheet!Type, Sheet!CloseDialog, Sheet!Fill,
     Sheet!SheetInv, Sheet!SentIsOfItsRow
<1>2. CASE Sheet!Ask
  <2>1. v7'.kind \in {"release", "remove"}
        /\ v7' = [kind |-> v7'.kind, member |-> v7'.member, deletes |-> v7'.deletes, sending |-> v7'.sending]
    BY <1>2 DEF Sheet!Ask
  <2> QED BY <1>2, <2>1 DEF Sheet!Ask, Sheet!SheetInv, Sheet!SentIsOfItsRow
\* A new call joins those under way.
<1>3. ASSUME NEW kind, NEW m, NEW email, Sheet!Call(kind, m, email), kind = "email" => m = v5
      PROVE  /\ v9 \subseteq v9' /\ \E c \in v9' : c.member = m /\ c.kind = kind
             /\ \A c \in v9' : c = [kind |-> c.kind, member |-> c.member, email |-> c.email,
                                    row |-> c.row, at |-> c.at]
             /\ \A c \in v9' : c.kind = "email" => c.row = c.member
  <2>1. PICK new : new = [kind |-> kind, member |-> m, email |-> email, row |-> v5, at |-> "sent"]
    OBVIOUS
  <2>2. v9' = v9 \union {new}
    BY <1>3, <2>1 DEF Sheet!Call
  <2>3. new.kind = kind /\ new.member = m /\ new.row = v5
        /\ new = [kind |-> new.kind, member |-> new.member, email |-> new.email, row |-> new.row, at |-> new.at]
    BY <2>1
  <2> QED BY <1>3, <2>2, <2>3 DEF Sheet!SheetInv, Sheet!SentIsOfItsRow
<1>4. CASE Sheet!SaveEmail
  <2>1. Sheet!Call("email", v3, v4) /\ v3 # None /\ v6' = v3 /\ UNCHANGED <<v3, v5, v7>>
    BY <1>4 DEF Sheet!SaveEmail, Sheet!EditShown
  <2>2. v3 = v5
    BY <2>1 DEF Sheet!SheetInv
  <2> QED BY <1>3, <2>1, <2>2 DEF Sheet!SheetInv, Sheet!SentIsOfItsRow
<1>5. CASE Sheet!Confirm
  <2>1. Sheet!Call(v7.kind, v7.member, 0) /\ v7 # None /\ v7.kind \in {"release", "remove"}
    BY <1>5 DEF Sheet!Confirm, Sheet!SheetInv
  <2>2. v7' = [kind |-> v7.kind, member |-> v7.member, deletes |-> v7.deletes, sending |-> TRUE]
    BY <1>5, <2>1 DEF Sheet!Confirm, Sheet!SheetInv
  <2>3. v6' = (IF v7.kind = "remove" THEN v7.member ELSE v6) /\ UNCHANGED <<v3, v5>>
    BY <1>5 DEF Sheet!Confirm
  <2>4. v7'.kind = v7.kind
        /\ v7' = [kind |-> v7'.kind, member |-> v7'.member, deletes |-> v7'.deletes, sending |-> v7'.sending]
    BY <2>2
  <2> QED BY <1>3, <2>1, <2>3, <2>4 DEF Sheet!SheetInv, Sheet!SentIsOfItsRow
<1>6. CASE Sheet!Reinstate
  <2>1. PICK m : Sheet!Call("reinstate", m, 0) /\ v6' = m /\ UNCHANGED <<v3, v5, v7>>
    BY <1>6 DEF Sheet!Reinstate
  <2> QED BY <1>3, <2>1 DEF Sheet!SheetInv, Sheet!SentIsOfItsRow
<1>7. CASE Sheet!AddMember
  <2>1. Sheet!Call("add", Sheet!New, 0) /\ UNCHANGED <<v3, v5, v6, v7>>
    BY <1>7 DEF Sheet!AddMember
  <2> QED BY <1>3, <2>1 DEF Sheet!SheetInv, Sheet!SentIsOfItsRow
<1>8. CASE Sheet!Apply
  <2>1. PICK c \in v9 : v9' = (v9 \ {c}) \union {[c EXCEPT !.at = "applied"]} /\ UNCHANGED <<v3, v5, v6, v7>>
    BY <1>8 DEF Sheet!Apply
  <2>2. PICK new : new = [c EXCEPT !.at = "applied"]
    OBVIOUS
  <2>3. new = [kind |-> c.kind, member |-> c.member, email |-> c.email, row |-> c.row, at |-> "applied"]
    BY <2>1, <2>2 DEF Sheet!SheetInv
  <2>4. new.kind = c.kind /\ new.member = c.member /\ new.row = c.row
        /\ new = [kind |-> new.kind, member |-> new.member, email |-> new.email, row |-> new.row, at |-> new.at]
    BY <2>3
  <2> QED BY <2>1, <2>2, <2>4 DEF Sheet!SheetInv, Sheet!SentIsOfItsRow
<1>9. ASSUME NEW c \in v9, v9' = v9 \ {c}, v6' = Sheet!Freed(c)
      PROVE  v6' # None => \E d \in v9' : d.member = v6' /\ d.kind \in {"email", "remove", "reinstate"}
  BY <1>9 DEF Sheet!Freed, Sheet!SheetInv
<1>10. CASE Sheet!Answer
  <2>1. PICK c \in v9 : /\ v9' = v9 \ {c} /\ v6' = Sheet!Freed(c) /\ v3' \in {v3, None}
                        /\ v7' \in {v7, None} /\ v5' = v5
    BY <1>10 DEF Sheet!Answer
  <2>2. v6' # None => \E d \in v9' : d.member = v6' /\ d.kind \in {"email", "remove", "reinstate"}
    BY <1>9, <2>1
  <2> QED BY <2>1, <2>2 DEF Sheet!SheetInv, Sheet!SentIsOfItsRow
<1>11. CASE Sheet!Fails
  <2>1. PICK c \in v9 : /\ v9' = v9 \ {c} /\ v6' = Sheet!Freed(c) /\ UNCHANGED <<v3, v5>>
                        /\ v7' = v7 \/ (v7 # None /\ v7' = [v7 EXCEPT !.sending = FALSE])
    BY <1>11 DEF Sheet!Fails
  <2>2. v6' # None => \E d \in v9' : d.member = v6' /\ d.kind \in {"email", "remove", "reinstate"}
    BY <1>9, <2>1
  <2>3. v7' # None => /\ v7'.kind \in {"release", "remove"}
                      /\ v7' = [kind |-> v7'.kind, member |-> v7'.member,
                                deletes |-> v7'.deletes, sending |-> v7'.sending]
    <3>1. CASE v7' = v7
      BY <3>1 DEF Sheet!SheetInv
    <3>2. CASE v7 # None /\ v7' = [v7 EXCEPT !.sending = FALSE]
      <4>1. v7' = [kind |-> v7.kind, member |-> v7.member, deletes |-> v7.deletes, sending |-> FALSE]
            /\ v7.kind \in {"release", "remove"}
        BY <3>2 DEF Sheet!SheetInv
      <4> QED BY <4>1
    <3> QED BY <2>1, <3>1, <3>2
  <2> QED BY <2>1, <2>2, <2>3 DEF Sheet!SheetInv, Sheet!SentIsOfItsRow
<1>12. CASE UNCHANGED Sheet!vars
  BY <1>12 DEF Sheet!vars, Sheet!SheetInv, Sheet!SentIsOfItsRow
<1> QED BY <1>1, <1>2, <1>4, <1>5, <1>6, <1>7, <1>8, <1>10, <1>11, <1>12 DEF Sheet!Next

LEMMA SheetsHold ==
    ASSUME Sheet!SheetInv PROVE Sheet!SentIsOfItsRow /\ Sheet!NothingStaysBusy
BY DEF Sheet!SheetInv, Sheet!NothingStaysBusy

-----------------------------------------------------------------------------
\* A new league. A name is spelled in two ways: a number and its negative.
NewLeague == INSTANCE CreateLeague WITH
    Spelling <- LeagueNames \union {-n : n \in LeagueNames}, Competition <- Games,
    StartingRows <- LeagueRows, MaxMembers <- LeagueMembers, MaxEdits <- LeagueEdits,
    rows <- v1, captain <- v2, look <- v3, title <- v4, place <- v5, options <- v6, apiField <- v7,
    sent <- v8, edits <- v9

\* CreateLeague: rows is v1, captain v2, look v3, title v4, place v5, options v6, apiField v7,
\* sent v8, edits v9.

\* No two members of a team sheet are spelled alike but for case.
LEMMA SheetsAreApart ==
    ASSUME LeagueNames \subseteq Nat \ {0}, NEW sheet \in Seq(NewLeague!Row),
           NEW n \in NewLeague!Members(sheet)
    PROVE  n # 0 /\ -n \notin NewLeague!Members(sheet)
<1> DEFINE names == LeagueNames \union {-k : k \in LeagueNames}
<1>1. PICK i \in NewLeague!Usable(sheet) : n = sheet[i].name
  BY DEF NewLeague!Members
<1>2. i \in DOMAIN sheet /\ sheet[i].kind = "full"
      /\ \A j \in 1 .. i - 1 : sheet[j].name # -n /\ sheet[j].name # n
  BY <1>1 DEF NewLeague!Usable
<1>3. \A k \in DOMAIN sheet : sheet[k] \in NewLeague!Row
  OBVIOUS
<1>4. \A row \in NewLeague!Row : row.kind = "full" => row.name \in names
  BY DEF NewLeague!Row, NewLeague!Blank, NewLeague!Half
<1>5. names \subseteq Int \ {0}
  <2>1. ASSUME NEW k \in LeagueNames PROVE k \in Int \ {0} /\ -k \in Int \ {0}
    OBVIOUS
  <2> QED BY <2>1
<1>6. n \in Int \ {0}
  BY <1>1, <1>2, <1>3, <1>4, <1>5
<1>7. ASSUME -n \in NewLeague!Members(sheet) PROVE FALSE
  <2>1. PICK j \in NewLeague!Usable(sheet) : -n = sheet[j].name
    BY <1>7 DEF NewLeague!Members
  <2>2. j \in DOMAIN sheet /\ \A k \in 1 .. j - 1 : sheet[k].name # n
    BY <1>6, <2>1 DEF NewLeague!Usable
  <2>3. i \in 1 .. Len(sheet) /\ j \in 1 .. Len(sheet)
    BY <1>2, <2>2
  <2>4. CASE i < j
    BY <1>1, <2>2, <2>3, <2>4
  <2>5. CASE j < i
    BY <1>2, <2>1, <2>3, <2>5
  <2>6. CASE i = j
    BY <1>1, <1>6, <2>1, <2>6
  <2> QED BY <2>3, <2>4, <2>5, <2>6
<1> QED BY <1>6, <1>7

LEMMA LeagueInitially ==
    ASSUME LeagueRows \in Nat, NewLeague!Init
    PROVE  NewLeague!LeagueInv
<1>1. [i \in 1 .. LeagueRows |-> NewLeague!BlankRow] \in Seq(NewLeague!Row)
  BY DEF NewLeague!BlankRow, NewLeague!Row, NewLeague!Blank
<1> QED BY <1>1 DEF NewLeague!Init, NewLeague!LeagueInv, NewLeague!NoName, NewLeague!SentLeagueIsWhole

\* Whatever is typed, chosen or removed, the captain stays one of the members and the zone the
\* chosen competition's until it is edited; what is sent is the form as it then was.
LEMMA LeagueStep ==
    ASSUME LeagueRows \in Nat, LeagueNames \subseteq Nat \ {0}, Games # {}, NewLeague!LeagueInv,
           [NewLeague!Next]_(NewLeague!vars)
    PROVE  NewLeague!LeagueInv'
<1>1. ASSUME NEW sheet \in Seq(NewLeague!Row), NewLeague!SheetIs(sheet) PROVE NewLeague!LeagueInv'
  BY <1>1 DEF NewLeague!SheetIs, NewLeague!LeagueInv, NewLeague!SentLeagueIsWhole
<1>2. v1 \in Seq(NewLeague!Row) /\ NewLeague!BlankRow \in NewLeague!Row
  BY DEF NewLeague!LeagueInv, NewLeague!BlankRow, NewLeague!Row, NewLeague!Blank
<1>3. ASSUME NEW i \in DOMAIN v1, NewLeague!TypeRow(i) PROVE NewLeague!LeagueInv'
  <2>1. PICK row \in NewLeague!Row : NewLeague!SheetIs([v1 EXCEPT ![i] = row])
    BY <1>3 DEF NewLeague!TypeRow
  <2>2. [v1 EXCEPT ![i] = row] \in Seq(NewLeague!Row)
    BY <1>2
  <2> QED BY <1>1, <2>1, <2>2
<1>4. CASE NewLeague!AddRow
  <2>1. Append(v1, NewLeague!BlankRow) \in Seq(NewLeague!Row)
    BY <1>2
  <2> QED BY <1>1, <1>4, <2>1 DEF NewLeague!AddRow
<1>5. ASSUME NEW i \in DOMAIN v1, NewLeague!RemoveRow(i) PROVE NewLeague!LeagueInv'
  <2>1. NewLeague!RemoveAt(v1, i) \in Seq(NewLeague!Row)
    BY <1>2 DEF NewLeague!RemoveAt
  <2> QED BY <1>1, <1>5, <2>1 DEF NewLeague!RemoveRow
<1>6. ASSUME NEW name, NewLeague!ChooseCaptain(name) PROVE NewLeague!LeagueInv'
  BY <1>6 DEF NewLeague!ChooseCaptain, NewLeague!LeagueInv, NewLeague!SentLeagueIsWhole
<1>7. ASSUME NEW new, NewLeague!LookIs(new), new \in [isMe : BOOLEAN, email : {"none", "bad", "good"}, addMe : BOOLEAN]
      PROVE  NewLeague!LeagueInv'
  BY <1>7 DEF NewLeague!LookIs, NewLeague!LeagueInv, NewLeague!SentLeagueIsWhole
<1>8. v3 \in [isMe : BOOLEAN, email : {"none", "bad", "good"}, addMe : BOOLEAN]
  BY DEF NewLeague!LeagueInv
<1>9. CASE NewLeague!CaptainIsMe
  BY <1>7, <1>8, <1>9 DEF NewLeague!CaptainIsMe
<1>10. CASE NewLeague!TypeEmail
  BY <1>7, <1>8, <1>10 DEF NewLeague!TypeEmail
<1>11. CASE NewLeague!AddMe
  BY <1>7, <1>8, <1>11 DEF NewLeague!AddMe
<1>12. CASE NewLeague!TypeName \/ NewLeague!TypeSlug \/ NewLeague!Refused
  BY <1>12 DEF NewLeague!TypeName, NewLeague!TypeSlug, NewLeague!Refused, NewLeague!LeagueInv, NewLeague!SentLeagueIsWhole
<1>13. v5 \in [competition : Games \union {None}, zone : Games \union {None, NewLeague!Typed}, edited : BOOLEAN]
       /\ (v5.edited \/ v5.zone = v5.competition)
  BY DEF NewLeague!LeagueInv, NewLeague!SentLeagueIsWhole
<1>14. ASSUME NEW id \in Games, v5' = NewLeague!Chosen(id) \/ v5' = v5,
              UNCHANGED <<v1, v2, v3, v8>>
       PROVE  NewLeague!LeagueInv'
  <2>1. CASE v5 = v5'
    BY <1>14, <2>1 DEF NewLeague!LeagueInv, NewLeague!SentLeagueIsWhole
  <2>2. ASSUME NEW zone, v5' = [v5 EXCEPT !.competition = id, !.zone = zone],
               zone \in Games \union {None, NewLeague!Typed}, v5.edited \/ zone = id
        PROVE  NewLeague!LeagueInv'
    <3>1. v5' \in [competition : {id}, zone : {zone}, edited : {v5.edited}]
      BY <1>13, <2>2
    <3>2. v5' \in [competition : Games \union {None}, zone : Games \union {None, NewLeague!Typed}, edited : BOOLEAN]
      BY <1>13, <2>2
    <3>3. v5'.edited \/ v5'.zone = v5'.competition
      BY <2>2, <3>1
    <3> QED BY <1>14, <3>2, <3>3 DEF NewLeague!LeagueInv, NewLeague!SentLeagueIsWhole
  <2>3. CASE v5' = NewLeague!Chosen(id)
    <3>1. PICK zone : zone = IF v5.edited THEN v5.zone ELSE id
      OBVIOUS
    <3>2. v5' = [v5 EXCEPT !.competition = id, !.zone = zone]
      BY <2>3, <3>1 DEF NewLeague!Chosen
    <3> QED BY <1>13, <2>2, <3>1, <3>2
  <2> QED BY <1>14, <2>1, <2>3
<1>15. CASE NewLeague!CompetitionsLoaded
  BY <1>14, <1>15 DEF NewLeague!CompetitionsLoaded
<1>16. ASSUME NEW id \in Games, NewLeague!ChooseCompetition(id) PROVE NewLeague!LeagueInv'
  BY <1>14, <1>16 DEF NewLeague!ChooseCompetition
<1>17. CASE NewLeague!ChooseZone
  <2>1. PICK z \in {NewLeague!Typed, None} : v5' = [v5 EXCEPT !.zone = z, !.edited = TRUE]
    BY <1>17 DEF NewLeague!ChooseZone
  <2>2. v5' \in [competition : Games \union {None}, zone : {z}, edited : {TRUE}]
    BY <1>13, <2>1
  <2>3. v5' \in [competition : Games \union {None}, zone : Games \union {None, NewLeague!Typed}, edited : BOOLEAN]
        /\ v5'.edited
    BY <2>2
  <2> QED BY <1>17, <2>3 DEF NewLeague!ChooseZone, NewLeague!LeagueInv, NewLeague!SentLeagueIsWhole
<1>18. CASE NewLeague!Submit
  <2>1. CASE NewLeague!Problems
    BY <1>18, <2>1 DEF NewLeague!Submit, NewLeague!LeagueInv, NewLeague!SentLeagueIsWhole
  <2>2. CASE ~NewLeague!Problems
    <3>1. v8' = [members |-> NewLeague!Members(v1), captain |-> v2,
                 email |-> IF v3.isMe THEN "none" ELSE v3.email, addMe |-> ~v3.isMe /\ v3.addMe]
          /\ UNCHANGED <<v1, v2, v3, v5>>
      BY <1>18, <2>2 DEF NewLeague!Submit, NewLeague!Body
    <3>2. v2 \in NewLeague!Members(v1)
      BY <2>2 DEF NewLeague!Problems, NewLeague!LeagueInv
    <3>3. ~v3.isMe => v3.email = "good"
      BY <2>2, <1>8 DEF NewLeague!Problems
    <3>4. \A n \in NewLeague!Members(v1) : -n \notin NewLeague!Members(v1)
      BY <1>2, SheetsAreApart
    <3>5. v8'.captain \in v8'.members /\ (v8'.addMe => v8'.email = "good")
          /\ \A n \in v8'.members : -n \notin v8'.members
      BY <3>1, <3>2, <3>3, <3>4
    <3> QED BY <3>1, <3>5 DEF NewLeague!LeagueInv, NewLeague!SentLeagueIsWhole
  <2> QED BY <2>1, <2>2
<1>19. CASE NewLeague!Created
  <2>1. v1' \in Seq(NewLeague!Row)
    BY <1>2, <1>19 DEF NewLeague!Created
  <2> QED BY <1>19, <2>1 DEF NewLeague!Created, NewLeague!LeagueInv, NewLeague!SentLeagueIsWhole, NewLeague!NoName
<1>20. CASE UNCHANGED NewLeague!vars
  BY <1>20 DEF NewLeague!vars, NewLeague!LeagueInv, NewLeague!SentLeagueIsWhole
<1> QED BY <1>3, <1>4, <1>5, <1>6, <1>9, <1>10, <1>11, <1>12, <1>15, <1>16, <1>17, <1>18, <1>19, <1>20
    DEF NewLeague!Next

LEMMA LeaguesHold ==
    ASSUME NewLeague!LeagueInv PROVE NewLeague!SentLeagueIsWhole
BY DEF NewLeague!LeagueInv, NewLeague!SentLeagueIsWhole

-----------------------------------------------------------------------------
\* The chat panel of a match.
Panel == INSTANCE ChatPanel WITH
    League <- Places, Fixture <- Games, NoPlace <- None, MaxTurns <- PanelTurns, MaxReads <- PanelReads,
    place <- v1, selected <- v2, thread <- v3, reads <- v4, readCount <- v5, turn <- v6,
    turns <- v7, stored <- v8, accepted <- v9

\* ChatPanel: place is v1, selected v2, thread v3, reads v4, readCount v5, turn v6, turns v7,
\* stored v8, accepted v9.

\* A panel that opens shows nothing yet.
LEMMA PanelInitially ==
    ASSUME Panel!Init
    PROVE  Panel!PanelInv
<1>1. v8 \in [Panel!Place -> SUBSET v9]
  BY DEF Panel!Init
<1> QED BY <1>1 DEF Panel!Init, Panel!PanelInv, Panel!ShownWasAccepted, Panel!NoThread, Panel!NoTurn

\* A question shows while it is asked, stays when the API takes it and goes when it does not.
LEMMA PanelStep ==
    ASSUME Panel!PanelInv, [Panel!Next]_(Panel!vars)
    PROVE  Panel!PanelInv'
<1> USE DEF Panel!PanelInv, Panel!ShownWasAccepted
<1>1. ASSUME NEW p \in Panel!Place, Panel!Load(p), UNCHANGED <<v7, v8, v9>>, v1' \in Panel!Place
      PROVE  Panel!PanelInv'
  <2>1. CASE v2 = p
    BY <1>1, <2>1 DEF Panel!Load, Panel!Fetch, Panel!NoTurn
  <2>2. CASE v2 # p
    BY <1>1, <2>2 DEF Panel!Load, Panel!Fetch, Panel!NoTurn, Panel!NoThread
  <2> QED BY <2>1, <2>2
<1>2. ASSUME NEW f \in Games, Panel!OpenMatch(f)
      PROVE  Panel!PanelInv'
  <2>1. v1' \in Panel!Place
    BY <1>2 DEF Panel!OpenMatch, Panel!Place
  <2> QED BY <1>1, <1>2, <2>1 DEF Panel!OpenMatch
<1>3. ASSUME NEW l \in Places, Panel!SwitchLeague(l)
      PROVE  Panel!PanelInv'
  <2>1. v1' \in Panel!Place
    BY <1>3 DEF Panel!SwitchLeague, Panel!Place
  <2> QED BY <1>3, <2>1 DEF Panel!SwitchLeague
<1>4. ASSUME NEW p \in v4, Panel!ThreadArrives(p)
      PROVE  Panel!PanelInv'
  BY <1>4 DEF Panel!ThreadArrives
<1>5. ASSUME NEW p \in v4, Panel!ReadFails(p)
      PROVE  Panel!PanelInv'
  BY <1>5 DEF Panel!ReadFails
<1>6. CASE Panel!OpenSheet
  BY <1>1, <1>6 DEF Panel!OpenSheet
<1>7. CASE Panel!Send
  <2>1. v6.at # "asking"
    BY <1>7 DEF Panel!Send, Panel!NoTurn
  <2>2. v3' = [of |-> v3.of, questions |-> v3.questions \union {v7'}]
    BY <1>7 DEF Panel!Send
  <2>3. v6' = [at |-> "asking", of |-> v2]
    BY <1>7 DEF Panel!Send
  <2>4. v3'.questions \subseteq v9 \union {v7'}
    BY <2>1, <2>2
  <2>5. v3' = [of |-> v3'.of, questions |-> v3'.questions]
    BY <2>2
  <2>6. UNCHANGED <<v1, v2, v4, v8, v9>>
    BY <1>7 DEF Panel!Send
  <2> QED BY <2>3, <2>4, <2>5, <2>6
<1>8. CASE Panel!Accepted
  <2>1. v6' = [at |-> "streaming", of |-> v6.of] /\ v6.of \in Panel!Place
    BY <1>8 DEF Panel!Accepted, Panel!NoTurn
  <2>2. v8' \in [Panel!Place -> SUBSET v9']
    BY <1>8, <2>1 DEF Panel!Accepted
  <2> QED BY <1>8, <2>1, <2>2 DEF Panel!Accepted
<1>9. CASE Panel!Refused
  <2>1. v6.at = "asking" /\ v6.of \in Panel!Place /\ v6' = Panel!NoTurn
    BY <1>9 DEF Panel!Refused, Panel!NoTurn
  <2>2. v8' \in [Panel!Place -> SUBSET v9'] /\ v9 \subseteq v9'
    BY <1>9, <2>1 DEF Panel!Refused
  <2>3. \/ v3' = v3 /\ v3 = Panel!NoThread
        \/ v3' = [of |-> v3.of, questions |-> v3.questions \ {v7}]
    BY <1>9 DEF Panel!Refused, Panel!AfterRefusal
  <2>4. v3' = [of |-> v3'.of, questions |-> v3'.questions] /\ v3'.questions \subseteq v9'
    BY <2>1, <2>2, <2>3 DEF Panel!NoThread
  <2>5. [v1 EXCEPT !.fixture = v6.of.fixture] \in Panel!Place
    BY <2>1 DEF Panel!Place
  <2>6. v4' \subseteq Panel!Place /\ UNCHANGED <<v1, v2>>
    BY <1>9, <2>5 DEF Panel!Refused, Panel!Fetch
  <2> QED BY <2>1, <2>2, <2>4, <2>6 DEF Panel!NoTurn
<1>10. CASE Panel!Finished
  BY <1>10 DEF Panel!Finished, Panel!NoTurn
<1>11. CASE Panel!Clear
  <2>1. v8' \in [Panel!Place -> SUBSET v9'] /\ v4' \subseteq Panel!Place
    BY <1>11 DEF Panel!Clear, Panel!Fetch
  <2> QED BY <1>11, <2>1 DEF Panel!Clear
<1>12. CASE UNCHANGED Panel!vars
  BY <1>12 DEF Panel!vars
<1> QED BY <1>2, <1>3, <1>4, <1>5, <1>6, <1>7, <1>8, <1>9, <1>10, <1>11, <1>12 DEF Panel!Next

-----------------------------------------------------------------------------
\* A sample league's cases: a team of four, three of whom the captain may withdraw or one of whom
\* may, with one duty, two links and a window of one.
Sample == INSTANCE SampleLeague WITH
    Member <- Squad, Duty <- Tasks, Window <- SampleWindow, MaxLinks <- SampleLinks,
    MaxTime <- SampleTime, Mover <- Movers,
    now <- v1, team <- v2, me <- v3, isAdmin <- v4, captain <- v5, standIn <- v6, duties <- v7,
    settleAt <- v8

\* The marks of what is read, on two devices.
Marks == INSTANCE NotificationsRead WITH
    Device <- Places, Fast <- ReadAhead, MaxKeys <- ReadKeys, MaxTime <- ReadTime, MaxSaves <- ReadSaves,
    now <- v1, events <- v2, ahead <- v3, shown <- v4, read <- v5, unsaved <- v6, sent <- v7,
    answers <- v8, api <- v9, saves <- v10

\* Three runs of the job and one message, which expires after the second lease could start.
Push == INSTANCE PushOutbox WITH
    Message <- Messages, Run <- Actors, MaxAttempts <- PushAttempts, Lease <- PushLease,
    RetryAfter <- PushRetry, Expires <- [m \in Messages |-> PushExpires], Batch <- PushBatch,
    Batches <- PushBatches, MaxTime <- PushTime,
    now <- v1, outbox <- v2, run <- v3, deliveries <- v4

\* Two dispatches within the lease's reach and three submissions.
Sessions == INSTANCE Previews WITH
    Tick <- Places, Submit <- Actors, Lease <- SessionLease, Slow <- SessionSlow,
    MaxDispatches <- SessionDispatches, SaveAttempts <- SessionSaves, Published <- SessionPublished,
    Kickoff <- SessionKickoff, MaxTime <- SessionTime,
    now <- v1, dispatches <- v2, ticks <- v3, sessions <- v4, saves <- v5, previews <- v6

\* Two requests at a time for the end of a match, three in all.
FullTime == INSTANCE RoundUpdates WITH
    Requests <- Places, Start <- FeedStart, Ttl <- FeedTtl,
    MaxTime <- FeedTime, MaxAnswers <- FeedAnswers,
    now <- v1, feed <- v2, snapshot <- v3, milestone <- v4, request <- v5, answers <- v6,
    told <- v7, last <- v8, finals <- v9

-----------------------------------------------------------------------------
\* A turn of the chat in the agent.
Turn == INSTANCE ChatTurn WITH
    Number <- Numbers, Contexts <- Conversations, MaxMessages <- TurnMessages, MaxText <- TurnText,
    request <- v1, status <- v2, text <- v3, finish <- v4, out <- v5

\* ChatTurn: request is v1, status v2, text v3, finish v4, out v5.

\* The members of a finite set are numbered by how many come no later, if no two come together.
LEMMA Ranking ==
    ASSUME NEW C, IsFiniteSet(C), NEW at \in [C -> Nat], \A a, b \in C : at[a] = at[b] => a = b
    PROVE  LET rank(n) == Cardinality({m \in C : at[m] <= at[n]}) IN
           /\ \A a, b \in C : rank(a) < rank(b) <=> at[a] < at[b]
           /\ \A k \in 1 .. Cardinality(C) : \E n \in C : rank(n) = k
           /\ \A n \in C : rank(n) \in 1 .. Cardinality(C)
<1> DEFINE upto(n) == {m \in C : at[m] <= at[n]}
           N == Cardinality(C)
           r == [n \in C |-> Cardinality(upto(n))]
<1>1. N \in Nat /\ \A n \in C : IsFiniteSet(upto(n)) /\ Cardinality(upto(n)) \in 1 .. N
  <2>1. N \in Nat
    BY FS_CardinalityType
  <2>2. ASSUME NEW n \in C PROVE IsFiniteSet(upto(n)) /\ Cardinality(upto(n)) \in 1 .. N
    <3>1. upto(n) \in SUBSET C /\ n \in upto(n)
      OBVIOUS
    <3>2. IsFiniteSet(upto(n)) /\ Cardinality(upto(n)) <= N
      BY <3>1, FS_Subset
    <3>3. Cardinality(upto(n)) \in Nat /\ Cardinality(upto(n)) # 0
      BY <3>1, <3>2, FS_CardinalityType, FS_EmptySet
    <3> QED BY <2>1, <3>2, <3>3
  <2> QED BY <2>1, <2>2
<1>2. \A a, b \in C : at[a] < at[b] => Cardinality(upto(a)) < Cardinality(upto(b))
  <2> SUFFICES ASSUME NEW a \in C, NEW b \in C, at[a] < at[b]
               PROVE  Cardinality(upto(a)) < Cardinality(upto(b))
    OBVIOUS
  <2>1. upto(a) \in SUBSET upto(b) /\ b \in upto(b) /\ b \notin upto(a)
    OBVIOUS
  <2>2. Cardinality(upto(a)) <= Cardinality(upto(b)) /\ Cardinality(upto(a)) # Cardinality(upto(b))
    BY <1>1, <2>1, FS_Subset
  <2> QED BY <1>1, <2>2
<1>3. r \in [C -> 1 .. N] /\ \A a, b \in C : at[a] < at[b] => r[a] < r[b]
  BY <1>1, <1>2
<1>4. ASSUME NEW g \in [C -> 1 .. N], \A a, b \in C : at[a] < at[b] => g[a] < g[b]
      PROVE  /\ \A a, b \in C : g[a] < g[b] <=> at[a] < at[b]
             /\ \A a, b \in C : g[a] = g[b] => a = b
  BY <1>1, <1>4
<1>5. (\A a, b \in C : r[a] < r[b] <=> at[a] < at[b]) /\ \A a, b \in C : r[a] = r[b] => a = b
  <2> HIDE DEF r
  <2> QED BY <1>3, <1>4
<1>6. r \in Surjection(C, 1 .. N)
  <2>1. r \in Injection(C, 1 .. N)
    BY <1>3, <1>5 DEF Injection, IsInjective
  <2>2. IsFiniteSet(1 .. N) /\ Cardinality(1 .. N) = N
    BY <1>1, FS_Interval
  <2> HIDE DEF r
  <2> QED BY <2>1, <2>2, FS_Injection
<1>7. \A k \in 1 .. N : \E n \in C : r[n] = k
  BY <1>6 DEF Surjection
<1> QED BY <1>1, <1>5, <1>7

\* What counting is to ChatTurn.
LEMMA TurnCounts == \A S : Turn!Cardinality(S) = Cardinality(S)
BY DEF Turn!Cardinality, Cardinality, Turn!IsFiniteSet, IsFiniteSet

\* The first of some numbers.
LEMMA FirstIs ==
    ASSUME NEW S \in SUBSET Nat, S # {}
    PROVE  Turn!Min(S) \in S /\ \A t \in S : Turn!Min(S) <= t
BY Sample!Earliest DEF Turn!Min, Sample!Min

\* The last of some lines.
LEMMA LastIs ==
    ASSUME NEW n \in Nat, NEW S \in SUBSET (1 .. n), S # {}
    PROVE  Turn!Max(S) \in S /\ \A t \in S : t <= Turn!Max(S)
<1> DEFINE T == {n - s : s \in S}
<1>1. T \in SUBSET Nat
  <2>1. \A s \in S : s \in 1 .. n
    OBVIOUS
  <2>2. \A s \in 1 .. n : n - s \in Nat
    OBVIOUS
  <2> QED BY <2>1, <2>2
<1>2. Turn!Min(T) \in T /\ \A t \in T : Turn!Min(T) <= t
  <2>1. T # {}
    OBVIOUS
  <2> HIDE DEF T
  <2> QED BY <1>1, <2>1, FirstIs
<1>3. PICK m \in S : \A s \in S : n - m <= n - s
  BY <1>2
<1>4. \A s \in S : m >= s
  BY <1>3
<1> QED BY <1>4 DEF Turn!Max

\* The sources of these numbers, as they are streamed.
Sourced(num, sources) == [k \in 1 .. Len(num) |-> <<"source", num[k], sources[num[k]]>>]

\* The numbers the text cites, each once, the first cited first.
InOrder(num, said, sources) ==
    /\ \A k \in 1 .. Len(num) : Turn!Cites(said, num[k]) # {}
    /\ \A k, l \in 1 .. Len(num) : k < l =>
          \E p \in Turn!Cites(said, num[k]) : \A q \in Turn!Cites(said, num[l]) : p < q
    /\ \A n \in DOMAIN sources :
          Turn!Cites(said, n) # {} => \E k \in 1 .. Len(num) : num[k] = n

LEMMA SourcesCited ==
    ASSUME NEW said \in Seq(Turn!Pieces), NEW sources
    PROVE  \E num \in Seq(DOMAIN sources) :
              /\ Turn!CitedSources(said, sources) = Sourced(num, sources)
              /\ InOrder(num, said, sources)
<1> DEFINE C == {n \in DOMAIN sources : Turn!Cites(said, n) # {}}
           at == [n \in C |-> Turn!Min(Turn!Cites(said, n))]
           size(n) == Turn!Cardinality(
               {m \in C : Turn!Min(Turn!Cites(said, m)) <= Turn!Min(Turn!Cites(said, n))})
           N == Turn!Cardinality(C)
           num == [k \in 1 .. N |-> CHOOSE m \in C : size(m) = k]
<1>1. \A n \in C : at[n] \in Turn!Cites(said, n) /\ \A q \in Turn!Cites(said, n) : at[n] <= q
  <2> SUFFICES ASSUME NEW n \in C
               PROVE  at[n] \in Turn!Cites(said, n) /\ \A q \in Turn!Cites(said, n) : at[n] <= q
    OBVIOUS
  <2>1. Turn!Cites(said, n) \in SUBSET Nat
    BY DEF Turn!Cites
  <2> QED BY <2>1, FirstIs
<1>2. \A n : \A q \in Turn!Cites(said, n) : q \in 1 .. Len(said) /\ said[q + 1] = n
  BY DEF Turn!Cites
<1>3. at \in [C -> 1 .. Len(said)] /\ \A a, b \in C : at[a] = at[b] => a = b
  <2> HIDE DEF C
  <2>1. \A n \in C : at[n] \in 1 .. Len(said) /\ said[at[n] + 1] = n
    BY <1>1, <1>2
  <2> QED BY <2>1
<1>4. IsFiniteSet(C) /\ N = Cardinality(C) /\ N \in Nat /\ at \in [C -> Nat]
  <2>1. at \in Injection(C, 1 .. Len(said))
    BY <1>3 DEF Injection, IsInjective
  <2>2. IsFiniteSet(1 .. Len(said))
    BY FS_Interval
  <2>3. at \in [C -> Nat]
    BY <1>3
  <2> HIDE DEF C, at
  <2> QED BY <2>1, <2>2, <2>3, FS_Injection, FS_CardinalityType, TurnCounts
<1>5. /\ \A a, b \in C : size(a) < size(b) <=> at[a] < at[b]
      /\ \A k \in 1 .. N : \E n \in C : size(n) = k
      /\ \A n \in C : size(n) \in 1 .. N
  <2> DEFINE upto(n) == {m \in C : at[m] <= at[n]}
  <2>1. /\ \A a, b \in C : Cardinality(upto(a)) < Cardinality(upto(b)) <=> at[a] < at[b]
        /\ \A k \in 1 .. N : \E n \in C : Cardinality(upto(n)) = k
        /\ \A n \in C : Cardinality(upto(n)) \in 1 .. N
    <3>1. /\ \A a, b \in C : Cardinality(upto(a)) < Cardinality(upto(b)) <=> at[a] < at[b]
          /\ \A k \in 1 .. Cardinality(C) : \E n \in C : Cardinality(upto(n)) = k
          /\ \A n \in C : Cardinality(upto(n)) \in 1 .. Cardinality(C)
      <4> HIDE DEF C, at, N
      <4> QED BY <1>3, <1>4, Ranking
    <3> HIDE DEF C, at, N, upto
    <3> QED BY <3>1, <1>4
  <2>2. \A n \in C :
           upto(n) = {m \in C : Turn!Min(Turn!Cites(said, m)) <= Turn!Min(Turn!Cites(said, n))}
    OBVIOUS
  <2>3. \A n \in C : size(n) = Cardinality(upto(n))
    <3> HIDE DEF C, upto
    <3> QED BY <2>2, TurnCounts
  <2> HIDE DEF C, at, upto, N, size
  <2> QED BY <2>1, <2>3
<1>6. Turn!CitedSources(said, sources) = [k \in 1 .. N |-> <<"source", num[k], sources[num[k]]>>]
  <2> DEFINE nth(k) == CHOOSE m \in C : size(m) = k
  <2>1. Turn!CitedSources(said, sources) = [k \in 1 .. N |-> <<"source", nth(k), sources[nth(k)]>>]
    BY DEF Turn!CitedSources
  <2>2. \A k \in 1 .. N : num[k] = nth(k)
    OBVIOUS
  <2> HIDE DEF N, num, nth
  <2> QED BY <2>1, <2>2
<1> HIDE DEF C, at, size, N
<1>7. \A k \in 1 .. N : num[k] \in C /\ size(num[k]) = k
  BY <1>5
<1> HIDE DEF num
<1>8. \A n \in C : \E k \in 1 .. N : num[k] = n
  <2> SUFFICES ASSUME NEW n \in C PROVE \E k \in 1 .. N : num[k] = n
    OBVIOUS
  <2>1. size(n) \in 1 .. N
    BY <1>5
  <2>2. num[size(n)] \in C /\ size(num[size(n)]) = size(n)
    BY <1>7, <2>1
  <2>3. at[num[size(n)]] = at[n]
    BY <1>4, <1>5, <2>1, <2>2
  <2> QED BY <1>3, <2>1, <2>2, <2>3
<1>9. num \in Seq(DOMAIN sources) /\ Len(num) = N
  <2>1. num \in [1 .. N -> DOMAIN sources]
    BY <1>7 DEF num, C
  <2> QED BY <1>4, <2>1
<1>10. \A k, l \in 1 .. N : k < l =>
          \E p \in Turn!Cites(said, num[k]) : \A q \in Turn!Cites(said, num[l]) : p < q
  <2> SUFFICES ASSUME NEW k \in 1 .. N, NEW l \in 1 .. N, k < l
               PROVE  \E p \in Turn!Cites(said, num[k]) : \A q \in Turn!Cites(said, num[l]) : p < q
    OBVIOUS
  <2>1. num[k] \in C /\ num[l] \in C /\ at[num[k]] < at[num[l]]
    BY <1>5, <1>7
  <2>2. at[num[k]] \in Turn!Cites(said, num[k]) /\ \A q \in Turn!Cites(said, num[l]) : at[num[l]] <= q
    BY <1>1, <2>1
  <2>3. at[num[k]] \in Nat /\ at[num[l]] \in Nat /\ \A q \in Turn!Cites(said, num[l]) : q \in Nat
    BY <1>2, <1>4, <2>1
  <2> QED BY <2>1, <2>2, <2>3
<1>11. \A n : n \in C <=> n \in DOMAIN sources /\ Turn!Cites(said, n) # {}
  BY DEF C
<1>12. /\ \A k \in 1 .. N : Turn!Cites(said, num[k]) # {}
       /\ \A n \in DOMAIN sources : Turn!Cites(said, n) # {} => \E k \in 1 .. N : num[k] = n
  BY <1>7, <1>8, <1>11
<1>13. Turn!CitedSources(said, sources) = Sourced(num, sources)
  BY <1>6, <1>9 DEF Sourced
<1>14. InOrder(num, said, sources)
  BY <1>9, <1>10, <1>12 DEF InOrder
<1> QED BY <1>9, <1>13, <1>14

\* The sources are the last block's entries with a link, and of two with one number the later.
LEMMA SourcesListed ==
    ASSUME NEW context, Len(context) \in Nat, DOMAIN context = 1 .. Len(context),
           \A i \in Turn!Entries(context) : context[i].n \in Numbers
    PROVE  LET sources == Turn!ParseSources(context)
               listed == Turn!Listed(context) IN
           /\ \A n \in DOMAIN sources :
                 /\ sources[n] # None
                 /\ \E k \in listed :
                       /\ context[k].n = n /\ context[k].link = sources[n]
                       /\ \A l \in listed : l > k /\ context[l].n = n => context[l].link = None
           /\ \A k \in listed : context[k].link # None => context[k].n \in DOMAIN sources
<1> DEFINE starts == Turn!Tags("open", context)
           ends == {i \in Turn!Tags("shut", context) : i > Turn!Max(starts)}
           end == IF ends = {} THEN Len(context) + 1 ELSE Turn!Min(ends)
           block == IF starts = {} THEN {}
                    ELSE Turn!Entries(context) \intersect (Turn!Max(starts) .. end - 1)
           linked(n) == {i \in block : context[i].n = n /\ context[i].link # None}
           sources == Turn!ParseSources(context)
<1>1. sources = [n \in {m \in Numbers : linked(m) # {}} |-> context[Turn!Max(linked(n))].link]
  <2> DEFINE entry(n) == IF starts = {} THEN {}
                 ELSE {i \in Turn!Entries(context) \intersect (Turn!Max(starts) .. end - 1) :
                          context[i].n = n /\ context[i].link # None}
  <2>1. sources = [n \in {m \in Numbers : entry(m) # {}} |-> context[Turn!Max(entry(n))].link]
    BY DEF Turn!ParseSources
  <2>2. \A n : entry(n) = linked(n)
    <3> HIDE DEF starts, end
    <3> QED OBVIOUS
  <2> HIDE DEF starts, end, entry, linked, sources
  <2> QED BY <2>1, <2>2
<1>2. Turn!Listed(context) = block
  <2>1. starts \subseteq 1 .. Len(context) /\ Turn!Entries(context) \subseteq 1 .. Len(context)
        /\ Turn!Tags("shut", context) \subseteq 1 .. Len(context)
    BY DEF Turn!Tags, Turn!Entries
  <2>2. CASE starts = {}
    BY <2>2 DEF Turn!Listed
  <2>3. CASE starts # {}
    <3> DEFINE J == Turn!Max(starts)
    <3>1. J \in starts /\ J \in Nat /\ \A j \in starts : j \in Nat /\ j <= J
      <4>1. starts \in SUBSET (1 .. Len(context))
        BY <2>1
      <4>2. J \in starts /\ \A j \in starts : j <= J
        <5> HIDE DEF starts
        <5> QED BY <2>3, <4>1, LastIs
      <4> HIDE DEF starts, J
      <4> QED BY <4>1, <4>2
    <3>2. ends = {} \/ (end \in ends /\ \A l \in ends : end <= l)
      <4>1. ends \in SUBSET Nat
        BY <2>1
      <4> HIDE DEF ends
      <4> QED BY <4>1, FirstIs
    <3>3. end \in Nat /\ (end = Len(context) + 1 \/ end \in Turn!Tags("shut", context))
      BY <2>1, <3>2
    <3>4. \A k \in Turn!Entries(context) : k \notin starts /\ k \notin Turn!Tags("shut", context)
      BY DEF Turn!Entries, Turn!Tags
    <3>5. \A l \in Turn!Tags("shut", context) : l \in Nat /\ (l > J => l >= end)
      BY <2>1, <3>2
    <3>6. end <= Len(context) => end > J
      BY <2>1, <3>2
    <3> HIDE DEF J, ends, end, starts
    <3>7. ASSUME NEW k \in Turn!Entries(context)
          PROVE  k \in Turn!Listed(context) <=> k \in J .. end - 1
      <4>1. k \in Nat /\ k # J /\ k # end /\ k <= Len(context)
        BY <2>1, <3>1, <3>3, <3>4
      <4>2. k \in Turn!Listed(context) <=>
               /\ \A j \in starts : j < k
               /\ \E j \in starts : \A l \in Turn!Tags("shut", context) : ~(j < l /\ l < k)
        BY DEF Turn!Listed, starts
      <4>3. (\A j \in starts : j < k) <=> J < k
        BY <3>1, <4>1
      <4>4. (\E j \in starts : \A l \in Turn!Tags("shut", context) : ~(j < l /\ l < k))
             <=> \A l \in Turn!Tags("shut", context) : ~(J < l /\ l < k)
        BY <3>1, <3>5, <4>1
      <4>5. (\A l \in Turn!Tags("shut", context) : ~(J < l /\ l < k)) <=> k <= end
        BY <3>1, <3>3, <3>5, <3>6, <4>1
      <4> QED BY <3>1, <3>3, <4>1, <4>2, <4>3, <4>4, <4>5
    <3>8. Turn!Listed(context) \subseteq Turn!Entries(context)
      BY DEF Turn!Listed
    <3> QED BY <2>3, <3>7, <3>8 DEF J
  <2> HIDE DEF starts, ends, end, block
  <2> QED BY <2>2, <2>3
<1>3. block \subseteq Turn!Entries(context) /\ block \subseteq 1 .. Len(context)
  <2> HIDE DEF starts, end
  <2> QED BY DEF Turn!Entries
<1> HIDE DEF starts, ends, end, block, sources
<1>4. ASSUME NEW n \in DOMAIN sources
      PROVE  /\ sources[n] # None
             /\ \E k \in block :
                   /\ context[k].n = n /\ context[k].link = sources[n]
                   /\ \A l \in block : l > k /\ context[l].n = n => context[l].link = None
  <2> DEFINE k == Turn!Max(linked(n))
  <2>1. linked(n) # {} /\ sources[n] = context[k].link
    BY <1>1, <1>4
  <2>2. linked(n) \in SUBSET (1 .. Len(context))
    BY <1>3
  <2>3. k \in linked(n) /\ \A t \in linked(n) : t <= k
    <3> HIDE DEF linked
    <3> QED BY <2>1, <2>2, LastIs
  <2>4. \A l \in linked(n) : ~(l > k)
    <3>1. \A l \in linked(n) : l \in Nat
      BY <2>2
    <3> HIDE DEF linked, k
    <3> QED BY <2>3, <3>1
  <2> QED BY <2>1, <2>3, <2>4
<1>5. ASSUME NEW k \in block, context[k].link # None
      PROVE  context[k].n \in DOMAIN sources
  <2>1. k \in linked(context[k].n) /\ context[k].n \in Numbers
    BY <1>3, <1>5
  <2> QED BY <1>1, <2>1
<1> QED BY <1>2, <1>4, <1>5 DEF sources

\* What can be streamed of a text and its sources.
LEMMA TextAndSources ==
    ASSUME NEW said \in Seq(Turn!Pieces), NEW sources
    PROVE  \E Event :
             /\ {<<"text", piece>> : piece \in Turn!Pieces} \union {<<"finish">>, <<"error">>} \subseteq Event
             /\ [i \in DOMAIN said |-> <<"text", said[i]>>] \in Seq(Event)
             /\ Turn!CitedSources(said, sources) \in Seq(Event)
             /\ {<<>>, <<<<"finish">>>>, <<<<"error">>>>} \subseteq Seq(Event)
<1>1. PICK num \in Seq(DOMAIN sources) : Turn!CitedSources(said, sources) = Sourced(num, sources)
  BY SourcesCited
<1> DEFINE Texts == {<<"text", piece>> : piece \in Turn!Pieces}
           Cited == {<<"source", n, sources[n]>> : n \in DOMAIN sources}
           Event == Texts \union Cited \union {<<"finish">>, <<"error">>}
<1>2. [i \in DOMAIN said |-> <<"text", said[i]>>] \in Seq(Texts)
  <2>1. \A i \in DOMAIN said : said[i] \in Turn!Pieces
    OBVIOUS
  <2>2. DOMAIN said = 1 .. Len(said) /\ Len(said) \in Nat
    OBVIOUS
  <2>3. [i \in DOMAIN said |-> <<"text", said[i]>>] \in [1 .. Len(said) -> Texts]
    BY <2>1, <2>2
  <2> HIDE DEF Texts
  <2> QED BY <2>2, <2>3
<1>3. Turn!CitedSources(said, sources) \in Seq(Cited)
  <2>1. Len(num) \in Nat /\ \A k \in 1 .. Len(num) : num[k] \in DOMAIN sources
    OBVIOUS
  <2>2. Turn!CitedSources(said, sources) \in [1 .. Len(num) -> Cited]
    BY <1>1, <2>1 DEF Sourced
  <2> HIDE DEF Cited
  <2> QED BY <2>1, <2>2
<1>4. Seq(Texts) \subseteq Seq(Event) /\ Seq(Cited) \subseteq Seq(Event)
  <2>1. Texts \subseteq Event /\ Cited \subseteq Event
    OBVIOUS
  <2> HIDE DEF Texts, Cited, Event
  <2> QED BY <2>1
<1>5. {<<>>, <<<<"finish">>>>, <<<<"error">>>>} \subseteq Seq(Event)
  <2>1. <<"finish">> \in Event /\ <<"error">> \in Event
    OBVIOUS
  <2> HIDE DEF Event
  <2> QED BY <2>1
<1>6. Texts \union {<<"finish">>, <<"error">>} \subseteq Event
  OBVIOUS
<1> HIDE DEF Event, Cited
<1> QED BY <1>2, <1>3, <1>4, <1>5, <1>6

LEMMA TurnInitially ==
    ASSUME Turn!Listings, Turn!Init
    PROVE  Turn!TurnInv
<1>1. v3 = <<>> /\ v5 = <<>> /\ v3 \in Seq(Turn!Pieces) /\ v1.context \in Conversations
  BY DEF Turn!Init
<1>2. /\ v1.messages \in Seq({"user", "assistant"})
      /\ v2 \in {"401", "413", "422"} \/ (v2 = "running" /\ Turn!Alternates(v1.messages))
  <2>1. PICK context \in Conversations, token \in {TRUE, FALSE}, size \in {TRUE, FALSE},
             form \in {TRUE, FALSE},
             messages \in UNION {[1 .. k -> {"user", "assistant"}] : k \in 0 .. TurnMessages + 1} :
             v1 = [context |-> context, messages |-> messages] /\ v2 = Turn!Status(token, size, form, messages)
    BY DEF Turn!Init
  <2>2. v1.messages = messages
    BY <2>1
  <2>3. PICK k \in 0 .. TurnMessages + 1 : messages \in [1 .. k -> {"user", "assistant"}]
    OBVIOUS
  <2>4. k \in Nat
    BY DEF Turn!Listings
  <2>5. messages \in Seq({"user", "assistant"})
    BY <2>3, <2>4
  <2> QED BY <2>1, <2>2, <2>5 DEF Turn!Status
<1>3. Turn!Passed = <<>> /\ Turn!Closing = <<>>
  BY <1>1, <1>2 DEF Turn!Passed, Turn!Closing
<1>4. v5 = Turn!Passed \o Turn!Closing
  BY <1>1, <1>3
<1> QED BY <1>1, <1>2, <1>4 DEF Turn!TurnInv

\* What is streamed is the text, and at the end what the turn closes with.
LEMMA TurnStep ==
    ASSUME Turn!TurnInv, [Turn!Next]_(Turn!vars)
    PROVE  Turn!TurnInv'
<1> DEFINE sources == Turn!ParseSources(v1.context)
           cited == Turn!CitedSources(v3, sources)
<1>0. v3 \in Seq(Turn!Pieces) /\ v5 = Turn!Passed \o Turn!Closing
  BY DEF Turn!TurnInv
<1>1. PICK Event :
             /\ {<<"text", piece>> : piece \in Turn!Pieces} \union {<<"finish">>, <<"error">>} \subseteq Event
             /\ Turn!Passed \in Seq(Event) /\ cited \in Seq(Event)
             /\ {<<>>, <<<<"finish">>>>, <<<<"error">>>>} \subseteq Seq(Event)
  BY <1>0, TextAndSources DEF Turn!Passed
<1>2. v2 = "running" => v5 = Turn!Passed
  BY <1>0, <1>1, ConcatEmptySeq DEF Turn!Closing
<1>3. CASE Turn!Delta
  <2>1. PICK piece \in Turn!Pieces : v3' = Append(v3, piece) /\ v5' = Append(v5, <<"text", piece>>)
    BY <1>3 DEF Turn!Delta
  <2>2. v3' \in Seq(Turn!Pieces) /\ DOMAIN v3' = 1 .. Len(v3) + 1
        /\ \A i \in 1 .. Len(v3) + 1 : v3'[i] = IF i = Len(v3) + 1 THEN piece ELSE v3[i]
    BY <1>0, <2>1
  <2>3. Turn!Passed' = Append(Turn!Passed, <<"text", piece>>)
    <3>1. Turn!Passed' = [i \in 1 .. Len(v3) + 1 |-> <<"text", v3'[i]>>]
      BY <2>2 DEF Turn!Passed
    <3>2. Turn!Passed = [i \in 1 .. Len(v3) |-> <<"text", v3[i]>>]
      BY <1>0 DEF Turn!Passed
    <3>3. Len(Turn!Passed) = Len(v3) /\ Len(v3) \in Nat
      BY <1>0, <3>2
    <3>4. Append(Turn!Passed, <<"text", piece>>) =
            [i \in 1 .. Len(v3) + 1 |-> IF i = Len(v3) + 1 THEN <<"text", piece>> ELSE Turn!Passed[i]]
      BY <1>1, <3>3
    <3>5. \A i \in 1 .. Len(v3) + 1 : <<"text", v3'[i]>> =
            IF i = Len(v3) + 1 THEN <<"text", piece>> ELSE Turn!Passed[i]
      BY <2>2, <3>2, <3>3
    <3> QED BY <3>1, <3>4, <3>5
  <2>4. v2 = "running" /\ v2' = v2 /\ UNCHANGED v1
    BY <1>3 DEF Turn!Delta
  <2>5. Turn!Closing' = <<>> /\ Turn!Passed' \in Seq(Event)
    BY <1>1, <2>3, <2>4 DEF Turn!Closing
  <2>6. v5' = Turn!Passed' \o Turn!Closing'
    BY <1>2, <2>1, <2>3, <2>4, <2>5, ConcatEmptySeq
  <2> QED BY <2>2, <2>4, <2>6 DEF Turn!TurnInv, Turn!Alternates
<1>4. CASE Turn!Finish
  BY <1>4 DEF Turn!Finish, Turn!TurnInv, Turn!Passed, Turn!Closing, Turn!Alternates
<1>5. CASE Turn!Close
  <2>1. v2 = "running" /\ v2' = "ended" /\ UNCHANGED <<v1, v3>> /\ v5' = (v5 \o cited) \o <<<<"finish">>>>
    BY <1>5 DEF Turn!Close
  <2>2. Turn!Passed' = Turn!Passed
    BY <2>1 DEF Turn!Passed
  <2>3. Turn!Closing' = cited \o <<<<"finish">>>>
    BY <2>1 DEF Turn!Closing
  <2>4. (Turn!Passed \o cited) \o <<<<"finish">>>> = Turn!Passed \o (cited \o <<<<"finish">>>>)
    BY <1>1, ConcatAssociative
  <2>5. v5' = Turn!Passed' \o Turn!Closing'
    BY <1>2, <2>1, <2>2, <2>3, <2>4
  <2> QED BY <2>1, <2>5 DEF Turn!TurnInv, Turn!Alternates
<1>6. CASE Turn!Fail
  <2>1. v2 = "running" /\ v2' = "failed" /\ UNCHANGED <<v1, v3>> /\ v5' = Append(v5, <<"error">>)
    BY <1>6 DEF Turn!Fail
  <2>2. Turn!Passed' = Turn!Passed /\ Turn!Closing' = <<<<"error">>>>
    BY <2>1 DEF Turn!Passed, Turn!Closing
  <2>3. Append(Turn!Passed, <<"error">>) = Turn!Passed \o <<<<"error">>>>
    BY <1>1, AppendIsConcat
  <2> QED BY <1>2, <2>1, <2>2, <2>3 DEF Turn!TurnInv, Turn!Alternates
<1>7. CASE UNCHANGED Turn!vars
  BY <1>7 DEF Turn!vars, Turn!TurnInv, Turn!Passed, Turn!Closing, Turn!Alternates
<1> QED BY <1>3, <1>4, <1>5, <1>6, <1>7 DEF Turn!Next

\* Where the text cites a number.
LEMMA QuotesAre ==
    ASSUME v3 \in Seq(Turn!Pieces), NEW n
    PROVE  /\ \A i \in Turn!Quotes(n) : i \in Nat /\ i - 2 \in Turn!Cites(v3, n)
           /\ \A i \in Turn!Cites(v3, n) : i \in Nat /\ i + 2 \in Turn!Quotes(n)
<1>1. ASSUME NEW i \in 3 .. Len(v3)
      PROVE  SubSeq(v3, i - 2, i) = <<"[", n, "]">> <=> v3[i - 2] = "[" /\ v3[i - 1] = n /\ v3[i] = "]"
  <2>1. SubSeq(v3, i - 2, i) = [j \in 1 .. 3 |-> v3[i - 3 + j]]
    OBVIOUS
  <2> DEFINE w == SubSeq(v3, i - 2, i)
  <2>2. w[1] = v3[i - 2] /\ w[2] = v3[i - 1] /\ w[3] = v3[i]
    <3>1. i - 3 + 1 = i - 2 /\ i - 3 + 2 = i - 1 /\ i - 3 + 3 = i
      OBVIOUS
    <3>2. w[1] = v3[i - 3 + 1] /\ w[2] = v3[i - 3 + 2] /\ w[3] = v3[i - 3 + 3]
      <4> HIDE DEF w
      <4>1. w = [j \in 1 .. 3 |-> v3[i - 3 + j]]
        BY <2>1 DEF w
      <4>2. 1 \in 1 .. 3 /\ 2 \in 1 .. 3 /\ 3 \in 1 .. 3
        OBVIOUS
      <4> QED BY <4>1, <4>2, Zenon
    <3> HIDE DEF w
    <3> QED BY <3>1, <3>2
  <2>3. DOMAIN w = 1 .. 3 /\ w = [j \in 1 .. 3 |-> w[j]]
    BY <2>1
  <2> DEFINE t == <<"[", n, "]">>
  <2>4. t[1] = "[" /\ t[2] = n /\ t[3] = "]" /\ t = [j \in 1 .. 3 |-> t[j]]
    OBVIOUS
  <2>5. \A j \in 1 .. 3 : j = 1 \/ j = 2 \/ j = 3
    OBVIOUS
  <2> HIDE DEF w, t
  <2>6. w = t <=> w[1] = t[1] /\ w[2] = t[2] /\ w[3] = t[3]
    BY <2>3, <2>4, <2>5
  <2> QED BY <2>2, <2>4, <2>6 DEF w, t
<1>2. ASSUME NEW i \in Turn!Quotes(n) PROVE i \in Nat /\ i - 2 \in Turn!Cites(v3, n)
  <2>1. i \in 3 .. Len(v3) /\ SubSeq(v3, i - 2, i) = <<"[", n, "]">>
    BY <1>2 DEF Turn!Quotes
  <2> QED BY <1>1, <2>1 DEF Turn!Cites
<1>3. ASSUME NEW i \in Turn!Cites(v3, n) PROVE i \in Nat /\ i + 2 \in Turn!Quotes(n)
  <2>1. i \in 1 .. Len(v3) - 2 /\ v3[i] = "[" /\ v3[i + 1] = n /\ v3[i + 2] = "]"
    BY <1>3 DEF Turn!Cites
  <2>2. i + 2 \in 3 .. Len(v3) /\ i + 2 - 2 = i /\ i + 2 - 1 = i + 1
    BY <2>1
  <2>3. SubSeq(v3, i + 2 - 2, i + 2) = <<"[", n, "]">>
    BY <1>1, <2>1, <2>2
  <2> QED BY <2>1, <2>2, <2>3 DEF Turn!Quotes
<1> QED BY <1>2, <1>3

\* Members and agent speak in turn, the member first and last.
LEMMA SpokenInTurn ==
    ASSUME NEW m \in Seq({"user", "assistant"}), Turn!Alternates(m), TurnMessages \in Nat
    PROVE  m[1] = "user" /\ m[Len(m)] = "user" /\ \A i \in 2 .. Len(m) : m[i] # m[i - 1]
<1>1. Len(m) \in Nat /\ Len(m) >= 1 /\ Len(m) % 2 = 1 /\ DOMAIN m = 1 .. Len(m)
  BY DEF Turn!Alternates
<1>2. \A i \in 1 .. Len(m) : m[i] = IF i % 2 = 1 THEN "user" ELSE "assistant"
  BY <1>1 DEF Turn!Alternates
<1>3. \A i \in 2 .. Len(m) : i - 1 \in 1 .. Len(m) /\ i \in 1 .. Len(m) /\ (i % 2 = 1 <=> (i - 1) % 2 # 1)
  BY <1>1
<1> QED BY <1>1, <1>2, <1>3

\* A sequence after another, place by place.
LEMMA Joined ==
    ASSUME NEW T, NEW s \in Seq(T), NEW t \in Seq(T)
    PROVE  /\ s \o t \in Seq(T) /\ Len(s \o t) = Len(s) + Len(t) /\ DOMAIN (s \o t) = 1 .. Len(s) + Len(t)
           /\ \A i \in 1 .. Len(s) : (s \o t)[i] = s[i]
           /\ \A k \in 1 .. Len(t) : (s \o t)[Len(s) + k] = t[k]
BY ConcatProperties

\* An answer that ended: the text, the sources cited and the finish, place by place.
Ended(said, sources) ==
    [i \in DOMAIN said |-> <<"text", said[i]>>]
        \o (Turn!CitedSources(said, sources) \o <<<<"finish">>>>)

LEMMA EndedIs ==
    ASSUME NEW said \in Seq(Turn!Pieces), NEW sources, NEW num \in Seq(DOMAIN sources),
           Turn!CitedSources(said, sources) = Sourced(num, sources)
    PROVE  LET answer == Ended(said, sources)
               L == Len(said)
               N == Len(num) IN
           /\ DOMAIN answer = 1 .. L + N + 1 /\ Len(answer) = L + N + 1
           /\ \A i \in 1 .. L : answer[i][1] = "text" /\ answer[i][2] = said[i]
           /\ \A k \in 1 .. N : /\ answer[L + k][1] = "source" /\ answer[L + k][2] = num[k]
                                /\ answer[L + k][3] = sources[num[k]]
           /\ answer[L + N + 1][1] = "finish"
<1> DEFINE passed == [i \in DOMAIN said |-> <<"text", said[i]>>]
           cited == Turn!CitedSources(said, sources)
           closing == cited \o <<<<"finish">>>>
           answer == passed \o closing
<1>1. PICK Event :
             /\ {<<"text", piece>> : piece \in Turn!Pieces} \union {<<"finish">>, <<"error">>} \subseteq Event
             /\ passed \in Seq(Event) /\ cited \in Seq(Event)
             /\ {<<>>, <<<<"finish">>>>, <<<<"error">>>>} \subseteq Seq(Event)
  BY TextAndSources
<1>2. /\ Len(passed) = Len(said) /\ Len(said) \in Nat
      /\ \A i \in 1 .. Len(said) : passed[i][1] = "text" /\ passed[i][2] = said[i]
  OBVIOUS
<1>3. /\ Len(cited) = Len(num) /\ Len(num) \in Nat
      /\ \A k \in 1 .. Len(num) :
            cited[k][1] = "source" /\ cited[k][2] = num[k] /\ cited[k][3] = sources[num[k]]
  BY DEF Sourced
<1>4. <<<<"finish">>>> \in Seq(Event) /\ Len(<<<<"finish">>>>) = 1 /\ <<<<"finish">>>>[1] = <<"finish">>
  BY <1>1
<1> HIDE DEF passed, cited
<1>5. closing \in Seq(Event) /\ Len(closing) = Len(num) + 1
      /\ \A k \in 1 .. Len(num) : closing[k] = cited[k]
  BY <1>1, <1>3, <1>4, Joined
<1>6. closing[Len(num) + 1] = <<"finish">>
  <2>1. closing[Len(cited) + 1] = <<<<"finish">>>>[1]
    BY <1>1, <1>4, Joined
  <2> QED BY <1>3, <1>4, <2>1
<1> HIDE DEF closing
<1>7. /\ Len(answer) = Len(said) + (Len(num) + 1) /\ DOMAIN answer = 1 .. Len(said) + (Len(num) + 1)
      /\ \A i \in 1 .. Len(said) : answer[i] = passed[i]
      /\ \A k \in 1 .. Len(num) + 1 : answer[Len(said) + k] = closing[k]
  <2>1. passed \in Seq(Event) /\ closing \in Seq(Event)
    BY <1>1, <1>5
  <2>2. /\ Len(answer) = Len(passed) + Len(closing) /\ DOMAIN answer = 1 .. Len(passed) + Len(closing)
        /\ \A i \in 1 .. Len(passed) : answer[i] = passed[i]
        /\ \A k \in 1 .. Len(closing) : answer[Len(passed) + k] = closing[k]
    BY <2>1, Joined
  <2> HIDE DEF answer
  <2>3. Len(passed) = Len(said) /\ Len(closing) = Len(num) + 1
    BY <1>2, <1>5
  <2> QED BY <2>2, <2>3
<1>8. \A k \in 1 .. Len(num) :
         /\ answer[Len(said) + k][1] = "source" /\ answer[Len(said) + k][2] = num[k]
         /\ answer[Len(said) + k][3] = sources[num[k]]
  <2>1. \A k \in 1 .. Len(num) : k \in 1 .. Len(num) + 1
    BY <1>3
  <2> QED BY <1>3, <1>5, <1>7, <2>1
<1>9. answer[Len(said) + (Len(num) + 1)][1] = "finish"
  <2>1. Len(num) + 1 \in 1 .. Len(num) + 1
    BY <1>3
  <2> QED BY <1>6, <1>7, <2>1
<1>10. Len(said) + (Len(num) + 1) = Len(said) + Len(num) + 1
  BY <1>2, <1>3
<1>11. Ended(said, sources) = answer
  BY DEF answer, passed, closing, cited, Ended
<1> HIDE DEF answer
<1> QED BY <1>2, <1>7, <1>8, <1>9, <1>10, <1>11

\* What is of a kind in an answer of a text, sources and a finish.
Of(kind, streamed) == {i \in DOMAIN streamed : streamed[i][1] = kind}

LEMMA PartsOf ==
    ASSUME NEW L \in Nat, NEW N \in Nat, NEW w, DOMAIN w = 1 .. L + N + 1,
           \A i \in 1 .. L : w[i][1] = "text", \A k \in 1 .. N : w[L + k][1] = "source",
           w[L + N + 1][1] = "finish"
    PROVE  /\ Of("text", w) = 1 .. L /\ Of("finish", w) = {L + N + 1}
           /\ \A i \in Of("source", w) : \E k \in 1 .. N : i = L + k
           /\ \A k \in 1 .. N : L + k \in Of("source", w)
<1>1. ASSUME NEW i \in DOMAIN w
      PROVE  i \in 1 .. L \/ i = L + N + 1 \/ \E k \in 1 .. N : i = L + k
  <2>1. i \in Nat /\ 1 <= i /\ i <= L + N + 1
    OBVIOUS
  <2>2. CASE i > L /\ i # L + N + 1
    <3>1. i - L \in 1 .. N /\ i = L + (i - L)
      BY <2>1, <2>2
    <3> QED BY <3>1
  <2> QED BY <2>1, <2>2
<1>2. 1 .. L \subseteq DOMAIN w /\ L + N + 1 \in DOMAIN w /\ \A k \in 1 .. N : L + k \in DOMAIN w
  OBVIOUS
<1>3. \A i \in DOMAIN w : w[i][1] = "text" <=> i \in 1 .. L
  BY <1>1
<1>4. \A i \in DOMAIN w : w[i][1] = "finish" <=> i = L + N + 1
  BY <1>1
<1>5. \A i \in DOMAIN w : w[i][1] = "source" => \E k \in 1 .. N : i = L + k
  BY <1>1
<1> QED BY <1>2, <1>3, <1>4, <1>5 DEF Of

\* The parts of an answer that ended, and where they stand.
LEMMA EndedParts ==
    ASSUME NEW said \in Seq(Turn!Pieces), NEW sources, NEW num \in Seq(DOMAIN sources),
           Turn!CitedSources(said, sources) = Sourced(num, sources)
    PROVE  LET answer == Ended(said, sources)
               L == Len(said)
               N == Len(num) IN
           /\ Of("text", answer) = 1 .. L /\ \A i \in 1 .. L : answer[i][2] = said[i]
           /\ Of("finish", answer) = {Len(answer)}
           /\ \A i \in Of("source", answer) : \E k \in 1 .. N :
                 i = L + k /\ answer[i][2] = num[k] /\ answer[i][3] = sources[num[k]]
           /\ \A k \in 1 .. N : L + k \in Of("source", answer) /\ answer[L + k][2] = num[k]
<1> DEFINE answer == Ended(said, sources)
           L == Len(said)
           N == Len(num)
<1>1. L \in Nat /\ DOMAIN said = 1 .. L /\ N \in Nat
  OBVIOUS
<1>2. /\ DOMAIN answer = 1 .. L + N + 1 /\ Len(answer) = L + N + 1
      /\ \A i \in 1 .. L : answer[i][1] = "text" /\ answer[i][2] = said[i]
      /\ \A k \in 1 .. N : /\ answer[L + k][1] = "source" /\ answer[L + k][2] = num[k]
                           /\ answer[L + k][3] = sources[num[k]]
      /\ answer[L + N + 1][1] = "finish"
  BY EndedIs
<1> HIDE DEF L, N, answer
<1>3. /\ Of("text", answer) = 1 .. L /\ Of("finish", answer) = {L + N + 1}
      /\ \A i \in Of("source", answer) : \E k \in 1 .. N : i = L + k
      /\ \A k \in 1 .. N : L + k \in Of("source", answer)
  <2>1. \A i \in 1 .. L : answer[i][1] = "text"
    BY <1>2
  <2>2. \A k \in 1 .. N : answer[L + k][1] = "source"
    BY <1>2
  <2>3. DOMAIN answer = 1 .. L + N + 1 /\ answer[L + N + 1][1] = "finish"
    BY <1>2
  <2> QED BY <1>1, <2>1, <2>2, <2>3, PartsOf
<1>4. \A i \in Of("source", answer) : \E k \in 1 .. N :
         i = L + k /\ answer[i][2] = num[k] /\ answer[i][3] = sources[num[k]]
  <2> SUFFICES ASSUME NEW i \in Of("source", answer)
               PROVE  \E k \in 1 .. N :
                         i = L + k /\ answer[i][2] = num[k] /\ answer[i][3] = sources[num[k]]
    OBVIOUS
  <2>1. PICK k \in 1 .. N : i = L + k
    BY <1>3
  <2>2. answer[L + k][2] = num[k] /\ answer[L + k][3] = sources[num[k]]
    BY <1>2
  <2> QED BY <2>1, <2>2
<1> QED BY <1>1, <1>2, <1>3, <1>4 DEF L, N, answer

\* The text cites a number where it quotes it, two pieces on.
LEMMA QuotedInOrder ==
    ASSUME NEW sources, NEW num \in Seq(DOMAIN sources), v3 \in Seq(Turn!Pieces),
           InOrder(num, v3, sources)
    PROVE  /\ \A k \in 1 .. Len(num) : Turn!Quotes(num[k]) # {}
           /\ \A k, l \in 1 .. Len(num) : k < l =>
                 \E p \in Turn!Quotes(num[k]) : \A q \in Turn!Quotes(num[l]) : p < q
           /\ \A n \in DOMAIN sources :
                 Turn!Quotes(n) # {} => \E k \in 1 .. Len(num) : num[k] = n
<1>1. \A n : /\ \A i \in Turn!Quotes(n) : i \in Nat /\ i - 2 \in Turn!Cites(v3, n)
            /\ \A i \in Turn!Cites(v3, n) : i \in Nat /\ i + 2 \in Turn!Quotes(n)
  BY QuotesAre
<1>2. \A k \in 1 .. Len(num) : Turn!Cites(v3, num[k]) # {}
  BY DEF InOrder
<1>3. ASSUME NEW k \in 1 .. Len(num), NEW l \in 1 .. Len(num), k < l
      PROVE  \E p \in Turn!Quotes(num[k]) : \A q \in Turn!Quotes(num[l]) : p < q
  <2>1. PICK p \in Turn!Cites(v3, num[k]) : \A q \in Turn!Cites(v3, num[l]) : p < q
    BY <1>3 DEF InOrder
  <2>2. p \in Nat /\ p + 2 \in Turn!Quotes(num[k])
    BY <1>1
  <2>3. ASSUME NEW q \in Turn!Quotes(num[l]) PROVE p + 2 < q
    <3>1. q \in Nat /\ q - 2 \in Turn!Cites(v3, num[l])
      BY <1>1
    <3> QED BY <2>1, <2>2, <3>1
  <2> QED BY <2>2, <2>3
<1>4. ASSUME NEW n \in DOMAIN sources, Turn!Quotes(n) # {}
      PROVE  \E k \in 1 .. Len(num) : num[k] = n
  <2>1. Turn!Cites(v3, n) # {}
    BY <1>1, <1>4
  <2> QED BY <2>1 DEF InOrder
<1> QED BY <1>1, <1>2, <1>3, <1>4

\* What an answer that ended lists, against what the context lists.
LEMMA EndedAnswers ==
    ASSUME NEW line, Len(line) \in Nat, DOMAIN line = 1 .. Len(line),
           \A i \in Turn!Entries(line) : line[i].n \in Numbers,
           v3 \in Seq(Turn!Pieces),
           v5 = Ended(v3, Turn!ParseSources(line))
    PROVE  LET listed == Turn!Listed(line) IN
           /\ Of("text", v5) = DOMAIN v3 /\ \A i \in DOMAIN v3 : v5[i][2] = v3[i]
           /\ \A i \in Of("source", v5) :
                 /\ v5[i][3] # None /\ Turn!Quotes(v5[i][2]) # {}
                 /\ \E k \in listed :
                       /\ line[k].n = v5[i][2] /\ line[k].link = v5[i][3]
                       /\ \A l \in listed : l > k /\ line[l].n = line[k].n => line[l].link = None
           /\ \A i, j \in Of("source", v5) :
                 i < j => \E p \in Turn!Quotes(v5[i][2]) : \A q \in Turn!Quotes(v5[j][2]) : p < q
           /\ Of("finish", v5) = {Len(v5)}
           /\ \A k \in listed : line[k].link # None /\ Turn!Quotes(line[k].n) # {} =>
                 \E i \in Of("source", v5) : v5[i][2] = line[k].n
<1> DEFINE sources == Turn!ParseSources(line)
           listed == Turn!Listed(line)
<1>1. PICK num \in Seq(DOMAIN sources) :
         Turn!CitedSources(v3, sources) = Sourced(num, sources) /\ InOrder(num, v3, sources)
  BY SourcesCited
<1>2. /\ Of("text", v5) = DOMAIN v3 /\ \A i \in DOMAIN v3 : v5[i][2] = v3[i]
      /\ Of("finish", v5) = {Len(v5)}
      /\ \A i \in Of("source", v5) : \E k \in 1 .. Len(num) :
            i = Len(v3) + k /\ v5[i][2] = num[k] /\ v5[i][3] = sources[num[k]]
      /\ \A k \in 1 .. Len(num) : Len(v3) + k \in Of("source", v5) /\ v5[Len(v3) + k][2] = num[k]
  <2> DEFINE answer == Ended(v3, sources)
             L == Len(v3)
             N == Len(num)
  <2>1. DOMAIN v3 = 1 .. L /\ v5 = answer
    OBVIOUS
  <2>2. Turn!CitedSources(v3, sources) = Sourced(num, sources)
    BY <1>1
  <2> HIDE DEF sources
  <2>3. /\ Of("text", answer) = 1 .. L /\ \A i \in 1 .. L : answer[i][2] = v3[i]
        /\ Of("finish", answer) = {Len(answer)}
        /\ \A i \in Of("source", answer) : \E k \in 1 .. N :
              i = L + k /\ answer[i][2] = num[k] /\ answer[i][3] = sources[num[k]]
        /\ \A k \in 1 .. N : L + k \in Of("source", answer) /\ answer[L + k][2] = num[k]
    BY <2>2, EndedParts
  <2> HIDE DEF answer, L, N
  <2>4. /\ Of("text", v5) = 1 .. L /\ \A i \in 1 .. L : v5[i][2] = v3[i]
        /\ Of("finish", v5) = {Len(v5)}
        /\ \A i \in Of("source", v5) : \E k \in 1 .. N :
              i = L + k /\ v5[i][2] = num[k] /\ v5[i][3] = sources[num[k]]
        /\ \A k \in 1 .. N : L + k \in Of("source", v5) /\ v5[L + k][2] = num[k]
    BY <2>1, <2>3
  <2> QED BY <2>1, <2>4 DEF L, N
<1>3. /\ \A k \in 1 .. Len(num) : Turn!Quotes(num[k]) # {}
      /\ \A k, l \in 1 .. Len(num) : k < l =>
            \E p \in Turn!Quotes(num[k]) : \A q \in Turn!Quotes(num[l]) : p < q
      /\ \A n \in DOMAIN sources : Turn!Quotes(n) # {} => \E k \in 1 .. Len(num) : num[k] = n
  BY <1>1, QuotedInOrder
<1>4. /\ \A n \in DOMAIN sources :
            /\ sources[n] # None
            /\ \E k \in listed :
                  /\ line[k].n = n /\ line[k].link = sources[n]
                  /\ \A l \in listed : l > k /\ line[l].n = n => line[l].link = None
      /\ \A k \in listed : line[k].link # None => line[k].n \in DOMAIN sources
  BY SourcesListed
<1>5. \A k \in 1 .. Len(num) : num[k] \in DOMAIN sources /\ k \in Nat
  BY <1>1
<1>6. Len(v3) \in Nat
  OBVIOUS
<1> HIDE DEF sources, listed
<1>7. ASSUME NEW i \in Of("source", v5)
      PROVE  /\ v5[i][3] # None /\ Turn!Quotes(v5[i][2]) # {}
             /\ \E k \in listed :
                   /\ line[k].n = v5[i][2] /\ line[k].link = v5[i][3]
                   /\ \A l \in listed : l > k /\ line[l].n = line[k].n => line[l].link = None
  <2>1. PICK k \in 1 .. Len(num) :
           i = Len(v3) + k /\ v5[i][2] = num[k] /\ v5[i][3] = sources[num[k]]
    BY <1>2
  <2>2. num[k] \in DOMAIN sources
    BY <1>5
  <2>3. Turn!Quotes(num[k]) # {} /\ sources[num[k]] # None
    BY <1>3, <1>4, <2>2
  <2>4. \E e \in listed :
           /\ line[e].n = num[k] /\ line[e].link = sources[num[k]]
           /\ \A l \in listed : l > e /\ line[l].n = num[k] => line[l].link = None
    BY <1>4, <2>2
  <2>5. v5[i][2] = num[k] /\ v5[i][3] = sources[num[k]]
    BY <2>1
  <2>6. v5[i][3] # None /\ Turn!Quotes(v5[i][2]) # {}
    BY <2>3, <2>5
  <2>7. PICK e \in listed :
           /\ line[e].n = num[k] /\ line[e].link = sources[num[k]]
           /\ \A l \in listed : l > e /\ line[l].n = num[k] => line[l].link = None
    BY <2>4
  <2>8. /\ line[e].n = v5[i][2] /\ line[e].link = v5[i][3]
        /\ \A l \in listed : l > e /\ line[l].n = line[e].n => line[l].link = None
    BY <2>5, <2>7
  <2> QED BY <2>6, <2>8
<1>8. ASSUME NEW i \in Of("source", v5), NEW j \in Of("source", v5), i < j
      PROVE  \E p \in Turn!Quotes(v5[i][2]) : \A q \in Turn!Quotes(v5[j][2]) : p < q
  <2>1. PICK k \in 1 .. Len(num) : i = Len(v3) + k /\ v5[i][2] = num[k]
    BY <1>2
  <2>2. PICK l \in 1 .. Len(num) : j = Len(v3) + l /\ v5[j][2] = num[l]
    BY <1>2
  <2>3. k < l
    BY <1>5, <1>6, <1>8, <2>1, <2>2
  <2>4. \E p \in Turn!Quotes(num[k]) : \A q \in Turn!Quotes(num[l]) : p < q
    BY <1>3, <2>3
  <2>5. v5[i][2] = num[k] /\ v5[j][2] = num[l]
    BY <2>1, <2>2
  <2> QED BY <2>4, <2>5
<1>9. ASSUME NEW k \in listed, line[k].link # None, Turn!Quotes(line[k].n) # {}
      PROVE  \E i \in Of("source", v5) : v5[i][2] = line[k].n
  <2>1. line[k].n \in DOMAIN sources
    BY <1>4, <1>9
  <2>2. PICK l \in 1 .. Len(num) : num[l] = line[k].n
    BY <1>3, <1>9, <2>1
  <2>3. Len(v3) + l \in Of("source", v5) /\ v5[Len(v3) + l][2] = num[l]
    BY <1>2
  <2> QED BY <2>2, <2>3
<1> QED BY <1>2, <1>7, <1>8, <1>9 DEF listed

\* An answer that goes on is its text, and one that failed is that and an error.
Unended(said, closing) == [i \in DOMAIN said |-> <<"text", said[i]>>] \o closing

LEMMA PartsOfFailed ==
    ASSUME NEW L \in Nat, NEW w, DOMAIN w = 1 .. L + 1,
           \A i \in 1 .. L : w[i][1] = "text", w[L + 1][1] = "error"
    PROVE  /\ Of("text", w) = 1 .. L /\ Of("error", w) = {L + 1}
           /\ Of("source", w) = {} /\ Of("finish", w) = {}
<1>1. \A i \in 1 .. L + 1 : i \in 1 .. L \/ i = L + 1
  OBVIOUS
<1>2. 1 .. L \subseteq 1 .. L + 1 /\ L + 1 \in 1 .. L + 1 /\ L + 1 \notin 1 .. L
  OBVIOUS
<1>3. \A i \in DOMAIN w : /\ w[i][1] = "text" <=> i \in 1 .. L
                          /\ w[i][1] = "error" <=> i = L + 1
                          /\ w[i][1] \in {"text", "error"}
  BY <1>1, <1>2
<1> QED BY <1>2, <1>3 DEF Of

LEMMA UnendedParts ==
    ASSUME NEW said \in Seq(Turn!Pieces), NEW closing \in {<<>>, <<<<"error">>>>}
    PROVE  LET answer == Unended(said, closing) IN
           /\ Of("text", answer) = DOMAIN said /\ \A i \in DOMAIN said : answer[i][2] = said[i]
           /\ Of("source", answer) = {} /\ Of("finish", answer) = {}
           /\ closing = <<<<"error">>>> => Of("error", answer) = {Len(answer)}
<1> DEFINE L == Len(said)
           passed == [i \in DOMAIN said |-> <<"text", said[i]>>]
           answer == passed \o closing
<1>1. PICK Event : passed \in Seq(Event) /\ {<<>>, <<<<"error">>>>} \subseteq Seq(Event)
  BY TextAndSources
<1>2. /\ L \in Nat /\ DOMAIN said = 1 .. L /\ Len(passed) = L
      /\ \A i \in 1 .. L : passed[i][1] = "text" /\ passed[i][2] = said[i]
  OBVIOUS
<1> HIDE DEF passed
<1>3. /\ Len(answer) = Len(passed) + Len(closing)
      /\ DOMAIN answer = 1 .. Len(passed) + Len(closing)
      /\ \A i \in 1 .. Len(passed) : answer[i] = passed[i]
      /\ \A k \in 1 .. Len(closing) : answer[Len(passed) + k] = closing[k]
  <2>1. closing \in Seq(Event)
    BY <1>1
  <2> QED BY <1>1, <2>1, Joined
<1> HIDE DEF L, answer
<1>4. /\ Len(answer) = L + Len(closing) /\ DOMAIN answer = 1 .. L + Len(closing)
      /\ \A i \in 1 .. L : answer[i][1] = "text" /\ answer[i][2] = said[i]
      /\ \A k \in 1 .. Len(closing) : answer[L + k] = closing[k]
  BY <1>2, <1>3
<1>5. CASE closing = <<>>
  <2>1. DOMAIN answer = 1 .. L
    BY <1>2, <1>4, <1>5
  <2>2. \A i \in DOMAIN answer : answer[i][1] = "text"
    BY <1>4, <2>1
  <2>3. /\ Of("text", answer) = DOMAIN answer
        /\ Of("source", answer) = {} /\ Of("finish", answer) = {}
    BY <2>2 DEF Of
  <2>4. <<>> # <<<<"error">>>>
    OBVIOUS
  <2>5. \A i \in 1 .. L : answer[i][2] = said[i]
    BY <1>4
  <2> QED BY <1>2, <1>5, <2>1, <2>3, <2>4, <2>5 DEF Unended, answer, passed
<1>6. CASE closing = <<<<"error">>>>
  <2>1. DOMAIN answer = 1 .. L + 1 /\ Len(answer) = L + 1 /\ answer[L + 1][1] = "error"
    BY <1>2, <1>4, <1>6
  <2>2. \A i \in 1 .. L : answer[i][1] = "text"
    BY <1>4
  <2>3. /\ Of("text", answer) = 1 .. L /\ Of("error", answer) = {L + 1}
        /\ Of("source", answer) = {} /\ Of("finish", answer) = {}
    BY <1>2, <2>1, <2>2, PartsOfFailed
  <2>4. \A i \in 1 .. L : answer[i][2] = said[i]
    BY <1>4
  <2> QED BY <1>2, <2>1, <2>3, <2>4 DEF Unended, answer, passed
<1> QED BY <1>5, <1>6

LEMMA AnswersHold ==
    ASSUME Turn!Listings, Turn!TurnInv
    PROVE  Turn!AnswersAreSourced
<1> DEFINE line == v1.context
           m == v1.messages
<1>1. /\ v3 \in Seq(Turn!Pieces) /\ v5 = Turn!Passed \o Turn!Closing
      /\ line \in Conversations /\ m \in Seq({"user", "assistant"})
      /\ \/ v2 \in {"running", "ended", "failed"} /\ Turn!Alternates(m)
         \/ v2 \in {"401", "413", "422"} /\ v3 = <<>>
  BY DEF Turn!TurnInv
<1>2. /\ TurnMessages \in Nat /\ Len(line) \in Nat /\ DOMAIN line = 1 .. Len(line)
      /\ \A i \in Turn!Entries(line) : line[i].n \in Numbers
  BY <1>1 DEF Turn!Listings
<1>3. v5 # <<>> => m[1] = "user" /\ m[Len(m)] = "user" /\ \A i \in 2 .. Len(m) : m[i] # m[i - 1]
  <2>1. CASE v2 \in {"running", "ended", "failed"} /\ Turn!Alternates(m)
    <3> HIDE DEF m
    <3> QED BY <1>1, <1>2, <2>1, SpokenInTurn
  <2>2. CASE v2 \in {"401", "413", "422"} /\ v3 = <<>>
    <3>1. Turn!Closing = <<>> /\ Turn!Passed = <<>>
      BY <2>2 DEF Turn!Closing, Turn!Passed
    <3> QED BY <1>1, <3>1
  <2> QED BY <1>1, <2>1, <2>2
<1>4. CASE v2 = "ended"
  <2>1. Turn!Closing = Turn!CitedSources(v3, Turn!ParseSources(line)) \o <<<<"finish">>>>
    BY <1>4 DEF Turn!Closing
  <2>2. v5 = Ended(v3, Turn!ParseSources(line))
    BY <1>1, <2>1 DEF Ended, Turn!Passed
  <2> DEFINE listed == Turn!Listed(line)
  <2>3. /\ Of("text", v5) = DOMAIN v3 /\ \A i \in DOMAIN v3 : v5[i][2] = v3[i]
        /\ \A i \in Of("source", v5) :
              /\ v5[i][3] # None /\ Turn!Quotes(v5[i][2]) # {}
              /\ \E k \in listed :
                    /\ line[k].n = v5[i][2] /\ line[k].link = v5[i][3]
                    /\ \A l \in listed : l > k /\ line[l].n = line[k].n => line[l].link = None
        /\ \A i, j \in Of("source", v5) :
              i < j => \E p \in Turn!Quotes(v5[i][2]) : \A q \in Turn!Quotes(v5[j][2]) : p < q
        /\ Of("finish", v5) = {Len(v5)}
        /\ \A k \in listed : line[k].link # None /\ Turn!Quotes(line[k].n) # {} =>
              \E i \in Of("source", v5) : v5[i][2] = line[k].n
    BY <1>1, <1>2, <2>2, EndedAnswers
  <2>4. v2 # "failed"
    BY <1>4
  <2> QED BY <1>3, <2>3, <2>4 DEF Turn!AnswersAreSourced, Of
<1>5. CASE v2 # "ended"
  <2>1. Turn!Closing = IF v2 = "failed" THEN <<<<"error">>>> ELSE <<>>
    BY <1>5 DEF Turn!Closing
  <2>2. /\ Of("text", v5) = DOMAIN v3 /\ \A i \in DOMAIN v3 : v5[i][2] = v3[i]
        /\ Of("source", v5) = {} /\ Of("finish", v5) = {}
        /\ Turn!Closing = <<<<"error">>>> => Of("error", v5) = {Len(v5)}
    <3>1. v5 = Unended(v3, Turn!Closing) /\ Turn!Closing \in {<<>>, <<<<"error">>>>}
      BY <1>1, <2>1 DEF Unended, Turn!Passed
    <3> QED BY <1>1, <3>1, UnendedParts
  <2> QED BY <1>3, <1>5, <2>1, <2>2 DEF Turn!AnswersAreSourced, Of
<1> QED BY <1>4, <1>5

-----------------------------------------------------------------------------
Unused == 0

Free13 == v13 = Unused
Free12 == v12 = Unused /\ Free13
Free11 == v11 = Unused /\ Free12
Free10 == v10 = Unused /\ Free11
Free9 == v9 = Unused /\ Free10
Free8 == v8 = Unused /\ Free9
Free7 == v7 = Unused /\ Free8
Free6 == v6 = Unused /\ Free7
Free5 == v5 = Unused /\ Free6
Free4 == v4 = Unused /\ Free5

ProvedInit ==
    \/ part = "seeds" /\ Seeds!Init /\ Free8
    \/ part = "sample" /\ Sample!Init /\ Free9
    \/ part = "loads" /\ Loads!Init /\ Free11
    \/ part = "kickoffs" /\ Kickoffs!Init /\ Free10
    \/ part = "marks" /\ Marks!Init /\ Free11
    \/ part = "push" /\ Push!Init /\ Free5
    \/ part = "sessions" /\ Sessions!Init /\ Free7
    \/ part = "grid" /\ Grid!Init /\ Free7
    \/ part = "cards" /\ Cards!Init /\ Free8
    \/ part = "desk" /\ Desk!Init /\ Free9
    \/ part = "fulltime" /\ FullTime!Init /\ Free10
    \/ part = "results" /\ Results!Init /\ Free4
    \/ part = "dutymarks" /\ Counted!Init /\ Free6
    \/ part = "form" /\ Form!Init /\ Free8
    \/ part = "league" /\ NewLeague!Init /\ Free10
    \/ part = "duties" /\ Dialogs!Init
    \/ part = "manage" /\ Manage!Init /\ Free13
    \/ part = "profile" /\ Profile!Init
    \/ part = "members" /\ Sheet!Init /\ Free12
    \/ part = "panel" /\ Panel!Init /\ Free10
    \/ part = "turn" /\ Turn!Init /\ Free6

ProvedNext ==
    /\ UNCHANGED part
    /\ \/ part = "seeds" /\ Seeds!Next /\ UNCHANGED <<v8, v9, v10, v11, v12, v13>>
       \/ part = "sample" /\ Sample!Next /\ UNCHANGED <<v9, v10, v11, v12, v13>>
       \/ part = "loads" /\ Loads!Next /\ UNCHANGED <<v11, v12, v13>>
       \/ part = "kickoffs" /\ Kickoffs!Next /\ UNCHANGED <<v10, v11, v12, v13>>
       \/ part = "marks" /\ Marks!Next /\ UNCHANGED <<v11, v12, v13>>
       \/ part = "push" /\ Push!Next /\ UNCHANGED <<v5, v6, v7, v8, v9, v10, v11, v12, v13>>
       \/ part = "sessions" /\ Sessions!Next /\ UNCHANGED <<v7, v8, v9, v10, v11, v12, v13>>
       \/ part = "grid" /\ Grid!Next /\ UNCHANGED <<v7, v8, v9, v10, v11, v12, v13>>
       \/ part = "cards" /\ Cards!Next /\ UNCHANGED <<v8, v9, v10, v11, v12, v13>>
       \/ part = "desk" /\ Desk!Next /\ UNCHANGED <<v9, v10, v11, v12, v13>>
       \/ part = "fulltime" /\ FullTime!Next /\ UNCHANGED <<v10, v11, v12, v13>>
       \/ part = "results" /\ Results!Next
             /\ UNCHANGED <<v4, v5, v6, v7, v8, v9, v10, v11, v12, v13>>
       \/ part = "dutymarks" /\ Counted!Next /\ UNCHANGED <<v6, v7, v8, v9, v10, v11, v12, v13>>
       \/ part = "form" /\ Form!Next /\ UNCHANGED <<v8, v9, v10, v11, v12, v13>>
       \/ part = "league" /\ NewLeague!Next /\ UNCHANGED <<v10, v11, v12, v13>>
       \/ part = "duties" /\ Dialogs!Next
       \/ part = "manage" /\ Manage!Next /\ UNCHANGED v13
       \/ part = "profile" /\ Profile!Next
       \/ part = "members" /\ Sheet!Next /\ UNCHANGED <<v12, v13>>
       \/ part = "panel" /\ Panel!Next /\ UNCHANGED <<v10, v11, v12, v13>>
       \/ part = "turn" /\ Turn!Next /\ UNCHANGED <<v6, v7, v8, v9, v10, v11, v12, v13>>

ProvedSpec == ProvedInit /\ [][ProvedNext]_vars

-----------------------------------------------------------------------------
\* The sample league: a name that holds records is never removed for good, and a pick stands
\* under a duty of its own member (SampleRecords).
RecordsHaveNames == part = "seeds" => Seeds!RecordsHaveNames /\ Seeds!PicksUnderOwnDuty

\* The sample league: pending evidence is being voted on; an open case is undecided and has a
\* timer, for nothing else settles it; and the lists of duties, marks and cases agree (SampleLeague).
PendingMeansVoting ==
    part = "sample" =>
        /\ Sample!PendingMeansVoting /\ Sample!OpenIsUndecided
        /\ Sample!OpenIsTimed /\ Sample!ListsAgree

\* A refresh never brings another league's records back, and a league shown as loading is being
\* loaded (LeagueLoads).
RefreshedOfChosen == part = "loads" => Loads!RefreshedOfChosen /\ Loads!LoadingIsFetched

\* Every kickoff the page holds is read, or somebody is going to read it (KickoffReads).
KickoffWatched == part = "kickoffs" => Kickoffs!KickoffWatched

\* What is read stays read, but for keys cut from a full list, and what has just happened is not
\* (NotificationsRead).
ReadStaysRead == [][part = "marks" => Marks!KeepsRead]_vars
NewsIsUnread == [][part = "marks" => Marks!ComesUnread]_vars

\* A message is delivered a bounded number of times, and held by one run (PushOutbox).
DeliveriesBounded == part = "push" => Push!DeliveriesBounded
HeldByOne == part = "push" => Push!HeldByOne

\* Two sessions of a match start a lease apart, a submission that gives up was crowded out, and one
\* that is repeated makes no second revision (Previews).
ClaimsApart ==
    part = "sessions" => Sessions!ClaimsApart /\ Sessions!ConflictMeansCrowded /\ Sessions!OneRevision

\* What the API tells of a match or a duty stays so: a full time and its score (RoundUpdates),
\* results with the moment they are of (SeasonResults), the marks of a duty (DutyMarks).
ToldStaysTrue ==
    /\ part = "fulltime" => FullTime!FullTimeIsOne
    /\ part = "results" => Results!ResultsAreAsTold
    /\ part = "dutymarks" => Counted!MarksHold

\* Correcting the pool (PickGrid), and a card of the captain's desk (DeskCards), write what was
\* edited and nothing else.
SavesOnlyEdits ==
    /\ part = "grid" => Grid!SavesOnlyEdits
    /\ part = "desk" => Desk!SavesOnlyChoices /\ Desk!UntouchedIsSaved

\* A form that is not being edited holds a whole pick (PickForm), and what is sent is whole
\* and meant: a new league (CreateLeague), evidence and duties (DutyDialogs), changes to a
\* league (ManageLeague), a team and a photo (Profiles), a name of the team sheet (MembersCard).
FormsAreWhole ==
    /\ part = "form" => Form!FormIsWhole
    /\ part = "league" => NewLeague!SentLeagueIsWhole
    /\ part = "duties" => Dialogs!SentIsMeant /\ Dialogs!WarningHasDialog /\ Dialogs!LeadFitsTools
    /\ part = "manage" => Manage!SentIsAllowed
    /\ part = "profile" => Profile!TeamsAreKept /\ Profile!ShownPhotoStays
    /\ part = "members" => Sheet!SentIsOfItsRow /\ Sheet!NothingStaysBusy

\* No question is shown that the API did not accept (ChatPanel), and an answer is shown whole,
\* followed by the sources it cites of those it was given (ChatTurn).
ShownWasAccepted ==
    /\ part = "panel" => Panel!ShownWasAccepted
    /\ part = "turn" => Turn!AnswersAreSourced

\* A ruling falls on the veto its reviewer read (CaseCards).
RulingsWereMeant == part = "cards" => Cards!RulingsWereMeant

-----------------------------------------------------------------------------
\* What the proofs need of the constants: the names of a sample league's sheet are names and its
\* duties are none of the tags, ...
ASSUME SampleNames == Seeds!NamesApart
\* ... its members and duties are finitely many, the account's name among them, ...
ASSUME SampleSheet == Sample!Names
\* ... bounds and spans of time are numbers, ...
ASSUME Bounds ==
    /\ {KickoffRefreshes, ReadAhead, ReadKeys, CardVersions, FeedTtl, FeedTime, FeedAnswers} \subseteq Nat
    /\ {SessionSlow, SessionLease, SessionSaves} \subseteq Nat
\* ... the runs of the job are finitely many and its times are as PushOutbox says, ...
ASSUME Jobs == Push!Times /\ IsFiniteSet(Actors)
\* ... results and marks have lifetimes, and None is no moment, ...
ASSUME Moments == Results!Lifetimes /\ Counted!Weeks
\* ... names are numbers other than 0, some competition exists, and None is no duty or team, ...
ASSUME Forms ==
    /\ {FormMargin, FormReach, LeagueRows, ManageRounds} \subseteq Nat
    /\ LeagueNames \subseteq Nat \ {0} /\ Games # {}
    /\ None \notin Nat \union {"own", "other"}
\* ... and what the chat is given is lines, of which the entries are numbered.
ASSUME Chats == Turn!Listings

-----------------------------------------------------------------------------
\* A step is one of the component its behaviour is of, or leaves that alone.
LEMMA PartStep ==
    ASSUME [ProvedNext]_vars
    PROVE  /\ part' = part
           /\ part = "seeds" => [Seeds!Next]_(Seeds!vars)
           /\ part = "sample" => [Sample!Next]_(Sample!vars)
           /\ part = "loads" => [Loads!Next]_(Loads!vars)
           /\ part = "kickoffs" => [Kickoffs!Next]_(Kickoffs!vars)
           /\ part = "marks" => [Marks!Next]_(Marks!vars)
           /\ part = "push" => [Push!Next]_(Push!vars)
           /\ part = "sessions" => [Sessions!Next]_(Sessions!vars)
           /\ part = "grid" => [Grid!Next]_(Grid!vars)
           /\ part = "cards" => [Cards!Next]_(Cards!vars)
           /\ part = "desk" => [Desk!Next]_(Desk!vars)
           /\ part = "fulltime" => [FullTime!Next]_(FullTime!vars)
           /\ part = "results" => [Results!Next]_(Results!vars)
           /\ part = "dutymarks" => [Counted!Next]_(Counted!vars)
           /\ part = "form" => [Form!Next]_(Form!vars)
           /\ part = "league" => [NewLeague!Next]_(NewLeague!vars)
           /\ part = "duties" => [Dialogs!Next]_(Dialogs!vars)
           /\ part = "manage" => [Manage!Next]_(Manage!vars)
           /\ part = "profile" => [Profile!Next]_(Profile!vars)
           /\ part = "members" => [Sheet!Next]_(Sheet!vars)
           /\ part = "panel" => [Panel!Next]_(Panel!vars)
           /\ part = "turn" => [Turn!Next]_(Turn!vars)
<1>1. CASE UNCHANGED vars
  BY <1>1 DEF vars, Seeds!vars, Sample!vars, Loads!vars, Kickoffs!vars, Marks!vars, Push!vars, Sessions!vars,
     Grid!vars, Cards!vars, Desk!vars, FullTime!vars, Results!vars, Counted!vars,
     Form!vars, NewLeague!vars, Dialogs!vars, Manage!vars, Profile!vars, Sheet!vars,
     Panel!vars, Turn!vars
<1>2. CASE ProvedNext
  BY <1>2 DEF ProvedNext
<1> QED BY <1>1, <1>2

\* What the runs of the job being finitely many is to PushOutbox.
LEMMA RunsAreFinite == Push!IsFiniteSet(Actors)
BY Jobs DEF IsFiniteSet, Push!IsFiniteSet

\* In the sample league, whatever is saved, removed and put back: names with records stay, and
\* every pick stands under a duty of its own member.
THEOREM NamesStay == ProvedSpec => []RecordsHaveNames
<1> DEFINE Inv == part = "seeds" => Seeds!RecordsInv
<1>1. ProvedInit => Inv
  <2>1. ASSUME ProvedInit, part = "seeds" PROVE Seeds!RecordsInv
    <3>1. Seeds!Init
      BY <2>1 DEF ProvedInit
    <3> QED BY <3>1, SampleNames, RecordsInitially
  <2> QED BY <2>1
<1>2. Inv /\ [ProvedNext]_vars => Inv'
  <2>1. ASSUME part = "seeds", Seeds!RecordsInv, [ProvedNext]_vars PROVE Seeds!RecordsInv'
    <3>1. [Seeds!Next]_(Seeds!vars)
      BY <2>1, PartStep
    <3> QED BY <2>1, <3>1, SampleNames, RecordsStep
  <2> QED BY <2>1, PartStep
<1>3. Inv => RecordsHaveNames
  BY DEF RecordsHaveNames, Seeds!RecordsInv
<1> QED BY <1>1, <1>2, <1>3, PTL DEF ProvedSpec

\* With any members and duties, whatever is submitted, decided, voted, ruled, voided, released or
\* withdrawn, and whenever the clock settles it: pending evidence is being voted on, an open case is
\* undecided and timed, and the lists agree.
THEOREM PendingIsVotedOn == ProvedSpec => []PendingMeansVoting
<1> DEFINE Inv == part = "sample" => Sample!CasesInv
<1>1. ProvedInit => Inv
  <2>1. ASSUME ProvedInit, part = "sample" PROVE Sample!CasesInv
    <3>1. Sample!Init
      BY <2>1 DEF ProvedInit
    <3> QED BY <3>1, SampleSheet, Sample!CasesInitially
  <2> QED BY <2>1
<1>2. Inv /\ [ProvedNext]_vars => Inv'
  <2>1. ASSUME part = "sample", Sample!CasesInv, [ProvedNext]_vars PROVE Sample!CasesInv'
    <3>1. [Sample!Next]_(Sample!vars)
      BY <2>1, PartStep
    <3> QED BY <2>1, <3>1, SampleSheet, Sample!CasesStep
  <2> QED BY <2>1, PartStep
<1>3. Inv => PendingMeansVoting
  BY SampleSheet, Sample!CasesAgree DEF PendingMeansVoting
<1> QED BY <1>1, <1>2, <1>3, PTL DEF ProvedSpec

\* With any number of leagues, loads and switches between them: a refresh is of the league
\* shown, and what shows as loading is being fetched.
THEOREM RefreshesOfTheChosen == ProvedSpec => []RefreshedOfChosen
<1> DEFINE Inv == part = "loads" => Loads!LoadInv
<1>1. ProvedInit => Inv
  <2>1. ASSUME ProvedInit, part = "loads" PROVE Loads!LoadInv
    <3>1. Loads!Init
      BY <2>1 DEF ProvedInit
    <3> QED BY <3>1, LoadsInitially
  <2> QED BY <2>1
<1>2. Inv /\ [ProvedNext]_vars => Inv'
  <2>1. ASSUME part = "loads", Loads!LoadInv, [ProvedNext]_vars PROVE Loads!LoadInv'
    <3>1. [Loads!Next]_(Loads!vars)
      BY <2>1, PartStep
    <3> QED BY <2>1, <3>1, LoadStep
  <2> QED BY <2>1, PartStep
<1>3. Inv => RefreshedOfChosen
  BY DEF RefreshedOfChosen, Loads!LoadInv
<1> QED BY <1>1, <1>2, <1>3, PTL DEF ProvedSpec

\* With any picks, whatever reads fail and however the page is hidden: a kickoff the page holds
\* is read or somebody is going to read it.
THEOREM KickoffsStayWatched == ProvedSpec => []KickoffWatched
<1> DEFINE Inv == part = "kickoffs" => Kickoffs!KickoffInv
<1>1. ProvedInit => Inv
  <2>1. ASSUME ProvedInit, part = "kickoffs" PROVE Kickoffs!KickoffInv
    <3>1. Kickoffs!Init
      BY <2>1 DEF ProvedInit
    <3> QED BY <3>1, Bounds, KickoffsInitially
  <2> QED BY <2>1
<1>2. Inv /\ [ProvedNext]_vars => Inv'
  <2>1. ASSUME part = "kickoffs", Kickoffs!KickoffInv, [ProvedNext]_vars
        PROVE Kickoffs!KickoffInv'
    <3>1. [Kickoffs!Next]_(Kickoffs!vars)
      BY <2>1, PartStep
    <3> QED BY <2>1, <3>1, Bounds, KickoffStep
  <2> QED BY <2>1, PartStep
<1>3. Inv => KickoffWatched
  BY KickoffsAreWatched DEF KickoffWatched
<1> QED BY <1>1, <1>2, <1>3, PTL DEF ProvedSpec

\* With any number of runs that overlap, die and time out: no message is delivered more often
\* than it may be tried.
THEOREM MessagesBounded == ProvedSpec => []DeliveriesBounded
<1> DEFINE Inv == part = "push" => Push!OutboxInv
<1>1. ProvedInit => Inv
  <2>1. ASSUME ProvedInit, part = "push" PROVE Push!OutboxInv
    <3>1. Push!Init
      BY <2>1 DEF ProvedInit
    <3> QED BY <3>1, Jobs, RunsAreFinite, Push!OutboxInitially
  <2> QED BY <2>1
<1>2. Inv /\ [ProvedNext]_vars => Inv'
  <2>1. ASSUME part = "push", Push!OutboxInv, [ProvedNext]_vars PROVE Push!OutboxInv'
    <3>1. [Push!Next]_(Push!vars)
      BY <2>1, PartStep
    <3> QED BY <2>1, <3>1, Jobs, RunsAreFinite, Push!OutboxStep
  <2> QED BY <2>1, PartStep
<1>3. Inv => DeliveriesBounded
  BY Jobs, RunsAreFinite, Push!OutboxBounds DEF DeliveriesBounded
<1> QED BY <1>1, <1>2, <1>3, PTL DEF ProvedSpec

\* And a message whose lease runs is in the hands of one run.
THEOREM MessagesHeldByOne == ProvedSpec => []HeldByOne
<1> DEFINE Inv == part = "push" => Push!OutboxInv
<1>1. ProvedInit => Inv
  <2>1. ASSUME ProvedInit, part = "push" PROVE Push!OutboxInv
    <3>1. Push!Init
      BY <2>1 DEF ProvedInit
    <3> QED BY <3>1, Jobs, RunsAreFinite, Push!OutboxInitially
  <2> QED BY <2>1
<1>2. Inv /\ [ProvedNext]_vars => Inv'
  <2>1. ASSUME part = "push", Push!OutboxInv, [ProvedNext]_vars PROVE Push!OutboxInv'
    <3>1. [Push!Next]_(Push!vars)
      BY <2>1, PartStep
    <3> QED BY <2>1, <3>1, Jobs, RunsAreFinite, Push!OutboxStep
  <2> QED BY <2>1, PartStep
<1>3. Inv => HeldByOne
  BY DEF HeldByOne, Push!OutboxInv
<1> QED BY <1>1, <1>2, <1>3, PTL DEF ProvedSpec

\* With any number of ticks and submissions: two sessions start a lease apart, a submission gives
\* up only where others got in before it each time, and one repeated is stored once.
THEOREM SessionsApart == ProvedSpec => []ClaimsApart
<1> DEFINE Inv == part = "sessions" => Sessions!PreviewInv /\ Sessions!OneRevision
<1>1. ProvedInit => Inv
  <2>1. ASSUME ProvedInit, part = "sessions" PROVE Sessions!PreviewInv /\ Sessions!OneRevision
    <3>1. Sessions!Init
      BY <2>1 DEF ProvedInit
    <3> QED BY <3>1, Bounds, Sessions!PreviewsInitially, Sessions!OneInitially
  <2> QED BY <2>1
<1>2. Inv /\ [ProvedNext]_vars => Inv'
  <2>1. ASSUME part = "sessions", Sessions!PreviewInv, Sessions!OneRevision, [ProvedNext]_vars
        PROVE (Sessions!PreviewInv /\ Sessions!OneRevision)'
    <3>1. [Sessions!Next]_(Sessions!vars)
      BY <2>1, PartStep
    <3>2. Sessions!PreviewInv'
      BY <2>1, <3>1, Bounds, Sessions!PreviewStep
    <3>3. Sessions!PreviewTypes
      BY <2>1 DEF Sessions!PreviewInv
    <3>4. Sessions!OneRevision'
      BY <2>1, <3>1, <3>3, Sessions!OneStep
    <3> QED BY <3>2, <3>4
  <2> QED BY <2>1, PartStep
<1>3. Inv => ClaimsApart
  BY Bounds, Sessions!CrowdedOut DEF ClaimsApart, Sessions!PreviewInv
<1> QED BY <1>1, <1>2, <1>3, PTL DEF ProvedSpec

\* Of a grid of any members and a card of any fields, whoever else saves in between: what is
\* written is what was edited.
THEOREM EditsAreSaved == ProvedSpec => []SavesOnlyEdits
<1> DEFINE Inv == /\ part = "grid" => Grid!GridInv
                  /\ part = "desk" => Desk!DeskInv
<1>1. ProvedInit => Inv
  <2>1. ASSUME ProvedInit, part = "grid" PROVE Grid!GridInv
    <3>1. Grid!Init
      BY <2>1 DEF ProvedInit
    <3> QED BY <3>1, GridInitially
  <2>2. ASSUME ProvedInit, part = "desk" PROVE Desk!DeskInv
    <3>1. Desk!Init
      BY <2>2 DEF ProvedInit
    <3> QED BY <3>1, DeskInitially
  <2> QED BY <2>1, <2>2
<1>2. Inv /\ [ProvedNext]_vars => Inv'
  <2>1. ASSUME part = "grid", Grid!GridInv, [ProvedNext]_vars PROVE Grid!GridInv'
    <3>1. [Grid!Next]_(Grid!vars)
      BY <2>1, PartStep
    <3> QED BY <2>1, <3>1, GridStep
  <2>2. ASSUME part = "desk", Desk!DeskInv, [ProvedNext]_vars PROVE Desk!DeskInv'
    <3>1. [Desk!Next]_(Desk!vars)
      BY <2>2, PartStep
    <3> QED BY <2>2, <3>1, DeskStep
  <2> QED BY <2>1, <2>2, PartStep
<1>3. Inv => SavesOnlyEdits
  BY DeskSaves DEF SavesOnlyEdits, Grid!GridInv
<1> QED BY <1>1, <1>2, <1>3, PTL DEF ProvedSpec

\* With any fixtures, names, members and rounds, whatever is typed, opened, submitted and answered
\* in between: a form holds a whole pick, and what is sent is whole, meant and allowed.
THEOREM WhatIsSentIsMeant == ProvedSpec => []FormsAreWhole
<1> DEFINE Inv == /\ part = "form" => Form!FormInv
                  /\ part = "league" => NewLeague!LeagueInv
                  /\ part = "duties" => Dialogs!DialogInv
                  /\ part = "manage" => Manage!ManageInv
                  /\ part = "profile" => Profile!ProfileInv
                  /\ part = "members" => Sheet!SheetInv
<1>0. None \notin Nat /\ None \notin Dialogs!Duties
  BY Forms DEF Dialogs!Duties
<1>1. ProvedInit => Inv
  <2>1. ASSUME ProvedInit, part = "form" PROVE Form!FormInv
    <3>1. Form!Init
      BY <2>1 DEF ProvedInit
    <3> QED BY <3>1, Forms, FormInitially
  <2>2. ASSUME ProvedInit, part = "league" PROVE NewLeague!LeagueInv
    <3>1. NewLeague!Init
      BY <2>2 DEF ProvedInit
    <3> QED BY <3>1, Forms, LeagueInitially
  <2>3. ASSUME ProvedInit, part = "duties" PROVE Dialogs!DialogInv
    <3>1. Dialogs!Init
      BY <2>3 DEF ProvedInit
    <3> QED BY <3>1, Forms, DialogInitially
  <2>4. ASSUME ProvedInit, part = "manage" PROVE Manage!ManageInv
    <3>1. Manage!Init
      BY <2>4 DEF ProvedInit
    <3> QED BY <3>1, Forms, ManageInitially
  <2>5. ASSUME ProvedInit, part = "profile" PROVE Profile!ProfileInv
    <3>1. Profile!Init
      BY <2>5 DEF ProvedInit
    <3> QED BY <3>1, Forms, ProfileInitially
  <2>6. ASSUME ProvedInit, part = "members" PROVE Sheet!SheetInv
    <3>1. Sheet!Init
      BY <2>6 DEF ProvedInit
    <3> QED BY <3>1, Forms, SheetInitially
  <2> QED BY <2>1, <2>2, <2>3, <2>4, <2>5, <2>6
<1>2. Inv /\ [ProvedNext]_vars => Inv'
  <2>1. ASSUME part = "form", Form!FormInv, [ProvedNext]_vars PROVE Form!FormInv'
    <3>1. [Form!Next]_(Form!vars)
      BY <2>1, PartStep
    <3> QED BY <1>0, <2>1, <3>1, Forms, FormStep
  <2>2. ASSUME part = "league", NewLeague!LeagueInv, [ProvedNext]_vars PROVE NewLeague!LeagueInv'
    <3>1. [NewLeague!Next]_(NewLeague!vars)
      BY <2>2, PartStep
    <3> QED BY <1>0, <2>2, <3>1, Forms, LeagueStep
  <2>3. ASSUME part = "duties", Dialogs!DialogInv, [ProvedNext]_vars PROVE Dialogs!DialogInv'
    <3>1. [Dialogs!Next]_(Dialogs!vars)
      BY <2>3, PartStep
    <3> QED BY <1>0, <2>3, <3>1, Forms, DialogStep
  <2>4. ASSUME part = "manage", Manage!ManageInv, [ProvedNext]_vars PROVE Manage!ManageInv'
    <3>1. [Manage!Next]_(Manage!vars)
      BY <2>4, PartStep
    <3> QED BY <1>0, <2>4, <3>1, Forms, ManageStep
  <2>5. ASSUME part = "profile", Profile!ProfileInv, [ProvedNext]_vars PROVE Profile!ProfileInv'
    <3>1. [Profile!Next]_(Profile!vars)
      BY <2>5, PartStep
    <3> QED BY <1>0, <2>5, <3>1, Forms, ProfileStep
  <2>6. ASSUME part = "members", Sheet!SheetInv, [ProvedNext]_vars PROVE Sheet!SheetInv'
    <3>1. [Sheet!Next]_(Sheet!vars)
      BY <2>6, PartStep
    <3> QED BY <1>0, <2>6, <3>1, Forms, SheetStep
  <2> QED BY <2>1, <2>2, <2>3, <2>4, <2>5, <2>6, PartStep
<1>3. Inv => FormsAreWhole
  BY FormsHold, LeaguesHold, DialogsHold, ManagesHold, ProfilesHold, SheetsHold DEF FormsAreWhole
<1> QED BY <1>1, <1>2, <1>3, PTL DEF ProvedSpec

\* Whatever is asked, refused, lost, read and cleared in between, and whatever the model says of
\* whatever it is given: what is shown was accepted, and an answer's sources are those it cites.
THEOREM OnlyAcceptedShows == ProvedSpec => []ShownWasAccepted
<1> DEFINE Inv == /\ part = "panel" => Panel!PanelInv
                  /\ part = "turn" => Turn!TurnInv
<1>1. ProvedInit => Inv
  <2>1. ASSUME ProvedInit, part = "panel" PROVE Panel!PanelInv
    <3>1. Panel!Init
      BY <2>1 DEF ProvedInit
    <3> QED BY <3>1, PanelInitially
  <2>2. ASSUME ProvedInit, part = "turn" PROVE Turn!TurnInv
    <3>1. Turn!Init
      BY <2>2 DEF ProvedInit
    <3> QED BY <3>1, Chats, TurnInitially
  <2> QED BY <2>1, <2>2
<1>2. Inv /\ [ProvedNext]_vars => Inv'
  <2>1. ASSUME part = "panel", Panel!PanelInv, [ProvedNext]_vars PROVE Panel!PanelInv'
    <3>1. [Panel!Next]_(Panel!vars)
      BY <2>1, PartStep
    <3> QED BY <2>1, <3>1, PanelStep
  <2>2. ASSUME part = "turn", Turn!TurnInv, [ProvedNext]_vars PROVE Turn!TurnInv'
    <3>1. [Turn!Next]_(Turn!vars)
      BY <2>2, PartStep
    <3> QED BY <2>2, <3>1, Chats, TurnStep
  <2> QED BY <2>1, <2>2, PartStep
<1>3. Inv => ShownWasAccepted
  BY Chats, AnswersHold DEF ShownWasAccepted, Panel!PanelInv
<1> QED BY <1>1, <1>2, <1>3, PTL DEF ProvedSpec

\* However often the case moves on under the page: a ruling that takes effect is on the veto its
\* reviewer had read.
THEOREM RulingsFollowReading == ProvedSpec => []RulingsWereMeant
<1> DEFINE Inv == part = "cards" => Cards!RulingInv
<1>1. ProvedInit => Inv
  <2>1. ASSUME ProvedInit, part = "cards" PROVE Cards!RulingInv
    <3>1. Cards!Init
      BY <2>1 DEF ProvedInit
    <3> QED BY <3>1, Bounds, CardsInitially
  <2> QED BY <2>1
<1>2. Inv /\ [ProvedNext]_vars => Inv'
  <2>1. ASSUME part = "cards", Cards!RulingInv, [ProvedNext]_vars PROVE Cards!RulingInv'
    <3>1. [Cards!Next]_(Cards!vars)
      BY <2>1, PartStep
    <3> QED BY <2>1, <3>1, Bounds, CardsStep
  <2> QED BY <2>1, PartStep
<1>3. Inv => RulingsWereMeant
  BY DEF RulingsWereMeant, Cards!RulingInv
<1> QED BY <1>1, <1>2, <1>3, PTL DEF ProvedSpec

\* Any number of requests, any failures of the feed and of the cache: one end of a match is told,
\* results are as new as they say, and marks told come and stay.
THEOREM ToldComesTrue == ProvedSpec => []ToldStaysTrue
<1> DEFINE Inv == /\ part = "fulltime" => FullTime!TypeOK /\ FullTime!TellsIt
                  /\ part = "results" => Results!ResultsInv
                  /\ part = "dutymarks" => Counted!MarksInv
<1>1. ProvedInit => Inv
  <2>1. ASSUME ProvedInit, part = "fulltime" PROVE FullTime!TypeOK /\ FullTime!TellsIt
    <3>1. FullTime!Init
      BY <2>1 DEF ProvedInit
    <3> QED BY <3>1, Bounds, FullTime!Initially
  <2>2. ASSUME ProvedInit, part = "results" PROVE Results!ResultsInv
    <3>1. Results!Init
      BY <2>2 DEF ProvedInit
    <3> QED BY <3>1, Moments, ResultsInitially
  <2>3. ASSUME ProvedInit, part = "dutymarks" PROVE Counted!MarksInv
    <3>1. Counted!Init
      BY <2>3 DEF ProvedInit
    <3> QED BY <3>1, Moments, MarksInitially
  <2> QED BY <2>1, <2>2, <2>3
<1>2. Inv /\ [ProvedNext]_vars => Inv'
  <2>1. ASSUME part = "fulltime", FullTime!TypeOK /\ FullTime!TellsIt, [ProvedNext]_vars
        PROVE (FullTime!TypeOK /\ FullTime!TellsIt)'
    <3>1. [FullTime!Next]_(FullTime!vars)
      BY <2>1, PartStep
    <3> QED BY <2>1, <3>1, Bounds, FullTime!StepTells
  <2>2. ASSUME part = "results", Results!ResultsInv, [ProvedNext]_vars PROVE Results!ResultsInv'
    <3>1. [Results!Next]_(Results!vars)
      BY <2>2, PartStep
    <3> QED BY <2>2, <3>1, Moments, ResultsStep
  <2>3. ASSUME part = "dutymarks", Counted!MarksInv, [ProvedNext]_vars PROVE Counted!MarksInv'
    <3>1. [Counted!Next]_(Counted!vars)
      BY <2>3, PartStep
    <3> QED BY <2>3, <3>1, Moments, MarksStep
  <2> QED BY <2>1, <2>2, <2>3, PartStep
<1>3. Inv => ToldStaysTrue
  BY Moments, FullTime!TellsMeansOne, ResultsAreTold, MarksStand DEF ToldStaysTrue
<1> QED BY <1>1, <1>2, <1>3, PTL DEF ProvedSpec

\* On any number of devices whose saves cross, are lost and arrive late: what the account's mark
\* covers stays read, and a key read on its own until the list of keys is full.
THEOREM ReadIsKeptRead == ProvedSpec => ReadStaysRead
<1> DEFINE Inv == part = "marks" => Marks!ReadInv
<1>1. ProvedInit => Inv
  <2> SUFFICES ASSUME ProvedInit, part = "marks" PROVE Marks!ReadInv
    OBVIOUS
  <2>1. Marks!Init
    BY DEF ProvedInit
  <2> QED BY <2>1, Bounds, Marks!ReadInitially
<1>2. Inv /\ [ProvedNext]_vars => Inv'
  <2> SUFFICES ASSUME part = "marks", Marks!ReadInv, [ProvedNext]_vars PROVE Marks!ReadInv'
    BY PartStep
  <2>1. [Marks!Next]_(Marks!vars)
    BY PartStep
  <2> QED BY <2>1, Bounds, Marks!StepKeeps
<1>3. Inv /\ [ProvedNext]_vars => [part = "marks" => Marks!KeepsRead]_vars
  <2> SUFFICES ASSUME part = "marks", Marks!ReadInv, [ProvedNext]_vars PROVE Marks!KeepsRead
    OBVIOUS
  <2>1. [Marks!Next]_(Marks!vars)
    BY PartStep
  <2> QED BY <2>1, Marks!StepKeepsRead
<1> QED BY <1>1, <1>2, <1>3, PTL DEF ProvedSpec, ReadStaysRead

\* And what has just happened is unread on every one of them.
THEOREM NewsComesUnread == ProvedSpec => NewsIsUnread
<1> DEFINE Inv == part = "marks" => Marks!ReadInv
<1>1. ProvedInit => Inv
  <2> SUFFICES ASSUME ProvedInit, part = "marks" PROVE Marks!ReadInv
    OBVIOUS
  <2>1. Marks!Init
    BY DEF ProvedInit
  <2> QED BY <2>1, Bounds, Marks!ReadInitially
<1>2. Inv /\ [ProvedNext]_vars => Inv'
  <2> SUFFICES ASSUME part = "marks", Marks!ReadInv, [ProvedNext]_vars PROVE Marks!ReadInv'
    BY PartStep
  <2>1. [Marks!Next]_(Marks!vars)
    BY PartStep
  <2> QED BY <2>1, Bounds, Marks!StepKeeps
<1>3. Inv /\ [ProvedNext]_vars => [part = "marks" => Marks!ComesUnread]_vars
  <2> SUFFICES ASSUME part = "marks", Marks!ReadInv, [ProvedNext]_vars PROVE Marks!ComesUnread
    OBVIOUS
  <2>1. [Marks!Next]_(Marks!vars)
    BY PartStep
  <2> QED BY <2>1, Marks!StepComesUnread
<1> QED BY <1>1, <1>2, <1>3, PTL DEF ProvedSpec, NewsIsUnread
=============================================================================
