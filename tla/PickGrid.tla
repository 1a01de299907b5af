------------------------------ MODULE PickGrid ------------------------------
(***************************************************************************)
(* The captain's desk's grid of one fixture's picks (picks-card.ts,        *)
(* picks-card.form.ts): a row per member, built from the saved picks and   *)
(* built anew whenever they change; saving sends the rows that differ, the *)
(* changed ones in one request and the cleared ones in one request each    *)
(* (pick-control.service.ts, correctPicks).  Members and other stewards    *)
(* change the same picks meanwhile.                                        *)
(*                                                                         *)
(* A pick is a value: its side, margin and default mark change together.   *)
(* The recorded round totals below the grid are left out.                  *)
(***************************************************************************)
EXTENDS FiniteSets

CONSTANTS
    Member,
    Pick,
    None       \* no pick, or an empty row

VARIABLES
    locked,    \* kickoff has passed: the grid is the steward's to edit
    api,       \* the stored picks
    saved,     \* as the page holds them, the grid's baseline
    grid,      \* what the rows describe (pickOf)
    edited,    \* the members whose row was edited since the grid was built
    task       \* the save under way: what is left to record and to remove

vars == <<locked, api, saved, grid, edited, task>>

NoTask == [step |-> "none", record |-> {}, wanted |-> [m \in Member |-> None], remove |-> {},
           edited |-> {}]

Init ==
    /\ locked = FALSE
    /\ api \in [Member -> Pick \cup {None}]
    /\ saved = [m \in Member |-> None]
    /\ grid = saved
    /\ edited = {}
    /\ task = NoTask

\* build: the grid follows its baseline, compared by content; the rows are
\* enabled again, even while a save is under way.
Adopt(picks) ==
    /\ saved' = picks
    /\ IF picks = saved THEN UNCHANGED <<grid, edited>>
       ELSE grid' = picks /\ edited' = {}

\* Nobody's picks show before kickoff; then the page reads them.
Kickoff ==
    /\ ~locked
    /\ locked' = TRUE
    /\ UNCHANGED <<api, saved, grid, edited, task>>

\* A refresh, or a live read of the picks.
Read ==
    /\ locked
    /\ saved # api
    /\ Adopt(api)
    /\ UNCHANGED <<locked, api, task>>

EditRow(m) ==
    /\ locked
    /\ \E pick \in Pick \cup {None} : grid' = [grid EXCEPT ![m] = pick]
    /\ edited' = edited \cup {m}
    /\ UNCHANGED <<locked, api, saved, task>>

\* Mistake: every row with a pick is sent.
Recorded_All == {m \in Member : grid[m] # None}

\* pickChanges: the picks to record and the members whose saved pick was cleared.
Recorded == {m \in Member : grid[m] # None /\ grid[m] # saved[m]}
Removed  == {m \in Member : grid[m] = None /\ saved[m] # None}

Save ==
    /\ locked
    /\ task = NoTask                                       \* busy
    /\ Recorded \cup Removed # {}
    /\ task' = [step |-> IF Recorded # {} THEN "recording" ELSE "removing",
                record |-> Recorded, wanted |-> grid, remove |-> Removed, edited |-> edited]
    /\ UNCHANGED <<locked, api, saved, grid, edited>>

\* recordPicks: the listed members' picks are recorded together, others stay, and
\* the answer is adopted; or it is refused, and nothing else is sent.
RecordPicks ==
    /\ task.step = "recording"
    /\ \/ /\ api' = [m \in Member |-> IF m \in task.record THEN task.wanted[m] ELSE api[m]]
          /\ Adopt(api')
          /\ task' = IF task.remove = {} THEN NoTask ELSE [task EXCEPT !.step = "removing"]
       \/ /\ task' = NoTask
          /\ UNCHANGED <<api, saved, grid, edited>>
    /\ UNCHANGED locked

\* removePick, then the picks are read again; a failure of either ends the save
\* with the later members' picks still in.
RemovePick(m) ==
    /\ task.step = "removing"
    /\ m \in task.remove
    /\ \/ /\ api' = [api EXCEPT ![m] = None]
          /\ \/ /\ Adopt(api')
                /\ task' = IF task.remove = {m} THEN NoTask
                           ELSE [task EXCEPT !.remove = @ \ {m}]
             \/ /\ task' = NoTask
                /\ UNCHANGED <<saved, grid, edited>>
       \/ /\ task' = NoTask
          /\ UNCHANGED <<api, saved, grid, edited>>
    /\ UNCHANGED locked

\* Another steward's correction, or before kickoff the member's own pick.
Elsewhere(m) ==
    /\ \E pick \in Pick \cup {None} :
         /\ pick # api[m]
         /\ api' = [api EXCEPT ![m] = pick]
    /\ UNCHANGED <<locked, saved, grid, edited, task>>

Next ==
    \/ Kickoff \/ Read \/ Save \/ RecordPicks
    \/ \E m \in Member : EditRow(m) \/ RemovePick(m) \/ Elsewhere(m)

Spec == Init /\ [][Next]_vars

-----------------------------------------------------------------------------
TypeOK ==
    /\ locked \in BOOLEAN
    /\ api \in [Member -> Pick \cup {None}]
    /\ saved \in [Member -> Pick \cup {None}]
    /\ grid \in [Member -> Pick \cup {None}]
    /\ edited \subseteq Member
    /\ task \in [step : {"none", "recording", "removing"}, record : SUBSET Member,
                 wanted : [Member -> Pick \cup {None}], remove : SUBSET Member,
                 edited : SUBSET Member]

\* A save carries only rows the steward edited in the grid it was sent from:
\* however stale the grid is, the picks other people changed meanwhile are left
\* as they are, except where the steward put another in their place.
SavesOnlyEdits == task.record \cup task.remove \subseteq task.edited

\* The inductive invariant behind it: a row that differs from its baseline was edited.
GridInv ==
    /\ TypeOK /\ SavesOnlyEdits
    /\ \A m \in Member : grid[m] # saved[m] => m \in edited
=============================================================================
