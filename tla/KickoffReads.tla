------------------------------ MODULE KickoffReads ------------------------------
(***************************************************************************)
(* When the browser reads the picks again (core/league/data/               *)
(* http-league-data.ts): the pool of a match shows once its kickoff has    *)
(* passed, so an open page reads the picks just after it.                  *)
(*                                                                         *)
(* A timer waits for the next kickoff among the loaded fixtures, a hidden  *)
(* page leaves the read to its return, a failed read is tried again, and   *)
(* refreshes for other reasons bring picks too, in any order.  One league  *)
(* stays chosen here (module LeagueLoads changes it) and the browser's     *)
(* clock agrees with the API's.                                            *)
(***************************************************************************)
EXTENDS Naturals, FiniteSets

CONSTANTS
    Fixture,    \* fixtures of the loaded picks
    MaxReads    \* bound: refreshes and kickoff reads

VARIABLES
    kicked,     \* fixtures whose kickoff, and KICKOFF_DELAY_MS, have passed
    locked,     \* loaded fixtures the API sent as locked
    kickoffsRead,
    load,       \* kickoffLoad: what its reload is for, and what had kicked off when it was sent
    refreshes,  \* refreshes in flight
    timer,      \* kickoffTimer is set
    visible,
    reads,      \* reads so far
    excused     \* fixtures whose read was lost in a way the code does not repair

vars == <<kicked, locked, kickoffsRead, load, refreshes, timer, visible, reads, excused>>

NoLoad == [due |-> {}, sent |-> {}]
Refreshing == [sent : SUBSET Fixture, back : BOOLEAN]

TypeOK ==
    /\ kicked \in SUBSET Fixture /\ locked \in SUBSET Fixture /\ kickoffsRead \in SUBSET Fixture
    /\ load \in [due : SUBSET Fixture, sent : SUBSET Fixture]
    /\ refreshes \in SUBSET Refreshing
    /\ timer \in BOOLEAN /\ visible \in BOOLEAN /\ reads \in 0 .. MaxReads
    /\ excused \in SUBSET Fixture

\* A league just loaded, before the kickoffs.
Init ==
    /\ kicked = {} /\ locked = {} /\ kickoffsRead = {} /\ load = NoLoad /\ refreshes = {}
    /\ timer = TRUE /\ visible \in BOOLEAN /\ reads = 0 /\ excused = {}

\* kickoffsDue.
Due == kicked \ (locked \union kickoffsRead)

\* scheduleKickoffReload: whether a loaded fixture is still waited for.
Waits(shown, marked) == Fixture \ (shown \union marked) # {}

\* Mistake: the fixtures stay marked as read when the read fails.
AfterFailure_Marked(due) == kickoffsRead
AfterFailure(due) == kickoffsRead \ due

\* reloadAtKickoff, with the timer as `left` by the caller: not twice at a
\* time, not while hidden.
ReloadAtKickoff(left) ==
    \/ /\ load # NoLoad \/ ~visible'
       /\ timer' = left
       /\ UNCHANGED <<kickoffsRead, load, reads>>
    \/ /\ load = NoLoad /\ visible' /\ Due = {}
       /\ timer' = Waits(locked, kickoffsRead)
       /\ UNCHANGED <<kickoffsRead, load, reads>>
    \/ /\ load = NoLoad /\ visible' /\ Due # {} /\ reads < MaxReads
       /\ reads' = reads + 1
       /\ kickoffsRead' = kickoffsRead \union Due
       /\ load' = [due |-> Due, sent |-> kicked]
       /\ timer' = left

KickOff(f) ==
    /\ f \notin kicked
    /\ kicked' = kicked \union {f}
    /\ UNCHANGED <<locked, kickoffsRead, load, refreshes, timer, visible, reads, excused>>

\* The timer of the next kickoff or of a retry; with nothing due, of a step of a
\* wait longer than MAX_TIMER_MS, which a hidden page does not go on with.
TimerFires ==
    /\ timer
    /\ UNCHANGED visible
    /\ ReloadAtKickoff(FALSE)
    /\ excused' = IF Due = {} /\ ~visible THEN Fixture \ locked ELSE excused
    /\ UNCHANGED <<kicked, locked, refreshes>>

Hide ==
    /\ visible /\ visible' = FALSE
    /\ UNCHANGED <<kicked, locked, kickoffsRead, load, refreshes, timer, reads, excused>>

\* A refresh is asked for; `back` when coming back to the page asked.
StartRefresh(back) ==
    /\ reads < MaxReads
    /\ reads' = reads + 1
    /\ refreshes' = refreshes \union {[sent |-> kicked, back |-> back]}
    /\ UNCHANGED <<kickoffsRead, load, timer>>

\* onVisible: a case whose window closed meanwhile has everything read again,
\* otherwise the kickoffs that passed are.
Show ==
    /\ ~visible /\ visible' = TRUE
    /\ \/ StartRefresh(TRUE)
       \/ Due # {} /\ ReloadAtKickoff(timer) /\ UNCHANGED refreshes
       \/ Due = {} /\ UNCHANGED <<kickoffsRead, load, refreshes, timer, reads>>
    /\ UNCHANGED <<kicked, locked, excused>>

\* A change in the league, or the shell's retry.
Refresh == StartRefresh(FALSE) /\ UNCHANGED <<kicked, locked, visible, excused>>

\* setPicks: an answer as of some moment since it was asked for replaces the
\* picks, however old, and the timer is set again.
SetPicks(sent) ==
    \E asOf \in {s \in SUBSET kicked : sent \subseteq s} :
        /\ locked' = asOf
        /\ timer' = Waits(asOf, kickoffsRead)
        /\ excused' = (kicked \ asOf) \intersect kickoffsRead

LoadAnswers ==
    /\ load # NoLoad /\ load' = NoLoad
    /\ \/ SetPicks(load.sent) /\ UNCHANGED kickoffsRead
       \/ /\ kickoffsRead' = AfterFailure(load.due)
          /\ timer' = TRUE
          /\ UNCHANGED <<locked, excused>>
    /\ UNCHANGED <<kicked, refreshes, visible, reads>>

\* A refresh that fails is forgotten, also when it stood in for the kickoff read.
RefreshAnswers(r) ==
    /\ r \in refreshes /\ refreshes' = refreshes \ {r}
    /\ \/ SetPicks(r.sent)
       \/ /\ excused' = IF r.back /\ ~timer THEN Fixture \ locked ELSE excused
          /\ UNCHANGED <<locked, timer>>
    /\ UNCHANGED <<kicked, kickoffsRead, load, visible, reads>>

Next ==
    \/ \E f \in Fixture : KickOff(f)
    \/ TimerFires \/ Hide \/ Show \/ Refresh \/ LoadAnswers
    \/ \E r \in refreshes : RefreshAnswers(r)

Spec == Init /\ [][Next]_vars

-----------------------------------------------------------------------------
\* A visible page does not forget a kickoff: a match that has kicked off shows
\* its pool, or a timer, a kickoff read or a refresh is still to come.  Three ways
\* of losing one are excused, and nothing else: an answer from before the
\* kickoff that arrives after the kickoff was read, a refresh on coming back
\* that fails, and a wait of weeks whose step falls in a hidden page (http-league-data.ts:555, reloadAtKickoff, and 156, onVisible).
KickoffWatched ==
    visible => \A f \in kicked \ (locked \union excused) :
        timer \/ load # NoLoad \/ \E r \in refreshes : r.back

\* The inductive invariant behind it: a kickoff counted as read shows its pool, is excused, or is
\* being read; and unless every match shows its pool or is excused something is still to come, be
\* it the return to a hidden page with a kickoff due.
KickoffInv ==
    /\ TypeOK
    /\ locked \subseteq kicked
    /\ kickoffsRead \subseteq kicked \intersect (locked \union excused \union load.due)
    /\ \/ Fixture \subseteq locked \union excused
       \/ timer
       \/ load # NoLoad
       \/ \E r \in refreshes : r.back
       \/ ~visible /\ Due # {}
=============================================================================
