------------------------------- MODULE ChatPanel -------------------------------
(***************************************************************************)
(* The match chat in the browser: ChatControlService                       *)
(* (core/league/chat/chat-control.service.ts) under the launcher and the   *)
(* sheet of the match page (features/match/match-chat).                    *)
(*                                                                         *)
(* One fixture's thread is held at a time, with the Chat that streams its  *)
(* answers.  Late answers are compared with the fixture held, not with the *)
(* league; the same fixture is played in every league of a competition,    *)
(* and the league switcher keeps the match page, so nothing loads the      *)
(* thread again when only the league changes.                              *)
(*                                                                         *)
(* The API (module MatchChat) accepts or refuses a question; a question is *)
(* its number.  Left out: texts, sources, the counts of questions left, and *)
(* what becomes of a question whose Chat was stopped for another match.    *)
(***************************************************************************)
EXTENDS Naturals, FiniteSets

CONSTANTS
    League,
    Fixture,
    NoPlace,
    MaxTurns,   \* bound: questions asked
    MaxReads    \* bound: thread reads

VARIABLES
    place,      \* the league and the fixture of the page
    selected,   \* the place the store's Chat was made for
    thread,     \* the thread in the store, or NoThread
    reads,      \* thread reads in flight: the fixture and the place read
    readCount,
    turn,       \* the question being answered, or NoTurn
    turns,      \* questions asked so far
    stored,     \* place -> the questions the API holds
    accepted    \* the questions the API has ever accepted

vars == <<place, selected, thread, reads, readCount, turn, turns, stored, accepted>>

Place == [league : League, fixture : Fixture]
NoThread == [of |-> NoPlace, questions |-> {}]
NoTurn == [at |-> "none", of |-> NoPlace]

TypeOK ==
    /\ place \in Place /\ selected \in Place
    /\ thread \in [of : Place, questions : SUBSET (1 .. MaxTurns)] \union {NoThread}
    /\ reads \in SUBSET Place /\ readCount \in 0 .. MaxReads
    /\ turn \in [at : {"asking", "streaming"}, of : Place] \union {NoTurn}
    /\ turns \in 0 .. MaxTurns
    /\ stored \in [Place -> SUBSET (1 .. MaxTurns)] /\ accepted \in SUBSET (1 .. MaxTurns)

\* The launcher has just loaded the match of the page that opened.
Init ==
    /\ place \in Place /\ selected = place /\ thread = NoThread
    /\ reads = {place} /\ readCount = 1 /\ turn = NoTurn /\ turns = 0
    /\ stored = [p \in Place |-> {}] /\ accepted = {}

\* fetchThread: asks for the thread of the page's league and fixture.
Fetch(p) ==
    /\ readCount < MaxReads
    /\ readCount' = readCount + 1
    /\ reads' = reads \union {p}

\* load: for another league or fixture the Chat is stopped and a new one made,
\* with no thread; then the thread is read.
Load(p) ==
    /\ IF selected = p THEN UNCHANGED <<selected, thread, turn>>
       ELSE selected' = p /\ thread' = NoThread /\ turn' = NoTurn
    /\ Fetch(p)

\* Another match: the launcher's input changes and loads it.
OpenMatch(f) ==
    /\ f # place.fixture
    /\ place' = [place EXCEPT !.fixture = f]
    /\ Load(place')
    /\ UNCHANGED <<turns, stored, accepted>>

\* Another league of the competition, from the switcher: the page stays.
SwitchLeague(l) ==
    /\ l # place.league
    /\ place' = [place EXCEPT !.league = l]
    /\ UNCHANGED <<selected, thread, reads, readCount, turn, turns, stored, accepted>>

\* The sheet is opened, or reloaded after a failure, with no answer arriving.
OpenSheet ==
    /\ turn = NoTurn
    /\ Load(place)
    /\ UNCHANGED <<place, turns, stored, accepted>>

\* A thread read answers: kept when its fixture is still the one held.
ThreadArrives(p) ==
    /\ p \in reads /\ reads' = reads \ {p}
    /\ thread' = IF selected.fixture = p.fixture
                 THEN [of |-> p, questions |-> stored[p]] ELSE thread
    /\ UNCHANGED <<place, selected, readCount, turn, turns, stored, accepted>>

\* The read fails: the thread stays as it is, with an error.
ReadFails(p) ==
    /\ p \in reads /\ reads' = reads \ {p}
    /\ UNCHANGED <<place, selected, thread, readCount, turn, turns, stored, accepted>>

\* send: the question shows at once, and goes to the place of the Chat.
Send ==
    /\ thread # NoThread /\ selected.fixture = place.fixture /\ turn = NoTurn /\ turns < MaxTurns
    /\ turns' = turns + 1
    /\ thread' = [thread EXCEPT !.questions = @ \union {turns'}]
    /\ turn' = [at |-> "asking", of |-> selected]
    /\ UNCHANGED <<place, selected, reads, readCount, stored, accepted>>

\* The head of the answer: the API has stored the question.
Accepted ==
    /\ turn.at = "asking"
    /\ turn' = [turn EXCEPT !.at = "streaming"]
    /\ stored' = [stored EXCEPT ![turn.of] = @ \union {turns}]
    /\ accepted' = accepted \union {turns}
    /\ UNCHANGED <<place, selected, thread, reads, readCount, turns>>

\* Mistake: a refused question is left in the thread until it is read again.
AfterRefusal_Left == thread

\* The patch of send that takes back a question the API did not accept.
AfterRefusal == IF thread = NoThread THEN thread ELSE [thread EXCEPT !.questions = @ \ {turns}]

\* Refused, stopped or lost before the head (the API may have stored a question
\* whose head was lost): the question is taken back and the thread of the
\* page's league is read again.
Refused ==
    /\ turn.at = "asking" /\ turn' = NoTurn
    /\ \/ UNCHANGED <<stored, accepted>>
       \/ /\ stored' = [stored EXCEPT ![turn.of] = @ \union {turns}]
          /\ accepted' = accepted \union {turns}
    /\ thread' = AfterRefusal
    /\ Fetch([place EXCEPT !.fixture = turn.of.fixture])
    /\ UNCHANGED <<place, selected, turns>>

\* finished: the answer, whole, stopped or broken, joins the thread.
Finished ==
    /\ turn.at = "streaming" /\ turn' = NoTurn
    /\ UNCHANGED <<place, selected, thread, reads, readCount, turns, stored, accepted>>

\* clear: deletes the thread of the page's league, and reads it again; when the
\* delete fails nothing changes.
Clear ==
    /\ thread # NoThread /\ turn = NoTurn
    /\ stored' = [stored EXCEPT ![place] = {}]
    /\ Fetch(place)
    /\ UNCHANGED <<place, selected, thread, turn, turns, accepted>>

Next ==
    \/ \E f \in Fixture : OpenMatch(f)
    \/ \E l \in League : SwitchLeague(l)
    \/ \E p \in reads : ThreadArrives(p) \/ ReadFails(p)
    \/ OpenSheet \/ Send \/ Accepted \/ Refused \/ Finished \/ Clear

Spec == Init /\ [][Next]_vars

-----------------------------------------------------------------------------
\* A question shown in the thread is being asked, or the API accepted it:
\* refused and lost questions do not linger, whatever reads were on their way
\* (chat-control.service.ts:66, send).
ShownWasAccepted == thread.questions \subseteq accepted \union
    (IF turn.at = "asking" THEN {turns} ELSE {})

\* The inductive invariant behind it: the API holds no question it has not accepted, and the one
\* being asked goes to a place.
PanelInv ==
    /\ place \in Place /\ selected \in Place /\ reads \subseteq Place
    /\ thread = [of |-> thread.of, questions |-> thread.questions]
    /\ turn = [at |-> turn.at, of |-> turn.of] /\ (turn # NoTurn => turn.of \in Place)
    /\ stored \in [Place -> SUBSET accepted]
    /\ ShownWasAccepted
=============================================================================
