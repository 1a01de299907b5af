------------------------------- MODULE MatchChat -------------------------------
(***************************************************************************)
(* One member's questions to the match chat (app/chat/service.py, store.py *)
(* and limits.py).                                                         *)
(*                                                                         *)
(* A question is two short transactions around a stream that no            *)
(* transaction spans: `begin` reads the thread, tries the thread's lock,   *)
(* looks whether an answer is still streaming, counts the limits and       *)
(* stores the question at its commit; `finish` stores the answer, however  *)
(* the stream ended.  Meanwhile the member may ask from another tab or     *)
(* about another match, clear the thread, or the instance may die.         *)
(*                                                                         *)
(* Left out: texts, sources and token counts, the cap over all members     *)
(* (counted like a day's), and the five exchanges a history is cut to.     *)
(***************************************************************************)
EXTENDS Integers, Sequences, FiniteSets
LOCAL INSTANCE TLC

CONSTANTS
    Fixture,        \* the matches whose chat the member opens
    Worker,         \* bound: requests of the member in progress at a time
    ThreadLimit,    \* piele_chat_turns_per_thread
    DayLimit,       \* piele_chat_turns_per_day
    Kickoff,        \* when the chats close
    Day,            \* the span a day's limit looks back
    IN_FLIGHT,      \* how long an unanswered question keeps a thread busy
    MaxTime         \* bound: the clock stops here

ASSUME LimitsAreNatural == ThreadLimit \in Nat /\ DayLimit \in Nat
ASSUME SpansAreNatural ==
    Kickoff \in Nat /\ Day \in Nat \ {0} /\ IN_FLIGHT \in Nat \ {0} /\ MaxTime \in Nat
ASSUME WorkersFinite == IsFiniteSet(Worker) /\ Worker # {} /\ IsFiniteSet(Fixture)

VARIABLES
    now,
    turns,      \* chat_turns, one per question, numbered as they are stored
    thread,     \* fixture -> its chat_messages, oldest created_at first
    worker      \* worker -> the request it is serving

vars == <<now, turns, thread, worker>>

Time == 0 .. MaxTime
Turn == 1 .. Len(turns)     \* every message belongs to a turn that counts
Message == [turn : Turn, role : {"user", "assistant"}, at : Time,
            status : {"complete", "failed", "aborted"}]

Idle == [pc |-> "idle"]
Beginning == [pc : {"reading", "locked", "counted"}, fixture : Fixture, moment : Time,
              messages : Seq(Message)]
Streaming == [pc : {"streaming"}, fixture : Fixture, turn : Turn,
              history : SUBSET (Message \X Message)]

TypeOK ==
    /\ now \in Time
    /\ turns \in Seq([fixture : Fixture, at : Time])
    /\ thread \in [Fixture -> Seq(Message)]
    /\ worker \in [Worker -> {Idle} \union Beginning \union Streaming]

Init ==
    /\ now = 0
    /\ turns = <<>>
    /\ thread = [f \in Fixture |-> <<>>]
    /\ worker = [w \in Worker |-> Idle]

-----------------------------------------------------------------------------

\* limits.is_open, for a season that stays open and clocks past the opening.
IsOpen == now < Kickoff

\* limits.used.
InThread(f) == {i \in DOMAIN turns : turns[i].fixture = f}
Today(moment) == {i \in DOMAIN turns : moment - Day < turns[i].at /\ turns[i].at <= moment}

\* Mistake: off by one.
WithinLimits_OneMore(f, moment) ==
    Cardinality(InThread(f)) < ThreadLimit /\ Cardinality(Today(moment)) <= DayLimit

\* limits.check.
WithinLimits(f, moment) ==
    Cardinality(InThread(f)) < ThreadLimit /\ Cardinality(Today(moment)) < DayLimit

\* store.in_flight.
InFlight(messages, moment) ==
    /\ messages # <<>>
    /\ LET last == messages[Len(messages)] IN
       last.role = "user" /\ last.at > moment - IN_FLIGHT

\* store.history: neighbours in the thread, a question and a complete answer.
History(messages) ==
    {<<messages[i], messages[i+1]>> :
        i \in {i \in 1 .. Len(messages) - 1 : /\ messages[i].role = "user"
                                             /\ messages[i+1].role = "assistant"
                                             /\ messages[i+1].status = "complete"}}

\* store.thread: oldest created_at first, and of one created_at the questions first.
NotAfter(m, n) == m.at < n.at \/ (m.at = n.at /\ (m.role = "user" \/ n.role = "assistant"))

\* Mistake: of one created_at, whatever is stored later comes first.
Inserted_TiesReversed(messages, message) ==
    LET n == Cardinality({i \in DOMAIN messages : messages[i].at < message.at}) IN
    SubSeq(messages, 1, n) \o <<message>> \o SubSeq(messages, n + 1, Len(messages))

\* The thread, kept in that order, with one more message.
Inserted(messages, message) ==
    LET n == Cardinality({i \in DOMAIN messages : NotAfter(messages[i], message)}) IN
    SubSeq(messages, 1, n) \o <<message>> \o SubSeq(messages, n + 1, Len(messages))

\* limits.try_lock: the advisory lock is held until the first transaction commits.
Locked(f) == \E w \in Worker : worker[w].pc \in {"locked", "counted"} /\ worker[w].fixture = f

-----------------------------------------------------------------------------
(* Transaction one: service.begin.                                         *)

Refuse(w) == worker' = [worker EXCEPT ![w] = Idle]

ReadThread(w, f) ==
    /\ worker[w] = Idle /\ IsOpen
    /\ worker' = [worker EXCEPT ![w] =
            [pc |-> "reading", fixture |-> f, moment |-> now, messages |-> thread[f]]]
    /\ UNCHANGED <<now, turns, thread>>

\* Mistake: nobody else's first transaction is looked for.
TryLock_Unlocked(w) ==
    /\ worker[w].pc = "reading"
    /\ IF InFlight(worker[w].messages, worker[w].moment)
       THEN Refuse(w)
       ELSE worker' = [worker EXCEPT ![w].pc = "locked"]
    /\ UNCHANGED <<now, turns, thread>>

TryLock(w) ==
    /\ worker[w].pc = "reading"
    /\ IF Locked(worker[w].fixture) \/ InFlight(worker[w].messages, worker[w].moment)
       THEN Refuse(w)
       ELSE worker' = [worker EXCEPT ![w].pc = "locked"]
    /\ UNCHANGED <<now, turns, thread>>

CountTurns(w) ==
    /\ worker[w].pc = "locked"
    /\ IF WithinLimits(worker[w].fixture, worker[w].moment)
       THEN worker' = [worker EXCEPT ![w].pc = "counted"]
       ELSE Refuse(w)
    /\ UNCHANGED <<now, turns, thread>>

\* Mistake: the turn is not counted.
StoreQuestion_Uncounted(w) ==
    /\ worker[w].pc = "counted"
    /\ LET r == worker[w]
           turn == Len(turns) + 1
       IN /\ thread' = [thread EXCEPT ![r.fixture] = Inserted(@,
                [turn |-> turn, role |-> "user", at |-> r.moment, status |-> "complete"])]
          /\ worker' = [worker EXCEPT ![w] = [pc |-> "streaming", fixture |-> r.fixture,
                turn |-> turn, history |-> History(r.messages)]]
    /\ UNCHANGED <<now, turns>>

StoreQuestion(w) ==
    /\ worker[w].pc = "counted"
    /\ LET r == worker[w]
           turn == Len(turns) + 1
       IN /\ turns' = Append(turns, [fixture |-> r.fixture, at |-> r.moment])
          /\ thread' = [thread EXCEPT ![r.fixture] = Inserted(@,
                [turn |-> turn, role |-> "user", at |-> r.moment, status |-> "complete"])]
          /\ worker' = [worker EXCEPT ![w] = [pc |-> "streaming", fixture |-> r.fixture,
                turn |-> turn, history |-> History(r.messages)]]
    /\ UNCHANGED now

-----------------------------------------------------------------------------
(* The stream, and transaction two: service.finish.                        *)

\* The stream ended, broke off, was left by the browser or never started: in every case an
\* answer is stored.
Finish(w, status) ==
    /\ worker[w].pc = "streaming"
    /\ LET r == worker[w] IN
       thread' = [thread EXCEPT ![r.fixture] = Inserted(@,
            [turn |-> r.turn, role |-> "assistant", at |-> now, status |-> status])]
    /\ worker' = [worker EXCEPT ![w] = Idle]
    /\ UNCHANGED <<now, turns>>

\* The instance dies, or the answer cannot be stored (_finish_quietly): a first transaction
\* is rolled back, a stored question stays without an answer.
Die(w) ==
    /\ worker[w] # Idle
    /\ worker' = [worker EXCEPT ![w] = Idle]
    /\ UNCHANGED <<now, turns, thread>>

\* service.clear: the messages go, the turns stay counted.
ClearThread(f) ==
    /\ thread[f] # <<>>
    /\ thread' = [thread EXCEPT ![f] = <<>>]
    /\ UNCHANGED <<now, turns, worker>>

Tick ==
    /\ now < MaxTime
    /\ now' = now + 1
    /\ UNCHANGED <<turns, thread, worker>>

Next ==
    \/ \E w \in Worker : \/ \E f \in Fixture : ReadThread(w, f)
                         \/ TryLock(w) \/ CountTurns(w) \/ StoreQuestion(w)
                         \/ \E status \in {"complete", "failed", "aborted"} : Finish(w, status)
                         \/ Die(w)
    \/ \E f \in Fixture : ClearThread(f)
    \/ Tick

Spec == Init /\ [][Next]_vars
-----------------------------------------------------------------------------

\* The questions about one match never exceed the thread's limit, whatever is asked at the
\* same moment: the count is taken under the thread's lock.
ThreadLimitHolds == \A f \in Fixture : Cardinality(InThread(f)) <= ThreadLimit

\* The day's limit is counted without a lock over the member's other threads, and as of the
\* request's own moment: no span of a day holds more questions than the limit and the other
\* requests that may be in progress.
DayLimitNearlyHolds ==
    \A moment \in Time : Cardinality(Today(moment)) <= DayLimit + Cardinality(Worker) - 1

\* However two transactions interleave, an answer is shown after its own question, and a turn
\* has one of each at most.
AnswersFollowQuestions ==
    \A f \in Fixture : \A i, j \in DOMAIN thread[f] :
        thread[f][i].turn = thread[f][j].turn /\ i < j =>
            thread[f][i].role = "user" /\ thread[f][j].role = "assistant"

\* The model is told "each question with its complete answer" (store.history), never another
\* question's. Of two messages with one created_at the next may come first, so nothing is said
\* of those.
HistoryPairsMatch ==
    \A w \in Worker : worker[w].pc = "streaming" =>
        \A exchange \in worker[w].history :
            exchange[1].at < exchange[2].at => exchange[1].turn = exchange[2].turn

-----------------------------------------------------------------------------
\* For TLC: requests are alike, and so are matches.
Symmetry == Permutations(Worker) \union Permutations(Fixture)
=============================================================================
