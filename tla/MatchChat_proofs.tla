--------------------------- MODULE MatchChat_proofs ---------------------------
(***************************************************************************)
(* Proofs about MatchChat, for any number of matches, of requests in       *)
(* progress at a time, any limits and spans.                               *)
(***************************************************************************)
EXTENDS MatchChat, TLAPS, SequenceTheorems, FiniteSetTheorems

\* The lock is one request's, and a request that has counted leaves room for its question:
\* nobody else can store one about the match before it does.
LockIsExclusive ==
    \A v, w \in Worker :
        /\ worker[v].pc \in {"locked", "counted"} /\ worker[w].pc \in {"locked", "counted"}
        /\ worker[v].fixture = worker[w].fixture
        => v = w

CountedLeavesRoom ==
    \A w \in Worker :
        worker[w].pc = "counted" => Cardinality(InThread(worker[w].fixture)) < ThreadLimit

LimitInv == TypeOK /\ LockIsExclusive /\ CountedLeavesRoom /\ ThreadLimitHolds

-----------------------------------------------------------------------------
(* The operators.                                                          *)

\* A message goes somewhere into the thread.
LEMMA InsertedType ==
    ASSUME NEW S, NEW s \in Seq(S), NEW m \in S
    PROVE  Inserted(s, m) \in Seq(S)
<1> DEFINE earlier == {i \in DOMAIN s : NotAfter(s[i], m)}
           n == Cardinality(earlier)
<1>1. DOMAIN s = 1 .. Len(s) /\ Len(s) \in Nat
  BY LenProperties
<1>2. IsFiniteSet(1 .. Len(s)) /\ Cardinality(1 .. Len(s)) = Len(s)
  BY <1>1, FS_Interval
<1>3. earlier \subseteq 1 .. Len(s)
  BY <1>1
<1>4. n \in Nat /\ n <= Len(s)
  BY <1>2, <1>3, FS_Subset, FS_CardinalityType
<1> HIDE DEF n
<1>5. SubSeq(s, 1, n) \in Seq(S)
  BY <1>1, <1>4, SubSeqProperties
<1>6. SubSeq(s, n + 1, Len(s)) \in Seq(S)
  BY <1>1, <1>4, SubSeqProperties
<1>7. <<m>> \in Seq(S)
  OBVIOUS
<1>8. SubSeq(s, 1, n) \o <<m>> \o SubSeq(s, n + 1, Len(s)) \in Seq(S)
  BY <1>5, <1>6, <1>7, ConcatProperties
<1> QED BY <1>8 DEF Inserted, n

\* A history is exchanges of the thread it was taken from.
LEMMA HistoryType ==
    ASSUME NEW S, NEW s \in Seq(S)
    PROVE  History(s) \subseteq S \X S
<1>1. \A i \in 1 .. Len(s) - 1 : i \in 1 .. Len(s) /\ i + 1 \in 1 .. Len(s)
  BY LenProperties
<1>2. \A i \in 1 .. Len(s) : s[i] \in S
  BY ElementOfSeq
<1> QED BY <1>1, <1>2 DEF History

\* Another question counts for its own match alone.
LEMMA OneMoreTurn ==
    ASSUME TypeOK, NEW f \in Fixture, NEW t \in Time,
           turns' = Append(turns, [fixture |-> f, at |-> t])
    PROVE  \A g \in Fixture :
              /\ IsFiniteSet(InThread(g)) /\ Cardinality(InThread(g)) \in Nat
              /\ Cardinality(InThread(g)') = Cardinality(InThread(g)) + (IF g = f THEN 1 ELSE 0)
<1> DEFINE TurnRow == [fixture : Fixture, at : Time]
<1>1. turns \in Seq(TurnRow) /\ Len(turns) \in Nat /\ DOMAIN turns = 1 .. Len(turns)
  BY LenProperties DEF TypeOK
<1>2. /\ DOMAIN turns' = 1 .. Len(turns) + 1
      /\ \A i \in 1 .. Len(turns) : turns'[i] = turns[i]
      /\ turns'[Len(turns) + 1] = [fixture |-> f, at |-> t]
  <2>1. [fixture |-> f, at |-> t] \in TurnRow
    OBVIOUS
  <2> QED BY <1>1, <2>1, AppendProperties, LenProperties
<1> TAKE g \in Fixture
<1>3. IsFiniteSet(InThread(g)) /\ Cardinality(InThread(g)) \in Nat
  <2>1. InThread(g) \subseteq 1 .. Len(turns)
    BY <1>1 DEF InThread
  <2>2. IsFiniteSet(1 .. Len(turns))
    BY <1>1, FS_Interval
  <2> QED BY <2>1, <2>2, FS_Subset, FS_CardinalityType
<1>4. CASE g = f
  <2>1. InThread(g)' = InThread(g) \union {Len(turns) + 1}
    BY <1>1, <1>2, <1>4 DEF InThread
  <2>2. Len(turns) + 1 \notin InThread(g)
    BY <1>1 DEF InThread
  <2> QED BY <2>1, <2>2, <1>3, <1>4, FS_AddElement
<1>5. CASE g # f
  <2>1. InThread(g)' = InThread(g)
    BY <1>1, <1>2, <1>5 DEF InThread
  <2> QED BY <2>1, <1>3, <1>5
<1> QED BY <1>3, <1>4, <1>5

-----------------------------------------------------------------------------
(* Types.                                                                  *)

LEMMA TypeInit == Init => TypeOK
BY SpansAreNatural DEF Init, TypeOK, Time

\* Nothing has to be said again about a worker that becomes idle.
LEMMA BeginningType ==
    ASSUME TypeOK, NEW w \in Worker, worker[w].pc \in {"reading", "locked", "counted"}
    PROVE  worker[w] \in Beginning
BY DEF TypeOK, Idle, Beginning, Streaming

LEMMA StreamingType ==
    ASSUME TypeOK, NEW w \in Worker, worker[w].pc = "streaming"
    PROVE  worker[w] \in Streaming
<1>1. worker[w] \in {Idle} \union Beginning \union Streaming
  BY DEF TypeOK
<1>2. worker[w] # Idle
  BY DEF Idle
<1>3. worker[w] \notin Beginning
  BY DEF Beginning
<1> QED BY <1>1, <1>2, <1>3

LEMMA AdvancedType ==
    ASSUME TypeOK, NEW w \in Worker, worker[w] \in Beginning, NEW pc \in {"locked", "counted"},
           worker' = [worker EXCEPT ![w].pc = pc], UNCHANGED <<now, turns, thread>>
    PROVE  TypeOK'
<1>1. [worker[w] EXCEPT !.pc = pc] \in Beginning
  BY DEF Beginning
<1> QED BY <1>1 DEF TypeOK, Beginning, Streaming, Message, Turn

LEMMA IdleType ==
    ASSUME TypeOK, NEW w \in Worker, worker' = [worker EXCEPT ![w] = Idle],
           UNCHANGED <<now, turns, thread>>
    PROVE  TypeOK'
BY DEF TypeOK, Beginning, Streaming, Message, Turn

LEMMA TypeNext == TypeOK /\ [Next]_vars => TypeOK'
<1> SUFFICES ASSUME TypeOK, [Next]_vars PROVE TypeOK'
  OBVIOUS
<1>1. ASSUME NEW w \in Worker, NEW f \in Fixture, ReadThread(w, f) PROVE TypeOK'
  <2>1. [pc |-> "reading", fixture |-> f, moment |-> now, messages |-> thread[f]] \in Beginning
    BY DEF TypeOK, Beginning
  <2> QED BY <1>1, <2>1 DEF ReadThread, TypeOK, Beginning, Streaming, Message, Turn
<1>2. ASSUME NEW w \in Worker, TryLock(w) PROVE TypeOK'
  BY <1>2, BeginningType, AdvancedType, IdleType DEF TryLock, Refuse
<1>3. ASSUME NEW w \in Worker, CountTurns(w) PROVE TypeOK'
  BY <1>3, BeginningType, AdvancedType, IdleType DEF CountTurns, Refuse
<1>4. ASSUME NEW w \in Worker, StoreQuestion(w) PROVE TypeOK'
  <2> DEFINE r == worker[w]
             turn == Len(turns) + 1
             row == [fixture |-> r.fixture, at |-> r.moment]
             question == [turn |-> turn, role |-> "user", at |-> r.moment, status |-> "complete"]
             streaming == [pc |-> "streaming", fixture |-> r.fixture, turn |-> turn,
                           history |-> History(r.messages)]
  <2>1. r \in Beginning
    BY <1>4, BeginningType DEF StoreQuestion
  <2>2. row \in [fixture : Fixture, at : Time] /\ turns' = Append(turns, row)
    BY <1>4, <2>1 DEF StoreQuestion, Beginning
  <2>3. turns' \in Seq([fixture : Fixture, at : Time]) /\ Len(turns') = turn /\ turn \in Nat
    BY <2>2, AppendProperties, LenProperties DEF TypeOK
  <2>4. Turn \subseteq Turn' /\ turn \in Turn'
    BY <2>3, LenProperties DEF Turn, TypeOK
  <2>5. Message \subseteq Message' /\ question \in Message'
    BY <2>1, <2>4 DEF Message, Beginning, Time
  <2>6. \A S, T : S \subseteq T => Seq(S) \subseteq Seq(T)
    OBVIOUS
  <2>7. thread \in [Fixture -> Seq(Message')]
    BY <2>5, <2>6 DEF TypeOK
  <2>8. Inserted(thread[r.fixture], question) \in Seq(Message')
    BY <2>1, <2>5, <2>7, InsertedType DEF Beginning
  <2>9. thread' \in [Fixture -> Seq(Message')]
    BY <1>4, <2>7, <2>8 DEF StoreQuestion
  <2>10. r.messages \in Seq(Message')
    BY <2>1, <2>5, <2>6 DEF Beginning
  <2>11. History(r.messages) \subseteq Message' \X Message'
    BY <2>10, HistoryType
  <2>12. streaming \in Streaming'
    BY <2>1, <2>4, <2>11 DEF Streaming, Beginning
  <2>13. Beginning \subseteq Beginning'
    BY <2>5, <2>6 DEF Beginning, Time
  <2>14. Streaming \subseteq Streaming'
    BY <2>4, <2>5 DEF Streaming
  <2>15. worker' = [worker EXCEPT ![w] = streaming] /\ now' = now
    BY <1>4 DEF StoreQuestion
  <2> QED BY <2>3, <2>9, <2>12, <2>13, <2>14, <2>15 DEF TypeOK, Time
<1>5. ASSUME NEW w \in Worker, NEW status \in {"complete", "failed", "aborted"}, Finish(w, status)
      PROVE  TypeOK'
  <2> DEFINE r == worker[w]
             answer == [turn |-> r.turn, role |-> "assistant", at |-> now, status |-> status]
  <2>1. r \in Streaming
    BY <1>5, StreamingType DEF Finish
  <2>2. answer \in Message
    BY <2>1 DEF Streaming, Message, TypeOK
  <2>3. Inserted(thread[r.fixture], answer) \in Seq(Message)
    BY <2>1, <2>2, InsertedType DEF Streaming, TypeOK
  <2>4. thread' \in [Fixture -> Seq(Message)]
    BY <1>5, <2>3 DEF Finish, TypeOK
  <2> QED BY <1>5, <2>4 DEF Finish, TypeOK, Beginning, Streaming, Message, Turn
<1>6. ASSUME NEW w \in Worker, Die(w) PROVE TypeOK'
  BY <1>6, IdleType DEF Die
<1>7. ASSUME NEW f \in Fixture, ClearThread(f) PROVE TypeOK'
  <2>1. <<>> \in Seq(Message)
    OBVIOUS
  <2>2. thread' \in [Fixture -> Seq(Message)]
    BY <1>7, <2>1 DEF ClearThread, TypeOK
  <2> QED BY <1>7, <2>2 DEF ClearThread, TypeOK, Beginning, Streaming, Message, Turn
<1>8. ASSUME Tick PROVE TypeOK'
  <2>1. now' \in Time
    BY <1>8, SpansAreNatural DEF Tick, TypeOK, Time
  <2> QED BY <1>8, <2>1 DEF Tick, TypeOK, Beginning, Streaming, Message, Turn
<1>9. CASE UNCHANGED vars
  BY <1>9 DEF vars, TypeOK, Beginning, Streaming, Message, Turn
<1> QED BY <1>1, <1>2, <1>3, <1>4, <1>5, <1>6, <1>7, <1>8, <1>9 DEF Next

\* The variables keep their types: every stored message belongs to a turn that counts.
THEOREM ChatTypeCorrect == Spec => []TypeOK
BY TypeInit, TypeNext, PTL DEF Spec

-----------------------------------------------------------------------------
(* The thread's limit.                                                     *)

LEMMA LimitInit == Init => LimitInv
<1> SUFFICES ASSUME Init PROVE LimitInv
  OBVIOUS
<1>1. TypeOK
  BY TypeInit
<1>2. \A w \in Worker : worker[w].pc = "idle"
  BY DEF Init, Idle
<1>3. ThreadLimitHolds
  <2> SUFFICES ASSUME NEW f \in Fixture PROVE Cardinality(InThread(f)) <= ThreadLimit
    BY DEF ThreadLimitHolds
  <2>1. InThread(f) = {}
    BY DEF Init, InThread
  <2> QED BY <2>1, FS_EmptySet, LimitsAreNatural
<1> QED BY <1>1, <1>2, <1>3 DEF LimitInv, LockIsExclusive, CountedLeavesRoom

\* A step that stores no question keeps the limit when nobody comes to hold a lock by it.
LEMMA NothingStored ==
    ASSUME LimitInv, UNCHANGED turns,
           \A v \in Worker : worker'[v].pc \in {"locked", "counted"} =>
               worker[v].pc = worker'[v].pc /\ worker[v].fixture = worker'[v].fixture
    PROVE  LockIsExclusive' /\ CountedLeavesRoom' /\ ThreadLimitHolds'
<1>1. LockIsExclusive'
  BY DEF LimitInv, LockIsExclusive
<1>2. CountedLeavesRoom'
  BY DEF LimitInv, CountedLeavesRoom, InThread
<1>3. ThreadLimitHolds'
  BY DEF LimitInv, ThreadLimitHolds, InThread
<1> QED BY <1>1, <1>2, <1>3

\* In particular a step that ends a request.
LEMMA OneRests ==
    ASSUME LimitInv, UNCHANGED turns, NEW w \in Worker, worker' = [worker EXCEPT ![w] = Idle]
    PROVE  LockIsExclusive' /\ CountedLeavesRoom' /\ ThreadLimitHolds'
<1>1. \A v \in Worker : worker'[v] = IF v = w THEN Idle ELSE worker[v]
  BY DEF LimitInv, TypeOK
<1> QED BY <1>1, NothingStored DEF Idle

LEMMA LimitNext == LimitInv /\ [Next]_vars => LimitInv'
<1> SUFFICES ASSUME LimitInv, [Next]_vars
             PROVE  LockIsExclusive' /\ CountedLeavesRoom' /\ ThreadLimitHolds'
  BY TypeNext DEF LimitInv
<1>0. TypeOK
  BY DEF LimitInv
<1>1. ASSUME NEW w \in Worker, NEW f \in Fixture, ReadThread(w, f)
      PROVE  LockIsExclusive' /\ CountedLeavesRoom' /\ ThreadLimitHolds'
  <2>1. worker'[w].pc = "reading" /\ \A v \in Worker \ {w} : worker'[v] = worker[v]
    BY <1>0, <1>1 DEF ReadThread, TypeOK
  <2>2. UNCHANGED turns
    BY <1>1 DEF ReadThread
  <2> QED BY <2>1, <2>2, NothingStored
<1>2. ASSUME NEW w \in Worker, TryLock(w)
      PROVE  LockIsExclusive' /\ CountedLeavesRoom' /\ ThreadLimitHolds'
  <2>1. CASE Locked(worker[w].fixture) \/ InFlight(worker[w].messages, worker[w].moment)
    BY <1>2, <2>1, OneRests DEF TryLock, Refuse
  <2>2. CASE ~Locked(worker[w].fixture) /\ ~InFlight(worker[w].messages, worker[w].moment)
    <3>1. worker[w] \in Beginning
      BY <1>0, <1>2, BeginningType DEF TryLock
    <3>2. /\ worker'[w].pc = "locked" /\ worker'[w].fixture = worker[w].fixture
          /\ \A v \in Worker \ {w} : worker'[v] = worker[v]
      BY <1>0, <1>2, <2>2, <3>1 DEF TryLock, TypeOK, Beginning
    <3>3. \A v \in Worker : ~(/\ worker[v].pc \in {"locked", "counted"}
                              /\ worker[v].fixture = worker[w].fixture)
      BY <2>2 DEF Locked
    <3>4. LockIsExclusive'
      <4> SUFFICES ASSUME NEW u \in Worker, NEW v \in Worker,
                          worker'[u].pc \in {"locked", "counted"},
                          worker'[v].pc \in {"locked", "counted"},
                          worker'[u].fixture = worker'[v].fixture
                   PROVE  u = v
        BY DEF LockIsExclusive
      <4>1. CASE u = w
        BY <3>2, <3>3, <4>1
      <4>2. CASE v = w
        BY <3>2, <3>3, <4>2
      <4>3. CASE u # w /\ v # w
        BY <3>2, <4>3 DEF LimitInv, LockIsExclusive
      <4> QED BY <4>1, <4>2, <4>3
    <3>5. UNCHANGED turns
      BY <1>2 DEF TryLock
    <3>6. CountedLeavesRoom'
      BY <3>2, <3>5 DEF LimitInv, CountedLeavesRoom, InThread
    <3>7. ThreadLimitHolds'
      BY <3>5 DEF LimitInv, ThreadLimitHolds, InThread
    <3> QED BY <3>4, <3>6, <3>7
  <2> QED BY <2>1, <2>2
<1>3. ASSUME NEW w \in Worker, CountTurns(w)
      PROVE  LockIsExclusive' /\ CountedLeavesRoom' /\ ThreadLimitHolds'
  <2>1. CASE ~WithinLimits(worker[w].fixture, worker[w].moment)
    BY <1>3, <2>1, OneRests DEF CountTurns, Refuse
  <2>2. CASE WithinLimits(worker[w].fixture, worker[w].moment)
    <3>1. worker[w] \in Beginning /\ worker[w].pc = "locked"
      BY <1>0, <1>3, BeginningType DEF CountTurns
    <3>2. /\ worker'[w].pc = "counted" /\ worker'[w].fixture = worker[w].fixture
          /\ \A v \in Worker \ {w} : worker'[v] = worker[v]
      BY <1>0, <1>3, <2>2, <3>1 DEF CountTurns, TypeOK, Beginning
    <3>3. LockIsExclusive'
      <4>1. \A v \in Worker : /\ worker'[v].fixture = worker[v].fixture
                              /\ worker'[v].pc \in {"locked", "counted"} =>
                                     worker[v].pc \in {"locked", "counted"}
        BY <3>1, <3>2
      <4> QED BY <4>1 DEF LimitInv, LockIsExclusive
    <3>4. UNCHANGED turns
      BY <1>3 DEF CountTurns
    <3>5. Cardinality(InThread(worker[w].fixture)) < ThreadLimit
      BY <2>2 DEF WithinLimits
    <3>6. CountedLeavesRoom'
      BY <3>2, <3>4, <3>5 DEF LimitInv, CountedLeavesRoom, InThread
    <3>7. ThreadLimitHolds'
      BY <3>4 DEF LimitInv, ThreadLimitHolds, InThread
    <3> QED BY <3>3, <3>6, <3>7
  <2> QED BY <2>1, <2>2
<1>4. ASSUME NEW w \in Worker, StoreQuestion(w)
      PROVE  LockIsExclusive' /\ CountedLeavesRoom' /\ ThreadLimitHolds'
  <2> DEFINE f == worker[w].fixture
  <2>1. worker[w] \in Beginning /\ f \in Fixture /\ worker[w].moment \in Time
    BY <1>0, <1>4, BeginningType DEF StoreQuestion, Beginning
  <2>2. turns' = Append(turns, [fixture |-> f, at |-> worker[w].moment])
    BY <1>4 DEF StoreQuestion
  <2>3. worker'[w].pc = "streaming" /\ \A v \in Worker \ {w} : worker'[v] = worker[v]
    BY <1>0, <1>4 DEF StoreQuestion, TypeOK
  <2>4. \A g \in Fixture :
            /\ Cardinality(InThread(g)) \in Nat
            /\ Cardinality(InThread(g)') = Cardinality(InThread(g)) + (IF g = f THEN 1 ELSE 0)
    BY <1>0, <2>1, <2>2, OneMoreTurn
  <2>5. worker[w].pc = "counted" /\ Cardinality(InThread(f)) < ThreadLimit
    BY <1>4 DEF StoreQuestion, LimitInv, CountedLeavesRoom
  <2>6. ThreadLimitHolds'
    BY <2>4, <2>5, LimitsAreNatural DEF LimitInv, ThreadLimitHolds
  <2>7. LockIsExclusive'
    BY <2>3 DEF LimitInv, LockIsExclusive
  <2>8. CountedLeavesRoom'
    <3> SUFFICES ASSUME NEW v \in Worker, worker'[v].pc = "counted"
                 PROVE  Cardinality(InThread(worker[v].fixture)') < ThreadLimit
      BY <2>3 DEF CountedLeavesRoom, InThread
    <3>1. v # w /\ worker'[v] = worker[v]
      BY <2>3
    <3>2. worker[v].fixture \in Fixture
      BY <1>0, <3>1, BeginningType DEF Beginning
    <3>3. worker[v].fixture # f
      BY <2>5, <3>1 DEF LimitInv, LockIsExclusive
    <3>4. Cardinality(InThread(worker[v].fixture)) < ThreadLimit
      BY <3>1 DEF LimitInv, CountedLeavesRoom
    <3> QED BY <2>4, <3>1, <3>2, <3>3, <3>4
  <2> QED BY <2>6, <2>7, <2>8
<1>5. ASSUME NEW w \in Worker, NEW status \in {"complete", "failed", "aborted"}, Finish(w, status)
      PROVE  LockIsExclusive' /\ CountedLeavesRoom' /\ ThreadLimitHolds'
  BY <1>5, OneRests DEF Finish
<1>6. ASSUME NEW w \in Worker, Die(w)
      PROVE  LockIsExclusive' /\ CountedLeavesRoom' /\ ThreadLimitHolds'
  BY <1>6, OneRests DEF Die
<1>7. ASSUME NEW f \in Fixture, ClearThread(f)
      PROVE  LockIsExclusive' /\ CountedLeavesRoom' /\ ThreadLimitHolds'
  BY <1>7, NothingStored DEF ClearThread
<1>8. ASSUME Tick PROVE LockIsExclusive' /\ CountedLeavesRoom' /\ ThreadLimitHolds'
  BY <1>8, NothingStored DEF Tick
<1>9. CASE UNCHANGED vars
  BY <1>9, NothingStored DEF vars
<1> QED BY <1>1, <1>2, <1>3, <1>4, <1>5, <1>6, <1>7, <1>8, <1>9 DEF Next

\* However many requests of one member race, the questions about a match never exceed the
\* thread's limit: a request counts and stores under the thread's lock, so the room it counted
\* is still there when it stores.
THEOREM ThreadLimitKept == Spec => []ThreadLimitHolds
<1>1. LimitInv => ThreadLimitHolds
  BY DEF LimitInv
<1> QED BY <1>1, LimitInit, LimitNext, PTL DEF Spec
-----------------------------------------------------------------------------
(* The day's limit.                                                        *)

\* The member's questions of the span (s, m], and the requests that may still store one there:
\* those that have counted, and those that have not but began before m and would pass.
Between(s, m) == {i \in DOMAIN turns : s < turns[i].at /\ turns[i].at <= m}

MayStore(w, s, m) ==
    \/ worker[w].pc = "counted" /\ s < worker[w].moment /\ worker[w].moment <= m
    \/ /\ worker[w].pc \in {"reading", "locked"}
       /\ s < worker[w].moment /\ worker[w].moment < m
       /\ Cardinality(Today(worker[w].moment)) < DayLimit

Pending(s, m) == {w \in Worker : MayStore(w, s, m)}

\* Nothing is dated in the future.
Past ==
    /\ \A i \in DOMAIN turns : turns[i].at <= now
    /\ \A w \in Worker : worker[w].pc \in {"reading", "locked", "counted"} => worker[w].moment <= now

\* What is stored in a span of a day and what may still be: the invariant behind the limit. A
\* request that begins now is let in only by its own count; those that are already in are the
\* other requests in progress.
DayRoom ==
    \A s, m \in Int :
        s <= m /\ m <= s + Day /\ m <= now =>
            Cardinality(Between(s, m)) + Cardinality(Pending(s, m))
                <= DayLimit + Cardinality(Worker) - 1

DayInv == TypeOK /\ Past /\ DayRoom

LEMMA SpansAreFinite ==
    ASSUME TypeOK, NEW s, NEW m
    PROVE  /\ IsFiniteSet(Between(s, m)) /\ Cardinality(Between(s, m)) \in Nat
           /\ IsFiniteSet(Pending(s, m)) /\ Cardinality(Pending(s, m)) \in Nat
           /\ Cardinality(Pending(s, m)) <= Cardinality(Worker)
           /\ Cardinality(Worker) \in Nat \ {0}
<1>1. DOMAIN turns = 1 .. Len(turns) /\ Len(turns) \in Nat
  BY LenProperties DEF TypeOK
<1>2. IsFiniteSet(Between(s, m)) /\ Cardinality(Between(s, m)) \in Nat
  <2>1. IsFiniteSet(1 .. Len(turns)) /\ Between(s, m) \subseteq 1 .. Len(turns)
    BY <1>1, FS_Interval DEF Between
  <2> QED BY <2>1, FS_Subset, FS_CardinalityType
<1>3. Pending(s, m) \subseteq Worker
  BY DEF Pending
<1>4. Cardinality(Worker) \in Nat \ {0}
  BY WorkersFinite, FS_CardinalityType, FS_EmptySet
<1> QED BY <1>2, <1>3, <1>4, WorkersFinite, FS_Subset, FS_CardinalityType

LEMMA TurnsAreTyped ==
    ASSUME TypeOK
    PROVE  \A i \in DOMAIN turns : turns[i].at \in Int
<1>1. ASSUME NEW i \in DOMAIN turns PROVE turns[i] \in [fixture : Fixture, at : Time]
  BY <1>1, ElementOfSeq, LenProperties DEF TypeOK
<1>2. Time \subseteq Int
  BY SpansAreNatural DEF Time
<1> QED BY <1>1, <1>2

\* The same of the spans after a step.
LEMMA SpansStayFinite ==
    ASSUME TypeOK', NEW s, NEW m
    PROVE  /\ IsFiniteSet(Between(s, m)') /\ Cardinality(Between(s, m)') \in Nat
           /\ IsFiniteSet(Pending(s, m)') /\ Cardinality(Pending(s, m)') \in Nat
           /\ Cardinality(Pending(s, m)') <= Cardinality(Worker)
           /\ Cardinality(Worker) \in Nat \ {0}
<1>1. DOMAIN turns' = 1 .. Len(turns') /\ Len(turns') \in Nat
  BY LenProperties DEF TypeOK
<1>2. IsFiniteSet(1 .. Len(turns'))
  BY <1>1, FS_Interval
<1>20. Between(s, m)' \subseteq 1 .. Len(turns')
  BY <1>1 DEF Between
<1>3. IsFiniteSet(Between(s, m)') /\ Cardinality(Between(s, m)') \in Nat
  BY <1>2, <1>20, FS_Subset, FS_CardinalityType
<1>4. Pending(s, m)' \subseteq Worker
  BY DEF Pending
<1>5. Cardinality(Worker) \in Nat \ {0}
  BY WorkersFinite, FS_CardinalityType, FS_EmptySet
<1> QED BY <1>3, <1>4, <1>5, WorkersFinite, FS_Subset, FS_CardinalityType

\* A shorter span holds no more questions.
LEMMA ShorterSpan ==
    ASSUME TypeOK, NEW s \in Int, NEW m \in Int, NEW t \in Int, t <= s
    PROVE  Cardinality(Between(s, m)) <= Cardinality(Between(t, m))
<1>1. Between(s, m) \subseteq Between(t, m)
  BY TurnsAreTyped DEF Between
<1> QED BY <1>1, SpansAreFinite, FS_Subset

\* A request whose day has room leaves room for all the others.
LEMMA CountedInTime ==
    ASSUME TypeOK, NEW s \in Int, NEW m \in Int, m <= s + Day,
           Cardinality(Today(m)) < DayLimit
    PROVE  Cardinality(Between(s, m)) + Cardinality(Worker) <= DayLimit + Cardinality(Worker) - 1
<1>1. Today(m) = Between(m - Day, m)
  BY DEF Today, Between
<1>2. m - Day \in Int /\ m - Day <= s
  BY SpansAreNatural
<1>3. Cardinality(Between(s, m)) <= Cardinality(Today(m))
  BY <1>1, <1>2, ShorterSpan
<1>4. Cardinality(Today(m)) \in Nat /\ Cardinality(Between(s, m)) \in Nat /\ Cardinality(Worker) \in Nat
  BY <1>1, SpansAreFinite
<1> QED BY <1>3, <1>4, LimitsAreNatural

\* A step that stores no question, lets no time pass, and lets nobody in.
LEMMA NobodyLetIn ==
    ASSUME DayInv, TypeOK', UNCHANGED <<now, turns>>,
           \A w \in Worker : \A s, m \in Int :
               m <= now /\ MayStore(w, s, m)' => MayStore(w, s, m)
    PROVE  DayRoom'
<1> SUFFICES ASSUME NEW s \in Int, NEW m \in Int, s <= m, m <= s + Day, m <= now
             PROVE  Cardinality(Between(s, m)') + Cardinality(Pending(s, m)')
                        <= DayLimit + Cardinality(Worker) - 1
  BY DEF DayRoom
<1>1. Between(s, m)' = Between(s, m)
  BY DEF Between
<1>2. Pending(s, m)' \subseteq Pending(s, m)
  BY DEF Pending
<1>3. Cardinality(Pending(s, m)') <= Cardinality(Pending(s, m)) /\ Cardinality(Pending(s, m)') \in Nat
  BY <1>2, SpansAreFinite, FS_Subset, FS_CardinalityType DEF DayInv
<1>4. Cardinality(Between(s, m)) + Cardinality(Pending(s, m)) <= DayLimit + Cardinality(Worker) - 1
  BY DEF DayInv, DayRoom
<1> QED BY <1>1, <1>3, <1>4, SpansAreFinite, LimitsAreNatural DEF DayInv

LEMMA DayInit == Init => DayInv
<1> SUFFICES ASSUME Init PROVE DayInv
  OBVIOUS
<1>1. TypeOK /\ turns = <<>> /\ \A w \in Worker : worker[w].pc = "idle"
  BY TypeInit DEF Init, Idle
<1>2. \A s, m \in Int : Between(s, m) = {} /\ Pending(s, m) = {}
  BY <1>1 DEF Between, Pending, MayStore
<1>3. \A s, m \in Int : Cardinality(Between(s, m)) = 0 /\ Cardinality(Pending(s, m)) = 0
  BY <1>2, FS_EmptySet
<1>4. Cardinality(Worker) \in Nat \ {0}
  BY WorkersFinite, FS_CardinalityType, FS_EmptySet
<1> QED BY <1>1, <1>3, <1>4, LimitsAreNatural DEF DayInv, DayRoom, Past

LEMMA PastNext ==
    ASSUME TypeOK, Past, [Next]_vars
    PROVE  Past'
<1>0. now \in Int
  BY SpansAreNatural DEF TypeOK, Time
<1>1. ASSUME NEW w \in Worker, NEW f \in Fixture, ReadThread(w, f) PROVE Past'
  BY <1>0, <1>1 DEF ReadThread, Past, TypeOK
<1>2. ASSUME NEW w \in Worker, TryLock(w) \/ CountTurns(w) \/ Die(w) PROVE Past'
  <2>1. /\ worker[w].pc \in {"reading", "locked"} => worker[w] \in Beginning
        /\ worker[w] # Idle
    BY <1>2, BeginningType DEF TryLock, CountTurns, Die, Idle
  <2>2. \/ worker' = [worker EXCEPT ![w] = Idle]
        \/ /\ worker[w].pc \in {"reading", "locked"}
           /\ \/ worker' = [worker EXCEPT ![w].pc = "locked"]
              \/ worker' = [worker EXCEPT ![w].pc = "counted"]
    BY <1>2 DEF TryLock, CountTurns, Die, Refuse
  <2>3. \A v \in Worker : worker'[v].pc \in {"reading", "locked", "counted"} =>
            /\ worker[v].pc \in {"reading", "locked", "counted"}
            /\ worker'[v].moment = worker[v].moment
    BY <2>1, <2>2 DEF TypeOK, Beginning, Idle
  <2>4. UNCHANGED <<now, turns>>
    BY <1>2 DEF TryLock, CountTurns, Die
  <2> QED BY <2>3, <2>4 DEF Past
<1>3. ASSUME NEW w \in Worker, StoreQuestion(w) PROVE Past'
  <2>1. worker[w] \in Beginning /\ worker[w].moment <= now
    BY <1>3, BeginningType DEF StoreQuestion, Past
  <2>2. turns' = Append(turns, [fixture |-> worker[w].fixture, at |-> worker[w].moment])
    BY <1>3 DEF StoreQuestion
  <2>3. \A i \in DOMAIN turns' : turns'[i].at <= now
    <3> DEFINE row == [fixture |-> worker[w].fixture, at |-> worker[w].moment]
    <3>1. \A i \in 1 .. Len(turns) + 1 : turns'[i] = IF i = Len(turns) + 1 THEN row ELSE turns[i]
      BY <2>2, AppendProperties, LenProperties DEF TypeOK
    <3>2. DOMAIN turns' = 1 .. Len(turns) + 1 /\ DOMAIN turns = 1 .. Len(turns) /\ Len(turns) \in Nat
      BY <2>2, AppendProperties, LenProperties DEF TypeOK
    <3> QED BY <2>1, <3>1, <3>2 DEF Past
  <2>4. worker'[w].pc = "streaming" /\ (\A v \in Worker \ {w} : worker'[v] = worker[v]) /\ now' = now
    BY <1>3 DEF StoreQuestion, TypeOK
  <2> QED BY <2>3, <2>4 DEF Past
<1>4. ASSUME NEW w \in Worker, NEW status, Finish(w, status) PROVE Past'
  <2>1. \A v \in Worker : worker'[v] = IF v = w THEN Idle ELSE worker[v]
    BY <1>4 DEF Finish, TypeOK
  <2>2. UNCHANGED <<now, turns>>
    BY <1>4 DEF Finish
  <2> QED BY <2>1, <2>2 DEF Past, Idle
<1>5. ASSUME NEW f \in Fixture, ClearThread(f) PROVE Past'
  BY <1>5 DEF ClearThread, Past
<1>6. ASSUME Tick PROVE Past'
  <2>1. \A w \in Worker : worker[w].pc \in {"reading", "locked", "counted"} => worker[w].moment \in Int
    BY BeginningType, SpansAreNatural DEF Beginning, Time
  <2> QED BY <1>0, <1>6, <2>1, TurnsAreTyped DEF Tick, Past
<1>7. CASE UNCHANGED vars
  BY <1>7 DEF vars, Past
<1> QED BY <1>1, <1>2, <1>3, <1>4, <1>5, <1>6, <1>7 DEF Next

LEMMA CountKeepsRoom ==
    ASSUME DayInv, TypeOK', NEW w \in Worker, CountTurns(w),
           WithinLimits(worker[w].fixture, worker[w].moment)
    PROVE  DayRoom'
<1> DEFINE x == worker[w].moment
<1>1. worker[w] \in Beginning /\ worker[w].pc = "locked" /\ x \in Int
  BY BeginningType, SpansAreNatural DEF CountTurns, DayInv, Beginning, Time
<1>2. /\ worker'[w].pc = "counted" /\ worker'[w].moment = x
      /\ \A v \in Worker \ {w} : worker'[v] = worker[v]
      /\ UNCHANGED <<now, turns>>
  BY <1>1 DEF CountTurns, DayInv, TypeOK, Beginning
<1>3. Cardinality(Today(x)) < DayLimit
  BY DEF WithinLimits
<1> SUFFICES ASSUME NEW s \in Int, NEW m \in Int, s <= m, m <= s + Day, m <= now
             PROVE  Cardinality(Between(s, m)') + Cardinality(Pending(s, m)')
                        <= DayLimit + Cardinality(Worker) - 1
  BY <1>2 DEF DayRoom
<1>4. Between(s, m)' = Between(s, m) /\ \A t : Today(t)' = Today(t)
  BY <1>2 DEF Between, Today
<1>5. /\ Cardinality(Between(s, m)) \in Nat /\ Cardinality(Pending(s, m)) \in Nat
      /\ Cardinality(Pending(s, m)') \in Nat /\ Cardinality(Pending(s, m)') <= Cardinality(Worker)
      /\ Cardinality(Worker) \in Nat
  BY SpansAreFinite, SpansStayFinite DEF DayInv
<1>6. CASE x = m
  <2>1. Cardinality(Between(s, m)) + Cardinality(Worker) <= DayLimit + Cardinality(Worker) - 1
    BY <1>3, <1>6, CountedInTime DEF DayInv
  <2> QED BY <1>4, <1>5, <2>1, LimitsAreNatural
<1>7. CASE x # m
  <2>1. \A v \in Worker : MayStore(v, s, m)' => MayStore(v, s, m)
    BY <1>1, <1>2, <1>3, <1>4, <1>7 DEF MayStore
  <2>2. Pending(s, m)' \subseteq Pending(s, m)
    BY <2>1 DEF Pending
  <2>3. Cardinality(Pending(s, m)') <= Cardinality(Pending(s, m))
    BY <2>2, SpansAreFinite, FS_Subset DEF DayInv
  <2>4. Cardinality(Between(s, m)) + Cardinality(Pending(s, m)) <= DayLimit + Cardinality(Worker) - 1
    BY DEF DayInv, DayRoom
  <2> QED BY <1>4, <1>5, <2>3, <2>4, LimitsAreNatural
<1> QED BY <1>6, <1>7

\* A question stored is one request fewer that may store one.
LEMMA StoreKeepsRoom ==
    ASSUME DayInv, TypeOK', NEW w \in Worker, StoreQuestion(w)
    PROVE  DayRoom'
<1> DEFINE x == worker[w].moment
           n == Len(turns) + 1
<1>1. worker[w] \in Beginning /\ worker[w].pc = "counted" /\ x \in Int
  BY BeginningType, SpansAreNatural DEF StoreQuestion, DayInv, Beginning, Time
<1>2. /\ worker'[w].pc = "streaming"
      /\ \A v \in Worker \ {w} : worker'[v] = worker[v]
      /\ now' = now
  BY DEF StoreQuestion, DayInv, TypeOK
<1>3. /\ DOMAIN turns = 1 .. (n - 1) /\ DOMAIN turns' = 1 .. n /\ n \in Nat \ {0}
      /\ \A i \in 1 .. (n - 1) : turns'[i] = turns[i]
      /\ turns'[n].at = x
  <2>1. turns' = Append(turns, [fixture |-> worker[w].fixture, at |-> x])
    BY DEF StoreQuestion
  <2>2. [fixture |-> worker[w].fixture, at |-> x] \in [fixture : Fixture, at : Time]
    BY <1>1 DEF Beginning
  <2> QED BY <2>1, <2>2, AppendProperties, LenProperties DEF DayInv, TypeOK
<1>4. \A s, m : Between(s, m)' = Between(s, m) \union (IF s < x /\ x <= m THEN {n} ELSE {})
  BY <1>3 DEF Between
<1>5. \A s, m : n \notin Between(s, m)
  BY <1>3 DEF Between
<1>6. ASSUME NEW t PROVE Cardinality(Today(t)) <= Cardinality(Today(t)')
  <2>1. Today(t) = Between(t - Day, t) /\ Today(t)' = Between(t - Day, t)'
    BY DEF Today, Between
  <2>2. Between(t - Day, t) \subseteq Between(t - Day, t)'
    BY <1>4
  <2> QED BY <2>1, <2>2, SpansStayFinite, FS_Subset
<1>13. ASSUME NEW t PROVE Cardinality(Today(t)) \in Nat /\ Cardinality(Today(t)') \in Nat
  <2>1. Today(t) = Between(t - Day, t) /\ Today(t)' = Between(t - Day, t)'
    BY DEF Today, Between
  <2> QED BY <2>1, SpansAreFinite, SpansStayFinite DEF DayInv
<1> SUFFICES ASSUME NEW s \in Int, NEW m \in Int, s <= m, m <= s + Day, m <= now
             PROVE  Cardinality(Between(s, m)') + Cardinality(Pending(s, m)')
                        <= DayLimit + Cardinality(Worker) - 1
  BY <1>2 DEF DayRoom
<1>7. ASSUME NEW v \in Worker, MayStore(v, s, m)' PROVE v # w /\ MayStore(v, s, m)
  BY <1>2, <1>6, <1>13, <1>7, LimitsAreNatural DEF MayStore
<1>8. Pending(s, m)' \subseteq Pending(s, m) \ {w}
  BY <1>7 DEF Pending
<1>9. /\ Cardinality(Between(s, m)) \in Nat /\ Cardinality(Pending(s, m)) \in Nat
      /\ Cardinality(Pending(s, m)') \in Nat /\ Cardinality(Worker) \in Nat
      /\ IsFiniteSet(Between(s, m)) /\ IsFiniteSet(Pending(s, m))
  BY SpansAreFinite, SpansStayFinite DEF DayInv
<1>10. Cardinality(Between(s, m)) + Cardinality(Pending(s, m)) <= DayLimit + Cardinality(Worker) - 1
  BY DEF DayInv, DayRoom
<1>11. CASE s < x /\ x <= m
  <2>1. w \in Pending(s, m)
    BY <1>1, <1>11 DEF Pending, MayStore
  <2>2. Cardinality(Pending(s, m) \ {w}) = Cardinality(Pending(s, m)) - 1
        /\ IsFiniteSet(Pending(s, m) \ {w})
    BY <1>9, <2>1, FS_RemoveElement
  <2>3. Cardinality(Pending(s, m)') <= Cardinality(Pending(s, m)) - 1
    BY <1>8, <2>2, FS_Subset
  <2>4. Cardinality(Between(s, m)') = Cardinality(Between(s, m)) + 1
    BY <1>4, <1>5, <1>9, <1>11, FS_AddElement
  <2> QED BY <1>9, <1>10, <2>3, <2>4, LimitsAreNatural
<1>12. CASE ~(s < x /\ x <= m)
  <2>1. Between(s, m)' = Between(s, m)
    BY <1>4, <1>12
  <2>2. Cardinality(Pending(s, m)') <= Cardinality(Pending(s, m))
    BY <1>8, <1>9, FS_Subset
  <2> QED BY <1>9, <1>10, <2>1, <2>2, LimitsAreNatural
<1> QED BY <1>11, <1>12

\* When time passes, a request that has not counted yet is in progress beside those that may
\* begin after it: but only if its day had room.
LEMMA TickKeepsRoom ==
    ASSUME DayInv, TypeOK', Tick
    PROVE  DayRoom'
<1>1. now \in Int /\ now' = now + 1 /\ UNCHANGED <<turns, worker>>
  BY SpansAreNatural DEF Tick, DayInv, TypeOK, Time
<1> SUFFICES ASSUME NEW s \in Int, NEW m \in Int, s <= m, m <= s + Day, m <= now + 1
             PROVE  Cardinality(Between(s, m)) + Cardinality(Pending(s, m))
                        <= DayLimit + Cardinality(Worker) - 1
  BY <1>1 DEF DayRoom, Between, Pending, MayStore, Today
<1>2. /\ Cardinality(Between(s, m)) \in Nat /\ Cardinality(Pending(s, m)) \in Nat
      /\ Cardinality(Worker) \in Nat \ {0} /\ Cardinality(Pending(s, m)) <= Cardinality(Worker)
  BY SpansAreFinite DEF DayInv
<1>3. CASE m <= now
  BY <1>3 DEF DayInv, DayRoom
<1>4. CASE m = now + 1 /\ s = m
  <2>1. Between(s, m) = {} /\ Pending(s, m) = {}
    <3>1. \A w \in Worker : ~MayStore(w, s, m)
      <4>1. \A w \in Worker : worker[w].pc \in {"reading", "locked", "counted"} =>
                worker[w].moment \in Int /\ worker[w].moment <= now
        BY BeginningType, SpansAreNatural DEF Beginning, Time, DayInv, Past
      <4> QED BY <1>1, <1>4, <4>1 DEF MayStore
    <3> QED BY <1>4, <3>1, TurnsAreTyped DEF Between, Pending, DayInv
  <2>2. Cardinality(Between(s, m)) = 0 /\ Cardinality(Pending(s, m)) = 0
    BY <2>1, FS_EmptySet
  <2> QED BY <1>2, <2>2, LimitsAreNatural
<1>5. CASE m = now + 1 /\ s <= now
  <2>1. Between(s, m) = Between(s, now)
    BY <1>1, <1>5, TurnsAreTyped DEF Between, DayInv, Past
  <2>2. CASE Cardinality(Today(now)) < DayLimit
    <3>1. now <= s + Day
      BY <1>1, <1>5, SpansAreNatural
    <3>2. Cardinality(Between(s, now)) + Cardinality(Worker) <= DayLimit + Cardinality(Worker) - 1
      BY <1>1, <2>2, <3>1, CountedInTime DEF DayInv
    <3> QED BY <1>2, <2>1, <3>2, LimitsAreNatural
  <2>3. CASE ~(Cardinality(Today(now)) < DayLimit)
    <3>1. ASSUME NEW w \in Worker, MayStore(w, s, m) PROVE MayStore(w, s, now)
      <4>1. worker[w].pc \in {"reading", "locked", "counted"}
        BY <3>1 DEF MayStore
      <4>2. worker[w].moment \in Int /\ worker[w].moment <= now
        BY <4>1, BeginningType, SpansAreNatural DEF Beginning, Time, DayInv, Past
      <4> QED BY <1>1, <1>5, <2>3, <3>1, <4>2 DEF MayStore
    <3>2. Pending(s, m) \subseteq Pending(s, now)
      BY <3>1 DEF Pending
    <3>3. Cardinality(Pending(s, m)) <= Cardinality(Pending(s, now)) /\ Cardinality(Pending(s, now)) \in Nat
      BY <3>2, SpansAreFinite, FS_Subset DEF DayInv
    <3>4. now <= s + Day
      BY <1>1, <1>5, SpansAreNatural
    <3>5. Cardinality(Between(s, now)) + Cardinality(Pending(s, now))
             <= DayLimit + Cardinality(Worker) - 1
      BY <1>1, <1>5, <3>4 DEF DayInv, DayRoom
    <3> QED BY <1>2, <2>1, <3>3, <3>5, LimitsAreNatural
  <2> QED BY <2>2, <2>3
<1> QED BY <1>1, <1>3, <1>4, <1>5

LEMMA DayNext == DayInv /\ [Next]_vars => DayInv'
<1> SUFFICES ASSUME DayInv, [Next]_vars PROVE DayRoom'
  BY TypeNext, PastNext DEF DayInv
<1>0. TypeOK /\ TypeOK' /\ now \in Int
  BY TypeNext, SpansAreNatural DEF DayInv, TypeOK, Time
\* A worker that becomes idle or stays what it is stores no more than before.
<1>1. ASSUME UNCHANGED <<now, turns>>, \A v \in Worker : worker'[v] \in {Idle, worker[v]}
      PROVE  DayRoom'
  <2>1. ASSUME NEW v \in Worker, NEW s \in Int, NEW m \in Int, MayStore(v, s, m)'
        PROVE  MayStore(v, s, m)
    <3>1. \A t : Today(t)' = Today(t)
      BY <1>1 DEF Today
    <3>2. worker'[v] # Idle
      BY <2>1 DEF MayStore, Idle
    <3>3. worker'[v] = worker[v]
      BY <1>1, <3>2
    <3> QED BY <2>1, <3>1, <3>3 DEF MayStore
  <2> QED BY <1>0, <1>1, <2>1, NobodyLetIn
<1>2. ASSUME NEW w \in Worker, worker' = [worker EXCEPT ![w] = Idle], UNCHANGED <<now, turns>>
      PROVE  DayRoom'
  <2>1. \A v \in Worker : worker'[v] \in {Idle, worker[v]}
    BY <1>0, <1>2 DEF TypeOK
  <2> QED BY <1>1, <1>2, <2>1
<1>3. ASSUME NEW w \in Worker, NEW f \in Fixture, ReadThread(w, f) PROVE DayRoom'
  <2>1. /\ worker'[w].pc = "reading" /\ worker'[w].moment = now
        /\ \A v \in Worker \ {w} : worker'[v] = worker[v]
        /\ UNCHANGED <<now, turns>>
    BY <1>0, <1>3 DEF ReadThread, TypeOK
  <2>2. \A v \in Worker : \A s, m \in Int : m <= now /\ MayStore(v, s, m)' => MayStore(v, s, m)
    BY <1>0, <2>1 DEF MayStore, Today
  <2> QED BY <1>0, <2>1, <2>2, NobodyLetIn
<1>4. ASSUME NEW w \in Worker, TryLock(w) PROVE DayRoom'
  <2>1. CASE worker' = [worker EXCEPT ![w] = Idle]
    BY <1>2, <1>4, <2>1 DEF TryLock
  <2>2. CASE worker' = [worker EXCEPT ![w].pc = "locked"]
    <3>1. worker[w] \in Beginning /\ worker[w].pc = "reading"
      BY <1>0, <1>4, BeginningType DEF TryLock
    <3>2. /\ worker'[w].pc = "locked" /\ worker'[w].moment = worker[w].moment
          /\ \A v \in Worker \ {w} : worker'[v] = worker[v]
          /\ UNCHANGED <<now, turns>>
      BY <1>0, <1>4, <2>2, <3>1 DEF TryLock, TypeOK, Beginning
    <3>3. \A v \in Worker : \A s, m \in Int : MayStore(v, s, m)' => MayStore(v, s, m)
      BY <3>1, <3>2 DEF MayStore, Today
    <3> QED BY <1>0, <3>2, <3>3, NobodyLetIn
  <2> QED BY <1>4, <2>1, <2>2 DEF TryLock, Refuse
<1>5. ASSUME NEW w \in Worker, CountTurns(w) PROVE DayRoom'
  <2>1. CASE WithinLimits(worker[w].fixture, worker[w].moment)
    BY <1>0, <1>5, <2>1, CountKeepsRoom
  <2>2. CASE ~WithinLimits(worker[w].fixture, worker[w].moment)
    BY <1>2, <1>5, <2>2 DEF CountTurns, Refuse
  <2> QED BY <2>1, <2>2
<1>6. ASSUME NEW w \in Worker, StoreQuestion(w) PROVE DayRoom'
  BY <1>0, <1>6, StoreKeepsRoom
<1>7. ASSUME NEW w \in Worker, NEW status, Finish(w, status) PROVE DayRoom'
  BY <1>2, <1>7 DEF Finish
<1>8. ASSUME NEW w \in Worker, Die(w) PROVE DayRoom'
  BY <1>2, <1>8 DEF Die
<1>9. ASSUME NEW f \in Fixture, ClearThread(f) PROVE DayRoom'
  BY <1>1, <1>9 DEF ClearThread
<1>10. ASSUME Tick PROVE DayRoom'
  BY <1>0, <1>10, TickKeepsRoom
<1>11. CASE UNCHANGED vars
  BY <1>1, <1>11 DEF vars
<1> QED BY <1>3, <1>4, <1>5, <1>6, <1>7, <1>8, <1>9, <1>10, <1>11 DEF Next

\* The day's limit is exceeded by the other requests in progress at most, however they race:
\* the count is taken without a lock, of a moment that may be long past by then.
THEOREM DayLimitNearlyKept == Spec => []DayLimitNearlyHolds
<1>1. DayInv => DayLimitNearlyHolds
  <2> SUFFICES ASSUME DayInv, NEW x \in Time
               PROVE  Cardinality(Today(x)) <= DayLimit + Cardinality(Worker) - 1
    BY DEF DayLimitNearlyHolds
  <2>0. TypeOK /\ x \in Int /\ now \in Int /\ Day \in Nat
    BY SpansAreNatural DEF DayInv, TypeOK, Time
  <2> DEFINE s == x - Day
             m == IF x <= now THEN x ELSE now
  <2>1. Today(x) = Between(s, m)
    BY <2>0, TurnsAreTyped DEF Today, Between, DayInv, Past
  <2>2. /\ Cardinality(Between(s, m)) \in Nat /\ Cardinality(Pending(s, m)) \in Nat
        /\ Cardinality(Worker) \in Nat \ {0}
    BY <2>0, SpansAreFinite
  <2>3. CASE s <= m
    <3>1. s \in Int /\ m \in Int /\ m <= s + Day /\ m <= now
      BY <2>0
    <3>2. Cardinality(Between(s, m)) + Cardinality(Pending(s, m)) <= DayLimit + Cardinality(Worker) - 1
      BY <2>3, <3>1 DEF DayInv, DayRoom
    <3> QED BY <2>1, <2>2, <3>2, LimitsAreNatural
  <2>4. CASE ~(s <= m)
    <3>1. Between(s, m) = {}
      BY <2>0, <2>4, TurnsAreTyped DEF Between
    <3>2. Cardinality(Today(x)) = 0
      BY <2>1, <3>1, FS_EmptySet
    <3> QED BY <2>2, <3>2, LimitsAreNatural
  <2> QED BY <2>3, <2>4
<1> QED BY <1>1, DayInit, DayNext, PTL DEF Spec
-----------------------------------------------------------------------------
(* Answers.                                                                *)

\* No message is dated in the future; a question being answered has no answer yet, and is
\* answered by one request.
Dated == \A f \in Fixture : \A i \in DOMAIN thread[f] : thread[f][i].at <= now

Unanswered ==
    \A w \in Worker : worker[w].pc = "streaming" =>
        \A i \in DOMAIN thread[worker[w].fixture] :
            thread[worker[w].fixture][i].turn = worker[w].turn =>
                thread[worker[w].fixture][i].role = "user"

OwnTurns ==
    \A v, w \in Worker :
        /\ worker[v].pc = "streaming" /\ worker[w].pc = "streaming"
        /\ worker[v].turn = worker[w].turn
        => v = w

AnswerInv == TypeOK /\ Past /\ Dated /\ Unanswered /\ OwnTurns /\ AnswersFollowQuestions

\* Where the new message goes; and to the end, when no message comes after it.
LEMMA InsertedAt ==
    ASSUME NEW S, NEW s \in Seq(S), NEW m \in S
    PROVE  /\ DOMAIN Inserted(s, m) = 1 .. Len(s) + 1
           /\ \E n \in 0 .. Len(s) :
                 /\ \A j \in 1 .. Len(s) + 1 :
                       Inserted(s, m)[j] = IF j <= n THEN s[j] ELSE IF j = n + 1 THEN m ELSE s[j - 1]
                 /\ (\A i \in 1 .. Len(s) : NotAfter(s[i], m)) => n = Len(s)
<1> DEFINE earlier == {i \in DOMAIN s : NotAfter(s[i], m)}
           n == Cardinality(earlier)
           front == SubSeq(s, 1, n)
           back == SubSeq(s, n + 1, Len(s))
<1>1. DOMAIN s = 1 .. Len(s) /\ Len(s) \in Nat
  BY LenProperties
<1>2. IsFiniteSet(1 .. Len(s)) /\ Cardinality(1 .. Len(s)) = Len(s)
  BY <1>1, FS_Interval
<1>3. earlier \subseteq 1 .. Len(s)
  BY <1>1
<1>4. n \in 0 .. Len(s)
  BY <1>1, <1>2, <1>3, FS_Subset, FS_CardinalityType
<1>5. (\A i \in 1 .. Len(s) : NotAfter(s[i], m)) => n = Len(s)
  <2> SUFFICES ASSUME \A i \in 1 .. Len(s) : NotAfter(s[i], m) PROVE n = Len(s)
    OBVIOUS
  <2>1. earlier = 1 .. Len(s)
    BY <1>1
  <2> QED BY <1>2, <2>1
<1>6. Inserted(s, m) = front \o <<m>> \o back
  BY DEF Inserted
<1> HIDE DEF n
<1>7. /\ front \in Seq(S) /\ Len(front) = n
      /\ \A j \in 1 .. n : front[j] = s[j]
  BY <1>1, <1>4, SubSeqProperties
<1>8. /\ back \in Seq(S) /\ Len(back) = Len(s) - n
      /\ \A j \in 1 .. Len(s) - n : back[j] = s[n + j]
  BY <1>1, <1>4, SubSeqProperties
<1> HIDE DEF front, back
<1>9. <<m>> \in Seq(S) /\ Len(<<m>>) = 1 /\ <<m>>[1] = m
  OBVIOUS
<1>10. /\ front \o <<m>> \in Seq(S) /\ Len(front \o <<m>>) = n + 1
       /\ \A j \in 1 .. n + 1 : (front \o <<m>>)[j] = IF j <= n THEN s[j] ELSE m
  BY <1>4, <1>7, <1>9, ConcatProperties
<1>11. /\ Inserted(s, m) \in Seq(S) /\ Len(Inserted(s, m)) = Len(s) + 1
       /\ \A j \in 1 .. Len(s) + 1 : Inserted(s, m)[j] =
             IF j <= n + 1 THEN (front \o <<m>>)[j] ELSE back[j - (n + 1)]
  BY <1>1, <1>4, <1>6, <1>8, <1>10, ConcatProperties
<1>12. DOMAIN Inserted(s, m) = 1 .. Len(s) + 1
  BY <1>11, LenProperties
<1>13. ASSUME NEW j \in 1 .. Len(s) + 1
       PROVE  Inserted(s, m)[j] = IF j <= n THEN s[j] ELSE IF j = n + 1 THEN m ELSE s[j - 1]
  <2>1. CASE j <= n + 1
    BY <1>1, <1>4, <1>10, <1>11, <2>1
  <2>2. CASE j > n + 1
    <3> DEFINE k == j - (n + 1)
    <3>1. k \in 1 .. Len(s) - n /\ n + k = j - 1
      BY <1>1, <1>4, <2>2
    <3>2. back[k] = s[j - 1]
      BY <1>8, <3>1
    <3>3. Inserted(s, m)[j] = back[k]
      BY <1>1, <1>4, <1>11, <2>2
    <3> QED BY <1>1, <1>4, <2>2, <3>2, <3>3
  <2> QED BY <1>1, <1>4, <2>1, <2>2
<1> QED BY <1>4, <1>5, <1>12, <1>13

LEMMA InsertedLast ==
    ASSUME NEW S, NEW s \in Seq(S), NEW m \in S, \A i \in 1 .. Len(s) : NotAfter(s[i], m)
    PROVE  /\ DOMAIN Inserted(s, m) = 1 .. Len(s) + 1
           /\ Inserted(s, m)[Len(s) + 1] = m
           /\ \A i \in 1 .. Len(s) : Inserted(s, m)[i] = s[i]
<1>1. Len(s) \in Nat
  BY LenProperties
<1>2. PICK n \in 0 .. Len(s) :
         /\ \A j \in 1 .. Len(s) + 1 :
               Inserted(s, m)[j] = IF j <= n THEN s[j] ELSE IF j = n + 1 THEN m ELSE s[j - 1]
         /\ (\A i \in 1 .. Len(s) : NotAfter(s[i], m)) => n = Len(s)
  BY InsertedAt
<1>3. n = Len(s)
  BY <1>2
<1> QED BY <1>1, <1>2, <1>3, InsertedAt

\* A message of a turn that the thread has no message of: the order of the others stays, and
\* so does every fact about each of them.
LEMMA FirstOfItsTurn ==
    ASSUME NEW S, NEW s \in Seq(S), NEW m \in S,
           \A i \in DOMAIN s : s[i].turn # m.turn,
           \A i, j \in DOMAIN s : s[i].turn = s[j].turn /\ i < j =>
               s[i].role = "user" /\ s[j].role = "assistant"
    PROVE  \A i, j \in DOMAIN Inserted(s, m) :
              Inserted(s, m)[i].turn = Inserted(s, m)[j].turn /\ i < j =>
                  Inserted(s, m)[i].role = "user" /\ Inserted(s, m)[j].role = "assistant"
<1> DEFINE t == Inserted(s, m)
<1>1. DOMAIN s = 1 .. Len(s) /\ Len(s) \in Nat /\ DOMAIN t = 1 .. Len(s) + 1
  BY LenProperties, InsertedAt
<1>2. PICK n \in 0 .. Len(s) :
         \A j \in 1 .. Len(s) + 1 : t[j] = IF j <= n THEN s[j] ELSE IF j = n + 1 THEN m ELSE s[j - 1]
  BY InsertedAt
<1> HIDE DEF t
<1> SUFFICES ASSUME NEW i \in 1 .. Len(s) + 1, NEW j \in 1 .. Len(s) + 1,
                    t[i].turn = t[j].turn, i < j
             PROVE  t[i].role = "user" /\ t[j].role = "assistant"
  BY <1>1 DEF t
<1>3. i # n + 1 /\ j # n + 1
  <2>1. ASSUME NEW k \in 1 .. Len(s) + 1, k # n + 1 PROVE t[k].turn # m.turn
    <3>1. CASE k <= n
      BY <1>1, <1>2, <3>1
    <3>2. CASE k > n + 1
      <4>1. k - 1 \in DOMAIN s /\ t[k] = s[k - 1]
        BY <1>1, <1>2, <3>2
      <4> QED BY <4>1
    <3> QED BY <1>1, <2>1, <3>1, <3>2
  <2>2. t[n + 1] = m
    BY <1>1, <1>2
  <2> QED BY <1>1, <2>1, <2>2
<1> DEFINE p == IF i <= n THEN i ELSE i - 1
           q == IF j <= n THEN j ELSE j - 1
<1>4. p \in 1 .. Len(s) /\ q \in 1 .. Len(s) /\ p < q /\ t[i] = s[p] /\ t[j] = s[q]
  BY <1>1, <1>2, <1>3
<1> QED BY <1>1, <1>4

\* Every message of the longer thread is the new one or was there.
LEMMA InsertedFrom ==
    ASSUME NEW S, NEW s \in Seq(S), NEW m \in S, NEW j \in DOMAIN Inserted(s, m)
    PROVE  Inserted(s, m)[j] = m \/ \E i \in DOMAIN s : Inserted(s, m)[j] = s[i]
<1>1. DOMAIN s = 1 .. Len(s) /\ Len(s) \in Nat /\ j \in 1 .. Len(s) + 1
  BY LenProperties, InsertedAt
<1>2. PICK n \in 0 .. Len(s) :
         \A k \in 1 .. Len(s) + 1 :
             Inserted(s, m)[k] = IF k <= n THEN s[k] ELSE IF k = n + 1 THEN m ELSE s[k - 1]
  BY InsertedAt
<1>3. CASE j <= n
  BY <1>1, <1>2, <1>3
<1>4. CASE j = n + 1
  BY <1>1, <1>2, <1>4
<1>5. CASE j > n + 1
  <2>1. j - 1 \in DOMAIN s /\ Inserted(s, m)[j] = s[j - 1]
    BY <1>1, <1>2, <1>5
  <2> QED BY <2>1
<1> QED BY <1>1, <1>3, <1>4, <1>5

LEMMA AnswerInit == Init => AnswerInv
<1> SUFFICES ASSUME Init PROVE AnswerInv
  OBVIOUS
<1>1. TypeOK /\ turns = <<>> /\ \A w \in Worker : worker[w].pc = "idle"
  BY TypeInit DEF Init, Idle
<1>2. \A f \in Fixture : DOMAIN thread[f] = {}
  BY DEF Init
<1> QED BY <1>1, <1>2 DEF AnswerInv, Past, Dated, Unanswered, OwnTurns, AnswersFollowQuestions

\* A step that stores no message, and after which nobody answers who did not answer before.
LEMMA NothingSaid ==
    ASSUME AnswerInv, TypeOK', Past', now <= now',
           \A f \in Fixture : thread'[f] \in {thread[f], <<>>},
           \A w \in Worker : worker'[w].pc = "streaming" => worker'[w] = worker[w]
    PROVE  AnswerInv'
<1>1. now \in Int /\ now' \in Int
  BY SpansAreNatural DEF AnswerInv, TypeOK, Time
<1>2. \A f \in Fixture : \A i \in DOMAIN thread'[f] : thread'[f] = thread[f]
  OBVIOUS
<1>3. Dated'
  <2>1. ASSUME NEW f \in Fixture, NEW i \in DOMAIN thread[f] PROVE thread[f][i].at \in Int
    <3>1. thread[f][i] \in Message
      BY <2>1, ElementOfSeq, LenProperties DEF AnswerInv, TypeOK
    <3> QED BY <3>1, SpansAreNatural DEF Message, Time
  <2> QED BY <1>1, <1>2, <2>1 DEF Dated, AnswerInv
<1>4. Unanswered'
  <2> SUFFICES ASSUME NEW w \in Worker, worker'[w].pc = "streaming",
                      NEW i \in DOMAIN thread'[worker'[w].fixture],
                      thread'[worker'[w].fixture][i].turn = worker'[w].turn
               PROVE  thread'[worker'[w].fixture][i].role = "user"
    BY DEF Unanswered
  <2>1. worker'[w] = worker[w] /\ worker[w].fixture \in Fixture
    BY StreamingType DEF AnswerInv, Streaming
  <2> QED BY <1>2, <2>1 DEF Unanswered, AnswerInv
<1>5. OwnTurns'
  BY DEF OwnTurns, AnswerInv
<1>6. AnswersFollowQuestions'
  BY <1>2 DEF AnswersFollowQuestions, AnswerInv
<1> QED BY <1>3, <1>4, <1>5, <1>6 DEF AnswerInv

\* The question is the first message of its turn.
LEMMA QuestionKeepsAnswers ==
    ASSUME AnswerInv, TypeOK', Past', NEW w \in Worker, StoreQuestion(w)
    PROVE  AnswerInv'
<1> DEFINE g == worker[w].fixture
           n == Len(turns) + 1
           question == [turn |-> n, role |-> "user", at |-> worker[w].moment, status |-> "complete"]
           M == [turn : 1 .. n, role : {"user", "assistant"}, at : Time,
                 status : {"complete", "failed", "aborted"}]
<1>1. worker[w] \in Beginning /\ g \in Fixture /\ worker[w].moment \in Time /\ worker[w].moment <= now
  BY BeginningType DEF StoreQuestion, AnswerInv, Beginning, Past
<1>2. n \in Nat \ {0}
  BY LenProperties DEF AnswerInv, TypeOK
<1>3. question \in M
  BY <1>1, <1>2
<1>4. ASSUME NEW f \in Fixture
      PROVE  /\ thread[f] \in Seq(M)
             /\ \A i \in DOMAIN thread[f] : thread[f][i].turn \in 1 .. n - 1 /\ thread[f][i] \in M
  <2>1. thread[f] \in Seq(Message)
    BY DEF AnswerInv, TypeOK
  <2>2. Message \subseteq M
    BY <1>2 DEF Message, Turn
  <2>3. \A i \in DOMAIN thread[f] : thread[f][i] \in Message
    BY <2>1, ElementOfSeq, LenProperties
  <2>4. thread[f] \in Seq(M)
    BY <2>1, <2>2, SeqMonotonic
  <2> QED BY <1>2, <2>2, <2>3, <2>4 DEF Message, Turn
<1>5. /\ now' = now
      /\ \A f \in Fixture : thread'[f] = IF f = g THEN Inserted(thread[g], question) ELSE thread[f]
  BY <1>1 DEF StoreQuestion, AnswerInv, TypeOK
<1>6. /\ worker'[w].pc = "streaming" /\ worker'[w].fixture = g /\ worker'[w].turn = n
      /\ \A v \in Worker \ {w} : worker'[v] = worker[v]
  BY DEF StoreQuestion, AnswerInv, TypeOK
<1> HIDE DEF question, M
<1>7. question.turn = n /\ question.role = "user" /\ question.at = worker[w].moment
  BY DEF question
<1>8. ASSUME NEW f \in Fixture, NEW j \in DOMAIN thread'[f]
      PROVE  thread'[f][j] = question \/ \E i \in DOMAIN thread[f] : thread'[f][j] = thread[f][i]
  BY <1>1, <1>3, <1>4, <1>5, <1>8, InsertedFrom
<1>9. Dated'
  <2> SUFFICES ASSUME NEW f \in Fixture, NEW j \in DOMAIN thread'[f] PROVE thread'[f][j].at <= now
    BY <1>5 DEF Dated
  <2> QED BY <1>1, <1>7, <1>8 DEF Dated, AnswerInv
<1>10. Unanswered'
  <2> SUFFICES ASSUME NEW v \in Worker, worker'[v].pc = "streaming",
                      NEW j \in DOMAIN thread'[worker'[v].fixture],
                      thread'[worker'[v].fixture][j].turn = worker'[v].turn
               PROVE  thread'[worker'[v].fixture][j].role = "user"
    BY DEF Unanswered
  <2>1. CASE v = w
    BY <1>1, <1>2, <1>4, <1>6, <1>7, <1>8, <2>1
  <2>2. CASE v # w
    <3>1. worker'[v] = worker[v] /\ worker[v].fixture \in Fixture /\ worker[v].turn \in 1 .. n - 1
      BY <1>2, <1>6, <2>2, StreamingType DEF AnswerInv, Streaming, Turn
    <3>2. worker[v].turn # n
      BY <1>2, <3>1
    <3>3. PICK i \in DOMAIN thread[worker[v].fixture] :
            thread'[worker[v].fixture][j] = thread[worker[v].fixture][i]
      BY <1>7, <1>8, <3>1, <3>2
    <3>4. worker[v].pc = "streaming" /\ thread[worker[v].fixture][i].turn = worker[v].turn
      BY <3>1, <3>3
    <3> QED BY <3>1, <3>3, <3>4 DEF Unanswered, AnswerInv
  <2> QED BY <2>1, <2>2
<1>11. OwnTurns'
  <2>1. \A v \in Worker \ {w} : worker'[v].pc = "streaming" => worker'[v].turn \in 1 .. n - 1
    BY <1>2, <1>6, StreamingType DEF AnswerInv, Streaming, Turn
  <2> QED BY <1>2, <1>6, <2>1 DEF OwnTurns, AnswerInv
<1>12. AnswersFollowQuestions'
  <2> SUFFICES ASSUME NEW f \in Fixture
               PROVE  \A i, j \in DOMAIN thread'[f] :
                         thread'[f][i].turn = thread'[f][j].turn /\ i < j =>
                             thread'[f][i].role = "user" /\ thread'[f][j].role = "assistant"
    BY DEF AnswersFollowQuestions
  <2>1. \A i, j \in DOMAIN thread[f] :
           thread[f][i].turn = thread[f][j].turn /\ i < j =>
               thread[f][i].role = "user" /\ thread[f][j].role = "assistant"
    BY DEF AnswerInv, AnswersFollowQuestions
  <2>2. CASE f = g
    <3>1. thread[f] \in Seq(M) /\ \A i \in DOMAIN thread[f] : thread[f][i].turn # question.turn
      BY <1>2, <1>4, <1>7
    <3>2. thread'[f] = Inserted(thread[f], question)
      BY <1>5, <2>2
    <3> QED BY <1>3, <2>1, <3>1, <3>2, FirstOfItsTurn
  <2>3. CASE f # g
    BY <1>5, <2>1, <2>3
  <2> QED BY <2>2, <2>3
<1> QED BY <1>9, <1>10, <1>11, <1>12 DEF AnswerInv

\* The answer is dated last, so it goes to the end of the thread, behind its own question; and
\* the request that stored it is over.
LEMMA AnswerKeepsAnswers ==
    ASSUME AnswerInv, TypeOK', Past', NEW w \in Worker,
           NEW status \in {"complete", "failed", "aborted"}, Finish(w, status)
    PROVE  AnswerInv'
<1> DEFINE g == worker[w].fixture
           answer == [turn |-> worker[w].turn, role |-> "assistant", at |-> now, status |-> status]
<1>1. worker[w] \in Streaming /\ g \in Fixture /\ now \in Time /\ worker[w].pc = "streaming"
  BY StreamingType DEF Finish, AnswerInv, Streaming, TypeOK
<1>2. answer \in Message
  BY <1>1 DEF Message, Streaming
<1>3. \A f \in Fixture : /\ thread[f] \in Seq(Message) /\ DOMAIN thread[f] = 1 .. Len(thread[f])
                         /\ Len(thread[f]) \in Nat
  BY LenProperties DEF AnswerInv, TypeOK
<1>4. /\ now' = now
      /\ \A f \in Fixture : thread'[f] = IF f = g THEN Inserted(thread[g], answer) ELSE thread[f]
      /\ \A v \in Worker : worker'[v] = IF v = w THEN Idle ELSE worker[v]
  BY <1>1 DEF Finish, AnswerInv, TypeOK
<1> HIDE DEF answer
<1>5. answer.turn = worker[w].turn /\ answer.role = "assistant" /\ answer.at = now
  BY DEF answer
<1>6. \A i \in 1 .. Len(thread[g]) : NotAfter(thread[g][i], answer)
  <2> SUFFICES ASSUME NEW i \in 1 .. Len(thread[g]) PROVE NotAfter(thread[g][i], answer)
    OBVIOUS
  <2>1. thread[g][i] \in Message /\ thread[g][i].at <= now
    BY <1>1, <1>3, ElementOfSeq DEF Dated, AnswerInv
  <2>2. thread[g][i].at \in Int /\ now \in Int
    BY <1>1, <2>1, SpansAreNatural DEF Message, Time
  <2> QED BY <1>5, <2>1, <2>2 DEF NotAfter
<1> DEFINE last == Len(thread[g]) + 1
<1>7. /\ DOMAIN thread'[g] = 1 .. last /\ thread'[g][last] = answer
      /\ \A i \in 1 .. Len(thread[g]) : thread'[g][i] = thread[g][i]
  <2>1. thread'[g] = Inserted(thread[g], answer)
    BY <1>1, <1>4
  <2> QED BY <1>1, <1>2, <1>3, <1>6, <2>1, InsertedLast
<1>8. ASSUME NEW f \in Fixture, NEW j \in DOMAIN thread'[f]
      PROVE  \/ f = g /\ j = last /\ thread'[f][j] = answer
             \/ j \in DOMAIN thread[f] /\ thread'[f][j] = thread[f][j]
  <2>1. CASE f # g
    BY <1>1, <1>4, <1>8, <2>1
  <2>2. CASE f = g
    <3>1. j \in 1 .. last /\ DOMAIN thread[f] = 1 .. Len(thread[g])
      BY <1>1, <1>3, <1>7, <1>8, <2>2
    <3>2. CASE j = last
      BY <1>7, <2>2, <3>2
    <3>3. CASE j # last
      <4>1. j \in 1 .. Len(thread[g])
        BY <1>1, <1>3, <3>1, <3>3
      <4> QED BY <1>7, <2>2, <3>1, <4>1
    <3> QED BY <3>2, <3>3
  <2> QED BY <2>1, <2>2
<1>9. Dated'
  <2> SUFFICES ASSUME NEW f \in Fixture, NEW j \in DOMAIN thread'[f] PROVE thread'[f][j].at <= now
    BY <1>4 DEF Dated
  <2>1. now <= now
    BY <1>1, SpansAreNatural DEF Time
  <2> QED BY <1>5, <1>8, <2>1 DEF Dated, AnswerInv
<1>10. Unanswered'
  <2> SUFFICES ASSUME NEW v \in Worker, worker'[v].pc = "streaming",
                      NEW j \in DOMAIN thread'[worker'[v].fixture],
                      thread'[worker'[v].fixture][j].turn = worker'[v].turn
               PROVE  thread'[worker'[v].fixture][j].role = "user"
    BY DEF Unanswered
  <2>1. v # w /\ worker'[v] = worker[v]
    BY <1>4 DEF Idle
  <2>2. worker[v].fixture \in Fixture /\ worker[v].turn # worker[w].turn
    BY <1>1, <2>1, StreamingType DEF AnswerInv, Streaming, OwnTurns
  <2> QED BY <1>5, <1>8, <2>1, <2>2 DEF Unanswered, AnswerInv
<1>11. OwnTurns'
  BY <1>4 DEF OwnTurns, AnswerInv, Idle
<1>12. AnswersFollowQuestions'
  <2> SUFFICES ASSUME NEW f \in Fixture, NEW i \in DOMAIN thread'[f], NEW j \in DOMAIN thread'[f],
                      thread'[f][i].turn = thread'[f][j].turn, i < j
               PROVE  thread'[f][i].role = "user" /\ thread'[f][j].role = "assistant"
    BY DEF AnswersFollowQuestions
  <2>1. CASE f = g /\ j = last
    <3>1. i \in 1 .. Len(thread[g]) /\ thread'[f][j] = answer
      BY <1>1, <1>3, <1>7, <2>1
    <3>2. i \in DOMAIN thread[f] /\ thread'[f][i] = thread[f][i]
      BY <1>1, <1>3, <1>7, <2>1, <3>1
    <3> QED BY <1>1, <1>5, <2>1, <3>1, <3>2 DEF Unanswered, AnswerInv
  <2>2. CASE ~(f = g /\ j = last)
    <3>1. j \in DOMAIN thread[f] /\ thread'[f][j] = thread[f][j]
      BY <1>8, <2>2
    <3>2. ~(f = g /\ i = last)
      BY <1>1, <1>3, <1>7, <2>2, <3>1
    <3>3. i \in DOMAIN thread[f] /\ thread'[f][i] = thread[f][i]
      BY <1>8, <3>2
    <3> QED BY <3>1, <3>3 DEF AnswersFollowQuestions, AnswerInv
  <2> QED BY <2>1, <2>2
<1> QED BY <1>9, <1>10, <1>11, <1>12 DEF AnswerInv

LEMMA AnswerNext == AnswerInv /\ [Next]_vars => AnswerInv'
<1> SUFFICES ASSUME AnswerInv, [Next]_vars PROVE AnswerInv'
  OBVIOUS
<1>0. TypeOK /\ TypeOK' /\ Past' /\ now \in Int
  BY TypeNext, PastNext, SpansAreNatural DEF AnswerInv, TypeOK, Time
<1>1. ASSUME NEW w \in Worker, worker'[w].pc # "streaming",
             \A v \in Worker \ {w} : worker'[v] = worker[v], UNCHANGED <<now, thread>>
      PROVE  AnswerInv'
  BY <1>0, <1>1, NothingSaid
<1>2. ASSUME NEW w \in Worker, NEW f \in Fixture, ReadThread(w, f) PROVE AnswerInv'
  BY <1>0, <1>1, <1>2 DEF ReadThread, TypeOK
<1>3. ASSUME NEW w \in Worker, TryLock(w) \/ CountTurns(w) \/ Die(w) PROVE AnswerInv'
  <2>1. worker[w].pc \in {"reading", "locked"} => worker[w] \in Beginning
    BY <1>0, BeginningType
  <2>2. worker'[w].pc # "streaming" /\ \A v \in Worker \ {w} : worker'[v] = worker[v]
    BY <1>0, <1>3, <2>1 DEF TryLock, CountTurns, Die, Refuse, TypeOK, Idle, Beginning
  <2> QED BY <1>1, <1>3, <2>2 DEF TryLock, CountTurns, Die
<1>4. ASSUME NEW w \in Worker, StoreQuestion(w) PROVE AnswerInv'
  BY <1>0, <1>4, QuestionKeepsAnswers
<1>5. ASSUME NEW w \in Worker, NEW status \in {"complete", "failed", "aborted"}, Finish(w, status)
      PROVE  AnswerInv'
  BY <1>0, <1>5, AnswerKeepsAnswers
<1>6. ASSUME NEW f \in Fixture, ClearThread(f) PROVE AnswerInv'
  BY <1>0, <1>6, NothingSaid DEF ClearThread, TypeOK
<1>7. ASSUME Tick PROVE AnswerInv'
  BY <1>0, <1>7, NothingSaid DEF Tick
<1>8. CASE UNCHANGED vars
  BY <1>0, <1>8, NothingSaid DEF vars
<1> QED BY <1>2, <1>3, <1>4, <1>5, <1>6, <1>7, <1>8 DEF Next

\* However a member's requests interleave, an answer is shown after its own question and a
\* question is answered once: the answer is dated when it is stored, later than all there is,
\* and a turn belongs to the one request that opened it.
THEOREM AnswersAreLast == Spec => []AnswersFollowQuestions
<1>1. AnswerInv => AnswersFollowQuestions
  BY DEF AnswerInv
<1> QED BY <1>1, AnswerInit, AnswerNext, PTL DEF Spec
=============================================================================
