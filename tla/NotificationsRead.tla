--------------------------- MODULE NotificationsRead ---------------------------
(***************************************************************************)
(* What a member has read in one league's notifications panel, on several  *)
(* devices: NotificationControlService (core/league/notifications) and the *)
(* API's merge (api/app/league/service.py, update_notifications_read).     *)
(*                                                                         *)
(* A read state is a mark in time and the keys read one by one above it.    *)
(* The API and the devices keep a bounded number of keys, the latest first  *)
(* (MAX_READ_KEYS, 200); which ones are cut is left open here.              *)
(* Devices show it at once, save it in the background in any order, keep a *)
(* save that failed for the next refresh, and their clocks may be fast.    *)
(*                                                                         *)
(* A notification is the time it happened at.  Left out: pinned notices,   *)
(* the folding of a round's events into one line, and the other leagues.   *)
(***************************************************************************)
EXTENDS Integers, FiniteSets, FiniteSetTheorems, TLAPS

CONSTANTS
    Device,
    Fast,       \* how far a device's clock may run ahead
    MaxKeys,    \* MAX_READ_KEYS
    MaxTime,    \* bound: the API's clock stops here
    MaxSaves    \* bound: saves

VARIABLES
    now,        \* the API's clock
    events,     \* what has happened, by its time
    ahead,      \* device -> how far its clock is ahead
    shown,      \* device -> the events its last refresh brought
    read,       \* device -> the read state it shows
    unsaved,    \* device -> the read state to send again, or Nothing
    sent,       \* saves on their way to the API
    answers,    \* merged states on their way back
    api,        \* the stored read state
    saves       \* saves so far

vars == <<now, events, ahead, shown, read, unsaved, sent, answers, api, saves>>

NoMark == -1
Read == [mark : Int, keys : SUBSET Nat]
Nothing == [mark |-> NoMark, keys |-> {}]
Message == [from : Device, read : Read]

TypeOK ==
    /\ now \in 0 .. MaxTime /\ events \subseteq 1 .. MaxTime
    /\ ahead \in [Device -> 0 .. Fast]
    /\ \A d \in Device :
        /\ shown[d] \subseteq events
        /\ \A r \in {read[d], unsaved[d], api} : r.mark \in Int /\ r.keys \subseteq events /\ Cardinality(r.keys) <= MaxKeys
    /\ sent \union answers \subseteq Message
    /\ saves \in 0 .. MaxSaves

Init ==
    /\ now = 0 /\ events = {} /\ ahead \in [Device -> {0, Fast}]
    /\ shown = [d \in Device |-> {}] /\ api = Nothing
    /\ read = [d \in Device |-> Nothing] /\ unsaved = [d \in Device |-> Nothing]
    /\ sent = {} /\ answers = {} /\ saves = 0

\* isUnread: not read on its own, and after the mark.
IsUnread(r, e) == e \notin r.keys /\ e > r.mark

Later(x, y) == IF x > y THEN x ELSE y
Earlier(x, y) == IF x > y THEN y ELSE x

\* The keys of both lists, those of the first before those of the second, cut at MaxKeys.
Kept(first, second) ==
    {keys \in SUBSET (first \union second) :
        /\ first \subseteq keys /\ Cardinality(keys) <= MaxKeys
        /\ keys = first \union second \/ Cardinality(keys) = MaxKeys}

\* Mistakes: the last mark saved wins; the mark is kept as it was sent.
Merged_Last(r) == [mark : {Earlier(r.mark, now)}, keys : Kept(r.keys, api.keys)]
Merged_AsSent(r) == [mark : {Later(r.mark, api.mark)}, keys : Kept(r.keys, api.keys)]

\* update_notifications_read: the later mark, not beyond the API's clock, and the keys sent before
\* those stored.  A longer list than MaxKeys has no merge: it is refused.
Merged(r) ==
    [mark : {Earlier(Later(r.mark, api.mark), now)}, keys : Kept(r.keys, api.keys)]

\* saveNotificationsRead: shown at once, then sent.
Save(d, r) ==
    /\ saves < MaxSaves /\ saves' = saves + 1
    /\ read' = [read EXCEPT ![d] = r]
    /\ sent' = sent \union {[from |-> d, read |-> r]}

\* Something happens in the league.
Happens ==
    /\ now < MaxTime
    /\ now' = now + 1
    /\ events' = events \union {now'}
    /\ UNCHANGED <<ahead, shown, read, unsaved, sent, answers, api, saves>>

\* markAllRead: the mark moves past the device's clock and everything shown.
MarkAllRead(d) ==
    /\ \E latest \in shown[d] \union {now + ahead[d]} :
        /\ \A e \in shown[d] \union {now + ahead[d]} : e <= latest
        /\ Save(d, [mark |-> latest, keys |-> {}])
    /\ UNCHANGED <<now, events, ahead, shown, unsaved, answers, api>>

\* markRead: one unread notice, before the others; keys at or below the mark are let go.
MarkRead(d, e) ==
    /\ e \in shown[d] /\ IsUnread(read[d], e)
    /\ \E keys \in Kept({e}, {k \in read[d].keys : k \in shown[d] /\ k > read[d].mark}) :
          Save(d, [read[d] EXCEPT !.keys = keys])
    /\ UNCHANGED <<now, events, ahead, shown, unsaved, answers, api>>

\* refresh: the feed, and with it the save that failed.
Refresh(d) ==
    /\ shown' = [shown EXCEPT ![d] = events]
    /\ unsaved' = [unsaved EXCEPT ![d] = Nothing]
    /\ IF unsaved[d] = Nothing THEN UNCHANGED <<read, sent, saves>> ELSE Save(d, unsaved[d])
    /\ UNCHANGED <<now, events, ahead, answers, api>>

\* The API merges a save; its answer may be lost.
Merge(m) ==
    /\ m \in sent /\ sent' = sent \ {m}
    /\ api' \in Merged(m.read)
    /\ \/ answers' = answers \union {[m EXCEPT !.read = api']} /\ UNCHANGED unsaved
       \/ unsaved' = [unsaved EXCEPT ![m.from] = m.read] /\ UNCHANGED answers
    /\ UNCHANGED <<now, events, ahead, shown, read, saves>>

\* A save that was refused or never reached the API: kept for the next refresh.
Lost(m) ==
    /\ m \in sent /\ sent' = sent \ {m}
    /\ unsaved' = [unsaved EXCEPT ![m.from] = m.read]
    /\ UNCHANGED <<now, events, ahead, shown, read, answers, api, saves>>

\* The answer replaces what the device shows, in whatever order answers come.
Adopt(m) ==
    /\ m \in answers /\ answers' = answers \ {m}
    /\ read' = [read EXCEPT ![m.from] = m.read]
    /\ UNCHANGED <<now, events, ahead, shown, unsaved, sent, api, saves>>

Next ==
    \/ Happens
    \/ \E d \in Device :
        MarkAllRead(d) \/ Refresh(d) \/ \E e \in events : MarkRead(d, e)
    \/ \E m \in sent : Merge(m) \/ Lost(m)
    \/ \E m \in answers : Adopt(m)

Spec == Init /\ [][Next]_vars

-----------------------------------------------------------------------------
\* What the API's mark covers stays read, in whatever order the devices' saves arrive and however
\* stale they are, and a key read on its own becomes unread only when as many keys as the API keeps
\* have been kept instead (service.py:1562-1563 and 1577, update_notifications_read).
KeepsRead ==
    \A e \in events :
        /\ e <= api.mark => e <= api'.mark
        /\ e \in api.keys /\ IsUnread(api', e) => Cardinality(api'.keys) = MaxKeys
ReadStaysRead == [][KeepsRead]_vars

\* What has just happened is unread: no device with a fast clock has moved the
\* mark past it (service.py:1578, the mark never runs ahead of the API's clock).
ComesUnread == \A e \in events' \ events : IsUnread(api', e)
NewsIsUnread == [][ComesUnread]_vars
-----------------------------------------------------------------------------
(* Proofs, for any devices, clocks, numbers of keys kept and numbers of saves. *)

\* A read state a device or the API can hold: its keys are events that have happened, no more
\* than are kept, so that no save is refused for its length.
Keys == {keys \in SUBSET events : Cardinality(keys) <= MaxKeys}
States == [mark : Int, keys : Keys]

\* The inductive invariant.  What is on its way counts too: a save that arrives late is merged
\* into the mark, and only the API's mark is kept from running ahead.
ReadInv ==
    /\ now \in Nat /\ events \subseteq 1 .. now
    /\ ahead \in [Device -> Nat] /\ shown \in [Device -> SUBSET events]
    /\ read \in [Device -> States] /\ unsaved \in [Device -> States]
    /\ sent \union answers \subseteq [from : Device, read : States]
    /\ api \in States /\ api.mark <= now

LEMMA EmptyIsKept ==
    ASSUME MaxKeys \in Nat
    PROVE  {} \in Keys
BY FS_EmptySet DEF Keys

LEMMA NothingIsAState ==
    ASSUME MaxKeys \in Nat
    PROVE  Nothing \in States
BY EmptyIsKept DEF Nothing, NoMark, States

LEMMA ReadInitially ==
    ASSUME Fast \in Nat, MaxKeys \in Nat, Init
    PROVE  ReadInv
<1>1. Nothing \in States /\ Nothing.mark <= now
  BY NothingIsAState DEF Init, Nothing, NoMark
<1>2. ahead \in [Device -> Nat]
  BY DEF Init
<1> QED BY <1>1, <1>2 DEF Init, ReadInv

\* A save keeps what it sends, and shows it, as a state of its device.
LEMMA SaveKeeps ==
    ASSUME ReadInv, NEW d \in Device, NEW r \in States, Save(d, r),
           UNCHANGED <<now, events, ahead, answers, api>>,
           shown' \in [Device -> SUBSET events], unsaved' \in [Device -> States]
    PROVE  ReadInv'
<1>1. States' = States
  BY DEF States, Keys
<1>2. read' \in [Device -> States]
  BY DEF Save, ReadInv
<1>3. sent' \union answers' \subseteq [from : Device, read : States]
  BY DEF Save, ReadInv
<1> QED BY <1>1, <1>2, <1>3 DEF ReadInv

\* A list that is kept is one of keys, all of it unless it is full.
LEMMA KeptKeys ==
    ASSUME NEW first \in SUBSET events, NEW second \in SUBSET events,
           NEW keys \in Kept(first, second)
    PROVE  keys \in Keys /\ (second \subseteq keys \/ Cardinality(keys) = MaxKeys)
BY DEF Kept, Keys

\* What the API merges is a state, no later than its clock, and covers what its mark did; keys are
\* dropped from a full list only.
LEMMA MergedState ==
    ASSUME ReadInv, NEW r \in States, NEW a \in Merged(r)
    PROVE  /\ a \in States /\ a.mark <= now
           /\ api.keys \subseteq a.keys \/ Cardinality(a.keys) = MaxKeys
           /\ \A e \in events : e <= api.mark => e <= a.mark
<1>1. /\ r.mark \in Int /\ r.keys \in SUBSET events /\ api.mark \in Int /\ api.keys \in SUBSET events
      /\ now \in Nat /\ events \subseteq 1 .. now /\ api.mark <= now
  BY DEF ReadInv, States, Keys
<1> DEFINE mark == Earlier(Later(r.mark, api.mark), now)
<1>2. mark \in Int /\ mark <= now /\ api.mark <= mark
  BY <1>1 DEF Earlier, Later
<1>3. a \in [mark : {mark}, keys : Kept(r.keys, api.keys)]
  BY DEF Merged
<1>4. a = [mark |-> a.mark, keys |-> a.keys] /\ a.mark = mark /\ a.keys \in Kept(r.keys, api.keys)
  BY <1>3
<1> HIDE DEF mark
<1>5. a.keys \in Keys /\ (api.keys \subseteq a.keys \/ Cardinality(a.keys) = MaxKeys)
  BY <1>1, <1>4, KeptKeys
<1>6. a \in States
  BY <1>2, <1>4, <1>5 DEF States
<1>7. \A e \in events : e \in Int
  BY <1>1
<1> QED BY <1>1, <1>2, <1>4, <1>5, <1>6, <1>7

\* The states may change while nothing else that was sent or answered does.
LEMMA HappensKeeps ==
    ASSUME ReadInv, Happens
    PROVE  ReadInv'
<1>1. /\ now' = now + 1 /\ events' = events \union {now + 1}
      /\ UNCHANGED <<ahead, shown, read, unsaved, sent, answers, api>>
  BY DEF Happens
<1>2. now \in Nat /\ events \subseteq 1 .. now
  BY DEF ReadInv
<1>3. now' \in Nat /\ events' \subseteq 1 .. now'
  BY <1>1, <1>2
<1>4. States \subseteq States' /\ SUBSET events \subseteq SUBSET events'
  BY <1>1 DEF States, Keys
<1>5. api' \in States' /\ api'.mark <= now'
  BY <1>1, <1>2, <1>4 DEF ReadInv, States
<1>6. /\ shown' \in [Device -> SUBSET events']
      /\ read' \in [Device -> States'] /\ unsaved' \in [Device -> States']
  BY <1>1, <1>4 DEF ReadInv
<1>7. sent' \union answers' \subseteq [from : Device, read : States']
  BY <1>1, <1>4 DEF ReadInv
<1> QED BY <1>1, <1>3, <1>5, <1>6, <1>7 DEF ReadInv

LEMMA StepKeeps ==
    ASSUME MaxKeys \in Nat, ReadInv, [Next]_vars
    PROVE  ReadInv'
<1>1. CASE Happens
  BY <1>1, HappensKeeps
<1>2. ASSUME NEW d \in Device, MarkAllRead(d) PROVE ReadInv'
  <2>1. PICK latest \in shown[d] \union {now + ahead[d]} : Save(d, [mark |-> latest, keys |-> {}])
    BY <1>2 DEF MarkAllRead
  <2>2. latest \in Int
    BY DEF ReadInv
  <2>3. [mark |-> latest, keys |-> {}] \in States
    BY <2>2, EmptyIsKept DEF States
  <2>4. UNCHANGED <<now, events, ahead, shown, unsaved, answers, api>>
    BY <1>2 DEF MarkAllRead
  <2> QED BY <2>1, <2>3, <2>4, SaveKeeps DEF ReadInv
<1>3. ASSUME NEW d \in Device, Refresh(d) PROVE ReadInv'
  <2>1. /\ shown' = [shown EXCEPT ![d] = events] /\ unsaved' = [unsaved EXCEPT ![d] = Nothing]
        /\ UNCHANGED <<now, events, ahead, answers, api>>
    BY <1>3 DEF Refresh
  <2>2. shown' \in [Device -> SUBSET events] /\ unsaved' \in [Device -> States]
    BY <2>1, NothingIsAState DEF ReadInv
  <2>3. CASE Save(d, unsaved[d])
    <3>1. unsaved[d] \in States
      BY DEF ReadInv
    <3> QED BY <2>1, <2>2, <2>3, <3>1, SaveKeeps
  <2>4. CASE UNCHANGED <<read, sent, saves>>
    <3>1. States' = States
      BY <2>1 DEF States, Keys
    <3> QED BY <2>1, <2>2, <2>4, <3>1 DEF ReadInv
  <2> QED BY <1>3, <2>3, <2>4 DEF Refresh
<1>4. ASSUME NEW d \in Device, NEW e \in events, MarkRead(d, e) PROVE ReadInv'
  <2> DEFINE others == {k \in read[d].keys : k \in shown[d] /\ k > read[d].mark}
  <2>1. PICK keys \in Kept({e}, others) : Save(d, [read[d] EXCEPT !.keys = keys])
    BY <1>4 DEF MarkRead
  <2>2. UNCHANGED <<now, events, ahead, shown, unsaved, answers, api>>
    BY <1>4 DEF MarkRead
  <2>3. read[d] \in States
    BY DEF ReadInv
  <2>4. others \in SUBSET events
    BY <2>3 DEF States, Keys
  <2> HIDE DEF others
  <2>5. keys \in Keys
    BY <2>1, <2>4, KeptKeys
  <2> DEFINE r == [read[d] EXCEPT !.keys = keys]
  <2>6. r \in States
    BY <2>3, <2>5 DEF States
  <2>7. Save(d, r)
    BY <2>1
  <2> HIDE DEF r
  <2>8. shown' \in [Device -> SUBSET events] /\ unsaved' \in [Device -> States]
    BY <2>2 DEF ReadInv
  <2> QED BY <2>2, <2>6, <2>7, <2>8, SaveKeeps
<1>5. ASSUME NEW m \in sent, Merge(m) \/ Lost(m) PROVE ReadInv'
  <2>1. m \in [from : Device, read : States] /\ m.read \in States /\ m.from \in Device
    BY DEF ReadInv
  <2>2. sent' = sent \ {m} /\ UNCHANGED <<now, events, ahead, shown, read>>
    BY <1>5 DEF Merge, Lost
  <2>3. States' = States
    BY <2>2 DEF States, Keys
  <2>4. api' \in States /\ api'.mark <= now
    BY <1>5, <2>1, MergedState DEF Merge, Lost, ReadInv
  <2>5. \/ answers' = answers \union {[m EXCEPT !.read = api']} /\ UNCHANGED unsaved
        \/ unsaved' = [unsaved EXCEPT ![m.from] = m.read] /\ UNCHANGED answers
    BY <1>5 DEF Merge, Lost
  <2>6. [m EXCEPT !.read = api'] \in [from : Device, read : States]
    BY <2>1, <2>4
  <2>7. sent' \union answers' \subseteq [from : Device, read : States]
    BY <2>2, <2>5, <2>6 DEF ReadInv
  <2>8. unsaved' \in [Device -> States]
    BY <2>1, <2>5 DEF ReadInv
  <2> QED BY <2>2, <2>3, <2>4, <2>7, <2>8 DEF ReadInv
<1>6. ASSUME NEW m \in answers, Adopt(m) PROVE ReadInv'
  <2>1. m.read \in States
    BY DEF ReadInv
  <2>2. /\ answers' = answers \ {m} /\ read' = [read EXCEPT ![m.from] = m.read]
        /\ UNCHANGED <<now, events, ahead, shown, unsaved, sent, api>>
    BY <1>6 DEF Adopt
  <2>3. States' = States
    BY <2>2 DEF States, Keys
  <2> QED BY <2>1, <2>2, <2>3 DEF ReadInv
<1>7. CASE UNCHANGED vars
  BY <1>7 DEF vars, ReadInv, States, Keys
<1> QED BY <1>1, <1>2, <1>3, <1>4, <1>5, <1>6, <1>7 DEF Next

\* Only a merge changes what the API holds as read.
LEMMA OnlyMergeReads ==
    ASSUME [Next]_vars
    PROVE  api' = api \/ \E m \in sent : Merge(m)
BY DEF Next, vars, Happens, MarkAllRead, MarkRead, Refresh, Lost, Adopt

LEMMA StepKeepsRead ==
    ASSUME ReadInv, [Next]_vars
    PROVE  KeepsRead
<1>1. CASE api' = api
  BY <1>1 DEF KeepsRead, IsUnread
<1>2. ASSUME NEW m \in sent, Merge(m) PROVE KeepsRead
  <2>1. m.read \in States /\ api' \in Merged(m.read)
    BY <1>2 DEF ReadInv, Merge
  <2>2. /\ api.keys \subseteq api'.keys \/ Cardinality(api'.keys) = MaxKeys
        /\ \A e \in events : e <= api.mark => e <= api'.mark
    BY <2>1, MergedState
  <2> QED BY <2>2 DEF KeepsRead, IsUnread
<1> QED BY <1>1, <1>2, OnlyMergeReads

LEMMA StepComesUnread ==
    ASSUME ReadInv, [Next]_vars
    PROVE  ComesUnread
<1>1. CASE Happens
  <2>1. /\ events' = events \union {now + 1} /\ api' = api /\ now \in Nat
        /\ api.mark \in Int /\ api.mark <= now /\ api.keys \subseteq 1 .. now
    BY <1>1 DEF Happens, ReadInv, States, Keys
  <2> QED BY <2>1 DEF ComesUnread, IsUnread
<1>2. CASE ~Happens
  <2>1. events' = events
    BY <1>2 DEF Next, vars, MarkAllRead, MarkRead, Refresh, Merge, Lost, Adopt
  <2> QED BY <2>1 DEF ComesUnread
<1> QED BY <1>1, <1>2

\* What the API's mark covers stays read, and a key read on its own until the list kept is full,
\* whichever device saves what, in whatever order saves arrive and are lost, and however fast the
\* devices' clocks are.
THEOREM ReadIsKept ==
    ASSUME Fast \in Nat, MaxKeys \in Nat
    PROVE  Spec => ReadStaysRead
<1>1. Init => ReadInv
  BY ReadInitially
<1>2. ReadInv /\ [Next]_vars => ReadInv'
  BY StepKeeps
<1>3. ReadInv /\ [Next]_vars => KeepsRead
  BY StepKeepsRead
<1> QED BY <1>1, <1>2, <1>3, PTL DEF Spec, ReadStaysRead

\* What happens next is unread: the API's mark is never ahead of its clock, whatever marks the
\* devices send.
THEOREM NewsArrivesUnread ==
    ASSUME Fast \in Nat, MaxKeys \in Nat
    PROVE  Spec => NewsIsUnread
<1>1. Init => ReadInv
  BY ReadInitially
<1>2. ReadInv /\ [Next]_vars => ReadInv'
  BY StepKeeps
<1>3. ReadInv /\ [Next]_vars => ComesUnread
  BY StepComesUnread
<1> QED BY <1>1, <1>2, <1>3, PTL DEF Spec, NewsIsUnread
=============================================================================
