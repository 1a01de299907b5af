------------------------------ MODULE NoticePanel ------------------------------
(***************************************************************************)
(* The lines of the notifications panel on the matches (NotificationService,*)
(* RoundUpdatesService, the notifications flag): the kickoffs and results of *)
(* the rounds the panel follows, those of a round folded into one line but  *)
(* for the matches the member follows.                                     *)
(*                                                                         *)
(* A line is what it tells and of what: its key.  Saving the read state is  *)
(* NotificationsRead's, with the lines on the league; here a save reaches   *)
(* the API at once.  Left out: teamsheets and previews, the limit of forty  *)
(* lines, pinned notices and wording.                                      *)
(***************************************************************************)
EXTENDS Integers, FiniteSetsExt

CONSTANTS
    Fixture,
    Round,         \* of each fixture
    Kickoff,
    Current,       \* the current round
    Favourite,     \* the fixtures of the member's team
    MatchLength,
    Recent,        \* how far around the clock a fixture makes its round followed
    MaxTime,       \* bound
    MaxReads,      \* bound: lines marked read one by one
    MaxAsks        \* bound: refreshes

VARIABLES
    now,           \* the panel's clock
    featured,      \* the featured fixture of the page
    observed,      \* when the API first saw each result, or 0
    loads,         \* requests for rounds under way: what they ask for, and the answer on its way
    byRound,       \* the events the panel holds of each round
    stale,
    read, stored,  \* the read state shown, and the API's
    loading,       \* the league's records are not there
    reads, asks,
    settled        \* the lines that have been read since they were there

vars == <<now, featured, observed, loads, byRound, stale, read, stored, loading, reads, asks, settled>>

Rounds == {Round[f] : f \in Fixture}
Of(rounds) == {f \in Fixture : Round[f] \in rounds}
NotRead == [mark |-> 0, keys |-> {}]

TypeOK ==
    /\ now \in 1 .. MaxTime /\ featured \in Fixture
    /\ observed \in [Fixture -> 0 .. MaxTime]
    /\ \A l \in loads : l.rounds \subseteq Rounds /\ l.refresh \in BOOLEAN
    /\ \A r \in Rounds : \A e \in byRound[r] : Round[e.of] = r /\ e.at <= MaxTime
    /\ stale \in BOOLEAN /\ loading \in BOOLEAN
    /\ read \in {stored, NotRead}
    /\ reads \in 0 .. MaxReads /\ asks \in 0 .. MaxAsks

\* rounds: the current one, and those with a fixture close to the clock.
Followed(t) ==
    {Current} \union {Round[f] : f \in {g \in Fixture : Kickoff[g] - t <= Recent /\ t - Kickoff[g] <= Recent}}

\* The events of a round as the API tells them.
Told(r, seen, t) ==
    {[kind |-> "kicked_off", of |-> f, at |-> Kickoff[f]] : f \in {g \in Of({r}) : Kickoff[g] <= t}}
    \union {[kind |-> "full_time", of |-> f, at |-> seen[f]] : f \in {g \in Of({r}) : seen[g] # 0}}

\* withScheduledKickoffs: a match whose time has passed has kicked off, whatever the API says.
\* The rounds it looks at are the schedule's, which carries no state.
Scheduled ==
    LET followed == Followed(now)
        known == UNION {byRound[r] : r \in followed}
        reported == {e.of : e \in {d \in known : d.kind = "kicked_off"}} IN
    known \union {[kind |-> "kicked_off", of |-> f, at |-> Kickoff[f]] :
                     f \in {g \in Of(followed) \ reported : Kickoff[g] <= now}}

Highlighted == Favourite \union {featured}

\* competitionNotices: a highlighted match has its own line, the others share one.
Line(kind, events) ==
    [kind |-> kind, of |-> {e.of : e \in events}, at |-> Max({e.at : e \in events})]
Fold(events) ==
    LET own == {e \in events : e.of \in Highlighted}
        others == events \ own IN
    {Line(e.kind, {e}) : e \in own}
    \union {Line(e.kind, {d \in others : d.kind = e.kind /\ Round[d.of] = Round[e.of]}) : e \in others}

Stream == UNION {Fold(events) : events \in {Scheduled}}
Key(n) == <<n.kind, n.of>>

\* isUnread: not read on its own, and after the mark.
IsUnread(r, n) == Key(n) \notin r.keys /\ n.at > r.mark
\* While the records load nothing counts as unread.
Unread(n) == ~loading /\ IsUnread(read, n)

Init ==
    /\ now = 1 /\ featured \in Of({Current}) /\ observed = [f \in Fixture |-> 0]
    /\ loads = {} /\ byRound = [r \in Rounds |-> {}] /\ stale = FALSE
    /\ read = NotRead /\ stored = NotRead /\ loading = FALSE
    /\ reads = 0 /\ asks = 0 /\ settled = {}

-----------------------------------------------------------------------------
\* The API answers with the results it sees for the first time.
Ask(rounds, refresh, t) ==
    LET seen == [f \in Fixture |->
            IF Round[f] \in rounds /\ observed[f] = 0 /\ t >= Kickoff[f] + MatchLength
            THEN t ELSE observed[f]] IN
    /\ observed' = seen
    /\ loads' = loads \union {[rounds |-> rounds, refresh |-> refresh,
                               told |-> [r \in rounds |-> Told(r, seen, t)]]}

\* The clock's tick; the rounds followed are asked for when they change.
Tick ==
    /\ now < MaxTime /\ now' = now + 1
    /\ IF Followed(now + 1) = Followed(now) THEN UNCHANGED <<observed, loads>>
       ELSE Ask(Followed(now + 1), FALSE, now + 1)
    /\ UNCHANGED <<featured, byRound, stale, read, stored, loading, reads, asks>>

\* refresh: one at a time.
Refresh ==
    /\ asks < MaxAsks /\ asks' = asks + 1
    /\ \A l \in loads : ~l.refresh
    /\ Ask(Followed(now), TRUE, now)
    /\ UNCHANGED <<now, featured, byRound, stale, read, stored, loading, reads>>

\* load: the rounds that answered; the others of the request keep what they had, and the
\* rounds it did not ask for are forgotten.
Kept(l, ok) ==
    [r \in Rounds |-> IF r \in ok THEN l.told[r] ELSE IF r \in l.rounds THEN byRound[r] ELSE {}]

Loaded ==
    /\ \E l \in loads : \E ok \in {{}, {Current}, l.rounds} :
       /\ loads' = loads \ {l} /\ byRound' = Kept(l, ok) /\ stale' = (ok # l.rounds)
    /\ UNCHANGED <<now, featured, observed, read, stored, loading, reads, asks>>

\* Another fixture is featured.
Feature ==
    /\ featured' \in Fixture \ {featured}
    /\ UNCHANGED <<now, observed, loads, byRound, stale, read, stored, loading, reads, asks>>

\* markAllRead: offered while something is unread; the mark goes past everything shown.
MarkAllRead ==
    /\ \E n \in Stream : Unread(n)
    /\ read' = [mark |-> Max({now} \union {n.at : n \in Stream}), keys |-> {}]
    /\ stored' = read'
    /\ UNCHANGED <<now, featured, observed, loads, byRound, stale, loading, reads, asks>>

\* markRead, when its line is followed: the keys still above the mark are kept.
KeysWith(n) == {Key(n)} \union (read.keys \intersect {Key(m) : m \in {s \in Stream : s.at > read.mark}})

Follow ==
    /\ reads < MaxReads /\ reads' = reads + 1
    /\ \E n \in Stream : Unread(n) /\ read' = [read EXCEPT !.keys = KeysWith(n)]
    /\ stored' = read'
    /\ UNCHANGED <<now, featured, observed, loads, byRound, stale, loading, asks>>

\* The league is opened again: its read state is cleared until `me` arrives.
Open ==
    /\ ~loading /\ loading' = TRUE /\ read' = NotRead
    /\ UNCHANGED <<now, featured, observed, loads, byRound, stale, stored, reads, asks>>

Opened ==
    /\ loading /\ loading' = FALSE /\ read' = stored
    /\ UNCHANGED <<now, featured, observed, loads, byRound, stale, stored, reads, asks>>

\* A line is settled when it is read, and for as long as it is there.
Settle ==
    settled' = {Key(n) : n \in {m \in Stream' :
                    IF Key(m) \in settled THEN TRUE ELSE ~IsUnread(stored', m)}}

Step ==
    \/ Tick \/ Refresh \/ Loaded \/ Feature
    \/ MarkAllRead \/ Follow \/ Open \/ Opened

Next == Step /\ Settle

Spec == Init /\ [][Next]_vars

-----------------------------------------------------------------------------
\* Every match of the followed rounds whose time has passed is told once to have kicked off, and
\* no result is told twice, or without its round followed, whatever the requests brought and in
\* whatever order; a line that was read stays read for as long as it is there, also while the
\* league is opened again and when the API reports late what the panel had told by itself; and
\* with everything marked read nothing shown is left unread.
PanelTellsOnce ==
    LET stream == Stream
        lines(kind, f) == {n \in stream : n.kind = kind /\ f \in n.of} IN
    /\ \A f \in Fixture :
          /\ Cardinality(lines("kicked_off", f)) =
                IF Round[f] \in Followed(now) /\ Kickoff[f] <= now THEN 1 ELSE 0
          /\ Cardinality(lines("full_time", f)) <= 1
    /\ \A n \in stream : Key(n) \in settled => ~Unread(n)
    /\ read.keys = {} /\ read.mark >= now => \A n \in stream : ~Unread(n)
=============================================================================
