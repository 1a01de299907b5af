-------------------------------- MODULE Scoring --------------------------------
(***************************************************************************)
(* The scoring panel of a match (features/match/scoring.ts): where the rows *)
(* of the scores and cards stand on the drawn pitch.  Each row stands at    *)
(* its minute, below the row before it on its side; one that would cross    *)
(* the halfway line or the live marker is held back, and the rows before it *)
(* on its side move up.                                                     *)
(*                                                                         *)
(* The section the API sends grows as the match goes on.  Names, colours,   *)
(* labels, points and a section that could not be loaded are left out.      *)
(***************************************************************************)
EXTENDS Integers, Sequences, FiniteSetsExt, SequencesExt

CONSTANTS
    Sides,       \* of "home" and "away"
    Minutes,     \* the minutes the API reports
    None,
    MaxEvents    \* bound: scores and cards of the match

VARIABLES
    state,       \* of the match
    minute,      \* its clock, or None
    events       \* in match order

vars == <<state, minute, events>>

FullTime == 80
HalfTime == 40
PxPerMinute == 12
FieldPad == 30
RowGap == 6
LineGap == 12

States == {"scheduled", "live", "half_time", "full_time", "postponed", "cancelled"}

\* ScoreEvent: a side, a minute, the half when the API names one, and whether it is a try.
ScoreEvent ==
    {e \in [side : Sides \union {None}, minute : Minutes, period : {1, 2, None}, try : BOOLEAN] :
        /\ e.period = 2 => e.minute >= HalfTime
        /\ e.side = None => e.period = None /\ ~e.try}

TypeOK ==
    /\ state \in States
    /\ minute \in Minutes \union {None}
    /\ events \in Seq(ScoreEvent) /\ Len(events) <= MaxEvents

Init == state = "scheduled" /\ minute = None /\ events = <<>>

-----------------------------------------------------------------------------
\* The next section: the clock moves, or a score comes.
Kickoff == state = "scheduled" /\ state' \in {"live", "postponed", "cancelled"} /\ UNCHANGED <<minute, events>>

Tick ==
    /\ state = "live"
    /\ minute' \in {m \in Minutes \union {None} : m # None /\ minute # None => m >= minute}
    /\ UNCHANGED <<state, events>>

Whistle ==
    /\ \/ state = "live" /\ state' \in {"half_time", "full_time"}
       \/ state = "half_time" /\ state' = "live"
    /\ UNCHANGED <<minute, events>>

Score(e) ==
    /\ state \in {"live", "half_time", "full_time"}
    /\ Len(events) < MaxEvents
    /\ events # <<>> => e.minute >= Last(events).minute
    /\ events' = Append(events, e)
    /\ UNCHANGED <<state, minute>>

Next ==
    \/ Kickoff \/ Tick \/ Whistle
    \/ \E e \in ScoreEvent : Score(e)

Spec == Init /\ [][Next]_vars

-----------------------------------------------------------------------------
y(t) == FieldPad + t * PxPerMinute
Height(row) == IF row.try THEN 50 ELSE 30

\* The live clock, kept to the pitch.
Clock == IF state = "live" /\ minute # None THEN IF minute > FullTime THEN FullTime ELSE minute ELSE None

\* placedEvent: an event of no side is not drawn; stoppage time stays on its side of halfway.
Half(e) == IF e.period = 1 \/ (e.period = None /\ e.minute <= HalfTime) THEN 1 ELSE 2
At(e) ==
    IF Half(e) = 1 THEN Min({e.minute, HalfTime}) ELSE Min({Max({e.minute, HalfTime}), FullTime})
Placed == SelectSeq(events, LAMBDA e : e.side # None)

SecondHalf ==
    \/ \E i \in DOMAIN Placed : Half(Placed[i]) = 2
    \/ state \in {"half_time", "full_time"}
    \/ Clock # None /\ Clock > HalfTime

\* The lines a row may not cross: those it has passed, and those it has not.
Barriers == {HalfTime} \union ({Clock} \ {None})
Past(e, b) == b < At(e) \/ (Half(e) = 2 /\ b = HalfTime)
Before(e) == {b \in Barriers : Past(e, b)}
After(e) == {b \in Barriers : ~Past(e, b)}

Lowest(e) ==
    IF Before(e) # {} THEN y(Max(Before(e))) + Height(e) \div 2 + LineGap ELSE Height(e) \div 2 + RowGap

\* Two rows of one side, one above the other: how far apart their centres are at least.
Apart(a, b) == a.height \div 2 + b.height \div 2 + RowGap

\* The rows before one that was held back move up until there is room.
MoveUp(rows, held) ==
    LET moved[i \in 1 .. Len(rows) + 1] ==
          IF i > Len(rows) THEN [row |-> held, go |-> TRUE]
          ELSE LET below == moved[i + 1]
                   limit == below.row.centre - Apart(rows[i], below.row)
               IN IF below.go /\ rows[i].centre > limit
                  THEN [row |-> [rows[i] EXCEPT !.centre = limit], go |-> TRUE]
                  ELSE [row |-> rows[i], go |-> FALSE]
    IN [i \in 1 .. Len(rows) |-> moved[i].row]

\* One more row on a side.
Lay(rows, e) ==
    LET row == [centre |-> 0, height |-> Height(e), of |-> e]
        below == IF rows = <<>> THEN 0 ELSE Last(rows).centre + Apart(Last(rows), row)
        centre == Max({y(At(e)), Lowest(e), below})
        highest == {y(b) - Height(e) \div 2 - LineGap : b \in {c \in After(e) : \A d \in After(e) : c <= d}}
    IN IF \E max \in highest : centre > max
       THEN LET held == [row EXCEPT !.centre = CHOOSE max \in highest : TRUE] IN Append(MoveUp(rows, held), held)
       ELSE Append(rows, [row EXCEPT !.centre = centre])

\* layout, of one side.
Rows(side) ==
    LET mine == SelectSeq(Placed, LAMBDA e : e.side = side)
        laid[n \in 0 .. Len(mine)] == IF n = 0 THEN <<>> ELSE Lay(laid[n - 1], mine[n])
    IN laid[Len(mine)]

Bottom(row) == row.centre + row.height \div 2

FieldHeight ==
    Max({y(FullTime) + FieldPad} \union
        {Bottom(Rows(side)[i]) + LineGap : <<side, i>> \in
            {<<s, n>> \in Sides \X (1 .. MaxEvents) : n <= Len(Rows(s))}})

-----------------------------------------------------------------------------
\* Rows of one side never overlap and keep the order of the match, wherever rows are held back;
\* no row stands below a line its minute has not passed, or outside the field.
RowsAreApart ==
    \A side \in Sides : LET rows == Rows(side) IN
    /\ \A i \in 1 .. Len(rows) - 1 : rows[i + 1].centre - rows[i].centre >= Apart(rows[i], rows[i + 1])
    /\ LET edge == FieldHeight IN \A i \in DOMAIN rows : Bottom(rows[i]) + LineGap <= edge
    /\ \A i \in DOMAIN rows, b \in Barriers :
          ~Past(rows[i].of, b) => Bottom(rows[i]) + LineGap <= y(b)
=============================================================================
