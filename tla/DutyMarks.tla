------------------------------ MODULE DutyMarks ------------------------------
(***************************************************************************)
(* The marks of a duty (apps/api/app/league/marks.py, duty_marks of          *)
(* service.py) over what its duty goes through: evidence handed in and       *)
(* accepted later as of when it was handed in, a clock reset, voiding, the    *)
(* withdrawal of its member and the closing of the season.                   *)
(*                                                                         *)
(* How evidence is decided is in EvidenceCases: here it is accepted or not.   *)
(***************************************************************************)
EXTENDS Integers, FiniteSetsExt

CONSTANTS
    None,
    Week,       \* THRESHOLD
    MaxTime     \* bound

VARIABLES
    now,
    duty,       \* [status, deadline, completed, reset, voided, withdrawn]
    pending,    \* when the evidence being reviewed says the duty was done, or None
    closure,    \* when the season closed, or None
    told        \* an answer somebody got, or None

vars == <<now, duty, pending, closure, told>>

Time == 0 .. MaxTime
Live == duty.status \in {"open", "pending_deadline"}

TypeOK ==
    /\ now \in Time
    /\ duty \in [status : {"open", "pending_deadline", "completed", "voided"},
                 deadline : Time \union {None}, completed : Time \union {None},
                 reset : Time \union {None}, voided : Time \union {None}, withdrawn : BOOLEAN]
    /\ {pending, closure} \subseteq Time \union {None}
    /\ told = None \/ told.marks \in Nat

-----------------------------------------------------------------------------
\* calculate: <<marks, when the next one comes or None>>. The clock runs from the deadline or
\* the last reset until the first of what stops it, and until now.
Start(d) == Max({d.deadline, IF d.reset = None THEN d.deadline ELSE d.reset})
Stops(d, closed) == {d.completed, closed, IF d.withdrawn THEN d.voided ELSE None} \ {None}
End(d, closed, at) == Min(Stops(d, closed) \union {at})
Earns(d) == d.deadline # None /\ (d.status = "voided" => d.withdrawn)

Calculate(d, closed, at) ==
    LET start == Start(d)
        end == End(d, closed, at)
        stopped == \E t \in Stops(d, closed) : t <= end
        marks == IF end <= start THEN 0 ELSE (end - start) \div Week
        due == IF end <= start THEN start + Week
               ELSE end + (marks + 1) * Week - (end - start)
    IN IF Earns(d) THEN <<marks, IF stopped THEN None ELSE due>> ELSE <<0, None>>

Marks == Calculate(duty, closure, now)[1]
NextMark == Calculate(duty, closure, now)[2]

-----------------------------------------------------------------------------
\* create_duty: no deadline known leaves the duty waiting for one.
Init ==
    /\ now = 0 /\ pending = None /\ closure = None /\ told = None
    /\ \E deadline \in Time \union {None} :
          duty = [status |-> IF deadline = None THEN "pending_deadline" ELSE "open",
                  deadline |-> deadline, completed |-> None, reset |-> None, voided |-> None,
                  withdrawn |-> FALSE]

Tick ==
    /\ now < MaxTime /\ now' = now + 1
    /\ UNCHANGED <<duty, pending, closure, told>>

\* submit_evidence: one's own counts from now, somebody else's from the time they give.
Submit ==
    /\ Live /\ \E claimed \in 0 .. now : pending' = claimed
    /\ UNCHANGED <<now, duty, closure, told>>

Accept ==
    /\ Live /\ pending # None
    /\ duty' = [duty EXCEPT !.status = "completed", !.completed = pending] /\ pending' = None
    /\ UNCHANGED <<now, closure, told>>

Reject == pending # None /\ pending' = None /\ UNCHANGED <<now, duty, closure, told>>

ResetClock ==
    /\ duty.status = "open" /\ duty' = [duty EXCEPT !.reset = now]
    /\ UNCHANGED <<now, pending, closure, told>>

Void(withdrawn) ==
    /\ Live
    /\ duty' = [duty EXCEPT !.status = "voided", !.voided = now, !.withdrawn = withdrawn]
    /\ pending' = None /\ UNCHANGED <<now, closure, told>>

VoidDuty == Void(FALSE)
WithdrawMember == Void(TRUE)

CloseSeason ==
    /\ closure = None /\ closure' = now /\ UNCHANGED <<now, duty, pending, told>>

\* duty_marks: somebody reads the duty.
Tell ==
    /\ told = None
    /\ told' = [at |-> now, marks |-> Marks, next |-> NextMark, duty |-> duty, closed |-> closure]
    /\ UNCHANGED <<now, duty, pending, closure>>

Next ==
    \/ Tick \/ Submit \/ Accept \/ Reject \/ ResetClock \/ VoidDuty \/ WithdrawMember
    \/ CloseSeason \/ Tell

Spec == Init /\ [][Next]_vars

-----------------------------------------------------------------------------
Between(a, t, b) == t # None /\ a <= t /\ t <= b

\* Marks grow only with whole weeks past the deadline. What was told comes true: while nothing
\* happens to the duty the next mark comes at the moment told and not before, and without one
\* none comes. And a mark told is taken away only by what the league decided so: a reset, voiding,
\* or evidence accepted as of an earlier moment; a member withdrawn keeps it.
MarksHold ==
    /\ Marks > 0 => duty.deadline # None /\ Marks * Week <= now - duty.deadline
    /\ told # None =>
          /\ told.duty = duty /\ told.closed = closure =>
                IF told.next = None \/ now < told.next THEN Marks = told.marks
                ELSE Marks = told.marks + 1 + (now - told.next) \div Week
          /\ Marks < told.marks =>
                \/ Between(told.at, duty.reset, now) /\ duty.reset # told.duty.reset
                \/ duty.status = "voided" /\ ~duty.withdrawn
                \/ duty.completed # None /\ duty.completed < told.at
          /\ told.duty.withdrawn => Marks = told.marks /\ NextMark = None

\* A week is some time and None is no moment. The inductive invariant behind it: what has
\* happened to a duty has happened by now, what is settled stays, and all that may have changed
\* since an answer was told happened later, but for the moment a duty was done.
Weeks == Week \in Nat \ {0} /\ None \notin Int

IsDuty(d, at) ==
    /\ d \in [status : {"open", "pending_deadline", "completed", "voided"},
              deadline : Nat \union {None}, completed : 0 .. at \union {None},
              reset : 0 .. at \union {None}, voided : 0 .. at \union {None}, withdrawn : BOOLEAN]
    /\ d.completed # None => d.status = "completed"
    /\ d.withdrawn => d.status = "voided"
    /\ d.status = "voided" => d.voided # None

\* A moment that was unknown and is known since t.
Since(old, t, new) == new = old \/ (old = None /\ new # None /\ t <= new)

TellsStill ==
    LET d == told.duty IN
    /\ told.at \in 0 .. now /\ IsDuty(d, told.at) /\ told.closed \in 0 .. told.at \union {None}
    /\ told.marks = Calculate(d, told.closed, told.at)[1]
    /\ told.next = Calculate(d, told.closed, told.at)[2]
    /\ duty.deadline = d.deadline
    /\ duty.reset = d.reset \/ Between(told.at, duty.reset, now)
    /\ Since(told.closed, told.at, closure)
    /\ d.status \in {"completed", "voided"} => duty = d
    /\ duty.withdrawn => duty = d \/ told.at <= duty.voided

MarksInv ==
    /\ now \in Nat /\ IsDuty(duty, now)
    /\ {pending, closure} \subseteq 0 .. now \union {None}
    /\ told # None => TellsStill
=============================================================================
