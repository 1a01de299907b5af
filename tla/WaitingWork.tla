------------------------------ MODULE WaitingWork ------------------------------
(***************************************************************************)
(* What waits for a member, in the three places that say so: the home       *)
(* page's next move (next-actions.ts), the notices pinned in the panel      *)
(* (notification.service.ts, pinned) and the marks of the season's timeline *)
(* (round-activity.ts), each reckoned on its own from the duties, the       *)
(* evidence cases and the polls (duty.service.ts, case.service.ts,          *)
(* poll.service.ts).                                                       *)
(*                                                                         *)
(* The records change as the API would change them (EvidenceCases and       *)
(* DutyLedger have the rules) and the page has them at once.  A duty's      *)
(* evidence is in the order it was submitted.  Wording is left out.         *)
(***************************************************************************)
EXTENDS Integers, Sequences, FiniteSetsExt

CONSTANTS
    None,
    Duty,          \* numbers: the order the page has them in
    Rounds,
    DutyRounds,    \* bound: the rounds of the duties; 0 is none, the whole season's
    MaxEvidence    \* bound: submissions

VARIABLES
    duty,          \* each duty: the member's own or not, its round, status and evidence; or None
    rules,         \* the member may rule on the vetoes of others' evidence
    administers,
    poll,          \* the poll of round 1: its status, the member's choice and how many voted
    selected       \* the round the page shows

vars == <<duty, rules, administers, poll, selected>>

Options == {"yes", "no"}

TypeOK ==
    /\ \A d \in Duty : duty[d] # None =>
          /\ duty[d].round \in DutyRounds /\ duty[d].mine \in BOOLEAN
          /\ duty[d].status \in {"open", "completed", "voided"}
          /\ Len(duty[d].evidence) \in 0 .. MaxEvidence
    /\ rules \in BOOLEAN /\ administers \in BOOLEAN
    /\ poll.status \in {"none", "Open", "Closed"} /\ poll.mine \in Options \union {None}
    /\ poll.participants \in 0 .. 2
    /\ selected \in Rounds

Init ==
    /\ duty = [d \in Duty |-> None]
    /\ rules \in BOOLEAN /\ administers \in BOOLEAN
    /\ poll \in [status : {"none", "Open", "Closed"}, mine : {None}, participants : {1}]
    /\ selected \in Rounds

-----------------------------------------------------------------------------
Known == {d \in Duty : duty[d] # None}
Mine == {d \in Known : duty[d].mine}
Settled(d) == duty[d].status \in {"completed", "voided"}
Evidence(d) == {duty[d].evidence[i] : i \in DOMAIN duty[d].evidence}

\* duty.service.ts: the selected round's duties, the one of them that is the member's, and the
\* evidence that waits for the captain.
DutiesOf(round) == {d \in Known : duty[d].round = round}
MyDuty(round) ==
    LET mine == DutiesOf(round) \intersect Mine
        live == {d \in mine : ~Settled(d)} IN
    CASE live # {} -> Min(live) [] mine = {} -> None [] OTHER -> Min(mine)
Reviews(round) ==
    {d \in DutiesOf(round) \ Mine : \E e \in Evidence(d) : e.decision = "pending"}

\* case.service.ts.  A case is a duty and which of its evidence; the API says who may respond and
\* who may rule.
Cases == {<<d, i>> \in Known \X (1 .. MaxEvidence) : i \in DOMAIN duty[d].evidence}
Case(c) == duty[c[1]].evidence[c[2]]
CanRespond(c) == c[1] \notin Mine /\ Case(c).status = "open" /\ Case(c).response # "veto"
CanReview(c) == rules /\ c[1] \notin Mine /\ Case(c).status = "in_review" /\ Case(c).response # "veto"
AwaitingResponse == {c \in Cases : CanRespond(c) /\ Case(c).response = None}
AwaitingReview == {c \in Cases : CanReview(c)}
OfRound(cases, round) == {c \in cases : duty[c[1]].round \in {0, round}}
Live(c) == Case(c).status \in {"open", "in_review"}

\* next-actions.ts: what the home page says of the round it shows.
NextMove(round) ==
    LET mine == MyDuty(round) IN
    [duty    |-> IF mine = None THEN None ELSE IF Settled(mine) THEN None ELSE mine,
     votes   |-> OfRound(AwaitingResponse, round),
     rulings |-> OfRound(AwaitingReview, round),
     reviews |-> IF administers THEN Reviews(round) ELSE {}]
Visible(move) ==
    move.duty # None \/ move.votes # {} \/ move.rulings # {} \/ move.reviews # {}

\* pinned: whatever the round.
Pinned ==
    {<<"duty", d>> : d \in {m \in Mine : ~Settled(m)}}
    \union {<<"vote", c>> : c \in AwaitingResponse}
    \union {<<"review", c>> : c \in AwaitingReview}

\* roundActivity: the duty that needs the member most, and the decisions that are open.
DutyState(d) ==
    LET e == duty[d].evidence IN
    IF duty[d].status = "completed" THEN "done"
    ELSE IF e = <<>> THEN "open"
    ELSE IF e[Len(e)].decision = "rejected" THEN "rejected" ELSE "open"
Activity(round) ==
    LET states == {DutyState(d) : d \in {m \in Mine \intersect DutiesOf(round) : duty[m].status # "voided"}} IN
    [duty |-> CASE "rejected" \in states -> "rejected" [] "open" \in states -> "open"
                [] "done" \in states -> "done" [] OTHER -> None,
     decisions |-> Cardinality({c \in Cases : Live(c) /\ duty[c[1]].round = round})
                   + (IF round = 1 /\ poll.status = "Open" THEN 1 ELSE 0)]

-----------------------------------------------------------------------------
Create ==
    /\ \E d \in Duty \ Known, round \in DutyRounds, mine \in BOOLEAN :
       /\ \A e \in Duty \ Known : d <= e
       /\ duty' = [duty EXCEPT ![d] =
             [round |-> round, mine |-> mine, status |-> "open", evidence |-> <<>>]]
    /\ UNCHANGED <<rules, administers, poll, selected>>

Entry == [decision |-> "pending", status |-> "open", response |-> None]
\* What is decided of a duty's last evidence; pending evidence is always the last.
Last(d) == duty[d].evidence[Len(duty[d].evidence)]
Pending(d) == duty[d].evidence # <<>> /\ Last(d).decision = "pending"
Decide(d, decision) ==
    [duty[d].evidence EXCEPT ![Len(duty[d].evidence)].decision = decision,
                             ![Len(duty[d].evidence)].status = decision]
Replaced(d) == IF Pending(d) THEN Decide(d, "superseded") ELSE duty[d].evidence

\* Newer evidence supersedes what is pending.
Submit(d) ==
    /\ Cardinality(Cases) < MaxEvidence
    /\ duty' = [duty EXCEPT ![d].evidence = Append(Replaced(d), Entry)]

Void(d) == duty' = [duty EXCEPT ![d].status = "voided", ![d].evidence = Replaced(d)]

Accept(d) ==
    /\ Pending(d)
    /\ duty' = [duty EXCEPT ![d].status = "completed", ![d].evidence = Decide(d, "accepted")]
Reject(d) == Pending(d) /\ duty' = [duty EXCEPT ![d].evidence = Decide(d, "rejected")]

\* A veto, and its dismissal.
Move(d, from, to) ==
    /\ Pending(d) /\ Last(d).status = from
    /\ duty' = [duty EXCEPT ![d].evidence[Len(duty[d].evidence)].status = to]

\* The member's own response; a veto brings the case to review.
Respond(d) ==
    /\ Pending(d) /\ CanRespond(<<d, Len(duty[d].evidence)>>)
    /\ \E choice \in {"accept", "veto"} :
       duty' = [duty EXCEPT ![d].evidence[Len(duty[d].evidence)] =
                   [@ EXCEPT !.response = choice,
                             !.status = IF choice = "veto" THEN "in_review" ELSE "open"]]

Records ==
    /\ \E d \in Known : ~Settled(d) /\
          \/ Submit(d) \/ Void(d) \/ Accept(d) \/ Reject(d) \/ Respond(d)
          \/ Move(d, "open", "in_review") \/ Move(d, "in_review", "open")
    /\ UNCHANGED <<rules, administers, poll, selected>>

\* The vote dialog, on an open poll; a choice may be revised.
Vote ==
    /\ selected = 1 /\ poll.status = "Open"
    /\ \E choice \in Options :
       poll' = [poll EXCEPT !.mine = choice, !.participants = @ + (IF poll.mine = None THEN 1 ELSE 0)]
    /\ UNCHANGED <<duty, rules, administers, selected>>

Select ==
    /\ selected' \in Rounds
    /\ UNCHANGED <<duty, rules, administers, poll>>

Next == Create \/ Records \/ Vote \/ Select

Spec == Init /\ [][Next]_vars

-----------------------------------------------------------------------------
\* A duty of the member's that is not settled is pinned, gives the home page of its round a next
\* move and is marked on the timeline, and a mark of it done means no such duty is left there; a
\* case that waits for the member is pinned once, as a vote or as a ruling, is told by the home
\* page of its round, or of any round when it has none, and its round is marked with a decision;
\* what the captain is told to review is a case that is still open; and who votes twice counts once.
WorkIsShown ==
    LET move == NextMove(selected)
        marks == Activity(selected) IN
    /\ \A d \in Mine : ~Settled(d) =>
          /\ <<"duty", d>> \in Pinned
          /\ duty[d].round = selected => move.duty # None /\ marks.duty \in {"open", "rejected"}
    /\ move.duty # None => <<"duty", move.duty>> \in Pinned
    /\ \A c \in AwaitingResponse \union AwaitingReview :
          /\ Cardinality({k \in {"vote", "review"} : <<k, c>> \in Pinned}) = 1
          /\ duty[c[1]].round = selected => marks.decisions > 0
          /\ duty[c[1]].round \in {0, selected} => Visible(move)
    /\ move.votes \intersect move.rulings = {}
    /\ \A d \in move.reviews : \E c \in Cases : c[1] = d /\ Live(c)
    /\ marks.duty = "done" => move.duty = None
    /\ marks.duty = None => DutiesOf(selected) \intersect Mine \subseteq {d \in Mine : duty[d].status = "voided"}
    /\ poll.participants = IF poll.mine = None THEN 1 ELSE 2
=============================================================================
