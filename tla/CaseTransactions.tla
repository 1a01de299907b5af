--------------------------- MODULE CaseTransactions ----------------------------
(***************************************************************************)
(* The same requests, statement by statement (READ COMMITTED).             *)
(*                                                                         *)
(* EvidenceCases makes a request one step.  Here a request reads what it   *)
(* starts from, takes its row locks one at a time, works on the rows it    *)
(* has locked, and publishes everything at its commit; what it read        *)
(* without a lock may be stale by then.  Two kinds of rows are locked:     *)
(* duties (cases.lock_duty; their evidence and cases are written under     *)
(* that lock only) and names (league_memberships): FOR UPDATE by a release *)
(* or a withdrawal, and shared by every insert with a foreign key to them. *)
(* PostgreSQL ends a deadlock by failing one of the requests in it.        *)
(***************************************************************************)
EXTENDS EvidenceCases

CONSTANTS
    Request,    \* bound: the requests of one behaviour, each made once
    Kinds,      \* the kinds of request a run looks at
    Subject,    \* the member whose duties these are
    Submitted   \* the duties that start with evidence in front of the voters

ASSUME DutiesAreOrdered == Duty \subseteq Int /\ IsFiniteSet(Duty)   \* their ids: rows are locked in this order
ASSUME SubjectIsMember == Subject \in Member /\ Submitted \subseteq Duty

VARIABLE req    \* request -> what it is doing

txVars == <<vars, req>>

\* todo: the rows to lock next, as <<duty, evidence number or 0>>; work: the locked duties'
\* rows as the request leaves them; updating and sharing: the names whose rows it has locked.
NewRequest == [pc |-> "new"]
Ended == [pc |-> "ended"]

Op(kind) ==
    CASE kind = "read" -> [kind : {kind}]
      [] kind = "void" -> [kind : {kind}, d : Duty, i : {0}]
      [] kind = "submit" -> [kind : {kind}, ds : SUBSET Duty \ {{}}]
      [] kind = "respond" -> [kind : {kind}, d : Duty, i : 1 .. MaxEvidence, say : {"accept", "veto"}]
      [] kind = "review" -> [kind : {kind}, d : Duty, i : 1 .. MaxEvidence, say : {"upheld", "dismissed"}]
      [] kind = "decide" -> [kind : {kind}, d : Duty, i : 1 .. MaxEvidence, say : {"accepted", "rejected"}]
      [] kind \in {"release", "withdraw"} -> [kind : {kind}, m : Member]
      [] OTHER -> {}

TxInit ==
    /\ now = 0
    /\ holder = InitialHolder
    /\ active = Member
    /\ captain = InitialCaptain
    /\ standIn = NoMember
    /\ duty = [d \in Duty |-> IF d \in Submitted THEN OpenCase(NewDuty(Subject), Subject, Never)
                                                 ELSE NewDuty(Subject)]
    /\ req = [p \in Request |-> NewRequest]

-----------------------------------------------------------------------------
(* What a request waits for.                                               *)

InFlight(r) == r.pc \notin {"new", "ended"}

\* The duty the request locks or works on next, when there is one.
Heading(r) == r.pc \in {"settle", "lock"} /\ r.todo # <<>>
At(r) == Head(r.todo)[1]

Closed(d, e) ==
    \E i \in DOMAIN d.evidence : /\ d.evidence[i].status \in LIVE
                                 /\ e.evidence[i].status \in {"accepted", "rejected"}

Withdrew(d, e) == \E i \in DOMAIN d.evidence : e.evidence[i].eligible # d.evidence[i].eligible

\* cases.settle_if_due, for case i alone.
SettleCase(d, i) == IF i \in Due(d) THEN SettleIfDue(d) ELSE d

\* Mistake: the ballot listed as uncast is withdrawn, cast meanwhile or not.
ReleaseListed_CastToo(d, i, m) == IF i \in Due(d) THEN SettleCase(d, i) ELSE WithdrawBallot(d, i, m)

\* cases.release_ballots, for one of the cases it listed, live or not by now.
ReleaseListed(d, i, m) ==
    IF i \in Due(d) \/ d.evidence[i].choice[m] # "uncast" THEN SettleCase(d, i)
    ELSE WithdrawBallot(d, i, m)

\* Mistake: the clock is not looked at again once the lock is granted.
Arrive_ClockOnce(r) ==
    LET d == r.work[At(r)]
        i == Head(r.todo)[2]
    IN  IF r.pc = "settle" THEN SettleCase(d, i)
        ELSE IF r.op.kind = "release" THEN ReleaseListed(d, i, r.op.m)
        ELSE d

\* The locked duty as the request first leaves it: settle_due and the writes to a single case
\* look at the clock again; a submission, a void and a withdrawal do not.
Arrive(r) ==
    LET d == r.work[At(r)]
        i == Head(r.todo)[2]
    IN  IF r.pc = "settle" \/ r.op.kind \in {"respond", "review", "decide"} THEN SettleCase(d, i)
        ELSE IF r.op.kind = "release" THEN ReleaseListed(d, i, r.op.m)
        ELSE d

\* The duties with everything the request does to them, once they are locked; none if it is
\* refused.  A captain records the time of the submission as the completion's.
Outcomes(r) ==
    LET op == r.op
        k == r.work[op.d].evidence[op.i]
        only(x) == {[r.work EXCEPT ![op.d] = x]}
        open(d) == r.work[d].status = "open"
    IN IF op.kind \in {"respond", "review", "decide"} /\ op.i \notin DOMAIN r.work[op.d].evidence
       THEN {} ELSE
       CASE op.kind \in {"read", "release"} -> {r.work}
         [] op.kind = "void" -> IF open(op.d) THEN only(VoidDutyRow(r.work[op.d])) ELSE {}
         [] op.kind = "withdraw" ->
              {[d \in DOMAIN r.work |-> IF open(d) /\ r.work[d].subject = op.m
                                        THEN VoidDutyRow(r.work[d]) ELSE r.work[d]]}
         [] op.kind = "submit" ->
              IF \A d \in op.ds : open(d) /\ Len(r.work[d].evidence) < MaxEvidence
              THEN {[d \in DOMAIN r.work |-> IF d \in op.ds
                        THEN OpenCase(r.work[d], r.as, IF r.as = Subject THEN Never ELSE now)
                        ELSE r.work[d]]}
              ELSE {}
         [] op.kind = "respond" ->
              IF k.status = "open" /\ (k.choice[r.as] = "uncast"
                                       \/ (k.choice[r.as] = "accept" /\ k.castBy[r.as] = r.by))
              THEN only(IF op.say = "accept" THEN CastAccept(r.work[op.d], op.i, r.as, r.by)
                                             ELSE CastVeto(r.work[op.d], op.i, r.as, r.by))
              ELSE {}
         [] op.kind = "review" ->
              UNION {only(IF op.say = "upheld" THEN Uphold(r.work[op.d], op.i, v)
                                               ELSE Dismiss(r.work[op.d], op.i, v)) :
                        v \in {v \in Member : /\ k.status = "in_review"
                                              /\ k.ruling[v] = "pending"
                                              /\ MayReview(r.by, r.as, r.work[op.d], v)}}
         [] op.kind = "decide" ->
              IF open(op.d) /\ k.link = "pending" /\ r.as # r.work[op.d].subject
              THEN only(CaptainDecides(r.work[op.d], op.i, op.say)) ELSE {}

\* The names whose rows the request's next inserts refer to: the subject of a feed entry, the
\* actor in the audit trail (never a voter's), the names of an electorate.
Mentions(r) ==
    LET subjects == {Subject}
        actor == {r.as} \ {NoMember}
    IN CASE Heading(r) /\ At(r) \in DOMAIN r.work ->
              (IF Closed(r.work[At(r)], Arrive(r)) THEN subjects ELSE {})
                \union (IF Withdrew(r.work[At(r)], Arrive(r)) THEN actor ELSE {})
         [] r.pc = "lock" /\ r.todo = <<>> ->
              CASE r.op.kind = "read" -> {}
                [] r.op.kind = "release" -> actor
                [] r.op.kind = "respond" ->
                     IF r.op.say = "veto" \/ \E w \in Outcomes(r) : Closed(r.work[r.op.d], w[r.op.d])
                     THEN subjects ELSE {}
                [] OTHER -> actor \union subjects
         [] r.pc = "insert" ->
              UNION {Voters(r.work[d].evidence[Len(r.work[d].evidence)]) : d \in r.op.ds}
         [] OTHER -> {}

WaitsFor(p, q) ==
    LET r == req[p]
        s == req[q]
    IN /\ p # q /\ InFlight(r) /\ InFlight(s)
       /\ \/ Heading(r) /\ At(r) \notin DOMAIN r.work /\ At(r) \in DOMAIN s.work
          \/ Mentions(r) \intersect s.updating # {}
          \/ r.pc = "name" /\ r.op.m \in s.updating \union s.sharing

\* Mistake: the duty's lock is not waited for.
Unblocked_NoDutyLock(p) ==
    \A q \in Request : WaitsFor(p, q) => Heading(req[p]) /\ At(req[p]) \notin DOMAIN req[p].work

Unblocked(p) == \A q \in Request : ~WaitsFor(p, q)

-----------------------------------------------------------------------------
(* The statements of one request.                                          *)

\* Every queue of rows is locked in the order of the duties' ids, except a withdrawal's.
Queues(rows, sorted) ==
    {s \in [1 .. Cardinality(rows) -> rows] :
        \A i, j \in DOMAIN s : i < j => IF sorted THEN s[i][1] < s[j][1] ELSE s[i] # s[j]}

\* Resolving the actor a, as m, and what can be refused before anything is locked.
MayBegin(a, m, op) ==
    /\ Acting(a, m)
    /\ op.kind \in {"submit", "respond", "decide"} => m # NoMember
    /\ op.kind \in {"void", "decide", "release", "withdraw"} => Administers(a, m)
    /\ op.kind \in {"release", "withdraw"} => op.m # captain
    /\ op.kind = "withdraw" => op.m # m
    /\ op.kind = "submit" => /\ m = Subject \/ Administers(a, m)
                             /\ now + Window <= MaxTime    \* bound, as in EvidenceCases

\* settle_due's list of the cases whose window has closed is what the request does first.
Begin(p) ==
    /\ req[p] = NewRequest
    /\ \E a \in Account, m \in Member \union {NoMember}, kind \in Kinds :
       \E op \in Op(kind), todo \in Queues({x \in Duty \X (1 .. MaxEvidence) : x[2] \in Due(duty[x[1]])}, TRUE) :
          /\ MayBegin(a, m, op)
          /\ req' = [req EXCEPT ![p] =
                [ pc |-> "settle", op |-> op, by |-> a, as |-> m, todo |-> todo,
                  work |-> <<>>, updating |-> {}, sharing |-> {} ]]
    /\ UNCHANGED vars

LockDuty(p) ==
    /\ Heading(req[p]) /\ At(req[p]) \notin DOMAIN req[p].work /\ Unblocked(p)
    /\ LET r == req[p] IN
       req' = [req EXCEPT ![p].work = [d \in DOMAIN r.work \union {At(r)} |->
                                          IF d \in DOMAIN r.work THEN r.work[d] ELSE duty[d]]]
    /\ UNCHANGED vars

LockedDuty(p) ==
    /\ Heading(req[p]) /\ At(req[p]) \in DOMAIN req[p].work /\ Unblocked(p)
    /\ LET r == req[p] IN
       req' = [req EXCEPT ![p] = [r EXCEPT !.work[At(r)] = Arrive(r), !.todo = Tail(r.todo),
                                           !.sharing = r.sharing \union Mentions(r)]]
    /\ UNCHANGED vars

\* Once the due cases are settled: the duties the request is about.
Targets(r) ==
    CASE r.op.kind = "submit" -> {<<d, 0>> : d \in r.op.ds}
      [] r.op.kind = "read" -> {}
      [] OTHER -> {<<r.op.d, r.op.i>>}

SettledAll(p) ==
    /\ req[p].pc = "settle" /\ req[p].todo = <<>>
    /\ IF req[p].op.kind \in {"release", "withdraw"}
       THEN req' = [req EXCEPT ![p].pc = "name"]
       ELSE \E todo \in Queues(Targets(req[p]), TRUE) :
               req' = [req EXCEPT ![p] = [@ EXCEPT !.pc = "lock", !.todo = todo]]
    /\ UNCHANGED vars

\* What a request sees of a duty: its own writes, else what is committed.
Sees(r, d) == IF d \in DOMAIN r.work THEN r.work[d] ELSE duty[d]

\* The live cases that wait for the name's ballot, or the live duties of the name.
Listed(r) ==
    IF r.op.kind = "release"
    THEN {x \in Duty \X (1 .. MaxEvidence) :
            LET cases == Sees(r, x[1]).evidence IN
            /\ x[2] \in DOMAIN cases
            /\ cases[x[2]].status \in LIVE /\ cases[x[2]].choice[r.op.m] = "uncast"}
    ELSE {<<d, 0>> : d \in {d \in Duty : Sees(r, d).subject = r.op.m /\ Sees(r, d).status = "open"}}

\* service._league_membership: the name's row, FOR UPDATE, and the refusals that follow.
LockName(p) ==
    /\ req[p].pc = "name" /\ Unblocked(p)
    /\ LET r == req[p] IN
       IF IF r.op.kind = "release" THEN holder[r.op.m] = NoAccount ELSE r.op.m \notin active
       THEN req' = [req EXCEPT ![p] = Ended]
       ELSE \E todo \in Queues(Listed(r), r.op.kind = "release") :
               req' = [req EXCEPT ![p] = [r EXCEPT !.pc = "lock", !.todo = todo,
                                                   !.updating = {r.op.m}]]
    /\ UNCHANGED vars

\* Everything is locked: the request does its work, or is refused and rolled back.
Work(p) ==
    /\ req[p].pc = "lock" /\ req[p].todo = <<>> /\ Unblocked(p)
    /\ LET r == req[p] IN
       \/ Outcomes(r) = {} /\ req' = [req EXCEPT ![p] = Ended]
       \/ \E w \in Outcomes(r) :
             req' = [req EXCEPT ![p] =
                [r EXCEPT !.pc = IF r.op.kind = "submit" THEN "insert" ELSE "commit",
                          !.work = w, !.sharing = r.sharing \union Mentions(r)]]
    /\ UNCHANGED vars

\* open_case read the electorate in Work; its ballots are inserted here.
InsertBallots(p) ==
    /\ req[p].pc = "insert" /\ Unblocked(p)
    /\ LET r == req[p] IN
       req' = [req EXCEPT ![p] = [r EXCEPT !.pc = "commit", !.sharing = r.sharing \union Mentions(r)]]
    /\ UNCHANGED vars

Commit(p) ==
    /\ req[p].pc = "commit"
    /\ LET r == req[p] IN
       /\ duty' = [d \in Duty |-> Sees(r, d)]
       /\ holder' = IF r.op.kind = "release" THEN [holder EXCEPT ![r.op.m] = NoAccount] ELSE holder
       /\ active' = IF r.op.kind = "withdraw" THEN active \ {r.op.m} ELSE active
       /\ IF r.op.kind \in {"release", "withdraw"} THEN ClearStandIn(r.op.m) ELSE UNCHANGED standIn
    /\ req' = [req EXCEPT ![p] = Ended]
    /\ UNCHANGED <<now, captain>>

\* Requests that wait for each other in a circle.
Deadlocked(S) == S # {} /\ \A p \in S : \E q \in S : WaitsFor(p, q)

\* PostgreSQL fails one of them: it is rolled back, and its caller gets an error.
Abort(p) ==
    /\ \E S \in SUBSET Request : p \in S /\ Deadlocked(S)
    /\ req' = [req EXCEPT ![p] = Ended]
    /\ UNCHANGED vars

\* The claim is one UPDATE of the name's row, which waits for whoever has that row locked.
ClaimName ==
    /\ "claim" \in Kinds
    /\ \E a \in Account, m \in Member :
          /\ \A q \in Request : InFlight(req[q]) => m \notin req[q].updating \union req[q].sharing
          /\ Claim(a, m)
    /\ UNCHANGED req

\* Time passes while requests wait for locks, not between the last look at the clock and the
\* work that follows it under the same lock.
ClockTicks ==
    /\ \A p \in Request : ~(req[p].pc = "lock" /\ req[p].todo = <<>>)
    /\ Tick
    /\ UNCHANGED req

TxNext ==
    \/ \E p \in Request :
          \/ Begin(p) \/ LockDuty(p) \/ LockedDuty(p) \/ SettledAll(p) \/ LockName(p)
          \/ Work(p) \/ InsertBallots(p) \/ Commit(p) \/ Abort(p)
    \/ ClaimName \/ ClockTicks

TxSpec == TxInit /\ [][TxNext]_txVars
-----------------------------------------------------------------------------

\* "Every evidence and case write takes the duty's lock first, so writes to one duty's cases
\* queue behind each other and never deadlock" (cases.lock_duty).
NeverDeadlock == \A S \in SUBSET Request : ~Deadlocked(S)

\* A case the members carried was carried in time: a majority of accepts closes it before its
\* window does, unless a veto was dismissed afterwards.  The vote that waited for the duty's
\* lock while the window closed finds the case settled.
CarriedInTime ==
    \A d \in Duty : \A i \in DOMAIN duty[d].evidence :
        LET k == duty[d].evidence[i] IN
        k.resolution = "majority" /\ (\A m \in Member : k.ruling[m] # "dismissed") =>
            k.resolvedAt < ClosesAt(k)

\* Every commit still moves each duty the way DutyLedger allows, by one step at most.
LedgerSteps == [][Ledger!Next]_duty
=============================================================================

