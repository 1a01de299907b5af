----------------------------- MODULE EvidenceCases -----------------------------
(***************************************************************************)
(* Duties, their evidence, and the cases the members vote on               *)
(* (app/league/cases.py and the evidence part of app/league/service.py).   *)
(*                                                                         *)
(* One action is one request: the API runs a request in one database       *)
(* transaction, a refused request rolls back, and every write to a duty's  *)
(* evidence holds that duty's lock.  There is no scheduler: a case whose   *)
(* window has closed is settled by the next request that looks, inside     *)
(* that request's own transaction (Settled below).                         *)
(*                                                                         *)
(* A duty's evidence links and their cases are in one sequence, oldest     *)
(* first: each link opens exactly one case.  Reasons, notes, videos, feed  *)
(* entries and audit events are left out.                                  *)
(***************************************************************************)
EXTENDS Integers, Sequences, FiniteSets

CONSTANTS
    Member,         \* the league's names (league_memberships)
    Account,        \* sign-ins (users)
    Admins,         \* the accounts with users.is_admin
    Duty,           \* duty rows that may come to exist
    KindOf,         \* duty -> its type and round, of which a member has one live duty
    NoMember,
    NoAccount,
    InitialHolder,  \* member -> the account that has claimed the name, or NoAccount
    InitialCaptain,
    Window,         \* VOTING_WINDOW
    MaxTime,        \* bound: the clock stops here
    MaxEvidence     \* bound: evidence links per duty

ASSUME MembersFinite == IsFiniteSet(Member) /\ NoMember \notin Member
ASSUME AccountsFinite == NoAccount \notin Account /\ Admins \subseteq Account
\* The model starts once the captain has claimed the name create_league reserves for them.
ASSUME InitialMembers ==
    /\ InitialHolder \in [Member -> Account \union {NoAccount}]
    /\ InitialCaptain \in Member /\ InitialHolder[InitialCaptain] # NoAccount
    /\ \A m, n \in Member :
          InitialHolder[m] = InitialHolder[n] /\ m # n => InitialHolder[m] = NoAccount
ASSUME BoundsAreNatural == Window \in Nat \ {0} /\ MaxTime \in Nat /\ MaxEvidence \in Nat

VARIABLES
    now,        \* the clock every request reads
    duty,       \* duty -> [status, subject, completedAt, evidence]
    holder,     \* member -> user_id, or NoAccount
    active,     \* the members with status 'active' (enrolled in the season)
    captain,    \* leagues.captain_membership_id
    standIn     \* leagues.stand_in_reviewer_membership_id, or NoMember

vars == <<now, duty, holder, active, captain, standIn>>
membership == <<holder, active, captain, standIn>>

Never == -1
Time == 0 .. MaxTime
\* "open" stands for open and pending_deadline, which no request here tells apart.
DutyStatus == {"none", "open", "voided", "completed"}
LIVE == {"open", "in_review"}
CaseStatus == LIVE \union {"accepted", "rejected", "superseded"}
Resolution == {"none", "majority", "auto", "no_voters", "veto_upheld", "captain"}

\* An evidence link and its case.  choice[m] = "none" is a member with no ballot row.
\* `electors` is a history field: who held each name when the electorate was frozen.
Case == [ submitter : Member, submittedAt : Time, claimedAt : Time \union {Never},
          link : {"pending", "accepted", "rejected", "superseded"},
          status : CaseStatus, resolution : Resolution, resolvedAt : Int,
          eligible : Int,
          choice : [Member -> {"none", "uncast", "accept", "veto"}],
          castBy : [Member -> Account \union {NoAccount}],
          ruling : [Member -> {"none", "pending", "upheld", "dismissed"}],
          electors : [Member -> Account \union {NoAccount}] ]

DutyRecord == [ status : DutyStatus, subject : Member \union {NoMember},
                completedAt : Time \union {Never}, evidence : Seq(Case) ]

TypeOK ==
    /\ now \in Time
    /\ duty \in [Duty -> DutyRecord]
    /\ holder \in [Member -> Account \union {NoAccount}]
    /\ active \in SUBSET Member
    /\ captain \in Member
    /\ standIn \in Member \union {NoMember}

NoDuty == [status |-> "none", subject |-> NoMember, completedAt |-> Never, evidence |-> <<>>]
NewDuty(subject) ==
    [status |-> "open", subject |-> subject, completedAt |-> Never, evidence |-> <<>>]

Init ==
    /\ now = 0
    /\ duty = [d \in Duty |-> NoDuty]
    /\ holder = InitialHolder
    /\ active = Member
    /\ captain = InitialCaptain
    /\ standIn = NoMember

-----------------------------------------------------------------------------
(* What a request does to one duty's row, its evidence and its cases.      *)

ClosesAt(k) == k.submittedAt + Window

Voters(k) == {m \in Member : k.choice[m] # "none"}

Accepts(k) == Cardinality({m \in Member : k.choice[m] = "accept"})

Majority(accepts, eligible) == accepts * 2 > eligible

\* service.effective_completion: own evidence counts from its submission, evidence
\* submitted on a member's behalf from the recorded completion time.
EffectiveCompletion(d, k) == IF k.submitter # d.subject THEN k.claimedAt ELSE k.submittedAt

\* cases.supersede, for one piece of evidence.
SupersedeCase(k) ==
    IF k.status \in LIVE THEN [k EXCEPT !.status = "superseded", !.resolvedAt = now] ELSE k

\* Mistake: the links are superseded and their cases forgotten.
SupersedePending_LinksOnly(d, keep) ==
    [d EXCEPT !.evidence = [i \in DOMAIN d.evidence |->
        IF i # keep /\ d.evidence[i].link = "pending"
        THEN [d.evidence[i] EXCEPT !.link = "superseded"] ELSE d.evidence[i]]]

\* service.supersede_pending (keep = 0 spares nothing).
SupersedePending(d, keep) ==
    [d EXCEPT !.evidence = [i \in DOMAIN d.evidence |->
        IF i # keep /\ d.evidence[i].link = "pending"
        THEN SupersedeCase([d.evidence[i] EXCEPT !.link = "superseded"])
        ELSE d.evidence[i]]]

\* Mistake: the duty counts from the moment of the decision.
ApplyDecision_CountsFromNow(d, i, decision) ==
    LET decided == [d EXCEPT !.evidence[i].link = decision] IN
    IF decision = "accepted"
    THEN SupersedePending([decided EXCEPT !.status = "completed", !.completedAt = now], i)
    ELSE decided

\* service.apply_decision.
ApplyDecision(d, i, decision) ==
    LET decided == [d EXCEPT !.evidence[i].link = decision] IN
    IF decision = "accepted"
    THEN SupersedePending([decided EXCEPT
             !.status = "completed",
             !.completedAt = EffectiveCompletion(d, d.evidence[i])], i)
    ELSE decided

\* The case's own row, closed.
CloseCase(d, i, decision, resolution, at) ==
    [d EXCEPT !.evidence[i] = [@ EXCEPT !.status = decision, !.resolution = resolution,
                                        !.resolvedAt = at]]

\* cases._close.  The ELSE branch is what the code calls unreachable.
Close(d, i, decision, resolution, at) ==
    IF d.evidence[i].link = "pending" /\ d.status = "open"
    THEN CloseCase(ApplyDecision(d, i, decision), i, decision, resolution, at)
    ELSE [d EXCEPT !.evidence[i] = SupersedeCase(@)]

\* Mistake: the window closes on a case in review as well.
Due_InReviewToo(d) == {i \in DOMAIN d.evidence :
             d.evidence[i].status \in LIVE /\ ClosesAt(d.evidence[i]) <= now}

Due(d) == {i \in DOMAIN d.evidence :
             d.evidence[i].status = "open" /\ ClosesAt(d.evidence[i]) <= now}

\* cases.settle_if_due, dated when the window closed.
SettleIfDue(d) ==
    IF Due(d) = {} THEN d
    ELSE LET i == CHOOSE j \in Due(d) : TRUE
         IN  Close(d, i, "accepted", "auto", ClosesAt(d.evidence[i]))

\* cases.settle_due: every duty as the rest of the request finds it.
Settled == [d \in Duty |-> SettleIfDue(duty[d])]

Claimed == {m \in active : holder[m] # NoAccount}

\* Mistake: newer evidence leaves the pending evidence and its case as they are.
OpenCase_BesideOlder(d, submitter, claimedAt) ==
    LET electorate == Claimed \ {d.subject, submitter} IN
    [d EXCEPT !.evidence = Append(@,
        [ submitter |-> submitter, submittedAt |-> now, claimedAt |-> claimedAt,
          link |-> "pending", status |-> "open", resolution |-> "none",
          resolvedAt |-> Never, eligible |-> Cardinality(electorate),
          choice |-> [m \in Member |-> IF m \in electorate THEN "uncast" ELSE "none"],
          castBy |-> [m \in Member |-> NoAccount],
          ruling |-> [m \in Member |-> "none"],
          electors |-> [m \in Member |-> IF m \in electorate THEN holder[m] ELSE NoAccount] ])]

\* cases.open_case, with the newest evidence's frozen electorate.
OpenCase(d, submitter, claimedAt) ==
    LET older == SupersedePending(d, 0)
        electorate == Claimed \ {d.subject, submitter}
        case == [ submitter |-> submitter, submittedAt |-> now, claimedAt |-> claimedAt,
                  link |-> "pending", status |-> "open", resolution |-> "none",
                  resolvedAt |-> Never, eligible |-> Cardinality(electorate),
                  choice |-> [m \in Member |-> IF m \in electorate THEN "uncast" ELSE "none"],
                  castBy |-> [m \in Member |-> NoAccount],
                  ruling |-> [m \in Member |-> "none"],
                  electors |-> [m \in Member |->
                                  IF m \in electorate THEN holder[m] ELSE NoAccount] ]
        opened == [older EXCEPT !.evidence = Append(@, case)]
        i == Len(older.evidence) + 1
    IN  IF electorate = {}
        THEN CloseCase(ApplyDecision(opened, i, "accepted"), i, "accepted", "no_voters", now)
        ELSE opened

AcceptIfMajority(d, i) ==
    IF Majority(Accepts(d.evidence[i]), d.evidence[i].eligible)
    THEN Close(d, i, "accepted", "majority", now) ELSE d

\* Mistake: the ballot records the member, not the account.
CastAccept_ByMember(d, i, m, a) ==
    IF d.evidence[i].choice[m] = "accept" THEN d
    ELSE AcceptIfMajority(
            [d EXCEPT !.evidence[i] = [@ EXCEPT !.choice[m] = "accept", !.castBy[m] = m]], i)

CastAccept(d, i, m, a) ==
    IF d.evidence[i].choice[m] = "accept" THEN d
    ELSE AcceptIfMajority(
            [d EXCEPT !.evidence[i] = [@ EXCEPT !.choice[m] = "accept", !.castBy[m] = a]], i)

CastVeto(d, i, m, a) ==
    [d EXCEPT !.evidence[i] = [@ EXCEPT !.choice[m] = "veto", !.castBy[m] = a,
                                        !.ruling[m] = "pending", !.status = "in_review"]]

Uphold(d, i, v) ==
    Close([d EXCEPT !.evidence[i].ruling[v] = "upheld"], i, "rejected", "veto_upheld", now)

\* Mistake: the dismissal is not recorded on the ballot.
Dismiss_VetoStillPending(d, i, v) == [d EXCEPT !.evidence[i].status = "open"]

Dismiss(d, i, v) ==
    LET reopened ==
            [d EXCEPT !.evidence[i] = [@ EXCEPT !.ruling[v] = "dismissed", !.status = "open"]]
        k == reopened.evidence[i]
    IN  IF Majority(Accepts(k), k.eligible)
        THEN Close(reopened, i, "accepted", "majority", now)
        ELSE IF now >= ClosesAt(k)
             THEN Close(reopened, i, "accepted", "auto", now)
             ELSE reopened

\* service.decide_link and cases.close_by_captain.
CaptainDecides(d, i, decision) ==
    LET decided == ApplyDecision(d, i, decision) IN
    IF d.evidence[i].status \in LIVE
    THEN CloseCase(decided, i, decision, "captain", now) ELSE decided

\* Mistake: the duty is voided and its evidence left waiting.
VoidDutyRow_EvidenceWaits(d) == [d EXCEPT !.status = "voided"]

VoidDutyRow(d) == SupersedePending([d EXCEPT !.status = "voided"], 0)

\* Mistake: the ballot goes and the electorate keeps its size.
WithdrawBallot_SameSize(d, i, m) == [d EXCEPT !.evidence[i].choice[m] = "none"]

\* Mistake: nobody looks whether the remaining accepts now carry the case.
WithdrawBallot_NoCount(d, i, m) ==
    [d EXCEPT !.evidence[i].choice[m] = "none", !.evidence[i].eligible = @ - 1]

\* cases.release_ballots, for one duty: the ballot m has not cast is withdrawn.
WithdrawBallot(d, i, m) ==
    LET eligible == d.evidence[i].eligible - 1
        smaller == [d EXCEPT !.evidence[i] = [@ EXCEPT !.choice[m] = "none",
                                                       !.eligible = eligible]]
        k == smaller.evidence[i]
    IN  IF k.status # "open" THEN smaller
        ELSE IF eligible = 0
             THEN Close(smaller, i, "accepted", "no_voters", now)
             ELSE AcceptIfMajority(smaller, i)

ReleaseBallots(d, m) ==
    LET uncast == {i \in DOMAIN d.evidence :
                     d.evidence[i].status \in LIVE /\ d.evidence[i].choice[m] = "uncast"}
    IN  IF uncast = {} THEN d ELSE WithdrawBallot(d, CHOOSE i \in uncast : TRUE, m)

-----------------------------------------------------------------------------
(* Who is asking.                                                          *)

\* context.actor_for: the caller's active membership, or the admin viewing the league.
Acting(a, m) ==
    \/ m \in active /\ holder[m] = a
    \/ m = NoMember /\ a \in Admins /\ \A n \in active : holder[n] # a

Administers(a, m) == m = captain \/ a \in Admins

Steward(a, m) == Acting(a, m) /\ Administers(a, m)

Involved(d, vetoer) == {d.subject, vetoer}

\* Mistake: only members review.
MayReview_MembersOnly(a, m, d, vetoer) ==
    /\ m # NoMember /\ m \notin Involved(d, vetoer)
    /\ \/ m = captain \/ a \in Admins
       \/ captain \in Involved(d, vetoer) /\ m = standIn

\* cases.may_review, for the caller a acting as member m.
MayReview(a, m, d, vetoer) ==
    IF m = NoMember THEN a \in Admins
    ELSE /\ m \notin Involved(d, vetoer)
         /\ \/ m = captain \/ a \in Admins
            \/ captain \in Involved(d, vetoer) /\ m = standIn

\* Mistake: a stand-in who is involved counts as a reviewer.
NeedsReviewer_AnyStandIn(d, vetoer) ==
    captain \in Involved(d, vetoer) /\ standIn = NoMember

\* cases.needs_reviewer.
NeedsReviewer(d, vetoer) ==
    /\ captain \in Involved(d, vetoer)
    /\ standIn = NoMember \/ standIn \in Involved(d, vetoer)

\* Mistake: the stand-in is not cleared.
ClearStandIn_Kept(m) == UNCHANGED standIn

\* cases.clear_stand_in.
ClearStandIn(m) == standIn' = IF standIn = m THEN NoMember ELSE standIn

-----------------------------------------------------------------------------
(* The requests about duties, evidence and cases.                          *)

\* Any read of duties, cases, marks or the feed: list_cases, duties, marks_totals, feed.
Read(a) ==
    /\ \E m \in Member \union {NoMember} : Acting(a, m)
    /\ duty' = Settled
    /\ UNCHANGED <<now, membership>>

CreateDuty(a, d, subject) ==
    /\ \E m \in Member : Steward(a, m)
    /\ Settled[d].status = "none"
    /\ subject \in active
    /\ \A e \in Duty : ~ /\ Settled[e].status = "open"
                         /\ Settled[e].subject = subject /\ KindOf[e] = KindOf[d]
    /\ duty' = [Settled EXCEPT ![d] = NewDuty(subject)]
    /\ UNCHANGED <<now, membership>>

VoidDuty(a, d) ==
    /\ \E m \in Member \union {NoMember} : Steward(a, m)
    /\ Settled[d].status = "open"
    /\ duty' = [Settled EXCEPT ![d] = VoidDutyRow(@)]
    /\ UNCHANGED <<now, membership>>

\* One submission links evidence to each of the duties ds, all the same member's.
SubmitEvidence(a, ds, subject, claimedAt) ==
    /\ now + Window <= MaxTime    \* bound: the clock can still close the window
    /\ \E submitter \in Member :
          /\ Acting(a, submitter)
          /\ IF subject = submitter THEN claimedAt = Never
             ELSE Administers(a, submitter) /\ claimedAt \in 0 .. now
          /\ \A d \in ds : /\ Settled[d].subject = subject
                           /\ Settled[d].status = "open"
                           /\ Len(Settled[d].evidence) < MaxEvidence
          /\ duty' = [d \in Duty |-> IF d \in ds
                                     THEN OpenCase(Settled[d], submitter, claimedAt)
                                     ELSE Settled[d]]
    /\ UNCHANGED <<now, membership>>

\* Mistake: a member whose veto was dismissed may vote again.
Respond_VetoMayChange(a, d, i, choice) ==
    /\ i \in DOMAIN Settled[d].evidence
    /\ Settled[d].evidence[i].status = "open"
    /\ \E m \in Member :
          /\ Acting(a, m)
          /\ \/ Settled[d].evidence[i].choice[m] = "uncast"
             \/ Settled[d].evidence[i].castBy[m] = a
          /\ duty' = [Settled EXCEPT ![d] = IF choice = "accept"
                                            THEN CastAccept(@, i, m, a)
                                            ELSE CastVeto(@, i, m, a)]
    /\ UNCHANGED <<now, membership>>

Respond(a, d, i, choice) ==
    /\ i \in DOMAIN Settled[d].evidence
    /\ LET k == Settled[d].evidence[i] IN
       \E m \in Member :
          /\ Acting(a, m)
          /\ k.choice[m] = "uncast" \/ (k.choice[m] = "accept" /\ k.castBy[m] = a)
          /\ k.status = "open"
          /\ duty' = [Settled EXCEPT ![d] = IF choice = "accept"
                                            THEN CastAccept(@, i, m, a)
                                            ELSE CastVeto(@, i, m, a)]
    /\ UNCHANGED <<now, membership>>

Review(a, d, i, ruling) ==
    /\ i \in DOMAIN Settled[d].evidence
    /\ Settled[d].evidence[i].status = "in_review"
    /\ \E m \in Member \union {NoMember}, v \in Member :
          /\ Acting(a, m)
          /\ Settled[d].evidence[i].ruling[v] = "pending"
          /\ MayReview(a, m, Settled[d], v)
          /\ duty' = [Settled EXCEPT ![d] = IF ruling = "upheld"
                                            THEN Uphold(@, i, v) ELSE Dismiss(@, i, v)]
    /\ UNCHANGED <<now, membership>>

\* Mistake: evidence that was already decided may be decided again.
DecideLink_Again(a, d, i, decision) ==
    /\ i \in DOMAIN Settled[d].evidence
    /\ Settled[d].status = "open"
    /\ \E m \in Member : Steward(a, m) /\ m # Settled[d].subject
    /\ duty' = [Settled EXCEPT ![d] = CaptainDecides(@, i, decision)]
    /\ UNCHANGED <<now, membership>>

DecideLink(a, d, i, decision) ==
    /\ i \in DOMAIN Settled[d].evidence
    /\ Settled[d].status = "open"
    /\ Settled[d].evidence[i].link = "pending"
    /\ \E m \in Member : Steward(a, m) /\ m # Settled[d].subject
    /\ duty' = [Settled EXCEPT ![d] = CaptainDecides(@, i, decision)]
    /\ UNCHANGED <<now, membership>>

-----------------------------------------------------------------------------
(* The requests about members that reach into live cases.                  *)

\* service._claim: an account without a membership here takes an unclaimed name.
Claim(a, m) ==
    /\ m \in active /\ holder[m] = NoAccount
    /\ \A n \in Member : holder[n] # a
    /\ holder' = [holder EXCEPT ![m] = a]
    /\ UNCHANGED <<now, duty, active, captain, standIn>>

\* Mistake: a released name keeps its ballots.
ReleaseMembership_KeepsBallots(a, m) ==
    /\ \E n \in Member \union {NoMember} : Steward(a, n)
    /\ m # captain /\ holder[m] # NoAccount
    /\ holder' = [holder EXCEPT ![m] = NoAccount]
    /\ ClearStandIn(m)
    /\ duty' = Settled
    /\ UNCHANGED <<now, active, captain>>

ReleaseMembership(a, m) ==
    /\ \E n \in Member \union {NoMember} : Steward(a, n)
    /\ m # captain /\ holder[m] # NoAccount
    /\ holder' = [holder EXCEPT ![m] = NoAccount]
    /\ ClearStandIn(m)
    /\ duty' = [d \in Duty |-> ReleaseBallots(Settled[d], m)]
    /\ UNCHANGED <<now, active, captain>>

\* Mistake: the duties are voided and their evidence left waiting.
WithdrawMember_DutiesOnly(a, m) ==
    /\ \E n \in Member \union {NoMember} : Steward(a, n) /\ n # m
    /\ m # captain /\ m \in active
    /\ active' = active \ {m}
    /\ ClearStandIn(m)
    /\ duty' = [d \in Duty |->
                  IF Settled[d].subject = m /\ Settled[d].status = "open"
                  THEN [Settled[d] EXCEPT !.status = "voided"] ELSE Settled[d]]
    /\ UNCHANGED <<now, holder, captain>>

\* A record-free unclaimed name is deleted instead: for the cases that is a withdrawn
\* name nobody reinstates.
WithdrawMember(a, m) ==
    /\ \E n \in Member \union {NoMember} : Steward(a, n) /\ n # m
    /\ m # captain /\ m \in active
    /\ active' = active \ {m}
    /\ ClearStandIn(m)
    /\ duty' = [d \in Duty |->
                  IF Settled[d].subject = m /\ Settled[d].status = "open"
                  THEN VoidDutyRow(Settled[d]) ELSE Settled[d]]
    /\ UNCHANGED <<now, holder, captain>>

ReinstateMember(a, m) ==
    /\ \E n \in Member \union {NoMember} : Steward(a, n)
    /\ m \notin active
    /\ active' = active \union {m}
    /\ UNCHANGED <<now, duty, holder, captain, standIn>>

AppointCaptain(a, m) ==
    /\ a \in Admins
    /\ m \in Claimed /\ m # captain
    /\ captain' = m
    /\ ClearStandIn(m)
    /\ UNCHANGED <<now, duty, holder, active>>

SetStandIn(a, m) ==
    /\ \E n \in Member \union {NoMember} : Steward(a, n)
    /\ m = NoMember \/ (m \in Claimed /\ m # captain)
    /\ m # standIn
    /\ standIn' = m
    /\ UNCHANGED <<now, duty, holder, active, captain>>

Tick ==
    /\ now < MaxTime
    /\ now' = now + 1
    /\ UNCHANGED <<duty, membership>>

-----------------------------------------------------------------------------

CaseNext ==
    \/ Tick
    \/ \E a \in Account :
         \/ Read(a)
         \/ \E d \in Duty, subject \in Member : CreateDuty(a, d, subject)
         \/ \E d \in Duty : VoidDuty(a, d)
         \/ \E ds \in SUBSET Duty \ {{}}, subject \in Member, t \in Time \union {Never} :
               SubmitEvidence(a, ds, subject, t)
         \/ \E d \in Duty, i \in 1 .. MaxEvidence :
               \/ \E choice \in {"accept", "veto"} : Respond(a, d, i, choice)
               \/ \E ruling \in {"upheld", "dismissed"} : Review(a, d, i, ruling)
               \/ \E decision \in {"accepted", "rejected"} : DecideLink(a, d, i, decision)

MemberNext ==
    \E a \in Account :
        \/ \E m \in Member : \/ Claim(a, m)
                             \/ ReleaseMembership(a, m)
                             \/ WithdrawMember(a, m)
                             \/ ReinstateMember(a, m)
                             \/ AppointCaptain(a, m)
        \/ \E m \in Member \union {NoMember} : SetStandIn(a, m)

Next == CaseNext \/ MemberNext

Spec == Init /\ [][Next]_vars

\* Time passes, somebody keeps opening the app, and the admin gets round to every veto:
\* the code's only engine is the requests people make.
Fairness ==
    /\ WF_vars(Tick)
    /\ WF_vars(\E a \in Account : Read(a))
    /\ WF_vars(\E a \in Admins, d \in Duty, i \in 1 .. MaxEvidence, ruling \in {"upheld", "dismissed"} :
                  Review(a, d, i, ruling))

FairVoting == Init /\ [][CaseNext]_vars /\ Fairness
-----------------------------------------------------------------------------
(* What the requests promise, whatever their order.                        *)

\* Every case that still takes votes or a ruling has a pending link on a duty that is still
\* live, and every other link carries its case's outcome: the branch cases._close calls
\* unreachable is.
Decidable(d) ==
    \A i \in DOMAIN d.evidence :
        /\ d.evidence[i].link = IF d.evidence[i].status \in LIVE THEN "pending"
                                ELSE d.evidence[i].status
        /\ d.evidence[i].status \in LIVE => d.status = "open"
LiveCaseIsDecidable == \A d \in Duty : Decidable(duty[d])

\* A duty has one live case at most, for its newest evidence: a second one would break
\* ux_evidence_cases_one_live_per_duty in the middle of somebody's request.
NewestLive(d) ==
    \A i \in DOMAIN d.evidence : d.evidence[i].status \in LIVE => i = Len(d.evidence)
OnlyNewestIsLive == \A d \in Duty : NewestLive(duty[d])

\* A duty is completed exactly when one piece of its evidence, and only one, is accepted; it
\* then counts from that evidence's effective time, which is never later than the
\* submission: the time voting and settling took costs no marks.
Completion(d) ==
    /\ d.status = "completed" <=> \E i \in DOMAIN d.evidence : d.evidence[i].link = "accepted"
    /\ \A i, j \in DOMAIN d.evidence :
          d.evidence[i].link = "accepted" /\ d.evidence[j].link = "accepted" => i = j
    /\ \A i \in DOMAIN d.evidence :
          d.evidence[i].link = "accepted" =>
              /\ d.completedAt = EffectiveCompletion(d, d.evidence[i])
              /\ d.completedAt <= d.evidence[i].submittedAt
CompletedByItsEvidence == \A d \in Duty : Completion(duty[d])

\* A case is open only while its outcome is: no majority yet, somebody left to vote, no veto
\* waiting.  A released name must not leave a carried case open.
Undecided(d) ==
    \A i \in DOMAIN d.evidence : d.evidence[i].status = "open" =>
        /\ ~Majority(Accepts(d.evidence[i]), d.evidence[i].eligible)
        /\ d.evidence[i].eligible > 0
        /\ \A m \in Member : d.evidence[i].ruling[m] # "pending"
OpenCaseIsUndecided == \A d \in Duty : Undecided(duty[d])

\* A case in review has one veto waiting for a ruling, and only one (review reads it with
\* .one()).
OneVeto(d) ==
    \A i \in DOMAIN d.evidence : d.evidence[i].status = "in_review" =>
        \E v \in Member : \A m \in Member : d.evidence[i].ruling[m] = "pending" <=> m = v
OneVetoInReview == \A d \in Duty : OneVeto(duty[d])

\* A closed case's resolution is borne out by its ballots and its clock: no majority without
\* the accepts, no automatic acceptance dated inside the window, no acceptance by the members
\* over a veto nobody dismissed, no rejection without an upheld one.
Justified(k) ==
    LET unanswered == {m \in Member : k.ruling[m] \in {"pending", "upheld"}} IN
    /\ k.resolution = "majority" => Majority(Accepts(k), k.eligible) /\ unanswered = {}
    /\ k.resolution = "auto" => k.resolvedAt >= ClosesAt(k) /\ unanswered = {}
    /\ k.resolution = "no_voters" => k.eligible = 0 /\ unanswered = {}
    /\ k.resolution = "veto_upheld" => unanswered # {} /\ k.status = "rejected"
OutcomeIsJustified ==
    \A d \in Duty : \A i \in DOMAIN duty[d].evidence : Justified(duty[d].evidence[i])

\* eligible_count is the number of ballot rows, whatever names were released.
CountsBallots(d) ==
    \A i \in DOMAIN d.evidence : d.evidence[i].eligible = Cardinality(Voters(d.evidence[i]))
EligibleCountsBallots == \A d \in Duty : CountsBallots(duty[d])

\* A released name passes no ballot to its next claimant: the ballot waiting under a name
\* belongs to the account that held the name when the case opened, and so does a cast one.
KeepsAccount(k, m) ==
    /\ k.choice[m] # "none" => k.electors[m] # NoAccount
    /\ k.status \in LIVE /\ k.choice[m] = "uncast" => holder[m] = k.electors[m]
    /\ k.choice[m] \in {"accept", "veto"} => k.castBy[m] = k.electors[m]
BallotsKeepTheirAccount ==
    \A d \in Duty : \A i \in DOMAIN duty[d].evidence : \A m \in Member :
        KeepsAccount(duty[d].evidence[i], m)

\* The captain and the stand-in are active members with an account, and are not the same.
OfficersCanAct ==
    /\ captain \in Claimed
    /\ standIn # NoMember => standIn \in Claimed \ {captain}

\* The vetoes waiting for a ruling, as <<duty, evidence number, the member who vetoed>>.
WaitingVetoes ==
    {w \in Duty \X (1 .. MaxEvidence) \X Member :
        /\ w[2] \in DOMAIN duty[w[1]].evidence
        /\ duty[w[1]].evidence[w[2]].status = "in_review"
        /\ duty[w[1]].evidence[w[2]].ruling[w[3]] = "pending"}

\* needs_reviewer is right: when it says nobody may rule on the veto, no member may but an
\* admin; when it does not, some member in the league may.
NeedsReviewerIsExact ==
    \A w \in WaitingVetoes :
        LET d == duty[w[1]]
            reviewers == {a \in Account :
                            \E m \in Member : Acting(a, m) /\ MayReview(a, m, d, w[3])}
        IN  IF NeedsReviewer(d, w[3]) THEN reviewers \subseteq Admins ELSE reviewers # {}

\* may_review: "nobody may rule on their own duty or their own veto".  A cast ballot belongs
\* to the account that cast it, so the veto is that account's.
NobodyRulesOnTheirOwnVeto ==
    \A w \in WaitingVetoes : \A m \in Member \union {NoMember} :
        LET a == duty[w[1]].evidence[w[2]].castBy[w[3]]
        IN  Acting(a, m) => ~MayReview(a, m, duty[w[1]], w[3])

\* Once a case has closed nothing about it changes, and a completed or voided duty stays so.
ClosedIsFinal ==
    [][\A d \in Duty :
          /\ duty[d].status \in {"completed", "voided"} =>
                duty'[d].status = duty[d].status /\ duty'[d].completedAt = duty[d].completedAt
          /\ \A i \in DOMAIN duty[d].evidence :
                duty[d].evidence[i].status \notin LIVE =>
                    duty'[d].evidence[i] = duty[d].evidence[i]]_vars

Onward == [none |-> {"none"}, uncast |-> {"none", "uncast", "accept", "veto"},
           accept |-> {"accept", "veto"}, veto |-> {"veto"}]

\* A ballot is withdrawn only before it is cast, an accept may turn into a veto, a veto never
\* changes, and nobody joins an electorate after the case has opened.
BallotsOnlyHarden ==
    [][\A d \in Duty : \A i \in DOMAIN duty[d].evidence : \A m \in Member :
          duty'[d].evidence[i].choice[m] \in Onward[duty[d].evidence[i].choice[m]]]_vars

\* No case stays live for ever: whatever the voters do, each one closes (no scheduler runs,
\* and a veto may send it back to voting as often as there are voters).
EveryCaseCloses ==
    \A d \in Duty, i \in 1 .. MaxEvidence :
        (i \in DOMAIN duty[d].evidence /\ duty[d].evidence[i].status \in LIVE)
            ~> (i \in DOMAIN duty[d].evidence /\ duty[d].evidence[i].status \notin LIVE)

-----------------------------------------------------------------------------
(* EvidenceCases implements DutyLedger.                                    *)

LedgerOf(d) ==
    [ phase |-> IF d.status = "open" THEN "live" ELSE d.status,
      decisions |-> [i \in DOMAIN d.evidence |-> d.evidence[i].link] ]

Ledger == INSTANCE DutyLedger WITH ledger <- [d \in Duty |-> LedgerOf(duty[d])]

\* Whatever the votes, vetoes, rulings and clock do, a duty's evidence is decided the way
\* the ledger allows: one pending piece at a time, one acceptance, no way back.
ImplementsLedger == Ledger!Spec
=============================================================================
