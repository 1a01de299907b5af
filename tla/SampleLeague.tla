------------------------------ MODULE SampleLeague ------------------------------
(***************************************************************************)
(* The evidence cases of one sample league in the browser                  *)
(* (core/league/data/sample-league-data.ts, class SampleLeague).           *)
(*                                                                         *)
(* Development builds and the published demo run on this class instead of  *)
(* the API and promise the same rules.  One account uses it, as a member   *)
(* or only as the admin; everybody else's ballots come with the seed.      *)
(* Unlike the API it settles with a timer of its own, so a case that is    *)
(* open without a timer stays open on the screen.                          *)
(*                                                                         *)
(* A piece of evidence and its case are one record: they are created       *)
(* together and name each other.  Left out: feed entries, reasons, the     *)
(* case version (a review is asked of the version shown, or refused),      *)
(* deadlines, completion times and clock resets (they only move marks).    *)
(***************************************************************************)
EXTENDS Integers, Sequences, FiniteSets, FiniteSetsExt, FiniteSetTheorems, WellFoundedInduction, TLAPS

CONSTANTS
    Member,     \* names a team sheet can hold
    Me,         \* SAMPLE_ME, the account's own name
    Duty,       \* bound: duties of one round and one type
    Window,     \* VOTING_HOURS
    MaxLinks,   \* bound: pieces of evidence per duty
    MaxTime,    \* bound: the clock stops here
    Mover       \* bound: the names, the account's aside, whose membership or office changes

VARIABLES
    now,
    team,       \* name -> "absent", "unclaimed", "claimed", or one of those withdrawn
    me,         \* the account's membership, or NoName
    isAdmin,    \* whether the account is the admin: set by the first page's address
    captain,
    standIn,    \* a name, or NoName
    duties,     \* duty -> record, or NoDuty
    settleAt    \* when the settlement timer runs, or NoTimer

NoName == "nobody"
NoTimer == -1
NoDuty == [status |-> "none", owner |-> NoName, evidence |-> <<>>]

vars == <<now, team, me, isAdmin, captain, standIn, duties, settleAt>>

Ballot == [choice : {"none", "accept", "veto"}, review : {"none", "pending", "dismissed", "upheld"}]
Votes == UNION {[electors -> Ballot] : electors \in SUBSET Member}
LinkWith(votes) ==
    [decision : {"pending", "accepted", "rejected", "superseded"},
     status : {"open", "in_review", "accepted", "rejected", "superseded"}, closes : Nat,
     voters : votes]
Link == LinkWith(Votes)
Standing == {"absent", "unclaimed", "claimed", "withdrawn_unclaimed", "withdrawn_claimed"}

TypeOK ==
    /\ now \in 0 .. MaxTime
    /\ team \in [Member -> Standing]
    /\ me \in {Me, NoName} /\ isAdmin \in BOOLEAN /\ captain \in Member /\ standIn \in Member \union {NoName}
    /\ \A d \in Duty : duties[d] = NoDuty \/
          /\ duties[d].status \in {"open", "pending_deadline", "completed", "voided"}
          /\ duties[d].owner \in Member
          /\ \A i \in DOMAIN duties[d].evidence :
                LET electors == DOMAIN duties[d].evidence[i].voters IN
                electors \subseteq Member /\ duties[d].evidence[i] \in LinkWith([electors -> Ballot])
    /\ settleAt \in {NoTimer} \union 0 .. MaxTime + Window

-----------------------------------------------------------------------------
\* Helpers.

Active(m) == team[m] \in {"unclaimed", "claimed"}
Claimed(m) == team[m] = "claimed"
Uncast == [choice |-> "none", review |-> "none"]

IsLive(e) == e.status \in {"open", "in_review"}
LiveDuty(d) == d.status \in {"open", "pending_deadline"}
Accepts(e) == {v \in DOMAIN e.voters : e.voters[v].choice = "accept"}
Majority(e) == 2 * Cardinality(Accepts(e)) > Cardinality(DOMAIN e.voters)
Vetoers(e) == {v \in DOMAIN e.voters : e.voters[v].review = "pending"}

\* Replaces the evidence that is pending by `to`, and its live case with it.
Superseded(e) ==
    IF e.decision # "pending" THEN e
    ELSE [e EXCEPT !.decision = "superseded",
                   !.status = IF IsLive(e) THEN "superseded" ELSE @]

SupersedeAll(d) == [d EXCEPT !.evidence = [i \in DOMAIN @ |-> Superseded(@[i])]]

\* applyDecision: the duty, with link i decided.
ApplyDecision(d, i, decision) ==
    [d EXCEPT !.status = IF decision = "accepted" THEN "completed" ELSE @,
              !.evidence = [j \in DOMAIN d.evidence |->
                  IF j = i THEN [d.evidence[j] EXCEPT !.decision = decision]
                  ELSE IF decision = "accepted" THEN Superseded(d.evidence[j]) ELSE d.evidence[j]]]

\* closeCase.
CloseCase(d, i, decision) ==
    IF d.evidence[i].decision # "pending" \/ ~LiveDuty(d)
    THEN [d EXCEPT !.evidence[i].status = IF IsLive(d.evidence[i]) THEN "superseded" ELSE @]
    ELSE [ApplyDecision(d, i, decision) EXCEPT !.evidence[i].status = decision]

\* settleDue, for the cases of one duty: every open case whose window has closed.
DueLinks(d) == {i \in DOMAIN d.evidence : d.evidence[i].status = "open" /\ d.evidence[i].closes <= now}
SettledDuty(d) == IF DueLinks(d) = {} THEN d ELSE CloseCase(d, Min(DueLinks(d)), "accepted")
Settled == [d \in Duty |-> SettledDuty(duties[d])]

\* scheduleSettlement: the timer of the earliest open case, or none.
OpenCloses(ds) ==
    UNION {{ds[d].evidence[i].closes : i \in {j \in DOMAIN ds[d].evidence :
        ds[d].evidence[j].status = "open"}} : d \in Duty}
TimerFor(ds) == IF OpenCloses(ds) = {} THEN NoTimer ELSE Max({Min(OpenCloses(ds)), now})

-----------------------------------------------------------------------------
\* The seeds of sample-leagues.ts, and a league made in the management centre.

Accepted == [choice |-> "accept", review |-> "none"]
Vetoed == [choice |-> "veto", review |-> "pending"]
SeedLink(status, electors, accepted, vetoed) ==
    [decision |-> "pending", status |-> status, closes |-> Window,
     voters |-> [v \in electors |-> IF v \in vetoed THEN Vetoed
                                    ELSE IF v \in accepted THEN Accepted ELSE Uncast]]

\* One duty, of a member whose evidence is being voted on.
OneDuty(owner, link) ==
    \E d \in Duty : duties = [x \in Duty |-> IF x # d THEN NoDuty
        ELSE [status |-> "open", owner |-> owner, evidence |-> <<link>>]]
AllClaimed(names) == team = [m \in Member |-> IF m \in names THEN "claimed" ELSE "absent"]

\* Piele: the account is captain; jp vetoed lm's evidence, pw had accepted.
SeedPiele(lm, jp, pw) ==
    /\ me = Me /\ captain = Me /\ isAdmin \in BOOLEAN
    /\ AllClaimed({Me, lm, jp, pw})
    /\ OneDuty(lm, SeedLink("in_review", {jp, pw, Me}, {pw}, {jp}))

\* The Pofadder Bowl: the account is a plain member; voting is open on tn's evidence.
SeedPofadder(tn, kk, ds) ==
    /\ me = Me /\ captain = ds /\ isAdmin \in BOOLEAN
    /\ AllClaimed({Me, tn, kk, ds})
    /\ OneDuty(tn, SeedLink("open", {ds, kk, Me}, {kk}, {}))

\* Sample Third XV: the account is only the admin; the captain vetoed, nobody stands in.
SeedThird(zd, hm, ck) ==
    /\ me = NoName /\ captain = hm /\ isAdmin = TRUE
    /\ AllClaimed({zd, hm, ck})
    /\ OneDuty(zd, SeedLink("in_review", {hm, ck}, {ck}, {hm}))

\* A league the admin made, whose captain is the account.
SeedNew(m) ==
    /\ me = Me /\ captain = Me /\ isAdmin = TRUE
    /\ team = [x \in Member |-> IF x = Me THEN "claimed" ELSE IF x = m THEN "unclaimed" ELSE "absent"]
    /\ duties = [d \in Duty |-> NoDuty]

Init ==
    /\ now = 0 /\ standIn = NoName
    /\ \/ \E x, y, z \in Member \ {Me} :
            /\ x # y /\ y # z /\ z # x
            /\ SeedPiele(x, y, z) \/ SeedPofadder(x, y, z) \/ SeedThird(x, y, z)
       \/ \E m \in Member \ {Me} : SeedNew(m)
    /\ settleAt = TimerFor(duties)

Roster == <<team, me, isAdmin, captain, standIn>>

-----------------------------------------------------------------------------
\* Evidence.

Electorate(subject) == {m \in Member : Claimed(m) /\ m # subject /\ m # Me}
NewLink(voters) == [decision |-> "pending", status |-> "open", closes |-> now + Window,
                    voters |-> [v \in voters |-> Uncast]]

WithEvidence(d, voters) ==
    LET next == [SupersedeAll(d) EXCEPT !.evidence = Append(@, NewLink(voters))]
    IN IF voters # {} THEN next ELSE CloseCase(next, Len(next.evidence), "accepted")

SubmitEvidence(subject, ds) ==
    LET touched == {d \in ds : Settled[d].status = "open" /\ Settled[d].owner = subject}
    IN /\ me # NoName
       /\ touched # {}
       /\ \A d \in touched : Len(duties[d].evidence) < MaxLinks
       /\ duties' = [d \in Duty |-> IF d \in touched
                        THEN WithEvidence(Settled[d], Electorate(subject)) ELSE Settled[d]]
       /\ settleAt' = TimerFor(duties')
       /\ UNCHANGED <<now, Roster>>

DecideEvidence(d, i, decision) ==
    LET duty == Settled[d]
    IN /\ me # NoName
       /\ duty.owner # Me
       /\ duty.evidence[i].decision = "pending"
       /\ duties' = [Settled EXCEPT ![d] =
              [ApplyDecision(duty, i, decision) EXCEPT
                   !.evidence[i].status = IF IsLive(duty.evidence[i]) THEN decision ELSE @]]
       /\ settleAt' = TimerFor(duties')
       /\ UNCHANGED <<now, Roster>>

-----------------------------------------------------------------------------
\* Voting and review.

Cast(d, i, ballot) == [d EXCEPT !.evidence[i].voters[me] = ballot]
CarriedBy(d, i) == IF Majority(d.evidence[i]) THEN CloseCase(d, i, "accepted") ELSE d

\* Only the account casts ballots under its name, so the name's ballot is its own (ownBallot).
OwnBallot(e) == me # NoName /\ me \in DOMAIN e.voters

MayRespond(e, choice) ==
    OwnBallot(e) /\ e.status = "open" /\ e.voters[me].choice \notin {"veto", choice}

RespondToCase(d, i, choice) ==
    LET duty == Settled[d]
    IN /\ MayRespond(duty.evidence[i], choice)
       /\ duties' = [Settled EXCEPT ![d] =
              IF choice = "accept"
              THEN CarriedBy(Cast(duty, i, [choice |-> "accept", review |-> "none"]), i)
              ELSE [Cast(duty, i, [choice |-> "veto", review |-> "pending"]) EXCEPT
                        !.evidence[i].status = "in_review"]]
       /\ settleAt' = TimerFor(duties')
       /\ UNCHANGED <<now, Roster>>

\* mayReview.
MayReview(subject, vetoer) ==
    IF me = NoName THEN isAdmin
    ELSE /\ me \notin {subject, vetoer}
         /\ \/ captain = me \/ isAdmin
            \/ captain \in {subject, vetoer} /\ standIn = me

\* A dismissal reopens voting on the original timer, unless it is already decided.
Dismissed(d, i, vetoer) ==
    LET open == [d EXCEPT !.evidence[i].voters[vetoer].review = "dismissed",
                          !.evidence[i].status = "open"]
    IN IF Majority(open.evidence[i]) \/ now >= open.evidence[i].closes
       THEN CloseCase(open, i, "accepted") ELSE open

ReviewCase(d, i, ruling) ==
    LET duty == Settled[d]
        e == duty.evidence[i]
    IN /\ e.status = "in_review"
       /\ \E v \in Vetoers(e) :
            /\ MayReview(duty.owner, v)
            /\ duties' = [Settled EXCEPT ![d] =
                 IF ruling = "upheld"
                 THEN CloseCase([duty EXCEPT !.evidence[i].voters[v].review = "upheld"], i, "rejected")
                 ELSE Dismissed(duty, i, v)]
       /\ settleAt' = TimerFor(duties')
       /\ UNCHANGED <<now, Roster>>

\* settleDue, from the timer, a reload or a refused request.
SettleDue ==
    /\ duties' = Settled
    /\ settleAt' = TimerFor(Settled)
    /\ UNCHANGED <<now, Roster>>

TimerFires == settleAt # NoTimer /\ now >= settleAt /\ SettleDue

-----------------------------------------------------------------------------
\* Duties.

CreateDuty(m, d, status) ==
    /\ me # NoName
    /\ Active(m)
    /\ duties[d] = NoDuty
    /\ \A x \in Duty : ~(duties[x].owner = m /\ LiveDuty(duties[x]))
    /\ duties' = [duties EXCEPT ![d] = [status |-> status, owner |-> m, evidence |-> <<>>]]
    /\ UNCHANGED <<now, settleAt, Roster>>

\* The status is looked at before the settlement that may complete the duty.
VoidDuty(d) ==
    /\ me # NoName
    /\ LiveDuty(duties[d])
    /\ duties' = [Settled EXCEPT ![d] = [SupersedeAll(@) EXCEPT !.status = "voided"]]
    /\ settleAt' = TimerFor(Settled)
    /\ UNCHANGED <<now, Roster>>

-----------------------------------------------------------------------------
\* The team sheet.

AddMember(m) ==
    /\ team[m] = "absent"
    /\ \A d \in Duty : duties[d].owner # m      \* a new name has a new id
    /\ \A d \in Duty : \A i \in DOMAIN duties[d].evidence : m \notin DOMAIN duties[d].evidence[i].voters
    /\ team' = [team EXCEPT ![m] = "unclaimed"]
    /\ UNCHANGED <<now, me, isAdmin, captain, standIn, duties, settleAt>>

Unballoted(e, m) ==
    [e EXCEPT !.voters = [v \in {x \in DOMAIN @ : x # m \/ @[x].choice # "none"} |-> @[v]]]

\* releaseBallots, for the duty's live case.
ReleaseBallot(d, m) ==
    LET next == [d EXCEPT !.evidence = [i \in DOMAIN @ |->
                    IF IsLive(@[i]) THEN Unballoted(@[i], m) ELSE @[i]]]
        carried == {i \in DOMAIN d.evidence :
                      /\ next.evidence[i] # d.evidence[i]
                      /\ next.evidence[i].status = "open"
                      /\ DOMAIN next.evidence[i].voters = {} \/ Majority(next.evidence[i])}
    IN IF carried = {} THEN next ELSE CloseCase(next, Min(carried), "accepted")

ReleaseMember(m) ==
    /\ Active(m) /\ m # captain
    /\ team' = [team EXCEPT ![m] = "unclaimed"]
    /\ standIn' = IF standIn = m THEN NoName ELSE standIn
    /\ duties' = [d \in Duty |-> ReleaseBallot(Settled[d], m)]
    /\ settleAt' = TimerFor(duties')
    /\ UNCHANGED <<now, me, isAdmin, captain>>

HasRecords(m) == \E d \in Duty : duties[d].owner = m

\* Mistake: the duty is voided and its evidence left pending.
WithdrawnDuty_Pending(d, m) == IF d.owner = m /\ LiveDuty(d) THEN [d EXCEPT !.status = "voided"] ELSE d

WithdrawnDuty(d, m) ==
    IF d.owner = m /\ LiveDuty(d) THEN [SupersedeAll(d) EXCEPT !.status = "voided"] ELSE d

\* Nothing is settled first.
WithdrawMember(m) ==
    /\ Active(m) /\ m # captain /\ m # me
    /\ IF ~Claimed(m) /\ ~HasRecords(m)
       THEN team' = [team EXCEPT ![m] = "absent"] /\ UNCHANGED <<standIn, duties>>
       ELSE /\ team' = [team EXCEPT ![m] =
                  IF Claimed(m) THEN "withdrawn_claimed" ELSE "withdrawn_unclaimed"]
            /\ duties' = [d \in Duty |-> WithdrawnDuty(duties[d], m)]
            /\ standIn' = IF standIn = m THEN NoName ELSE standIn
    /\ UNCHANGED <<now, me, isAdmin, captain, settleAt>>

ReinstateMember(m) ==
    /\ team[m] \in {"withdrawn_claimed", "withdrawn_unclaimed"}
    /\ team' = [team EXCEPT ![m] = IF @ = "withdrawn_claimed" THEN "claimed" ELSE "unclaimed"]
    /\ UNCHANGED <<now, me, isAdmin, captain, standIn, duties, settleAt>>

\* SampleAdminData.postCaptain and appoint.
Appoint(m) ==
    /\ isAdmin
    /\ Claimed(m) /\ m # captain
    /\ captain' = m
    /\ standIn' = IF standIn = m THEN NoName ELSE standIn
    /\ UNCHANGED <<now, team, me, isAdmin, duties, settleAt>>

SetStandIn(m) ==
    /\ isAdmin \/ captain = me
    /\ m # NoName => m # captain /\ Claimed(m)
    /\ standIn' = m
    /\ UNCHANGED <<now, team, me, isAdmin, captain, duties, settleAt>>

\* addAdmin: the account as a member.
AddAdmin ==
    /\ isAdmin
    /\ ~(me # NoName /\ Active(Me))
    /\ team' = [team EXCEPT ![Me] = "claimed"]
    /\ me' = Me
    /\ UNCHANGED <<now, isAdmin, captain, standIn, duties, settleAt>>

ClockTicks ==
    /\ now < MaxTime
    /\ now' = now + 1
    /\ UNCHANGED <<Roster, duties, settleAt>>

Links == UNION {{d} \X DOMAIN duties[d].evidence : d \in Duty}

Next ==
    \/ \E s \in Member, ds \in SUBSET Duty : SubmitEvidence(s, ds)
    \/ \E l \in Links, decision \in {"accepted", "rejected"} : DecideEvidence(l[1], l[2], decision)
    \/ \E l \in Links, choice \in {"accept", "veto"} : RespondToCase(l[1], l[2], choice)
    \/ \E l \in Links, ruling \in {"dismissed", "upheld"} : ReviewCase(l[1], l[2], ruling)
    \/ TimerFires
    \/ SettleDue
    \/ \E m \in Member, d \in Duty, s \in {"open", "pending_deadline"} : CreateDuty(m, d, s)
    \/ \E d \in Duty : VoidDuty(d)
    \/ \E m \in Mover : AddMember(m) \/ WithdrawMember(m) \/ ReinstateMember(m)
    \/ \E m \in Mover \union {Me} : Appoint(m) \/ ReleaseMember(m)
    \/ \E m \in Mover \union {Me, NoName} : SetStandIn(m)
    \/ AddAdmin
    \/ ClockTicks

Spec == Init /\ [][Next]_vars

-----------------------------------------------------------------------------
\* What the pages list.

\* A duty of an active member; deadlines, and so the overdue ones, are left out.
ListedDuties == {d \in Duty : duties[d] # NoDuty /\ Active(duties[d].owner)}
Display(d) ==
    IF LiveDuty(d) /\ \E i \in DOMAIN d.evidence : d.evidence[i].decision = "pending"
    THEN "under_review" ELSE d.status

\* A line of the marks, with the duties the member has still to do.
OpenDuties(m) == Cardinality({d \in ListedDuties : duties[d].owner = m /\ LiveDuty(duties[d])})

\* showsNeedsReviewer: said without saying who vetoed.
Involved(subject, vetoer) == {subject, vetoer}
NeedsReviewer(subject, vetoer) ==
    /\ captain \in Involved(subject, vetoer)
    /\ standIn = NoName \/ standIn \in Involved(subject, vetoer)
ShowsNeedsReviewer(subject, vetoer) ==
    IF me = NoName THEN isAdmin /\ NeedsReviewer(subject, vetoer)
    ELSE captain = me /\ subject = me /\ standIn = NoName

\* A case as the API lists it to the account; veto: what the list says of the veto under review.
CaseRow(d, i) ==
    LET e == duties[d].evidence[i]
        veto == IF e.status = "in_review" THEN Vetoers(e) ELSE {}
    IN [duty |-> d, link |-> i, status |-> e.status,
        responded |-> Cardinality({v \in DOMAIN e.voters : e.voters[v].choice # "none"}),
        isVoter |-> OwnBallot(e),
        canRespond |-> OwnBallot(e) /\ e.status = "open" /\ e.voters[me].choice # "veto",
        canReview |-> \E v \in veto : MayReview(duties[d].owner, v),
        needsReviewer |-> \E v \in veto : ShowsNeedsReviewer(duties[d].owner, v)]
Cases == {CaseRow(l[1], l[2]) : l \in Links}

-----------------------------------------------------------------------------
\* Properties.

\* A duty's pending evidence and its running vote are one thing: neither exists
\* without the other, at most one of them, and only on a live duty (closeCase and
\* supersedeCases keep two lists in step).
PendingMeansVoting ==
    \A d \in Duty :
        /\ \A i \in DOMAIN duties[d].evidence :
              (duties[d].evidence[i].decision = "pending") <=> IsLive(duties[d].evidence[i])
        /\ Cardinality({i \in DOMAIN duties[d].evidence : IsLive(duties[d].evidence[i])}) <= 1
        /\ (\E i \in DOMAIN duties[d].evidence : IsLive(duties[d].evidence[i])) => duties[d].status = "open"

\* A case left open is undecided: somebody can vote and no majority accepted.
OpenIsUndecided ==
    \A d \in Duty : \A i \in DOMAIN duties[d].evidence :
        duties[d].evidence[i].status = "open" =>
            DOMAIN duties[d].evidence[i].voters # {} /\ ~Majority(duties[d].evidence[i])

\* Every open case has a timer that runs no later than its window closes
\* (scheduleSettlement, called by each handler for itself).
OpenIsTimed ==
    \A d \in Duty : \A i \in DOMAIN duties[d].evidence :
        duties[d].evidence[i].status = "open" =>
            settleAt # NoTimer /\ settleAt <= duties[d].evidence[i].closes

\* The lists agree with each other and with what a request would be told: a listed duty is under
\* review exactly while one of its cases runs, and is then one its member has still to do; whoever
\* is asked for a ballot can still cast one; whoever is told that a reviewer is missing is told the
\* truth, and a member who is told so cannot rule (the computed lists duties, marks and cases).
ListsAgree ==
    /\ \A d \in ListedDuties :
          Display(duties[d]) = "under_review" <=>
              \E row \in Cases : row.duty = d /\ row.status \in {"open", "in_review"}
    /\ \A d \in ListedDuties :
          Display(duties[d]) = "under_review" => OpenDuties(duties[d].owner) > 0
    /\ \A row \in Cases : LET e == duties[row.duty].evidence[row.link] IN
          /\ row.canRespond <=> \E choice \in {"accept", "veto"} : MayRespond(e, choice)
          /\ row.status = "in_review" => row.responded > 0
          /\ row.needsReviewer =>
                /\ \A v \in Vetoers(e) : NeedsReviewer(duties[row.duty].owner, v)
                /\ me # NoName => ~row.canReview

-----------------------------------------------------------------------------
(* Proofs, for any members and duties and any window.                        *)

\* What the names and the bounds may be. The inductive invariant behind the four: a case is
\* pending while it runs, nobody has vetoed an open one and one veto holds one in review; a duty
\* has one live case at most, while it is open.
Names == Me \in Member /\ Window \in Nat /\ IsFiniteSet(Member) /\ IsFiniteSet(Duty)

Ruled(e) ==
    /\ e.status = "open" => Vetoers(e) = {}
    /\ e.status = "in_review" => \E v \in DOMAIN e.voters : Vetoers(e) = {v}

Paired(e) ==
    /\ e.decision = "pending" <=> IsLive(e)
    /\ \A v \in DOMAIN e.voters : e.voters[v].review # "none" => e.voters[v].choice = "veto"

Undecided(e) == e.status = "open" => DOMAIN e.voters # {} /\ ~Majority(e)

OneLive(d) ==
    /\ d \in [status : {"none", "open", "pending_deadline", "completed", "voided"},
              owner : Member \union {NoName}, evidence : Seq(Link)]
    /\ \A i \in DOMAIN d.evidence : Paired(d.evidence[i])
    /\ \A i, j \in DOMAIN d.evidence : IsLive(d.evidence[i]) /\ IsLive(d.evidence[j]) => i = j
    /\ \A i \in DOMAIN d.evidence : IsLive(d.evidence[i]) => d.status = "open"

SoundDuty(d) == OneLive(d) /\ \A i \in DOMAIN d.evidence : Ruled(d.evidence[i])
Running(d) == SoundDuty(d) /\ \A i \in DOMAIN d.evidence : Undecided(d.evidence[i])
InTime(d) == \A i \in DOMAIN d.evidence : d.evidence[i].status = "open" => now <= d.evidence[i].closes

CasesInv ==
    /\ now \in Nat /\ duties = [d \in Duty |-> duties[d]]
    /\ \A d \in Duty : Running(duties[d])
    /\ OpenIsTimed

-----------------------------------------------------------------------------
\* The earliest of some moments.
LEMMA Earliest ==
    ASSUME NEW S \in SUBSET Nat, S # {}
    PROVE  Min(S) \in S /\ \A t \in S : Min(S) <= t
<1> DEFINE T == {0 .. m : m \in S}
           R == StrictSubsetOrdering(Nat)
           F == FiniteSubsetsOf(Nat)
<1>1. T \subseteq F /\ T # {}
  <2>1. \A m \in S : IsFiniteSet(0 .. m) /\ 0 .. m \subseteq Nat
    BY FS_Interval
  <2> QED BY <2>1 DEF FiniteSubsetsOf
<1>2. IsWellFoundedOn(R, F)
  BY FS_StrictSubsetOrderingWellFounded
<1>3. \E x \in T : \A y \in T : ~(<<y, x>> \in R)
  <2> HIDE DEF T, R, F
  <2> QED BY <1>1, <1>2, WFMin
<1>4. PICK m \in S : \A t \in S : ~(<<0 .. t, 0 .. m>> \in R)
  BY <1>3
<1>5. ASSUME NEW t \in S, t < m PROVE FALSE
  <2>1. 0 .. t \subseteq 0 .. m /\ m \in 0 .. m /\ m \notin 0 .. t /\ 0 .. m \subseteq Nat
    BY <1>5
  <2>2. <<0 .. t, 0 .. m>> \in R
    BY <2>1 DEF StrictSubsetOrdering
  <2> QED BY <1>4, <2>2
<1>6. \A t \in S : m <= t
  BY <1>5
<1> QED BY <1>6 DEF Min

\* A sequence of cases of which each may have become another.
LEMMA CasesAreCases ==
    ASSUME NEW s \in Seq(Link), NEW f, DOMAIN f = DOMAIN s, f = [i \in DOMAIN f |-> f[i]],
           \A i \in DOMAIN s : f[i] \in Link
    PROVE  f \in Seq(Link) /\ Len(f) = Len(s) /\ DOMAIN s = 1 .. Len(s)
<1> QED OBVIOUS

\* The fields of a case.
LEMMA CaseFields ==
    ASSUME NEW e \in Link
    PROVE  /\ e = [decision |-> e.decision, status |-> e.status, closes |-> e.closes, voters |-> e.voters]
           /\ e.decision \in {"pending", "accepted", "rejected", "superseded"}
           /\ e.status \in {"open", "in_review", "accepted", "rejected", "superseded"}
           /\ e.closes \in Nat
           /\ DOMAIN e.voters \subseteq Member /\ e.voters = [v \in DOMAIN e.voters |-> e.voters[v]]
           /\ \A v \in DOMAIN e.voters :
                e.voters[v].choice \in {"none", "accept", "veto"}
                /\ e.voters[v].review \in {"none", "pending", "dismissed", "upheld"}
<1>1. e.voters \in Votes
  BY DEF Link, LinkWith
<1>2. PICK electors \in SUBSET Member : e.voters \in [electors -> Ballot]
  BY <1>1 DEF Votes
<1>3. e = [decision |-> e.decision, status |-> e.status, closes |-> e.closes, voters |-> e.voters]
           /\ e.decision \in {"pending", "accepted", "rejected", "superseded"}
           /\ e.status \in {"open", "in_review", "accepted", "rejected", "superseded"}
           /\ e.closes \in Nat
  BY DEF Link, LinkWith
<1> QED BY <1>2, <1>3 DEF Ballot

\* Of a duty's cases one at most runs; its decision is pending and the duty is open.
LEMMA OnlyOneRuns ==
    ASSUME NEW d, OneLive(d), NEW i \in DOMAIN d.evidence, IsLive(d.evidence[i])
    PROVE  /\ d.status = "open" /\ d.evidence[i].decision = "pending"
           /\ \A j \in DOMAIN d.evidence : j # i =>
                ~IsLive(d.evidence[j]) /\ d.evidence[j].decision # "pending"
                /\ Superseded(d.evidence[j]) = d.evidence[j]
BY DEF OneLive, Paired, Superseded

\* A duty none of whose cases runs is in order.
LEMMA QuietRuns ==
    ASSUME NEW d, OneLive(d), \A i \in DOMAIN d.evidence : ~IsLive(d.evidence[i])
    PROVE  Running(d)
BY DEF Running, SoundDuty, Ruled, Undecided, IsLive

\* The parts of a duty.
LEMMA DutyFields ==
    ASSUME NEW d, OneLive(d)
    PROVE  /\ d = [status |-> d.status, owner |-> d.owner, evidence |-> d.evidence]
           /\ d.status \in {"none", "open", "pending_deadline", "completed", "voided"}
           /\ d.owner \in Member \union {NoName}
           /\ d.evidence \in Seq(Link) /\ DOMAIN d.evidence = 1 .. Len(d.evidence)
           /\ Len(d.evidence) \in Nat /\ d.evidence = [i \in DOMAIN d.evidence |-> d.evidence[i]]
           /\ \A i \in DOMAIN d.evidence : d.evidence[i] \in Link
<1>1. d \in [status : {"none", "open", "pending_deadline", "completed", "voided"},
             owner : Member \union {NoName}, evidence : Seq(Link)]
  BY DEF OneLive
<1>2. d.evidence \in Seq(Link)
  BY <1>1
<1>3. /\ DOMAIN d.evidence = 1 .. Len(d.evidence)
      /\ Len(d.evidence) \in Nat /\ d.evidence = [i \in DOMAIN d.evidence |-> d.evidence[i]]
      /\ \A i \in DOMAIN d.evidence : d.evidence[i] \in Link
  BY <1>2
<1> QED BY <1>1, <1>3

\* A duty with other cases in the place of its own.
LEMMA DutyOf ==
    ASSUME NEW d, OneLive(d),
           NEW s \in {"none", "open", "pending_deadline", "completed", "voided"},
           NEW f, DOMAIN f = DOMAIN d.evidence, f = [i \in DOMAIN f |-> f[i]],
           \A i \in DOMAIN f : f[i] \in Link /\ Paired(f[i]),
           \A i, j \in DOMAIN f : IsLive(f[i]) /\ IsLive(f[j]) => i = j,
           \A i \in DOMAIN f : IsLive(f[i]) => s = "open"
    PROVE  LET r == [status |-> s, owner |-> d.owner, evidence |-> f] IN
           OneLive(r) /\ Len(f) = Len(d.evidence)
<1>1. f \in Seq(Link) /\ Len(f) = Len(d.evidence)
  <2>1. d.evidence \in Seq(Link)
    BY DutyFields
  <2> QED BY <2>1, CasesAreCases
<1> QED BY <1>1, DutyFields DEF OneLive

\* A live case that is closed takes the duty's pending evidence with it, and nothing else: none
\* of the duty's cases runs any more.
LEMMA CloseEnds ==
    ASSUME NEW d, OneLive(d), NEW i \in DOMAIN d.evidence, IsLive(d.evidence[i]),
           NEW decision \in {"accepted", "rejected"}
    PROVE  LET r == CloseCase(d, i, decision) IN
           /\ Running(r) /\ r.owner = d.owner /\ Len(r.evidence) = Len(d.evidence)
           /\ DOMAIN r.evidence = DOMAIN d.evidence
           /\ \A j \in DOMAIN r.evidence : ~IsLive(r.evidence[j])
<1> DEFINE e == d.evidence[i]
           s == IF decision = "accepted" THEN "completed" ELSE d.status
           g == [decision |-> decision, status |-> decision, closes |-> e.closes, voters |-> e.voters]
           f == [d.evidence EXCEPT ![i] = g]
           a == ApplyDecision(d, i, decision)
           r == CloseCase(d, i, decision)
<1>1. /\ d = [status |-> d.status, owner |-> d.owner, evidence |-> d.evidence]
      /\ d.evidence = [j \in DOMAIN d.evidence |-> d.evidence[j]]
      /\ \A j \in DOMAIN d.evidence : d.evidence[j] \in Link
      /\ d.status \in {"none", "open", "pending_deadline", "completed", "voided"}
  BY DutyFields
<1>2. /\ d.status = "open" /\ e.decision = "pending"
      /\ \A j \in DOMAIN d.evidence : j # i =>
                ~IsLive(d.evidence[j]) /\ Superseded(d.evidence[j]) = d.evidence[j]
  BY OnlyOneRuns
<1>3. r = [a EXCEPT !.evidence[i].status = decision]
  BY <1>2 DEF CloseCase, LiveDuty
<1>4. a = [status |-> s, owner |-> d.owner,
           evidence |-> [j \in DOMAIN d.evidence |-> IF j = i THEN [e EXCEPT !.decision = decision] ELSE d.evidence[j]]]
  <2> DEFINE h == [j \in DOMAIN d.evidence |->
                  IF j = i THEN [d.evidence[j] EXCEPT !.decision = decision]
                  ELSE IF decision = "accepted" THEN Superseded(d.evidence[j]) ELSE d.evidence[j]]
  <2>1. h = [j \in DOMAIN d.evidence |-> IF j = i THEN [e EXCEPT !.decision = decision] ELSE d.evidence[j]]
    BY <1>2
  <2>2. a = [d EXCEPT !.status = s, !.evidence = h]
    BY DEF ApplyDecision
  <2> HIDE DEF h, a
  <2> QED BY <1>1, <2>1, <2>2
<1>5. e = [decision |-> e.decision, status |-> e.status, closes |-> e.closes, voters |-> e.voters]
  BY <1>1, CaseFields
<1>6. r = [status |-> s, owner |-> d.owner, evidence |-> f]
  <2> DEFINE h == [j \in DOMAIN d.evidence |-> IF j = i THEN [e EXCEPT !.decision = decision] ELSE d.evidence[j]]
  <2>0. [[e EXCEPT !.decision = decision] EXCEPT !.status = decision] = g
    <3>1. PICK x, y, c, w : e = [decision |-> x, status |-> y, closes |-> c, voters |-> w]
      BY <1>5
    <3> DEFINE n == [e EXCEPT !.decision = decision]
    <3>2. n = [decision |-> decision, status |-> y, closes |-> c, voters |-> w]
      <4> HIDE DEF e
      <4> QED BY <3>1
    <3> HIDE DEF n
    <3>3. [n EXCEPT !.status = decision] = [decision |-> decision, status |-> decision, closes |-> c, voters |-> w]
      BY <3>2
    <3>4. e.closes = c /\ e.voters = w
      BY <3>1
    <3> QED BY <3>3, <3>4 DEF n
  <2>1. [h EXCEPT ![i].status = decision] = f
    <3> DEFINE n == [e EXCEPT !.decision = decision]
    <3>1. h[i] = n /\ DOMAIN h = DOMAIN d.evidence /\ \A j \in DOMAIN h : j # i => h[j] = d.evidence[j]
      OBVIOUS
    <3> HIDE DEF h, n, g
    <3>2. [h EXCEPT ![i].status = decision] = [h EXCEPT ![i] = [n EXCEPT !.status = decision]]
      BY <3>1
    <3>3. [n EXCEPT !.status = decision] = g
      BY <2>0 DEF n
    <3> QED BY <1>1, <3>1, <3>2, <3>3
  <2>2. a = [status |-> s, owner |-> d.owner, evidence |-> h]
    BY <1>4
  <2>3. r = [status |-> s, owner |-> d.owner, evidence |-> [h EXCEPT ![i].status = decision]]
    <3> HIDE DEF h, a, r
    <3> QED BY <1>3, <2>2
  <2> QED BY <2>1, <2>3
<1>8. g \in Link /\ Paired(g) /\ ~IsLive(g)
  <2>1. e \in Link /\ Paired(e)
    BY <1>1 DEF OneLive
  <2>2. g \in Link
    BY <2>1 DEF Link, LinkWith
  <2>3. g.voters = e.voters /\ g.decision # "pending" /\ ~IsLive(g)
    BY DEF IsLive
  <2> QED BY <2>1, <2>2, <2>3 DEF Paired
<1>9. /\ DOMAIN f = DOMAIN d.evidence /\ f = [j \in DOMAIN f |-> f[j]] /\ f[i] = g
      /\ \A j \in DOMAIN f : j # i => f[j] = d.evidence[j]
  <2> HIDE DEF g
  <2> QED BY <1>1
<1> HIDE DEF f, g
<1>10. \A j \in DOMAIN f : f[j] \in Link /\ Paired(f[j]) /\ ~IsLive(f[j])
  BY <1>1, <1>2, <1>8, <1>9 DEF OneLive
<1>11. s \in {"none", "open", "pending_deadline", "completed", "voided"}
  BY <1>1
<1>12. OneLive(r) /\ Len(f) = Len(d.evidence)
  <2> HIDE DEF s, r
  <2> QED BY <1>6, <1>9, <1>10, <1>11, DutyOf
<1>13. r.owner = d.owner /\ r.evidence = f
  BY <1>6
<1>14. Running(r)
  <2> HIDE DEF r
  <2> QED BY <1>10, <1>12, <1>13, QuietRuns
<1> QED BY <1>9, <1>10, <1>12, <1>13, <1>14

\* Settling closes the case whose window has closed, if there is one.
LEMMA SettlingRuns ==
    ASSUME now \in Nat, NEW d, Running(d)
    PROVE  LET r == SettledDuty(d) IN
           /\ Running(r) /\ r.owner = d.owner /\ Len(r.evidence) = Len(d.evidence)
           /\ DOMAIN r.evidence = DOMAIN d.evidence
           /\ r = d \/ \A j \in DOMAIN r.evidence : ~IsLive(r.evidence[j])
           /\ \A j \in DOMAIN r.evidence : r.evidence[j].status = "open" =>
                 d.evidence[j] = r.evidence[j] /\ now < r.evidence[j].closes
<1> DEFINE r == SettledDuty(d)
           D == DueLinks(d)
<1>0. OneLive(d)
  BY DEF Running, SoundDuty
<1>1. CASE D = {}
  <2>1. r = d
    BY <1>1 DEF SettledDuty
  <2>2. \A j \in DOMAIN d.evidence : d.evidence[j].closes \in Nat
    BY <1>0, DutyFields, CaseFields
  <2> QED BY <1>1, <2>1, <2>2 DEF DueLinks
<1>2. CASE D # {}
  <2>1. D \in SUBSET Nat
    <3>1. DOMAIN d.evidence \subseteq Nat
      <4>1. DOMAIN d.evidence = 1 .. Len(d.evidence) /\ Len(d.evidence) \in Nat
        BY <1>0, DutyFields
      <4> QED BY <4>1
    <3> QED BY <3>1 DEF DueLinks
  <2> DEFINE m == Min(D)
  <2>2. m \in D
    BY <1>2, <2>1, Earliest
  <2>3. m \in DOMAIN d.evidence /\ IsLive(d.evidence[m])
    BY <2>2 DEF DueLinks, IsLive
  <2>4. r = CloseCase(d, m, "accepted")
    BY <1>2 DEF SettledDuty
  <2> HIDE DEF m, r
  <2>5. /\ Running(r) /\ r.owner = d.owner /\ Len(r.evidence) = Len(d.evidence)
        /\ DOMAIN r.evidence = DOMAIN d.evidence
        /\ \A j \in DOMAIN r.evidence : ~IsLive(r.evidence[j])
    BY <1>0, <2>3, <2>4, CloseEnds
  <2>6. \A j \in DOMAIN r.evidence : r.evidence[j].status # "open"
    BY <2>5 DEF IsLive
  <2> QED BY <2>5, <2>6 DEF r
<1> QED BY <1>1, <1>2

\* What the ballots of a case can be.
LEMMA VotesAre ==
    ASSUME NEW f, f = [v \in DOMAIN f |-> f[v]], DOMAIN f \subseteq Member,
           \A v \in DOMAIN f : f[v] \in Ballot
    PROVE  f \in Votes
<1>1. f \in [DOMAIN f -> Ballot] /\ DOMAIN f \in SUBSET Member
  OBVIOUS
<1> QED BY <1>1 DEF Votes

\* A running case with other ballots or another status is still a case that runs.
LEMMA CaseWith ==
    ASSUME NEW e \in Link, Paired(e), IsLive(e), NEW s \in {"open", "in_review"},
           NEW f, f = [v \in DOMAIN f |-> f[v]], DOMAIN f \subseteq Member,
           \A v \in DOMAIN f : f[v] \in Ballot /\ (f[v].review # "none" => f[v].choice = "veto")
    PROVE  LET g == [decision |-> e.decision, status |-> s, closes |-> e.closes, voters |-> f] IN
           g \in Link /\ Paired(g) /\ IsLive(g)
<1> DEFINE g == [decision |-> e.decision, status |-> s, closes |-> e.closes, voters |-> f]
<1>1. f \in Votes
  BY VotesAre
<1>2. e.decision \in {"pending", "accepted", "rejected", "superseded"} /\ e.closes \in Nat
  BY CaseFields
<1>3. g \in Link
  BY <1>1, <1>2 DEF Link, LinkWith
<1>4. g.voters = f /\ g.status = s /\ g.decision = e.decision
  OBVIOUS
<1> HIDE DEF g
<1>5. IsLive(g)
  BY <1>4 DEF IsLive
<1>6. Paired(g)
  BY <1>4, <1>5 DEF Paired
<1> QED BY <1>3, <1>5, <1>6 DEF g

\* A duty whose running case has become another that runs.
LEMMA Recased ==
    ASSUME NEW d, OneLive(d), NEW i \in DOMAIN d.evidence, IsLive(d.evidence[i]),
           NEW g \in Link, Paired(g), IsLive(g)
    PROVE  LET r == [d EXCEPT !.evidence[i] = g] IN
           /\ OneLive(r) /\ r.owner = d.owner /\ r.status = d.status
           /\ Len(r.evidence) = Len(d.evidence) /\ DOMAIN r.evidence = DOMAIN d.evidence
           /\ r.evidence[i] = g
           /\ \A j \in DOMAIN r.evidence : j # i =>
                 r.evidence[j] = d.evidence[j] /\ ~IsLive(r.evidence[j])
           /\ Ruled(g) /\ Undecided(g) => Running(r)
<1> DEFINE r == [d EXCEPT !.evidence[i] = g]
           f == [d.evidence EXCEPT ![i] = g]
<1>1. /\ d = [status |-> d.status, owner |-> d.owner, evidence |-> d.evidence]
      /\ d.evidence = [j \in DOMAIN d.evidence |-> d.evidence[j]]
      /\ \A j \in DOMAIN d.evidence : d.evidence[j] \in Link
  BY DutyFields
<1>2. r = [status |-> d.status, owner |-> d.owner, evidence |-> f]
  <2> HIDE DEF f
  <2>1. r = [d EXCEPT !.evidence = f]
    BY DEF f
  <2>2. PICK s, o, x : d = [status |-> s, owner |-> o, evidence |-> x]
    BY <1>1
  <2>3. [d EXCEPT !.evidence = f] = [status |-> s, owner |-> o, evidence |-> f]
    BY <2>2
  <2>4. d.status = s /\ d.owner = o
    BY <2>2
  <2> QED BY <2>1, <2>3, <2>4
<1>3. /\ DOMAIN f = DOMAIN d.evidence /\ f = [j \in DOMAIN f |-> f[j]] /\ f[i] = g
      /\ \A j \in DOMAIN f : j # i => f[j] = d.evidence[j]
  BY <1>1
<1> HIDE DEF f
<1>4. d.status = "open" /\ \A j \in DOMAIN d.evidence : j # i => ~IsLive(d.evidence[j])
  BY OnlyOneRuns
<1>5. \A j \in DOMAIN f : f[j] \in Link /\ Paired(f[j])
  BY <1>1, <1>3 DEF OneLive
<1>6. OneLive(r) /\ Len(f) = Len(d.evidence)
  <2> HIDE DEF r
  <2> QED BY <1>2, <1>3, <1>4, <1>5, DutyOf
<1>7. r.owner = d.owner /\ r.status = d.status /\ r.evidence = f
  BY <1>2
<1> HIDE DEF r
<1>8. Ruled(g) /\ Undecided(g) => Running(r)
  <2>1. ASSUME NEW j \in DOMAIN f, j # i PROVE Ruled(f[j]) /\ Undecided(f[j])
    BY <2>1, <1>3, <1>4 DEF Ruled, Undecided, IsLive
  <2> QED BY <2>1, <1>3, <1>6, <1>7 DEF Running, SoundDuty
<1> QED BY <1>3, <1>4, <1>6, <1>7, <1>8 DEF r

\* A superseded duty: nothing runs.
LEMMA SupersedingEnds ==
    ASSUME NEW d, OneLive(d)
    PROVE  LET r == SupersedeAll(d) IN
           /\ OneLive(r) /\ r.owner = d.owner /\ r.status = d.status
           /\ Len(r.evidence) = Len(d.evidence) /\ DOMAIN r.evidence = DOMAIN d.evidence
           /\ \A j \in DOMAIN r.evidence : ~IsLive(r.evidence[j])
<1> DEFINE r == SupersedeAll(d)
           f == [i \in DOMAIN d.evidence |-> Superseded(d.evidence[i])]
<1>1. d = [status |-> d.status, owner |-> d.owner, evidence |-> d.evidence]
      /\ d.status \in {"none", "open", "pending_deadline", "completed", "voided"}
  BY DutyFields
<1>2. r = [status |-> d.status, owner |-> d.owner, evidence |-> f]
  <2>1. r = [d EXCEPT !.evidence = f]
    BY DEF SupersedeAll
  <2> HIDE DEF f, r
  <2>2. PICK s, o, x : d = [status |-> s, owner |-> o, evidence |-> x]
    BY <1>1
  <2>3. [d EXCEPT !.evidence = f] = [status |-> s, owner |-> o, evidence |-> f]
    BY <2>2
  <2>4. d.status = s /\ d.owner = o
    BY <2>2
  <2> QED BY <2>1, <2>3, <2>4
<1>3. ASSUME NEW e \in Link, Paired(e)
      PROVE  /\ Superseded(e) \in Link
             /\ Paired(Superseded(e)) /\ ~IsLive(Superseded(e))
  <2> DEFINE g == Superseded(e)
  <2>1. CASE e.decision # "pending"
    BY <1>3, <2>1 DEF Superseded, Paired
  <2>2. CASE e.decision = "pending"
    <3>1. IsLive(e)
      BY <1>3, <2>2 DEF Paired
    <3>2. g = [e EXCEPT !.decision = "superseded", !.status = "superseded"]
      BY <2>2, <3>1 DEF Superseded
    <3>3. /\ DOMAIN g = {"decision", "status", "closes", "voters"} /\ g = [x \in DOMAIN g |-> g[x]]
          /\ g.decision = "superseded" /\ g.status = "superseded"
          /\ g.closes = e.closes /\ g.voters = e.voters
      <4>0. e = [decision |-> e.decision, status |-> e.status, closes |-> e.closes, voters |-> e.voters]
        BY CaseFields
      <4>1. PICK x, y, c, w : e = [decision |-> x, status |-> y, closes |-> c, voters |-> w]
        BY <4>0
      <4> HIDE DEF g
      <4> QED BY <3>2, <4>1
    <3> HIDE DEF g
    <3>4. g \in Link
      BY <3>3 DEF Link, LinkWith
    <3>5. ~IsLive(g)
      BY <3>3 DEF IsLive
    <3>6. Paired(g)
      BY <1>3, <3>3, <3>5 DEF Paired
    <3> QED BY <3>4, <3>5, <3>6 DEF g
  <2> QED BY <2>1, <2>2
<1>4. \A j \in DOMAIN d.evidence : d.evidence[j] \in Link /\ Paired(d.evidence[j])
  BY DutyFields DEF OneLive
<1>5. DOMAIN f = DOMAIN d.evidence /\ f = [j \in DOMAIN f |-> f[j]]
  OBVIOUS
<1>6. \A j \in DOMAIN f : f[j] \in Link /\ Paired(f[j]) /\ ~IsLive(f[j])
  BY <1>3, <1>4
<1> HIDE DEF f
<1>7. OneLive(r) /\ Len(f) = Len(d.evidence)
  <2> HIDE DEF r
  <2> QED BY <1>1, <1>2, <1>5, <1>6, DutyOf
<1>8. r.owner = d.owner /\ r.status = d.status /\ r.evidence = f
  BY <1>2
<1> QED BY <1>5, <1>6, <1>7, <1>8

\* New evidence: what was pending is superseded; without voters it is accepted at once.
LEMMA EvidenceRuns ==
    ASSUME Names, now \in Nat, NEW d, Running(d), InTime(d), d.status = "open",
           NEW voters \in SUBSET Member
    PROVE  Running(WithEvidence(d, voters)) /\ InTime(WithEvidence(d, voters))
<1> DEFINE s == SupersedeAll(d)
           g == NewLink(voters)
           f == Append(s.evidence, g)
           next == [s EXCEPT !.evidence = f]
           r == WithEvidence(d, voters)
           n == Len(s.evidence) + 1
<1>0. OneLive(d) /\ Window \in Nat /\ IsFiniteSet(voters)
  BY FS_Subset DEF Running, SoundDuty, Names
<1>1. /\ OneLive(s) /\ s.status = "open" /\ s.owner = d.owner
      /\ \A j \in DOMAIN s.evidence : ~IsLive(s.evidence[j])
  BY <1>0, SupersedingEnds
<1>2. /\ g = [decision |-> "pending", status |-> "open", closes |-> now + Window,
              voters |-> [v \in voters |-> Uncast]]
      /\ now + Window \in Nat /\ now <= now + Window
  BY <1>0 DEF NewLink
<1> HIDE DEF s, g
<1>3. g \in Link /\ Paired(g) /\ IsLive(g) /\ Ruled(g)
  <2> DEFINE b == [v \in voters |-> Uncast]
  <2>1. /\ DOMAIN b \subseteq Member /\ b = [v \in DOMAIN b |-> b[v]]
        /\ \A v \in DOMAIN b : b[v] \in Ballot /\ b[v].review = "none"
    BY DEF Uncast, Ballot
  <2> HIDE DEF b
  <2>2. b \in Votes
    BY <2>1, VotesAre
  <2>3. g \in Link
    BY <1>2, <2>2 DEF b, Link, LinkWith
  <2>4. g.voters = b /\ g.status = "open" /\ g.decision = "pending"
    BY <1>2 DEF b
  <2>5. IsLive(g)
    BY <2>4 DEF IsLive
  <2>6. Vetoers(g) = {}
    BY <2>1, <2>4 DEF Vetoers
  <2> QED BY <2>1, <2>3, <2>4, <2>5, <2>6 DEF Paired, Ruled
<1>4. voters # {} => Undecided(g)
  <2>1. Accepts(g) = {} /\ DOMAIN g.voters = voters
    BY <1>2 DEF Accepts, Uncast
  <2>2. Cardinality({}) = 0 /\ Cardinality(voters) \in Nat
    BY <1>0, FS_EmptySet, FS_CardinalityType
  <2> QED BY <2>1, <2>2 DEF Undecided, Majority
<1>5. /\ s = [status |-> s.status, owner |-> s.owner, evidence |-> s.evidence]
      /\ s.owner \in Member \union {NoName} /\ s.evidence \in Seq(Link)
      /\ DOMAIN s.evidence = 1 .. Len(s.evidence) /\ Len(s.evidence) \in Nat
  BY <1>1, DutyFields
<1>6. next = [status |-> "open", owner |-> s.owner, evidence |-> f]
  <2> HIDE DEF f
  <2>1. PICK x, o, q : s = [status |-> x, owner |-> o, evidence |-> q]
    BY <1>5
  <2> QED BY <1>1, <2>1
<1>7. /\ f \in Seq(Link) /\ Len(f) = n /\ DOMAIN f = 1 .. n /\ f[n] = g
      /\ \A j \in DOMAIN f : j # n => j \in DOMAIN s.evidence /\ f[j] = s.evidence[j]
  BY <1>3, <1>5
<1>8. next.evidence = f /\ next.status = "open" /\ n \in DOMAIN f
  BY <1>5, <1>6, <1>7
<1> HIDE DEF f, n
<1>9. \A j \in DOMAIN f : Paired(f[j]) /\ Ruled(f[j]) /\ (j # n => ~IsLive(f[j]))
  BY <1>1, <1>3, <1>7 DEF OneLive, Ruled, IsLive
<1>10. OneLive(next)
  <2>1. next \in [status : {"none", "open", "pending_deadline", "completed", "voided"},
             owner : Member \union {NoName}, evidence : Seq(Link)]
    BY <1>5, <1>6, <1>7
  <2> HIDE DEF next
  <2> QED BY <1>7, <1>8, <1>9, <2>1 DEF OneLive
<1>11. r = IF voters # {} THEN next ELSE CloseCase(next, n, "accepted")
  BY <1>7, <1>8 DEF WithEvidence, s, g, f, n
<1> HIDE DEF next, r
<1>12. CASE voters # {}
  <2>1. \A j \in DOMAIN f : Undecided(f[j])
    BY <1>4, <1>7, <1>9, <1>12 DEF Undecided, IsLive
  <2>2. Running(r)
    BY <1>8, <1>9, <1>10, <1>11, <1>12, <2>1 DEF Running, SoundDuty
  <2>3. \A j \in DOMAIN f : f[j].status = "open" => now <= f[j].closes
    BY <1>2, <1>7, <1>9 DEF IsLive
  <2> QED BY <1>8, <1>11, <1>12, <2>2, <2>3 DEF InTime, r
<1>13. CASE voters = {}
  <2>1. n \in DOMAIN next.evidence /\ IsLive(next.evidence[n])
    BY <1>3, <1>7, <1>8
  <2>2. Running(r) /\ \A j \in DOMAIN r.evidence : ~IsLive(r.evidence[j])
    BY <1>10, <1>11, <1>13, <2>1, CloseEnds
  <2> QED BY <2>2 DEF InTime, IsLive, r
<1> QED BY <1>12, <1>13 DEF r

\* A captain's decision on the pending evidence closes its case.
LEMMA DecidingRuns ==
    ASSUME NEW d, Running(d), NEW i \in DOMAIN d.evidence, d.evidence[i].decision = "pending",
           NEW decision \in {"accepted", "rejected"}
    PROVE  LET r == [ApplyDecision(d, i, decision) EXCEPT
                        !.evidence[i].status = IF IsLive(d.evidence[i]) THEN decision ELSE @]
           IN  Running(r) /\ InTime(r)
<1> DEFINE a == ApplyDecision(d, i, decision)
           c == CloseCase(d, i, decision)
<1>1. OneLive(d) /\ IsLive(d.evidence[i])
  BY DEF Running, SoundDuty, OneLive, Paired
<1>2. LiveDuty(d)
  BY <1>1, OnlyOneRuns DEF LiveDuty
<1>3. c = [a EXCEPT !.evidence[i].status = decision]
  BY <1>2 DEF CloseCase
<1>4. Running(c) /\ \A j \in DOMAIN c.evidence : ~IsLive(c.evidence[j])
  BY <1>1, CloseEnds
<1>5. InTime(c)
  BY <1>4 DEF InTime, IsLive
<1> HIDE DEF a, c
<1> QED BY <1>1, <1>3, <1>4, <1>5 DEF a

\* A ballot is cast: an accept that carries the case closes it, a veto sends it to review.
LEMMA RespondingRuns ==
    ASSUME NEW d, Running(d), InTime(d), NEW i \in DOMAIN d.evidence,
           NEW choice \in {"accept", "veto"}, MayRespond(d.evidence[i], choice)
    PROVE  LET r == IF choice = "accept"
                    THEN CarriedBy(Cast(d, i, [choice |-> "accept", review |-> "none"]), i)
                    ELSE [Cast(d, i, [choice |-> "veto", review |-> "pending"]) EXCEPT
                            !.evidence[i].status = "in_review"]
           IN  Running(r) /\ InTime(r)
<1> DEFINE e == d.evidence[i]
<1>1. /\ OneLive(d) /\ e \in Link /\ Paired(e) /\ IsLive(e)
      /\ e.status = "open" /\ me \in DOMAIN e.voters /\ Vetoers(e) = {}
  BY DutyFields DEF Running, SoundDuty, OneLive, MayRespond,
     OwnBallot, Ruled, IsLive
<1>2. /\ e = [decision |-> e.decision, status |-> "open", closes |-> e.closes, voters |-> e.voters]
      /\ DOMAIN e.voters \subseteq Member /\ e.voters = [v \in DOMAIN e.voters |-> e.voters[v]]
      /\ \A v \in DOMAIN e.voters : e.voters[v] \in Ballot
  <2>1. e.voters \in Votes
    BY <1>1 DEF Link, LinkWith
  <2>2. \A v \in DOMAIN e.voters : e.voters[v] \in Ballot
    BY <2>1 DEF Votes
  <2> QED BY <1>1, <2>2, CaseFields
<1>3. \A v \in DOMAIN e.voters : e.voters[v].review # "none" => e.voters[v].choice = "veto"
  BY <1>1 DEF Paired
<1>4. ASSUME NEW s \in {"open", "in_review"},
             NEW b \in Ballot, b.review # "none" => b.choice = "veto"
      PROVE  LET f == [e.voters EXCEPT ![me] = b]
                 g == [decision |-> e.decision, status |-> s, closes |-> e.closes, voters |-> f]
             IN  /\ g \in Link /\ Paired(g) /\ IsLive(g)
                 /\ g.voters = f /\ g.status = s /\ g.closes = e.closes
                 /\ DOMAIN f = DOMAIN e.voters /\ f[me] = b /\ \A v \in DOMAIN f : v # me => f[v] = e.voters[v]
  <2> DEFINE f == [e.voters EXCEPT ![me] = b]
             g == [decision |-> e.decision, status |-> s, closes |-> e.closes, voters |-> f]
  <2>1. /\ DOMAIN f = DOMAIN e.voters /\ f[me] = b /\ \A v \in DOMAIN f : v # me => f[v] = e.voters[v]
        /\ f = [v \in DOMAIN f |-> f[v]]
    BY <1>1, <1>2
  <2> HIDE DEF f, e
  <2>2. \A v \in DOMAIN f : f[v] \in Ballot /\ (f[v].review # "none" => f[v].choice = "veto")
    BY <1>2, <1>3, <1>4, <2>1
  <2>3. g \in Link /\ Paired(g) /\ IsLive(g)
    BY <1>1, <1>2, <2>1, <2>2, CaseWith
  <2> QED BY <2>1, <2>3 DEF f
<1>5. CASE choice = "accept"
  <2> DEFINE b == [choice |-> "accept", review |-> "none"]
             f == [e.voters EXCEPT ![me] = b]
             g == [decision |-> e.decision, status |-> "open", closes |-> e.closes, voters |-> f]
             c == Cast(d, i, b)
             r == CarriedBy(c, i)
  <2>1. b \in Ballot /\ b.review = "none"
    BY DEF Ballot
  <2>2. /\ g \in Link /\ Paired(g) /\ IsLive(g)
        /\ g.voters = f /\ g.status = "open" /\ g.closes = e.closes
        /\ DOMAIN f = DOMAIN e.voters /\ f[me] = b /\ \A v \in DOMAIN f : v # me => f[v] = e.voters[v]
    <3> HIDE DEF b, e
    <3> QED BY <1>4, <2>1
  <2>3. c = [d EXCEPT !.evidence[i] = g]
    <3>1. [e EXCEPT !.voters[me] = b] = g
      <4>1. PICK x, y, q, w : e = [decision |-> x, status |-> y, closes |-> q, voters |-> w]
        BY <1>2
      <4>2. [e EXCEPT !.voters = f] = [decision |-> x, status |-> y, closes |-> q, voters |-> f]
        <5> HIDE DEF e, f
        <5> QED BY <4>1
      <4>3. e.decision = x /\ e.closes = q /\ e.status = y
        BY <4>1
      <4>4. [e EXCEPT !.voters[me] = b] = [e EXCEPT !.voters = f]
        OBVIOUS
      <4> HIDE DEF f, e
      <4> QED BY <1>1, <4>2, <4>3, <4>4
    <3> HIDE DEF b, g
    <3>2. c = [d EXCEPT !.evidence[i] = [e EXCEPT !.voters[me] = b]]
      BY DEF Cast
    <3> QED BY <3>1, <3>2
  <2> HIDE DEF g, f, b, e
  <2>4. /\ OneLive(c) /\ DOMAIN c.evidence = DOMAIN d.evidence /\ c.evidence[i] = g
        /\ \A j \in DOMAIN c.evidence : j # i => ~IsLive(c.evidence[j])
        /\ Ruled(g) /\ Undecided(g) => Running(c)
    <3> HIDE DEF c
    <3> QED BY <1>1, <2>2, <2>3, Recased DEF e
  <2>5. Ruled(g)
    <3>1. Vetoers(g) = {}
      BY <1>1, <2>1, <2>2 DEF Vetoers, b
    <3> QED BY <2>2, <3>1 DEF Ruled
  <2>6. CASE Majority(g)
    <3>1. r = CloseCase(c, i, "accepted")
      BY <2>4, <2>6 DEF CarriedBy
    <3> HIDE DEF c, r
    <3>2. Running(r) /\ \A j \in DOMAIN r.evidence : ~IsLive(r.evidence[j])
      BY <2>2, <2>4, <3>1, CloseEnds
    <3> QED BY <1>5, <3>2 DEF InTime, IsLive, c, r, b
  <2>7. CASE ~Majority(g)
    <3>1. r = c
      BY <2>4, <2>7 DEF CarriedBy
    <3>2. Undecided(g)
      BY <1>1, <2>2, <2>7 DEF Undecided
    <3> HIDE DEF c, r
    <3>3. InTime(c)
      BY <1>1, <2>2, <2>4 DEF InTime, IsLive, e
    <3> QED BY <1>5, <2>4, <2>5, <3>1, <3>2, <3>3 DEF c, r, b
  <2> QED BY <2>6, <2>7
<1>6. CASE choice = "veto"
  <2> DEFINE b == [choice |-> "veto", review |-> "pending"]
             f == [e.voters EXCEPT ![me] = b]
             g == [decision |-> e.decision, status |-> "in_review", closes |-> e.closes, voters |-> f]
             c == Cast(d, i, b)
             r == [c EXCEPT !.evidence[i].status = "in_review"]
  <2>1. b \in Ballot /\ b.review = "pending" /\ b.choice = "veto"
    BY DEF Ballot
  <2>2. /\ g \in Link /\ Paired(g) /\ IsLive(g)
        /\ g.voters = f /\ g.status = "in_review" /\ g.closes = e.closes
        /\ DOMAIN f = DOMAIN e.voters /\ f[me] = b /\ \A v \in DOMAIN f : v # me => f[v] = e.voters[v]
    <3> HIDE DEF b, e
    <3> QED BY <1>4, <2>1
  <2>3. r = [d EXCEPT !.evidence[i] = g]
    <3>1. [[e EXCEPT !.voters[me] = b] EXCEPT !.status = "in_review"] = g
      <4>1. PICK x, y, q, w : e = [decision |-> x, status |-> y, closes |-> q, voters |-> w]
        BY <1>2
      <4> DEFINE m == [e EXCEPT !.voters = f]
      <4>2. m = [decision |-> x, status |-> y, closes |-> q, voters |-> f]
        <5> HIDE DEF e, f
        <5> QED BY <4>1
      <4>3. e.decision = x /\ e.closes = q
        BY <4>1
      <4>4. [e EXCEPT !.voters[me] = b] = m
        OBVIOUS
      <4> HIDE DEF f, e, m
      <4>5. [m EXCEPT !.status = "in_review"] = [decision |-> x, status |-> "in_review", closes |-> q, voters |-> f]
        BY <4>2
      <4> QED BY <4>3, <4>4, <4>5
    <3> HIDE DEF b, g
    <3> DEFINE m == [e EXCEPT !.voters[me] = b]
    <3>2. c = [d EXCEPT !.evidence[i] = m]
      BY DEF Cast
    <3>3. [m EXCEPT !.status = "in_review"] = g
      BY <3>1
    <3>4. c.evidence[i] = m /\ c.evidence = [d.evidence EXCEPT ![i] = m] /\ i \in DOMAIN c.evidence
      <4>1. d = [status |-> d.status, owner |-> d.owner, evidence |-> d.evidence]
            /\ d.evidence = [j \in DOMAIN d.evidence |-> d.evidence[j]]
        BY <1>1, DutyFields
      <4> HIDE DEF c, m
      <4> QED BY <3>2, <4>1
    <3> HIDE DEF c, m
    <3>5. r = [c EXCEPT !.evidence[i] = g]
      BY <3>3, <3>4
    <3>6. [c EXCEPT !.evidence[i] = g] = [c EXCEPT !.evidence = [d.evidence EXCEPT ![i] = g]]
      BY <3>4
    <3>7. c = [d EXCEPT !.evidence = [d.evidence EXCEPT ![i] = m]]
      BY <3>2
    <3> QED BY <3>5, <3>6, <3>7
  <2> HIDE DEF g, f, b, e, c
  <2>4. /\ DOMAIN r.evidence = DOMAIN d.evidence /\ r.evidence[i] = g
        /\ \A j \in DOMAIN r.evidence : j # i => ~IsLive(r.evidence[j])
        /\ Ruled(g) /\ Undecided(g) => Running(r)
    <3> HIDE DEF r
    <3> QED BY <1>1, <2>2, <2>3, Recased DEF e
  <2>5. Ruled(g)
    <3>1. Vetoers(g) = {me}
      BY <1>1, <2>1, <2>2 DEF Vetoers
    <3> QED BY <1>1, <2>2, <3>1 DEF Ruled
  <2>6. Undecided(g)
    BY <2>2 DEF Undecided
  <2>7. InTime(r)
    BY <2>2, <2>4 DEF InTime, IsLive
  <2> QED BY <1>6, <2>4, <2>5, <2>6, <2>7 DEF c, b
<1> QED BY <1>5, <1>6

\* The one veto of a case is ruled on: an upheld one rejects the evidence, a dismissed one
\* reopens the vote, or carries it.
LEMMA ReviewingRuns ==
    ASSUME now \in Nat, NEW d, Running(d), InTime(d), NEW i \in DOMAIN d.evidence,
           d.evidence[i].status = "in_review", NEW v \in Vetoers(d.evidence[i]),
           NEW ruling \in {"dismissed", "upheld"}
    PROVE  LET r == IF ruling = "upheld"
                    THEN CloseCase([d EXCEPT !.evidence[i].voters[v].review = "upheld"], i, "rejected")
                    ELSE Dismissed(d, i, v)
           IN  Running(r) /\ InTime(r)
<1> DEFINE e == d.evidence[i]
<1>1. /\ OneLive(d) /\ e \in Link /\ Paired(e) /\ IsLive(e)
      /\ v \in DOMAIN e.voters /\ e.voters[v].review = "pending" /\ Vetoers(e) = {v}
  <2>1. OneLive(d) /\ e \in Link
    BY DutyFields DEF Running, SoundDuty
  <2>2. Paired(e) /\ IsLive(e)
    BY <2>1 DEF OneLive, IsLive
  <2>3. \E x \in DOMAIN e.voters : Vetoers(e) = {x}
    BY DEF Running, SoundDuty, Ruled
  <2> QED BY <2>1, <2>2, <2>3 DEF Vetoers
<1>2. /\ e = [decision |-> e.decision, status |-> "in_review", closes |-> e.closes, voters |-> e.voters]
      /\ DOMAIN e.voters \subseteq Member /\ e.voters = [x \in DOMAIN e.voters |-> e.voters[x]]
      /\ \A x \in DOMAIN e.voters : e.voters[x] \in Ballot
      /\ e.closes \in Nat
  <2>1. e.voters \in Votes
    BY <1>1 DEF Link, LinkWith
  <2>2. \A x \in DOMAIN e.voters : e.voters[x] \in Ballot
    BY <2>1 DEF Votes
  <2> QED BY <1>1, <2>2, CaseFields
<1>3. \A x \in DOMAIN e.voters : e.voters[x].review # "none" => e.voters[x].choice = "veto"
  BY <1>1 DEF Paired
<1>4. ASSUME NEW s \in {"open", "in_review"}, NEW to \in {"dismissed", "upheld"}
      PROVE  LET b == [e.voters[v] EXCEPT !.review = to]
                 f == [e.voters EXCEPT ![v] = b]
                 g == [decision |-> e.decision, status |-> s, closes |-> e.closes, voters |-> f]
             IN  /\ g \in Link /\ Paired(g) /\ IsLive(g)
                 /\ g.voters = f /\ g.status = s /\ g.closes = e.closes
                 /\ DOMAIN f = DOMAIN e.voters /\ Vetoers(g) = {}
  <2> DEFINE b == [e.voters[v] EXCEPT !.review = to]
             f == [e.voters EXCEPT ![v] = b]
             g == [decision |-> e.decision, status |-> s, closes |-> e.closes, voters |-> f]
  <2>0. b \in Ballot /\ b.review = to /\ b.choice = "veto"
    <3>1. e.voters[v] \in Ballot /\ e.voters[v].choice = "veto"
      BY <1>1, <1>2, <1>3
    <3> HIDE DEF e
    <3> QED BY <3>1 DEF Ballot
  <2>1. /\ DOMAIN f = DOMAIN e.voters /\ f[v] = b /\ \A x \in DOMAIN f : x # v => f[x] = e.voters[x]
        /\ f = [x \in DOMAIN f |-> f[x]]
    <3> HIDE DEF b
    <3> QED BY <1>1, <1>2
  <2> HIDE DEF f, e, b
  <2>2. \A x \in DOMAIN f : f[x] \in Ballot /\ (f[x].review # "none" => f[x].choice = "veto")
    BY <1>2, <1>3, <2>0, <2>1
  <2>3. g \in Link /\ Paired(g) /\ IsLive(g)
    BY <1>1, <1>2, <2>1, <2>2, CaseWith
  <2>4. Vetoers(g) = {}
    BY <1>1, <2>0, <2>1 DEF Vetoers
  <2> QED BY <2>1, <2>3, <2>4 DEF f, b
<1>5. ASSUME NEW s \in {"open", "in_review"}, NEW to \in {"dismissed", "upheld"}, NEW r,
             r = [d EXCEPT !.evidence[i].voters[v].review = to, !.evidence[i].status = s]
      PROVE  /\ OneLive(r) /\ DOMAIN r.evidence = DOMAIN d.evidence
             /\ IsLive(r.evidence[i]) /\ r.evidence[i].status = s
             /\ r.evidence[i].closes = e.closes /\ Vetoers(r.evidence[i]) = {}
             /\ DOMAIN r.evidence[i].voters # {}
             /\ \A j \in DOMAIN r.evidence : j # i => ~IsLive(r.evidence[j])
             /\ Ruled(r.evidence[i]) /\ Undecided(r.evidence[i]) => Running(r)
  <2> DEFINE b == [e.voters[v] EXCEPT !.review = to]
             f == [e.voters EXCEPT ![v] = b]
             g == [decision |-> e.decision, status |-> s, closes |-> e.closes, voters |-> f]
             m == [e EXCEPT !.voters[v].review = to]
             c == [d EXCEPT !.evidence[i].voters[v].review = to]
  <2>1. /\ g \in Link /\ Paired(g) /\ IsLive(g)
        /\ g.voters = f /\ g.status = s /\ g.closes = e.closes
        /\ DOMAIN f = DOMAIN e.voters /\ Vetoers(g) = {}
    <3> HIDE DEF e
    <3> QED BY <1>4
  <2>2. [m EXCEPT !.status = s] = g
    <3>1. PICK x, y, q, w : e = [decision |-> x, status |-> y, closes |-> q, voters |-> w]
      BY <1>2
    <3>2. m = [e EXCEPT !.voters = f]
      OBVIOUS
    <3>3. [e EXCEPT !.voters = f] = [decision |-> x, status |-> y, closes |-> q, voters |-> f]
      <4> HIDE DEF e, f
      <4> QED BY <3>1
    <3>4. e.decision = x /\ e.closes = q
      BY <3>1
    <3> HIDE DEF f, e, m
    <3>5. m = [decision |-> x, status |-> y, closes |-> q, voters |-> f]
      BY <3>2, <3>3
    <3>6. [m EXCEPT !.status = s] = [decision |-> x, status |-> s, closes |-> q, voters |-> f]
      BY <3>5
    <3> QED BY <3>4, <3>6
  <2>3. c = [d EXCEPT !.evidence[i] = m]
    OBVIOUS
  <2>4. r = [c EXCEPT !.evidence[i].status = s]
    BY <1>5
  <2> HIDE DEF g, b, f, m, c
  <2>5. d = [status |-> d.status, owner |-> d.owner, evidence |-> d.evidence]
        /\ d.evidence = [j \in DOMAIN d.evidence |-> d.evidence[j]]
    BY <1>1, DutyFields
  <2>6. c.evidence = [d.evidence EXCEPT ![i] = m] /\ c.evidence[i] = m /\ i \in DOMAIN c.evidence
    BY <2>3, <2>5
  <2>7. r = [c EXCEPT !.evidence[i] = g]
    BY <2>2, <2>4, <2>6
  <2>8. r = [d EXCEPT !.evidence[i] = g]
    <3>1. [c EXCEPT !.evidence[i] = g] = [c EXCEPT !.evidence = [d.evidence EXCEPT ![i] = g]]
      BY <2>6
    <3>2. c = [d EXCEPT !.evidence = [d.evidence EXCEPT ![i] = m]]
      BY <2>3
    <3> QED BY <2>7, <3>1, <3>2
  <2>9. /\ OneLive(r) /\ DOMAIN r.evidence = DOMAIN d.evidence /\ r.evidence[i] = g
        /\ \A j \in DOMAIN r.evidence : j # i => ~IsLive(r.evidence[j])
        /\ Ruled(g) /\ Undecided(g) => Running(r)
    BY <1>1, <2>1, <2>8, Recased
  <2> QED BY <1>1, <2>1, <2>9
<1>6. CASE ruling = "upheld"
  <2> DEFINE c == [d EXCEPT !.evidence[i].voters[v].review = "upheld"]
             r == CloseCase(c, i, "rejected")
  <2>1. c = [d EXCEPT !.evidence[i].voters[v].review = "upheld", !.evidence[i].status = "in_review"]
    <3> DEFINE x == c.evidence[i]
    <3>1. d = [status |-> d.status, owner |-> d.owner, evidence |-> d.evidence]
          /\ d.evidence = [j \in DOMAIN d.evidence |-> d.evidence[j]]
      BY <1>1, DutyFields
    <3> DEFINE m == [e EXCEPT !.voters[v].review = "upheld"]
    <3>2. c = [d EXCEPT !.evidence[i] = m]
      OBVIOUS
    <3>3. [m EXCEPT !.status = "in_review"] = m
      <4>1. PICK p, q, w : e = [decision |-> p, status |-> "in_review", closes |-> q, voters |-> w]
        BY <1>2
      <4> DEFINE f == [e.voters EXCEPT ![v].review = "upheld"]
      <4>2. m = [e EXCEPT !.voters = f]
        OBVIOUS
      <4> HIDE DEF e, f, m
      <4>3. m = [decision |-> p, status |-> "in_review", closes |-> q, voters |-> f]
        BY <4>1, <4>2
      <4> QED BY <4>3
    <3> HIDE DEF m, c
    <3>4. /\ c = [status |-> d.status, owner |-> d.owner, evidence |-> c.evidence]
          /\ c.evidence = [d.evidence EXCEPT ![i] = m] /\ c.evidence[i] = m /\ i \in DOMAIN c.evidence
          /\ c.evidence = [j \in DOMAIN c.evidence |-> c.evidence[j]]
      <4>1. PICK p, q, w : d = [status |-> p, owner |-> q, evidence |-> w]
        BY <3>1
      <4>2. c = [status |-> p, owner |-> q, evidence |-> [d.evidence EXCEPT ![i] = m]]
        BY <3>2, <4>1
      <4>3. d.status = p /\ d.owner = q
        BY <4>1
      <4>4. c.evidence = [d.evidence EXCEPT ![i] = m]
        BY <4>2
      <4> QED BY <3>1, <4>2, <4>3, <4>4
    <3>5. [c EXCEPT !.evidence[i].status = "in_review"] = [c EXCEPT !.evidence[i] = m]
      BY <3>3, <3>4
    <3>6. [c EXCEPT !.evidence[i] = m] = c
      <4>1. [c.evidence EXCEPT ![i] = m] = c.evidence
        BY <3>4
      <4>2. PICK p, q, w : c = [status |-> p, owner |-> q, evidence |-> w]
        BY <3>4
      <4>3. [c EXCEPT !.evidence[i] = m] = [c EXCEPT !.evidence = [c.evidence EXCEPT ![i] = m]]
        OBVIOUS
      <4>4. [c EXCEPT !.evidence = c.evidence] = c
        BY <4>2
      <4> QED BY <4>1, <4>3, <4>4
    <3> QED BY <3>5, <3>6 DEF c
  <2> HIDE DEF c, e
  <2>2. OneLive(c) /\ i \in DOMAIN c.evidence /\ IsLive(c.evidence[i])
    BY <1>5, <2>1
  <2> HIDE DEF r
  <2>3. Running(r) /\ \A j \in DOMAIN r.evidence : ~IsLive(r.evidence[j])
    BY <2>2, CloseEnds DEF r
  <2> QED BY <1>6, <2>3 DEF InTime, IsLive, r, c
<1>7. CASE ruling = "dismissed"
  <2> DEFINE c == [d EXCEPT !.evidence[i].voters[v].review = "dismissed", !.evidence[i].status = "open"]
             r == Dismissed(d, i, v)
  <2>1. /\ OneLive(c) /\ DOMAIN c.evidence = DOMAIN d.evidence
        /\ IsLive(c.evidence[i]) /\ c.evidence[i].status = "open"
        /\ c.evidence[i].closes = e.closes /\ Vetoers(c.evidence[i]) = {}
        /\ DOMAIN c.evidence[i].voters # {}
        /\ \A j \in DOMAIN c.evidence : j # i => ~IsLive(c.evidence[j])
        /\ Ruled(c.evidence[i]) /\ Undecided(c.evidence[i]) => Running(c)
    <3> HIDE DEF e, c
    <3> QED BY <1>5 DEF c
  <2>2. r = IF Majority(c.evidence[i]) \/ now >= c.evidence[i].closes
            THEN CloseCase(c, i, "accepted") ELSE c
    BY DEF Dismissed
  <2> HIDE DEF c, r, e
  <2>3. CASE Majority(c.evidence[i]) \/ now >= c.evidence[i].closes
    <3>1. Running(r) /\ \A j \in DOMAIN r.evidence : ~IsLive(r.evidence[j])
      BY <2>1, <2>2, <2>3, CloseEnds
    <3> QED BY <1>7, <3>1 DEF InTime, IsLive, r
  <2>4. CASE ~(Majority(c.evidence[i]) \/ now >= c.evidence[i].closes)
    <3>1. r = c
      BY <2>2, <2>4
    <3>2. Running(c)
      BY <2>1, <2>4 DEF Ruled, Undecided
    <3>3. InTime(c)
      BY <1>2, <2>1, <2>4 DEF InTime, IsLive
    <3> QED BY <1>7, <3>1, <3>2, <3>3 DEF r
  <2> QED BY <2>3, <2>4
<1> QED BY <1>6, <1>7

\* Voiding a duty supersedes what is pending under it.
LEMMA VoidingRuns ==
    ASSUME NEW d, Running(d)
    PROVE  LET r == [SupersedeAll(d) EXCEPT !.status = "voided"] IN
           Running(r) /\ \A j \in DOMAIN r.evidence : ~IsLive(r.evidence[j])
<1> DEFINE s == SupersedeAll(d)
           r == [s EXCEPT !.status = "voided"]
<1>1. OneLive(d)
  BY DEF Running, SoundDuty
<1>2. OneLive(s) /\ \A j \in DOMAIN s.evidence : ~IsLive(s.evidence[j])
  BY <1>1, SupersedingEnds
<1> HIDE DEF s
<1>3. /\ s = [status |-> s.status, owner |-> s.owner, evidence |-> s.evidence]
      /\ s.evidence = [j \in DOMAIN s.evidence |-> s.evidence[j]]
      /\ \A j \in DOMAIN s.evidence : s.evidence[j] \in Link /\ Paired(s.evidence[j])
  BY <1>2, DutyFields DEF OneLive
<1>4. r = [status |-> "voided", owner |-> s.owner, evidence |-> s.evidence]
  <2>1. PICK x, o, q : s = [status |-> x, owner |-> o, evidence |-> q]
    BY <1>3
  <2>2. s.owner = o /\ s.evidence = q
    BY <2>1
  <2> QED BY <2>1, <2>2
<1>5. r.evidence = s.evidence
  BY <1>4
<1> HIDE DEF r
<1>6. OneLive(r)
  BY <1>2, <1>3, <1>4, DutyOf
<1>7. Running(r)
  BY <1>2, <1>5, <1>6, QuietRuns
<1> QED BY <1>2, <1>5, <1>7 DEF r, s

\* A name that leaves takes its uncast ballots along; a vote that carries without them closes.
LEMMA ReleasingRuns ==
    ASSUME now \in Nat, NEW d, Running(d), InTime(d), NEW m
    PROVE  Running(ReleaseBallot(d, m)) /\ InTime(ReleaseBallot(d, m))
<1> DEFINE f == [i \in DOMAIN d.evidence |->
                    IF IsLive(d.evidence[i]) THEN Unballoted(d.evidence[i], m)
                    ELSE d.evidence[i]]
           next == [d EXCEPT !.evidence = f]
           carried == {i \in DOMAIN d.evidence :
                      /\ next.evidence[i] # d.evidence[i]
                      /\ next.evidence[i].status = "open"
                      /\ DOMAIN next.evidence[i].voters = {} \/ Majority(next.evidence[i])}
           r == ReleaseBallot(d, m)
<1>1. r = IF carried = {} THEN next ELSE CloseCase(next, Min(carried), "accepted")
  BY DEF ReleaseBallot
<1>2. OneLive(d)
  BY DEF Running, SoundDuty
<1>3. /\ d = [status |-> d.status, owner |-> d.owner, evidence |-> d.evidence]
      /\ d.evidence = [j \in DOMAIN d.evidence |-> d.evidence[j]]
      /\ DOMAIN d.evidence \subseteq Nat
      /\ \A j \in DOMAIN d.evidence : d.evidence[j] \in Link /\ Paired(d.evidence[j])
            /\ Ruled(d.evidence[j]) /\ Undecided(d.evidence[j])
  <2>1. DOMAIN d.evidence = 1 .. Len(d.evidence) /\ Len(d.evidence) \in Nat
    BY <1>2, DutyFields
  <2>2. DOMAIN d.evidence \subseteq Nat
    BY <2>1
  <2> QED BY <1>2, <2>2, DutyFields DEF OneLive, Running, SoundDuty
<1>4. next.evidence = f
  <2> HIDE DEF f
  <2>1. PICK x, o, q : d = [status |-> x, owner |-> o, evidence |-> q]
    BY <1>3
  <2> QED BY <2>1
<1>5. CASE \A i \in DOMAIN d.evidence : ~IsLive(d.evidence[i])
  <2>1. f = d.evidence
    <3>1. \A j \in DOMAIN d.evidence : f[j] = d.evidence[j]
      BY <1>5
    <3> QED BY <1>3, <3>1
  <2> HIDE DEF f
  <2>2. next = d
    <3>1. PICK x, o, q : d = [status |-> x, owner |-> o, evidence |-> q]
      BY <1>3
    <3> QED BY <2>1, <3>1
  <2>3. carried = {}
    BY <2>1, <1>4
  <2> HIDE DEF next, carried, r
  <2> QED BY <1>1, <2>2, <2>3 DEF r
<1>6. ASSUME NEW i \in DOMAIN d.evidence, IsLive(d.evidence[i])
      PROVE  Running(r) /\ InTime(r)
  <2> DEFINE e == d.evidence[i]
             b == [v \in {x \in DOMAIN e.voters : x # m \/ e.voters[x].choice # "none"} |-> e.voters[v]]
             g == [decision |-> e.decision, status |-> e.status, closes |-> e.closes, voters |-> b]
  <2>1. /\ e \in Link /\ Paired(e) /\ IsLive(e)
        /\ Ruled(e) /\ Undecided(e) /\ e.status \in {"open", "in_review"}
        /\ e = [decision |-> e.decision, status |-> e.status, closes |-> e.closes, voters |-> e.voters]
        /\ DOMAIN e.voters \subseteq Member
    BY <1>3, <1>6, CaseFields DEF IsLive
  <2>2. /\ DOMAIN b \subseteq DOMAIN e.voters /\ b = [v \in DOMAIN b |-> b[v]]
        /\ \A v \in DOMAIN b : b[v] = e.voters[v]
        /\ \A v \in DOMAIN e.voters : e.voters[v].choice # "none" => v \in DOMAIN b
    OBVIOUS
  <2>3. \A v \in DOMAIN e.voters : e.voters[v] \in Ballot
    <3>1. e.voters \in Votes
      BY <2>1 DEF Link, LinkWith
    <3> QED BY <3>1 DEF Votes
  <2>4. \A v \in DOMAIN e.voters : e.voters[v].review # "none" => e.voters[v].choice = "veto"
    BY <2>1 DEF Paired
  <2>5. Unballoted(e, m) = g
    <3>1. PICK x, y, q, w : e = [decision |-> x, status |-> y, closes |-> q, voters |-> w]
      BY <2>1
    <3>2. e.decision = x /\ e.status = y /\ e.closes = q
      BY <3>1
    <3>3. Unballoted(e, m) = [e EXCEPT !.voters = b]
      BY DEF Unballoted
    <3> HIDE DEF e, b
    <3> QED BY <3>1, <3>2, <3>3
  <2> HIDE DEF e, b
  <2>6. g \in Link /\ Paired(g) /\ IsLive(g)
    <3>1. \A v \in DOMAIN b : b[v] \in Ballot /\ (b[v].review # "none" => b[v].choice = "veto")
      BY <2>2, <2>3, <2>4
    <3>2. DOMAIN b \subseteq Member
      BY <2>1, <2>2
    <3> QED BY <2>1, <2>2, <3>1, <3>2, CaseWith
  <2>7. g.voters = b /\ g.status = e.status /\ g.closes = e.closes
    OBVIOUS
  <2> HIDE DEF g
  <2>8. f = [d.evidence EXCEPT ![i] = g]
    <3>1. f[i] = g /\ DOMAIN f = DOMAIN d.evidence
      BY <1>6, <2>5 DEF e
    <3>2. \A j \in DOMAIN d.evidence : j # i => f[j] = d.evidence[j]
      BY <1>2, <1>6, OnlyOneRuns
    <3>3. f = [j \in DOMAIN d.evidence |-> f[j]]
      OBVIOUS
    <3> HIDE DEF f
    <3> QED BY <1>3, <3>1, <3>2, <3>3
  <2>9. next = [d EXCEPT !.evidence[i] = g]
    BY <2>8
  <2> HIDE DEF f, next
  <2>10. /\ OneLive(next) /\ DOMAIN next.evidence = DOMAIN d.evidence /\ next.evidence[i] = g
         /\ \A j \in DOMAIN next.evidence : j # i =>
               next.evidence[j] = d.evidence[j] /\ ~IsLive(next.evidence[j])
         /\ Ruled(g) /\ Undecided(g) => Running(next)
    BY <1>2, <1>6, <2>6, <2>9, Recased
  <2>11. carried \subseteq {i}
    BY <2>10
  <2>12. CASE carried = {}
    <3>1. r = next
      BY <1>1, <2>12
    <3>2. g = e \/ g.status # "open" \/ (DOMAIN g.voters # {} /\ ~Majority(g))
      BY <2>10, <2>12 DEF e
    <3>3. Undecided(g)
      BY <2>1, <3>2 DEF Undecided
    <3>4. Vetoers(g) = Vetoers(e)
      <4>1. \A v \in DOMAIN e.voters : e.voters[v].review = "pending" => v \in DOMAIN b
        BY <2>2, <2>4
      <4> QED BY <2>2, <2>7, <4>1 DEF Vetoers
    <3>5. Ruled(g)
      <4>1. \A v \in Vetoers(g) : v \in DOMAIN g.voters
        BY DEF Vetoers
      <4> QED BY <2>1, <2>7, <3>4, <4>1 DEF Ruled
    <3>6. InTime(next)
      BY <1>6, <2>7, <2>10 DEF InTime, e
    <3> HIDE DEF r
    <3> QED BY <2>10, <3>1, <3>3, <3>5, <3>6
  <2>13. CASE carried # {}
    <3>1. carried \in SUBSET Nat
      BY <1>3
    <3> HIDE DEF carried
    <3>2. Min(carried) = i
      BY <2>11, <2>13, <3>1, Earliest
    <3>3. r = CloseCase(next, i, "accepted")
      BY <1>1, <2>13, <3>2
    <3> HIDE DEF r
    <3>4. Running(r) /\ \A j \in DOMAIN r.evidence : ~IsLive(r.evidence[j])
      BY <2>6, <2>10, <3>3, CloseEnds
    <3> QED BY <3>4 DEF InTime, IsLive
  <2> QED BY <2>12, <2>13
<1> QED BY <1>5, <1>6

\* The timer is set no later than the window of any open case ends.
LEMMA TimerIsInTime ==
    ASSUME now \in Nat, NEW ds, \A d \in Duty : Running(ds[d]) /\ InTime(ds[d]),
           NEW d \in Duty, NEW i \in DOMAIN ds[d].evidence, ds[d].evidence[i].status = "open"
    PROVE  TimerFor(ds) # NoTimer /\ TimerFor(ds) <= ds[d].evidence[i].closes
<1> DEFINE S == OpenCloses(ds)
           c == ds[d].evidence[i].closes
<1>1. c \in S /\ now <= c
  BY DEF OpenCloses, InTime
<1>2. S \in SUBSET Nat
  <2>1. \A x \in Duty : \A j \in DOMAIN ds[x].evidence : ds[x].evidence[j].closes \in Nat
    BY DutyFields, CaseFields DEF Running, SoundDuty
  <2> QED BY <2>1 DEF OpenCloses
<1> DEFINE m == Min(S)
<1>3. m \in Nat /\ m <= c
  <2> HIDE DEF S
  <2> QED BY <1>1, <1>2, Earliest
<1>4. TimerFor(ds) = Max({m, now})
  BY <1>1 DEF TimerFor
<1> HIDE DEF m, S
<1>5. Max({m, now}) = IF now <= m THEN m ELSE now
  BY <1>3 DEF Max
<1>6. TimerFor(ds) \in Nat /\ TimerFor(ds) <= c /\ NoTimer \notin Nat
  BY <1>1, <1>3, <1>4, <1>5 DEF NoTimer
<1> QED BY <1>6

\* A handler that leaves the duties in order and sets the timer anew keeps the invariant.
LEMMA Rescheduled ==
    ASSUME now \in Nat, now' = now, duties' = [d \in Duty |-> duties'[d]], settleAt' = TimerFor(duties'),
           \A d \in Duty : Running(duties'[d]) /\ InTime(duties'[d])
    PROVE  CasesInv'
<1>1. \A d \in Duty : \A i \in DOMAIN duties'[d].evidence : duties'[d].evidence[i].status = "open" =>
        settleAt' # NoTimer /\ settleAt' <= duties'[d].evidence[i].closes
  BY TimerIsInTime
<1>2. OpenIsTimed'
  BY <1>1 DEF OpenIsTimed
<1> QED BY <1>2 DEF CasesInv

\* After settling every duty is in order, and no window has ended.
LEMMA AllSettled ==
    ASSUME CasesInv
    PROVE  /\ Settled = [d \in Duty |-> Settled[d]]
           /\ \A d \in Duty :
                /\ Running(Settled[d]) /\ InTime(Settled[d])
                /\ Len(Settled[d].evidence) = Len(duties[d].evidence)
                /\ DOMAIN Settled[d].evidence = DOMAIN duties[d].evidence
<1>1. now \in Nat /\ \A d \in Duty : Running(duties[d])
  BY DEF CasesInv
<1>2. Settled = [d \in Duty |-> SettledDuty(duties[d])]
  BY DEF Settled
<1>3. ASSUME NEW d \in Duty
      PROVE  LET r == SettledDuty(duties[d]) IN
             /\ Running(r) /\ InTime(r) /\ Len(r.evidence) = Len(duties[d].evidence)
             /\ DOMAIN r.evidence = DOMAIN duties[d].evidence
  <2> DEFINE r == SettledDuty(duties[d])
  <2>1. /\ Running(r) /\ Len(r.evidence) = Len(duties[d].evidence)
        /\ DOMAIN r.evidence = DOMAIN duties[d].evidence
        /\ \A j \in DOMAIN r.evidence : r.evidence[j].status = "open" => now < r.evidence[j].closes
    BY <1>1, SettlingRuns
  <2>2. \A j \in DOMAIN r.evidence : r.evidence[j].closes \in Nat
    <3> HIDE DEF r
    <3> QED BY <2>1, DutyFields, CaseFields DEF Running, SoundDuty
  <2> HIDE DEF r
  <2>3. InTime(r)
    BY <1>1, <2>1, <2>2 DEF InTime
  <2> QED BY <2>1, <2>3 DEF r
<1> QED BY <1>2, <1>3

\* A duty and a piece of evidence that a request can name.
LEMMA LinkIs ==
    ASSUME CasesInv, NEW l \in Links
    PROVE  l[1] \in Duty /\ l[2] \in DOMAIN duties[l[1]].evidence /\ l[2] \in DOMAIN Settled[l[1]].evidence
<1>1. l[1] \in Duty /\ l[2] \in DOMAIN duties[l[1]].evidence
  BY DEF Links
<1> QED BY <1>1, AllSettled

\* A duty without a case is in order.
LEMMA NoCaseRuns ==
    ASSUME NEW s \in {"none", "open", "pending_deadline", "completed", "voided"},
           NEW m \in Member \union {NoName}
    PROVE  LET r == [status |-> s, owner |-> m, evidence |-> <<>>] IN
           Running(r) /\ InTime(r)
BY DEF Running, SoundDuty, OneLive, InTime

\* So is one with a case of the seeds.
LEMMA SeededRuns ==
    ASSUME Names, now = 0, NEW owner \in Member, NEW s \in {"open", "in_review"},
           NEW electors \in SUBSET Member, NEW accepted, NEW vetoed,
           s = "in_review" => \E v \in electors : vetoed = {v},
           s = "open" => vetoed = {} /\ \E x, y \in electors : x # y /\ accepted = {x}
    PROVE  LET r == [status |-> "open", owner |-> owner,
                     evidence |-> <<SeedLink(s, electors, accepted, vetoed)>>]
           IN  Running(r) /\ InTime(r)
<1> DEFINE g == SeedLink(s, electors, accepted, vetoed)
           b == [v \in electors |-> IF v \in vetoed THEN Vetoed
                                    ELSE IF v \in accepted THEN Accepted ELSE Uncast]
           r == [status |-> "open", owner |-> owner, evidence |-> <<g>>]
<1>1. g = [decision |-> "pending", status |-> s, closes |-> Window, voters |-> b]
      /\ Window \in Nat /\ IsFiniteSet(electors)
  BY FS_Subset DEF SeedLink, Names
<1>2. /\ DOMAIN b = electors /\ b = [v \in DOMAIN b |-> b[v]]
      /\ \A v \in electors : b[v] \in Ballot
            /\ (b[v].review # "none" => b[v].choice = "veto")
            /\ (b[v].review = "pending" <=> v \in vetoed)
            /\ (v \notin vetoed => (b[v].choice = "accept" <=> v \in accepted))
  BY DEF Ballot, Vetoed, Accepted, Uncast
<1> HIDE DEF b, g
<1>3. g.voters = b /\ g.status = s /\ g.decision = "pending" /\ g.closes = Window
  BY <1>1
<1>4. g \in Link /\ Paired(g) /\ IsLive(g)
  <2>1. b \in Votes
    BY <1>2, VotesAre
  <2>2. g \in Link
    BY <1>1, <2>1 DEF Link, LinkWith
  <2>3. IsLive(g)
    BY <1>3 DEF IsLive
  <2> QED BY <1>2, <1>3, <2>2, <2>3 DEF Paired
<1>5. Vetoers(g) = vetoed \intersect electors
  BY <1>2, <1>3 DEF Vetoers
<1>6. Ruled(g)
  BY <1>2, <1>3, <1>5 DEF Ruled
<1>7. Undecided(g)
  <2> SUFFICES ASSUME s = "open" PROVE electors # {} /\ ~Majority(g)
    BY <1>2, <1>3 DEF Undecided
  <2>1. PICK x \in electors, y \in electors : x # y /\ accepted = {x}
    OBVIOUS
  <2>2. Accepts(g) = {x}
    BY <1>2, <1>3, <2>1 DEF Accepts
  <2>3. Cardinality({x}) = 1 /\ IsFiniteSet({x}) /\ Cardinality({x} \union {y}) = 2
    <3>1. Cardinality({x}) = 1 /\ IsFiniteSet({x})
      BY FS_Singleton
    <3>2. Cardinality({x} \union {y}) = IF y \in {x} THEN Cardinality({x}) ELSE Cardinality({x}) + 1
      BY <3>1, FS_AddElement
    <3> QED BY <2>1, <3>1, <3>2
  <2>4. Cardinality(electors) \in Nat /\ 2 <= Cardinality(electors)
    <3>1. {x} \union {y} \in SUBSET electors
      BY <2>1
    <3> QED BY <1>1, <2>3, <3>1, FS_Subset, FS_CardinalityType
  <2> QED BY <1>2, <1>3, <2>1, <2>2, <2>3, <2>4 DEF Majority
<1>8. <<g>> \in Seq(Link) /\ DOMAIN <<g>> = {1} /\ <<g>>[1] = g
  BY <1>4
<1>9. r.evidence = <<g>> /\ r.status = "open"
  OBVIOUS
<1>10. OneLive(r)
  BY <1>4, <1>8, <1>9 DEF OneLive
<1> HIDE DEF r
<1>11. Running(r)
  BY <1>6, <1>7, <1>8, <1>9, <1>10 DEF Running, SoundDuty
<1>12. InTime(r)
  BY <1>1, <1>3, <1>8, <1>9 DEF InTime
<1> QED BY <1>11, <1>12 DEF r, g

\* The seeds are in order.
LEMMA CasesInitially ==
    ASSUME Names, Init
    PROVE  CasesInv
<1>1. now = 0 /\ settleAt = TimerFor(duties) /\ Me \in Member
  BY DEF Init, Names
<1>2. Running(NoDuty) /\ InTime(NoDuty)
  BY NoCaseRuns DEF NoDuty
<1>3. duties = [d \in Duty |-> duties[d]] /\ \A d \in Duty : Running(duties[d]) /\ InTime(duties[d])
  <2>1. ASSUME NEW owner \in Member, NEW s \in {"open", "in_review"},
               NEW electors \in SUBSET Member, NEW accepted, NEW vetoed,
               s = "in_review" => \E v \in electors : vetoed = {v},
               s = "open" => vetoed = {} /\ \E x, y \in electors : x # y /\ accepted = {x},
               OneDuty(owner, SeedLink(s, electors, accepted, vetoed))
        PROVE  duties = [d \in Duty |-> duties[d]] /\ \A d \in Duty : Running(duties[d]) /\ InTime(duties[d])
    <3> DEFINE r == [status |-> "open", owner |-> owner,
                     evidence |-> <<SeedLink(s, electors, accepted, vetoed)>>]
    <3>1. Running(r) /\ InTime(r)
      BY <1>1, <2>1, SeededRuns
    <3>2. PICK d \in Duty : duties = [x \in Duty |-> IF x # d THEN NoDuty ELSE r]
      BY <2>1 DEF OneDuty
    <3> HIDE DEF r
    <3> QED BY <1>2, <3>1, <3>2
  <2>2. ASSUME NEW x \in Member \ {Me}, NEW y \in Member \ {Me}, NEW z \in Member \ {Me}, x # y, y # z, z # x,
               SeedPiele(x, y, z) \/ SeedPofadder(x, y, z) \/ SeedThird(x, y, z)
        PROVE  duties = [d \in Duty |-> duties[d]] /\ \A d \in Duty : Running(duties[d]) /\ InTime(duties[d])
    <3>1. CASE SeedPiele(x, y, z)
      <4>1. OneDuty(x, SeedLink("in_review", {y, z, Me}, {z}, {y}))
        BY <3>1 DEF SeedPiele
      <4>2. {y, z, Me} \in SUBSET Member /\ \E v \in {y, z, Me} : {y} = {v}
        BY <1>1
      <4> QED BY <2>1, <4>1, <4>2
    <3>2. CASE SeedPofadder(x, y, z)
      <4>1. OneDuty(x, SeedLink("open", {z, y, Me}, {y}, {}))
        BY <3>2 DEF SeedPofadder
      <4>2. {z, y, Me} \in SUBSET Member /\ y \in {z, y, Me} /\ z \in {z, y, Me} /\ y # z
        BY <1>1, <2>2
      <4>3. \E p, q \in {z, y, Me} : p # q /\ {y} = {p}
        BY <4>2
      <4> QED BY <2>1, <4>1, <4>2, <4>3
    <3>3. CASE SeedThird(x, y, z)
      <4>1. OneDuty(x, SeedLink("in_review", {y, z}, {z}, {y}))
        BY <3>3 DEF SeedThird
      <4>2. {y, z} \in SUBSET Member /\ \E v \in {y, z} : {y} = {v}
        OBVIOUS
      <4> QED BY <2>1, <4>1, <4>2
    <3> QED BY <2>2, <3>1, <3>2, <3>3
  <2>3. ASSUME NEW m \in Member, SeedNew(m)
        PROVE  duties = [d \in Duty |-> duties[d]] /\ \A d \in Duty : Running(duties[d]) /\ InTime(duties[d])
    <3>1. duties = [d \in Duty |-> NoDuty]
      BY <2>3 DEF SeedNew
    <3> QED BY <1>2, <3>1
  <2> QED BY <2>2, <2>3 DEF Init
<1>4. \A d \in Duty : \A i \in DOMAIN duties[d].evidence : duties[d].evidence[i].status = "open" =>
        settleAt # NoTimer /\ settleAt <= duties[d].evidence[i].closes
  BY <1>1, <1>3, TimerIsInTime
<1> QED BY <1>1, <1>3, <1>4 DEF CasesInv, OpenIsTimed

\* Every step keeps the cases in order.
LEMMA CasesStep ==
    ASSUME Names, CasesInv, [Next]_vars
    PROVE  CasesInv'
<1> DEFINE S == Settled
<1>a. /\ now \in Nat /\ duties = [d \in Duty |-> duties[d]] /\ OpenIsTimed
      /\ \A d \in Duty : Running(duties[d])
  BY DEF CasesInv
<1>b. S = [d \in Duty |-> S[d]] /\ \A d \in Duty : Running(S[d]) /\ InTime(S[d])
  BY AllSettled
\* A handler that settles, works on one duty and sets the timer.
<1>c. ASSUME NEW d \in Duty, NEW r, Running(r), InTime(r), now' = now,
             duties' = [S EXCEPT ![d] = r], settleAt' = TimerFor(duties')
      PROVE  CasesInv'
  <2>1. duties' = [x \in Duty |-> IF x = d THEN r ELSE S[x]]
    BY <1>b, <1>c
  <2>2. duties' = [x \in Duty |-> duties'[x]] /\ \A x \in Duty : Running(duties'[x]) /\ InTime(duties'[x])
    BY <1>b, <1>c, <2>1
  <2> QED BY <1>a, <1>c, <2>2, Rescheduled
\* Nothing happens to the evidence.
<1>d. ASSUME now' \in Nat, UNCHANGED <<duties, settleAt>> PROVE CasesInv'
  BY <1>a, <1>d DEF CasesInv, OpenIsTimed
<1>1. ASSUME NEW s \in Member, NEW ds \in SUBSET Duty, SubmitEvidence(s, ds) PROVE CasesInv'
  <2> DEFINE touched == {d \in ds : S[d].status = "open" /\ S[d].owner = s}
             E == Electorate(s)
  <2>1. /\ now' = now /\ settleAt' = TimerFor(duties')
        /\ duties' = [d \in Duty |-> IF d \in touched THEN WithEvidence(S[d], E) ELSE S[d]]
    BY <1>1 DEF SubmitEvidence
  <2>2. E \in SUBSET Member
    BY DEF Electorate
  <2> HIDE DEF E
  <2>3. ASSUME NEW d \in Duty PROVE Running(duties'[d]) /\ InTime(duties'[d])
    <3>1. CASE d \in touched
      <4>1. S[d].status = "open"
        BY <3>1
      <4>2. duties'[d] = WithEvidence(S[d], E)
        BY <2>1, <3>1
      <4> HIDE DEF S, touched
      <4> QED BY <1>a, <1>b, <2>2, <4>1, <4>2, EvidenceRuns
    <3>2. CASE d \notin touched
      <4>1. duties'[d] = S[d]
        BY <2>1, <3>2
      <4> HIDE DEF S, touched
      <4> QED BY <1>b, <4>1
    <3> QED BY <3>1, <3>2
  <2>4. duties' = [d \in Duty |-> duties'[d]]
    BY <2>1
  <2> QED BY <1>a, <2>1, <2>3, <2>4, Rescheduled
<1>2. ASSUME NEW l \in Links, NEW decision \in {"accepted", "rejected"},
             DecideEvidence(l[1], l[2], decision)
      PROVE  CasesInv'
  <2> DEFINE d == l[1]
             i == l[2]
             r == [ApplyDecision(S[d], i, decision) EXCEPT
                     !.evidence[i].status = IF IsLive(S[d].evidence[i]) THEN decision ELSE @]
  <2>1. /\ now' = now /\ settleAt' = TimerFor(duties') /\ duties' = [S EXCEPT ![d] = r]
        /\ S[d].evidence[i].decision = "pending"
    BY <1>2 DEF DecideEvidence
  <2>2. d \in Duty /\ i \in DOMAIN S[d].evidence
    BY LinkIs
  <2> HIDE DEF S, d, i
  <2>3. Running(r) /\ InTime(r)
    BY <1>b, <2>1, <2>2, DecidingRuns
  <2> HIDE DEF r
  <2> QED BY <1>c, <2>1, <2>2, <2>3 DEF S
<1>3. ASSUME NEW l \in Links, NEW choice \in {"accept", "veto"},
             RespondToCase(l[1], l[2], choice)
      PROVE  CasesInv'
  <2> DEFINE d == l[1]
             i == l[2]
             r == IF choice = "accept"
                  THEN CarriedBy(Cast(S[d], i, [choice |-> "accept", review |-> "none"]), i)
                  ELSE [Cast(S[d], i, [choice |-> "veto", review |-> "pending"]) EXCEPT
                        !.evidence[i].status = "in_review"]
  <2>1. /\ now' = now /\ settleAt' = TimerFor(duties') /\ duties' = [S EXCEPT ![d] = r]
        /\ MayRespond(S[d].evidence[i], choice)
    BY <1>3 DEF RespondToCase
  <2>2. d \in Duty /\ i \in DOMAIN S[d].evidence
    BY LinkIs
  <2> HIDE DEF S, d, i
  <2>3. Running(r) /\ InTime(r)
    BY <1>b, <2>1, <2>2, RespondingRuns
  <2> HIDE DEF r
  <2> QED BY <1>c, <2>1, <2>2, <2>3 DEF S
<1>4. ASSUME NEW l \in Links, NEW ruling \in {"dismissed", "upheld"},
             ReviewCase(l[1], l[2], ruling)
      PROVE  CasesInv'
  <2> DEFINE d == l[1]
             i == l[2]
             r(v) == IF ruling = "upheld"
                     THEN CloseCase([S[d] EXCEPT !.evidence[i].voters[v].review = "upheld"], i, "rejected")
                     ELSE Dismissed(S[d], i, v)
  <2>1. /\ now' = now /\ settleAt' = TimerFor(duties') /\ S[d].evidence[i].status = "in_review"
        /\ \E v \in Vetoers(S[d].evidence[i]) : duties' = [S EXCEPT ![d] = r(v)]
    BY <1>4 DEF ReviewCase
  <2>2. d \in Duty /\ i \in DOMAIN S[d].evidence
    BY LinkIs
  <2>3. PICK v \in Vetoers(S[d].evidence[i]) : duties' = [S EXCEPT ![d] = r(v)]
    BY <2>1
  <2> HIDE DEF S, d, i
  <2>4. Running(r(v)) /\ InTime(r(v))
    BY <1>a, <1>b, <2>1, <2>2, ReviewingRuns
  <2> HIDE DEF r
  <2> QED BY <1>c, <2>1, <2>2, <2>3, <2>4 DEF S
<1>5. CASE SettleDue
  <2>1. now' = now /\ duties' = S /\ settleAt' = TimerFor(duties')
    BY <1>5 DEF SettleDue
  <2> HIDE DEF S
  <2> QED BY <1>a, <1>b, <2>1, Rescheduled
<1>6. ASSUME NEW m \in Member, NEW d \in Duty, NEW s \in {"open", "pending_deadline"}, CreateDuty(m, d, s)
      PROVE  CasesInv'
  <2> DEFINE r == [status |-> s, owner |-> m, evidence |-> <<>>]
  <2>1. now' = now /\ settleAt' = settleAt /\ duties' = [duties EXCEPT ![d] = r]
    BY <1>6 DEF CreateDuty
  <2>2. Running(r) /\ DOMAIN r.evidence = {}
    BY NoCaseRuns
  <2> HIDE DEF r
  <2>3. duties' = [x \in Duty |-> IF x = d THEN r ELSE duties[x]]
    BY <1>a, <2>1
  <2>4. \A x \in Duty : Running(duties'[x])
    BY <1>a, <2>2, <2>3
  <2>5. OpenIsTimed'
    BY <1>a, <2>1, <2>2, <2>3 DEF OpenIsTimed
  <2>6. duties' = [x \in Duty |-> duties'[x]]
    BY <2>3
  <2> QED BY <1>a, <2>1, <2>4, <2>5, <2>6 DEF CasesInv
<1>7. ASSUME NEW d \in Duty, VoidDuty(d) PROVE CasesInv'
  <2> DEFINE r == [SupersedeAll(S[d]) EXCEPT !.status = "voided"]
  <2>1. now' = now /\ duties' = [S EXCEPT ![d] = [SupersedeAll(@) EXCEPT !.status = "voided"]]
        /\ settleAt' = TimerFor(S)
    BY <1>7 DEF VoidDuty
  <2> HIDE DEF S
  <2>2. duties' = [x \in Duty |-> IF x = d THEN r ELSE S[x]]
    BY <1>b, <2>1
  <2>3. Running(r) /\ \A j \in DOMAIN r.evidence : ~IsLive(r.evidence[j])
    BY <1>b, VoidingRuns
  <2> HIDE DEF r
  <2>4. duties' = [x \in Duty |-> duties'[x]] /\ \A x \in Duty : Running(duties'[x])
    BY <1>b, <2>2, <2>3
  <2>5. \A x \in Duty : \A i \in DOMAIN duties'[x].evidence : duties'[x].evidence[i].status = "open" =>
          settleAt' # NoTimer /\ settleAt' <= duties'[x].evidence[i].closes
    <3> SUFFICES ASSUME NEW x \in Duty, NEW i \in DOMAIN duties'[x].evidence,
                        duties'[x].evidence[i].status = "open"
                 PROVE  settleAt' # NoTimer /\ settleAt' <= duties'[x].evidence[i].closes
      OBVIOUS
    <3>1. duties'[x] = S[x]
      BY <2>2, <2>3 DEF IsLive
    <3> QED BY <1>a, <1>b, <2>1, <3>1, TimerIsInTime
  <2>6. OpenIsTimed'
    BY <2>5 DEF OpenIsTimed
  <2> QED BY <1>a, <2>1, <2>4, <2>6 DEF CasesInv
<1>8. ASSUME NEW m, WithdrawMember(m) PROVE CasesInv'
  <2>0. now' = now /\ settleAt' = settleAt
    BY <1>8 DEF WithdrawMember
  <2>1. CASE duties' = duties
    BY <1>a, <1>d, <2>0, <2>1
  <2>2. CASE duties' = [d \in Duty |-> WithdrawnDuty(duties[d], m)]
    <3>1. ASSUME NEW d \in Duty
          PROVE  /\ Running(duties'[d])
                 /\ duties'[d] = duties[d] \/ \A j \in DOMAIN duties'[d].evidence : ~IsLive(duties'[d].evidence[j])
      <4>1. duties'[d] = WithdrawnDuty(duties[d], m)
        BY <2>2
      <4>2. duties'[d] = duties[d] \/ duties'[d] = [SupersedeAll(duties[d]) EXCEPT !.status = "voided"]
        BY <4>1 DEF WithdrawnDuty
      <4> QED BY <1>a, <4>2, VoidingRuns
    <3>2. OpenIsTimed'
      BY <1>a, <2>0, <3>1 DEF OpenIsTimed, IsLive
    <3>3. duties' = [d \in Duty |-> duties'[d]]
      BY <2>2
    <3> QED BY <1>a, <2>0, <3>1, <3>2, <3>3 DEF CasesInv
  <2> QED BY <1>8, <2>1, <2>2 DEF WithdrawMember
<1>9. ASSUME NEW m, ReleaseMember(m) PROVE CasesInv'
  <2>1. now' = now /\ settleAt' = TimerFor(duties') /\ duties' = [d \in Duty |-> ReleaseBallot(S[d], m)]
    BY <1>9 DEF ReleaseMember
  <2> HIDE DEF S
  <2>2. \A d \in Duty : Running(duties'[d]) /\ InTime(duties'[d])
    <3> SUFFICES ASSUME NEW d \in Duty PROVE Running(duties'[d]) /\ InTime(duties'[d])
      OBVIOUS
    <3>1. duties'[d] = ReleaseBallot(S[d], m)
      BY <2>1
    <3> QED BY <1>a, <1>b, <3>1, ReleasingRuns
  <2>3. duties' = [d \in Duty |-> duties'[d]]
    BY <2>1
  <2> QED BY <1>a, <2>1, <2>2, <2>3, Rescheduled
<1>10. ASSUME NEW m, AddMember(m) \/ ReinstateMember(m) \/ Appoint(m) \/ SetStandIn(m)
       PROVE  CasesInv'
  BY <1>a, <1>d, <1>10 DEF AddMember, ReinstateMember, Appoint, SetStandIn
<1>11. CASE AddAdmin
  BY <1>a, <1>d, <1>11 DEF AddAdmin
<1>12. CASE ClockTicks
  BY <1>a, <1>d, <1>12 DEF ClockTicks
<1>13. CASE UNCHANGED vars
  BY <1>a, <1>d, <1>13 DEF vars
<1>14. CASE TimerFires
  BY <1>5, <1>14 DEF TimerFires
<1> HIDE DEF S
<1> QED BY <1>1, <1>2, <1>3, <1>4, <1>5, <1>6, <1>7, <1>8, <1>9, <1>10, <1>11, <1>12, <1>13, <1>14 DEF Next

\* What is pending is voted on, an open case is undecided and timed, and the lists agree.
LEMMA CasesAgree ==
    ASSUME Names, CasesInv
    PROVE  PendingMeansVoting /\ OpenIsUndecided /\ OpenIsTimed /\ ListsAgree
<1>1. /\ OpenIsTimed
      /\ \A d \in Duty : Running(duties[d])
  BY DEF CasesInv
<1>2. ASSUME NEW d \in Duty
      PROVE  /\ OneLive(duties[d])
             /\ \A i \in DOMAIN duties[d].evidence : Paired(duties[d].evidence[i])
                /\ Ruled(duties[d].evidence[i]) /\ Undecided(duties[d].evidence[i])
                /\ (IsLive(duties[d].evidence[i]) => duties[d].status = "open")
             /\ \A i, j \in DOMAIN duties[d].evidence :
                   IsLive(duties[d].evidence[i]) /\ IsLive(duties[d].evidence[j]) => i = j
  BY <1>1 DEF Running, SoundDuty, OneLive
<1>3. OpenIsUndecided
  BY <1>2 DEF OpenIsUndecided, Undecided
<1>4. PendingMeansVoting
  <2>1. ASSUME NEW d \in Duty
        PROVE  Cardinality({i \in DOMAIN duties[d].evidence : IsLive(duties[d].evidence[i])}) <= 1
    <3> DEFINE L == {i \in DOMAIN duties[d].evidence : IsLive(duties[d].evidence[i])}
    <3>1. L = {} \/ \E i \in L : L = {i}
      BY <1>2
    <3> HIDE DEF L
    <3>2. Cardinality({}) = 0 /\ \A x : Cardinality({x}) = 1
      BY FS_EmptySet, FS_Singleton
    <3>3. Cardinality(L) \in {0, 1}
      BY <3>1, <3>2
    <3> QED BY <3>3 DEF L
  <2> QED BY <1>2, <2>1 DEF PendingMeansVoting, Paired
<1>5. ListsAgree
  <2>1. ASSUME NEW row \in Cases
        PROVE  \E l \in Links : row = CaseRow(l[1], l[2])
    BY DEF Cases
  <2>2. ASSUME NEW d \in Duty, NEW i \in DOMAIN duties[d].evidence
        PROVE  LET row == CaseRow(d, i)
                   e == duties[d].evidence[i]
                   veto == IF e.status = "in_review" THEN Vetoers(e) ELSE {} IN
               /\ row \in Cases /\ row.duty = d /\ row.link = i /\ row.status = e.status
               /\ row.responded = Cardinality({v \in DOMAIN e.voters : e.voters[v].choice # "none"})
               /\ row.canRespond = (OwnBallot(e) /\ e.status = "open" /\ e.voters[me].choice # "veto")
               /\ row.canReview = (\E v \in veto : MayReview(duties[d].owner, v))
               /\ row.needsReviewer = (\E v \in veto : ShowsNeedsReviewer(duties[d].owner, v))
    <3>1. <<d, i>> \in Links
      BY DEF Links
    <3>2. CaseRow(<<d, i>>[1], <<d, i>>[2]) \in Cases
      BY <3>1 DEF Cases
    <3> QED BY <3>2 DEF CaseRow
  <2>3. ASSUME NEW row \in Cases
        PROVE  \E d \in Duty : \E i \in DOMAIN duties[d].evidence : row = CaseRow(d, i)
    BY <2>1, LinkIs
  <2>4. ASSUME NEW d \in ListedDuties
        PROVE  /\ d \in Duty
               /\ Display(duties[d]) = "under_review" <=>
                    \E i \in DOMAIN duties[d].evidence : IsLive(duties[d].evidence[i])
               /\ Display(duties[d]) = "under_review" => LiveDuty(duties[d])
    <3>1. d \in Duty
      BY DEF ListedDuties
    <3>2. duties[d].status # "under_review"
      BY <1>2, <3>1, DutyFields
    <3> QED BY <1>2, <3>1, <3>2 DEF Display, LiveDuty, Paired
  <2>5. ASSUME NEW d \in ListedDuties
        PROVE  Display(duties[d]) = "under_review" <=>
                 \E row \in Cases : row.duty = d /\ row.status \in {"open", "in_review"}
    <3>1. ASSUME NEW i \in DOMAIN duties[d].evidence, IsLive(duties[d].evidence[i])
          PROVE  \E row \in Cases : row.duty = d /\ row.status \in {"open", "in_review"}
      <4>1. /\ CaseRow(d, i) \in Cases /\ CaseRow(d, i).duty = d
            /\ CaseRow(d, i).status = duties[d].evidence[i].status
        BY <2>2, <2>4
      <4> QED BY <3>1, <4>1 DEF IsLive
    <3>2. ASSUME NEW row \in Cases, row.duty = d, row.status \in {"open", "in_review"}
          PROVE  \E i \in DOMAIN duties[d].evidence : IsLive(duties[d].evidence[i])
      <4>1. PICK x \in Duty : \E i \in DOMAIN duties[x].evidence : row = CaseRow(x, i)
        BY <2>3
      <4>a. PICK i \in DOMAIN duties[x].evidence : row = CaseRow(x, i)
        BY <4>1
      <4>2. row.duty = x /\ row.status = duties[x].evidence[i].status
        BY <2>2, <4>1, <4>a
      <4> QED BY <3>2, <4>2 DEF IsLive
    <3> QED BY <2>4, <3>1, <3>2
  <2>6. ASSUME NEW d \in ListedDuties, Display(duties[d]) = "under_review"
        PROVE  OpenDuties(duties[d].owner) > 0
    <3> DEFINE D == {x \in ListedDuties : duties[x].owner = duties[d].owner /\ LiveDuty(duties[x])}
    <3>1. d \in D
      BY <2>4, <2>6
    <3>2. D \in SUBSET Duty /\ IsFiniteSet(Duty)
      BY DEF ListedDuties, Names
    <3> HIDE DEF D
    <3>3. IsFiniteSet(D)
      BY <3>2, FS_Subset
    <3>4. Cardinality(D) \in Nat /\ Cardinality(D) # 0
      BY <3>1, <3>3, FS_EmptySet, FS_CardinalityType
    <3> QED BY <3>4 DEF OpenDuties, D
  <2>7. ASSUME NEW d \in Duty, NEW i \in DOMAIN duties[d].evidence
        PROVE  LET row == CaseRow(d, i)
                   e == duties[d].evidence[i] IN
               /\ row.canRespond <=> \E choice \in {"accept", "veto"} : MayRespond(e, choice)
               /\ row.status = "in_review" => row.responded > 0
               /\ row.needsReviewer =>
                     /\ \A v \in Vetoers(e) : NeedsReviewer(duties[d].owner, v)
                     /\ me # NoName => ~row.canReview
    <3> DEFINE e == duties[d].evidence[i]
               row == CaseRow(d, i)
               veto == IF e.status = "in_review" THEN Vetoers(e) ELSE {}
    <3>1. /\ row.status = e.status
          /\ row.responded = Cardinality({v \in DOMAIN e.voters : e.voters[v].choice # "none"})
          /\ row.canRespond = (OwnBallot(e) /\ e.status = "open" /\ e.voters[me].choice # "veto")
          /\ row.canReview = (\E v \in veto : MayReview(duties[d].owner, v))
          /\ row.needsReviewer = (\E v \in veto : ShowsNeedsReviewer(duties[d].owner, v))
      BY <2>2
    <3>2. e \in Link /\ Paired(e) /\ Ruled(e)
      BY <1>2, DutyFields
    <3> HIDE DEF e, row
    <3>3. row.canRespond <=> \E choice \in {"accept", "veto"} : MayRespond(e, choice)
      BY <3>1 DEF MayRespond
    <3>4. row.status = "in_review" => row.responded > 0
      <4> SUFFICES ASSUME e.status = "in_review" PROVE row.responded > 0
        BY <3>1
      <4> DEFINE R == {v \in DOMAIN e.voters : e.voters[v].choice # "none"}
      <4>1. PICK v \in DOMAIN e.voters : e.voters[v].review = "pending"
        BY <3>2 DEF Ruled, Vetoers
      <4>2. v \in R
        BY <3>2, <4>1 DEF Paired
      <4>3. R \in SUBSET Member /\ IsFiniteSet(Member)
        BY <3>2, CaseFields DEF Names
      <4> HIDE DEF R
      <4>4. IsFiniteSet(R)
        BY <4>3, FS_Subset
      <4>5. Cardinality(R) \in Nat /\ Cardinality(R) # 0
        BY <4>2, <4>4, FS_EmptySet, FS_CardinalityType
      <4> QED BY <3>1, <4>5 DEF R
    <3>5. ASSUME row.needsReviewer
          PROVE  /\ \A v \in Vetoers(e) : NeedsReviewer(duties[d].owner, v)
                 /\ me # NoName => ~row.canReview
      <4>1. PICK v \in veto : ShowsNeedsReviewer(duties[d].owner, v)
        BY <3>1, <3>5
      <4>2. e.status = "in_review" /\ v \in Vetoers(e)
        BY <4>1
      <4>3. Vetoers(e) = {v}
        BY <3>2, <4>2 DEF Ruled
      <4>4. CASE me = NoName
        BY <4>1, <4>3, <4>4 DEF ShowsNeedsReviewer
      <4>5. CASE me # NoName
        <5>1. captain = me /\ duties[d].owner = me /\ standIn = NoName
          BY <4>1, <4>5 DEF ShowsNeedsReviewer
        <5>2. \A x : NeedsReviewer(duties[d].owner, x)
          BY <5>1 DEF NeedsReviewer, Involved
        <5>3. \A x : ~MayReview(duties[d].owner, x)
          BY <4>5, <5>1 DEF MayReview
        <5> QED BY <3>1, <5>2, <5>3
      <4> QED BY <4>4, <4>5
    <3> QED BY <3>3, <3>4, <3>5 DEF e, row
  <2>8. ASSUME NEW row \in Cases
        PROVE  LET e == duties[row.duty].evidence[row.link] IN
               /\ row.canRespond <=> \E choice \in {"accept", "veto"} : MayRespond(e, choice)
               /\ row.status = "in_review" => row.responded > 0
               /\ row.needsReviewer =>
                     /\ \A v \in Vetoers(e) : NeedsReviewer(duties[row.duty].owner, v)
                     /\ me # NoName => ~row.canReview
    <3>1. PICK d \in Duty : \E i \in DOMAIN duties[d].evidence : row = CaseRow(d, i)
      BY <2>3
    <3>a. PICK i \in DOMAIN duties[d].evidence : row = CaseRow(d, i)
      BY <3>1
    <3>2. row.duty = d /\ row.link = i
      BY <2>2, <3>a
    <3> QED BY <2>7, <3>a, <3>2
  <2> QED BY <2>5, <2>6, <2>8 DEF ListsAgree
<1> QED BY <1>1, <1>3, <1>4, <1>5
===============================================================================
