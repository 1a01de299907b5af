----------------------- MODULE CaseTransactions_proofs -----------------------
(***************************************************************************)
(* Proofs about the evidence cases, for every league, every number of      *)
(* duties and every length of the voting window.                           *)
(*                                                                         *)
(* Part 1 is about EvidenceCases, where a request is one step.  Every      *)
(* request takes each duty one DutyStep at most.  The lemmas show that for *)
(* the operators the requests are built from, the step lemma for each      *)
(* request, and the theorems follow from it.                               *)
(*                                                                         *)
(* Part 2 is about CaseTransactions, for any number of concurrent          *)
(* requests.  The request that holds a duty's lock works on a copy of the  *)
(* committed duty.  The invariant says how far the copy may be ahead: by   *)
(* one step of DutyLedger at most, and by the settling of its due case     *)
(* alone until the request does its own work.  Nobody else changes the     *)
(* duty meanwhile, so the commit takes it the same one step.               *)
(***************************************************************************)
EXTENDS CaseTransactions, TLAPS, SequenceTheorems, FiniteSetTheorems

-----------------------------------------------------------------------------
\* Part 1: a request is one step.

\* Evidence is never dated after its submission.
Dated(d) ==
    \A i \in DOMAIN d.evidence :
        EffectiveCompletion(d, d.evidence[i]) <= d.evidence[i].submittedAt

\* The inductive invariant of one duty: the checked invariants, with the dates and the
\* duties not yet created.
DutyInv(d) ==
    /\ Decidable(d)
    /\ NewestLive(d)
    /\ Completion(d)
    /\ Dated(d)
    /\ d.status = "none" => d = NoDuty

\* What has been decided stays as it is.
Frozen(d, e) ==
    /\ d.status \in {"completed", "voided"} =>
          e.status = d.status /\ e.completedAt = d.completedAt
    /\ \A i \in DOMAIN d.evidence :
          d.evidence[i].status \notin LIVE => i \in DOMAIN e.evidence /\ e.evidence[i] = d.evidence[i]

\* A request may take the duty d to e.
DutyStep(d, e) ==
    /\ e \in DutyRecord /\ DutyInv(e)
    /\ Frozen(d, e)
    /\ LedgerOf(e) = LedgerOf(d) \/ Ledger!EntryStep(LedgerOf(d), LedgerOf(e))

\* e is d with another i-th case: nothing else of the evidence changes.
OnlyCase(d, e, i) ==
    /\ e \in DutyRecord
    /\ e.subject = d.subject
    /\ DOMAIN e.evidence = DOMAIN d.evidence
    /\ Len(e.evidence) = Len(d.evidence)
    /\ i \in DOMAIN d.evidence
    /\ \A j \in DOMAIN d.evidence : j # i => e.evidence[j] = d.evidence[j]
    /\ e.evidence[i].submitter = d.evidence[i].submitter
    /\ e.evidence[i].submittedAt = d.evidence[i].submittedAt
    /\ e.evidence[i].claimedAt = d.evidence[i].claimedAt

-----------------------------------------------------------------------------
(* A duty and its evidence as data.                                        *)

LEMMA EvidenceIsSeq ==
    ASSUME NEW d \in DutyRecord
    PROVE  /\ d.evidence \in Seq(Case)
           /\ Len(d.evidence) \in Nat
           /\ DOMAIN d.evidence = 1 .. Len(d.evidence)
           /\ \A i \in DOMAIN d.evidence : d.evidence[i] \in Case
BY DEF DutyRecord

LEMMA SeqOfFunction ==
    ASSUME NEW n \in Nat, NEW S, NEW f \in [1 .. n -> S]
    PROVE  f \in Seq(S) /\ Len(f) = n /\ DOMAIN f = 1 .. n
OBVIOUS

LEMMA AppendAsFunction ==
    ASSUME NEW S, NEW f \in Seq(S), NEW x
    PROVE  /\ Append(f, x) \in [1 .. Len(f)+1 -> S \union {x}]
           /\ \A j \in 1 .. Len(f)+1 : Append(f, x)[j] = IF j = Len(f)+1 THEN x ELSE f[j]
<1>2. f \in Seq(S \union {x})
  OBVIOUS
<1>3. /\ Append(f, x) \in Seq(S \union {x}) /\ Len(Append(f, x)) = Len(f) + 1
      /\ \A j \in 1 .. Len(f) : Append(f, x)[j] = f[j]
      /\ Append(f, x)[Len(f)+1] = x
  BY <1>2, AppendProperties
<1> DEFINE a == Append(f, x)
<1>4. a \in [1 .. Len(f)+1 -> S \union {x}]
  BY <1>3, LenProperties
<1>5. \A j \in 1 .. Len(f)+1 : a[j] = IF j = Len(f)+1 THEN x ELSE f[j]
  BY <1>3
<1> HIDE DEF a
<1> QED BY <1>4, <1>5 DEF a

\* The duty d with k for its i-th case, another status and another completion.
Updated(d, s, t, i, k) == [d EXCEPT !.status = s, !.completedAt = t, !.evidence[i] = k]

LEMMA ReplaceCase ==
    ASSUME NEW d \in DutyRecord, NEW i \in DOMAIN d.evidence, NEW k \in Case,
           NEW s \in DutyStatus, NEW t \in Time \union {Never},
           k.submitter = d.evidence[i].submitter,
           k.submittedAt = d.evidence[i].submittedAt,
           k.claimedAt = d.evidence[i].claimedAt
    PROVE  LET e == Updated(d, s, t, i, k) IN
           /\ OnlyCase(d, e, i)
           /\ e.status = s /\ e.completedAt = t /\ e.evidence[i] = k
<1> DEFINE e == Updated(d, s, t, i, k)
<1>1. [d.evidence EXCEPT ![i] = k] \in Seq(Case)
  BY EvidenceIsSeq
<1>2. e.evidence = [d.evidence EXCEPT ![i] = k]
  BY DEF DutyRecord, Updated
<1>3. e \in DutyRecord /\ e.status = s /\ e.completedAt = t /\ e.subject = d.subject
  BY <1>1 DEF DutyRecord, Updated
<1> HIDE DEF e
<1> QED BY <1>1, <1>2, <1>3, EvidenceIsSeq DEF OnlyCase, e

LEMMA PendingIsNewest ==
    ASSUME NEW d \in DutyRecord, DutyInv(d), NEW i \in DOMAIN d.evidence
    PROVE  d.evidence[i].link = "pending" <=> d.evidence[i].status \in LIVE
BY EvidenceIsSeq DEF DutyInv, Decidable, Case, CaseStatus, LIVE

-----------------------------------------------------------------------------
(* The kinds of step.                                                      *)

\* A vote, a veto, a dismissal or a withdrawn ballot decides nothing.
LEMMA TouchStep ==
    ASSUME NEW d \in DutyRecord, NEW e, NEW i, DutyInv(d), OnlyCase(d, e, i),
           e.status = d.status, e.completedAt = d.completedAt,
           e.evidence[i].link = d.evidence[i].link,
           d.evidence[i].status \in LIVE, e.evidence[i].status \in LIVE
    PROVE  DutyStep(d, e) /\ LedgerOf(e) = LedgerOf(d)
<1>1. /\ Decidable(e) /\ NewestLive(e)
  BY EvidenceIsSeq DEF OnlyCase, DutyInv, Decidable, NewestLive
<1>2. \A j \in DOMAIN d.evidence :
          /\ e.evidence[j].link = d.evidence[j].link
          /\ e.evidence[j].submittedAt = d.evidence[j].submittedAt
          /\ EffectiveCompletion(e, e.evidence[j]) = EffectiveCompletion(d, d.evidence[j])
  BY DEF OnlyCase, EffectiveCompletion
<1>3. Completion(e) /\ Dated(e)
  BY <1>2 DEF OnlyCase, DutyInv, Completion, Dated
<1>4. e.status # "none"
  BY DEF DutyInv, OnlyCase, NoDuty
<1>5. LedgerOf(e) = LedgerOf(d)
  BY <1>2 DEF LedgerOf, OnlyCase
<1>6. Frozen(d, e)
  BY DEF Frozen, OnlyCase
<1> QED BY <1>1, <1>3, <1>4, <1>5, <1>6 DEF DutyStep, DutyInv, OnlyCase

\* The ledger entry l once its pending evidence is decided.
Decided(l, decision) ==
    [ phase |-> IF decision = "accepted" THEN "completed" ELSE "live",
      decisions |-> Ledger!Settle(l.decisions, decision) ]

\* A piece of evidence is accepted or rejected: DutyLedger!Decide.
LEMMA DecideStep ==
    ASSUME NEW d \in DutyRecord, NEW e, NEW i, DutyInv(d), OnlyCase(d, e, i),
           NEW decision \in {"accepted", "rejected"},
           d.status = "open", d.evidence[i].link = "pending",
           e.status = IF decision = "accepted" THEN "completed" ELSE "open",
           e.completedAt = IF decision = "accepted"
                           THEN EffectiveCompletion(d, d.evidence[i]) ELSE d.completedAt,
           e.evidence[i].link = decision, e.evidence[i].status = decision
    PROVE  /\ DutyStep(d, e)
           /\ LedgerOf(e) = Decided(LedgerOf(d), decision)
<1>1. i = Len(d.evidence) /\ d.evidence[i].status \in LIVE
  BY PendingIsNewest DEF DutyInv, NewestLive, OnlyCase
<1>2. \A j \in DOMAIN d.evidence : j # i => e.evidence[j].status \notin LIVE
  BY <1>1 DEF DutyInv, NewestLive, OnlyCase
<1>3. Decidable(e) /\ NewestLive(e)
  BY <1>1, <1>2 DEF OnlyCase, DutyInv, Decidable, NewestLive, LIVE
<1>4. \A j \in DOMAIN d.evidence :
          /\ e.evidence[j].submittedAt = d.evidence[j].submittedAt
          /\ EffectiveCompletion(e, e.evidence[j]) = EffectiveCompletion(d, d.evidence[j])
  BY DEF OnlyCase, EffectiveCompletion
<1>5. \A j \in DOMAIN d.evidence : d.evidence[j].link # "accepted"
  BY DEF DutyInv, Completion
<1>6. Completion(e) /\ Dated(e)
  BY <1>4, <1>5 DEF OnlyCase, DutyInv, Completion, Dated
<1>7. Frozen(d, e)
  BY <1>1 DEF Frozen, OnlyCase, LIVE
<1>8. Ledger!EntryStep(LedgerOf(d), LedgerOf(e)) /\ LedgerOf(e) = Decided(LedgerOf(d), decision)
  <2>1. \A j \in DOMAIN d.evidence : j # i => d.evidence[j].link # "pending"
    BY <1>1, PendingIsNewest DEF DutyInv, NewestLive
  <2>2. LedgerOf(e).decisions = Ledger!Settle(LedgerOf(d).decisions, decision)
    BY <2>1 DEF LedgerOf, Ledger!Settle, OnlyCase
  <2>3. LedgerOf(e) = Decided(LedgerOf(d), decision)
    BY <2>2 DEF LedgerOf, Decided
  <2>4. LedgerOf(d).phase = "live" /\ Ledger!HasPending(LedgerOf(d).decisions)
    BY DEF LedgerOf, Ledger!HasPending, OnlyCase
  <2> QED BY <2>3, <2>4 DEF Ledger!EntryStep, Ledger!Decide, Decided
<1> QED BY <1>3, <1>6, <1>7, <1>8 DEF DutyStep, DutyInv, OnlyCase

-----------------------------------------------------------------------------
(* What the operators of EvidenceCases do.                                 *)

\* Superseding the pending evidence leaves a duty with none of it as it is.
LEMMA SupersedeNothing ==
    ASSUME NEW d \in DutyRecord, NEW keep,
           \A j \in DOMAIN d.evidence : j # keep => d.evidence[j].link # "pending"
    PROVE  SupersedePending(d, keep) = d
<1>1. [i \in DOMAIN d.evidence |->
        IF i # keep /\ d.evidence[i].link = "pending"
        THEN SupersedeCase([d.evidence[i] EXCEPT !.link = "superseded"])
        ELSE d.evidence[i]] = d.evidence
  <2>1. d.evidence = [i \in DOMAIN d.evidence |-> d.evidence[i]]
    BY EvidenceIsSeq
  <2> QED BY <2>1, Zenon
<1> QED BY <1>1 DEF SupersedePending, DutyRecord

\* The case k once it is closed by a decision.
ClosedCase(k, decision, r, at) ==
    [k EXCEPT !.link = decision, !.status = decision, !.resolution = r, !.resolvedAt = at]

\* A decision on the pending evidence, however its case records it, changes that case and the
\* duty's own row.
LEMMA DecisionResult ==
    ASSUME NEW d \in DutyRecord, DutyInv(d), NEW i \in DOMAIN d.evidence,
           NEW decision \in {"accepted", "rejected"}, NEW r \in Resolution, NEW at \in Int,
           d.status = "open", d.evidence[i].link = "pending"
    PROVE  LET e == CloseCase(ApplyDecision(d, i, decision), i, decision, r, at) IN
           /\ OnlyCase(d, e, i)
           /\ e.status = IF decision = "accepted" THEN "completed" ELSE "open"
           /\ e.completedAt = IF decision = "accepted"
                              THEN EffectiveCompletion(d, d.evidence[i]) ELSE d.completedAt
           /\ e.evidence[i] = ClosedCase(d.evidence[i], decision, r, at)
           /\ e.evidence[i].link = decision /\ e.evidence[i].status = decision
<1> DEFINE k == [d.evidence[i] EXCEPT !.link = decision, !.status = decision,
                                      !.resolution = r, !.resolvedAt = at]
           t == IF decision = "accepted" THEN EffectiveCompletion(d, d.evidence[i])
                ELSE d.completedAt
           s == IF decision = "accepted" THEN "completed" ELSE "open"
           e == Updated(d, s, t, i, k)
<1>1. d.evidence[i] \in Case /\ d.completedAt \in Time \union {Never}
  BY EvidenceIsSeq DEF DutyRecord
<1>2. k \in Case /\ k.submitter = d.evidence[i].submitter
        /\ k.submittedAt = d.evidence[i].submittedAt /\ k.claimedAt = d.evidence[i].claimedAt
        /\ k.link = decision /\ k.status = decision
  BY <1>1 DEF Case, CaseStatus
<1>3. t \in Time \union {Never} /\ s \in DutyStatus
  BY <1>1 DEF EffectiveCompletion, Case, DutyStatus
<1>4. CloseCase(ApplyDecision(d, i, decision), i, decision, r, at) = e
  <2> DEFINE c == [d EXCEPT !.status = s, !.completedAt = t,
                            !.evidence[i] = [@ EXCEPT !.link = decision]]
  <2>1. ApplyDecision(d, i, decision) = c
    <3>1. CASE decision = "rejected"
      BY <3>1 DEF ApplyDecision, DutyRecord
    <3>2. CASE decision = "accepted"
      <4>1. c = [[d EXCEPT !.evidence[i].link = decision] EXCEPT
                    !.status = "completed", !.completedAt = EffectiveCompletion(d, d.evidence[i])]
        BY <3>2 DEF DutyRecord
      <4>2. [d.evidence[i] EXCEPT !.link = decision] \in Case
        BY <1>1 DEF Case
      <4>3. c \in DutyRecord /\ DOMAIN c.evidence = DOMAIN d.evidence
              /\ \A j \in DOMAIN d.evidence : j # i => c.evidence[j] = d.evidence[j]
        <5>1. [d.evidence EXCEPT ![i] = [@ EXCEPT !.link = decision]] \in Seq(Case)
          BY <4>2, EvidenceIsSeq
        <5>2. c.evidence = [d.evidence EXCEPT ![i] = [@ EXCEPT !.link = decision]]
          BY DEF DutyRecord
        <5>3. c \in DutyRecord
          BY <1>3, <5>1 DEF DutyRecord
        <5> QED BY <5>1, <5>2, <5>3, EvidenceIsSeq
      <4>4. \A j \in DOMAIN d.evidence : j # i => d.evidence[j].link # "pending"
        BY PendingIsNewest DEF DutyInv, NewestLive
      <4>5. SupersedePending(c, i) = c
        <5> HIDE DEF c
        <5> QED BY <4>3, <4>4, SupersedeNothing
      <4> QED BY <3>2, <4>1, <4>5 DEF ApplyDecision
    <3> QED BY <3>1, <3>2
  <2>2. CloseCase(c, i, decision, r, at) = e
    <3>1. c.evidence = [d.evidence EXCEPT ![i] = [@ EXCEPT !.link = decision]]
      BY DEF DutyRecord
    <3>2. c.evidence[i] = [d.evidence[i] EXCEPT !.link = decision]
      BY <3>1
    <3>3. [c.evidence[i] EXCEPT !.status = decision, !.resolution = r, !.resolvedAt = at] = k
      BY <3>2, <1>1 DEF Case
    <3>4. [c.evidence EXCEPT ![i] = k] = [d.evidence EXCEPT ![i] = k]
      BY <3>1, EvidenceIsSeq
    <3>5. CloseCase(c, i, decision, r, at) = [c EXCEPT !.evidence = [c.evidence EXCEPT ![i] = k]]
      BY <3>1, <3>3, EvidenceIsSeq DEF CloseCase
    <3> QED BY <3>4, <3>5 DEF DutyRecord, Updated
  <2> QED BY <2>1, <2>2
<1>5. OnlyCase(d, e, i) /\ e.status = s /\ e.completedAt = t /\ e.evidence[i] = k
  <2> HIDE DEF k, t, s
  <2> QED BY <1>2, <1>3, ReplaceCase
<1>6. k = ClosedCase(d.evidence[i], decision, r, at)
  BY DEF ClosedCase
<1>7. k.link = decision /\ k.status = decision
  BY <1>2
<1> HIDE DEF e, k
<1> QED BY <1>4, <1>5, <1>6, <1>7

LEMMA ApplyDecisionStep ==
    ASSUME NEW d \in DutyRecord, DutyInv(d), NEW i \in DOMAIN d.evidence,
           NEW decision \in {"accepted", "rejected"}, NEW r \in Resolution, NEW at \in Int,
           d.status = "open", d.evidence[i].link = "pending"
    PROVE  LET e == CloseCase(ApplyDecision(d, i, decision), i, decision, r, at) IN
           /\ DutyStep(d, e)
           /\ LedgerOf(e) = Decided(LedgerOf(d), decision)
           /\ e.status = IF decision = "accepted" THEN "completed" ELSE "open"
<1> DEFINE e == CloseCase(ApplyDecision(d, i, decision), i, decision, r, at)
<1>1. /\ OnlyCase(d, e, i)
      /\ e.status = IF decision = "accepted" THEN "completed" ELSE "open"
      /\ e.completedAt = IF decision = "accepted"
                         THEN EffectiveCompletion(d, d.evidence[i]) ELSE d.completedAt
      /\ e.evidence[i].link = decision /\ e.evidence[i].status = decision
  BY DecisionResult
<1> HIDE DEF e
<1>2. DutyStep(d, e) /\ LedgerOf(e) = Decided(LedgerOf(d), decision)
  BY <1>1, DecideStep
<1> QED BY <1>1, <1>2 DEF e

LEMMA CloseStep ==
    ASSUME NEW d \in DutyRecord, DutyInv(d), NEW i \in DOMAIN d.evidence,
           NEW decision \in {"accepted", "rejected"}, NEW r \in Resolution, NEW at \in Int,
           d.evidence[i].status \in LIVE
    PROVE  /\ DutyStep(d, Close(d, i, decision, r, at))
           /\ decision = "accepted" => Close(d, i, decision, r, at).status = "completed"
<1>1. d.status = "open" /\ d.evidence[i].link = "pending"
  BY DEF DutyInv, Decidable
<1> QED BY <1>1, ApplyDecisionStep DEF Close

LEMMA Stutter ==
    ASSUME NEW d \in DutyRecord, DutyInv(d)
    PROVE  DutyStep(d, d)
BY DEF DutyStep, Frozen

LEMMA SettleStep ==
    ASSUME NEW d \in DutyRecord, DutyInv(d)
    PROVE  /\ DutyStep(d, SettleIfDue(d))
           /\ SettleIfDue(d) = d \/ SettleIfDue(d).status = "completed"
<1>1. CASE Due(d) = {}
  BY <1>1, Stutter DEF SettleIfDue
<1>2. CASE Due(d) # {}
  <2> DEFINE i == CHOOSE j \in Due(d) : TRUE
  <2>1. i \in Due(d)
    BY <1>2
  <2> HIDE DEF i
  <2>2. i \in DOMAIN d.evidence /\ d.evidence[i].status \in LIVE
    BY <2>1 DEF Due, LIVE
  <2>3. ClosesAt(d.evidence[i]) \in Int
    BY <2>2, EvidenceIsSeq, BoundsAreNatural DEF ClosesAt, Case, Time
  <2>4. "auto" \in Resolution
    BY DEF Resolution
  <2>5. DutyStep(d, Close(d, i, "accepted", "auto", ClosesAt(d.evidence[i])))
        /\ Close(d, i, "accepted", "auto", ClosesAt(d.evidence[i])).status = "completed"
    BY <2>2, <2>3, <2>4, CloseStep
  <2> QED BY <1>2, <2>5 DEF SettleIfDue, i
<1> QED BY <1>1, <1>2

\* The duty d with k for its i-th case.
Touched(d, i, k) == [d EXCEPT !.evidence[i] = k]

LEMMA TouchedStep ==
    ASSUME NEW d \in DutyRecord, DutyInv(d), NEW i \in DOMAIN d.evidence, NEW k \in Case,
           d.evidence[i].status \in LIVE, k.status \in LIVE,
           k.link = d.evidence[i].link, k.submitter = d.evidence[i].submitter,
           k.submittedAt = d.evidence[i].submittedAt, k.claimedAt = d.evidence[i].claimedAt
    PROVE  LET e == Touched(d, i, k) IN
           /\ DutyStep(d, e) /\ LedgerOf(e) = LedgerOf(d)
           /\ DOMAIN e.evidence = DOMAIN d.evidence /\ e.evidence[i] = k
<1>1. Touched(d, i, k) = Updated(d, d.status, d.completedAt, i, k)
  BY DEF Touched, Updated, DutyRecord
<1>2. d.status \in DutyStatus /\ d.completedAt \in Time \union {Never}
  BY DEF DutyRecord
<1> DEFINE e == Touched(d, i, k)
<1> HIDE DEF e
<1>3. OnlyCase(d, e, i) /\ e.status = d.status /\ e.completedAt = d.completedAt /\ e.evidence[i] = k
  BY <1>1, <1>2, ReplaceCase DEF e
<1>4. DutyStep(d, e) /\ LedgerOf(e) = LedgerOf(d)
  BY <1>3, TouchStep
<1> QED BY <1>3, <1>4 DEF OnlyCase, e

\* A step that decides nothing, then one that may.
LEMMA TouchThen ==
    ASSUME NEW d, NEW e, NEW f,
           DutyStep(d, e), LedgerOf(e) = LedgerOf(d), DutyStep(e, f), d.status = "open"
    PROVE  DutyStep(d, f)
<1>1. Frozen(d, f)
  BY DEF DutyStep, Frozen
<1> QED BY <1>1 DEF DutyStep

\* The case k once newer evidence or a void has superseded it.
SupersededCase(k) == [k EXCEPT !.link = "superseded", !.status = "superseded", !.resolvedAt = now]

\* Superseding all the pending evidence of a duty.
LEMMA SupersedeAll ==
    ASSUME NEW d \in DutyRecord, DutyInv(d), now \in Time
    PROVE  LET e == SupersedePending(d, 0) IN
           /\ e \in DutyRecord
           /\ e.status = d.status /\ e.subject = d.subject /\ e.completedAt = d.completedAt
           /\ DOMAIN e.evidence = DOMAIN d.evidence /\ Len(e.evidence) = Len(d.evidence)
           /\ \A i \in DOMAIN d.evidence :
                 IF d.evidence[i].status \in LIVE
                 THEN /\ e.evidence[i].link = "superseded" /\ e.evidence[i].status = "superseded"
                      /\ e.evidence[i].submitter = d.evidence[i].submitter
                      /\ e.evidence[i].submittedAt = d.evidence[i].submittedAt
                      /\ e.evidence[i].claimedAt = d.evidence[i].claimedAt
                      /\ e.evidence[i] = SupersededCase(d.evidence[i])
                 ELSE e.evidence[i] = d.evidence[i]
           /\ LedgerOf(e).decisions = Ledger!Settle(LedgerOf(d).decisions, "superseded")
<1> DEFINE g == [i \in DOMAIN d.evidence |->
        IF i # 0 /\ d.evidence[i].link = "pending"
        THEN SupersedeCase([d.evidence[i] EXCEPT !.link = "superseded"])
        ELSE d.evidence[i]]
           e == [d EXCEPT !.evidence = g]
<1>1. SupersedePending(d, 0) = e
  BY DEF SupersedePending
<1>2. DOMAIN g = DOMAIN d.evidence /\ \A i \in DOMAIN g : i # 0
  BY EvidenceIsSeq
<1>3. \A i \in DOMAIN d.evidence :
          IF d.evidence[i].status \in LIVE
          THEN g[i] = [d.evidence[i] EXCEPT !.link = "superseded", !.status = "superseded",
                                            !.resolvedAt = now]
          ELSE g[i] = d.evidence[i]
  <2> SUFFICES ASSUME NEW i \in DOMAIN d.evidence
               PROVE  IF d.evidence[i].status \in LIVE
                      THEN g[i] = [d.evidence[i] EXCEPT !.link = "superseded",
                                        !.status = "superseded", !.resolvedAt = now]
                      ELSE g[i] = d.evidence[i]
    OBVIOUS
  <2>1. d.evidence[i] \in Case /\ i # 0
    BY EvidenceIsSeq
  <2>2. d.evidence[i].link = "pending" <=> d.evidence[i].status \in LIVE
    BY PendingIsNewest
  <2>3. CASE d.evidence[i].status \in LIVE
    BY <2>1, <2>2, <2>3 DEF SupersedeCase, Case
  <2>4. CASE d.evidence[i].status \notin LIVE
    BY <2>2, <2>4
  <2> QED BY <2>3, <2>4
<1>4. now \in Int
  BY BoundsAreNatural DEF Time
<1> HIDE DEF g
<1>5. \A i \in DOMAIN g : g[i] \in Case
  <2> SUFFICES ASSUME NEW i \in DOMAIN d.evidence PROVE g[i] \in Case
    BY <1>2
  <2>1. d.evidence[i] \in Case
    BY EvidenceIsSeq
  <2>2. [d.evidence[i] EXCEPT !.link = "superseded", !.status = "superseded",
                              !.resolvedAt = now] \in Case
    BY <2>1, <1>4 DEF Case, CaseStatus
  <2> QED BY <1>3, <2>1, <2>2
<1>6. g = [i \in DOMAIN d.evidence |-> g[i]]
  BY DEF g
<1>7. g \in Seq(Case) /\ Len(g) = Len(d.evidence)
  <2>1. Len(d.evidence) \in Nat /\ DOMAIN d.evidence = 1 .. Len(d.evidence)
    BY EvidenceIsSeq
  <2>2. g \in [1 .. Len(d.evidence) -> Case]
    BY <2>1, <1>2, <1>5, <1>6
  <2> QED BY <2>1, <2>2
<1>8. /\ e \in DutyRecord /\ e.evidence = g
      /\ e.status = d.status /\ e.subject = d.subject /\ e.completedAt = d.completedAt
  BY <1>7 DEF DutyRecord
<1> HIDE DEF e
<1>9. \A i \in DOMAIN d.evidence :
          IF d.evidence[i].status \in LIVE
          THEN /\ e.evidence[i].link = "superseded" /\ e.evidence[i].status = "superseded"
               /\ e.evidence[i].submitter = d.evidence[i].submitter
               /\ e.evidence[i].submittedAt = d.evidence[i].submittedAt
               /\ e.evidence[i].claimedAt = d.evidence[i].claimedAt
               /\ e.evidence[i] = SupersededCase(d.evidence[i])
          ELSE e.evidence[i] = d.evidence[i]
  <2> SUFFICES ASSUME NEW i \in DOMAIN d.evidence, d.evidence[i].status \in LIVE
               PROVE  /\ g[i].link = "superseded" /\ g[i].status = "superseded"
                      /\ g[i].submitter = d.evidence[i].submitter
                      /\ g[i].submittedAt = d.evidence[i].submittedAt
                      /\ g[i].claimedAt = d.evidence[i].claimedAt
    BY <1>3, <1>8 DEF SupersededCase
  <2>1. PICK k \in Case : k = d.evidence[i]
    BY EvidenceIsSeq
  <2>2. g[i] = [k EXCEPT !.link = "superseded", !.status = "superseded", !.resolvedAt = now]
    BY <1>3, <2>1
  <2> HIDE DEF g
  <2> QED BY <2>1, <2>2 DEF Case
<1>10. LedgerOf(e).decisions = Ledger!Settle(LedgerOf(d).decisions, "superseded")
  BY <1>2, <1>8, <1>9, PendingIsNewest DEF LedgerOf, Ledger!Settle
<1> QED BY <1>1, <1>2, <1>7, <1>8, <1>9, <1>10

LEMMA VoidStep ==
    ASSUME NEW d \in DutyRecord, DutyInv(d), d.status = "open", now \in Time
    PROVE  DutyStep(d, VoidDutyRow(d))
<1> DEFINE e == SupersedePending(d, 0)
           f == [e EXCEPT !.status = "voided"]
<1>1. VoidDutyRow(d) = f
  BY DEF VoidDutyRow, SupersedePending, DutyRecord
<1> HIDE DEF e
<1>2. e \in DutyRecord
  BY SupersedeAll DEF e
<1>3. f \in DutyRecord /\ f.status = "voided" /\ f.evidence = e.evidence
        /\ f.subject = e.subject /\ f.completedAt = e.completedAt
  BY <1>2 DEF DutyRecord, DutyStatus
<1> HIDE DEF f
<1>4. \A i \in DOMAIN d.evidence :
          /\ f.evidence[i].status \notin LIVE
          /\ f.evidence[i].link = f.evidence[i].status
          /\ f.evidence[i].link # "accepted"
          /\ EffectiveCompletion(f, f.evidence[i]) <= f.evidence[i].submittedAt
          /\ d.evidence[i].status \notin LIVE => f.evidence[i] = d.evidence[i]
  BY <1>3, SupersedeAll
     DEF e, DutyInv, Decidable, Completion, Dated, EffectiveCompletion, LIVE
<1>5. DOMAIN f.evidence = DOMAIN d.evidence
  BY <1>3, SupersedeAll DEF e
<1>6. DutyInv(f)
  BY <1>3, <1>4, <1>5 DEF DutyInv, Decidable, NewestLive, Completion, Dated
<1>7. Frozen(d, f)
  BY <1>4, <1>5 DEF Frozen
<1>8. Ledger!Void(LedgerOf(d), LedgerOf(f))
  <2>1. LedgerOf(f) = [phase |-> "voided", decisions |-> LedgerOf(e).decisions]
    BY <1>3 DEF LedgerOf
  <2>2. LedgerOf(e).decisions = Ledger!Settle(LedgerOf(d).decisions, "superseded")
    BY SupersedeAll DEF e
  <2>3. LedgerOf(d).phase = "live"
    BY DEF LedgerOf
  <2> QED BY <2>1, <2>2, <2>3 DEF Ledger!Void
<1> QED BY <1>1, <1>3, <1>6, <1>7, <1>8 DEF DutyStep, Ledger!EntryStep

\* The case OpenCase appends.
NewCase(d, submitter, claimedAt) ==
    LET electorate == Claimed \ {d.subject, submitter} IN
    [ submitter |-> submitter, submittedAt |-> now, claimedAt |-> claimedAt,
      link |-> "pending", status |-> "open", resolution |-> "none",
      resolvedAt |-> Never, eligible |-> Cardinality(electorate),
      choice |-> [m \in Member |-> IF m \in electorate THEN "uncast" ELSE "none"],
      castBy |-> [m \in Member |-> NoAccount],
      ruling |-> [m \in Member |-> "none"],
      electors |-> [m \in Member |-> IF m \in electorate THEN holder[m] ELSE NoAccount] ]

\* The part of TypeOK a new case depends on.
MembersOK ==
    now \in Time /\ holder \in [Member -> Account \union {NoAccount}] /\ active \in SUBSET Member

LEMMA NewCaseType ==
    ASSUME MembersOK, NEW d, NEW submitter \in Member, NEW claimedAt \in Time \union {Never}
    PROVE  LET k == NewCase(d, submitter, claimedAt) IN
           /\ k \in Case
           /\ k.link = "pending" /\ k.status = "open"
           /\ k.submitter = submitter /\ k.submittedAt = now /\ k.claimedAt = claimedAt
<1> DEFINE electorate == Claimed \ {d.subject, submitter}
<1>1. IsFiniteSet(electorate)
  BY FS_Subset, MembersFinite DEF Claimed, MembersOK
<1>2. Cardinality(electorate) \in Int
  BY <1>1, FS_CardinalityType
<1>3. [m \in Member |-> IF m \in electorate THEN holder[m] ELSE NoAccount]
        \in [Member -> Account \union {NoAccount}]
  BY DEF MembersOK
<1> QED
  BY <1>2, <1>3 DEF NewCase, Case, CaseStatus, LIVE, Resolution, Never, MembersOK

\* What a request that opens a case leaves of the duty d: the older evidence superseded, and k
\* behind it.
OpenedWith(d, e, k) ==
    /\ DOMAIN e.evidence = 1 .. Len(d.evidence) + 1
    /\ \A j \in DOMAIN d.evidence :
          e.evidence[j] = IF d.evidence[j].status \in LIVE THEN SupersededCase(d.evidence[j])
                          ELSE d.evidence[j]
    /\ e.evidence[Len(d.evidence) + 1] = k

LEMMA OpenCaseStep ==
    ASSUME MembersOK, NEW d \in DutyRecord, DutyInv(d), d.status = "open",
           NEW submitter \in Member, NEW claimedAt \in Time \union {Never},
           submitter # d.subject => claimedAt <= now
    PROVE  LET e == OpenCase(d, submitter, claimedAt)
               k == NewCase(d, submitter, claimedAt)
           IN  /\ DutyStep(d, e)
               /\ OpenedWith(d, e, IF Claimed \ {d.subject, submitter} = {}
                                   THEN ClosedCase(k, "accepted", "no_voters", now) ELSE k)
<1> DEFINE older == SupersedePending(d, 0)
           k == NewCase(d, submitter, claimedAt)
           opened == [older EXCEPT !.evidence = Append(@, k)]
           i == Len(older.evidence) + 1
<1>1. now \in Time
  BY DEF MembersOK
<1>2. /\ older \in DutyRecord
      /\ older.status = "open" /\ older.subject = d.subject /\ older.completedAt = d.completedAt
      /\ Len(older.evidence) = Len(d.evidence) /\ DOMAIN older.evidence = DOMAIN d.evidence
      /\ LedgerOf(older).decisions = Ledger!Settle(LedgerOf(d).decisions, "superseded")
  BY <1>1, SupersedeAll
<1>3. \A j \in DOMAIN d.evidence :
          /\ older.evidence[j].status \notin LIVE
          /\ older.evidence[j].link = older.evidence[j].status
          /\ older.evidence[j].link # "accepted"
          /\ EffectiveCompletion(older, older.evidence[j]) <= older.evidence[j].submittedAt
          /\ d.evidence[j].status \notin LIVE => older.evidence[j] = d.evidence[j]
  BY <1>1, SupersedeAll
     DEF DutyInv, Decidable, Completion, Dated, EffectiveCompletion, LIVE
<1>30. \A j \in DOMAIN d.evidence :
          older.evidence[j] = IF d.evidence[j].status \in LIVE THEN SupersededCase(d.evidence[j])
                              ELSE d.evidence[j]
  BY <1>1, SupersedeAll
<1>4. /\ k \in Case /\ k.link = "pending" /\ k.status = "open"
      /\ k.submitter = submitter /\ k.submittedAt = now /\ k.claimedAt = claimedAt
  BY NewCaseType
<1> HIDE DEF older, k
<1>5. /\ opened \in DutyRecord
      /\ opened.status = "open" /\ opened.subject = d.subject
      /\ opened.completedAt = older.completedAt
      /\ opened.evidence = Append(older.evidence, k)
  <2>1. Append(older.evidence, k) \in Seq(Case)
    BY <1>2, <1>4, EvidenceIsSeq
  <2> QED BY <1>2, <2>1 DEF DutyRecord
<1>6. /\ Len(opened.evidence) = i /\ DOMAIN opened.evidence = 1 .. i /\ i \in Nat \ {0}
      /\ opened.evidence[i] = k
      /\ \A j \in DOMAIN d.evidence : opened.evidence[j] = older.evidence[j]
      /\ DOMAIN d.evidence = 1 .. (i - 1)
  BY <1>2, <1>4, <1>5, EvidenceIsSeq
<1>60. i \in Nat \ {0} /\ i = Len(d.evidence) + 1
  BY <1>2, <1>6
<1>0. \A j \in DOMAIN d.evidence :
          older.evidence[j].link \in {"accepted", "rejected", "superseded"}
  BY <1>2, <1>3, EvidenceIsSeq DEF Case, CaseStatus, LIVE
<1> HIDE DEF opened, i
<1>7. EffectiveCompletion(opened, k) <= now
  BY <1>1, <1>4, <1>5, BoundsAreNatural DEF EffectiveCompletion, Time
<1>8. \A j \in DOMAIN d.evidence : EffectiveCompletion(opened, opened.evidence[j])
                                      = EffectiveCompletion(older, older.evidence[j])
  BY <1>2, <1>5, <1>6 DEF EffectiveCompletion
<1>9. \A j \in DOMAIN opened.evidence : j \in DOMAIN d.evidence \/ j = i
  BY <1>6
<1>10. DutyInv(opened)
  <2>1. Decidable(opened) /\ NewestLive(opened)
    BY <1>3, <1>4, <1>5, <1>6, <1>9 DEF Decidable, NewestLive, LIVE
  <2>2. Completion(opened)
    BY <1>3, <1>4, <1>5, <1>6, <1>9 DEF Completion
  <2>3. Dated(opened)
    BY <1>3, <1>4, <1>6, <1>7, <1>8, <1>9 DEF Dated
  <2> QED BY <2>1, <2>2, <2>3, <1>5 DEF DutyInv
<1>11. Frozen(d, opened)
  BY <1>3, <1>6 DEF Frozen
<1>12. LedgerOf(opened) = [phase |-> "live", decisions |->
            Append(Ledger!Settle(LedgerOf(d).decisions, "superseded"), "pending")]
  <2> DEFINE ds == Ledger!Settle(LedgerOf(d).decisions, "superseded")
  <2>1. ds = [j \in 1 .. (i - 1) |-> older.evidence[j].link]
    BY <1>2, <1>6 DEF LedgerOf
  <2>2. LedgerOf(opened).decisions = [j \in 1 .. i |-> opened.evidence[j].link]
    BY <1>6 DEF LedgerOf
  <2> HIDE DEF ds
  <2>3. ds \in Seq({"accepted", "rejected", "superseded"}) /\ Len(ds) + 1 = i
    <3>1. ds \in [1 .. (i - 1) -> {"accepted", "rejected", "superseded"}]
      BY <1>0, <2>1, <1>6
    <3> QED BY <3>1, <1>60
  <2>4. Append(ds, "pending") = [j \in 1 .. i |-> opened.evidence[j].link]
    <3>0. DOMAIN Append(ds, "pending") = 1 .. i
            /\ \A j \in 1 .. i : Append(ds, "pending")[j] = IF j = i THEN "pending" ELSE ds[j]
      BY <2>3, AppendAsFunction
    <3>1. Append(ds, "pending") = [j \in 1 .. i |-> IF j = i THEN "pending" ELSE ds[j]]
      BY <2>3, <3>0, AppendAsFunction
    <3>2. \A j \in 1 .. i : (IF j = i THEN "pending" ELSE ds[j]) = opened.evidence[j].link
      BY <2>1, <1>4, <1>6
    <3> QED BY <3>1, <3>2, Zenon
  <2>5. LedgerOf(opened).phase = "live"
    BY <1>5 DEF LedgerOf
  <2> QED BY <2>2, <2>4, <2>5 DEF LedgerOf, ds
<1>13. LedgerOf(d).phase = "live"
  BY DEF LedgerOf
<1>14. DutyStep(d, opened)
  BY <1>5, <1>10, <1>11, <1>12, <1>13 DEF DutyStep, Ledger!EntryStep, Ledger!Submit
<1>140. OpenedWith(d, opened, k)
  BY <1>6, <1>30, <1>60 DEF OpenedWith
<1>15. ASSUME Claimed \ {d.subject, submitter} = {}
       PROVE  LET e == CloseCase(ApplyDecision(opened, i, "accepted"), i, "accepted",
                                 "no_voters", now)
              IN  DutyStep(d, e) /\ OpenedWith(d, e, ClosedCase(k, "accepted", "no_voters", now))
  <2> DEFINE f == CloseCase(ApplyDecision(opened, i, "accepted"), i, "accepted", "no_voters", now)
             ds == Ledger!Settle(LedgerOf(d).decisions, "superseded")
  <2>1. "no_voters" \in Resolution /\ now \in Int /\ i \in DOMAIN opened.evidence
    <3>1. now \in Int
      BY <1>1, BoundsAreNatural DEF Time
    <3>2. i \in DOMAIN opened.evidence
      <4>1. Len(opened.evidence) = Len(d.evidence) + 1 /\ Len(d.evidence) \in Nat
        BY <1>2, <1>6, EvidenceIsSeq DEF i
      <4> QED BY <1>6, <4>1
    <3> QED BY <3>1, <3>2 DEF Resolution
  <2>2. opened.evidence[i].link = "pending"
    BY <1>4, <1>6
  <2>3. DutyStep(opened, f) /\ LedgerOf(f) = Decided(LedgerOf(opened), "accepted")
    BY <1>5, <1>10, <2>1, <2>2, ApplyDecisionStep
  <2>30. OnlyCase(opened, f, i) /\ f.evidence[i] = ClosedCase(k, "accepted", "no_voters", now)
    BY <1>5, <1>6, <1>10, <2>1, <2>2, DecisionResult
  <2> HIDE DEF f
  <2>31. OpenedWith(d, f, ClosedCase(k, "accepted", "no_voters", now))
    BY <1>6, <1>60, <1>140, <2>30 DEF OpenedWith, OnlyCase
  <2>4. Frozen(d, f)
    BY <1>5, <1>11, <2>3 DEF DutyStep, Frozen
  <2>5. ds = [j \in 1 .. (i - 1) |-> older.evidence[j].link]
    BY <1>2, <1>6 DEF LedgerOf
  <2> HIDE DEF ds
  <2>6. ds \in Seq({"accepted", "rejected", "superseded"}) /\ Len(ds) + 1 = i
    <3>1. ds \in [1 .. (i - 1) -> {"accepted", "rejected", "superseded"}]
      BY <1>0, <2>5, <1>6
    <3> QED BY <3>1, <1>60
  <2>7. \A j \in 1 .. (i - 1) : ds[j] # "pending"
    BY <2>6
  <2>8. Ledger!Settle(Append(ds, "pending"), "accepted") = Append(ds, "accepted")
    <3> DEFINE p == Append(ds, "pending")
               a == Append(ds, "accepted")
    <3>1. DOMAIN p = 1 .. i /\ \A j \in 1 .. i : p[j] = IF j = i THEN "pending" ELSE ds[j]
      BY <2>6, AppendAsFunction
    <3>2. /\ a \in [1 .. i -> {"accepted", "rejected", "superseded"} \union {"accepted"}]
          /\ \A j \in 1 .. i : a[j] = IF j = i THEN "accepted" ELSE ds[j]
      BY <2>6, AppendAsFunction
    <3>3. \A j \in 1 .. i : j # i => ds[j] # "pending"
      BY <2>7, <1>6
    <3> HIDE DEF a, p
    <3>4. \A j \in 1 .. i : (IF p[j] = "pending" THEN "accepted" ELSE p[j]) = a[j]
      BY <3>1, <3>2, <3>3
    <3>5. a = [j \in 1 .. i |-> a[j]]
      BY <3>2
    <3>7. [j \in DOMAIN p |-> IF p[j] = "pending" THEN "accepted" ELSE p[j]] = a
      BY <3>1, <3>4, <3>5
    <3> QED BY <3>7 DEF Ledger!Settle, a, p
  <2>9. LedgerOf(f) = [phase |-> "completed", decisions |-> Append(ds, "accepted")]
    <3>1. LedgerOf(opened).decisions = Append(ds, "pending")
      BY <1>12 DEF ds
    <3>2. Decided(LedgerOf(opened), "accepted")
            = [phase |-> "completed",
               decisions |-> Ledger!Settle(LedgerOf(opened).decisions, "accepted")]
      BY DEF Decided
    <3> QED BY <2>3, <2>8, <3>1, <3>2, Zenon
  <2>10. Ledger!Submit(LedgerOf(d), LedgerOf(f))
    BY <1>13, <2>9 DEF Ledger!Submit, ds
  <2> QED BY <2>3, <2>4, <2>10, <2>31 DEF DutyStep, Ledger!EntryStep, f
<1>16. OpenCase(d, submitter, claimedAt)
         = IF Claimed \ {d.subject, submitter} = {}
           THEN CloseCase(ApplyDecision(opened, i, "accepted"), i, "accepted", "no_voters", now)
           ELSE opened
  BY DEF OpenCase, opened, i, older, k, NewCase
<1> QED BY <1>14, <1>140, <1>15, <1>16 DEF k

-----------------------------------------------------------------------------
(* Votes, vetoes, rulings and withdrawn ballots.                           *)

LEMMA AcceptIfMajorityStep ==
    ASSUME TypeOK, NEW d \in DutyRecord, DutyInv(d), NEW i \in DOMAIN d.evidence,
           d.evidence[i].status \in LIVE
    PROVE  DutyStep(d, AcceptIfMajority(d, i))
<1>1. "majority" \in Resolution /\ now \in Int
  BY BoundsAreNatural DEF TypeOK, Time, Resolution
<1> QED BY <1>1, CloseStep, Stutter DEF AcceptIfMajority

LEMMA CastAcceptStep ==
    ASSUME TypeOK, NEW d \in DutyRecord, DutyInv(d), NEW i \in DOMAIN d.evidence,
           d.evidence[i].status = "open", NEW m \in Member, NEW a \in Account
    PROVE  DutyStep(d, CastAccept(d, i, m, a))
<1> DEFINE k == [d.evidence[i] EXCEPT !.choice[m] = "accept", !.castBy[m] = a]
           e == Touched(d, i, k)
<1>1. d.evidence[i] \in Case /\ d.evidence[i].status \in LIVE
  BY EvidenceIsSeq DEF LIVE
<1>2. /\ k \in Case /\ k.status \in LIVE
      /\ k.link = d.evidence[i].link /\ k.submitter = d.evidence[i].submitter
      /\ k.submittedAt = d.evidence[i].submittedAt /\ k.claimedAt = d.evidence[i].claimedAt
  BY <1>1 DEF Case
<1>3. CastAccept(d, i, m, a) = IF d.evidence[i].choice[m] = "accept" THEN d
                               ELSE AcceptIfMajority(e, i)
  BY DEF CastAccept, Touched
<1> HIDE DEF k
<1>4. /\ DutyStep(d, e) /\ LedgerOf(e) = LedgerOf(d)
      /\ DOMAIN e.evidence = DOMAIN d.evidence /\ e.evidence[i] = k
  BY <1>1, <1>2, TouchedStep
<1> HIDE DEF e
<1>5. DutyStep(e, AcceptIfMajority(e, i))
  BY <1>2, <1>4, AcceptIfMajorityStep DEF DutyStep
<1>6. d.status = "open"
  BY <1>1 DEF DutyInv, Decidable
<1>7. DutyStep(d, AcceptIfMajority(e, i))
  BY <1>4, <1>5, <1>6, TouchThen
<1> QED BY <1>3, <1>7, Stutter

LEMMA CastVetoStep ==
    ASSUME NEW d \in DutyRecord, DutyInv(d), NEW i \in DOMAIN d.evidence,
           d.evidence[i].status = "open", NEW m \in Member, NEW a \in Account
    PROVE  DutyStep(d, CastVeto(d, i, m, a))
<1> DEFINE k == [d.evidence[i] EXCEPT !.choice[m] = "veto", !.castBy[m] = a,
                                      !.ruling[m] = "pending", !.status = "in_review"]
<1>1. d.evidence[i] \in Case /\ d.evidence[i].status \in LIVE
  BY EvidenceIsSeq DEF LIVE
<1>2. /\ k \in Case /\ k.status \in LIVE
      /\ k.link = d.evidence[i].link /\ k.submitter = d.evidence[i].submitter
      /\ k.submittedAt = d.evidence[i].submittedAt /\ k.claimedAt = d.evidence[i].claimedAt
  BY <1>1 DEF Case, CaseStatus, LIVE
<1>3. CastVeto(d, i, m, a) = Touched(d, i, k)
  BY DEF CastVeto, Touched
<1> HIDE DEF k
<1> QED BY <1>1, <1>2, <1>3, TouchedStep

LEMMA UpholdStep ==
    ASSUME TypeOK, NEW d \in DutyRecord, DutyInv(d), NEW i \in DOMAIN d.evidence,
           d.evidence[i].status \in LIVE, NEW v \in Member
    PROVE  DutyStep(d, Uphold(d, i, v))
<1> DEFINE k == [d.evidence[i] EXCEPT !.ruling[v] = "upheld"]
           e == Touched(d, i, k)
           f == Close(e, i, "rejected", "veto_upheld", now)
<1>1. d.evidence[i] \in Case
  BY EvidenceIsSeq
<1>2. /\ k \in Case /\ k.status \in LIVE
      /\ k.link = d.evidence[i].link /\ k.submitter = d.evidence[i].submitter
      /\ k.submittedAt = d.evidence[i].submittedAt /\ k.claimedAt = d.evidence[i].claimedAt
  BY <1>1 DEF Case
<1>3. Uphold(d, i, v) = f
  BY DEF Uphold, Touched
<1> HIDE DEF k
<1>4. /\ DutyStep(d, e) /\ LedgerOf(e) = LedgerOf(d)
      /\ DOMAIN e.evidence = DOMAIN d.evidence /\ e.evidence[i] = k
  BY <1>2, TouchedStep
<1> HIDE DEF e
<1>5. "veto_upheld" \in Resolution /\ now \in Int
  BY BoundsAreNatural DEF TypeOK, Time, Resolution
<1>6. DutyStep(e, f)
  BY <1>2, <1>4, <1>5, CloseStep DEF DutyStep
<1>7. d.status = "open"
  BY DEF DutyInv, Decidable
<1> HIDE DEF f
<1> QED BY <1>3, <1>4, <1>6, <1>7, TouchThen

LEMMA DismissStep ==
    ASSUME TypeOK, NEW d \in DutyRecord, DutyInv(d), NEW i \in DOMAIN d.evidence,
           d.evidence[i].status \in LIVE, NEW v \in Member
    PROVE  DutyStep(d, Dismiss(d, i, v))
<1> DEFINE k == [d.evidence[i] EXCEPT !.ruling[v] = "dismissed", !.status = "open"]
           e == Touched(d, i, k)
           f(r) == Close(e, i, "accepted", r, now)
<1>1. d.evidence[i] \in Case
  BY EvidenceIsSeq
<1>2. /\ k \in Case /\ k.status \in LIVE
      /\ k.link = d.evidence[i].link /\ k.submitter = d.evidence[i].submitter
      /\ k.submittedAt = d.evidence[i].submittedAt /\ k.claimedAt = d.evidence[i].claimedAt
  BY <1>1 DEF Case, CaseStatus, LIVE
<1>3. Dismiss(d, i, v) \in {e, f("majority"), f("auto")}
  BY DEF Dismiss, Touched
<1> HIDE DEF k
<1>4. /\ DutyStep(d, e) /\ LedgerOf(e) = LedgerOf(d)
      /\ DOMAIN e.evidence = DOMAIN d.evidence /\ e.evidence[i] = k
  BY <1>2, TouchedStep
<1> HIDE DEF e
<1>5. "majority" \in Resolution /\ "auto" \in Resolution /\ now \in Int
  BY BoundsAreNatural DEF TypeOK, Time, Resolution
<1>6. DutyStep(e, f("majority")) /\ DutyStep(e, f("auto"))
  BY <1>2, <1>4, <1>5, CloseStep DEF DutyStep
<1>7. d.status = "open"
  BY DEF DutyInv, Decidable
<1>8. DutyStep(d, f("majority")) /\ DutyStep(d, f("auto"))
  BY <1>4, <1>6, <1>7, TouchThen
<1> QED BY <1>3, <1>4, <1>8

\* A ballot that waits in a live case is withdrawn.
LEMMA WithdrawBallotStep ==
    ASSUME TypeOK, NEW d \in DutyRecord, DutyInv(d), NEW i \in DOMAIN d.evidence,
           d.evidence[i].status \in LIVE, NEW m \in Member
    PROVE  DutyStep(d, WithdrawBallot(d, i, m))
<1> DEFINE k == [d.evidence[i] EXCEPT !.choice[m] = "none", !.eligible = d.evidence[i].eligible - 1]
           e == Touched(d, i, k)
<1>1. d.evidence[i] \in Case /\ d.status = "open"
  BY EvidenceIsSeq DEF DutyInv, Decidable
<1>2. /\ k \in Case /\ k.status \in LIVE
      /\ k.link = d.evidence[i].link /\ k.submitter = d.evidence[i].submitter
      /\ k.submittedAt = d.evidence[i].submittedAt /\ k.claimedAt = d.evidence[i].claimedAt
  <2>1. d.evidence[i].eligible - 1 \in Int
    BY <1>1 DEF Case
  <2> QED BY <1>1, <2>1 DEF Case
<1>3. WithdrawBallot(d, i, m)
        = IF e.evidence[i].status # "open" THEN e
          ELSE IF d.evidence[i].eligible - 1 = 0
               THEN Close(e, i, "accepted", "no_voters", now)
               ELSE AcceptIfMajority(e, i)
  BY DEF WithdrawBallot, Touched
<1> HIDE DEF k
<1>4. /\ DutyStep(d, e) /\ LedgerOf(e) = LedgerOf(d)
      /\ DOMAIN e.evidence = DOMAIN d.evidence /\ e.evidence[i] = k
  BY <1>2, TouchedStep
<1> HIDE DEF e
<1>5. "no_voters" \in Resolution /\ now \in Int
  BY BoundsAreNatural DEF TypeOK, Time, Resolution
<1>6. DutyStep(e, AcceptIfMajority(e, i)) /\ DutyStep(e, Close(e, i, "accepted", "no_voters", now))
  BY <1>2, <1>4, <1>5, CloseStep, AcceptIfMajorityStep DEF DutyStep
<1>7. DutyStep(d, AcceptIfMajority(e, i)) /\ DutyStep(d, Close(e, i, "accepted", "no_voters", now))
  BY <1>1, <1>4, <1>6, TouchThen
<1> QED BY <1>3, <1>4, <1>7

LEMMA ReleaseBallotsStep ==
    ASSUME TypeOK, NEW d \in DutyRecord, DutyInv(d), NEW m \in Member
    PROVE  /\ DutyStep(d, ReleaseBallots(d, m))
           /\ d.status # "open" => ReleaseBallots(d, m) = d
<1> DEFINE uncast == {j \in DOMAIN d.evidence :
                        d.evidence[j].status \in LIVE /\ d.evidence[j].choice[m] = "uncast"}
           i == CHOOSE j \in uncast : TRUE
<1>1. uncast # {} => d.status = "open"
  BY DEF DutyInv, Decidable
<1>2. CASE uncast = {}
  BY <1>2, Stutter DEF ReleaseBallots
<1>3. CASE uncast # {}
  <2>1. i \in DOMAIN d.evidence /\ d.evidence[i].status \in LIVE
    BY <1>3
  <2>2. ReleaseBallots(d, m) = WithdrawBallot(d, i, m)
    BY <1>3 DEF ReleaseBallots
  <2> HIDE DEF i
  <2> QED BY <1>1, <1>3, <2>1, <2>2, WithdrawBallotStep
<1> QED BY <1>2, <1>3

LEMMA CaptainDecidesStep ==
    ASSUME TypeOK, NEW d \in DutyRecord, DutyInv(d), NEW i \in DOMAIN d.evidence,
           d.evidence[i].link = "pending", NEW decision \in {"accepted", "rejected"}
    PROVE  DutyStep(d, CaptainDecides(d, i, decision))
<1>1. d.evidence[i].status \in LIVE
  BY PendingIsNewest
<1>2. d.status = "open"
  BY <1>1 DEF DutyInv, Decidable
<1>3. "captain" \in Resolution /\ now \in Int
  BY BoundsAreNatural DEF TypeOK, Time, Resolution
<1>4. CaptainDecides(d, i, decision)
        = CloseCase(ApplyDecision(d, i, decision), i, decision, "captain", now)
  BY <1>1 DEF CaptainDecides
<1> QED BY <1>2, <1>3, <1>4, ApplyDecisionStep

-----------------------------------------------------------------------------
(* The requests.                                                           *)

\* The inductive invariant.
IndInv == TypeOK /\ \A d \in Duty : DutyInv(duty[d])

\* Every duty takes one step at most.
EachDutySteps ==
    /\ duty' = [d \in Duty |-> duty'[d]]
    /\ \A d \in Duty : DutyStep(duty[d], duty'[d])

LEMMA SettledStep ==
    ASSUME IndInv, NEW d \in Duty
    PROVE  /\ Settled[d] \in DutyRecord /\ DutyInv(Settled[d])
           /\ DutyStep(duty[d], Settled[d])
           /\ Settled[d] = duty[d] \/ Settled[d].status = "completed"
<1>1. duty[d] \in DutyRecord /\ DutyInv(duty[d])
  BY DEF IndInv, TypeOK
<1>2. Settled[d] = SettleIfDue(duty[d])
  BY DEF Settled
<1> QED BY <1>1, <1>2, SettleStep DEF DutyStep

\* Only a duty that is live as the request finds it is changed any further.
LEMMA AfterSettling ==
    ASSUME IndInv, NEW d \in Duty, NEW e,
           e = Settled[d] \/ (Settled[d].status # "completed" /\ DutyStep(Settled[d], e))
    PROVE  DutyStep(duty[d], e)
BY SettledStep

LEMMA CreateDutySteps ==
    ASSUME IndInv, NEW a \in Account, NEW c \in Duty, NEW subject \in Member,
           CreateDuty(a, c, subject)
    PROVE  EachDutySteps
<1> DEFINE f == NewDuty(subject)
<1>1. Settled[c].status = "none" /\ Settled[c] = NoDuty
  BY SettledStep DEF CreateDuty, DutyInv
<1>2. f = [status |-> "open", subject |-> subject, completedAt |-> Never, evidence |-> <<>>]
  BY DEF NewDuty
<1> HIDE DEF f
<1>3. f \in DutyRecord
  BY <1>2 DEF DutyRecord, DutyStatus
<1>4. DutyInv(f) /\ Frozen(NoDuty, f)
  BY <1>2 DEF DutyInv, Frozen, Decidable, NewestLive, Completion, Dated, NoDuty
<1>5. Ledger!Open(LedgerOf(NoDuty), LedgerOf(f))
  <2>1. LedgerOf(NoDuty) = [phase |-> "none", decisions |-> <<>>]
    BY DEF NoDuty, LedgerOf
  <2>2. LedgerOf(f) = [phase |-> "live", decisions |-> <<>>]
    BY <1>2 DEF LedgerOf
  <2> QED BY <2>1, <2>2 DEF Ledger!Open, Ledger!Nothing
<1>6. DutyStep(Settled[c], f)
  BY <1>1, <1>3, <1>4, <1>5 DEF DutyStep, Ledger!EntryStep
<1>7. duty' = [Settled EXCEPT ![c] = f]
  BY DEF CreateDuty, f
<1>8. \A d \in Duty : duty'[d] = IF d = c THEN f ELSE Settled[d]
  BY <1>7 DEF Settled
<1>9. \A d \in Duty : DutyStep(duty[d], duty'[d])
  BY <1>1, <1>6, <1>8, AfterSettling
<1> QED BY <1>7, <1>9 DEF EachDutySteps, Settled

\* A request that changes the duty c to f and settles the others.
LEMMA OneDutyChanges ==
    ASSUME IndInv, NEW c \in Duty, NEW f, Settled[c].status # "completed",
           DutyStep(Settled[c], f), duty' = [Settled EXCEPT ![c] = f]
    PROVE  EachDutySteps
<1>1. \A d \in Duty : duty'[d] = IF d = c THEN f ELSE Settled[d]
  BY DEF Settled
<1>2. \A d \in Duty : DutyStep(duty[d], duty'[d])
  BY <1>1, AfterSettling
<1> QED BY <1>2 DEF EachDutySteps, Settled

LEMMA VoidDutySteps ==
    ASSUME IndInv, NEW a \in Account, NEW c \in Duty, VoidDuty(a, c)
    PROVE  EachDutySteps
<1>1. Settled[c].status = "open" /\ now \in Time
  BY DEF VoidDuty, IndInv, TypeOK
<1>2. DutyStep(Settled[c], VoidDutyRow(Settled[c]))
  BY <1>1, SettledStep, VoidStep
<1>3. duty' = [Settled EXCEPT ![c] = VoidDutyRow(Settled[c])]
  BY DEF VoidDuty
<1> QED BY <1>1, <1>2, <1>3, OneDutyChanges

LEMMA RespondSteps ==
    ASSUME IndInv, NEW a \in Account, NEW c \in Duty, NEW i,
           NEW choice \in {"accept", "veto"}, Respond(a, c, i, choice)
    PROVE  EachDutySteps
<1>1. i \in DOMAIN Settled[c].evidence /\ Settled[c].evidence[i].status = "open" /\ TypeOK
  BY DEF Respond, IndInv
<1>2. PICK m \in Member :
        duty' = [Settled EXCEPT ![c] = IF choice = "accept" THEN CastAccept(Settled[c], i, m, a)
                                       ELSE CastVeto(Settled[c], i, m, a)]
  BY DEF Respond
<1>3. Settled[c].status = "open"
  BY <1>1, SettledStep DEF DutyInv, Decidable, LIVE
<1>4. DutyStep(Settled[c], CastAccept(Settled[c], i, m, a))
  BY <1>1, SettledStep, CastAcceptStep
<1>5. DutyStep(Settled[c], CastVeto(Settled[c], i, m, a))
  BY <1>1, SettledStep, CastVetoStep
<1> QED BY <1>2, <1>3, <1>4, <1>5, OneDutyChanges

LEMMA ReviewSteps ==
    ASSUME IndInv, NEW a \in Account, NEW c \in Duty, NEW i,
           NEW ruling \in {"upheld", "dismissed"}, Review(a, c, i, ruling)
    PROVE  EachDutySteps
<1>1. i \in DOMAIN Settled[c].evidence /\ Settled[c].evidence[i].status \in LIVE /\ TypeOK
  BY DEF Review, IndInv, LIVE
<1>2. PICK v \in Member :
        duty' = [Settled EXCEPT ![c] = IF ruling = "upheld" THEN Uphold(Settled[c], i, v)
                                       ELSE Dismiss(Settled[c], i, v)]
  BY DEF Review
<1>3. Settled[c].status = "open"
  BY <1>1, SettledStep DEF DutyInv, Decidable
<1>4. DutyStep(Settled[c], Uphold(Settled[c], i, v))
  BY <1>1, SettledStep, UpholdStep
<1>5. DutyStep(Settled[c], Dismiss(Settled[c], i, v))
  BY <1>1, SettledStep, DismissStep
<1> QED BY <1>2, <1>3, <1>4, <1>5, OneDutyChanges

LEMMA DecideLinkSteps ==
    ASSUME IndInv, NEW a \in Account, NEW c \in Duty, NEW i,
           NEW decision \in {"accepted", "rejected"}, DecideLink(a, c, i, decision)
    PROVE  EachDutySteps
<1>1. /\ i \in DOMAIN Settled[c].evidence /\ Settled[c].evidence[i].link = "pending"
      /\ Settled[c].status = "open" /\ TypeOK
  BY DEF DecideLink, IndInv
<1>2. DutyStep(Settled[c], CaptainDecides(Settled[c], i, decision))
  BY <1>1, SettledStep, CaptainDecidesStep
<1>3. duty' = [Settled EXCEPT ![c] = CaptainDecides(Settled[c], i, decision)]
  BY DEF DecideLink
<1> QED BY <1>1, <1>2, <1>3, OneDutyChanges

LEMMA SubmitEvidenceSteps ==
    ASSUME IndInv, NEW a \in Account, NEW ds \in SUBSET Duty, NEW subject \in Member,
           NEW claimedAt \in Time \union {Never}, SubmitEvidence(a, ds, subject, claimedAt)
    PROVE  EachDutySteps
<1>1. PICK submitter \in Member :
        /\ IF subject = submitter THEN claimedAt = Never ELSE claimedAt \in 0 .. now
        /\ \A d \in ds : Settled[d].subject = subject /\ Settled[d].status = "open"
        /\ duty' = [d \in Duty |-> IF d \in ds THEN OpenCase(Settled[d], submitter, claimedAt)
                                   ELSE Settled[d]]
  BY DEF SubmitEvidence
<1>2. \A d \in ds : submitter # Settled[d].subject => claimedAt <= now
  BY <1>1, BoundsAreNatural DEF IndInv, TypeOK, Time
<1>3. \A d \in ds : DutyStep(Settled[d], OpenCase(Settled[d], submitter, claimedAt))
  BY <1>1, <1>2, SettledStep, OpenCaseStep DEF IndInv, TypeOK, MembersOK
<1>4. \A d \in Duty : DutyStep(duty[d], duty'[d])
  BY <1>1, <1>3, AfterSettling
<1> QED BY <1>1, <1>4 DEF EachDutySteps

LEMMA ReleaseMembershipSteps ==
    ASSUME IndInv, NEW a \in Account, NEW m \in Member, ReleaseMembership(a, m)
    PROVE  EachDutySteps
<1>1. duty' = [d \in Duty |-> ReleaseBallots(Settled[d], m)]
  BY DEF ReleaseMembership
<1>2. \A d \in Duty : /\ DutyStep(Settled[d], ReleaseBallots(Settled[d], m))
                      /\ Settled[d].status # "open" => ReleaseBallots(Settled[d], m) = Settled[d]
  BY SettledStep, ReleaseBallotsStep DEF IndInv
<1>3. \A d \in Duty : DutyStep(duty[d], duty'[d])
  BY <1>1, <1>2, AfterSettling
<1> QED BY <1>1, <1>3 DEF EachDutySteps

LEMMA WithdrawMemberSteps ==
    ASSUME IndInv, NEW a \in Account, NEW m \in Member, WithdrawMember(a, m)
    PROVE  EachDutySteps
<1>1. duty' = [d \in Duty |-> IF Settled[d].subject = m /\ Settled[d].status = "open"
                              THEN VoidDutyRow(Settled[d]) ELSE Settled[d]]
  BY DEF WithdrawMember
<1>2. \A d \in Duty : Settled[d].status = "open" => DutyStep(Settled[d], VoidDutyRow(Settled[d]))
  BY SettledStep, VoidStep DEF IndInv, TypeOK
<1>3. \A d \in Duty : DutyStep(duty[d], duty'[d])
  BY <1>1, <1>2, AfterSettling
<1> QED BY <1>1, <1>3 DEF EachDutySteps

LEMMA NothingSteps ==
    ASSUME IndInv, UNCHANGED duty
    PROVE  EachDutySteps
BY Stutter DEF EachDutySteps, IndInv, TypeOK

LEMMA NextSteps ==
    ASSUME IndInv, [Next]_vars
    PROVE  EachDutySteps
<1>1. ASSUME Tick PROVE EachDutySteps
  BY <1>1, NothingSteps DEF Tick
<1>2. ASSUME NEW a \in Account, Read(a) PROVE EachDutySteps
  BY <1>2, AfterSettling DEF Read, EachDutySteps, Settled
<1>3. ASSUME CaseNext PROVE EachDutySteps
  BY <1>1, <1>2, <1>3, CreateDutySteps, VoidDutySteps, SubmitEvidenceSteps, RespondSteps,
     ReviewSteps, DecideLinkSteps DEF CaseNext
<1>4. ASSUME NEW a \in Account, NEW m \in Member \union {NoMember},
             (m \in Member /\ (Claim(a, m) \/ ReinstateMember(a, m) \/ AppointCaptain(a, m)))
                \/ SetStandIn(a, m)
      PROVE  EachDutySteps
  BY <1>4, NothingSteps DEF Claim, ReinstateMember, AppointCaptain, SetStandIn
<1>5. ASSUME MemberNext PROVE EachDutySteps
  BY <1>4, <1>5, ReleaseMembershipSteps, WithdrawMemberSteps DEF MemberNext
<1>6. ASSUME UNCHANGED vars PROVE EachDutySteps
  BY <1>6, NothingSteps DEF vars
<1> QED BY <1>3, <1>5, <1>6 DEF Next

-----------------------------------------------------------------------------
(* The theorems.                                                           *)

LEMMA InitInv == Init => IndInv
<1> SUFFICES ASSUME Init PROVE IndInv
  OBVIOUS
<1>1. NoDuty \in DutyRecord
  BY DEF NoDuty, DutyRecord, DutyStatus
<1>2. DutyInv(NoDuty)
  BY DEF DutyInv, Decidable, NewestLive, Completion, Dated, NoDuty
<1>3. TypeOK
  BY <1>1, InitialMembers, BoundsAreNatural DEF Init, TypeOK, Time
<1> QED BY <1>2, <1>3 DEF IndInv, Init

LEMMA MembershipType ==
    ASSUME TypeOK, [Next]_vars
    PROVE  /\ now' \in Time
           /\ holder' \in [Member -> Account \union {NoAccount}]
           /\ active' \in SUBSET Member
           /\ captain' \in Member
           /\ standIn' \in Member \union {NoMember}
<1>1. ASSUME CaseNext PROVE UNCHANGED membership /\ now' \in Time
  <2>1. ASSUME Tick PROVE UNCHANGED membership /\ now' \in Time
    BY <2>1, BoundsAreNatural DEF Tick, TypeOK, Time
  <2>2. ASSUME NEW a, Read(a) PROVE UNCHANGED <<now, membership>>
    BY <2>2 DEF Read
  <2>3. ASSUME NEW a, NEW d, NEW subject, CreateDuty(a, d, subject) \/ VoidDuty(a, d)
        PROVE  UNCHANGED <<now, membership>>
    BY <2>3 DEF CreateDuty, VoidDuty
  <2>4. ASSUME NEW a, NEW ds, NEW subject, NEW t, SubmitEvidence(a, ds, subject, t)
        PROVE  UNCHANGED <<now, membership>>
    BY <2>4 DEF SubmitEvidence
  <2>5. ASSUME NEW a, NEW d, NEW i, NEW choice, Respond(a, d, i, choice)
        PROVE  UNCHANGED <<now, membership>>
    BY <2>5 DEF Respond
  <2>6. ASSUME NEW a, NEW d, NEW i, NEW ruling, Review(a, d, i, ruling)
        PROVE  UNCHANGED <<now, membership>>
    BY <2>6 DEF Review
  <2>7. ASSUME NEW a, NEW d, NEW i, NEW decision, DecideLink(a, d, i, decision)
        PROVE  UNCHANGED <<now, membership>>
    BY <2>7 DEF DecideLink
  <2> QED BY <1>1, <2>1, <2>2, <2>3, <2>4, <2>5, <2>6, <2>7 DEF CaseNext, TypeOK
<1>2. ASSUME NEW a \in Account, NEW m \in Member,
             \/ Claim(a, m) \/ ReleaseMembership(a, m) \/ WithdrawMember(a, m)
             \/ ReinstateMember(a, m) \/ AppointCaptain(a, m)
      PROVE  /\ now' = now
             /\ holder' \in [Member -> Account \union {NoAccount}]
             /\ active' \in SUBSET Member /\ captain' \in Member
             /\ standIn' \in Member \union {NoMember}
  BY <1>2 DEF Claim, ReleaseMembership, WithdrawMember, ReinstateMember, AppointCaptain,
              ClearStandIn, TypeOK
<1>3. ASSUME NEW a \in Account, NEW m \in Member \union {NoMember}, SetStandIn(a, m)
      PROVE  standIn' = m /\ UNCHANGED <<now, holder, active, captain>>
  BY <1>3 DEF SetStandIn
<1> QED BY <1>1, <1>2, <1>3 DEF Next, MemberNext, TypeOK, vars, membership

LEMMA NextInv ==
    IndInv /\ [Next]_vars => IndInv'
<1> SUFFICES ASSUME IndInv, [Next]_vars PROVE IndInv'
  OBVIOUS
<1>1. EachDutySteps
  BY NextSteps
<1>2. duty' \in [Duty -> DutyRecord] /\ \A d \in Duty : DutyInv(duty'[d])
  BY <1>1 DEF EachDutySteps, DutyStep
<1>3. TypeOK'
  BY <1>2, MembershipType DEF TypeOK, IndInv
<1> QED BY <1>2, <1>3 DEF IndInv

LEMMA Invariance == Spec => []IndInv
BY InitInv, NextInv, PTL DEF Spec

\* Every variable keeps its type: no request stores a case, a duty or an officer outside the
\* values the tables allow.
THEOREM TypeCorrect == Spec => []TypeOK
<1>1. IndInv => TypeOK
  BY DEF IndInv
<1> QED BY <1>1, Invariance, PTL

\* Every live case is decidable: whatever the requests and their order, the branch
\* cases._close calls unreachable is unreachable, in every league.
THEOREM LiveCasesAreDecidable == Spec => []LiveCaseIsDecidable
<1>1. IndInv => LiveCaseIsDecidable
  BY DEF IndInv, DutyInv, LiveCaseIsDecidable
<1> QED BY <1>1, Invariance, PTL

\* A duty has one live case at most, its newest: no request meets the partial unique index
\* ux_evidence_cases_one_live_per_duty.
THEOREM OneLiveCase == Spec => []OnlyNewestIsLive
<1>1. IndInv => OnlyNewestIsLive
  BY DEF IndInv, DutyInv, OnlyNewestIsLive
<1> QED BY <1>1, Invariance, PTL

\* A duty is completed exactly by its one accepted piece of evidence, and from that evidence's
\* effective time: neither the voting window nor a late settlement costs the member marks.
THEOREM CompletionIsEarned == Spec => []CompletedByItsEvidence
<1>1. IndInv => CompletedByItsEvidence
  BY DEF IndInv, DutyInv, CompletedByItsEvidence
<1> QED BY <1>1, Invariance, PTL

\* A closed case, a completed duty and a voided duty never change again.
THEOREM Finality == Spec => ClosedIsFinal
<1>1. IndInv /\ [Next]_vars =>
        [\A d \in Duty :
          /\ duty[d].status \in {"completed", "voided"} =>
                duty'[d].status = duty[d].status /\ duty'[d].completedAt = duty[d].completedAt
          /\ \A i \in DOMAIN duty[d].evidence :
                duty[d].evidence[i].status \notin LIVE =>
                    duty'[d].evidence[i] = duty[d].evidence[i]]_vars
  BY NextSteps DEF EachDutySteps, DutyStep, Frozen
<1> QED BY <1>1, Invariance, PTL DEF Spec, ClosedIsFinal

\* The requests implement the ledger: seen from the duties alone, each one decides evidence by
\* the ledger's steps, and no request takes two of them.
THEOREM Implementation == Spec => ImplementsLedger
<1>1. Init => Ledger!Init
  BY DEF Init, Ledger!Init, LedgerOf, NoDuty
<1>2. IndInv /\ [Next]_vars => [Ledger!Next]_[d \in Duty |-> LedgerOf(duty[d])]
  <2> SUFFICES ASSUME IndInv, [Next]_vars PROVE Ledger!Next
    OBVIOUS
  <2>1. EachDutySteps
    BY NextSteps
  <2> QED BY <2>1 DEF EachDutySteps, DutyStep, Ledger!Next
<1> QED BY <1>1, <1>2, Invariance, PTL DEF Spec, ImplementsLedger, Ledger!Spec

\* The requests about duties and evidence touch nobody's membership.
LEMMA CasesLeaveMembers == CaseNext => UNCHANGED membership
<1>1. Tick => UNCHANGED membership
  BY DEF Tick
<1>2. \A a \in Account : Read(a) => UNCHANGED membership
  BY DEF Read
<1>3. \A a, d, subject : CreateDuty(a, d, subject) => UNCHANGED membership
  BY DEF CreateDuty
<1>4. \A a, d : VoidDuty(a, d) => UNCHANGED membership
  BY DEF VoidDuty
<1>5. \A a, ds, subject, t : SubmitEvidence(a, ds, subject, t) => UNCHANGED membership
  BY DEF SubmitEvidence
<1>6. \A a, d, i, choice : Respond(a, d, i, choice) => UNCHANGED membership
  BY DEF Respond
<1>7. \A a, d, i, ruling : Review(a, d, i, ruling) => UNCHANGED membership
  BY DEF Review
<1>8. \A a, d, i, decision : DecideLink(a, d, i, decision) => UNCHANGED membership
  BY DEF DecideLink
<1> QED BY <1>1, <1>2, <1>3, <1>4, <1>5, <1>6, <1>7, <1>8 DEF CaseNext

\* Whoever joins, leaves or is appointed, the captain and the stand-in are different active
\* members with an account.
THEOREM OfficersStayAble == Spec => []OfficersCanAct
<1>1. Init => OfficersCanAct
  BY InitialMembers, AccountsFinite DEF Init, OfficersCanAct, Claimed
<1>2. TypeOK /\ OfficersCanAct /\ [Next]_vars => OfficersCanAct'
  <2> SUFFICES ASSUME TypeOK, OfficersCanAct, [Next]_vars PROVE OfficersCanAct'
    OBVIOUS
  <2>1. CASE CaseNext \/ UNCHANGED vars
    <3>1. UNCHANGED vars => UNCHANGED membership
      BY DEF vars, membership
    <3>2. CaseNext => UNCHANGED membership
      BY CasesLeaveMembers
    <3> QED BY <2>1, <3>1, <3>2 DEF membership, OfficersCanAct, Claimed
  <2>2. ASSUME NEW a \in Account, NEW m \in Member, Claim(a, m) PROVE OfficersCanAct'
    BY <2>2, AccountsFinite DEF Claim, OfficersCanAct, Claimed, TypeOK
  <2>3. ASSUME NEW a \in Account, NEW m \in Member, ReleaseMembership(a, m) PROVE OfficersCanAct'
    BY <2>3, MembersFinite DEF ReleaseMembership, ClearStandIn, OfficersCanAct, Claimed, TypeOK
  <2>4. ASSUME NEW a \in Account, NEW m \in Member, WithdrawMember(a, m) PROVE OfficersCanAct'
    BY <2>4 DEF WithdrawMember, ClearStandIn, OfficersCanAct, Claimed, TypeOK
  <2>5. ASSUME NEW a \in Account, NEW m \in Member, ReinstateMember(a, m) PROVE OfficersCanAct'
    BY <2>5 DEF ReinstateMember, OfficersCanAct, Claimed, TypeOK
  <2>6. ASSUME NEW a \in Account, NEW m \in Member, AppointCaptain(a, m) PROVE OfficersCanAct'
    BY <2>6 DEF AppointCaptain, ClearStandIn, OfficersCanAct, Claimed, TypeOK
  <2>7. ASSUME NEW a \in Account, NEW m \in Member \union {NoMember}, SetStandIn(a, m)
        PROVE  OfficersCanAct'
    BY <2>7 DEF SetStandIn, OfficersCanAct, Claimed, TypeOK
  <2> QED BY <2>1, <2>2, <2>3, <2>4, <2>5, <2>6, <2>7 DEF Next, MemberNext
<1> QED BY <1>1, <1>2, TypeCorrect, PTL DEF Spec

-----------------------------------------------------------------------------
(***************************************************************************)
(* The ballots: what a case's votes, rulings and resolution have to do     *)
(* with each other, and whose votes they are.  The lemmas above show which *)
(* case a request changes, and where the duty goes; here each change is    *)
(* followed into the case itself.                                          *)
(***************************************************************************)

\* An open case has voters and no veto waiting.
Voting(k) ==
    k.status = "open" => k.eligible > 0 /\ \A m \in Member : k.ruling[m] # "pending"

\* A case in review has its one veto.
Reviewed(k) ==
    k.status = "in_review" =>
        \E v \in Member : \A m \in Member : k.ruling[m] = "pending" <=> m = v

Counted(k) == k.eligible = Cardinality(Voters(k))

\* Every ballot is the account's that held the name when the case opened.
Owned(k) ==
    \A m \in Member :
        /\ k.choice[m] # "none" => k.electors[m] # NoAccount
        /\ k.choice[m] \in {"accept", "veto"} => k.castBy[m] = k.electors[m]

\* Only a veto is ruled on.
RuledVetoes(k) == \A m \in Member : k.ruling[m] # "none" => k.choice[m] = "veto"

\* No ruling that ends a case, and no resolution, before the case ends.
Unresolved(k) ==
    /\ k.status \in LIVE \union {"superseded"} => k.resolution = "none"
    /\ k.status \in LIVE => \A m \in Member : k.ruling[m] # "upheld"

\* All but the count of the accepts, which a vote is recorded ahead of.
Consistent(k) ==
    /\ Voting(k) /\ Reviewed(k) /\ Justified(k) /\ Counted(k)
    /\ Owned(k) /\ RuledVetoes(k) /\ Unresolved(k)

\* The inductive invariant of one case.
SoundCase(k) ==
    /\ Consistent(k)
    /\ k.status = "open" => ~Majority(Accepts(k), k.eligible)

\* A request may take the case k to l.
CaseStep(k, l) ==
    /\ l.electors = k.electors
    /\ l.status \in LIVE => k.status \in LIVE
    /\ \A m \in Member : l.choice[m] \in Onward[k.choice[m]]

Sound(d) == \A i \in DOMAIN d.evidence : SoundCase(d.evidence[i])

\* The ballots of a case wait for the accounts that hold the names now.
Fresh(k) == \A m \in Member : k.choice[m] = "uncast" => holder[m] = k.electors[m]

\* A request may take the cases of the duty d to those of e.
BallotStep(d, e) ==
    /\ Sound(e)
    /\ \A i \in DOMAIN d.evidence :
          i \in DOMAIN e.evidence /\ CaseStep(d.evidence[i], e.evidence[i])
    /\ \A i \in DOMAIN e.evidence \ DOMAIN d.evidence : Fresh(e.evidence[i])

-----------------------------------------------------------------------------
(* What happens to one case.                                               *)

LEMMA VotersAreFinite ==
    ASSUME NEW k
    PROVE  IsFiniteSet(Voters(k)) /\ Cardinality(Voters(k)) \in Nat
<1>1. IsFiniteSet(Voters(k))
  BY FS_Subset, MembersFinite DEF Voters
<1> QED BY <1>1, FS_CardinalityType

LEMMA AcceptsAreCounted ==
    ASSUME NEW k
    PROVE  Accepts(k) \in Nat
<1>1. IsFiniteSet({m \in Member : k.choice[m] = "accept"})
  BY FS_Subset, MembersFinite
<1> QED BY <1>1, FS_CardinalityType DEF Accepts

LEMMA SameCase ==
    ASSUME NEW k \in Case
    PROVE  CaseStep(k, k)
BY DEF CaseStep, Case, Onward

LEMMA StepsCompose ==
    ASSUME NEW k \in Case, NEW l \in Case, NEW j, CaseStep(k, l), CaseStep(l, j)
    PROVE  CaseStep(k, j)
<1>1. \A m \in Member : k.choice[m] \in {"none", "uncast", "accept", "veto"}
  BY DEF Case
<1>2. \A m \in Member : j.choice[m] \in Onward[k.choice[m]]
  BY <1>1 DEF CaseStep, Onward
<1> QED BY <1>2 DEF CaseStep

\* A case is sound once closed, when its outcome is justified.
LEMMA ClosingCase ==
    ASSUME NEW k \in Case, Counted(k), Owned(k), RuledVetoes(k),
           NEW decision \in {"accepted", "rejected"}, NEW r \in Resolution, NEW at \in Int,
           Justified(ClosedCase(k, decision, r, at))
    PROVE  SoundCase(ClosedCase(k, decision, r, at)) /\ CaseStep(k, ClosedCase(k, decision, r, at))
<1> DEFINE l == ClosedCase(k, decision, r, at)
<1>1. /\ l.status = decision /\ l.eligible = k.eligible /\ l.choice = k.choice
      /\ l.castBy = k.castBy /\ l.ruling = k.ruling /\ l.electors = k.electors
  BY DEF ClosedCase, Case
<1> HIDE DEF l
<1>2. l.status \notin LIVE \union {"superseded"}
  BY <1>1 DEF LIVE
<1>3. Voters(l) = Voters(k)
  BY <1>1 DEF Voters
<1>4. Counted(l) /\ Owned(l) /\ RuledVetoes(l)
  BY <1>1, <1>3 DEF Counted, Owned, RuledVetoes
<1>5. Voting(l) /\ Reviewed(l) /\ Unresolved(l) /\ l.status # "open"
  BY <1>2 DEF Voting, Reviewed, Unresolved, LIVE
<1>6. CaseStep(k, l)
  BY <1>1, <1>2, SameCase DEF CaseStep
<1> QED BY <1>4, <1>5, <1>6 DEF SoundCase, Consistent, l

\* The outcomes the members' votes and the clock justify.
LEMMA JustifiedClose ==
    ASSUME NEW k \in Case, k.status = "open", Voting(k), Unresolved(k), NEW at \in Int
    PROVE  /\ Majority(Accepts(k), k.eligible) =>
                 Justified(ClosedCase(k, "accepted", "majority", at))
           /\ at >= ClosesAt(k) => Justified(ClosedCase(k, "accepted", "auto", at))
<1> DEFINE l(r) == ClosedCase(k, "accepted", r, at)
<1>1. \A r \in Resolution :
        /\ l(r).resolution = r /\ l(r).resolvedAt = at /\ l(r).eligible = k.eligible
        /\ l(r).choice = k.choice /\ l(r).ruling = k.ruling /\ l(r).submittedAt = k.submittedAt
  BY DEF ClosedCase, Case
<1>2. \A r \in Resolution : {m \in Member : l(r).ruling[m] \in {"pending", "upheld"}} = {}
  BY <1>1 DEF Voting, Unresolved, LIVE
<1>3. \A r \in Resolution : Accepts(l(r)) = Accepts(k) /\ ClosesAt(l(r)) = ClosesAt(k)
  BY <1>1 DEF Accepts, ClosesAt
<1>4. "majority" \in Resolution /\ "auto" \in Resolution
  BY DEF Resolution
<1> HIDE DEF l
<1>5. Majority(Accepts(k), k.eligible) => Justified(l("majority"))
  BY <1>1, <1>2, <1>3, <1>4 DEF Justified
<1>6. at >= ClosesAt(k) => Justified(l("auto"))
  BY <1>1, <1>2, <1>3, <1>4 DEF Justified
<1> QED BY <1>5, <1>6 DEF l

LEMMA SupersedingCase ==
    ASSUME NEW k \in Case, SoundCase(k), k.status \in LIVE
    PROVE  SoundCase(SupersededCase(k)) /\ CaseStep(k, SupersededCase(k))
<1> DEFINE l == SupersededCase(k)
<1>1. /\ l.status = "superseded" /\ l.eligible = k.eligible /\ l.choice = k.choice
      /\ l.castBy = k.castBy /\ l.ruling = k.ruling /\ l.electors = k.electors
      /\ l.resolution = k.resolution
  BY DEF SupersededCase, Case
<1> HIDE DEF l
<1>2. l.status \notin LIVE /\ l.resolution = "none"
  BY <1>1 DEF LIVE, SoundCase, Consistent, Unresolved
<1>3. Counted(l) /\ Owned(l) /\ RuledVetoes(l)
  BY <1>1 DEF SoundCase, Consistent, Counted, Owned, RuledVetoes, Voters
<1>4. Voting(l) /\ Reviewed(l) /\ Unresolved(l) /\ Justified(l) /\ l.status # "open"
  BY <1>2 DEF Voting, Reviewed, Unresolved, Justified, LIVE
<1>5. CaseStep(k, l)
  BY <1>1, <1>2, SameCase DEF CaseStep
<1> QED BY <1>3, <1>4, <1>5 DEF SoundCase, Consistent, l

\* The case k with m's accept, cast by a.
Accepted(k, m, a) == [k EXCEPT !.choice[m] = "accept", !.castBy[m] = a]

LEMMA AcceptingCase ==
    ASSUME NEW k \in Case, SoundCase(k), k.status = "open", NEW m \in Member,
           NEW a \in Account, k.choice[m] \in {"uncast", "accept"}, a = k.electors[m]
    PROVE  LET l == Accepted(k, m, a) IN
           /\ l \in Case /\ Consistent(l) /\ CaseStep(k, l) /\ l.status = "open"
           /\ l.link = k.link /\ l.submitter = k.submitter
           /\ l.submittedAt = k.submittedAt /\ l.claimedAt = k.claimedAt
<1> DEFINE l == Accepted(k, m, a)
<1>1. /\ l \in Case /\ l.status = "open" /\ l.eligible = k.eligible /\ l.ruling = k.ruling
      /\ l.electors = k.electors /\ l.resolution = k.resolution
      /\ l.link = k.link /\ l.submitter = k.submitter
      /\ l.submittedAt = k.submittedAt /\ l.claimedAt = k.claimedAt
      /\ \A n \in Member : /\ l.choice[n] = IF n = m THEN "accept" ELSE k.choice[n]
                           /\ l.castBy[n] = IF n = m THEN a ELSE k.castBy[n]
  BY DEF Accepted, Case
<1> HIDE DEF l
<1>2. Voters(l) = Voters(k)
  BY <1>1 DEF Voters
<1>3. Counted(l) /\ Voting(l) /\ Unresolved(l) /\ Reviewed(l)
  BY <1>1, <1>2 DEF SoundCase, Consistent, Counted, Voting, Unresolved, Reviewed, LIVE
<1>4. Justified(l)
  BY <1>1, <1>3 DEF Justified, Unresolved, LIVE
<1>5. Owned(l) /\ RuledVetoes(l)
  BY <1>1, AccountsFinite DEF SoundCase, Consistent, Owned, RuledVetoes
<1>6. CaseStep(k, l)
  <2>1. \A n \in Member : k.choice[n] \in {"none", "uncast", "accept", "veto"}
    BY DEF Case
  <2>2. \A n \in Member : l.choice[n] \in Onward[k.choice[n]]
    BY <1>1, <2>1 DEF Onward
  <2> QED BY <1>1, <2>2 DEF CaseStep
<1> QED BY <1>1, <1>3, <1>4, <1>5, <1>6 DEF Consistent, l

\* The case k with m's veto, cast by a.
Vetoed(k, m, a) ==
    [k EXCEPT !.choice[m] = "veto", !.castBy[m] = a, !.ruling[m] = "pending",
              !.status = "in_review"]

LEMMA VetoingCase ==
    ASSUME NEW k \in Case, SoundCase(k), k.status = "open", NEW m \in Member,
           NEW a \in Account, k.choice[m] \in {"uncast", "accept"}, a = k.electors[m]
    PROVE  LET l == Vetoed(k, m, a) IN
           /\ l \in Case /\ SoundCase(l) /\ CaseStep(k, l) /\ l.status \in LIVE
           /\ l.link = k.link /\ l.submitter = k.submitter
           /\ l.submittedAt = k.submittedAt /\ l.claimedAt = k.claimedAt
<1> DEFINE l == Vetoed(k, m, a)
<1>1. /\ l \in Case /\ l.status = "in_review" /\ l.eligible = k.eligible
      /\ l.electors = k.electors /\ l.resolution = k.resolution
      /\ l.link = k.link /\ l.submitter = k.submitter
      /\ l.submittedAt = k.submittedAt /\ l.claimedAt = k.claimedAt
      /\ \A n \in Member : /\ l.choice[n] = IF n = m THEN "veto" ELSE k.choice[n]
                           /\ l.castBy[n] = IF n = m THEN a ELSE k.castBy[n]
                           /\ l.ruling[n] = IF n = m THEN "pending" ELSE k.ruling[n]
  BY DEF Vetoed, Case, CaseStatus, LIVE
<1> HIDE DEF l
<1>2. Voters(l) = Voters(k)
  BY <1>1 DEF Voters
<1>3. Counted(l) /\ Voting(l) /\ Unresolved(l)
  BY <1>1, <1>2 DEF SoundCase, Consistent, Counted, Voting, Unresolved, LIVE
<1>4. Reviewed(l)
  BY <1>1 DEF SoundCase, Consistent, Voting, Reviewed
<1>5. Justified(l)
  BY <1>1, <1>3 DEF Justified, Unresolved, LIVE
<1>6. Owned(l) /\ RuledVetoes(l)
  BY <1>1, AccountsFinite DEF SoundCase, Consistent, Owned, RuledVetoes
<1>7. CaseStep(k, l)
  <2>1. \A n \in Member : k.choice[n] \in {"none", "uncast", "accept", "veto"}
    BY DEF Case
  <2>2. \A n \in Member : l.choice[n] \in Onward[k.choice[n]]
    BY <1>1, <2>1 DEF Onward
  <2> QED BY <1>1, <2>2 DEF CaseStep, LIVE
<1> QED BY <1>1, <1>3, <1>4, <1>5, <1>6, <1>7 DEF SoundCase, Consistent, LIVE, l
\* The case k with v's veto dismissed: back to the voters.
Dismissed(k, v) == [k EXCEPT !.ruling[v] = "dismissed", !.status = "open"]

LEMMA DismissingCase ==
    ASSUME NEW k \in Case, SoundCase(k), k.status = "in_review", NEW v \in Member,
           k.ruling[v] = "pending"
    PROVE  LET l == Dismissed(k, v) IN
           /\ l \in Case /\ Consistent(l) /\ CaseStep(k, l) /\ l.status = "open"
           /\ l.link = k.link /\ l.submitter = k.submitter
           /\ l.submittedAt = k.submittedAt /\ l.claimedAt = k.claimedAt
<1> DEFINE l == Dismissed(k, v)
<1>1. /\ l \in Case /\ l.status = "open" /\ l.eligible = k.eligible /\ l.choice = k.choice
      /\ l.castBy = k.castBy /\ l.electors = k.electors /\ l.resolution = k.resolution
      /\ l.link = k.link /\ l.submitter = k.submitter
      /\ l.submittedAt = k.submittedAt /\ l.claimedAt = k.claimedAt
      /\ \A n \in Member : l.ruling[n] = IF n = v THEN "dismissed" ELSE k.ruling[n]
  BY DEF Dismissed, Case, CaseStatus, LIVE
<1> HIDE DEF l
<1>2. Voters(l) = Voters(k)
  BY <1>1 DEF Voters
<1>3. k.choice[v] = "veto"
  BY DEF SoundCase, Consistent, RuledVetoes
<1>4. k.eligible > 0
  <2>1. Voters(k) # {}
    BY <1>3 DEF Voters
  <2>2. Cardinality(Voters(k)) # 0
    BY <2>1, VotersAreFinite, FS_EmptySet
  <2> QED BY <2>2, VotersAreFinite DEF SoundCase, Consistent, Counted
<1>5. Counted(l) /\ Owned(l) /\ RuledVetoes(l) /\ Unresolved(l) /\ Reviewed(l)
  BY <1>1, <1>2, <1>3
     DEF SoundCase, Consistent, Counted, Owned, RuledVetoes, Unresolved, Reviewed, LIVE
<1>6. Voting(l)
  BY <1>1, <1>4 DEF SoundCase, Consistent, Reviewed, Voting
<1>7. Justified(l)
  BY <1>1, <1>5 DEF Justified, Unresolved, LIVE
<1>8. CaseStep(k, l)
  BY <1>1, SameCase DEF CaseStep, LIVE
<1> QED BY <1>1, <1>5, <1>6, <1>7, <1>8 DEF Consistent, l

\* The case k with v's veto upheld, and closed for it.
LEMMA UpholdingCase ==
    ASSUME NEW k \in Case, SoundCase(k), k.status = "in_review", NEW v \in Member,
           k.ruling[v] = "pending", NEW at \in Int
    PROVE  LET l == ClosedCase([k EXCEPT !.ruling[v] = "upheld"], "rejected", "veto_upheld", at)
           IN  SoundCase(l) /\ CaseStep(k, l)
<1> DEFINE u == [k EXCEPT !.ruling[v] = "upheld"]
           l == ClosedCase(u, "rejected", "veto_upheld", at)
<1>1. /\ u \in Case /\ u.eligible = k.eligible /\ u.choice = k.choice /\ u.status = k.status
      /\ u.castBy = k.castBy /\ u.electors = k.electors
      /\ \A n \in Member : u.ruling[n] = IF n = v THEN "upheld" ELSE k.ruling[n]
  BY DEF Case
<1>2. Voters(u) = Voters(k)
  BY <1>1 DEF Voters
<1>3. Counted(u) /\ Owned(u) /\ RuledVetoes(u)
  BY <1>1, <1>2 DEF SoundCase, Consistent, Counted, Owned, RuledVetoes
<1>4. l.resolution = "veto_upheld" /\ l.status = "rejected" /\ l.ruling = u.ruling
  BY <1>1 DEF ClosedCase, Case
<1>5. Justified(l)
  BY <1>1, <1>4 DEF Justified
<1>6. SoundCase(l) /\ CaseStep(u, l)
  BY <1>1, <1>3, <1>5, ClosingCase DEF Resolution
<1>7. CaseStep(k, l)
  BY <1>1, <1>6 DEF CaseStep
<1> QED BY <1>6, <1>7

\* The case k without the ballot m has not cast.
Without(k, m) == [k EXCEPT !.choice[m] = "none", !.eligible = k.eligible - 1]

LEMMA WithdrawingBallot ==
    ASSUME NEW k \in Case, SoundCase(k), k.status \in LIVE, NEW m \in Member,
           k.choice[m] = "uncast"
    PROVE  LET l == Without(k, m) IN
           /\ l \in Case /\ l.status = k.status /\ l.eligible = k.eligible - 1
           /\ l.eligible \in Nat
           /\ Reviewed(l) /\ Justified(l) /\ Counted(l) /\ Owned(l) /\ RuledVetoes(l) /\ Unresolved(l)
           /\ \A n \in Member : l.ruling[n] = k.ruling[n]
           /\ CaseStep(k, l) /\ l.choice[m] = "none"
           /\ l.link = k.link /\ l.submitter = k.submitter
           /\ l.submittedAt = k.submittedAt /\ l.claimedAt = k.claimedAt
<1> DEFINE l == Without(k, m)
           smaller == k.eligible - 1
           left == [k.choice EXCEPT ![m] = "none"]
<1>0. /\ smaller \in Int /\ left \in [Member -> {"none", "uncast", "accept", "veto"}]
      /\ \A n \in Member : left[n] = IF n = m THEN "none" ELSE k.choice[n]
  BY DEF Case
<1>1. /\ l \in Case /\ l.status = k.status /\ l.eligible = k.eligible - 1
      /\ l.electors = k.electors /\ l.resolution = k.resolution
      /\ l.castBy = k.castBy /\ l.ruling = k.ruling
      /\ l.link = k.link /\ l.submitter = k.submitter
      /\ l.submittedAt = k.submittedAt /\ l.claimedAt = k.claimedAt
      /\ \A n \in Member : l.choice[n] = IF n = m THEN "none" ELSE k.choice[n]
  <2>1. Without(k, m) = [k EXCEPT !.choice = left, !.eligible = smaller]
    BY DEF Without
  <2> HIDE DEF left, smaller
  <2>2. l \in Case /\ l.choice = left /\ l.eligible = smaller
    BY <1>0, <2>1 DEF Case
  <2>3. /\ l.status = k.status /\ l.electors = k.electors /\ l.resolution = k.resolution
        /\ l.castBy = k.castBy /\ l.ruling = k.ruling
        /\ l.link = k.link /\ l.submitter = k.submitter
        /\ l.submittedAt = k.submittedAt /\ l.claimedAt = k.claimedAt
    BY <2>1 DEF Case
  <2> QED BY <1>0, <2>2, <2>3 DEF smaller
<1> HIDE DEF l
<1>2. Voters(l) = Voters(k) \ {m} /\ m \in Voters(k)
  BY <1>1 DEF Voters
<1>3. Cardinality(Voters(l)) = Cardinality(Voters(k)) - 1
  BY <1>2, VotersAreFinite, FS_RemoveElement
<1>4. Counted(l) /\ l.eligible \in Nat
  BY <1>1, <1>3, VotersAreFinite DEF SoundCase, Consistent, Counted
<1>5. Reviewed(l) /\ Owned(l) /\ RuledVetoes(l) /\ Unresolved(l)
  BY <1>1 DEF SoundCase, Consistent, Owned, RuledVetoes, Unresolved, Reviewed, LIVE
<1>6. Justified(l)
  BY <1>1, <1>5 DEF Justified, Unresolved, LIVE
<1>7. CaseStep(k, l)
  <2>1. \A n \in Member : k.choice[n] \in {"none", "uncast", "accept", "veto"}
    BY DEF Case
  <2>2. \A n \in Member : l.choice[n] \in Onward[k.choice[n]]
    BY <1>1, <2>1 DEF Onward
  <2> QED BY <1>1, <2>2 DEF CaseStep
<1> QED BY <1>1, <1>4, <1>5, <1>6, <1>7 DEF l

\* The case a submission opens.
LEMMA OpeningCase ==
    ASSUME TypeOK, NEW d, NEW submitter \in Member, NEW claimedAt \in Time \union {Never}
    PROVE  LET k == NewCase(d, submitter, claimedAt)
               l == ClosedCase(k, "accepted", "no_voters", now)
           IN  /\ Fresh(k) /\ Fresh(l)
               /\ Claimed \ {d.subject, submitter} # {} => SoundCase(k)
               /\ Claimed \ {d.subject, submitter} = {} => SoundCase(l)
<1> DEFINE k == NewCase(d, submitter, claimedAt)
           l == ClosedCase(k, "accepted", "no_voters", now)
           electorate == Claimed \ {d.subject, submitter}
<1>1. k \in Case /\ k.status = "open"
  BY NewCaseType DEF TypeOK, MembersOK
<1>2. /\ k.resolution = "none" /\ k.eligible = Cardinality(electorate)
      /\ \A m \in Member : /\ k.choice[m] = IF m \in electorate THEN "uncast" ELSE "none"
                           /\ k.ruling[m] = "none"
                           /\ k.electors[m] = IF m \in electorate THEN holder[m] ELSE NoAccount
  BY DEF NewCase
<1> HIDE DEF k
<1>3. electorate \subseteq Member /\ \A m \in electorate : holder[m] # NoAccount
  BY DEF Claimed, TypeOK
<1>4. Voters(k) = electorate
  BY <1>2, <1>3 DEF Voters
<1>5. {m \in Member : k.choice[m] = "accept"} = {}
  BY <1>2
<1>6. Accepts(k) = 0
  BY <1>5, FS_EmptySet DEF Accepts
<1>7. Cardinality(electorate) \in Nat /\ (electorate # {} => Cardinality(electorate) > 0)
  BY <1>4, VotersAreFinite, FS_EmptySet
<1>8. Counted(k) /\ Owned(k) /\ RuledVetoes(k) /\ Unresolved(k) /\ Reviewed(k) /\ Fresh(k)
  BY <1>1, <1>2, <1>3, <1>4
     DEF Counted, Owned, RuledVetoes, Unresolved, Reviewed, Fresh, LIVE
<1>9. Justified(k)
  BY <1>2 DEF Justified
<1>10. ASSUME electorate # {} PROVE SoundCase(k)
  BY <1>2, <1>6, <1>7, <1>8, <1>9, <1>10 DEF SoundCase, Consistent, Voting, Majority
<1>11. /\ l.choice = k.choice /\ l.ruling = k.ruling /\ l.electors = k.electors
       /\ l.resolution = "no_voters" /\ l.eligible = k.eligible
  BY <1>1 DEF ClosedCase, Case
<1>12. Fresh(l)
  BY <1>8, <1>11 DEF Fresh
<1>13. ASSUME electorate = {} PROVE SoundCase(l)
  <2>1. Justified(l)
    BY <1>2, <1>11, <1>13, FS_EmptySet DEF Justified
  <2>2. now \in Int /\ "no_voters" \in Resolution
    BY BoundsAreNatural DEF TypeOK, Time, Resolution
  <2> HIDE DEF l
  <2> QED BY <1>1, <1>8, <2>1, <2>2, ClosingCase DEF l
<1> QED BY <1>8, <1>10, <1>12, <1>13 DEF k

-----------------------------------------------------------------------------
(* What happens to one duty.                                               *)

LEMMA OneCaseStep ==
    ASSUME NEW d \in DutyRecord, Sound(d), NEW e, NEW i, OnlyCase(d, e, i),
           SoundCase(e.evidence[i]), CaseStep(d.evidence[i], e.evidence[i])
    PROVE  BallotStep(d, e)
<1>1. \A j \in DOMAIN d.evidence : CaseStep(d.evidence[j], d.evidence[j])
  BY EvidenceIsSeq, SameCase
<1> QED BY <1>1 DEF BallotStep, Sound, OnlyCase

LEMMA OnlyCaseTwice ==
    ASSUME NEW d, NEW e, NEW f, NEW i, OnlyCase(d, e, i), OnlyCase(e, f, i)
    PROVE  OnlyCase(d, f, i)
BY DEF OnlyCase

LEMMA NoBallotSteps ==
    ASSUME NEW d \in DutyRecord, Sound(d)
    PROVE  BallotStep(d, d)
BY EvidenceIsSeq, SameCase DEF BallotStep, Sound

LEMMA TouchedResult ==
    ASSUME NEW d \in DutyRecord, DutyInv(d), NEW i \in DOMAIN d.evidence, NEW k \in Case,
           d.evidence[i].status \in LIVE, k.status \in LIVE,
           k.link = d.evidence[i].link, k.submitter = d.evidence[i].submitter,
           k.submittedAt = d.evidence[i].submittedAt, k.claimedAt = d.evidence[i].claimedAt
    PROVE  LET e == Touched(d, i, k) IN
           /\ e \in DutyRecord /\ DutyInv(e) /\ OnlyCase(d, e, i) /\ e.evidence[i] = k
<1> DEFINE e == Touched(d, i, k)
<1>1. DutyStep(d, e) /\ e.evidence[i] = k
  BY TouchedStep
<1>2. e = Updated(d, d.status, d.completedAt, i, k)
  BY DEF Touched, Updated, DutyRecord
<1>3. d.status \in DutyStatus /\ d.completedAt \in Time \union {Never}
  BY DEF DutyRecord
<1> HIDE DEF e
<1>4. OnlyCase(d, e, i)
  BY <1>2, <1>3, ReplaceCase
<1> QED BY <1>1, <1>4 DEF DutyStep, e

LEMMA CloseResult ==
    ASSUME NEW d \in DutyRecord, DutyInv(d), NEW i \in DOMAIN d.evidence,
           NEW decision \in {"accepted", "rejected"}, NEW r \in Resolution, NEW at \in Int,
           d.evidence[i].status \in LIVE
    PROVE  LET e == Close(d, i, decision, r, at) IN
           OnlyCase(d, e, i) /\ e.evidence[i] = ClosedCase(d.evidence[i], decision, r, at)
<1>1. d.status = "open" /\ d.evidence[i].link = "pending"
  BY DEF DutyInv, Decidable
<1> QED BY <1>1, DecisionResult DEF Close

\* The vote has been recorded in e, and is counted.
LEMMA CountingVotes ==
    ASSUME TypeOK, NEW e \in DutyRecord, DutyInv(e), NEW i \in DOMAIN e.evidence,
           Consistent(e.evidence[i]), e.evidence[i].status = "open"
    PROVE  LET f == AcceptIfMajority(e, i) IN
           /\ OnlyCase(e, f, i) /\ SoundCase(f.evidence[i])
           /\ CaseStep(e.evidence[i], f.evidence[i])
           /\ f = e \/ f.evidence[i].status \notin LIVE
<1> DEFINE k == e.evidence[i]
<1>1. k \in Case
  BY EvidenceIsSeq
<1>2. "majority" \in Resolution /\ now \in Int
  BY BoundsAreNatural DEF TypeOK, Time, Resolution
<1>3. CASE Majority(Accepts(k), k.eligible)
  <2> DEFINE f == Close(e, i, "accepted", "majority", now)
  <2>1. OnlyCase(e, f, i) /\ f.evidence[i] = ClosedCase(k, "accepted", "majority", now)
    BY <1>2, CloseResult DEF LIVE
  <2>2. Justified(ClosedCase(k, "accepted", "majority", now))
    BY <1>1, <1>2, <1>3, JustifiedClose DEF Consistent
  <2>3. SoundCase(f.evidence[i]) /\ CaseStep(k, f.evidence[i])
    BY <1>1, <1>2, <2>1, <2>2, ClosingCase DEF Consistent
  <2>4. f.evidence[i].status = "accepted"
    BY <1>1, <2>1 DEF ClosedCase, Case
  <2> QED BY <1>3, <2>1, <2>3, <2>4 DEF AcceptIfMajority, LIVE
<1>4. CASE ~Majority(Accepts(k), k.eligible)
  <2>1. OnlyCase(e, e, i)
    BY DEF OnlyCase
  <2> QED BY <1>1, <1>4, <2>1, SameCase DEF AcceptIfMajority, SoundCase
<1> QED BY <1>3, <1>4
LEMMA SettleBallots ==
    ASSUME NEW d \in DutyRecord, DutyInv(d), Sound(d)
    PROVE  BallotStep(d, SettleIfDue(d)) /\ DOMAIN SettleIfDue(d).evidence = DOMAIN d.evidence
<1>1. CASE Due(d) = {}
  BY <1>1, NoBallotSteps DEF SettleIfDue
<1>2. CASE Due(d) # {}
  <2> DEFINE i == CHOOSE j \in Due(d) : TRUE
  <2>1. i \in Due(d)
    BY <1>2
  <2> HIDE DEF i
  <2> DEFINE k == d.evidence[i]
             e == Close(d, i, "accepted", "auto", ClosesAt(k))
  <2>2. i \in DOMAIN d.evidence /\ k.status = "open" /\ k \in Case
    BY <2>1, EvidenceIsSeq DEF Due
  <2>3. ClosesAt(k) \in Int /\ "auto" \in Resolution
    BY <2>2, BoundsAreNatural DEF ClosesAt, Case, Time, Resolution
  <2>4. OnlyCase(d, e, i) /\ e.evidence[i] = ClosedCase(k, "accepted", "auto", ClosesAt(k))
    BY <2>2, <2>3, CloseResult DEF LIVE
  <2>5. Consistent(k)
    BY <2>2 DEF Sound, SoundCase
  <2>6. ClosesAt(k) >= ClosesAt(k)
    BY <2>3
  <2> HIDE DEF e
  <2>7. Justified(ClosedCase(k, "accepted", "auto", ClosesAt(k)))
    BY <2>2, <2>3, <2>5, <2>6, JustifiedClose DEF Consistent
  <2>8. SoundCase(e.evidence[i]) /\ CaseStep(k, e.evidence[i])
    BY <2>2, <2>3, <2>4, <2>5, <2>7, ClosingCase DEF Consistent
  <2>9. BallotStep(d, e)
    BY <2>4, <2>8, OneCaseStep
  <2> QED BY <1>2, <2>4, <2>9 DEF SettleIfDue, i, e, OnlyCase
<1> QED BY <1>1, <1>2

LEMMA VoidBallots ==
    ASSUME NEW d \in DutyRecord, DutyInv(d), Sound(d), now \in Time
    PROVE  BallotStep(d, VoidDutyRow(d))
<1> DEFINE e == SupersedePending(d, 0)
<1>1. VoidDutyRow(d) = [e EXCEPT !.status = "voided"]
  BY DEF VoidDutyRow, SupersedePending, DutyRecord
<1>2. /\ e \in DutyRecord
      /\ DOMAIN e.evidence = DOMAIN d.evidence
      /\ \A i \in DOMAIN d.evidence :
            e.evidence[i] = IF d.evidence[i].status \in LIVE THEN SupersededCase(d.evidence[i])
                            ELSE d.evidence[i]
  BY SupersedeAll
<1> HIDE DEF e
<1>3. VoidDutyRow(d).evidence = e.evidence
  BY <1>1, <1>2 DEF DutyRecord
<1>4. \A i \in DOMAIN d.evidence :
        SoundCase(e.evidence[i]) /\ CaseStep(d.evidence[i], e.evidence[i])
  BY <1>2, EvidenceIsSeq, SupersedingCase, SameCase DEF Sound
<1> QED BY <1>2, <1>3, <1>4 DEF BallotStep, Sound

LEMMA OpenCaseBallots ==
    ASSUME TypeOK, NEW d \in DutyRecord, DutyInv(d), Sound(d), d.status = "open",
           NEW submitter \in Member, NEW claimedAt \in Time \union {Never},
           submitter # d.subject => claimedAt <= now
    PROVE  BallotStep(d, OpenCase(d, submitter, claimedAt))
<1> DEFINE e == OpenCase(d, submitter, claimedAt)
           k == NewCase(d, submitter, claimedAt)
           n == Len(d.evidence) + 1
           l == IF Claimed \ {d.subject, submitter} = {}
                THEN ClosedCase(k, "accepted", "no_voters", now) ELSE k
<1>1. OpenedWith(d, e, l)
  BY OpenCaseStep DEF TypeOK, MembersOK
<1>2. SoundCase(l) /\ Fresh(l)
  BY OpeningCase
<1> HIDE DEF e, l
<1>3. DOMAIN d.evidence = 1 .. (n - 1) /\ n \in Nat \ {0}
  BY EvidenceIsSeq
<1>4. DOMAIN e.evidence = 1 .. n /\ e.evidence[n] = l
  BY <1>1 DEF OpenedWith
<1>5. \A i \in DOMAIN d.evidence :
        SoundCase(e.evidence[i]) /\ CaseStep(d.evidence[i], e.evidence[i])
  BY <1>1, EvidenceIsSeq, SupersedingCase, SameCase DEF Sound, OpenedWith
<1>6. \A i \in DOMAIN e.evidence : i \in DOMAIN d.evidence \/ i = n
  BY <1>3, <1>4
<1>7. \A i \in DOMAIN d.evidence : i \in DOMAIN e.evidence
  BY <1>3, <1>4
<1> QED BY <1>2, <1>4, <1>5, <1>6, <1>7 DEF BallotStep, Sound, e

\* The caller a may vote as m: the ballot waits for the account, or is the account's.
MayCast(k, m, a) ==
    k.status = "open" /\ k.choice[m] \in {"uncast", "accept"} /\ a = k.electors[m]

LEMMA CastAcceptBallots ==
    ASSUME TypeOK, NEW d \in DutyRecord, DutyInv(d), Sound(d), NEW i \in DOMAIN d.evidence,
           NEW m \in Member, NEW a \in Account, MayCast(d.evidence[i], m, a)
    PROVE  BallotStep(d, CastAccept(d, i, m, a))
<1> DEFINE k == d.evidence[i]
           l == Accepted(k, m, a)
           e == Touched(d, i, l)
           f == AcceptIfMajority(e, i)
<1>1. k \in Case /\ SoundCase(k) /\ k.status \in LIVE
  BY EvidenceIsSeq DEF Sound, MayCast, LIVE
<1>2. /\ l \in Case /\ Consistent(l) /\ CaseStep(k, l) /\ l.status = "open"
      /\ l.link = k.link /\ l.submitter = k.submitter
      /\ l.submittedAt = k.submittedAt /\ l.claimedAt = k.claimedAt
  BY <1>1, AcceptingCase DEF MayCast
<1>3. CastAccept(d, i, m, a) = IF k.choice[m] = "accept" THEN d ELSE f
  BY DEF CastAccept, Touched, Accepted
<1> HIDE DEF l
<1>4. e \in DutyRecord /\ DutyInv(e) /\ OnlyCase(d, e, i) /\ e.evidence[i] = l
  BY <1>1, <1>2, TouchedResult DEF LIVE
<1> HIDE DEF e
<1>5. i \in DOMAIN e.evidence
  BY <1>4 DEF OnlyCase
<1>6. OnlyCase(e, f, i) /\ SoundCase(f.evidence[i]) /\ CaseStep(l, f.evidence[i])
  BY <1>2, <1>4, <1>5, CountingVotes
<1> HIDE DEF f
<1>7. OnlyCase(d, f, i)
  BY <1>4, <1>6, OnlyCaseTwice
<1>8. CaseStep(k, f.evidence[i])
  BY <1>1, <1>2, <1>6, StepsCompose
<1>9. BallotStep(d, f)
  BY <1>6, <1>7, <1>8, OneCaseStep
<1> QED BY <1>3, <1>9, NoBallotSteps

LEMMA CastVetoBallots ==
    ASSUME NEW d \in DutyRecord, DutyInv(d), Sound(d), NEW i \in DOMAIN d.evidence,
           NEW m \in Member, NEW a \in Account, MayCast(d.evidence[i], m, a)
    PROVE  BallotStep(d, CastVeto(d, i, m, a))
<1> DEFINE k == d.evidence[i]
           l == Vetoed(k, m, a)
           e == Touched(d, i, l)
<1>1. k \in Case /\ SoundCase(k) /\ k.status \in LIVE
  BY EvidenceIsSeq DEF Sound, MayCast, LIVE
<1>2. /\ l \in Case /\ SoundCase(l) /\ CaseStep(k, l) /\ l.status \in LIVE
      /\ l.link = k.link /\ l.submitter = k.submitter
      /\ l.submittedAt = k.submittedAt /\ l.claimedAt = k.claimedAt
  BY <1>1, VetoingCase DEF MayCast
<1>3. CastVeto(d, i, m, a) = e
  BY DEF CastVeto, Touched, Vetoed
<1> HIDE DEF l
<1>4. OnlyCase(d, e, i) /\ e.evidence[i] = l
  BY <1>1, <1>2, TouchedResult
<1> HIDE DEF e
<1> QED BY <1>2, <1>3, <1>4, OneCaseStep

LEMMA UpholdBallots ==
    ASSUME TypeOK, NEW d \in DutyRecord, DutyInv(d), Sound(d), NEW i \in DOMAIN d.evidence,
           d.evidence[i].status = "in_review", NEW v \in Member,
           d.evidence[i].ruling[v] = "pending"
    PROVE  BallotStep(d, Uphold(d, i, v))
<1> DEFINE k == d.evidence[i]
           u == [k EXCEPT !.ruling[v] = "upheld"]
           e == Touched(d, i, u)
           f == Close(e, i, "rejected", "veto_upheld", now)
<1>1. k \in Case /\ SoundCase(k) /\ k.status \in LIVE
  BY EvidenceIsSeq DEF Sound, LIVE
<1>2. /\ u \in Case /\ u.status \in LIVE
      /\ u.link = k.link /\ u.submitter = k.submitter
      /\ u.submittedAt = k.submittedAt /\ u.claimedAt = k.claimedAt
  BY <1>1 DEF Case
<1>3. now \in Int /\ "veto_upheld" \in Resolution
  BY BoundsAreNatural DEF TypeOK, Time, Resolution
<1>4. LET l == ClosedCase(u, "rejected", "veto_upheld", now) IN SoundCase(l) /\ CaseStep(k, l)
  BY <1>1, <1>3, UpholdingCase
<1>5. Uphold(d, i, v) = f
  BY DEF Uphold, Touched
<1> HIDE DEF u
<1>6. e \in DutyRecord /\ DutyInv(e) /\ OnlyCase(d, e, i) /\ e.evidence[i] = u
  BY <1>1, <1>2, TouchedResult
<1> HIDE DEF e
<1>7. OnlyCase(e, f, i) /\ f.evidence[i] = ClosedCase(u, "rejected", "veto_upheld", now)
  BY <1>2, <1>3, <1>6, CloseResult DEF OnlyCase
<1> HIDE DEF f
<1>8. OnlyCase(d, f, i)
  BY <1>6, <1>7, OnlyCaseTwice
<1> QED BY <1>4, <1>5, <1>7, <1>8, OneCaseStep

LEMMA DismissBallots ==
    ASSUME TypeOK, NEW d \in DutyRecord, DutyInv(d), Sound(d), NEW i \in DOMAIN d.evidence,
           d.evidence[i].status = "in_review", NEW v \in Member,
           d.evidence[i].ruling[v] = "pending"
    PROVE  BallotStep(d, Dismiss(d, i, v))
<1> DEFINE k == d.evidence[i]
           l == Dismissed(k, v)
           e == Touched(d, i, l)
           f(r) == Close(e, i, "accepted", r, now)
<1>1. k \in Case /\ SoundCase(k) /\ k.status \in LIVE
  BY EvidenceIsSeq DEF Sound, LIVE
<1>2. /\ l \in Case /\ Consistent(l) /\ CaseStep(k, l) /\ l.status = "open"
      /\ l.link = k.link /\ l.submitter = k.submitter
      /\ l.submittedAt = k.submittedAt /\ l.claimedAt = k.claimedAt
  BY <1>1, DismissingCase
<1>3. Dismiss(d, i, v)
        = IF Majority(Accepts(e.evidence[i]), e.evidence[i].eligible) THEN f("majority")
          ELSE IF now >= ClosesAt(e.evidence[i]) THEN f("auto") ELSE e
  BY DEF Dismiss, Touched, Dismissed
<1> HIDE DEF l
<1>4. e \in DutyRecord /\ DutyInv(e) /\ OnlyCase(d, e, i) /\ e.evidence[i] = l
  BY <1>1, <1>2, TouchedResult DEF LIVE
<1> HIDE DEF e
<1>5. now \in Int /\ "majority" \in Resolution /\ "auto" \in Resolution
  BY BoundsAreNatural DEF TypeOK, Time, Resolution
<1>6. ASSUME NEW r \in Resolution, Justified(ClosedCase(l, "accepted", r, now))
      PROVE  BallotStep(d, f(r))
  <2>1. OnlyCase(e, f(r), i) /\ f(r).evidence[i] = ClosedCase(l, "accepted", r, now)
    BY <1>2, <1>4, <1>5, CloseResult DEF OnlyCase, LIVE
  <2>2. SoundCase(f(r).evidence[i]) /\ CaseStep(l, f(r).evidence[i])
    BY <1>2, <1>5, <1>6, <2>1, ClosingCase DEF Consistent
  <2>3. OnlyCase(d, f(r), i)
    BY <1>4, <2>1, OnlyCaseTwice
  <2>4. CaseStep(k, f(r).evidence[i])
    BY <1>1, <1>2, <2>2, StepsCompose
  <2> QED BY <2>2, <2>3, <2>4, OneCaseStep
<1> HIDE DEF f
<1>7. CASE Majority(Accepts(l), l.eligible)
  BY <1>2, <1>3, <1>4, <1>5, <1>6, <1>7, JustifiedClose DEF Consistent
<1>8. CASE ~Majority(Accepts(l), l.eligible) /\ now >= ClosesAt(l)
  BY <1>2, <1>3, <1>4, <1>5, <1>6, <1>8, JustifiedClose DEF Consistent
<1>9. CASE ~Majority(Accepts(l), l.eligible) /\ ~(now >= ClosesAt(l))
  BY <1>2, <1>3, <1>4, <1>9, OneCaseStep DEF SoundCase
<1> QED BY <1>7, <1>8, <1>9

LEMMA CaptainDecidesBallots ==
    ASSUME TypeOK, NEW d \in DutyRecord, DutyInv(d), Sound(d), NEW i \in DOMAIN d.evidence,
           d.evidence[i].link = "pending", NEW decision \in {"accepted", "rejected"}
    PROVE  BallotStep(d, CaptainDecides(d, i, decision))
<1> DEFINE k == d.evidence[i]
           l == ClosedCase(k, decision, "captain", now)
           e == CaptainDecides(d, i, decision)
<1>1. k \in Case /\ SoundCase(k) /\ k.status \in LIVE /\ d.status = "open"
  BY EvidenceIsSeq, PendingIsNewest DEF Sound, DutyInv, Decidable
<1>2. now \in Int /\ "captain" \in Resolution
  BY BoundsAreNatural DEF TypeOK, Time, Resolution
<1>3. e = CloseCase(ApplyDecision(d, i, decision), i, decision, "captain", now)
  BY <1>1 DEF CaptainDecides
<1> HIDE DEF e
<1>4. OnlyCase(d, e, i) /\ e.evidence[i] = l
  BY <1>1, <1>2, <1>3, DecisionResult
<1>5. l.resolution = "captain"
  BY <1>1 DEF ClosedCase, Case
<1>6. Justified(l)
  BY <1>5 DEF Justified
<1>7. SoundCase(l) /\ CaseStep(k, l)
  BY <1>1, <1>2, <1>6, ClosingCase DEF SoundCase, Consistent
<1> QED BY <1>4, <1>7, OneCaseStep DEF e

\* Releasing m's name leaves no ballot waiting for m.
LEMMA ReleasedBallots ==
    ASSUME TypeOK, NEW d \in DutyRecord, DutyInv(d), Sound(d), NEW m \in Member
    PROVE  LET e == ReleaseBallots(d, m) IN
           /\ BallotStep(d, e)
           /\ DOMAIN e.evidence = DOMAIN d.evidence
           /\ \A j \in DOMAIN d.evidence :
                 e.evidence[j].status \in LIVE => e.evidence[j].choice[m] # "uncast"
<1> DEFINE uncast == {j \in DOMAIN d.evidence :
                        d.evidence[j].status \in LIVE /\ d.evidence[j].choice[m] = "uncast"}
           i == CHOOSE j \in uncast : TRUE
<1>1. CASE uncast = {}
  BY <1>1, NoBallotSteps DEF ReleaseBallots
<1>2. CASE uncast # {}
  <2>1. i \in DOMAIN d.evidence /\ d.evidence[i].status \in LIVE /\ d.evidence[i].choice[m] = "uncast"
    BY <1>2
  <2>2. ReleaseBallots(d, m) = WithdrawBallot(d, i, m)
    BY <1>2 DEF ReleaseBallots
  <2> HIDE DEF i
  <2> DEFINE k == d.evidence[i]
             l == Without(k, m)
             e == Touched(d, i, l)
             f == WithdrawBallot(d, i, m)
  <2>3. k \in Case /\ SoundCase(k)
    BY <2>1, EvidenceIsSeq DEF Sound
  <2>4. /\ l \in Case /\ l.status = k.status /\ l.eligible = k.eligible - 1
        /\ l.eligible \in Nat
        /\ Reviewed(l) /\ Justified(l) /\ Counted(l) /\ Owned(l) /\ RuledVetoes(l) /\ Unresolved(l)
        /\ \A n \in Member : l.ruling[n] = k.ruling[n]
        /\ CaseStep(k, l) /\ l.choice[m] = "none"
        /\ l.link = k.link /\ l.submitter = k.submitter
        /\ l.submittedAt = k.submittedAt /\ l.claimedAt = k.claimedAt
    BY <2>1, <2>3, WithdrawingBallot
  <2>5. f = IF e.evidence[i].status # "open" THEN e
            ELSE IF k.eligible - 1 = 0 THEN Close(e, i, "accepted", "no_voters", now)
                 ELSE AcceptIfMajority(e, i)
    BY DEF WithdrawBallot, Touched, Without
  <2> HIDE DEF l
  <2>6. e \in DutyRecord /\ DutyInv(e) /\ OnlyCase(d, e, i) /\ e.evidence[i] = l
    BY <2>1, <2>4, TouchedResult
  <2> HIDE DEF e, f
  <2>7. i \in DOMAIN e.evidence
    BY <2>6 DEF OnlyCase
  <2>8. \A n \in Member : l.status = "open" => l.ruling[n] # "pending"
    BY <2>3, <2>4 DEF SoundCase, Consistent, Voting
  <2>9. /\ OnlyCase(e, f, i) /\ SoundCase(f.evidence[i]) /\ CaseStep(l, f.evidence[i])
        /\ f.evidence[i].status \in LIVE => f.evidence[i] = l
    <3>1. CASE l.status # "open"
      <4>1. f = e /\ Voting(l)
        BY <2>5, <2>6, <3>1 DEF Voting
      <4>2. OnlyCase(e, e, i)
        BY <2>6 DEF OnlyCase
      <4> QED BY <2>4, <2>6, <3>1, <4>1, <4>2, SameCase DEF SoundCase, Consistent
    <3>2. CASE l.status = "open" /\ l.eligible = 0
      <4> DEFINE c == ClosedCase(l, "accepted", "no_voters", now)
      <4>1. now \in Int /\ "no_voters" \in Resolution
        BY BoundsAreNatural DEF TypeOK, Time, Resolution
      <4>2. OnlyCase(e, f, i) /\ f.evidence[i] = c
        BY <2>4, <2>5, <2>6, <2>7, <3>2, <4>1, CloseResult DEF LIVE
      <4>3. c.resolution = "no_voters" /\ c.eligible = 0 /\ c.ruling = l.ruling /\ c.status = "accepted"
        BY <2>4, <3>2 DEF ClosedCase, Case
      <4>4. Justified(c)
        BY <2>4, <2>8, <3>2, <4>3 DEF Justified, Unresolved, LIVE
      <4>5. SoundCase(c) /\ CaseStep(l, c)
        BY <2>4, <4>1, <4>4, ClosingCase
      <4> QED BY <4>2, <4>3, <4>5 DEF LIVE
    <3>3. CASE l.status = "open" /\ l.eligible # 0
      <4>1. f = AcceptIfMajority(e, i)
        BY <2>4, <2>5, <2>6, <3>3
      <4>2. Consistent(l)
        <5>0. l.eligible \in Nat
          BY <2>4
        <5>1. l.eligible > 0
          BY <3>3, <5>0
        <5>2. Voting(l)
          BY <2>8, <5>1 DEF Voting
        <5> QED BY <2>4, <5>2 DEF Consistent
      <4> QED BY <2>6, <2>7, <3>3, <4>1, <4>2, CountingVotes
    <3> QED BY <3>1, <3>2, <3>3
  <2>10. OnlyCase(d, f, i)
    BY <2>6, <2>9, OnlyCaseTwice
  <2>11. CaseStep(k, f.evidence[i])
    BY <2>3, <2>4, <2>9, StepsCompose
  <2>12. BallotStep(d, f)
    BY <2>9, <2>10, <2>11, OneCaseStep
  <2>13. \A j \in DOMAIN d.evidence : j # i => d.evidence[j].status \notin LIVE
    BY <2>1 DEF DutyInv, NewestLive
  <2>14. \A j \in DOMAIN d.evidence :
           f.evidence[j].status \in LIVE => f.evidence[j].choice[m] # "uncast"
    BY <2>4, <2>9, <2>10, <2>13 DEF OnlyCase
  <2> QED BY <2>2, <2>10, <2>12, <2>14 DEF OnlyCase, f
<1> QED BY <1>1, <1>2
-----------------------------------------------------------------------------
(* The requests.                                                           *)

\* A ballot in a live case waits for the account that holds the name now.
Awaited ==
    \A d \in Duty : \A i \in DOMAIN duty[d].evidence : \A m \in Member :
        LET k == duty[d].evidence[i] IN
        k.status \in LIVE /\ k.choice[m] = "uncast" => holder[m] = k.electors[m]

\* The inductive invariant of the ballots: IndInv, with sound cases whose ballots wait for the
\* right accounts.
BallotInv == IndInv /\ Awaited /\ \A d \in Duty : Sound(duty[d])

EachBallotSteps == \A d \in Duty : BallotStep(duty[d], duty'[d])

LEMMA SettledBallots ==
    ASSUME BallotInv, NEW d \in Duty
    PROVE  /\ Settled[d] \in DutyRecord /\ DutyInv(Settled[d]) /\ Sound(Settled[d])
           /\ BallotStep(duty[d], Settled[d])
           /\ DOMAIN Settled[d].evidence = DOMAIN duty[d].evidence
           /\ Settled[d].status = "open" => Settled[d] = duty[d]
<1>1. duty[d] \in DutyRecord /\ DutyInv(duty[d]) /\ Sound(duty[d]) /\ Settled[d] = SettleIfDue(duty[d])
  BY DEF BallotInv, IndInv, TypeOK, Settled
<1>2. /\ BallotStep(duty[d], Settled[d])
      /\ DOMAIN Settled[d].evidence = DOMAIN duty[d].evidence
  BY <1>1, SettleBallots
<1> QED BY <1>1, <1>2, SettledStep DEF BallotStep, BallotInv

LEMMA ReadBallots ==
    ASSUME BallotInv, duty' = Settled
    PROVE  EachBallotSteps
BY SettledBallots DEF EachBallotSteps

LEMMA CreateDutyBallots ==
    ASSUME BallotInv, NEW a \in Account, NEW c \in Duty, NEW subject \in Member,
           CreateDuty(a, c, subject)
    PROVE  EachBallotSteps
<1>1. Settled[c] = NoDuty
  BY SettledBallots DEF CreateDuty, DutyInv
<1>2. DOMAIN duty[c].evidence = {} /\ DOMAIN NewDuty(subject).evidence = {}
  BY <1>1, SettledBallots DEF NoDuty, NewDuty
<1>3. BallotStep(duty[c], NewDuty(subject))
  BY <1>2 DEF BallotStep, Sound
<1>4. \A d \in Duty : duty'[d] = IF d = c THEN NewDuty(subject) ELSE Settled[d]
  BY DEF CreateDuty, Settled
<1> QED BY <1>3, <1>4, SettledBallots DEF EachBallotSteps

LEMMA VoidDutyBallots ==
    ASSUME BallotInv, NEW a \in Account, NEW c \in Duty, VoidDuty(a, c)
    PROVE  EachBallotSteps
<1>1. Settled[c].status = "open" /\ now \in Time
  BY DEF VoidDuty, BallotInv, IndInv, TypeOK
<1>2. BallotStep(Settled[c], VoidDutyRow(Settled[c]))
  BY <1>1, SettledBallots, VoidBallots
<1>3. \A d \in Duty : duty'[d] = IF d = c THEN VoidDutyRow(Settled[c]) ELSE Settled[d]
  BY DEF VoidDuty, Settled
<1> QED BY <1>1, <1>2, <1>3, SettledBallots DEF EachBallotSteps

LEMMA RespondBallots ==
    ASSUME BallotInv, NEW a \in Account, NEW c \in Duty, NEW i,
           NEW choice \in {"accept", "veto"}, Respond(a, c, i, choice)
    PROVE  EachBallotSteps
<1> DEFINE k == Settled[c].evidence[i]
<1>1. i \in DOMAIN Settled[c].evidence /\ k.status = "open" /\ TypeOK
  BY DEF Respond, BallotInv, IndInv
<1>2. PICK m \in Member :
        /\ Acting(a, m)
        /\ k.choice[m] = "uncast" \/ (k.choice[m] = "accept" /\ k.castBy[m] = a)
        /\ duty' = [Settled EXCEPT ![c] = IF choice = "accept" THEN CastAccept(Settled[c], i, m, a)
                                          ELSE CastVeto(Settled[c], i, m, a)]
  BY DEF Respond
<1>3. Settled[c].status = "open" /\ Settled[c] = duty[c]
  BY <1>1, SettledBallots DEF DutyInv, Decidable, LIVE
<1>4. holder[m] = a
  BY <1>2, MembersFinite DEF Acting
<1>5. MayCast(k, m, a)
  <2>1. CASE k.choice[m] = "uncast"
    BY <1>1, <1>3, <1>4, <2>1 DEF MayCast, BallotInv, Awaited, LIVE
  <2>2. CASE k.choice[m] = "accept" /\ k.castBy[m] = a
    BY <1>1, <2>2, SettledBallots DEF MayCast, Sound, SoundCase, Consistent, Owned
  <2> QED BY <1>2, <2>1, <2>2
<1>6. BallotStep(Settled[c], CastAccept(Settled[c], i, m, a))
  BY <1>1, <1>5, SettledBallots, CastAcceptBallots
<1>7. BallotStep(Settled[c], CastVeto(Settled[c], i, m, a))
  BY <1>1, <1>5, SettledBallots, CastVetoBallots
<1>8. \A d \in Duty : duty'[d] = IF d # c THEN Settled[d]
                                 ELSE IF choice = "accept" THEN CastAccept(Settled[c], i, m, a)
                                      ELSE CastVeto(Settled[c], i, m, a)
  BY <1>2 DEF Settled
<1> QED BY <1>3, <1>6, <1>7, <1>8, SettledBallots DEF EachBallotSteps

LEMMA ReviewBallots ==
    ASSUME BallotInv, NEW a \in Account, NEW c \in Duty, NEW i,
           NEW ruling \in {"upheld", "dismissed"}, Review(a, c, i, ruling)
    PROVE  EachBallotSteps
<1>1. i \in DOMAIN Settled[c].evidence /\ Settled[c].evidence[i].status = "in_review" /\ TypeOK
  BY DEF Review, BallotInv, IndInv
<1>2. PICK v \in Member :
        /\ Settled[c].evidence[i].ruling[v] = "pending"
        /\ duty' = [Settled EXCEPT ![c] = IF ruling = "upheld" THEN Uphold(Settled[c], i, v)
                                          ELSE Dismiss(Settled[c], i, v)]
  BY DEF Review
<1>3. Settled[c].status = "open" /\ Settled[c] = duty[c]
  BY <1>1, SettledBallots DEF DutyInv, Decidable, LIVE
<1>4. BallotStep(Settled[c], Uphold(Settled[c], i, v))
  BY <1>1, <1>2, SettledBallots, UpholdBallots
<1>5. BallotStep(Settled[c], Dismiss(Settled[c], i, v))
  BY <1>1, <1>2, SettledBallots, DismissBallots
<1>6. \A d \in Duty : duty'[d] = IF d # c THEN Settled[d]
                                 ELSE IF ruling = "upheld" THEN Uphold(Settled[c], i, v)
                                      ELSE Dismiss(Settled[c], i, v)
  BY <1>2 DEF Settled
<1> QED BY <1>3, <1>4, <1>5, <1>6, SettledBallots DEF EachBallotSteps

LEMMA DecideLinkBallots ==
    ASSUME BallotInv, NEW a \in Account, NEW c \in Duty, NEW i,
           NEW decision \in {"accepted", "rejected"}, DecideLink(a, c, i, decision)
    PROVE  EachBallotSteps
<1>1. /\ i \in DOMAIN Settled[c].evidence /\ Settled[c].evidence[i].link = "pending"
      /\ Settled[c].status = "open" /\ TypeOK
  BY DEF DecideLink, BallotInv, IndInv
<1>2. BallotStep(Settled[c], CaptainDecides(Settled[c], i, decision))
  BY <1>1, SettledBallots, CaptainDecidesBallots
<1>3. \A d \in Duty : duty'[d] = IF d = c THEN CaptainDecides(Settled[c], i, decision)
                                 ELSE Settled[d]
  BY DEF DecideLink, Settled
<1> QED BY <1>1, <1>2, <1>3, SettledBallots DEF EachBallotSteps

LEMMA SubmitEvidenceBallots ==
    ASSUME BallotInv, NEW a \in Account, NEW ds \in SUBSET Duty, NEW subject \in Member,
           NEW claimedAt \in Time \union {Never}, SubmitEvidence(a, ds, subject, claimedAt)
    PROVE  EachBallotSteps
<1>1. PICK submitter \in Member :
        /\ IF subject = submitter THEN claimedAt = Never ELSE claimedAt \in 0 .. now
        /\ \A d \in ds : Settled[d].subject = subject /\ Settled[d].status = "open"
        /\ duty' = [d \in Duty |-> IF d \in ds THEN OpenCase(Settled[d], submitter, claimedAt)
                                   ELSE Settled[d]]
  BY DEF SubmitEvidence
<1>2. TypeOK
  BY DEF BallotInv, IndInv
<1>3. \A d \in ds : submitter # Settled[d].subject => claimedAt <= now
  BY <1>1, <1>2, BoundsAreNatural DEF TypeOK, Time
<1>4. \A d \in ds : BallotStep(Settled[d], OpenCase(Settled[d], submitter, claimedAt))
  BY <1>1, <1>2, <1>3, SettledBallots, OpenCaseBallots
<1> QED BY <1>1, <1>4, SettledBallots DEF EachBallotSteps

LEMMA ReleaseMembershipBallots ==
    ASSUME BallotInv, NEW a \in Account, NEW m \in Member, ReleaseMembership(a, m)
    PROVE  /\ EachBallotSteps
           /\ \A d \in Duty :
                /\ DOMAIN duty'[d].evidence = DOMAIN duty[d].evidence
                /\ \A i \in DOMAIN duty[d].evidence :
                      duty'[d].evidence[i].status \in LIVE =>
                          duty'[d].evidence[i].choice[m] # "uncast"
<1>1. \A d \in Duty : duty'[d] = ReleaseBallots(Settled[d], m)
  BY DEF ReleaseMembership
<1>2. \A d \in Duty :
        /\ BallotStep(Settled[d], ReleaseBallots(Settled[d], m))
        /\ DOMAIN ReleaseBallots(Settled[d], m).evidence = DOMAIN Settled[d].evidence
        /\ \A j \in DOMAIN Settled[d].evidence :
              ReleaseBallots(Settled[d], m).evidence[j].status \in LIVE =>
                  ReleaseBallots(Settled[d], m).evidence[j].choice[m] # "uncast"
        /\ Settled[d].status # "open" => ReleaseBallots(Settled[d], m) = Settled[d]
  BY SettledBallots, ReleasedBallots, ReleaseBallotsStep DEF BallotInv, IndInv
<1>3. \A d \in Duty : BallotStep(duty[d], duty'[d])
  BY <1>1, <1>2, SettledBallots
<1> QED BY <1>1, <1>2, <1>3, SettledBallots DEF EachBallotSteps

LEMMA WithdrawMemberBallots ==
    ASSUME BallotInv, NEW a \in Account, NEW m \in Member, WithdrawMember(a, m)
    PROVE  EachBallotSteps
<1>1. \A d \in Duty : duty'[d] = IF Settled[d].subject = m /\ Settled[d].status = "open"
                                 THEN VoidDutyRow(Settled[d]) ELSE Settled[d]
  BY DEF WithdrawMember
<1>2. \A d \in Duty : Settled[d].status = "open" => BallotStep(Settled[d], VoidDutyRow(Settled[d]))
  BY SettledBallots, VoidBallots DEF BallotInv, IndInv, TypeOK
<1> QED BY <1>1, <1>2, SettledBallots DEF EachBallotSteps

LEMMA UnchangedBallots ==
    ASSUME BallotInv, UNCHANGED duty
    PROVE  EachBallotSteps
BY NoBallotSteps DEF EachBallotSteps, BallotInv, IndInv, TypeOK

LEMMA NextBallots ==
    ASSUME BallotInv, [Next]_vars
    PROVE  EachBallotSteps
<1>1. ASSUME Tick PROVE EachBallotSteps
  BY <1>1, UnchangedBallots DEF Tick
<1>2. ASSUME NEW a \in Account, Read(a) PROVE EachBallotSteps
  BY <1>2, ReadBallots DEF Read
<1>3. ASSUME CaseNext PROVE EachBallotSteps
  BY <1>1, <1>2, <1>3, CreateDutyBallots, VoidDutyBallots, SubmitEvidenceBallots, RespondBallots,
     ReviewBallots, DecideLinkBallots DEF CaseNext
<1>4. ASSUME NEW a \in Account, NEW m \in Member \union {NoMember},
             (m \in Member /\ (Claim(a, m) \/ ReinstateMember(a, m) \/ AppointCaptain(a, m)))
                \/ SetStandIn(a, m)
      PROVE  EachBallotSteps
  BY <1>4, UnchangedBallots DEF Claim, ReinstateMember, AppointCaptain, SetStandIn
<1>5. ASSUME MemberNext PROVE EachBallotSteps
  BY <1>4, <1>5, ReleaseMembershipBallots, WithdrawMemberBallots DEF MemberNext
<1>6. ASSUME UNCHANGED vars PROVE EachBallotSteps
  BY <1>6, UnchangedBallots DEF vars
<1> QED BY <1>3, <1>5, <1>6 DEF Next
-----------------------------------------------------------------------------
(* The theorems.                                                           *)

LEMMA InitBallots == Init => BallotInv
<1> SUFFICES ASSUME Init PROVE BallotInv
  OBVIOUS
<1>1. \A d \in Duty : DOMAIN duty[d].evidence = {}
  BY DEF Init, NoDuty
<1> QED BY <1>1, InitInv DEF BallotInv, Awaited, Sound

\* Nobody joins the electorate of a case, so only a change of hands could break Awaited: a
\* claim takes a name no ballot waits under, and a release takes the name's ballots along.
LEMMA AwaitedStep ==
    ASSUME BallotInv, [Next]_vars
    PROVE  Awaited'
<1>1. EachBallotSteps /\ duty \in [Duty -> DutyRecord]
  BY NextBallots DEF BallotInv, IndInv, TypeOK
<1>2. ASSUME NEW d \in Duty, NEW i \in DOMAIN duty[d].evidence, NEW m \in Member,
             duty'[d].evidence[i].status \in LIVE, duty'[d].evidence[i].choice[m] = "uncast"
      PROVE  /\ holder[m] = duty[d].evidence[i].electors[m]
             /\ duty'[d].evidence[i].electors[m] = duty[d].evidence[i].electors[m]
             /\ duty[d].evidence[i].electors[m] # NoAccount
  <2> DEFINE k == duty[d].evidence[i]
             l == duty'[d].evidence[i]
  <2>1. CaseStep(k, l) /\ k \in Case /\ SoundCase(k)
    BY <1>1, EvidenceIsSeq DEF EachBallotSteps, BallotStep, BallotInv, Sound
  <2>2. k.choice[m] \in {"none", "uncast", "accept", "veto"} /\ l.choice[m] \in Onward[k.choice[m]]
    BY <2>1 DEF CaseStep, Case
  <2>3. k.choice[m] = "uncast"
    BY <1>2, <2>2 DEF Onward
  <2>4. k.status \in LIVE /\ l.electors = k.electors
    BY <1>2, <2>1 DEF CaseStep
  <2> QED BY <2>1, <2>3, <2>4 DEF BallotInv, Awaited, SoundCase, Consistent, Owned
<1>3. ASSUME NEW d \in Duty, NEW i \in DOMAIN duty'[d].evidence, i \notin DOMAIN duty[d].evidence
      PROVE  Fresh(duty'[d].evidence[i])
  BY <1>1, <1>3 DEF EachBallotSteps, BallotStep
<1>4. ASSUME UNCHANGED holder PROVE Awaited'
  BY <1>2, <1>3, <1>4 DEF Awaited, Fresh
<1>5. ASSUME NEW a \in Account, NEW n \in Member, Claim(a, n) PROVE Awaited'
  <2>1. holder[n] = NoAccount /\ holder' = [holder EXCEPT ![n] = a] /\ duty' = duty
    BY <1>5 DEF Claim
  <2>2. \A m \in Member : m # n => holder'[m] = holder[m]
    BY <2>1 DEF BallotInv, IndInv, TypeOK
  <2> QED BY <1>2, <2>1, <2>2 DEF Awaited
<1>6. ASSUME NEW a \in Account, NEW n \in Member, ReleaseMembership(a, n) PROVE Awaited'
  <2>1. \A m \in Member : m # n => holder'[m] = holder[m]
    BY <1>6 DEF ReleaseMembership, BallotInv, IndInv, TypeOK
  <2>2. \A d \in Duty :
            /\ DOMAIN duty'[d].evidence = DOMAIN duty[d].evidence
            /\ \A i \in DOMAIN duty[d].evidence :
                  duty'[d].evidence[i].status \in LIVE => duty'[d].evidence[i].choice[n] # "uncast"
    BY <1>6, ReleaseMembershipBallots
  <2> QED BY <1>2, <2>1, <2>2 DEF Awaited
<1>7. CaseNext => UNCHANGED holder
  BY CasesLeaveMembers DEF membership
<1>8. ASSUME NEW a \in Account, NEW m \in Member \union {NoMember},
             (m \in Member /\ (WithdrawMember(a, m) \/ ReinstateMember(a, m) \/ AppointCaptain(a, m)))
                \/ SetStandIn(a, m)
      PROVE  UNCHANGED holder
  BY <1>8 DEF WithdrawMember, ReinstateMember, AppointCaptain, SetStandIn
<1>9. ASSUME MemberNext PROVE Awaited'
  BY <1>4, <1>5, <1>6, <1>8, <1>9 DEF MemberNext
<1>10. UNCHANGED vars => UNCHANGED holder
  BY DEF vars
<1> QED BY <1>4, <1>7, <1>9, <1>10 DEF Next

LEMMA NextBallotInv == BallotInv /\ [Next]_vars => BallotInv'
<1> SUFFICES ASSUME BallotInv, [Next]_vars PROVE BallotInv'
  OBVIOUS
<1>1. EachBallotSteps /\ Awaited' /\ IndInv'
  BY NextBallots, AwaitedStep, NextInv DEF BallotInv
<1> QED BY <1>1 DEF BallotInv, EachBallotSteps, BallotStep

LEMMA BallotInvariance == Spec => []BallotInv
BY InitBallots, NextBallotInv, PTL DEF Spec

\* Every case of every duty is sound, in every reachable state.
LEMMA SoundCases ==
    ASSUME BallotInv, NEW d \in Duty, NEW i \in DOMAIN duty[d].evidence
    PROVE  SoundCase(duty[d].evidence[i])
BY DEF BallotInv, Sound

\* A case in review always has exactly one veto to rule on: the review's .one() never finds
\* none or two, however votes, dismissals and releases interleave.
THEOREM OneVetoAwaitsReview == Spec => []OneVetoInReview
<1>1. BallotInv => OneVetoInReview
  BY SoundCases DEF OneVetoInReview, OneVeto, SoundCase, Consistent, Reviewed
<1> QED BY <1>1, BallotInvariance, PTL

\* No case closes by a majority it does not have, inside its window, over a veto that still
\* stands, or against a veto nobody upheld.
THEOREM OutcomesAreJustified == Spec => []OutcomeIsJustified
<1>1. BallotInv => OutcomeIsJustified
  BY SoundCases DEF OutcomeIsJustified, SoundCase, Consistent
<1> QED BY <1>1, BallotInvariance, PTL

\* A case that is still open is open for a reason: whatever ballots were cast or released, it
\* has voters left, no majority and no veto waiting.
THEOREM OpenCasesAreUndecided == Spec => []OpenCaseIsUndecided
<1>1. BallotInv => OpenCaseIsUndecided
  BY SoundCases DEF OpenCaseIsUndecided, Undecided, SoundCase, Consistent, Voting
<1> QED BY <1>1, BallotInvariance, PTL

\* eligible_count never parts from the ballot rows it counts.
THEOREM EligibleIsExact == Spec => []EligibleCountsBallots
<1>1. BallotInv => EligibleCountsBallots
  BY SoundCases DEF EligibleCountsBallots, CountsBallots, SoundCase, Consistent, Counted
<1> QED BY <1>1, BallotInvariance, PTL

\* Every ballot, waiting or cast, is the account's that held the name when its case opened:
\* a name that changes hands brings no vote along.
THEOREM BallotsStayWithTheirAccount == Spec => []BallotsKeepTheirAccount
<1>1. BallotInv => BallotsKeepTheirAccount
  BY SoundCases DEF BallotInv, Awaited, BallotsKeepTheirAccount, KeepsAccount, SoundCase,
                    Consistent, Owned
<1> QED BY <1>1, BallotInvariance, PTL

\* An electorate never grows, a vote is never taken back, and a veto is final.
THEOREM BallotsHarden == Spec => BallotsOnlyHarden
<1>1. BallotInv /\ [Next]_vars =>
        [\A d \in Duty : \A i \in DOMAIN duty[d].evidence : \A m \in Member :
          duty'[d].evidence[i].choice[m] \in Onward[duty[d].evidence[i].choice[m]]]_vars
  BY NextBallots DEF EachBallotSteps, BallotStep, CaseStep
<1> QED BY <1>1, BallotInvariance, PTL DEF Spec, BallotsOnlyHarden

\* needs_reviewer tells the truth about every veto that waits: it asks for an admin exactly
\* when no member of the league may rule.  It rests on the officers being able to act.
THEOREM ReviewerIsNeededExactly == Spec => []NeedsReviewerIsExact
<1>1. TypeOK /\ OfficersCanAct => NeedsReviewerIsExact
  <2> SUFFICES ASSUME TypeOK, OfficersCanAct, NEW w \in WaitingVetoes
               PROVE  LET d == duty[w[1]]
                          reviewers == {a \in Account :
                              \E m \in Member : Acting(a, m) /\ MayReview(a, m, d, w[3])}
                      IN  IF NeedsReviewer(d, w[3]) THEN reviewers \subseteq Admins
                          ELSE reviewers # {}
    BY DEF NeedsReviewerIsExact
  <2> DEFINE d == duty[w[1]]
             v == w[3]
  <2>1. ASSUME NeedsReviewer(d, v), NEW a \in Account, NEW m \in Member, MayReview(a, m, d, v)
        PROVE  a \in Admins
    BY <2>1, MembersFinite DEF NeedsReviewer, MayReview
  <2>2. ASSUME ~NeedsReviewer(d, v)
        PROVE  \E a \in Account : \E m \in Member : Acting(a, m) /\ MayReview(a, m, d, v)
    <3>1. /\ captain \in Member /\ captain \in active /\ holder[captain] \in Account
          /\ standIn # NoMember =>
                standIn \in Member /\ standIn \in active /\ holder[standIn] \in Account
      BY DEF TypeOK, OfficersCanAct, Claimed
    <3>2. CASE captain \notin Involved(d, v)
      <4>1. Acting(holder[captain], captain) /\ MayReview(holder[captain], captain, d, v)
        BY <3>1, <3>2, MembersFinite DEF Acting, MayReview
      <4> QED BY <3>1, <4>1
    <3>3. CASE captain \in Involved(d, v)
      <4>1. standIn # NoMember /\ standIn \notin Involved(d, v)
        BY <2>2, <3>3 DEF NeedsReviewer
      <4>2. Acting(holder[standIn], standIn) /\ MayReview(holder[standIn], standIn, d, v)
        BY <3>1, <3>3, <4>1, MembersFinite DEF Acting, MayReview
      <4> QED BY <3>1, <4>1, <4>2
    <3> QED BY <3>2, <3>3
  <2> QED BY <2>1, <2>2
<1> QED BY <1>1, TypeCorrect, OfficersStayAble, PTL

-----------------------------------------------------------------------------
\* Part 2: requests overlap.

\* The inductive invariant of one case, behind CarriedInTime.
Timely(k) ==
    /\ k.status \in LIVE => k.resolution = "none"
    /\ k.resolution = "majority" /\ (\A m \in Member : k.ruling[m] # "dismissed") =>
          k.resolvedAt < ClosesAt(k)

AllTimely(d) == \A i \in DOMAIN d.evidence : Timely(d.evidence[i])

\* The ballots of the case k may become those of l.
Hardens(k, l) == \A m \in Member : l.choice[m] \in Onward[k.choice[m]]

\* The cases of the duty d may become those of e.
Carries(d, e) ==
    /\ AllTimely(e)
    /\ \A i \in DOMAIN d.evidence :
          i \in DOMAIN e.evidence /\ Hardens(d.evidence[i], e.evidence[i])

\* A request may take the duty d to e.  A release may still withdraw a ballot of a case that was
\* closed after the release listed it, so unlike in EvidenceCases a closed case may change.
Moves(d, e) ==
    /\ e \in DutyRecord /\ DutyInv(e)
    /\ Carries(d, e)
    /\ LedgerOf(e) = LedgerOf(d) \/ Ledger!EntryStep(LedgerOf(d), LedgerOf(e))

\* The request has not decided anything about the duty but by settling it.
NotYet(d, e) == LedgerOf(e) = LedgerOf(d) \/ e.status = "completed"

-----------------------------------------------------------------------------
(* Moves compose.                                                          *)

LEMMA SameBallots ==
    ASSUME NEW k \in Case
    PROVE  Hardens(k, k)
BY DEF Hardens, Case, Onward

LEMMA BallotsCompose ==
    ASSUME NEW k \in Case, NEW l \in Case, NEW j, Hardens(k, l), Hardens(l, j)
    PROVE  Hardens(k, j)
<1> SUFFICES ASSUME NEW m \in Member PROVE j.choice[m] \in Onward[k.choice[m]]
  BY DEF Hardens
<1>1. /\ k.choice[m] \in {"none", "uncast", "accept", "veto"}
      /\ l.choice[m] \in Onward[k.choice[m]] /\ j.choice[m] \in Onward[l.choice[m]]
  BY DEF Hardens, Case
<1> QED BY <1>1 DEF Onward

LEMMA NothingMoves ==
    ASSUME NEW d \in DutyRecord, DutyInv(d), AllTimely(d)
    PROVE  Moves(d, d)
BY EvidenceIsSeq, SameBallots DEF Moves, Carries

LEMMA CarriesOnly ==
    ASSUME NEW d \in DutyRecord, AllTimely(d), NEW e, NEW i, OnlyCase(d, e, i),
           Timely(e.evidence[i]), Hardens(d.evidence[i], e.evidence[i])
    PROVE  Carries(d, e)
<1>1. \A j \in DOMAIN d.evidence : Hardens(d.evidence[j], d.evidence[j])
  BY EvidenceIsSeq, SameBallots
<1> QED BY <1>1 DEF OnlyCase, Carries, AllTimely

LEMMA CarriesOn ==
    ASSUME NEW d \in DutyRecord, NEW e \in DutyRecord, NEW f, Carries(d, e), Carries(e, f)
    PROVE  Carries(d, f)
BY EvidenceIsSeq, BallotsCompose DEF Carries

\* Two moves make one when one of them decides nothing.
LEMMA MovesOn ==
    ASSUME NEW d \in DutyRecord, NEW e, NEW f, Moves(d, e), Moves(e, f),
           LedgerOf(e) = LedgerOf(d) \/ LedgerOf(f) = LedgerOf(e)
    PROVE  Moves(d, f)
<1>1. Carries(d, f)
  BY CarriesOn DEF Moves
<1> QED BY <1>1 DEF Moves

\* A duty the request finds open is as it was committed: its work is the first decision.
LEMMA WorkMoves ==
    ASSUME NEW d \in DutyRecord, NEW e, NEW f, Moves(d, e), NotYet(d, e), e.status = "open",
           Moves(e, f)
    PROVE  Moves(d, f)
BY MovesOn DEF NotYet

\* Settling, or withdrawing a ballot, leaves the duty not yet decided.
LEMMA ArriveMoves ==
    ASSUME NEW d \in DutyRecord, NEW e, NEW f, Moves(d, e), NotYet(d, e), Moves(e, f),
           LedgerOf(f) = LedgerOf(e) \/ (e.status = "open" /\ f.status = "completed")
    PROVE  Moves(d, f) /\ NotYet(d, f)
<1>1. CASE LedgerOf(f) = LedgerOf(e)
  <2>1. e.status = "completed" => f.status = "completed"
    BY <1>1 DEF LedgerOf
  <2> QED BY <1>1, <2>1, MovesOn DEF NotYet
<1>2. CASE e.status = "open" /\ f.status = "completed"
  BY <1>2, WorkMoves DEF NotYet
<1> QED BY <1>1, <1>2

-----------------------------------------------------------------------------
(* What happens to one duty.                                               *)

\* A case that is closed by a majority is closed in time, or after a dismissal.
InTime(k, r, at) == r = "majority" => at < ClosesAt(k) \/ \E m \in Member : k.ruling[m] = "dismissed"

LEMMA ClosingInTime ==
    ASSUME NEW k \in Case, NEW decision \in {"accepted", "rejected"}, NEW r \in Resolution,
           NEW at \in Int, InTime(k, r, at)
    PROVE  LET l == ClosedCase(k, decision, r, at) IN Timely(l) /\ Hardens(k, l)
<1> DEFINE l == ClosedCase(k, decision, r, at)
<1>1. /\ l.status = decision /\ l.resolution = r /\ l.resolvedAt = at
      /\ l.ruling = k.ruling /\ l.choice = k.choice /\ l.submittedAt = k.submittedAt
  BY DEF ClosedCase, Case
<1> HIDE DEF l
<1>2. Timely(l)
  BY <1>1 DEF Timely, InTime, ClosesAt, LIVE
<1> QED BY <1>1, <1>2, SameBallots DEF Hardens, l

LEMMA SupersededInTime ==
    ASSUME NEW k \in Case, Timely(k), k.status \in LIVE
    PROVE  Timely(SupersededCase(k)) /\ Hardens(k, SupersededCase(k))
<1> DEFINE l == SupersededCase(k)
<1>1. l.status = "superseded" /\ l.resolution = "none" /\ l.choice = k.choice
  BY DEF SupersededCase, Case, Timely
<1> HIDE DEF l
<1>2. Timely(l)
  BY <1>1 DEF Timely, LIVE
<1> QED BY <1>1, <1>2, SameBallots DEF Hardens, l

LEMMA CloseCarries ==
    ASSUME NEW d \in DutyRecord, DutyInv(d), AllTimely(d), NEW i \in DOMAIN d.evidence,
           NEW decision \in {"accepted", "rejected"}, NEW r \in Resolution, NEW at \in Int,
           d.evidence[i].status \in LIVE, InTime(d.evidence[i], r, at)
    PROVE  Carries(d, Close(d, i, decision, r, at))
<1>1. d.evidence[i] \in Case
  BY EvidenceIsSeq
<1> QED BY <1>1, CloseResult, ClosingInTime, CarriesOnly

LEMMA TouchCarries ==
    ASSUME NEW d \in DutyRecord, DutyInv(d), AllTimely(d), NEW i \in DOMAIN d.evidence,
           NEW l \in Case, d.evidence[i].status \in LIVE, l.status \in LIVE,
           l.link = d.evidence[i].link, l.submitter = d.evidence[i].submitter,
           l.submittedAt = d.evidence[i].submittedAt, l.claimedAt = d.evidence[i].claimedAt,
           l.resolution = d.evidence[i].resolution, Hardens(d.evidence[i], l)
    PROVE  LET e == Touched(d, i, l) IN
           /\ e \in DutyRecord /\ DutyInv(e) /\ i \in DOMAIN e.evidence /\ e.evidence[i] = l
           /\ Carries(d, e) /\ AllTimely(e)
<1> DEFINE e == Touched(d, i, l)
<1>1. e \in DutyRecord /\ DutyInv(e) /\ OnlyCase(d, e, i) /\ e.evidence[i] = l
  BY TouchedResult
<1>2. Timely(l)
  BY DEF AllTimely, Timely
<1> HIDE DEF e
<1>3. Carries(d, e)
  BY <1>1, <1>2, CarriesOnly
<1> QED BY <1>1, <1>3 DEF Carries, OnlyCase, e

LEMMA MajorityCarries ==
    ASSUME TypeOK, NEW d \in DutyRecord, DutyInv(d), AllTimely(d), NEW i \in DOMAIN d.evidence,
           d.evidence[i].status = "open", now < ClosesAt(d.evidence[i])
    PROVE  Carries(d, AcceptIfMajority(d, i))
<1>1. "majority" \in Resolution /\ now \in Int
  BY BoundsAreNatural DEF TypeOK, Time, Resolution
<1>2. Carries(d, Close(d, i, "accepted", "majority", now))
  BY <1>1, CloseCarries DEF InTime, LIVE
<1> QED BY <1>2, NothingMoves DEF AcceptIfMajority, Moves

\* A case changes in what neither the duty nor the ledger looks at.
LEMMA SameRowsInv ==
    ASSUME NEW d \in DutyRecord, DutyInv(d), NEW e, NEW i, OnlyCase(d, e, i),
           e.status = d.status, e.completedAt = d.completedAt,
           e.evidence[i].link = d.evidence[i].link, e.evidence[i].status = d.evidence[i].status
    PROVE  DutyInv(e) /\ LedgerOf(e) = LedgerOf(d)
<1>1. \A j \in DOMAIN d.evidence :
        /\ e.evidence[j].link = d.evidence[j].link /\ e.evidence[j].status = d.evidence[j].status
        /\ e.evidence[j].submittedAt = d.evidence[j].submittedAt
        /\ EffectiveCompletion(e, e.evidence[j]) = EffectiveCompletion(d, d.evidence[j])
  BY DEF OnlyCase, EffectiveCompletion
<1>2. Decidable(e) /\ NewestLive(e)
  BY <1>1 DEF OnlyCase, DutyInv, Decidable, NewestLive
<1>3. Completion(e) /\ Dated(e)
  BY <1>1 DEF OnlyCase, DutyInv, Completion, Dated
<1>4. d.status # "none"
  BY DEF DutyInv, OnlyCase, NoDuty
<1>5. LedgerOf(e) = LedgerOf(d)
  BY <1>1 DEF LedgerOf, OnlyCase
<1> QED BY <1>2, <1>3, <1>4, <1>5 DEF DutyInv

LEMMA SettleMoves ==
    ASSUME NEW d \in DutyRecord, DutyInv(d), AllTimely(d)
    PROVE  LET e == SettleIfDue(d) IN
           /\ Moves(d, e) /\ Due(e) = {}
           /\ e = d \/ (d.status = "open" /\ e.status = "completed")
<1>1. CASE Due(d) = {}
  BY <1>1, NothingMoves DEF SettleIfDue
<1>2. CASE Due(d) # {}
  <2> DEFINE i == CHOOSE j \in Due(d) : TRUE
             k == d.evidence[i]
             e == Close(d, i, "accepted", "auto", ClosesAt(k))
  <2>1. i \in Due(d)
    BY <1>2
  <2>2. SettleIfDue(d) = e
    BY <1>2 DEF SettleIfDue
  <2> HIDE DEF i
  <2>3. i \in DOMAIN d.evidence /\ k.status \in LIVE /\ k \in Case
    BY <2>1, EvidenceIsSeq DEF Due, LIVE
  <2>4. ClosesAt(k) \in Int /\ "auto" \in Resolution
    BY <2>3, BoundsAreNatural DEF ClosesAt, Case, Time, Resolution
  <2>5. Carries(d, e)
    BY <2>3, <2>4, CloseCarries DEF InTime
  <2>6. DutyStep(d, e) /\ e.status = "completed"
    BY <2>3, <2>4, CloseStep
  <2> HIDE DEF e
  <2>7. Due(e) = {}
    BY <2>6 DEF DutyStep, DutyInv, Decidable, Due, LIVE
  <2>8. d.status = "open"
    BY <2>3 DEF DutyInv, Decidable
  <2> QED BY <2>2, <2>5, <2>6, <2>7, <2>8 DEF Moves, DutyStep
<1> QED BY <1>1, <1>2

LEMMA VoidMoves ==
    ASSUME NEW d \in DutyRecord, DutyInv(d), AllTimely(d), d.status = "open", now \in Time
    PROVE  Moves(d, VoidDutyRow(d))
<1> DEFINE e == SupersedePending(d, 0)
<1>1. VoidDutyRow(d) = [e EXCEPT !.status = "voided"]
  BY DEF VoidDutyRow, SupersedePending, DutyRecord
<1>2. /\ e \in DutyRecord
      /\ DOMAIN e.evidence = DOMAIN d.evidence
      /\ \A i \in DOMAIN d.evidence :
            e.evidence[i] = IF d.evidence[i].status \in LIVE THEN SupersededCase(d.evidence[i])
                            ELSE d.evidence[i]
  BY SupersedeAll
<1> HIDE DEF e
<1>3. VoidDutyRow(d).evidence = e.evidence
  BY <1>1, <1>2 DEF DutyRecord
<1>4. \A i \in DOMAIN d.evidence : Timely(e.evidence[i]) /\ Hardens(d.evidence[i], e.evidence[i])
  BY <1>2, SupersededInTime, EvidenceIsSeq, SameBallots DEF AllTimely
<1>5. Carries(d, VoidDutyRow(d))
  BY <1>2, <1>3, <1>4 DEF Carries, AllTimely
<1> QED BY <1>5, VoidStep DEF Moves, DutyStep

LEMMA OpenCaseMoves ==
    ASSUME MembersOK, NEW d \in DutyRecord, DutyInv(d), AllTimely(d), d.status = "open",
           NEW submitter \in Member, NEW claimedAt \in Time \union {Never},
           submitter # d.subject => claimedAt <= now
    PROVE  Moves(d, OpenCase(d, submitter, claimedAt))
<1> DEFINE e == OpenCase(d, submitter, claimedAt)
           k == NewCase(d, submitter, claimedAt)
           n == Len(d.evidence) + 1
           l == IF Claimed \ {d.subject, submitter} = {}
                THEN ClosedCase(k, "accepted", "no_voters", now) ELSE k
<1>1. DutyStep(d, e) /\ OpenedWith(d, e, l)
  BY OpenCaseStep
<1>2. Timely(l)
  <2>1. k \in Case /\ k.status = "open"
    BY NewCaseType
  <2>2. k.resolution = "none"
    BY DEF NewCase
  <2>3. Timely(k)
    BY <2>2 DEF Timely
  <2>4. now \in Int /\ "no_voters" \in Resolution
    BY BoundsAreNatural DEF MembersOK, Time, Resolution
  <2> HIDE DEF k
  <2>5. Timely(ClosedCase(k, "accepted", "no_voters", now))
    BY <2>1, <2>4, ClosingInTime DEF InTime
  <2> QED BY <2>3, <2>5
<1> HIDE DEF e, l
<1>3. DOMAIN d.evidence = 1 .. (n - 1) /\ n \in Nat \ {0}
  BY EvidenceIsSeq
<1>4. DOMAIN e.evidence = 1 .. n /\ e.evidence[n] = l
  BY <1>1 DEF OpenedWith
<1>5. \A i \in DOMAIN d.evidence : Timely(e.evidence[i]) /\ Hardens(d.evidence[i], e.evidence[i])
  BY <1>1, SupersededInTime, EvidenceIsSeq, SameBallots DEF AllTimely, OpenedWith
<1>6. \A i \in DOMAIN e.evidence : i \in DOMAIN d.evidence \/ i = n
  BY <1>3, <1>4
<1>7. \A i \in DOMAIN d.evidence : i \in DOMAIN e.evidence
  BY <1>3, <1>4
<1> QED BY <1>1, <1>2, <1>4, <1>5, <1>6, <1>7 DEF Moves, DutyStep, Carries, AllTimely, e

LEMMA CastAcceptMoves ==
    ASSUME TypeOK, NEW d \in DutyRecord, DutyInv(d), AllTimely(d), NEW i \in DOMAIN d.evidence,
           d.evidence[i].status = "open", now < ClosesAt(d.evidence[i]),
           NEW m \in Member, NEW a \in Account, d.evidence[i].choice[m] \in {"uncast", "accept"}
    PROVE  Moves(d, CastAccept(d, i, m, a))
<1> DEFINE k == d.evidence[i]
           l == Accepted(k, m, a)
           e == Touched(d, i, l)
<1>1. CastAccept(d, i, m, a) = IF k.choice[m] = "accept" THEN d ELSE AcceptIfMajority(e, i)
  BY DEF CastAccept, Touched, Accepted
<1>2. k \in Case /\ k.status \in LIVE
  BY EvidenceIsSeq DEF LIVE
<1>3. /\ l \in Case /\ l.status = "open" /\ l.resolution = k.resolution
      /\ l.link = k.link /\ l.submitter = k.submitter
      /\ l.submittedAt = k.submittedAt /\ l.claimedAt = k.claimedAt
  BY <1>2 DEF Accepted, Case
<1>4. Hardens(k, l)
  BY <1>2 DEF Accepted, Hardens, Onward, Case
<1> HIDE DEF l
<1>5. /\ e \in DutyRecord /\ DutyInv(e) /\ i \in DOMAIN e.evidence /\ e.evidence[i] = l
      /\ Carries(d, e) /\ AllTimely(e)
  BY <1>2, <1>3, <1>4, TouchCarries DEF LIVE
<1> HIDE DEF e
<1>6. now < ClosesAt(e.evidence[i])
  BY <1>3, <1>5 DEF ClosesAt
<1>7. Carries(e, AcceptIfMajority(e, i))
  BY <1>3, <1>5, <1>6, MajorityCarries
<1>8. Carries(d, CastAccept(d, i, m, a))
  BY <1>1, <1>5, <1>7, CarriesOn, NothingMoves DEF Moves
<1> QED BY <1>8, CastAcceptStep DEF Moves, DutyStep

LEMMA CastVetoMoves ==
    ASSUME NEW d \in DutyRecord, DutyInv(d), AllTimely(d), NEW i \in DOMAIN d.evidence,
           d.evidence[i].status = "open", NEW m \in Member, NEW a \in Account,
           d.evidence[i].choice[m] \in {"uncast", "accept"}
    PROVE  Moves(d, CastVeto(d, i, m, a))
<1> DEFINE k == d.evidence[i]
           l == Vetoed(k, m, a)
<1>1. CastVeto(d, i, m, a) = Touched(d, i, l)
  BY DEF CastVeto, Touched, Vetoed
<1>2. k \in Case /\ k.status \in LIVE
  BY EvidenceIsSeq DEF LIVE
<1>3. /\ l \in Case /\ l.status \in LIVE /\ l.resolution = k.resolution
      /\ l.link = k.link /\ l.submitter = k.submitter
      /\ l.submittedAt = k.submittedAt /\ l.claimedAt = k.claimedAt
  BY <1>2 DEF Vetoed, Case, CaseStatus, LIVE
<1>4. Hardens(k, l)
  BY <1>2 DEF Vetoed, Hardens, Onward, Case
<1> HIDE DEF l
<1>5. Carries(d, Touched(d, i, l))
  BY <1>2, <1>3, <1>4, TouchCarries
<1> QED BY <1>1, <1>5, CastVetoStep DEF Moves, DutyStep

\* The veto of v is ruled on, and its case closed or voted on again.
LEMMA ReviewMoves ==
    ASSUME TypeOK, NEW d \in DutyRecord, DutyInv(d), AllTimely(d), NEW i \in DOMAIN d.evidence,
           d.evidence[i].status \in LIVE, NEW v \in Member
    PROVE  Moves(d, Uphold(d, i, v)) /\ Moves(d, Dismiss(d, i, v))
<1> DEFINE k == d.evidence[i]
           u == [k EXCEPT !.ruling[v] = "upheld"]
           l == Dismissed(k, v)
           e == Touched(d, i, l)
           f(r) == Close(e, i, "accepted", r, now)
<1>1. k \in Case
  BY EvidenceIsSeq
<1>2. /\ now \in Int /\ "veto_upheld" \in Resolution
      /\ "majority" \in Resolution /\ "auto" \in Resolution
  BY BoundsAreNatural DEF TypeOK, Time, Resolution
<1>3. Carries(d, Uphold(d, i, v))
  <2> DEFINE c == Touched(d, i, u)
  <2>1. Uphold(d, i, v) = Close(c, i, "rejected", "veto_upheld", now)
    BY DEF Uphold, Touched
  <2>2. /\ u \in Case /\ u.status = k.status /\ u.resolution = k.resolution /\ u.choice = k.choice
        /\ u.link = k.link /\ u.submitter = k.submitter
        /\ u.submittedAt = k.submittedAt /\ u.claimedAt = k.claimedAt
    BY <1>1 DEF Case
  <2> HIDE DEF u
  <2>3. Hardens(k, u)
    BY <1>1, <2>2, SameBallots DEF Hardens
  <2>4. /\ c \in DutyRecord /\ DutyInv(c) /\ i \in DOMAIN c.evidence /\ c.evidence[i] = u
        /\ Carries(d, c) /\ AllTimely(c)
    BY <2>2, <2>3, TouchCarries
  <2> HIDE DEF c
  <2>5. Carries(c, Close(c, i, "rejected", "veto_upheld", now))
    BY <1>2, <2>2, <2>4, CloseCarries DEF InTime
  <2> QED BY <2>1, <2>4, <2>5, CarriesOn
<1>4. Dismiss(d, i, v) \in {e, f("majority"), f("auto")}
  BY DEF Dismiss, Touched, Dismissed
<1>5. /\ l \in Case /\ l.status = "open" /\ l.resolution = k.resolution /\ l.choice = k.choice
      /\ l.link = k.link /\ l.submitter = k.submitter /\ l.ruling[v] = "dismissed"
      /\ l.submittedAt = k.submittedAt /\ l.claimedAt = k.claimedAt
  BY <1>1 DEF Dismissed, Case, CaseStatus, LIVE
<1> HIDE DEF l
<1>6. Hardens(k, l)
  BY <1>1, <1>5, SameBallots DEF Hardens
<1>7. /\ e \in DutyRecord /\ DutyInv(e) /\ i \in DOMAIN e.evidence /\ e.evidence[i] = l
      /\ Carries(d, e) /\ AllTimely(e)
  BY <1>5, <1>6, TouchCarries DEF LIVE
<1> HIDE DEF e
<1>8. Carries(e, f("majority")) /\ Carries(e, f("auto"))
  BY <1>2, <1>5, <1>7, CloseCarries DEF InTime, LIVE
<1> HIDE DEF f
<1>9. Carries(d, Dismiss(d, i, v))
  BY <1>4, <1>7, <1>8, CarriesOn
<1> QED BY <1>3, <1>9, UpholdStep, DismissStep DEF Moves, DutyStep

LEMMA CaptainDecidesMoves ==
    ASSUME TypeOK, NEW d \in DutyRecord, DutyInv(d), AllTimely(d), NEW i \in DOMAIN d.evidence,
           d.evidence[i].link = "pending", NEW decision \in {"accepted", "rejected"}
    PROVE  Moves(d, CaptainDecides(d, i, decision))
<1> DEFINE k == d.evidence[i]
           e == CaptainDecides(d, i, decision)
<1>1. k \in Case /\ k.status \in LIVE /\ d.status = "open"
  BY EvidenceIsSeq, PendingIsNewest DEF DutyInv, Decidable
<1>2. now \in Int /\ "captain" \in Resolution
  BY BoundsAreNatural DEF TypeOK, Time, Resolution
<1>3. e = CloseCase(ApplyDecision(d, i, decision), i, decision, "captain", now)
  BY <1>1 DEF CaptainDecides
<1> HIDE DEF e
<1>4. OnlyCase(d, e, i) /\ e.evidence[i] = ClosedCase(k, decision, "captain", now)
  BY <1>1, <1>2, <1>3, DecisionResult
<1>5. Timely(e.evidence[i]) /\ Hardens(k, e.evidence[i])
  BY <1>1, <1>2, <1>4, ClosingInTime DEF InTime
<1> QED BY <1>4, <1>5, CarriesOnly, CaptainDecidesStep DEF Moves, DutyStep, e

\* A ballot is withdrawn from a case whose window is open, or from one that has closed since.
LEMMA WithdrawMoves ==
    ASSUME TypeOK, NEW d \in DutyRecord, DutyInv(d), AllTimely(d), NEW i \in DOMAIN d.evidence,
           i \notin Due(d), NEW m \in Member, d.evidence[i].choice[m] = "uncast"
    PROVE  LET e == WithdrawBallot(d, i, m) IN
           /\ Moves(d, e)
           /\ LedgerOf(e) = LedgerOf(d) \/ (d.status = "open" /\ e.status = "completed")
<1> DEFINE k == d.evidence[i]
           l == Without(k, m)
           e == Touched(d, i, l)
           f == WithdrawBallot(d, i, m)
<1>1. k \in Case
  BY EvidenceIsSeq
<1>2. f = IF e.evidence[i].status # "open" THEN e
          ELSE IF k.eligible - 1 = 0 THEN Close(e, i, "accepted", "no_voters", now)
               ELSE AcceptIfMajority(e, i)
  BY DEF WithdrawBallot, Touched, Without
<1>3. /\ l \in Case /\ l.status = k.status /\ l.resolution = k.resolution
      /\ l.link = k.link /\ l.submitter = k.submitter /\ l.ruling = k.ruling
      /\ l.submittedAt = k.submittedAt /\ l.claimedAt = k.claimedAt /\ l.resolvedAt = k.resolvedAt
  <2>1. k.eligible - 1 \in Int
    BY <1>1 DEF Case
  <2> QED BY <1>1, <2>1 DEF Without, Case
<1>4. Hardens(k, l)
  BY <1>1 DEF Without, Hardens, Onward, Case
<1> HIDE DEF l
<1>5. CASE k.status \in LIVE
  <2>1. /\ e \in DutyRecord /\ DutyInv(e) /\ i \in DOMAIN e.evidence /\ e.evidence[i] = l
        /\ Carries(d, e) /\ AllTimely(e) /\ LedgerOf(e) = LedgerOf(d)
    BY <1>3, <1>4, <1>5, TouchCarries, TouchedStep
  <2> HIDE DEF e
  <2>2. /\ now \in Int /\ "no_voters" \in Resolution /\ "majority" \in Resolution
    BY BoundsAreNatural DEF TypeOK, Time, Resolution
  <2>3. k.status = "open" => now < ClosesAt(l)
    <3>1. ClosesAt(l) = ClosesAt(k) /\ ClosesAt(k) \in Int
      BY <1>1, <1>3, BoundsAreNatural DEF ClosesAt, Case, Time
    <3> QED BY <2>2, <3>1 DEF Due
  <2>4. k.status = "open" =>
          /\ Carries(e, AcceptIfMajority(e, i))
          /\ Carries(e, Close(e, i, "accepted", "no_voters", now))
    BY <1>3, <2>1, <2>2, <2>3, MajorityCarries, CloseCarries DEF InTime, LIVE
  <2>5. Carries(d, f)
    BY <1>2, <1>3, <2>1, <2>4, CarriesOn
  <2>6. DutyStep(d, f) /\ d.status = "open"
    BY <1>5, WithdrawBallotStep DEF DutyInv, Decidable
  <2>7. f = e \/ f.status = "completed"
    <3>1. Close(e, i, "accepted", "no_voters", now).status = "completed"
      BY <1>3, <1>5, <2>1, <2>2, CloseStep
    <3>2. Close(e, i, "accepted", "majority", now).status = "completed"
      BY <1>3, <1>5, <2>1, <2>2, CloseStep
    <3> QED BY <1>2, <3>1, <3>2 DEF AcceptIfMajority
  <2> QED BY <2>1, <2>5, <2>6, <2>7 DEF Moves, DutyStep
<1>6. CASE k.status \notin LIVE
  <2>1. f = e /\ e = Updated(d, d.status, d.completedAt, i, l)
    <3>1. e = Updated(d, d.status, d.completedAt, i, l)
      BY DEF Touched, Updated, DutyRecord
    <3>2. d.status \in DutyStatus /\ d.completedAt \in Time \union {Never}
      BY DEF DutyRecord
    <3>3. e.evidence[i] = l
      BY <1>3, <3>1, <3>2, ReplaceCase
    <3> QED BY <1>2, <1>3, <1>6, <3>1, <3>3 DEF LIVE
  <2>2. d.status \in DutyStatus /\ d.completedAt \in Time \union {Never}
    BY DEF DutyRecord
  <2> HIDE DEF e, f
  <2>3. /\ OnlyCase(d, f, i) /\ f.evidence[i] = l
        /\ f.status = d.status /\ f.completedAt = d.completedAt
    BY <1>3, <2>1, <2>2, ReplaceCase
  <2>4. Timely(l)
    BY <1>1, <1>3, <1>6 DEF AllTimely, Timely, ClosesAt
  <2>5. Carries(d, f)
    BY <1>4, <2>3, <2>4, CarriesOnly
  <2>6. DutyInv(f) /\ LedgerOf(f) = LedgerOf(d)
    BY <1>3, <1>6, <2>3, SameRowsInv
  <2> QED BY <2>3, <2>5, <2>6 DEF Moves, OnlyCase, f
<1> QED BY <1>5, <1>6

LEMMA ReleaseListedMoves ==
    ASSUME TypeOK, NEW d \in DutyRecord, DutyInv(d), AllTimely(d), NEW i \in DOMAIN d.evidence,
           NEW m \in Member
    PROVE  LET e == ReleaseListed(d, i, m) IN
           /\ Moves(d, e)
           /\ LedgerOf(e) = LedgerOf(d) \/ (d.status = "open" /\ e.status = "completed")
BY SettleMoves, WithdrawMoves, NothingMoves DEF ReleaseListed, SettleCase

-----------------------------------------------------------------------------
(* A request under way.                                                    *)

Ops == UNION {Op(kind) : kind \in {"read", "void", "submit", "respond", "review", "decide",
                                   "release", "withdraw"}}

Flight ==
    [ pc : {"settle", "name", "lock", "insert", "commit"}, op : Ops,
      by : Account, as : Member \union {NoMember}, todo : Seq(Duty \X Nat),
      work : UNION {[ds -> DutyRecord] : ds \in SUBSET Duty},
      updating : SUBSET Member, sharing : SUBSET Member ]

\* Every case a release still has to visit is there.
ListsCases(r) == \A j \in DOMAIN r.todo : r.todo[j][2] \in DOMAIN Sees(r, r.todo[j][1]).evidence

\* A vote has its one case to visit, or has seen that its window is open.
LooksOnce(r) ==
    \/ r.todo = << <<r.op.d, r.op.i>> >>
    \/ r.todo = <<>> /\ (r.op.d \in DOMAIN r.work => r.op.i \notin Due(r.work[r.op.d]))

Underway(r) ==
    /\ r \in Flight
    /\ r.op.kind \in {"submit", "respond", "decide"} => r.as \in Member
    /\ r.pc = "name" => r.op.kind \in {"release", "withdraw"}
    /\ \A d \in DOMAIN r.work : Moves(duty[d], r.work[d])
    /\ r.pc \in {"settle", "name", "lock"} => \A d \in DOMAIN r.work : NotYet(duty[d], r.work[d])
    /\ r.pc = "lock" /\ r.op.kind = "release" => ListsCases(r)
    /\ r.pc = "lock" /\ r.op.kind = "respond" => LooksOnce(r)

\* A duty is locked by one request at a time.
LockedOnce ==
    \A p, q \in Request : p # q /\ InFlight(req[p]) /\ InFlight(req[q]) =>
        DOMAIN req[p].work \intersect DOMAIN req[q].work = {}

\* The inductive invariant.
TxInv ==
    /\ TypeOK /\ DOMAIN req = Request
    /\ \A d \in Duty : DutyInv(duty[d]) /\ AllTimely(duty[d])
    /\ \A p \in Request : InFlight(req[p]) => Underway(req[p])
    /\ LockedOnce

LEMMA OpKinds ==
    ASSUME NEW kind, NEW op \in Op(kind)
    PROVE  op \in Ops /\ op.kind = kind
<1>1. kind \in {"read", "void", "submit", "respond", "review", "decide", "release", "withdraw"}
  BY DEF Op
<1>2. op.kind = kind
  BY <1>1 DEF Op
<1> QED BY <1>1, <1>2 DEF Ops

LEMMA OpFields ==
    ASSUME NEW op \in Ops
    PROVE  /\ op.kind = "submit" => op.ds \subseteq Duty
           /\ op.kind \in {"release", "withdraw"} => op.m \in Member
           /\ op.kind \in {"void", "respond", "review", "decide"} => op.d \in Duty /\ op.i \in 0 .. MaxEvidence
           /\ op.kind = "decide" => op.say \in {"accepted", "rejected"}
<1>1. PICK kind \in {"read", "void", "submit", "respond", "review", "decide", "release", "withdraw"} :
        op \in Op(kind)
  BY DEF Ops
<1> QED BY <1>1, BoundsAreNatural DEF Op

LEMMA DutyOfWork ==
    ASSUME NEW r \in Flight
    PROVE  /\ DOMAIN r.work \subseteq Duty
           /\ r.work \in [DOMAIN r.work -> DutyRecord]
BY DEF Flight

\* A queue is a sequence of its rows.
LEMMA QueueIsSeq ==
    ASSUME NEW rows \in SUBSET (Duty \X (0 .. MaxEvidence)), NEW sorted, NEW todo \in Queues(rows, sorted)
    PROVE  todo \in Seq(Duty \X Nat) /\ \A j \in DOMAIN todo : todo[j] \in rows
<1>1. IsFiniteSet(Duty \X (0 .. MaxEvidence))
  <2>1. IsFiniteSet(Duty)
    BY DutiesAreOrdered
  <2>2. IsFiniteSet(0 .. MaxEvidence)
    BY BoundsAreNatural, FS_Interval
  <2> QED BY <2>1, <2>2, FS_Product
<1>2. Cardinality(rows) \in Nat
  BY <1>1, FS_Subset, FS_CardinalityType
<1>3. todo \in [1 .. Cardinality(rows) -> rows]
  BY DEF Queues
<1>4. rows \subseteq Duty \X Nat
  BY BoundsAreNatural
<1> QED BY <1>2, <1>3, <1>4, SeqOfFunction

\* The queue of one row.
LEMMA QueueOfOne ==
    ASSUME NEW x, NEW sorted, NEW todo \in Queues({x}, sorted)
    PROVE  todo = <<x>>
<1>1. Cardinality({x}) = 1
  BY FS_Singleton
<1>2. todo \in [1 .. 1 -> {x}]
  BY <1>1 DEF Queues
<1> QED BY <1>2

LEMMA MentionsMembers ==
    ASSUME NEW r \in Flight
    PROVE  Mentions(r) \subseteq Member
<1>1. Subject \in Member /\ {r.as} \ {NoMember} \subseteq Member
  BY SubjectIsMember DEF Flight
<1>2. UNION {Voters(r.work[d].evidence[Len(r.work[d].evidence)]) : d \in r.op.ds} \subseteq Member
  BY DEF Voters
<1> QED BY <1>1, <1>2 DEF Mentions

-----------------------------------------------------------------------------
(* The statements that leave the committed rows alone.                     *)

\* Nothing a request depends on changes.
LEMMA UnderwayStays ==
    ASSUME NEW r, Underway(r), UNCHANGED <<now, duty>>
    PROVE  Underway(r)'
<1>1. \A d : Sees(r, d)' = Sees(r, d)
  BY DEF Sees
<1>2. ListsCases(r) => ListsCases(r)'
  BY <1>1 DEF ListsCases
<1>3. LooksOnce(r) => LooksOnce(r)'
  BY DEF LooksOnce, Due
<1> QED BY <1>2, <1>3 DEF Underway

\* One request moves on, and locks no duty another one has locked.
LEMMA OneRequestInv ==
    ASSUME TxInv, NEW p \in Request, NEW r, UNCHANGED vars, req' = [req EXCEPT ![p] = r],
           InFlight(r) =>
              /\ Underway(r)
              /\ \A q \in Request : q # p /\ InFlight(req[q]) =>
                    DOMAIN r.work \intersect DOMAIN req[q].work = {}
    PROVE  TxInv'
<1>1. DOMAIN req' = Request /\ \A q \in Request : req'[q] = IF q = p THEN r ELSE req[q]
  BY DEF TxInv
<1>2. UNCHANGED <<now, duty, holder, active, captain, standIn>>
  BY DEF vars, membership
<1>3. TypeOK'
  BY <1>2 DEF TxInv, TypeOK
<1>4. \A d \in Duty : DutyInv(duty'[d]) /\ AllTimely(duty'[d])
  BY <1>2 DEF TxInv
<1>5. ASSUME NEW q \in Request, InFlight(req'[q]) PROVE Underway(req[q])'
  <2>1. Underway(req'[q])
    BY <1>1, <1>5 DEF TxInv
  <2> QED BY <1>2, <2>1 DEF Underway, ListsCases, LooksOnce, Sees, Due
<1>6. LockedOnce'
  BY <1>1 DEF TxInv, LockedOnce
<1> QED BY <1>1, <1>3, <1>4, <1>5, <1>6 DEF TxInv, InFlight

\* The same when it keeps the locks it has.
LEMMA SameLocksInv ==
    ASSUME TxInv, NEW p \in Request, InFlight(req[p]), NEW r, UNCHANGED vars,
           req' = [req EXCEPT ![p] = r], Underway(r), DOMAIN r.work = DOMAIN req[p].work
    PROVE  TxInv'
<1>1. \A q \in Request : q # p /\ InFlight(req[q]) =>
        DOMAIN r.work \intersect DOMAIN req[q].work = {}
  BY DEF TxInv, LockedOnce
<1> QED BY <1>1, OneRequestInv

LEMMA EndedInv ==
    ASSUME TxInv, NEW p \in Request, UNCHANGED vars, req' = [req EXCEPT ![p] = Ended]
    PROVE  TxInv'
<1>1. ~InFlight(Ended)
  BY DEF InFlight, Ended
<1> QED BY <1>1, OneRequestInv

LEMMA BeginInv ==
    ASSUME TxInv, NEW p \in Request, Begin(p)
    PROVE  TxInv'
<1> DEFINE rows == {x \in Duty \X (1 .. MaxEvidence) : x[2] \in Due(duty[x[1]])}
           Started(a, m, op, todo) ==
              [ pc |-> "settle", op |-> op, by |-> a, as |-> m, todo |-> todo,
                work |-> <<>>, updating |-> {}, sharing |-> {} ]
<1>1. PICK a \in Account, m \in Member \union {NoMember}, kind \in Kinds :
        \E op \in Op(kind), todo \in Queues(rows, TRUE) :
            MayBegin(a, m, op) /\ req' = [req EXCEPT ![p] = Started(a, m, op, todo)]
  BY Zenon DEF Begin
<1>2. PICK op \in Op(kind), todo \in Queues(rows, TRUE) :
        MayBegin(a, m, op) /\ req' = [req EXCEPT ![p] = Started(a, m, op, todo)]
  BY <1>1
<1>3. rows \in SUBSET (Duty \X (0 .. MaxEvidence))
  BY BoundsAreNatural
<1> HIDE DEF rows
<1>4. todo \in Seq(Duty \X Nat)
  BY <1>2, <1>3, QueueIsSeq
<1>5. op \in Ops /\ op.kind = kind
  BY OpKinds
<1> DEFINE r == Started(a, m, op, todo)
<1>6. DOMAIN r.work = {} /\ r.work \in [{} -> DutyRecord]
  OBVIOUS
<1>7. Underway(r)
  BY <1>2, <1>4, <1>5, <1>6 DEF MayBegin, Underway, Flight
<1>8. \A q \in Request : DOMAIN r.work \intersect DOMAIN req[q].work = {}
  BY <1>6
<1>9. UNCHANGED vars
  BY DEF Begin
<1> HIDE DEF r
<1> QED BY <1>2, <1>7, <1>8, <1>9, OneRequestInv DEF r

LEMMA LockDutyInv ==
    ASSUME TxInv, NEW p \in Request, LockDuty(p)
    PROVE  TxInv'
<1>1. PICK r : r = req[p]
  OBVIOUS
<1> DEFINE c == At(r)
           work == [d \in DOMAIN r.work \union {c} |-> IF d \in DOMAIN r.work THEN r.work[d] ELSE duty[d]]
           s == [r EXCEPT !.work = work]
<1>2. /\ Heading(r) /\ c \notin DOMAIN r.work /\ Unblocked(p) /\ UNCHANGED vars
      /\ req' = [req EXCEPT ![p] = s]
  BY <1>1 DEF LockDuty
<1>3. InFlight(r) /\ Underway(r) /\ r \in Flight /\ r.todo # <<>> /\ r.pc \in {"settle", "lock"}
  BY <1>1, <1>2 DEF Heading, InFlight, TxInv, Underway
<1>4. c \in Duty
  BY <1>3 DEF At, Flight
<1>5. DOMAIN work = DOMAIN r.work \union {c} /\ work[c] = duty[c]
      /\ \A d \in DOMAIN r.work : work[d] = r.work[d]
  BY <1>2
<1>6. DOMAIN r.work \subseteq Duty /\ \A d \in DOMAIN r.work : r.work[d] \in DutyRecord
  BY <1>3, DutyOfWork
<1>7. duty[c] \in DutyRecord /\ Moves(duty[c], duty[c])
  BY <1>4, NothingMoves DEF TxInv, TypeOK
<1>8. work \in UNION {[ds -> DutyRecord] : ds \in SUBSET Duty}
  <2>1. work \in [DOMAIN r.work \union {c} -> DutyRecord]
    BY <1>6, <1>7
  <2>2. DOMAIN r.work \union {c} \in SUBSET Duty
    BY <1>4, <1>6
  <2> QED BY <2>1, <2>2
<1> HIDE DEF work
<1>9. /\ s \in Flight /\ s.pc = r.pc /\ s.op = r.op /\ s.as = r.as /\ s.todo = r.todo /\ s.work = work
  BY <1>3, <1>8 DEF Flight
<1>10. \A d : Sees(s, d) = Sees(r, d)
  BY <1>2, <1>5, <1>9 DEF Sees
<1>11. Underway(s)
  <2>1. \A d \in DOMAIN s.work : Moves(duty[d], s.work[d])
    BY <1>3, <1>5, <1>7, <1>9 DEF Underway
  <2>2. \A d \in DOMAIN s.work : NotYet(duty[d], s.work[d])
    BY <1>3, <1>5, <1>9 DEF Underway, NotYet
  <2>3. s.pc = "lock" /\ s.op.kind = "release" => ListsCases(s)
    BY <1>3, <1>9, <1>10 DEF Underway, ListsCases
  <2>4. s.pc = "lock" /\ s.op.kind = "respond" => LooksOnce(s)
    BY <1>3, <1>9 DEF Underway, LooksOnce
  <2> QED BY <1>3, <1>9, <2>1, <2>2, <2>3, <2>4 DEF Underway
<1>12. ASSUME NEW q \in Request, q # p, InFlight(req[q])
       PROVE  DOMAIN s.work \intersect DOMAIN req[q].work = {}
  <2>1. c \notin DOMAIN req[q].work
    BY <1>1, <1>2, <1>3, <1>12 DEF Unblocked, WaitsFor
  <2>2. DOMAIN r.work \intersect DOMAIN req[q].work = {}
    BY <1>1, <1>3, <1>12 DEF TxInv, LockedOnce
  <2> QED BY <1>5, <1>9, <2>1, <2>2
<1> HIDE DEF s
<1> QED BY <1>2, <1>11, <1>12, OneRequestInv

\* The request looks at the case its queue leads to, in a duty it has locked.
LEMMA ArriveStep ==
    ASSUME TxInv, NEW r, InFlight(r), Underway(r), Heading(r), At(r) \in DOMAIN r.work
    PROVE  LET d == r.work[At(r)]
               e == Arrive(r)
               i == Head(r.todo)[2]
           IN  /\ d \in DutyRecord
               /\ Moves(d, e)
               /\ LedgerOf(e) = LedgerOf(d) \/ (d.status = "open" /\ e.status = "completed")
               /\ r.pc = "lock" /\ r.op.kind = "respond" => i \notin Due(e)
<1> DEFINE d == r.work[At(r)]
           e == Arrive(r)
           i == Head(r.todo)[2]
<1>1. d \in DutyRecord /\ DutyInv(d) /\ AllTimely(d)
  BY DEF Underway, Moves, Carries
<1>2. /\ Moves(d, SettleCase(d, i)) /\ i \notin Due(SettleCase(d, i))
      /\ \/ SettleCase(d, i) = d
         \/ d.status = "open" /\ SettleCase(d, i).status = "completed"
  BY <1>1, SettleMoves, NothingMoves DEF SettleCase
<1>3. Moves(d, d)
  BY <1>1, NothingMoves
<1>4. CASE r.pc = "settle" \/ r.op.kind \in {"respond", "review", "decide"}
  BY <1>1, <1>2, <1>4 DEF Arrive
<1>5. CASE ~(r.pc = "settle" \/ r.op.kind \in {"respond", "review", "decide"}) /\ r.op.kind = "release"
  <2>1. r \in Flight /\ r.pc = "lock" /\ r.todo # <<>> /\ ListsCases(r)
    BY <1>5 DEF Heading, Underway
  <2>2. r.todo \in Seq(Duty \X Nat)
    BY <2>1 DEF Flight
  <2>3. 1 \in DOMAIN r.todo /\ Head(r.todo) = r.todo[1]
    BY <2>1, <2>2
  <2>4. i \in DOMAIN d.evidence
    BY <2>1, <2>3 DEF ListsCases, Sees, At
  <2>5. r.op.m \in Member
    BY <1>5, <2>1, OpFields DEF Flight
  <2>6. e = ReleaseListed(d, i, r.op.m)
    BY <1>5 DEF Arrive
  <2>7. TypeOK
    BY DEF TxInv
  <2> HIDE DEF e, i, d
  <2>8. /\ Moves(d, e)
        /\ LedgerOf(e) = LedgerOf(d) \/ (d.status = "open" /\ e.status = "completed")
    BY <1>1, <2>4, <2>5, <2>6, <2>7, ReleaseListedMoves
  <2> QED BY <1>1, <1>5, <2>8 DEF d, e, i
<1>6. CASE ~(r.pc = "settle" \/ r.op.kind \in {"respond", "review", "decide"}) /\ r.op.kind # "release"
  BY <1>1, <1>3, <1>6 DEF Arrive
<1> QED BY <1>4, <1>5, <1>6

LEMMA LockedDutyInv ==
    ASSUME TxInv, NEW p \in Request, LockedDuty(p)
    PROVE  TxInv'
<1>1. PICK r : r = req[p]
  OBVIOUS
<1> DEFINE c == At(r)
           work == [r.work EXCEPT ![c] = Arrive(r)]
           s == [r EXCEPT !.work[At(r)] = Arrive(r), !.todo = Tail(r.todo),
                          !.sharing = r.sharing \union Mentions(r)]
<1>2. Heading(r) /\ c \in DOMAIN r.work /\ UNCHANGED vars /\ req' = [req EXCEPT ![p] = s]
  BY <1>1 DEF LockedDuty
<1>3. InFlight(r) /\ Underway(r) /\ r \in Flight /\ r.todo # <<>> /\ r.pc \in {"settle", "lock"}
  BY <1>1, <1>2 DEF Heading, InFlight, TxInv, Underway
<1>4. /\ r.work[c] \in DutyRecord
      /\ Moves(r.work[c], Arrive(r))
      /\ \/ LedgerOf(Arrive(r)) = LedgerOf(r.work[c])
         \/ r.work[c].status = "open" /\ Arrive(r).status = "completed"
      /\ r.pc = "lock" /\ r.op.kind = "respond" => Head(r.todo)[2] \notin Due(Arrive(r))
  BY <1>2, <1>3, ArriveStep
<1>5. /\ DOMAIN r.work \subseteq Duty /\ \A d \in DOMAIN r.work : r.work[d] \in DutyRecord
      /\ r.work \in [DOMAIN r.work -> DutyRecord]
  BY <1>3, DutyOfWork
<1>6. DOMAIN work = DOMAIN r.work /\ work[c] = Arrive(r)
      /\ \A d \in DOMAIN r.work : d # c => work[d] = r.work[d]
  BY <1>2
<1>7. work \in UNION {[ds -> DutyRecord] : ds \in SUBSET Duty}
  <2>1. Arrive(r) \in DutyRecord
    BY <1>4 DEF Moves
  <2>2. work \in [DOMAIN r.work -> DutyRecord]
    BY <1>5, <2>1
  <2> QED BY <1>5, <2>2
<1>8. /\ r.todo \in Seq(Duty \X Nat) /\ Tail(r.todo) \in Seq(Duty \X Nat)
      /\ \A j \in DOMAIN Tail(r.todo) : j + 1 \in DOMAIN r.todo /\ Tail(r.todo)[j] = r.todo[j + 1]
      /\ 1 \in DOMAIN r.todo /\ Head(r.todo) = r.todo[1]
  BY <1>3 DEF Flight
<1>9. s = [r EXCEPT !.work = work, !.todo = Tail(r.todo), !.sharing = r.sharing \union Mentions(r)]
  BY <1>3 DEF Flight
<1>10. /\ s \in Flight /\ s.pc = r.pc /\ s.op = r.op /\ s.as = r.as /\ s.todo = Tail(r.todo)
       /\ s.work = work
  <2>1. Mentions(r) \subseteq Member
    BY <1>3, MentionsMembers
  <2> HIDE DEF work, s
  <2> QED BY <1>3, <1>7, <1>8, <1>9, <2>1 DEF Flight
<1> HIDE DEF s
<1>11. \A d \in DOMAIN r.work : Moves(duty[d], work[d]) /\ NotYet(duty[d], work[d])
  <2>1. \A d \in DOMAIN r.work : Moves(duty[d], r.work[d]) /\ NotYet(duty[d], r.work[d])
    BY <1>3 DEF Underway
  <2>2. \A d \in DOMAIN r.work : duty[d] \in DutyRecord
    BY <1>5 DEF TxInv, TypeOK
  <2> HIDE DEF work
  <2>3. Moves(duty[c], work[c]) /\ NotYet(duty[c], work[c])
    BY <1>2, <1>4, <1>6, <2>1, <2>2, ArriveMoves
  <2> QED BY <1>6, <2>1, <2>3
<1>12. s.pc = "lock" /\ s.op.kind = "release" => ListsCases(s)
  <2> SUFFICES ASSUME r.pc = "lock", r.op.kind = "release", NEW j \in DOMAIN s.todo
               PROVE  s.todo[j][2] \in DOMAIN Sees(s, s.todo[j][1]).evidence
    BY <1>10 DEF ListsCases
  <2>1. s.todo[j] = r.todo[j + 1] /\ j + 1 \in DOMAIN r.todo
    BY <1>8, <1>10
  <2>2. s.todo[j][2] \in DOMAIN Sees(r, s.todo[j][1]).evidence
    BY <1>3, <2>1 DEF Underway, ListsCases
  <2> HIDE DEF work
  <2>3. \A i \in DOMAIN r.work[c].evidence : i \in DOMAIN work[c].evidence
    BY <1>4, <1>6 DEF Moves, Carries
  <2> QED BY <1>2, <1>6, <1>10, <2>2, <2>3 DEF Sees
<1>13. s.pc = "lock" /\ s.op.kind = "respond" => LooksOnce(s)
  <2> SUFFICES ASSUME r.pc = "lock", r.op.kind = "respond" PROVE LooksOnce(s)
    BY <1>10
  <2>1. r.todo = << <<r.op.d, r.op.i>> >>
    BY <1>3 DEF Underway, LooksOnce
  <2>2. s.todo = <<>> /\ c = r.op.d /\ Head(r.todo)[2] = r.op.i
    BY <1>10, <2>1 DEF At
  <2> HIDE DEF work
  <2> QED BY <1>4, <1>6, <1>10, <2>2 DEF LooksOnce
<1>14. Underway(s)
  <2> HIDE DEF work
  <2> QED BY <1>3, <1>6, <1>10, <1>11, <1>12, <1>13 DEF Underway
<1> HIDE DEF work
<1> QED BY <1>1, <1>2, <1>3, <1>6, <1>10, <1>14, SameLocksInv

LEMMA SettledAllInv ==
    ASSUME TxInv, NEW p \in Request, SettledAll(p)
    PROVE  TxInv'
<1>1. PICK r : r = req[p]
  OBVIOUS
<1>2. r.pc = "settle" /\ r.todo = <<>> /\ UNCHANGED vars
  BY <1>1 DEF SettledAll
<1>3. InFlight(r) /\ Underway(r) /\ r \in Flight
  BY <1>1, <1>2 DEF InFlight, TxInv, Underway
<1>4. CASE r.op.kind \in {"release", "withdraw"}
  <2> DEFINE s == [r EXCEPT !.pc = "name"]
  <2>1. req' = [req EXCEPT ![p] = s]
    BY <1>1, <1>4 DEF SettledAll, TxInv
  <2>2. s \in Flight /\ s.pc = "name" /\ s.op = r.op /\ s.as = r.as /\ s.work = r.work
    BY <1>3 DEF Flight
  <2> HIDE DEF s
  <2>3. Underway(s)
    BY <1>2, <1>3, <1>4, <2>2 DEF Underway
  <2> QED BY <1>1, <1>2, <1>3, <2>1, <2>2, <2>3, SameLocksInv
<1>5. CASE r.op.kind \notin {"release", "withdraw"}
  <2>1. PICK todo \in Queues(Targets(r), TRUE) :
          req' = [req EXCEPT ![p] = [@ EXCEPT !.pc = "lock", !.todo = todo]]
    BY <1>1, <1>5 DEF SettledAll
  <2> DEFINE s == [r EXCEPT !.pc = "lock", !.todo = todo]
  <2>2. req' = [req EXCEPT ![p] = s]
    BY <1>1, <2>1 DEF TxInv
  <2>3. r.op \in Ops
    BY <1>3 DEF Flight
  <2>4. r.op.kind \in {"read", "submit", "void", "respond", "review", "decide"}
    <3>1. PICK kind \in {"read", "void", "submit", "respond", "review", "decide", "release", "withdraw"} :
            r.op \in Op(kind)
      BY <2>3 DEF Ops
    <3> QED BY <1>5, <3>1, OpKinds
  <2>5. Targets(r) \in SUBSET (Duty \X (0 .. MaxEvidence))
    BY <2>3, <2>4, OpFields, BoundsAreNatural DEF Targets
  <2>6. todo \in Seq(Duty \X Nat)
    BY <2>1, <2>5, QueueIsSeq
  <2>7. /\ s \in Flight /\ s.pc = "lock" /\ s.op = r.op /\ s.as = r.as /\ s.todo = todo
        /\ s.work = r.work
    BY <1>3, <2>6 DEF Flight
  <2>8. r.op.kind = "respond" => todo = << <<r.op.d, r.op.i>> >>
    BY <2>1, QueueOfOne DEF Targets
  <2> HIDE DEF s
  <2>9. Underway(s)
    BY <1>2, <1>3, <1>5, <2>7, <2>8 DEF Underway, LooksOnce
  <2> QED BY <1>1, <1>2, <1>3, <2>2, <2>7, <2>9, SameLocksInv
<1> QED BY <1>4, <1>5

LEMMA LockNameInv ==
    ASSUME TxInv, NEW p \in Request, LockName(p)
    PROVE  TxInv'
<1>1. PICK r : r = req[p]
  OBVIOUS
<1>2. r.pc = "name" /\ UNCHANGED vars
  BY <1>1 DEF LockName
<1>3. InFlight(r) /\ Underway(r) /\ r \in Flight /\ r.op.kind \in {"release", "withdraw"}
  BY <1>1, <1>2 DEF InFlight, TxInv, Underway
<1>4. CASE req' = [req EXCEPT ![p] = Ended]
  BY <1>2, <1>4, EndedInv
<1>5. CASE \E todo \in Queues(Listed(r), r.op.kind = "release") :
              req' = [req EXCEPT ![p] = [r EXCEPT !.pc = "lock", !.todo = todo,
                                                  !.updating = {r.op.m}]]
  <2>1. PICK todo \in Queues(Listed(r), r.op.kind = "release") :
              req' = [req EXCEPT ![p] = [r EXCEPT !.pc = "lock", !.todo = todo,
                                                  !.updating = {r.op.m}]]
    BY <1>5
  <2> DEFINE s == [r EXCEPT !.pc = "lock", !.todo = todo, !.updating = {r.op.m}]
  <2>2. Listed(r) \in SUBSET (Duty \X (0 .. MaxEvidence))
    <3>1. 1 .. MaxEvidence \subseteq 0 .. MaxEvidence /\ 0 \in 0 .. MaxEvidence
      BY BoundsAreNatural
    <3>2. CASE r.op.kind = "release"
      <4>1. Listed(r) \subseteq Duty \X (1 .. MaxEvidence)
        BY <3>2 DEF Listed
      <4> QED BY <3>1, <4>1
    <3>3. CASE r.op.kind # "release"
      <4>1. \A x \in Listed(r) : \E d \in Duty : x = <<d, 0>>
        BY <3>3 DEF Listed
      <4> QED BY <3>1, <4>1
    <3> QED BY <3>2, <3>3
  <2>3. todo \in Seq(Duty \X Nat) /\ \A j \in DOMAIN todo : todo[j] \in Listed(r)
    BY <2>1, <2>2, QueueIsSeq
  <2>4. r.op.m \in Member
    BY <1>3, OpFields DEF Flight
  <2>5. /\ s \in Flight /\ s.pc = "lock" /\ s.op = r.op /\ s.as = r.as /\ s.todo = todo
        /\ s.work = r.work
    BY <1>3, <2>3, <2>4 DEF Flight
  <2>6. req' = [req EXCEPT ![p] = s]
    BY <2>1
  <2> HIDE DEF s
  <2>7. s.op.kind = "release" => ListsCases(s)
    <3>1. \A d : Sees(s, d) = Sees(r, d)
      BY <2>5 DEF Sees
    <3> QED BY <2>3, <2>5, <3>1 DEF Listed, ListsCases
  <2>8. Underway(s)
    BY <1>2, <1>3, <2>5, <2>7 DEF Underway
  <2> QED BY <1>1, <1>2, <1>3, <2>5, <2>6, <2>8, SameLocksInv
<1>6. \/ req' = [req EXCEPT ![p] = Ended]
      \/ \E todo \in Queues(Listed(r), r.op.kind = "release") :
            req' = [req EXCEPT ![p] = [r EXCEPT !.pc = "lock", !.todo = todo, !.updating = {r.op.m}]]
  BY <1>1 DEF LockName
<1> QED BY <1>4, <1>5, <1>6

LEMMA InsertBallotsInv ==
    ASSUME TxInv, NEW p \in Request, InsertBallots(p)
    PROVE  TxInv'
<1>1. PICK r : r = req[p]
  OBVIOUS
<1> DEFINE s == [r EXCEPT !.pc = "commit", !.sharing = r.sharing \union Mentions(r)]
<1>2. r.pc = "insert" /\ UNCHANGED vars /\ req' = [req EXCEPT ![p] = s]
  BY <1>1 DEF InsertBallots
<1>3. InFlight(r) /\ Underway(r) /\ r \in Flight
  BY <1>1, <1>2 DEF InFlight, TxInv, Underway
<1>4. Mentions(r) \subseteq Member
  BY <1>3, MentionsMembers
<1>5. /\ s \in Flight /\ s.pc = "commit" /\ s.op = r.op /\ s.as = r.as /\ s.work = r.work
  BY <1>3, <1>4 DEF Flight
<1> HIDE DEF s
<1>6. Underway(s)
  BY <1>3, <1>5 DEF Underway
<1> QED BY <1>1, <1>2, <1>3, <1>5, <1>6, SameLocksInv

\* The work a request does on the duties it has locked.
LEMMA OutcomeMoves ==
    ASSUME TxInv, NEW r, Underway(r), r.pc = "lock", r.todo = <<>>, NEW w \in Outcomes(r)
    PROVE  w \in [DOMAIN r.work -> DutyRecord] /\ \A d \in DOMAIN r.work : Moves(duty[d], w[d])
<1> DEFINE op == r.op
           e == r.work[op.d]
           k == e.evidence[op.i]
           only(x) == {[r.work EXCEPT ![op.d] = x]}
<1>1. TypeOK /\ r \in Flight /\ op \in Ops /\ DOMAIN r.work \subseteq Duty
      /\ r.work \in [DOMAIN r.work -> DutyRecord]
  BY DutyOfWork DEF TxInv, Underway, Flight
<1>2. \A d \in DOMAIN r.work :
        /\ r.work[d] \in DutyRecord /\ DutyInv(r.work[d]) /\ AllTimely(r.work[d])
        /\ duty[d] \in DutyRecord
        /\ Moves(duty[d], r.work[d])
        /\ r.work[d].status = "open" =>
              \A x : Moves(r.work[d], x) => Moves(duty[d], x)
  BY <1>1, WorkMoves DEF Underway, Moves, Carries, TypeOK
<1>3. ASSUME NEW x, w \in only(x), op.d \in DOMAIN r.work => e.status = "open" /\ Moves(e, x)
      PROVE  w \in [DOMAIN r.work -> DutyRecord] /\ \A d \in DOMAIN r.work : Moves(duty[d], w[d])
  BY <1>1, <1>2, <1>3 DEF Moves
<1>4. op.kind \in {"respond", "review", "decide"} => op.i \in DOMAIN e.evidence
  BY DEF Outcomes
<1>5. op.kind \in {"read", "release", "void", "withdraw", "submit", "respond", "review", "decide"}
  <2>1. PICK kind \in {"read", "void", "submit", "respond", "review", "decide", "release", "withdraw"} :
          op \in Op(kind)
    BY <1>1 DEF Ops
  <2> QED BY <2>1, OpKinds
<1>6. CASE op.kind \in {"read", "release"}
  BY <1>1, <1>2, <1>6 DEF Outcomes
<1>7. CASE op.kind = "void"
  <2>1. e.status = "open" /\ w \in only(VoidDutyRow(e))
    BY <1>7 DEF Outcomes
  <2>2. op.d \in DOMAIN r.work => Moves(e, VoidDutyRow(e))
    BY <1>1, <1>2, <2>1, VoidMoves DEF TypeOK
  <2> HIDE DEF e, only
  <2> QED BY <1>3, <2>1, <2>2
<1>8. CASE op.kind = "withdraw"
  <2>1. w = [d \in DOMAIN r.work |-> IF r.work[d].status = "open" /\ r.work[d].subject = op.m
                                     THEN VoidDutyRow(r.work[d]) ELSE r.work[d]]
    BY <1>8 DEF Outcomes
  <2>2. \A d \in DOMAIN r.work : r.work[d].status = "open" => Moves(r.work[d], VoidDutyRow(r.work[d]))
    BY <1>1, <1>2, VoidMoves DEF TypeOK
  <2> QED BY <1>2, <2>1, <2>2 DEF Moves
<1>9. CASE op.kind = "submit"
  <2> DEFINE t == IF r.as = Subject THEN Never ELSE now
  <2>1. /\ \A d \in op.ds : r.work[d].status = "open"
        /\ w = [d \in DOMAIN r.work |-> IF d \in op.ds THEN OpenCase(r.work[d], r.as, t)
                                        ELSE r.work[d]]
    BY <1>9 DEF Outcomes
  <2>2. r.as \in Member /\ now \in Time
    BY <1>1, <1>9 DEF Underway, TypeOK
  <2>3. t \in Time \union {Never} /\ t <= now
    BY <2>2, BoundsAreNatural DEF Time, Never
  <2>4. MembersOK
    BY <1>1 DEF TypeOK, MembersOK
  <2> HIDE DEF t
  <2>5. \A d \in DOMAIN r.work : r.work[d].status = "open" =>
            Moves(r.work[d], OpenCase(r.work[d], r.as, t))
    BY <1>2, <2>2, <2>3, <2>4, OpenCaseMoves
  <2> QED BY <1>2, <2>1, <2>5 DEF Moves
<1>10. CASE op.kind = "respond"
  <2>1. /\ k.status = "open" /\ k.choice[r.as] \in {"uncast", "accept"}
        /\ w \in only(IF op.say = "accept" THEN CastAccept(e, op.i, r.as, r.by)
                                           ELSE CastVeto(e, op.i, r.as, r.by))
    BY <1>4, <1>10 DEF Outcomes
  <2>2. r.as \in Member /\ r.by \in Account
    BY <1>1, <1>10 DEF Underway, Flight
  <2>3. op.d \in DOMAIN r.work => k \in Case /\ now < ClosesAt(k)
    <3> SUFFICES ASSUME op.d \in DOMAIN r.work PROVE k \in Case /\ now < ClosesAt(k)
      OBVIOUS
    <3>1. op.i \notin Due(e)
      BY <1>10 DEF Underway, LooksOnce
    <3>2. k \in Case
      BY <1>2, <1>4, <1>10, EvidenceIsSeq
    <3>3. now \in Int
      BY <1>1, BoundsAreNatural DEF Time, TypeOK
    <3>4. ClosesAt(k) \in Int
      <4> HIDE DEF k
      <4> QED BY <3>2, BoundsAreNatural DEF ClosesAt, Case, Time
    <3>5. ~(ClosesAt(k) <= now)
      BY <1>4, <1>10, <2>1, <3>1 DEF Due
    <3> QED BY <3>2, <3>3, <3>4, <3>5
  <2>4. op.d \in DOMAIN r.work =>
          /\ e.status = "open"
          /\ Moves(e, CastAccept(e, op.i, r.as, r.by))
          /\ Moves(e, CastVeto(e, op.i, r.as, r.by))
    <3>1. op.d \in DOMAIN r.work => e.status = "open"
      BY <1>2, <1>4, <1>10, <2>1 DEF DutyInv, Decidable, LIVE
    <3> QED BY <1>1, <1>2, <1>4, <1>10, <2>1, <2>2, <2>3, <3>1, CastAcceptMoves, CastVetoMoves
  <2> HIDE DEF e, k, only
  <2> QED BY <1>3, <2>1, <2>4
<1>11. CASE op.kind = "review"
  <2>1. PICK v \in Member :
          /\ k.status = "in_review"
          /\ w \in only(IF op.say = "upheld" THEN Uphold(e, op.i, v) ELSE Dismiss(e, op.i, v))
    BY <1>4, <1>11 DEF Outcomes
  <2>2. op.d \in DOMAIN r.work =>
          e.status = "open" /\ Moves(e, Uphold(e, op.i, v)) /\ Moves(e, Dismiss(e, op.i, v))
    BY <1>1, <1>2, <1>4, <1>11, <2>1, ReviewMoves DEF DutyInv, Decidable, LIVE
  <2> HIDE DEF e, k, only
  <2> QED BY <1>3, <2>1, <2>2
<1>12. CASE op.kind = "decide"
  <2>1. e.status = "open" /\ k.link = "pending" /\ w \in only(CaptainDecides(e, op.i, op.say))
    BY <1>4, <1>12 DEF Outcomes
  <2>2. op.say \in {"accepted", "rejected"}
    BY <1>1, <1>12, OpFields
  <2>3. op.d \in DOMAIN r.work => Moves(e, CaptainDecides(e, op.i, op.say))
    BY <1>1, <1>2, <1>4, <1>12, <2>1, <2>2, CaptainDecidesMoves
  <2> HIDE DEF e, k, only
  <2> QED BY <1>3, <2>1, <2>3
<1> QED BY <1>5, <1>6, <1>7, <1>8, <1>9, <1>10, <1>11, <1>12

LEMMA WorkInv ==
    ASSUME TxInv, NEW p \in Request, Work(p)
    PROVE  TxInv'
<1>1. PICK r : r = req[p]
  OBVIOUS
<1>2. r.pc = "lock" /\ r.todo = <<>> /\ UNCHANGED vars
  BY <1>1 DEF Work
<1>3. InFlight(r) /\ Underway(r) /\ r \in Flight
  BY <1>1, <1>2 DEF InFlight, TxInv, Underway
<1>4. CASE req' = [req EXCEPT ![p] = Ended]
  BY <1>2, <1>4, EndedInv
<1>5. CASE \E w \in Outcomes(r) :
             req' = [req EXCEPT ![p] =
                [r EXCEPT !.pc = IF r.op.kind = "submit" THEN "insert" ELSE "commit",
                          !.work = w, !.sharing = r.sharing \union Mentions(r)]]
  <2>1. PICK w \in Outcomes(r) :
             req' = [req EXCEPT ![p] =
                [r EXCEPT !.pc = IF r.op.kind = "submit" THEN "insert" ELSE "commit",
                          !.work = w, !.sharing = r.sharing \union Mentions(r)]]
    BY <1>5
  <2> DEFINE s == [r EXCEPT !.pc = IF r.op.kind = "submit" THEN "insert" ELSE "commit",
                            !.work = w, !.sharing = r.sharing \union Mentions(r)]
  <2>2. w \in [DOMAIN r.work -> DutyRecord] /\ \A d \in DOMAIN r.work : Moves(duty[d], w[d])
    BY <1>2, <1>3, <2>1, OutcomeMoves
  <2>3. Mentions(r) \subseteq Member
    BY <1>3, MentionsMembers
  <2>4. w \in UNION {[ds -> DutyRecord] : ds \in SUBSET Duty}
    BY <1>3, <2>2, DutyOfWork
  <2>5. /\ s \in Flight /\ s.pc \in {"insert", "commit"} /\ s.op = r.op /\ s.as = r.as
        /\ s.work = w
    BY <1>3, <2>3, <2>4 DEF Flight
  <2>6. req' = [req EXCEPT ![p] = s]
    BY <2>1
  <2> HIDE DEF s
  <2>7. Underway(s)
    BY <1>3, <2>2, <2>5 DEF Underway
  <2> QED BY <1>1, <1>2, <1>3, <2>2, <2>5, <2>6, <2>7, SameLocksInv
<1>6. \/ req' = [req EXCEPT ![p] = Ended]
      \/ \E w \in Outcomes(r) :
             req' = [req EXCEPT ![p] =
                [r EXCEPT !.pc = IF r.op.kind = "submit" THEN "insert" ELSE "commit",
                          !.work = w, !.sharing = r.sharing \union Mentions(r)]]
  BY <1>1 DEF Work
<1> QED BY <1>4, <1>5, <1>6

\* A name is claimed.
LEMMA ClaimNameInv ==
    ASSUME TxInv, ClaimName
    PROVE  TxInv'
<1>1. PICK a \in Account, m \in Member : Claim(a, m)
  BY DEF ClaimName
<1>2. /\ UNCHANGED <<now, duty, active, captain, standIn, req>>
      /\ holder' = [holder EXCEPT ![m] = a]
  BY <1>1 DEF Claim, ClaimName
<1>3. TypeOK'
  BY <1>2 DEF TxInv, TypeOK
<1>4. \A p \in Request : InFlight(req'[p]) => Underway(req[p])'
  <2> SUFFICES ASSUME NEW p \in Request, NEW r, r = req[p], Underway(r) PROVE Underway(req[p])'
    BY <1>2 DEF TxInv
  <2>1. Underway(r)'
    BY <1>2, UnderwayStays
  <2> QED BY <1>2, <2>1 DEF Underway, ListsCases, LooksOnce, Sees
<1> QED BY <1>2, <1>3, <1>4 DEF TxInv, LockedOnce, InFlight

\* Time passes, though not while a request is about to do its work.
LEMMA ClockTicksInv ==
    ASSUME TxInv, ClockTicks
    PROVE  TxInv'
<1>1. UNCHANGED <<duty, membership, req>> /\ now' = now + 1 /\ now < MaxTime
  BY DEF ClockTicks, Tick
<1>2. TypeOK'
  BY <1>1, BoundsAreNatural DEF TxInv, TypeOK, Time, membership
<1>3. ASSUME NEW p \in Request, InFlight(req[p]) PROVE Underway(req[p])'
  <2>1. PICK r : r = req[p]
    OBVIOUS
  <2>2. Underway(r) /\ r.pc = "lock" => r.todo # <<>>
    BY <1>3, <2>1 DEF TxInv, ClockTicks
  <2>3. Underway(r)'
    BY <1>1, <1>3, <2>1, <2>2 DEF TxInv, Underway, ListsCases, LooksOnce, Sees
  <2> QED BY <1>1, <2>1, <2>3 DEF Underway, ListsCases, LooksOnce, Sees
<1> QED BY <1>1, <1>2, <1>3 DEF TxInv, LockedOnce, InFlight

LEMMA TxInitInv == TxInit => TxInv
<1> SUFFICES ASSUME TxInit PROVE TxInv
  OBVIOUS
<1> DEFINE d0 == NewDuty(Subject)
<1>1. d0 \in DutyRecord /\ DutyInv(d0) /\ AllTimely(d0)
  BY SubjectIsMember DEF NewDuty, DutyRecord, DutyInv, Decidable, NewestLive, Completion, Dated,
                         DutyStatus, Never, NoDuty, AllTimely
<1>2. MembersOK /\ captain \in Member /\ standIn \in Member \union {NoMember}
  BY InitialMembers, BoundsAreNatural DEF TxInit, Time, MembersOK
<1>3. duty \in [Duty -> DutyRecord] /\ \A d \in Duty : DutyInv(duty[d]) /\ AllTimely(duty[d])
  <2> DEFINE d1 == OpenCase(d0, Subject, Never)
  <2>1. d0.status = "open" /\ d0.subject = Subject /\ Never \in Time \union {Never}
    BY DEF NewDuty
  <2> HIDE DEF d0
  <2>2. Moves(d0, d1)
    BY <1>1, <1>2, <2>1, SubjectIsMember, OpenCaseMoves
  <2>3. d1 \in DutyRecord /\ DutyInv(d1) /\ AllTimely(d1)
    BY <2>2 DEF Moves, Carries
  <2>4. duty = [d \in Duty |-> IF d \in Submitted THEN d1 ELSE d0]
    BY DEF TxInit, d0
  <2> HIDE DEF d1
  <2> QED BY <1>1, <2>3, <2>4
<1>4. DOMAIN req = Request /\ \A p \in Request : ~InFlight(req[p])
  BY DEF TxInit, InFlight, NewRequest
<1>5. TypeOK
  BY <1>2, <1>3 DEF TypeOK, MembersOK
<1> QED BY <1>3, <1>4, <1>5 DEF TxInv, LockedOnce

-----------------------------------------------------------------------------
(* The commit.                                                             *)

\* A commit moves each duty, and those it had not locked it leaves alone.
LEMMA CommitMoves ==
    ASSUME TxInv, NEW p \in Request, Commit(p)
    PROVE  /\ InFlight(req[p]) /\ Underway(req[p])
           /\ duty' \in [Duty -> DutyRecord]
           /\ \A d \in Duty :
                /\ Moves(duty[d], duty'[d])
                /\ d \notin DOMAIN req[p].work => duty'[d] = duty[d]
<1>1. PICK r : r = req[p]
  OBVIOUS
<1>2. r.pc = "commit" /\ duty' = [d \in Duty |-> Sees(r, d)]
  BY <1>1 DEF Commit
<1>3. InFlight(r) /\ Underway(r)
  BY <1>1, <1>2 DEF InFlight, TxInv
<1>4. \A d \in Duty : Moves(duty[d], duty[d])
  BY NothingMoves DEF TxInv, TypeOK
<1>5. \A d \in Duty : Moves(duty[d], duty'[d])
  BY <1>2, <1>3, <1>4 DEF Sees, Underway
<1>6. \A d \in Duty : d \notin DOMAIN r.work => duty'[d] = duty[d]
  BY <1>2 DEF Sees
<1>7. duty' \in [Duty -> DutyRecord]
  BY <1>2, <1>5 DEF Moves
<1> QED BY <1>1, <1>3, <1>5, <1>6, <1>7

LEMMA CommitInv ==
    ASSUME TxInv, NEW p \in Request, Commit(p)
    PROVE  TxInv'
<1>1. PICK r : r = req[p]
  OBVIOUS
<1>2. /\ InFlight(r) /\ Underway(r)
      /\ duty' \in [Duty -> DutyRecord]
      /\ \A d \in Duty : /\ Moves(duty[d], duty'[d])
                         /\ d \notin DOMAIN r.work => duty'[d] = duty[d]
  BY <1>1, CommitMoves
<1>3. DOMAIN req' = Request /\ ~InFlight(req'[p]) /\ \A q \in Request : q # p => req'[q] = req[q]
  BY DEF Commit, TxInv, InFlight, Ended
<1>4. UNCHANGED <<now, captain>>
  BY DEF Commit
<1>5. TypeOK'
  <2>1. r.op \in Ops
    BY <1>2 DEF Underway, Flight
  <2>2. r.op.kind = "release" => holder' = [holder EXCEPT ![r.op.m] = NoAccount]
    BY <1>1 DEF Commit
  <2>3. r.op.kind # "release" => holder' = holder
    BY <1>1 DEF Commit
  <2>4. active' \subseteq active
    BY <1>1 DEF Commit
  <2>5. standIn' \in {standIn, NoMember}
    BY <1>1 DEF Commit, ClearStandIn
  <2>6. holder' \in [Member -> Account \union {NoAccount}]
    BY <2>2, <2>3 DEF TxInv, TypeOK
  <2> QED BY <1>2, <1>4, <2>4, <2>5, <2>6 DEF TxInv, TypeOK, Time
<1>6. \A d \in Duty : DutyInv(duty'[d]) /\ AllTimely(duty'[d])
  BY <1>2 DEF Moves, Carries
<1>7. ASSUME NEW q \in Request, InFlight(req'[q]) PROVE Underway(req[q])'
  <2>1. PICK s : s = req[q]
    OBVIOUS
  <2>2. q # p /\ req'[q] = s /\ InFlight(s) /\ Underway(s)
    BY <1>3, <1>7, <2>1 DEF TxInv
  <2>3. DOMAIN s.work \subseteq Duty /\ s \in Flight
    BY <2>2, DutyOfWork DEF Underway
  <2>4. \A d \in DOMAIN s.work : duty'[d] = duty[d]
    <3>1. DOMAIN s.work \intersect DOMAIN r.work = {}
      BY <1>1, <1>2, <2>1, <2>2 DEF TxInv, LockedOnce
    <3> QED BY <1>2, <2>3, <3>1
  <2>5. /\ \A d \in DOMAIN s.work : Moves(duty'[d], s.work[d])
        /\ s.pc \in {"settle", "name", "lock"} => \A d \in DOMAIN s.work : NotYet(duty'[d], s.work[d])
    BY <2>2, <2>4 DEF Underway
  <2>6. s.pc = "lock" /\ s.op.kind = "release" => ListsCases(s)'
    <3> SUFFICES ASSUME s.pc = "lock", s.op.kind = "release", NEW j \in DOMAIN s.todo
                 PROVE  s.todo[j][2] \in DOMAIN (Sees(s, s.todo[j][1])').evidence
      BY DEF ListsCases
    <3>1. s.todo[j][2] \in DOMAIN Sees(s, s.todo[j][1]).evidence
      BY <2>2 DEF Underway, ListsCases
    <3>2. s.todo[j][1] \in Duty
      BY <2>3 DEF Flight
    <3>3. \A i \in DOMAIN duty[s.todo[j][1]].evidence : i \in DOMAIN duty'[s.todo[j][1]].evidence
      BY <1>2, <3>2 DEF Moves, Carries
    <3> QED BY <3>1, <3>3 DEF Sees
  <2>7. s.pc = "lock" /\ s.op.kind = "respond" => LooksOnce(s)'
    BY <1>4, <2>2 DEF Underway, LooksOnce, Due
  <2>8. Underway(s)'
    BY <2>2, <2>5, <2>6, <2>7 DEF Underway
  <2> QED BY <2>2, <2>8 DEF Underway, ListsCases, LooksOnce, Sees
<1>8. LockedOnce'
  BY <1>3 DEF TxInv, LockedOnce
<1> QED BY <1>3, <1>5, <1>6, <1>7, <1>8 DEF TxInv

LEMMA StatementInv ==
    ASSUME TxInv, NEW p \in Request,
           \/ Begin(p) \/ LockDuty(p) \/ LockedDuty(p) \/ SettledAll(p) \/ LockName(p)
           \/ Work(p) \/ InsertBallots(p) \/ Commit(p) \/ Abort(p)
    PROVE  TxInv'
<1>1. Abort(p) => UNCHANGED vars /\ req' = [req EXCEPT ![p] = Ended]
  BY DEF Abort
<1> QED BY <1>1, BeginInv, LockDutyInv, LockedDutyInv, SettledAllInv, LockNameInv, WorkInv,
           InsertBallotsInv, CommitInv, EndedInv

LEMMA TxNextInv == TxInv /\ [TxNext]_txVars => TxInv'
<1> SUFFICES ASSUME TxInv, [TxNext]_txVars PROVE TxInv'
  OBVIOUS
<1>1. CASE UNCHANGED txVars
  <2>1. UNCHANGED <<now, duty, holder, active, captain, standIn, req>>
    BY <1>1 DEF txVars, vars, membership
  <2>2. TypeOK' /\ LockedOnce'
    BY <2>1 DEF TxInv, TypeOK, LockedOnce, InFlight
  <2>3. \A p \in Request : Underway(req[p]) => Underway(req[p])'
    <3> SUFFICES ASSUME NEW p \in Request, NEW r, r = req[p], Underway(r) PROVE Underway(req[p])'
      OBVIOUS
    <3>1. Underway(r)'
      BY <2>1, UnderwayStays
    <3> QED BY <2>1, <3>1 DEF Underway, ListsCases, LooksOnce, Sees
  <2> QED BY <2>1, <2>2, <2>3 DEF TxInv, InFlight
<1>2. CASE \E p \in Request :
          \/ Begin(p) \/ LockDuty(p) \/ LockedDuty(p) \/ SettledAll(p) \/ LockName(p)
          \/ Work(p) \/ InsertBallots(p) \/ Commit(p) \/ Abort(p)
  BY <1>2, StatementInv
<1>3. CASE ClaimName \/ ClockTicks
  BY <1>3, ClaimNameInv, ClockTicksInv
<1> QED BY <1>1, <1>2, <1>3 DEF TxNext

LEMMA TxInvariance == TxSpec => []TxInv
BY TxInitInv, TxNextInv, PTL DEF TxSpec

\* Only a commit changes a duty, and it moves each one.
LEMMA StepMoves ==
    ASSUME TxInv, [TxNext]_txVars
    PROVE  \A d \in Duty : Moves(duty[d], duty'[d])
<1>1. \A d \in Duty : Moves(duty[d], duty[d])
  BY NothingMoves DEF TxInv, TypeOK
<1>2. CASE UNCHANGED duty
  BY <1>1, <1>2
<1>3. CASE \E p \in Request : Commit(p)
  BY <1>3, CommitMoves
<1>4. UNCHANGED duty \/ \E p \in Request : Commit(p)
  BY DEF TxNext, txVars, vars, Begin, LockDuty, LockedDuty, SettledAll, LockName, Work,
         InsertBallots, Abort, ClaimName, Claim, ClockTicks, Tick
<1> QED BY <1>2, <1>3, <1>4

-----------------------------------------------------------------------------
(* The theorems.                                                           *)

\* A case the members carried was carried in time, however the requests interleave: the vote
\* that waited for the duty's lock while the window closed does not count.
THEOREM CarriedOnTime == TxSpec => []CarriedInTime
<1>1. TxInv => CarriedInTime
  BY DEF TxInv, AllTimely, Timely, CarriedInTime
<1> QED BY <1>1, TxInvariance, PTL

\* Every commit moves each duty by one step of DutyLedger at most, though it publishes what a
\* request computed from several reads: the locks make its work one decision.
THEOREM CommitsFollowLedger == TxSpec => LedgerSteps
<1>1. TxInv /\ [TxNext]_txVars => [Ledger!Next]_duty
  <2> SUFFICES ASSUME TxInv, [TxNext]_txVars PROVE Ledger!Next
    OBVIOUS
  <2> QED BY StepMoves DEF Moves, Ledger!Next
<1> QED BY <1>1, TxInvariance, PTL DEF TxSpec, LedgerSteps

\* No ballot is taken back or changed for the softer by a request that overlaps another.
THEOREM OverlappingBallotsHarden == TxSpec => BallotsOnlyHarden
<1>1. TxInv /\ [TxNext]_txVars =>
        [\A d \in Duty : \A i \in DOMAIN duty[d].evidence : \A m \in Member :
          duty'[d].evidence[i].choice[m] \in Onward[duty[d].evidence[i].choice[m]]]_vars
  BY StepMoves DEF Moves, Carries, Hardens
<1> QED BY <1>1, TxInvariance, PTL DEF TxSpec, BallotsOnlyHarden

\* Overlapping requests leave a duty at most one live case, its newest: no commit meets the
\* partial unique index.
THEOREM OneLiveCaseCommitted == TxSpec => []OnlyNewestIsLive
<1>1. TxInv => OnlyNewestIsLive
  BY DEF TxInv, DutyInv, OnlyNewestIsLive
<1> QED BY <1>1, TxInvariance, PTL

\* A duty that overlapping requests complete is completed by exactly one piece of evidence, and
\* from its effective time.
THEOREM CompletionCommitted == TxSpec => []CompletedByItsEvidence
<1>1. TxInv => CompletedByItsEvidence
  BY DEF TxInv, DutyInv, CompletedByItsEvidence
<1> QED BY <1>1, TxInvariance, PTL
=============================================================================
