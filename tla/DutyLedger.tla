------------------------------ MODULE DutyLedger ------------------------------
(***************************************************************************)
(* What the league promises about a duty, with no vote, clock or veto in   *)
(* sight: a duty is opened once, holds at most one piece of evidence that  *)
(* is waiting for a decision, and is finished for good by the first        *)
(* accepted one or by being voided.  EvidenceCases implements it.          *)
(***************************************************************************)
EXTENDS Naturals, Sequences

CONSTANTS Duty      \* the duties of one league

VARIABLES ledger    \* duty -> its status and the decisions on its evidence

Phase == {"none", "live", "completed", "voided"}
Decision == {"pending", "accepted", "rejected", "superseded"}
Entry == [phase : Phase, decisions : Seq(Decision)]

TypeOK == ledger \in [Duty -> Entry]

Init == ledger = [d \in Duty |-> [phase |-> "none", decisions |-> <<>>]]

Nothing == [phase |-> "none", decisions |-> <<>>]

\* Every pending decision of ds, replaced by the given one.
Settle(ds, decision) ==
    [i \in DOMAIN ds |-> IF ds[i] = "pending" THEN decision ELSE ds[i]]

HasPending(ds) == \E i \in DOMAIN ds : ds[i] = "pending"

\* The steps one duty's entry e may take to e2.
Open(e, e2) == e = Nothing /\ e2 = [phase |-> "live", decisions |-> <<>>]

Submit(e, e2) ==
    /\ e.phase = "live"
    /\ LET older == Settle(e.decisions, "superseded") IN
       \/ e2 = [phase |-> "live", decisions |-> Append(older, "pending")]
       \/ e2 = [phase |-> "completed", decisions |-> Append(older, "accepted")]

Decide(e, e2) ==
    /\ e.phase = "live" /\ HasPending(e.decisions)
    /\ \/ e2 = [phase |-> "completed", decisions |-> Settle(e.decisions, "accepted")]
       \/ e2 = [phase |-> "live", decisions |-> Settle(e.decisions, "rejected")]

Void(e, e2) ==
    /\ e.phase = "live"
    /\ e2 = [phase |-> "voided", decisions |-> Settle(e.decisions, "superseded")]

EntryStep(e, e2) == Open(e, e2) \/ Submit(e, e2) \/ Decide(e, e2) \/ Void(e, e2)

\* One transaction may settle several duties, but moves each by one step at most.
Next ==
    /\ ledger' = [d \in Duty |-> ledger'[d]]
    /\ \A d \in Duty : ledger'[d] = ledger[d] \/ EntryStep(ledger[d], ledger'[d])

Spec == Init /\ [][Next]_ledger
=============================================================================
