--------------------------- MODULE MCEvidenceCases ---------------------------
(* Small leagues for TLC. *)
EXTENDS EvidenceCases, TLC

CONSTANTS cap, sub, v1, v2      \* members
CONSTANTS aCap, aSub, a1, a2, adm   \* accounts
CONSTANTS d1, d2

\* Everybody has claimed their name; the admin holds none.
AllClaimed == [m \in Member |-> CASE m = cap -> aCap [] m = sub -> aSub
                                  [] m = v1 -> a1 [] m = v2 -> a2]
\* The captain and two voters have claimed theirs.
ThreeClaimed == [m \in Member |-> CASE m = cap -> aCap [] m = sub -> aSub [] m = v1 -> a1]
OneKind == [d \in Duty |-> "round 1 pick"]
OwnKinds == [d \in Duty |-> d]

\* Nobody joins or leaves: the votes, vetoes, rulings and clock alone.
VotingSpec == Init /\ [][CaseNext]_vars

\* Bound: one name at a time is withdrawn or in other hands than at first; the captaincy and
\* the stand-in move freely.
FewChanges ==
    Cardinality({m \in Member : holder[m] # InitialHolder[m] \/ m \notin active}) <= 1
=============================================================================
