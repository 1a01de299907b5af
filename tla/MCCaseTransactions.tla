-------------------------- MODULE MCCaseTransactions ---------------------------
(* A few concurrent requests for TLC. *)
EXTENDS CaseTransactions, TLC

CONSTANTS cap, sub, v1              \* members
CONSTANTS aCap, aSub, a1, aNew      \* accounts; aNew holds no name yet
CONSTANTS r1, r2

Claimants == [m \in Member |-> CASE m = cap -> aCap [] m = sub -> aSub [] m = v1 -> a1]
OwnKinds == [d \in Duty |-> d]

Requests == Permutations(Request)
=============================================================================
