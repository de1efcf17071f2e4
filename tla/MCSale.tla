------------------------------- MODULE MCSale -------------------------------
(* Instances of Sale for TLC. *)
EXTENDS Sale, TLC

CONSTANTS paid, unpaid        \* two contents
CONSTANTS north, south        \* two branches

\* Two contents of one branch: sales that race for one counter.
OneBranch == [c \in Contents |-> north]
\* A branch for each content: sales that race for one identity only.
TwoBranches == [c \in Contents |-> IF c = paid THEN north ELSE south]
PaidOnly == [c \in Contents |-> c = paid]

SaleSymmetry ==
  Permutations(Handlers) \cup Permutations(Bills) \cup Permutations(Keys)
=============================================================================
