----------------------------- MODULE MCWithdrawals ------------------------------
(* Withdrawals with small sets of requests and sessions.  Every request asks   *)
(* for one unit and the user starts with one for each.                         *)
EXTENDS Withdrawals, TLC

CONSTANT w1, w2, s1, s2

OneEach == [w \in W |-> 1]

AllFunds == Cardinality(W)

Symmetric == Permutations(Sessions) \cup Permutations(W)
=============================================================================
