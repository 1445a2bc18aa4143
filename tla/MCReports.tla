------------------------------- MODULE MCReports -------------------------------
(* Two bets of different stakes, which use up the funds of the user if both are *)
(* placed, and the reports of two days.  Three computations by two requests are  *)
(* what a mixed report takes: one stored, one that sees it, one stored between.  *)
EXTENDS RevenueReports, TLC

CONSTANT b1, b2, s1, s2, s3, r1, r2

Stakes == b1 :> 1 @@ b2 :> 2

Payouts == b1 :> 2 @@ b2 :> 3

Alike == Permutations(Reporters)
=============================================================================
