-------------------------------- MODULE MCBets ---------------------------------
(* Bets with two bets of different stakes, which use up the funds of the user  *)
(* if both are placed.                                                         *)
EXTENDS Bets, TLC

CONSTANT b1, b2, s1, s2, s3

Stakes == b1 :> 1 @@ b2 :> 2

Payouts == b1 :> 2 @@ b2 :> 3
=============================================================================
