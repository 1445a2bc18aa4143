------------------------------ MODULE MCLegacyBets ------------------------------
(* Bets of one user on a match whose teams have two rows, two requests at a    *)
(* time and the daily job.                                                     *)
EXTENDS LegacyBets

CONSTANT p1
=============================================================================
