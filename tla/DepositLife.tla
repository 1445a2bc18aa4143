------------------------------ MODULE DepositLife -------------------------------
(***************************************************************************)
(* What the deposit page promises about one deposit that nobody touches by *)
(* hand: it is credited at most once, at the moment it is settled, and     *)
(* what has ended (settled, failed, expired) stays as it ended.            *)
(*                                                                         *)
(* Deposits is what the program does with all deposits at once.            *)
(***************************************************************************)
EXTENDS Naturals

VARIABLES status, credits

vars == <<status, credits>>

\* Moves that credit nothing.  A transfer seen on the deposit's address takes
\* it to detected, one already used by another deposit to failed; confirmed is
\* where a settlement that was refused leaves it.
Uncredited ==
    {<<"none", "pending">>, <<"pending", "detected">>, <<"pending", "failed">>,
     <<"detected", "confirmed">>, <<"detected", "expired">>, <<"confirmed", "expired">>}

Move == <<status, status'>> \in Uncredited /\ credits' = credits

Settle ==
    /\ status \in {"detected", "confirmed"} /\ status' = "settled"
    /\ credits = 0 /\ credits' = 1

Next == Move \/ Settle
=============================================================================
