----------------------------- MODULE LegacyBetLife ------------------------------
(***************************************************************************)
(* What the betting page promises about one bet on funds_usd that is       *)
(* settled by one request at a time: it ends once, won or lost, a win is   *)
(* paid once, at that moment, and only an administrator who reverts the    *)
(* settlement opens it again, taking the win back.                         *)
(*                                                                         *)
(* LegacyBets is what the program does with all bets.                      *)
(***************************************************************************)
EXTENDS Naturals

VARIABLES status, paid, ended   \* ended: transactions of type bet_won or bet_lost

vars == <<status, paid, ended>>

Place == status = "none" /\ status' = "pending" /\ UNCHANGED <<paid, ended>>

\* A commission commits the lost bet's transaction before the bet itself; if the
\* bet is not committed after it, another settlement may write a second one.
Announce == status = "pending" /\ ended = 0 /\ ended' = 1 /\ UNCHANGED <<status, paid>>

Closed == ended' \in {ended, ended + 1} /\ ended' > 0

Won ==
    /\ status = "pending" /\ status' = "won"
    /\ paid = 0 /\ paid' = 1
    /\ Closed

Lost ==
    /\ status = "pending" /\ status' = "lost"
    /\ Closed /\ UNCHANGED paid

Reopen ==
    /\ status \in {"won", "lost"} /\ status' = "pending"
    /\ paid' = 0 /\ ended' = 0

Next == Place \/ Announce \/ Won \/ Lost \/ Reopen
=============================================================================
