------------------------------- MODULE BetBook ---------------------------------
(***************************************************************************)
(* What betting from the wallet promises: the stake of a bet is set aside  *)
(* when it is placed and stays there until the bet ends, once, in one of   *)
(* four ways.  A win pays stake times odds, a loss takes the stake, a void *)
(* or cancelled bet gives it back.                                         *)
(*                                                                         *)
(* Bets is what the program does, and says under which condition it        *)
(* implements this module.                                                 *)
(***************************************************************************)
EXTENDS Naturals

CONSTANTS B, Stake, Payout

VARIABLES status, wallet

Place(b) ==
    /\ status[b] = "none"
    /\ wallet.balance >= Stake[b]
    /\ status' = [status EXCEPT ![b] = "pending"]
    /\ wallet' = [balance |-> wallet.balance - Stake[b], reserved |-> wallet.reserved + Stake[b]]

\* What comes back of the stake.
Back(b, outcome) ==
    CASE outcome = "won"  -> Payout[b]
      [] outcome = "lost" -> 0
      [] OTHER            -> Stake[b]

Close(b, outcome) ==
    /\ status[b] = "pending"
    /\ wallet.reserved >= Stake[b]
    /\ status' = [status EXCEPT ![b] = outcome]
    /\ wallet' = [balance  |-> wallet.balance + Back(b, outcome),
                  reserved |-> wallet.reserved - Stake[b]]

Next == \E b \in B : Place(b) \/ \E outcome \in {"won", "lost", "void", "cancelled"} : Close(b, outcome)
=============================================================================
