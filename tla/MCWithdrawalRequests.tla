-------------------------- MODULE MCWithdrawalRequests --------------------------
(* Two requests of one user, which together exceed the daily limit, and in one *)
(* of the two initial balances the balance.                                    *)
EXTENDS WithdrawalRequests

Wish == [r \in Ids |-> 2]
=============================================================================
