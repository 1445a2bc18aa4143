------------------------- MODULE MCWalletTransactions --------------------------
(* WalletTransactions on one user: no operation touches the rows of two users. *)
EXTENDS WalletTransactions

CONSTANT u1, s1, s2
=============================================================================
