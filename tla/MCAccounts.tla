------------------------------- MODULE MCAccounts -------------------------------
(* Two persons with the same prefix, and requests that overlap in pairs.       *)
EXTENDS Accounts
=============================================================================
