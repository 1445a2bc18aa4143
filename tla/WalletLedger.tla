----------------------------- MODULE WalletLedger ------------------------------
(***************************************************************************)
(* What the wallet promises: transactions happen one at a time.  Each      *)
(* committed transaction is accepted on the row the previous one left, and *)
(* the ledger of a user is the complete history of that user's row         *)
(* ("Ledger entry for every balance change", app/models/                   *)
(* wallet_transaction.py; "Ensures balance consistency and complete audit  *)
(* trail", app/services/wallet_service.py).                                *)
(*                                                                         *)
(* WalletTransactions is what the program does, and says under which       *)
(* condition it implements this module.                                    *)
(***************************************************************************)
EXTENDS WalletService

CONSTANT Users, MaxEntries     \* MaxEntries bounds the ledger of a user

VARIABLES row, ledger

vars == <<row, ledger>>

Init ==
    /\ row = [u \in Users |-> EmptyRow]
    /\ ledger = [u \in Users |-> <<>>]

Transact(u, plan) ==
    /\ Len(ledger[u]) + Len(plan) <= MaxEntries
    /\ PlanAccepted(row[u], plan)
    /\ row' = [row EXCEPT ![u] = AfterPlan(@, plan)]
    /\ ledger' = [ledger EXCEPT ![u] = @ \o PlanEntries(row[u], plan)]

Next == \E u \in Users, plan \in Plans : Transact(u, plan)

Spec == Init /\ [][Next]_vars

-----------------------------------------------------------------------------
TypeOK ==
    /\ row \in [Users -> Row]
    /\ ledger \in [Users -> Seq(Entry)]

\* The row a replay of a ledger ends with.
Replayed(entries) == IF entries = <<>> THEN EmptyRow ELSE entries[Len(entries)].after

\* An entry starts from where the one before it ended, and the first from nothing.
Chained(entries) ==
    \A i \in 1..Len(entries) :
        entries[i].before = IF i = 1 THEN EmptyRow ELSE entries[i - 1].after

\* The stored row of every user is what a replay of the ledger gives, and the
\* ledger has no gap (LedgerVerifier in tests/test_ledger_invariants.py).
StoredMatchesLedger ==
    \A u \in Users : Chained(ledger[u]) /\ row[u] = Replayed(ledger[u])
=============================================================================
