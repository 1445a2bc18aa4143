----------------------------- MODULE WalletService -----------------------------
(***************************************************************************)
(* The arithmetic of app/services/wallet_service.py on one row of          *)
(* user_crypto_balances.  A row holds what the user can spend (column      *)
(* balance) and what bets and withdrawals have set aside (locked_balance,  *)
(* here reserved).  Five operations change a row; each refuses a           *)
(* non-positive amount, checks the column it takes from, writes new values *)
(* computed from the ones it read, and adds a ledger entry that records    *)
(* both columns before and after.                                          *)
(*                                                                         *)
(* Amounts are NUMERIC(20,8) in the database: exact decimals, so natural   *)
(* numbers (of the smallest unit) lose nothing.                            *)
(***************************************************************************)
EXTENDS Integers, Sequences

CONSTANT Amounts            \* the amounts a caller may ask for

ASSUME AmountsAssumption == Amounts \subseteq Nat

Row == [balance : Nat, reserved : Nat]

\* What get_or_create_balance inserts.
EmptyRow == [balance |-> 0, reserved |-> 0]

Ops == {"credit", "debit", "lock", "unlock", "deduct"}

Call == [op : Ops, amount : Amounts]

-----------------------------------------------------------------------------
(* The guard of each operation: what it takes must be there.               *)

\* Mutant: locking does not look at the available balance.
MutantSufficient(op, r, a) ==
    CASE op = "debit"              -> r.balance >= a
      [] op \in {"unlock", "deduct"} -> r.reserved >= a
      [] OTHER                     -> TRUE

Sufficient(op, r, a) ==
    CASE op \in {"debit", "lock"}    -> r.balance >= a
      [] op \in {"unlock", "deduct"} -> r.reserved >= a
      [] OTHER                       -> TRUE

Accepts(r, call) == call.amount > 0 /\ Sufficient(call.op, r, call.amount)

-----------------------------------------------------------------------------
(* The new row.                                                            *)

CreditBalance(r, a)         == [r EXCEPT !.balance = @ + a]
DebitBalance(r, a)          == [r EXCEPT !.balance = @ - a]
LockBalance(r, a)           == [balance |-> r.balance - a, reserved |-> r.reserved + a]

UnlockBalance(r, a)         == [balance |-> r.balance + a, reserved |-> r.reserved - a]
DeductReservedBalance(r, a) == [r EXCEPT !.reserved = @ - a]

Apply(r, call) ==
    CASE call.op = "credit" -> CreditBalance(r, call.amount)
      [] call.op = "debit"  -> DebitBalance(r, call.amount)
      [] call.op = "lock"   -> LockBalance(r, call.amount)
      [] call.op = "unlock" -> UnlockBalance(r, call.amount)
      [] OTHER              -> DeductReservedBalance(r, call.amount)

\* Mutant: every operation assigns both columns, as in a shared helper.
MutantColumns(op) == {"balance", "reserved"}

\* The columns the flush of an operation names in its UPDATE: SQLAlchemy sends
\* only the attributes that were assigned.
Columns(op) ==
    CASE op \in {"credit", "debit"} -> {"balance"}
      [] op = "deduct"              -> {"reserved"}
      [] OTHER                      -> {"balance", "reserved"}

-----------------------------------------------------------------------------
(* The ledger.  The code has no type of its own for the deduction of       *)
(* reserved funds: it is a WITHDRAWAL_DEBIT like the debit of available    *)
(* ones, and only the before/after columns tell the two apart.             *)

EntryTypes == {"DEPOSIT_CREDIT", "WITHDRAWAL_DEBIT", "WITHDRAWAL_LOCK", "WITHDRAWAL_UNLOCK"}

EntryType(op) ==
    CASE op = "credit"              -> "DEPOSIT_CREDIT"
      [] op \in {"debit", "deduct"} -> "WITHDRAWAL_DEBIT"
      [] op = "lock"                -> "WITHDRAWAL_LOCK"
      [] OTHER                      -> "WITHDRAWAL_UNLOCK"

Entry == [type : EntryTypes, amount : Amounts, before : Row, after : Row]

\* Mutant: reserved_after is left at reserved_before.
MutantEntryOf(r, call) ==
    [type   |-> EntryType(call.op), amount |-> call.amount,
     before |-> r, after |-> [r EXCEPT !.balance = Apply(r, call).balance]]

EntryOf(r, call) ==
    [type   |-> EntryType(call.op), amount |-> call.amount,
     before |-> r,                after  |-> Apply(r, call)]

-----------------------------------------------------------------------------
(* A database transaction makes one call, or two of them: settling a won   *)
(* bet deducts the stake and then credits the payout.  The second call     *)
(* finds the row object of the first one in the session and goes on from   *)
(* its values.                                                             *)

Plans == {<<c>> : c \in Call}
           \cup {<<c, d>> : c \in {x \in Call : x.op = "deduct"},
                            d \in {x \in Call : x.op = "credit"}}

PlanAccepted(r, plan) ==
    /\ Accepts(r, plan[1])
    /\ Len(plan) = 2 => Accepts(Apply(r, plan[1]), plan[2])

AfterPlan(r, plan) ==
    IF Len(plan) = 2 THEN Apply(Apply(r, plan[1]), plan[2]) ELSE Apply(r, plan[1])

PlanEntries(r, plan) ==
    IF Len(plan) = 2
    THEN <<EntryOf(r, plan[1]), EntryOf(Apply(r, plan[1]), plan[2])>>
    ELSE <<EntryOf(r, plan[1])>>

PlanColumns(plan) == UNION {Columns(plan[i].op) : i \in DOMAIN plan}

-----------------------------------------------------------------------------
(* What the flush of a plan leaves in the row, which another transaction   *)
(* may have changed since it was read as `seen`.                           *)

\* An UPDATE writes the new values into the columns it names.
WriteColumns(old, new, columns) ==
    [balance  |-> IF "balance" \in columns THEN new.balance ELSE old.balance,
     reserved |-> IF "reserved" \in columns THEN new.reserved ELSE old.reserved]

Written(old, seen, plan) == WriteColumns(old, AfterPlan(seen, plan), PlanColumns(plan))
=============================================================================
