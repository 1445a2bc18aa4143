------------------------------ MODULE LegacyFunds -------------------------------
(***************************************************************************)
(* The balance users.funds_usd and the table transactions beside it, for   *)
(* one user: hosted deposits and withdrawals, the two requests that make a *)
(* bet, the administrator's adjustments.                                   *)
(*                                                                         *)
(* Every request loads the user when it starts and writes an absolute      *)
(* balance, computed from what it loaded, when it commits.  Nothing is     *)
(* locked in between, so a request overwrites what others have committed   *)
(* since.  The payment provider is called before the database commits.     *)
(*                                                                         *)
(* Amounts are all 1.  LegacyBets adds the bets and their settlement.      *)
(***************************************************************************)
EXTENDS Integers, FiniteSets

CONSTANTS
    Sessions,       \* the sessions of requests and of the daily job
    B,              \* bets
    None,
    Opening,        \* what the user has deposited before
    LiveMode,       \* PAYMENT_MODE = "live": cards and banks are paid through Stripe
    MaxRequests,    \* bound on the requests
    MaxPayments,    \* as many of the first requests may be of this module
    MaxFailures     \* bound on crashes and misread results

ASSUME LegacyFundsAssumption ==
    /\ IsFiniteSet(Sessions) /\ IsFiniteSet(B)
    /\ None \notin Sessions \cup B \cup Int /\ Opening \in Nat /\ LiveMode \in BOOLEAN
    /\ {MaxRequests, MaxPayments, MaxFailures} \subseteq Nat

VARIABLES
    funds,          \* users.funds_usd
    net,            \* net_balance of the user's transaction summary
    lock,           \* the session whose open transaction has updated the user's row
    work,           \* work[p]: where session p stands
    unbooked,       \* charges and payouts the provider made less those written down
    staked,         \* the bets whose stake the client has deducted
    requests, failures,     \* history: how many
    overwritten,    \* history: a commit wrote over a balance it had not seen
    adjusted        \* history: the balance was changed without a transaction of its kind

fundsVars == <<funds, net, lock, unbooked, staked, failures, overwritten, adjusted>>

Idle == [at |-> "idle"]

Kinds == {"deposit", "charge", "confirm", "withdraw", "payout", "deduct", "adjust"}

\* What a request adds to the balance, and to the net balance of the summary.
Delta(kind) == IF kind \in {"deposit", "charge", "confirm", "adjust"} THEN 1 ELSE -1

Booked(kind) == IF kind \in {"confirm", "deduct", "adjust"} THEN 0 ELSE Delta(kind)

\* provider: the provider is called next.  loaded: the database is written next.
Active == [at : {"provider", "loaded"}, kind : Kinds, seen : Int, bet : B \cup {None}]

FundsTypeOK ==
    /\ funds \in Int /\ net \in Int
    /\ lock \in Sessions \cup {None}
    /\ unbooked \in Int
    /\ staked \subseteq B
    /\ requests \in Nat /\ failures \in Nat
    /\ overwritten \in BOOLEAN /\ adjusted \in BOOLEAN

FundsInit ==
    /\ lock = None
    /\ work = [p \in Sessions |-> Idle]
    /\ unbooked = 0
    /\ requests = 0 /\ failures = 0
    /\ overwritten = FALSE /\ adjusted = FALSE

-----------------------------------------------------------------------------
Begin(p) ==
    /\ work[p] = Idle /\ requests < MaxRequests
    /\ requests' = requests + 1

Load(p, at, kind, b) ==
    /\ Begin(p)
    /\ work' = [work EXCEPT ![p] = [at |-> at, kind |-> kind, seen |-> funds, bet |-> b]]
    /\ UNCHANGED fundsVars

\* Deposits: a card is charged first, everything else is believed.
ProcessCard(p) == Load(p, "provider", "charge", None)

SimulateCard(p) == Load(p, "loaded", "deposit", None)

ProcessBankTransfer(p) == Load(p, "loaded", "deposit", None)

ProcessPaypal(p) == Load(p, "loaded", "deposit", None)

AddFunds(p) == Load(p, "loaded", "deposit", None)

\* The transfer is looked up on the chain, and no transaction is written.
ConfirmCrypto(p) == Load(p, "loaded", "confirm", None)

\* funds_usd as the request has loaded it is enough.
Covered == funds >= 1

Payout == IF LiveMode THEN "provider" ELSE "loaded"

WithdrawCrypto(p) == Covered /\ Load(p, "loaded", "withdraw", None)

WithdrawToCard(p) == Covered /\ Load(p, Payout, "payout", None)

WithdrawToBank(p) == Covered /\ Load(p, Payout, "payout", None)

WithdrawPaypal(p) == Covered /\ Load(p, "loaded", "withdraw", None)

Deducting(q, b) == work[q].at = "loaded" /\ work[q].bet = b

\* The stake of a bet, asked for once; its transaction comes with the record of
\* the bet.
DeductFunds(p, b) ==
    /\ b \notin staked /\ \A q \in Sessions : ~Deducting(q, b)
    /\ Covered /\ Load(p, "loaded", "deduct", b)

\* The administrator's corrections, with a transaction of another type or none.
AdjustFunds(p) == Load(p, "loaded", "adjust", None)

\* Stripe charges the card or pays out.
Provide(p) ==
    /\ work[p].at = "provider"
    /\ unbooked' = unbooked + 1
    /\ work' = [work EXCEPT ![p].at = "loaded"]
    /\ UNCHANGED <<funds, net, lock, staked, requests, failures, overwritten, adjusted>>

\* A live payout and a charge call the provider before the books are written; a
\* payout in the test mode does not.
ThroughProvider(kind) == kind = "charge" \/ (kind = "payout" /\ LiveMode)

\* Mutant: the payout is written before the provider is called.
MutantUpdateUser(p) ==
    LET w == work[p] IN
    /\ w.at \in {"provider", "loaded"} /\ lock = None
    /\ funds' = w.seen + Delta(w.kind)
    /\ overwritten' = (overwritten \/ funds # w.seen)
    /\ net' = net + Booked(w.kind)
    /\ unbooked' = IF ThroughProvider(w.kind) THEN unbooked - 1 ELSE unbooked
    /\ staked' = IF w.kind = "deduct" THEN staked \cup {w.bet} ELSE staked
    /\ adjusted' = (adjusted \/ w.kind \in {"confirm", "adjust"})
    /\ work' = [work EXCEPT ![p] = Idle]
    /\ UNCHANGED <<lock, requests, failures>>

\* One commit: the transaction, if any, and the balance computed from what was
\* loaded.  The update waits for a settlement that has updated the row.
UpdateUser(p) ==
    LET w == work[p] IN
    /\ w.at = "loaded" /\ lock = None
    /\ funds' = w.seen + Delta(w.kind)
    /\ overwritten' = (overwritten \/ funds # w.seen)
    /\ net' = net + Booked(w.kind)
    /\ unbooked' = IF ThroughProvider(w.kind) THEN unbooked - 1 ELSE unbooked
    /\ staked' = IF w.kind = "deduct" THEN staked \cup {w.bet} ELSE staked
    /\ adjusted' = (adjusted \/ w.kind \in {"confirm", "adjust"})
    /\ work' = [work EXCEPT ![p] = Idle]
    /\ UNCHANGED <<lock, requests, failures>>

\* The process dies, the database is gone: what was not committed is lost.
Abort(p) ==
    /\ work' = [work EXCEPT ![p] = Idle]
    /\ lock' = IF lock = p THEN None ELSE lock

Fail(p) ==
    /\ work[p] # Idle /\ failures < MaxFailures
    /\ failures' = failures + 1
    /\ Abort(p)
    /\ UNCHANGED <<funds, net, unbooked, staked, requests, overwritten, adjusted>>

FundsRequest(p) ==
    /\ requests < MaxPayments
    /\ \/ ProcessCard(p) \/ SimulateCard(p) \/ ProcessBankTransfer(p) \/ ProcessPaypal(p)
       \/ AddFunds(p) \/ ConfirmCrypto(p)
       \/ WithdrawCrypto(p) \/ WithdrawToCard(p) \/ WithdrawToBank(p) \/ WithdrawPaypal(p)
       \/ AdjustFunds(p)
       \/ \E b \in B : DeductFunds(p, b)

FundsStep(p) == Provide(p) \/ UpdateUser(p)
-----------------------------------------------------------------------------
\* A charge or a payout that the books do not show belongs to a request still
\* open, or was cut off by a failure between the provider and the commit; one
\* the books show was made.
ProviderIsBooked ==
    LET open == {p \in Sessions : work[p].at = "loaded" /\ ThroughProvider(work[p].kind)} IN
    unbooked \in Cardinality(open)..(Cardinality(open) + failures)
=============================================================================
