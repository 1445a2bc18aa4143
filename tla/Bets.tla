--------------------------------- MODULE Bets ----------------------------------
(***************************************************************************)
(* Bets on the internal wallet (app/services/bet_service.py): placing one  *)
(* locks its stake, settling or cancelling it releases the stake, each in  *)
(* one database transaction.                                               *)
(*                                                                         *)
(* Settlement and cancellation begin with SELECT ... FOR UPDATE on the row *)
(* of the bet, so they exclude each other.  The wallet row is another      *)
(* matter: it is read without a lock and overwritten by the flush, as in   *)
(* WalletTransactions.  The bets here are all of one user, and their       *)
(* sessions race on that user's wallet row, which exists.                  *)
(***************************************************************************)
EXTENDS WalletService, FiniteSetsExt

CONSTANTS
    B,              \* the bets
    Stake, Payout,  \* Stake[b]; Payout[b], the stake times the odds
    Funds,          \* the user's balance at the start
    Sessions, None  \* None: nobody holds the lock

ASSUME BetsAssumption ==
    /\ IsFiniteSet(B)
    /\ Stake \in [B -> Amounts \ {0}] /\ Payout \in [B -> Amounts \ {0}]
    /\ Funds \in Nat /\ None \notin Sessions

VARIABLES
    status,      \* status[b]: the committed status, "none" before the row exists
    entries,     \* entries[b]: the types of the ledger entries that refer to b
    wallet,      \* the committed row of user_crypto_balances
    finished,    \* has the match a result?
    betLock,     \* betLock[b]: the session that holds b's row, or None
    walletLock,  \* the session that holds the wallet row, or None
    session,     \* session[s]: where the transaction of session s stands
    commits,     \* history: the number of commits
    raced        \* history: how many commits overwrote a wallet row newer than the one they read

vars == <<status, entries, wallet, finished, betLock, walletLock, session, commits, raced>>

Outcomes == {"won", "lost", "void", "cancelled"}

Statuses == {"none", "pending"} \cup Outcomes

Types == {"BET_LOCK", "BET_WIN_DEDUCT_STAKE", "BET_WIN_PAYOUT_CREDIT", "BET_LOSS_DEDUCT",
          "BET_VOID_UNLOCK", "BET_CANCEL_UNLOCK"}

\* begun: has the bet's row; read: has read the wallet as `seen`; flushed: the
\* UPDATEs were sent.  `to` is the status it will commit, `at` is history: the
\* number of commits when it read the wallet.
Active == [phase : {"begun", "read", "flushed"}, b : B, to : Statuses \ {"none"},
           seen : Row, at : Nat]

Idle == [phase |-> "idle"]

TypeOK ==
    /\ status \in [B -> Statuses]
    /\ entries \in [B -> Seq(Types)]
    /\ wallet \in Row
    /\ finished \in BOOLEAN
    /\ betLock \in [B -> Sessions \cup {None}]
    /\ walletLock \in Sessions \cup {None}
    /\ session \in [Sessions -> Active \cup {Idle}]
    /\ commits \in Nat
    /\ raced \in Nat

Init ==
    /\ status = [b \in B |-> "none"]
    /\ entries = [b \in B |-> <<>>]
    /\ wallet = [balance |-> Funds, reserved |-> 0]
    /\ finished = FALSE
    /\ betLock = [b \in B |-> None]
    /\ walletLock = None
    /\ session = [s \in Sessions |-> Idle]
    /\ commits = 0
    /\ raced = 0

-----------------------------------------------------------------------------
(* What each transaction asks of the wallet.                               *)

Calling(op, amount) == [op |-> op, amount |-> amount]

\* Mutant: a win credits the profit of a stake that was deducted.
MutantPlanOf(b, to) ==
    CASE to = "pending" -> <<Calling("lock", Stake[b])>>
      [] to = "won"     -> <<Calling("deduct", Stake[b]), Calling("credit", Payout[b] - Stake[b])>>
      [] to = "lost"    -> <<Calling("deduct", Stake[b])>>
      [] OTHER          -> <<Calling("unlock", Stake[b])>>

\* Mutant: a void bet is treated as a lost one.
MutantVoidPlan(b, to) ==
    CASE to = "pending"         -> <<Calling("lock", Stake[b])>>
      [] to = "won"             -> <<Calling("deduct", Stake[b]), Calling("credit", Payout[b])>>
      [] to \in {"lost", "void"} -> <<Calling("deduct", Stake[b])>>
      [] OTHER                  -> <<Calling("unlock", Stake[b])>>

PlanOf(b, to) ==
    CASE to = "pending" -> <<Calling("lock", Stake[b])>>
      [] to = "won"     -> <<Calling("deduct", Stake[b]), Calling("credit", Payout[b])>>
      [] to = "lost"    -> <<Calling("deduct", Stake[b])>>
      [] OTHER          -> <<Calling("unlock", Stake[b])>>

\* The wallet operation writes an entry of its own type, which the bet service
\* replaces by that of the occasion before the commit.
TypesOf(to) ==
    CASE to = "pending" -> <<"BET_LOCK">>
      [] to = "won"     -> <<"BET_WIN_DEDUCT_STAKE", "BET_WIN_PAYOUT_CREDIT">>
      [] to = "lost"    -> <<"BET_LOSS_DEDUCT">>
      [] to = "void"    -> <<"BET_VOID_UNLOCK">>
      [] OTHER          -> <<"BET_CANCEL_UNLOCK">>

-----------------------------------------------------------------------------
(* Transactions.                                                           *)

In(s, phase) == session[s].phase = phase

MayTake(s) == walletLock \in {None, s}

Start(s, b, to) ==
    /\ In(s, "idle")
    /\ betLock[b] = None
    /\ betLock' = [betLock EXCEPT ![b] = s]
    /\ session' = [session EXCEPT ![s] =
          [phase |-> "begun", b |-> b, to |-> to, seen |-> EmptyRow, at |-> 0]]
    /\ UNCHANGED <<status, entries, wallet, finished, walletLock, commits, raced>>

\* place_bet: the match has no result; the new row is its own until it commits.
Place(s, b) == status[b] = "none" /\ ~finished /\ Start(s, b, "pending")

\* Mutant: the bet is read without FOR UPDATE.
MutantSettle(s, b, outcome) ==
    /\ In(s, "idle")
    /\ status[b] = "pending"
    /\ session' = [session EXCEPT ![s] =
          [phase |-> "begun", b |-> b, to |-> outcome, seen |-> EmptyRow, at |-> 0]]
    /\ UNCHANGED <<status, entries, wallet, finished, betLock, walletLock, commits, raced>>

\* settle_bet: FOR UPDATE.  A bet that is not pending is returned as it is.
\* SETTLING is never committed: the outcome replaces it or a rollback removes it.
Settle(s, b, outcome) == status[b] = "pending" /\ Start(s, b, outcome)

\* cancel_bet: FOR UPDATE, pending, and the match has no result.
Cancel(s, b) == status[b] = "pending" /\ ~finished /\ Start(s, b, "cancelled")

\* The unlocked SELECT of get_or_create_balance.
ReadWallet(s) ==
    /\ In(s, "begun")
    /\ session' = [session EXCEPT ![s].phase = "read", ![s].seen = wallet, ![s].at = commits]
    /\ UNCHANGED <<status, entries, wallet, finished, betLock, walletLock, commits, raced>>

\* Mutant: the rollback of a failed settlement is left out.
MutantAbort(s) ==
    /\ session' = [session EXCEPT ![s] = Idle]
    /\ UNCHANGED <<status, entries, wallet, finished, betLock, walletLock, commits, raced>>

\* Rollback: as if it had not begun.
Abort(s) ==
    /\ session' = [session EXCEPT ![s] = Idle]
    /\ betLock' = [b \in B |-> IF betLock[b] = s THEN None ELSE betLock[b]]
    /\ walletLock' = IF walletLock = s THEN None ELSE walletLock
    /\ UNCHANGED <<status, entries, wallet, finished, commits, raced>>

Plan(s) == PlanOf(session[s].b, session[s].to)

\* The wallet refuses: ValueError, rollback, the bet stays as it was.
Refuse(s) == In(s, "read") /\ ~PlanAccepted(session[s].seen, Plan(s)) /\ Abort(s)

\* The UPDATE of the wallet row waits for its lock.
Flush(s) ==
    /\ In(s, "read")
    /\ PlanAccepted(session[s].seen, Plan(s))
    /\ MayTake(s)
    /\ walletLock' = s
    /\ session' = [session EXCEPT ![s].phase = "flushed"]
    /\ UNCHANGED <<status, entries, wallet, finished, betLock, commits, raced>>

\* The bet, the wallet row and the ledger entries become visible together.
Commit(s) ==
    LET b == session[s].b  to == session[s].to IN
    /\ In(s, "flushed")
    /\ status' = [status EXCEPT ![b] = to]
    /\ entries' = [entries EXCEPT ![b] = @ \o TypesOf(to)]
    /\ wallet' = Written(wallet, session[s].seen, Plan(s))
    /\ commits' = commits + 1
    /\ raced' = IF session[s].at = commits THEN raced ELSE raced + 1
    /\ session' = [session EXCEPT ![s] = Idle]
    /\ betLock' = [c \in B |-> IF betLock[c] = s THEN None ELSE betLock[c]]
    /\ walletLock' = None
    /\ UNCHANGED finished

\* A failing statement, a lost connection, a killed worker.
Rollback(s) == ~In(s, "idle") /\ Abort(s)

\* The result of the match arrives.
Finish ==
    /\ finished' = TRUE
    /\ UNCHANGED <<status, entries, wallet, betLock, walletLock, session, commits, raced>>

Request(s) ==
    \E b \in B : \/ Place(s, b)
                 \/ \E outcome \in {"won", "lost", "void"} : Settle(s, b, outcome)
                 \/ Cancel(s, b)

Next ==
    \/ Finish
    \/ \E s \in Sessions :
          \/ Request(s)
          \/ ReadWallet(s) \/ Refuse(s) \/ Flush(s) \/ Commit(s) \/ Rollback(s)

Spec == Init /\ [][Next]_vars

\* A transaction that has begun goes on; PostgreSQL queues the waiters of a lock.
Fairness ==
    \A s \in Sessions :
        /\ WF_vars(ReadWallet(s))
        /\ WF_vars(Refuse(s))
        /\ SF_vars(Flush(s))
        /\ WF_vars(In(s, "flushed") /\ (Commit(s) \/ Rollback(s)))

FairSpec == Spec /\ Fairness

-----------------------------------------------------------------------------
(* Properties.                                                             *)

\* The ledger entries of a bet are those of its life, each once: a bet is
\* settled or cancelled at most once ("Settlement must be idempotent",
\* bet_service.py:171), paid if and only if won, and a status is never
\* committed without its entries.  No race on the wallet can break this.
History(st) ==
    CASE st = "none"    -> <<>>
      [] st = "pending" -> TypesOf("pending")
      [] OTHER          -> TypesOf("pending") \o TypesOf(st)

EntriesFollowStatus == \A b \in B : entries[b] = History(status[b])

Pending == {b \in B : status[b] = "pending"}

Won == {b \in B : status[b] = "won"}

Lost == {b \in B : status[b] = "lost"}

Sum(f, S) == SumFunctionOnSet(f, S)

\* As long as no commit overwrote a newer wallet row, the reserved funds are the
\* stakes of the pending bets, nothing is lost or made but by won and lost bets, and
\* no settlement or cancellation is refused by the wallet, however old the row it
\* has read.
UnracedFundsAddUp ==
    raced = 0 =>
        /\ wallet.reserved = Sum(Stake, Pending)
        /\ wallet.balance + wallet.reserved + Sum(Stake, Won) + Sum(Stake, Lost)
             = Funds + Sum(Payout, Won)
        /\ \A s \in Sessions :
              In(s, "read") /\ session[s].to # "pending" => PlanAccepted(session[s].seen, Plan(s))

Book == INSTANCE BetBook

\* A commit that overwrote nothing is a step of BetBook, and nothing else
\* changes a bet or the wallet.
UnracedStepsAreBooked == [][raced' = raced => Book!Next]_<<status, wallet>>

\* Every transaction ends: bet row, then wallet row, is an order all of them keep.
EveryTransactionEnds == \A s \in Sessions : ~In(s, "idle") ~> In(s, "idle")
=============================================================================
