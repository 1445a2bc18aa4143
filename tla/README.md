# TLA+ models of the betting backend

This directory holds TLA+ specifications of the backend in `src/`, the TLC
configurations that check them on small instances, and proofs checked by the
TLA+ proof system. It says what the program promises about people's money, under
which interleavings and failures it keeps the promise, and where it does not.

* [The system](#the-system) – inventory: parts, state, operations, what is hard
* [How it runs](#how-it-runs) – processes, sessions, isolation
* [The modules](#the-modules) – what models what, action by action
* [The runs](#the-runs) – what each configuration checks, its bounds
* [Fairness](#fairness)
* [What is proved](#what-is-proved)
* [Disagreements with the documentation](#disagreements-with-the-documentation)
* [What is not modelled](#what-is-not-modelled)
* [Plan](#plan)

## The system

A FastAPI application with an async SQLAlchemy data layer on PostgreSQL, several
worker processes of the same application, and separate processes for the two
chain monitors and the monitoring worker. Users hold USDT in an internal wallet,
bet with it, deposit and withdraw on the TRON network.

| component | state | operations | hard because | what makes it correct |
|---|---|---|---|---|
| wallet (`services/wallet_service.py`) | `user_crypto_balances` (available, reserved), `wallet_transactions` (ledger) | credit, debit, lock, unlock, deduct reserved | the row is read without a lock and written later by concurrent sessions | no column below zero; the ledger is a gapless history of the row |
| withdrawals (`routers/withdrawals.py`, `services/withdrawal_execution_service.py`) | `withdrawal_intents` (status, hash), the reservation in the wallet | initiate, cancel, approve, reject, execute, retry | a broadcast that cannot be rolled back inside a database transaction that can; decisions on stale reads; retries | the amount is in one place; sent at most once; never sent and given back |
| withdrawal monitor (`workers/withdrawal_monitor.py`) | the same, and the chain | scan, complete, fail and refund, time out | one transaction per cycle, skipped locks, late confirmations | refunded once and only if debited; completed only if paid; every payout gets a verdict |
| TRON client and sender (`integrations/tron_client.py`, `services/tron_send_service.py`) | a circuit breaker per process | send, ask for the balance, look up | lost answers; failures, successes and a backoff that many requests share | calls to a failing node keep their distance; service comes back |
| bets (`services/bet_service.py`) | `bets`, stakes reserved in the wallet | place, settle (win, loss, void), cancel | settlement races cancellation and the wallet | settled once; reserved = stakes of pending bets |
| deposits (`services/deposit_service.py`, `deposit_settlement_service.py`, `workers/deposit_monitor.py`) | `deposit_intents`, `crypto_transactions` | create, detect, confirm, settle, expire, retry, mark failed | monitor, user and administrator on one intent; unique hashes | credited once per transaction; nothing confirmed stays uncredited |
| withdrawal requests (`routers/withdrawals.py`, `services/limits_service.py`, `security/rate_limiter.py`) | `withdrawal_intents` by client request id, `user_daily_limits`, the window of requests in memory | look up, check funds and limit, create, count | a client that repeats a request still being served; limits committed inside their callers' transactions; counters without a lock; midnight | one withdrawal per request id; counted once; within the daily limit; the client gets an answer |
| idempotency keys (`services/idempotency_service.py`) | `idempotency_keys` | begin, complete, replay, expire | two requests with one key; a crash before completion | one effect per key, and a retry gets an answer |
| alerts and monitoring (`services/alert_service.py`, `workers/monitoring_worker.py`) | `system_alerts`, heartbeats | check, raise, deduplicate, acknowledge, resolve | a cycle of many checks in one transaction, any of which may raise | a heartbeat stands for a cycle whose alerts are there |
| reconciliation (`services/reconciliation_service.py`) | none that it ever manages to store | compare totals, ask for the hot wallet | its report cannot be written | – |
| revenue reports (`services/revenue_report_service.py`) | `daily_revenue_reports` | compute a day or a range, store, list | entries bear the time their transaction began; two requests store one day, one of them perhaps what it computed before the day was complete | a complete day's exact report is lost only to such an older computation; the house wins what users lose |
| accounts (`routers/auth.py`, `routers/social_auth.py`) and referrals (`services/affiliate_service.py`) | `users`, `referrals`, the affiliate's counters, verification tokens | register, sign in with Google by button or by redirect, verify, resend | look first and insert later; two or three commits per request; a helper that commits its caller's transaction | one account per address; account, referral and count together; everybody can be verified |
| legacy balance (`routers/betting_records.py`, `betting_settlement.py`, `bulletproof_settlement.py`, `transactions.py`, `payments.py`) | `users.funds_usd`, `betting_records`, `transactions`, `odds` | hosted deposits and withdrawals, deduct and record a bet, settle by five routes and a daily job, revert | every route reads, computes and writes absolute balances; the provider is paid before the commit; results come and go | settled and paid once; the balance is what the transactions say; finished matches are settled |
| odds scraper (`dataanalytics/get_real_odds_oddsportal.py`, the cleaning scripts in `scripts/`) | `odds` | scrape seasons page by page, insert or update rows, delete duplicates | no key of `odds` is unique; matches move; pages are missed or misread; scripts delete meanwhile | one row per match and kick-off; nothing stored is forgotten; every result arrives |
| odds board (`routers/odds.py`) | none (reads `odds`) | pages, matches of the week, featured matches | ties and missing times in the order; only the first rows of the week are read, then caps, cuts and refills | as many featured matches as fit, spread over the countries among the rows read; every row on one page |
| administration, analytics, e-mail | – | – | queries and calls to other services | – |

Interactions. Bets, withdrawals, deposits and the monitors all call the wallet
operations inside their own transaction and commit at the end; the limits service
is called by withdrawals and deposits *with the caller's session* and commits it.
The affiliate service does the same to registration and to the settlement of legacy bets.
The monitors and the routers share rows of `withdrawal_intents` and
`deposit_intents` through row locks (`SELECT … FOR UPDATE`, `SKIP LOCKED` in the
monitor) where they take them, and without where they do not.

The hazards, each at its source line, are listed in `PROJECT.json`; the
properties below are aimed at them.

## How it runs

* Every request has a database session (`get_db`, `app/core/database.py:61-80`) that
  is rolled back on any exception and closed at the end. The isolation level is
  PostgreSQL's default, READ COMMITTED: a SELECT sees the latest committed rows,
  an UPDATE by primary key waits for the row lock and then writes the given values.
* SQLAlchemy keeps one object per row and session. Reading the row again, even
  with FOR UPDATE, returns that object with the attributes first loaded
  (`populate_existing` is not set), `expire_on_commit=False` keeps them over a
  commit, and a flush sends only the attributes that were assigned. All three are
  visible in the models.
* The monitors are processes of their own, with one session and one commit per cycle.

## The modules

```
WalletService  (pure: one row, five operations, ledger entries)
   |-- WalletLedger          abstract: transactions one at a time
   |-- WalletTransactions    sessions at READ COMMITTED   --implements, unraced--> WalletLedger
   |      |-- MCWalletTransactions        |-- WalletTransactions_proofs
   |-- WalletService_proofs  lemmas on the operators, and on sums over finite sets
   |-- Bets                  place, settle, cancel       --implements, unraced--> BetBook
   |      |-- MCBets                      |-- Bets_proofs
   |-- Withdrawals           requests, execution, retry, monitor, chain
          |                      --implements, not in doubt--> WithdrawalPromise
          |-- MCWithdrawals               |-- Withdrawals_proofs

Deposits                      --implements, untouched--> DepositLife
   |-- MCDeposits                         |-- Deposits_proofs
RateLimiter  (pure: one sliding window)
   |-- WithdrawalRequests     limiter, request ids, funds, daily counters
          |-- MCWithdrawalRequests        |-- WithdrawalRequests_proofs
LegacyFunds                   users.funds_usd without the bets
   |-- LegacyBets             bets, five settlements, scraper  --implements, uncontested--> LegacyBetLife
          |-- MCLegacyBets                |-- LegacyBets_proofs
Accounts                      registration, Google, verification, referrals
   |-- MCAccounts             |-- AccountsOdds_proofs (with the odds)
Bets
   |-- RevenueReports         what the house has won, by day
          |-- MCReports       |-- Bets_proofs (with the bets)
SendService                   the circuit breaker and the calls to the node
   |-- Monitoring             the monitoring worker and its alerts
          |-- MCMonitoring    |-- Withdrawals_proofs (with the withdrawals)
OddsTable  (pure: same match, insert or update, duplicates)
   |-- OddsBoard              (pure: what the pages show)
          |-- OddsScraper     the daily job, the cleaning scripts, time and the site
                 |-- MCOdds   |-- AccountsOdds_proofs (with the accounts)
```

**WalletService** translates `wallet_service.py` operator by operator: `Sufficient`
and `Accepts` are the guards, `CreditBalance` … `DeductReservedBalance` the new
row, `Columns` what the flush sends, `EntryOf` the ledger entry. A `plan` is what
one database transaction asks of the wallet: one call, or the two calls of a won
bet. Amounts are exact decimals in the database and naturals here.

**WalletLedger** is the promise: each committed transaction is accepted on the row
the one before left and is appended to the ledger.

**WalletTransactions** is how it runs. A session reads the row (`Read`), inserts it if
there is none (`InsertRow`, `InsertConflict` for the loser of the unique key),
refuses or flushes on what it *read* (`Refuse`, `Flush`, which takes the row lock),
and commits or rolls back. `Commit` writes `Written(…)`: the named columns with the
values computed from the read. `raced` is a history variable counting, per user,
the commits that overwrote a row newer than the one they read.

**BetBook** is the promise of the bets: placing a bet moves its stake from the
balance to the reservation, closing it takes the stake out and pays, keeps or
returns it, once.

**Bets** is how it runs, on the same raced wallet row. A session goes through one
transaction: it takes the row of its bet, reads the wallet without a lock,
flushes under the lock of the wallet row, and commits.

| action | code |
|---|---|
| `Place` | `place_bet`: the match has no result; the inserted bet is invisible to others until the commit |
| `Settle` | `settle_bet`: SELECT … FOR UPDATE, still pending; with each outcome |
| `Cancel` | `cancel_bet`: SELECT … FOR UPDATE, still pending, the match has no result |
| `ReadWallet`, `Refuse`, `Flush` | the wallet operations of `PlanOf`: read, ValueError and rollback, UPDATE |
| `Commit` | status, wallet row and ledger entries, with the types (`TypesOf`) the service gives them |
| `Rollback`, `Finish` | a failure anywhere; the result of the match arrives, at any time |

`SETTLING` is written and replaced inside one transaction, so no other session sees
it. A win is two wallet operations; the second goes on from the row object of the
first, so one read and one flush stand for both.

**WithdrawalPromise** is a table of steps on (status, where the money is, was it sent).

**Withdrawals** is the program around it. One user, one wallet row; the wallet
operations are single steps (their race is the subject of `WalletTransactions`).

| action | code |
|---|---|
| `Initiate` | `initiate_withdrawal`: intent, lock and commit |
| `ReadPending`, then `Cancel`, `Approve`, `Reject` | the handlers' unlocked SELECT with its check, then their unlock and write |
| `Execute`, `Refuse`, `CheckLimits` | FOR UPDATE and checks; refusals; the limits check and its commit |
| `BroadcastOk`, `BroadcastLost`, `BroadcastFail` | `send_usdt_trc20`: hash, exception after sending, exception before |
| `GiveUp`, `Settle`, `DebitFail`, `FailUndebited` | the three outcomes written by `execute_withdrawal` |
| `Retry`, `ExecuteRetried` | `retry_failed_withdrawal`, then execution on the object in the session |
| `Scan`, `Skip`, `Process`, `MonitorCommit`, `MonitorAbort` | a monitor cycle |
| `Crash`, `ChainDecides`, `Elapse`, `NextDay` | environment: process death, chain, timeout, midnight |

The history variable `doubt` names the withdrawals to which something happened
that the code cannot see or undo: the limits commit freed the lock; a broadcast was
answered with an exception after it went out; the process died or the debit failed
after the broadcast; a stale status was overwritten; it was retried. It never
guards an action. Properties that the code keeps only without such events say so by
name (`…UnlessInDoubt`, `doubt = {}`), and those that hold regardless do not mention it.

**DepositLife** is what the deposit page promises about one deposit that nobody
touches by hand: credited at most once, when it is settled, and what has ended stays.

**Deposits** is the monitor, the manual confirmation and the administrator's
requests on the same rows. FOR UPDATE is a lock (`row`), the unique transaction hash a
second one (`key`): an insert waits for an open transaction with the same hash. The
two together can wait in a circle, which `Victim` resolves as PostgreSQL does.

| action | code |
|---|---|
| `Initiate`, `Expire` | a pending intent; `expires_at` passes |
| `Scan`, `Take`, `Detect`, `Follow`, `NotFound` | `DepositMonitorWorker.run_once`: the list, FOR UPDATE on each, `_process_pending_deposit`, `_process_detected_deposit`; an error ends the cycle |
| `Confirm`, `Check`, `Insert`, `Settle` | `confirm_deposit` by hand, then `settle_deposit`, which the monitor also runs: row of `crypto_transactions`, credit, status, one commit |
| `Retry`, `LockRetry` | the administrator's retry: an unlocked read, then the settlement |
| `MarkFailed`, `WriteFailed` | the administrator marks a deposit failed on what he read |
| `Pay`, `Mine`, `Drop` | the chain: a transfer is seen, final, or gone |
| `Victim`, `Fail` | a deadlock's victim; a failure of the node, the database or the process |

The attributes a session first read stay in its row object even when it selects the
row again FOR UPDATE, so `seen` is the status `confirm_deposit` works with.

**RateLimiter** is the sliding window as hits per age; **WithdrawalRequests** is the
request that creates a withdrawal, one user. (What becomes of the withdrawal is
`Withdrawals`.)

| action | code |
|---|---|
| `Send` | the client sends, or repeats, a request that the limiter admits |
| `Read`, `InitiateWithKey` | other requests of the same address: all limited routes share one window of 60 s, and a request with an `Idempotency-Key` always raises |
| `Lookup`, `ReadFunds` | the client request id, the balance |
| `FindRow`, `OpenRow` | `get_or_create_daily_limits`, which commits; for the check and again for the counter |
| `Insert`, `ReadLock`, `Commit` | the intent (unique per user and request id), `lock_balance`, one commit |
| `Count` | `update_withdrawal_limits`, a transaction of its own, then the answer |
| `Tick`, `Midnight`, `Fail`, `Restart` | time, one failing session, a process that dies with its window |

Objects are held weakly by a session: nothing keeps the balance row and the limits row
of the checks alive, so `lock_balance` and `update_withdrawal_limits` read them again.
What races is each read with the write after it.

**LegacyFunds** is the older balance `users.funds_usd` with the table `transactions`.
Every request loads the user and later writes the absolute balance it has computed
(`Load`, `UpdateUser`); `Provide` is the call of the payment provider before the commit.
The requests differ in their guard, in the provider and in what they book.

**LegacyBets** adds bets, the table `odds` and its scraper, and the settlements.

| action | code |
|---|---|
| `DeductFunds` (LegacyFunds), `CreateRecord` | the client's two requests that make a bet |
| `ListOwn` | `get_user_betting_records`, `get_transactions`: settle the caller's bets before listing |
| `ListFinished`, `ListSpecific`, `ListRow` | settle-finished-matches, settle-specific-match, settle-all-finished (also `RunDaily`, the timer's job) |
| `Settle`, `Raise`, `Commission`, `Finish` | one bet of the list; a transaction found twice raises; a commission commits in the middle; the last commit |
| `BeginRevert`, `Revert` | the administrator takes back wrong settlements |
| `KickOff`, `Scrape`, `ClearInvalid` | the scraper writes a result, moves a match to another row, clears impossible scores |

A revert reads the bets and their transactions and commits everything at its end. Two reverts can read
the same transactions; a row is deleted once, so what one revert deletes is left out of what
the other still has to delete (`Less`), and the number of transactions never turns negative.

**LegacyBetLife** is what the page promises of one bet: it ends once, and a win is paid
then, once. `contested` names the bets that two settlements had on their lists at the
same time: nothing in the code keeps them apart, and no property is claimed of them.

**Accounts** is how people get an account. The username is a number, 0 being the prefix
of every address, so that two people want the same one.

| action | code |
|---|---|
| `Register`, `FindCode`, `Insert`, `Commit`, `SendToken` | `register`: looks for address and name; the referral code; the flush of the user; `register_referral`'s commit of user, referral and count; the token's commit and the mail |
| `Button`, `PickName`, `Create`, `Link` | `google_auth`: find or link the account, or the first free name |
| `Redirect`, `MarkVerified` | the OAuth callback: prefix as name, up to three commits |
| `Resend`, `VerifyEmail`, `ExpireToken` | resend-verification, verify-email, the day a token lasts |
| `CreateAffiliate`, `UpdateAffiliate`, `Fail` | the affiliate and its status; a session dies or a mail is lost |

`total_referrals` is computed from the affiliate object that was read with the code, which
the handler keeps: two registrations can overwrite each other's count (`lost`).

**OddsTable** says when two rows are one match (`Same`), what makes a new one suspicious
(`SameTeams`: the same teams within two days), what is inserted, what an update may change
(`Coalesce`), and which rows the two cleaning scripts delete. **OddsBoard** is what the pages show of the table:
`Listed` and `Pages`, `Upcoming`, and `Featured`. The featured page reads only the first `FetchSize` rows of the week (`Fetched`; in the
code `min(300, max(limit * 4, 150))`) and chooses among those: `Famous` by league, `Capped` by country,
`Filled` from the rows read that are left, `Chosen` with the cut to the limit.
SQL leaves open in which order equal rows come; `Ranks` is the set of the places a row may get.

**OddsScraper** is the job that fills the table. A page of results is a step that reads it and checks
each row against the table, and another that commits, because a cleaning script can come in between.

| action | code |
|---|---|
| `Start`, `StartFails` | the timer, `main`; no driver in three attempts |
| `Scrape`: `OpenSeason`, `ReadPage`, `CommitPage` | the loop over `sorted(league.seasons, reverse=True)` with its check of what is stored; `insert_rows`; its commit |
| `Scrape`: `ReadNext`, `CommitNext` | the page of next matches, which only inserts |
| `GiveUpSeason`, `StopPaging`, `Abort` | a page that does not load, a button that is not found, everything that ends the job |
| `ListDuplicates`, `ListAlike`, `ListFake`, then `Delete` | `cleanup_duplicate_matches`, `remove_duplicate_odds`, an administrator's deletion: listed first, deleted by id later |
| `Tick`, `Move` | a day passes while no job runs; the site shows a match at another time |

What can be read of a page is a choice (`PagesRead`): one row of it may lack its time,
score or odds, have a wrong score, or be skipped.

**RevenueReports** puts days on the ledger entries of `Bets` and reports on top. A session opens its
transaction (`Open`: the lookup of the user) before it takes a step of `Bets` and its
entries bear that day (`Stamp`), because `created_at` is `now()`, PostgreSQL's start of the transaction.

| action | code |
|---|---|
| `Open`, `Close`, `Working`, `Failing`, `Booking` | a request that bets: begins, is refused, works as in `Bets`, fails, commits with its day |
| `Midnight` | the next day |
| `ComputeForDate`, `Look`, `Store` | `compute_revenue_for_date` and `store_daily_report`, by route or by script: sums, lookup, insert or update of what differs |

`Compute(from, to)` is the route of a range, `Listed` a line of the list. A stored row carries a history field, `clean`:
its last write was a computation of the complete day, over the row it had seen or over a clean one. It guards
nothing, and only `UnracedRevenueIsTheirLoss` reads it; `CompleteDaysReported` speaks of the amounts in the row.

**SendService** is the circuit breaker as a record (`failures`, age of the last, `left` of
`degraded_until`, `level`); one per process.

| action | code |
|---|---|
| `ShowHealth`, `Reconcile`, `CheckFunds` | who asks for the balance of the hot wallet |
| `Send`, `GiveUpSending` | `send_usdt_trc20` of an execution; an execution that fails before it |
| `Tick`, `Turn`, `Reset` | time; the node fails or recovers, call by call; the process restarts |

**Monitoring** puts the monitoring worker beside it, with a breaker of its own.

| action | code |
|---|---|
| `Begin`, `CheckHeartbeats`, `Count`, `CheckHotWallet`, `CheckRefunds`, `UpdateHeartbeat`, `Commit` | `run_checks`, check by check, in one transaction |
| `CycleFails`, `RestartMonitor` | a check raises; the process restarts |
| `Close` | an administrator acknowledges or resolves an alert |

## The runs

| run | checks | bounds |
|---|---|---|
| `wallet` | `TypeOK` (no column ever below zero), `UnracedMatchLedger`, `ColumnsFollowLedger`, `UnracedCommitsAreSerial`, `EveryTransactionEnds` | one user, two sessions, amount 1, four ledger entries |
| `lost_update` | violates `StoredMatchesLedger` | same |
| `bets` | `EntriesFollowStatus`, `UnracedFundsAddUp`, `UnracedStepsAreBooked`, `EveryTransactionEnds` | two bets with stakes 1 and 2, three sessions, funds 3 |
| `withdrawals` | `FundsFollowStatus`, `SentOnceUnlessInDoubt`, `KeepsPromise` | two withdrawals, two request sessions, two transactions on the chain, no retry |
| `withdrawal_retries` | `RefundsFollowDebits`, `CompletedWasPaid`, `ProcessingEnds` | one withdrawal, two sessions, two transactions, one retry |
| `deposits` | `CreditedOnce`, `ConfirmedWasRefused`, `UntouchedDepositsLive`, `PaidIsDecided` | two deposits with a transfer each, one of no value; one monitor, three requests in sequence, one failure |
| `requests` | `OneWithdrawalPerId`, `FundsFollowWithdrawals`, `LimitKept`, `Answered` | two request ids of amount 2, two sessions, funds 3 or 4, daily limit 3, two days, a window of two ticks, one other request, one failure |
| `legacy` | `ProviderIsBooked`, `BooksBalance`, `UncontestedBetsLive`, `FinishedIsSettled` | one bet, two rows of `odds`, one request session and the daily job, two requests, of which the first may be a payment, one failure |
| `accounts` | `OneAccount`, `ReferralsCounted`, `AccountsGetVerified` | two people with the same prefix, two names, two sessions, one failure |
| `odds` | `TableOK`, `BoardIsRight`, `NothingForgotten`, `CleanupKeepsResults`, `ResultsArrive` | four matches of two leagues and two seasons, days 0–4, one match moved, one run of a cleaning script, one failure or misreading; one featured match per country, two on a page, three rows read for it |
| `reports` | `CompleteDaysReported`, `UnracedRevenueIsTheirLoss` | two bets with stakes 1 and 2, one session, two days, two requests and three computations of the first day |
| `operations` | `HeartbeatMeansChecked`, `CallsAreSpaced`, `BreakerCloses` | a threshold of two failures, windows of 1 and 2 ticks, one execution, two expected workers, one of the counting checks with one count |

Why the bounds are enough. No wallet operation touches two rows, so one user shows
every race; two sessions are needed for a race and two are what an overwrite has
(the proofs cover any number); four entries allow a credit, two racing
transactions and one more on top of the damage. Bets of one user meet only in the
wallet row, so two bets show every meeting and three sessions let two of them
compete for one bet while the third holds the other; the funds cover both stakes, so
that a reservation can be overwritten and a settlement then refused. Two withdrawals share one wallet
row and one monitor cycle, which is how one can take the other's reservation; two
sessions give every pair of handlers; two transactions let a withdrawal be sent
twice. A retry multiplies the histories of one withdrawal, so the run with a retry
has one withdrawal. `Withdrawals.cfg` uses the symmetry of sessions and of
withdrawals (equal amounts), `Reports.cfg` that of the requests for reports; neither checks liveness.

A monitor and an administrator are what it takes to meet on a deposit, and three requests
let one be confirmed, marked failed and retried; the transfer of no value is the one that can
never be settled, and two deposits let a hash be used for the wrong one. Two request
ids of amount 2 exceed the daily limit together, and of the two opening balances one
covers both and one does not; two sessions are the two copies of a repeated request, or
both requests at once; two days have one midnight. The limiter admits one initiate and
one read at a time, so that a read can take the place of an initiate. The bet of the legacy
run has a row that matches by id and one by team names; a request and the daily job
are two settlements of it; a payment comes first or beside the daily job, which is where it can overwrite what a settlement paid. Two people with one prefix collide in the name, and a person's two
sessions in the address; a third name or person adds no new kind of meeting, and
`OneAccount` and `ReferralsCounted` are proved for any number.

The four matches are two of one country on one day, one of another country that the site shows without a time and whose
date the scraper puts into the next season, and one of a past season, which is scraped only while nothing of it is stored;
on the four days each of the first three is announced, can be moved, is played and is read. The one failure
can come anywhere, and a match can be both moved and misread. A match read once without its time and then with it has two
rows, so there can be four upcoming rows where three are read for the featured page: three of one country, after which the other country
comes too late. One session of bets is enough for the
reports, since `bets` has the race and what matters here is the day its transaction began; two days have one
midnight, and two requests overlap. A row that mixes two computations takes three of them: one is stored, one sees it, one is stored
in between. The second day is the last and never ends in the run, so no report of it can be of a complete day; all three
computations are of the first one. The windows 1 and 2 are one that doubles and one that is capped.

What they show.

* *Wallet.* Whatever the race, no column goes below zero, and each column is what
  the last ledger entry that changed it says. What a race breaks is the chain of
  entries: the sum of the ledger is then not the row. Without a race the wallet is
  exactly the serial one. `EveryTransactionEnds` shows that neither the row lock nor
  the unique key leaves a session waiting.
* *Bets.* A bet ends at most once and its ledger entries are exactly those of its
  status, even when the wallet row is raced. What a race breaks is the wallet:
  a lost reservation lets a later settlement be refused and the bet stays
  pending. Without one the reservation is the sum of the pending stakes, which is
  why no settlement is refused: that is a part of `UnracedFundsAddUp`.
* *Withdrawals.* Outside the named events, the promise is kept step by step, over
  cancellations, executions, crashes, skipped locks and monitor cycles of several
  withdrawals. With them, still no refund without a debit and no second refund, no
  completion without a confirmed payment, and every payout gets a verdict. The named events are real, and nothing else is claimed of a
  withdrawal they have happened to: it may be sent twice when the limits check freed its lock, or when the process died
  after the broadcast, and sent *and* given back when the answer of the broadcast was lost or the debit failed. `doubt` says
  where this begins; it does not show that it does no harm. What the first three properties test is the rest: executions that meet at
  the lock, a death before the broadcast, withdrawals sharing a reservation, skipped locks and lost monitor cycles.

* *Deposits.* Over monitors, manual confirmations, retries, deadlocks and failures a
  transfer is credited exactly once, if it is recorded. A deposit nobody touches by
  hand follows `DepositLife`. Deposits left `confirmed` are exactly those nothing
  can settle, and a final transfer to a waiting deposit decides it, unless an older
  transfer was dropped: the monitor's cycle ends there every time.
* *Requests.* The unique key, not the lookup, makes a repeated request safe. Overlapping
  requests write stale balances but neither make nor lose money. The counter never counts a
  withdrawal twice; it misses one when its session fails between the two commits. The
  limit holds over midnight for requests that do not overlap. A client that repeats is
  answered in the end, though a copy may be told "refused" while its twin succeeded.
* *Legacy.* A bet that no two settlements had at once ends once and is paid once,
  through every route, failure, commission and change of rows; outside overwritten balances
  and adjustments the balance is what the summary of transactions says. The daily job
  settles what others leave.
* *Accounts.* The unique keys decide every race, a lost commit or mail leaves nobody
  unable to be verified, and only the affiliate's count can be overwritten, never upward.
* *Odds.* Looking before inserting is enough to keep rows apart, because there is one job at a time
  and each page is checked after the one before was committed. Whatever page is missed or misread, a
  result arrives in the row of its match, with one exception that the property names: a match that was moved
  and misread has a row of its old date that keeps the right one out. The cleaning scripts delete what they listed earlier;
  a result still survives. The featured matches follow their rule on every table that can come about, the
  page's crash on a missing time apart: as many as fit, and beyond its share a country is shown only if every match within its country's
  share that is left out comes after the rows that were read. Such a match is left out, though its
  country may have less than its share, when the rows before it are as many as the page reads; the run reaches this.
* *Reports.* A day that is over *and* of which nothing is still to be committed gets no more entries. From then on a
  computation is that of the day, and storing it leaves the row exact, unless another request stored amounts that are not between
  its look and its store. An exact row does not stay exact by itself: a request that computed before the day was complete and stores
  afterwards overwrites it, and the update of a request that saw a different row than the one it overwrites
  mixes the two. The run reaches both, and nothing else takes an exact report away. The days add up to the user's loss; a negative profit of a day, which the code turns into zero, does not occur
  because the entries of a win are of one day.
* *Operations.* Requests that share a breaker never come closer to a failing node than promised, although the
  level is raised before its window is used. An answering node is used again. A heartbeat and the alerts of its
  cycle are there together or not at all – and, because of item 14, from one cycle only.

The `violation` run is item 1 of the disagreements below; TLC's counterexample is short.

## Fairness

`WalletTransactions`: a session that has begun goes on. Steps that wait for a lock
(`Flush`, `InsertRow`) have strong fairness because PostgreSQL queues the waiters of a
lock; steps that wait for nothing have weak fairness; a flushed session commits or
rolls back. Nothing obliges a session to begin.

`Bets`: the same, with strong fairness for `Flush`, which alone waits for a lock while
something is held.

`Withdrawals`: handlers that have begun go on, with strong fairness for the same
reason. The monitor scans for ever (`run_forever`, restarted by systemd): weak
fairness of `Scan`, strong of the handling of a scanned row, since another session may
hold it now and again, and of `MonitorCommit`, that is, not every cycle fails. Time
passes (`Elapse`). There is no fairness on requests, on crashes, on the chain, or on
what the chain answers: `ProcessingEnds` rests on the timeout.

`Deposits`: the monitor loops, a handler that has begun goes on, and blocks become final;
nobody is obliged to pay or to ask. `WithdrawalRequests`: a session that is served goes on,
the clock ticks, and the client repeats until it is answered; the user's other requests are
bounded, so they end some time. `LegacyBets`: a handler goes on and the timer starts the
daily job for ever (`systemd`); nothing obliges the scraper to find a result.
`Accounts`: a session goes on, a person follows the link in a mail (weak) and asks for
another one until a session is free for it (strong).

`OddsScraper`: the timer starts the job every day (`Start`) and its steps end (`Scrape`); no
fairness on days passing, on the cleaning scripts or on what can be read. `SendService`: the clock
ticks, and somebody looks at the health page now and then (`ShowHealth`): a breaker that nobody
tries stays as it is. `RevenueReports` states no liveness.

Deadlock checking is off in `deposits`, `requests`, `legacy`, `accounts` and `reports` (`CHECK_DEADLOCK FALSE`): when nobody asks for anything, or
the bounds on requests are used up, the system rests. That nobody waits for ever is what
their liveness properties say.

## What is proved

`WalletTransactions_proofs`, for any set of users and sessions, any set of amounts in
`Nat` and any bound on the ledger:

* `TypeCorrect`: `Spec => []TypeOK`. In particular no column is ever negative: an
  update writes values that were computed from a snapshot and accepted on it, so
  even mixed columns are naturals.
* `UnracedAudit`: `Spec => []UnracedMatchLedger`.
* `ColumnsAudit`: `Spec => []ColumnsFollowLedger`, races included.
* `RefinesWithoutRace`: `Spec => UnracedCommitsAreSerial`, the step simulation of
  `WalletLedger`.

The inductive invariant `IInv` (theorem `Invariance`) adds two facts to the two
invariants. `SnapshotsFresh`: a session whose `at` is the current length of a ledger
nobody raced on holds the stored row as `seen`, which is what makes its commit
serial. `FlushedAccepted`: a flushed plan was accepted on `seen`, which is what keeps the
written values natural. Neither follows from `TypeOK` and the audit alone: a commit
uses what a read and a flush established earlier. `ColumnsFollowLedger` needs a statement about
the last entry that changes a column (`LastSays`), which an append keeps when it changes the column and when it does not.
The proof has one lemma per
action that changes something; what the operators of `WalletService` return is stated
in `WalletService_proofs` (`ApplyRow`, `EntryOfEntry`, `PlanFacts`, `WrittenRow`,
`WrittenFresh`).

`Bets_proofs`, for any set of sessions and finite set of bets, any stakes and payouts and any funds:

* `EndsOnce`: `Spec => []EntriesFollowStatus`.
* `FundsAudit`: `Spec => []UnracedFundsAddUp`.
* `RefinesWithoutRace`: `Spec => UnracedStepsAreBooked`.
* `TypeCorrect`: `Spec => []TypeOK`.

Its `IInv` adds `HoldsItsBet`: a transaction under way holds the row of its bet, and the
bet has the status the transaction checked. That is the work the FOR UPDATE does:
without it a second settlement could commit between the check and the commit of the
first. `SnapshotsFresh` and `FlushedAccepted` are as for the wallet. The audit of the funds
follows the bet that changes its set from one commit to the next.

Of the reports, for any number of days and of reports stored:

* `CompleteDaysAreReported`: `ReportSpec => CompleteDaysReported`.
* `RevenueIsTheirLoss`: `ReportSpec => []UnracedRevenueIsTheirLoss`.

Every step of `RevenueReports` is one of `Bets` or leaves the bets alone (`BetsStep`), so `IInv` holds there too.
`ReportInv` adds that a session has begun on a day that has come (`BegunInTime`), that every entry bears a day and those of
a settlement the same one (`EntriesDated`), and that what was computed of a complete day is that of its day while it is on its way
to the table, and in the table as long as no older computation was written over it or mixed with it (`ReportsExact`). A day that is over and of which nothing is still to be committed
gets no more entries (`NoLateEntries`). Only `Store` changes a row (`OnlyStoreStores`), and what it does to an exact one with a computation of the complete
day follows column by column (`CompleteStores`): each column has the right value or is overwritten with it, if the row it saw was
exact or is the one it overwrites. The revenue of a range is a sum of
sums by day; `SumByKey`, `SumOneForOne`, `SumMinus` and `SumMonotone` in `WalletService_proofs` say how such sums are
regrouped and compared. That no day's profit of the user's is hidden by the zero the code puts in its place needs
`Payout[b] >= Stake[b]`: the code takes the payout to be the stake times the odds, and refuses odds below 1.01.

*Sums.* `UnracedFundsAddUp`, the reports and the totals of the withdrawal requests are sums over a set. The library's
induction theorems cannot be used, but that the strict subsets of a finite set are well-founded is a theorem without
an operator parameter; `SmallestSubset` in `WalletService_proofs` draws induction from it, and
`TotalExists`, `SumIsTotal`, `SumAdd`, `SumRemove`, `SumChange`, `SumOfNats`, `SumOfZeros` say what the fold of the community
modules adds up, whatever order it chooses. They need the set to be finite: bets, withdrawals, requests and
sessions are rows of a table and connections of a server, of which there are finitely many at any time.

`Withdrawals_proofs`, for any finite set of withdrawals, any sessions, amounts and bounds:

* `TypeCorrect`, `RefundsAudit` (`RefundsFollowDebits`), `CompletionsPaid` (`CompletedWasPaid`),
  `SentOnce` (`SentOnceUnlessInDoubt`), `FundsAudit` (`FundsFollowStatus`);
* `PromiseKept`: `Spec => KeepsPromise`, the step simulation of `WithdrawalPromise`.

There are three layers. `IInv` says what locks are for: a hash in a row, a session or a cycle is a transaction
of that withdrawal (`HashesOwn`), an execution between its checks and its look at the limits holds the row it checked
(`ChecksLocked`), and what a cycle has seen of a row it holds is still so when it commits (`CycleSound`); without the
last, a refund could follow a refund. `TraceInv` rests on it: nobody else is between check and outcome of an
execution unless the withdrawal is in doubt (`Alone`), each transaction on the chain belongs to a status that knows
of it (`SendsMatch`), and whoever retries is in doubt (`RetriesDoubted`). `FundsInv` adds what is reserved (`Held`): the
reservation is the sum of the amounts of the withdrawals that hold one, so an unlock or a debit finds what it takes
(`Books`); with it no step leaves the entries of one status under another, and the promise follows step by step.

The same module proves what is claimed of the service that sends them and of the worker that watches it, for any threshold,
window, workers and checks:

* `SpacedCalls`: `OperationsSpec => CallsAreSpaced`;
* `HeartbeatsMean`: `OperationsSpec => []HeartbeatMeansChecked`.

`SendInv` relates the fields of a breaker that many requests share: the level counts the failures from the threshold on
(`LevelCounts`), and what `degraded_until` leaves and what has passed since the last failure make up the quiet time
that is promised after that many (`Quiet`). The code raises the level before it uses its window, so the first
window is already the second one; that it is never shorter is what the induction shows. To the provers `2 ^ n` is just some integer;
the assumption `Recovery * 2 ^ MaxLevel >= MaxBackoff`, which the constants of the class satisfy, is all that is known of it,
and with it the cap on the level does no harm. `CycleBeats`: a cycle that is past its first check has found no heartbeat and has the
alerts for the missing ones among its new ones, and one that is at its commit has written its own. `ChecksInOrder` derives the
places of the first and last checks from the list, whichever of the counting checks are in it.

`Deposits_proofs`, for any deposits, transfers, sessions and bounds:

* `TypeCorrect`, `CreditsAudit` (`CreditedOnce`), `ConfirmedIsFinal` (`ConfirmedWasRefused`);
* `LivesRefine`: `Spec => UntouchedDepositsLive`, the step simulation of `DepositLife` for each deposit.

Its `IInv` says of a session what it knows: the hash of its deposit (`HashKnown`), that between its insert and its commit it
holds the unique key of a transfer that is recorded nowhere, alone (`KeyHeld`), that a monitor holds the row
whose status it has read (`MonitorOwns`), and that a retry of a deposit nobody touched by hand was let through on a status it
had read too early and will find nothing left to settle (`RetryInVain`). Credits are counted by transfer, which the key makes unique; without `KeyHeld` two sessions that both found the transfer
unrecorded could both commit.

`WithdrawalRequests_proofs`, for any finite sets of requests and sessions, any number of days and any amounts and limits:

* `TypeCorrect`, `OneEach` (`OneWithdrawalPerId`), `FundsAudit` (`FundsFollowWithdrawals`), `LimitAudit` (`LimitKept`).

The steps are first put into a normal form (`Step`, lemma `Steps`): what a session reads and where it stands
afterwards. `KeyHeld`: an open insert is alone with its request id, which has no row. `FundsRead`: what `lock_balance`
has read was the balance once and held no more than was requested by then. For the counters `Counted <= Requested` is far from
inductive, since a session writes a sum of what it has read, and writes may go back. `NeverTwice` says more: whichever total each
day's counter ends with, the stored one or the one some session has read, the days' sum and what the sessions
still owe stay within what was requested. `AllCounted` is the equation while no count was lost, and `WithinLimit`
follows the one request that is underway while none overlaps: what it has found out about the day on which it
looked, and that nothing was requested yet on a day that has begun since.

`AccountsOdds_proofs`, for any people, sessions, names and bound on failures:

* `AddressesAndNamesUnique`: `Spec => []OneAccount`.
* `ReferralsAddUp`: `Spec => []ReferralsCounted`.
* `TypeCorrect`: `Spec => []TypeOK`.

Its `IInv` adds `InsertedUnique`: an insert that has not committed has no equal in the table,
nor among the other open inserts. That is what the wait for the unique key establishes and
what every other step must respect, and without it the commit of one insert could
follow the commit of its equal. `InsertedOnce` ties the number of inserts to the account,
and `SeenReferrals` says that nobody has read a count above the referrals there are, so that even
an overwriting count stays below. One lemma (`QuietIInv`) serves the steps that store
nothing, another (`StoreAccounts`) the two that do.

And of the odds, for any finite set of matches, any leagues, seasons, days and times, any share and number of featured matches and any number of rows read that is not below it:

* `OddsTableOK`: `ScraperSpec => []TableOK`;
* `RowsRemember`: `ScraperSpec => NothingForgotten`;
* `CleanupSparesResults`: `ScraperSpec => CleanupKeepsResults`;
* `BoardAlwaysRight`: `ScraperSpec => []BoardIsRight`.

The `TableInv` they rest on has two parts that are about what happens between two steps. `BatchIsNew`: what a page is about to
insert is still not in the table, since only the job inserts and the cleaning scripts only delete. `CleanupSpares`: of every match on
its list the script leaves a row alone, with a result if the list has one, while the job goes on storing. When the list is made that
row is the earliest one with a result, or the earliest of all (`EarliestStays`): it loses against nobody. `Committed` follows a
commit row by row and shows that the ids of new rows are new. The rest is about the pages and holds of any rows with ids of their own: the order of the
lists is total once ties are broken (`InOrderIsTotal`), the first `n` rows are `n` of them if there are as many (`Ranking`,
`FirstRows`), which decides how many matches are featured (`ChosenFit`). The first rows are closed towards the front (`FetchedFromTheStart`), so a row that was read and is
within its country's share of the week is within its share of what was read (`ShareOfFetched`): if the refill
took a row beyond a share, a row within its share was not read (`ShownOfWeek`), and as many rows as were read come before it. A row that ties with none is on one page of one or two rows
(`OnePage`; the sizes are those of the property).

`LegacyBets_proofs`, for any finite sets of bets and sessions, any win, any bounds on requests, payments and failures:

* `TypeCorrect`: `Spec => []TypeOK`; `BookedOrCutOff`: `Spec => []ProviderIsBooked`;
* `FundsFollowTransactions`: `Spec => []BooksBalance`;
* `BetsRefineLife`: `Spec => UncontestedBetsLive`, the step simulation of `LegacyBetLife` for each bet that no
  two settlements had on their lists.

Nothing in the code keeps two settlements from the same bet, so its `IInv` speaks of each bet until it is contested
(`BetInv`). A bet is paid if and only if it is won and announced as won at most once (`BetSound`); what a session has of it
is on the list or settled but not both, and what a revert has read of it is still so (`SessionSound`); no two sessions hold it.
`StakedFirst` says that only recorded bets are on lists and only paid stakes are recorded, without which the unrecorded
stakes would not count what is missing in the books. `MoneyKnown`: the balance a session has in
memory is the one it shared last with the database and its uncommitted wins. A commit that overwrites nothing therefore adds
just those wins, which is `BooksBalance`. Races are not left out of the type invariant: `RevertsLeft` says that a revert
takes back no transaction that another has deleted, contested or not. `FundsSound` is for the provider: whoever is about to call it
will charge or pay, and one session deducts a stake. As with the requests, the steps
are first put into normal forms (`Begins`, `ListsSteps`, `SettleSteps`, `CommitSteps`, lemma `NextCases`), which every
part of the invariant is then followed through.

Assumptions: amounts are naturals, stakes and payouts are positive ones and a payout is not below its stake, the sets that are
summed or counted are finite, `None` and `Null` are not a session, a bet, a day or a number, the backoff reaches its cap, the featured page reads
at least as many rows as it shows, and reports are asked for of days there are, all evaluated by TLC in the runs.

Only model-checked: liveness (both `EveryTransactionEnds`, `ProcessingEnds`,
`PaidIsDecided`, `Answered`, `FinishedIsSettled`, `AccountsGetVerified`, `ResultsArrive`, `BreakerCloses`), which is out of
the prover's reach: every safety invariant and action property of the passing runs is a theorem.
The type invariants of bets, legacy bets, withdrawals, deposits, requests and accounts are proved and no run repeats them.

## Disagreements with the documentation

1. *Overspend by double click.* `tests/test_ledger_invariants.py:59` and
   `tests/test_concurrency.py:117` say that balance locks prevent it; the row is read
   without a lock (`wallet_service.py:32`). Run `lost_update`.

The following were met while modelling. They have no run of their own; where the model
contains the behaviour, the place is named.

2. *Concurrent execution.* `withdrawal_execution_service.py:37` locks the row "to prevent
   concurrent execution"; on a day without a limits row the limits check commits
   (`limits_service.py:67`) and frees it (`CheckLimits`, after which a second `Execute` can take the row).
3. *Paid and refunded.* The monitor refunds by age alone, before it asks the chain
   (`withdrawal_monitor.py:129`): `Process` fails an overdue payout, and `ChainDecides` confirms it afterwards.
4. *A cancelled approval.* "Only pending withdrawals can be cancelled."
   (`withdrawals.py:582`), decided on an unlocked read (line 603 writes): `ReadPending`, then `Cancel` over an approval.
5. *Idempotency-Key.* "Supports Idempotency-Key header for safe retries."
   (`withdrawals.py:59`). The hash of the request dumps a `Decimal` to JSON, which raises: a
   request with the header always fails (`InitiateWithKey`).
6. *Limits at execution.* The result of the limits check of `withdrawal_execution_service.py:134`
   is not looked at, though "double-check here" is what it says; and rejected, cancelled and failed withdrawals stay counted.
7. *Retry of a settlement.* "settlement will be retried on next scan" (`deposit_monitor.py:241`): what
   the monitor leaves `confirmed` is not scanned any more; it has no amount or a hash that is
   credited elsewhere, and the administrator's retry is refused for the same reason
   (`ConfirmedWasRefused`).
8. *One dropped transfer.* A transaction the node no longer knows raises out of the monitor's
   loop; no younger deposit is handled in that or any later cycle (`NotFound`, `PaidIsDecided`).
   A detected deposit whose `expires_at` passes is not scanned any more.
9. *A settled deposit confirmed by hand* with another hash is credited for that hash
   too (`Confirm`; `CreditedOnce` is per transfer).
10. *Results of another season.* "Never settle future matches" (`betting_records.py:41`), which
    `bulletproof_settlement.py` does not check: settle-all-finished joins by team names with any finished
    row, so a bet can be settled by an older match and before its own is played (`ListRow`).
    settle-finished-matches accepts impossible scores (`ListFinished`), and without a
    `match_id` a bet found in two rows is settled twice.
11. *A commission in the middle.* `calculate_commission` commits the settlement's transaction while
    the bet is still pending. A second `bet_lost` may follow, after which the records route
    raises for ever (`Raise`), or the bet is won later without a transaction (`BooksBalance`).
12. *Google redirect.* The callback takes the prefix of the address as the username without
    looking for a free one; when it is taken the person cannot sign in this way
    (`Redirect`, `Create`), while the button picks a free one. `/activate` compares a
    naive time with an aware one and raises.
13. *Affiliates.* `pay_commission` and `track_conversion` touch relations that are not loaded, which
    raises in an async session; approving a commission does not look at its status.
14. *Monitoring.* The worker's second cycle compares the naive time of its own heartbeat with
    an aware one, raises and rolls back what it has already sent out
    (`monitoring_worker.py:104`); `get_system_health` fails in the same way. The
    reconciliation subtracts two dictionaries, and its report of that error holds a
    `Decimal` in a JSON column: neither report is stored. No other worker writes a heartbeat, so the
   one cycle that commits says that all of them are unhealthy; a refunded withdrawal with two debits makes even that
   cycle raise (`CheckRefunds`). A degraded breaker answers a balance of zero, and the worker reports an empty wallet.
15. *Backoff.* Each failed execution asked for the balance first, and the answer forgets the
   failures: sends that fail while the balance is answered never open the breaker (`CheckFunds`, `Send`). The level is raised before its window is
   used (`tron_send_service.py:127`), so the node is left alone for twice the promised time (`CallsAreSpaced` allows it).
16. *Scraper.* Headings such as "Tomorrow, 07 Feb" are not read as dates (`Dated`). A match announced under the
   season inferred from its date and listed under the configured one gets two rows (`InferredSeason`).
   The page of next matches never refreshes prices. A past season with one row stored is never completed (`Skipped`).
17. *Cleaning.* `remove_duplicate_odds` keeps the row with the fewest bookmakers where its comment says most, and does not
   look at results (`ListAlike`).
18. *Board.* "…capped per country so we still show one match from different countries rather than many from a single
   country." (`routers/odds.py:788-790`). Only the first `fetch_size` rows of the week are read (line 800): with
   more rows than that, the refill shows more than a share of an early country while a country whose matches come later
   has none (`Fetched`, `FeaturedSpread`). "cap 2 per country" (line 787) is two of its well-known leagues and two of the others (`Combined`). The sort of the featured matches raises when rows of one day have and have not a time
   (`FeaturedFails`). `/upcoming-best-odds` is never reached: `/{odds_id}` comes first.
19. *Revenue.* The day of a bet is the day its request began; a report computed while such a request is open is not corrected
   (`Complete`), and stored late it overwrites one that is right (`Store`, the first exception of `CompleteDaysReported`). "ggr: Gross Gaming Revenue =
   losing_stakes - winning_profit_paid" (`models/revenue_report.py:18`): in a row whose update named only the columns that
   differ from an older row it need not be (`Merged`); three computations by two requests are enough.

## What is not modelled

* Amounts, addresses, fees, messages and HTTP wording, beyond what the guards read.
* Deadlocks between a wallet row and a withdrawal row: PostgreSQL ends one of the two
  transactions, which is `Crash` or `DebitFail` here; that it happens is not shown.
* The race inside one wallet operation while withdrawals run (planned as a composition).
* What should happen when the result of a match arrives between the check of a
  placement or a cancellation and its commit: the step is in `Bets` (`Finish`), nothing
  in the code excludes it, and no property is stated of it.
* Answers of the chain that are wrong: a failure the node reports is taken as one.
* `_process_processing_withdrawal` for a row without a hash: the scan excludes it.
* Deposits: `create_deposit_intent`, the status route and the cryptomus callback cannot be
  reached or always raise; whether a transaction succeeded on the chain is not looked at by the
  monitor, nor by the model.
* Requests: fees, the validation of addresses, minimum and maximum of one withdrawal; in
  development mode the limiter lets localhost pass. With the key "user" the limiter falls back to
  the address, so one window is what there is.
* Legacy: amounts other than 1; the columns `balance_before` and `balance_after`; deadlocks between
  rows; the deletion of rows by the deduplication scripts; absolute balances set by
  `update_user` and the fix scripts; the cooldown of add_funds; refusals by compliance. The scraper itself
  is a parser of pages: only what it writes to `odds` is a step.
* Accounts: passwords and tokens of sessions; the username loop of the button is one look; an
  affiliate's owner is nobody of `P`; every status of an affiliate that is not active is
  one; accounts are never deleted, as in the code.
* Odds: the parsing of pages, beyond what can be read of a row; two jobs at once, which systemd does
  not start; the duplicates that the scripts only count; the mock and maintenance scripts that set dates by
  hand; searches, statistics and the lists that rank matches by their prices. `pre_odd_*` is never written.
* Reports: the totals of deposits and withdrawals, which are sums like those of the bets.
* Operations: what the counting checks count and what the mails say; the look-up of transactions by the
  withdrawal monitor, which bypasses the breaker.
* Commissions beyond the one of a lost legacy bet (items 11 and 13): the other paths raise.
* The components listed as not modelled in `PROJECT.json`, each with its reason; the
  sweeper, the watcher and the scheduler are not started by anything.

## Plan

Done: the wallet, bets, withdrawals, deposits, withdrawal requests with limits and limiter, the legacy
balance, accounts, odds, revenue reports, the breaker and the monitoring worker; proofs of all that the passing runs
check of them except liveness.
The map covers about 30 % of the implementation; what is left is mostly parsing, queries and wording.

Next:

1. Composition of bets and withdrawals on one wallet row: the retry that finds another's
   reservation, the double unlock, and refunds missing after a second failure. Its run
   would take the place of `withdrawal_retries`, which it would contain.
2. The refund by age that races a late confirmation of the payout (item 3), as a property of what is paid and refunded
   that names the two ways in which it may happen.
