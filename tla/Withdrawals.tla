------------------------------ MODULE Withdrawals -------------------------------
(***************************************************************************)
(* The life of a withdrawal: the user's request and cancellation, the      *)
(* administrator's decision, the execution service that broadcasts the     *)
(* payment and debits the reserved funds, the retry of a failed one, and   *)
(* the monitor that follows the transaction on the chain.                  *)
(*                                                                         *)
(* Requests are handled by several server processes, each handler in a     *)
(* database session of its own; the monitor is a process with one session  *)
(* per cycle.  A plain SELECT takes no lock and its result may be stale    *)
(* when it is used.  SELECT ... FOR UPDATE and UPDATE take the row lock of *)
(* the withdrawal, held until the session commits or rolls back.           *)
(*                                                                         *)
(* One user with one wallet row makes all the requests.  An operation on   *)
(* the wallet is one step here; WalletTransactions models the race inside  *)
(* it.                                                                     *)
(***************************************************************************)
EXTENDS WalletService, FiniteSets

CONSTANTS
    W,              \* the withdrawal requests
    Amount,         \* Amount[w]: what w asks for
    Funds,          \* the user's balance at the start
    Sessions,       \* the sessions of the server processes
    Monitor, None,  \* Monitor: the monitor's session; None: no session
    MaxSends,       \* bound on the transactions that reach the chain
    MaxRetries      \* bound on the administrator's retries

ASSUME WithdrawalsAssumption ==
    /\ IsFiniteSet(W)
    /\ Amount \in [W -> Amounts \ {0}]
    /\ Funds \in Nat /\ MaxSends \in Nat /\ MaxRetries \in Nat
    /\ Monitor \notin Sessions /\ None \notin Sessions /\ Monitor # None

VARIABLES
    status, tx,     \* columns of withdrawal_intents; tx[w] is an index of chain, or 0
    wallet,         \* the user's row of user_crypto_balances
    entries,        \* entries[w]: how many ledger entries of each kind refer to w
    rowLock,        \* rowLock[w]: the session that holds w's row, or None
    limitsRow,      \* does the user have a row of today in user_daily_limits?
    session,        \* session[s]: where the handler of session s stands
    monitor,        \* the cycle of the monitor
    chain,          \* the transactions that reached the chain, in order
    retries,        \* how often a retry was made
    doubt           \* history: what happened to w is beyond what the code can tell

dbVars == <<status, tx, wallet, entries>>
vars == <<status, tx, wallet, entries, rowLock, limitsRow, session, monitor, chain,
          retries, doubt>>

Statuses == {"none", "pending", "approved", "rejected", "cancelled",
             "processing", "completed", "failed"}

\* The ledger entries a withdrawal can have.
Kinds == {"lock", "unlock", "debit", "refund"}

Idle == [at |-> "idle"]

\* cancel, approve, reject: has read a pending withdrawal.  check, send: has
\* passed the checks of execute_withdrawal.  sent, unsent: the broadcast has
\* returned or raised.  undebited: the debit has failed and was rolled back.
\* retried: has reset a failed withdrawal.
Active == [at : {"cancel", "approve", "reject", "check", "send", "sent", "unsent",
                 "undebited", "retried"}, w : W, tx : Nat]

Sleep == [at |-> "sleep"]

\* todo: scanned and not yet looked at; seen: the hashes the scan returned;
\* verdict, refund, credit: what the cycle will commit.
Cycle == [at : {"scan"}, todo : SUBSET W, seen : [W -> 0..Len(chain)],
          verdict : [W -> {"none", "completed", "failed"}],
          refund : SUBSET W, credit : Nat]

\* overdue: the monitor's timeout for it has passed.
Transaction == [w : W, state : {"inflight", "confirmed", "failed"}, overdue : BOOLEAN]

TypeOK ==
    /\ status \in [W -> Statuses]
    /\ tx \in [W -> 0..Len(chain)]
    /\ wallet \in Row
    /\ entries \in [W -> [Kinds -> Nat]]
    /\ rowLock \in [W -> Sessions \cup {Monitor, None}]
    /\ limitsRow \in BOOLEAN
    /\ session \in [Sessions -> Active \cup {Idle}]
    /\ monitor \in Cycle \cup {Sleep}
    /\ chain \in Seq(Transaction)
    /\ retries \in Nat
    /\ doubt \subseteq W

Init ==
    /\ status = [w \in W |-> "none"]
    /\ tx = [w \in W |-> 0]
    /\ wallet = [balance |-> Funds, reserved |-> 0]
    /\ entries = [w \in W |-> [k \in Kinds |-> 0]]
    /\ rowLock = [w \in W |-> None]
    /\ limitsRow = TRUE
    /\ session = [s \in Sessions |-> Idle]
    /\ monitor = Sleep
    /\ chain = <<>>
    /\ retries = 0
    /\ doubt = {}

-----------------------------------------------------------------------------
(* Sessions and the wallet.                                                *)

At(s, label) == session[s].at = label

Start(s, label, w) ==
    session' = [session EXCEPT ![s] = [at |-> label, w |-> w, tx |-> 0]]

Goto(s, label) == session' = [session EXCEPT ![s].at = label]

MayLock(s, w) == rowLock[w] \in {None, s}

\* Commit or rollback: the session's locks go.
End(s) ==
    /\ session' = [session EXCEPT ![s] = Idle]
    /\ rowLock' = [w \in W |-> IF rowLock[w] = s THEN None ELSE rowLock[w]]

Can(kind, w) ==
    Accepts(wallet, [op |-> IF kind = "debit" THEN "deduct" ELSE kind, amount |-> Amount[w]])

\* A wallet operation that succeeds, with its ledger entry.
Book(kind, w) ==
    /\ wallet' = Apply(wallet, [op |-> IF kind = "debit" THEN "deduct" ELSE kind,
                                amount |-> Amount[w]])
    /\ entries' = [entries EXCEPT ![w][kind] = @ + 1]

\* unlock_balance inside a try: a refusal is logged and forgotten.
TryUnlock(w) ==
    \/ Can("unlock", w) /\ Book("unlock", w)
    \/ ~Can("unlock", w) /\ UNCHANGED <<wallet, entries>>

-----------------------------------------------------------------------------
(* The request and the decisions on it (app/routers/withdrawals.py).       *)

\* initiate_withdrawal: the row, the reservation and one commit.  Its check of
\* the daily limits leaves today's limits row behind.
Initiate(w) ==
    /\ status[w] = "none"
    /\ Can("lock", w)
    /\ status' = [status EXCEPT ![w] = "pending"]
    /\ Book("lock", w)
    /\ limitsRow' = TRUE
    /\ UNCHANGED <<tx, rowLock, session, monitor, chain, retries, doubt>>

\* The three handlers look at the status with a plain SELECT ...
ReadPending(s, w, label) ==
    /\ At(s, "idle")
    /\ status[w] = "pending"
    /\ Start(s, label, w)
    /\ UNCHANGED <<dbVars, rowLock, limitsRow, monitor, chain, retries, doubt>>

\* ... and write their own without looking again.
Overwrite(s, label, new) ==
    LET w == session[s].w IN
    /\ At(s, label)
    /\ MayLock(s, w)
    /\ status' = [status EXCEPT ![w] = new]
    /\ doubt' = IF status[w] = "pending" THEN doubt ELSE doubt \cup {w}
    /\ End(s)
    /\ UNCHANGED <<tx, limitsRow, monitor, chain, retries>>

Cancel(s) == Overwrite(s, "cancel", "cancelled") /\ TryUnlock(session[s].w)

Reject(s) == Overwrite(s, "reject", "rejected") /\ TryUnlock(session[s].w)

Approve(s) == Overwrite(s, "approve", "approved") /\ UNCHANGED <<wallet, entries>>

-----------------------------------------------------------------------------
(* execute_withdrawal.                                                     *)

\* Mutant: a withdrawal in flight is executed again.
MutantExecute(s, w) ==
    /\ At(s, "idle")
    /\ rowLock[w] = None
    /\ status[w] \in {"approved", "processing"}
    /\ rowLock' = [rowLock EXCEPT ![w] = s]
    /\ Start(s, "check", w)
    /\ UNCHANGED <<dbVars, limitsRow, monitor, chain, retries, doubt>>

\* SELECT ... FOR UPDATE, then the checks of status and tx_hash.  A withdrawal
\* that fails them is answered without a change.
Execute(s, w) ==
    /\ At(s, "idle")
    /\ rowLock[w] = None
    /\ status[w] = "approved"
    /\ tx[w] = 0
    /\ rowLock' = [rowLock EXCEPT ![w] = s]
    /\ Start(s, "check", w)
    /\ UNCHANGED <<dbVars, limitsRow, monitor, chain, retries, doubt>>

\* The hot wallet is unreachable or short, the network or the amount is not
\* accepted: ValueError, and the request rolls back.
Refuse(s) ==
    /\ At(s, "check")
    /\ End(s)
    /\ UNCHANGED <<dbVars, limitsRow, monitor, chain, retries, doubt>>

\* check_withdrawal_limits, whose verdict is only logged.  Without a row of
\* today it inserts one and commits, and the commit ends the transaction that
\* holds the withdrawal's row.
CheckLimits(s) ==
    LET w == session[s].w IN
    /\ At(s, "check")
    /\ Goto(s, "send")
    /\ limitsRow' = TRUE
    /\ rowLock' = IF limitsRow THEN rowLock ELSE [rowLock EXCEPT ![w] = None]
    /\ doubt' = IF limitsRow THEN doubt ELSE doubt \cup {w}
    /\ UNCHANGED <<dbVars, monitor, chain, retries>>

Reach(w) == chain' = Append(chain, [w |-> w, state |-> "inflight", overdue |-> FALSE])

BroadcastOk(s) ==
    /\ At(s, "send")
    /\ Len(chain) < MaxSends
    /\ Reach(session[s].w)
    /\ session' = [session EXCEPT ![s].at = "sent", ![s].tx = Len(chain) + 1]
    /\ UNCHANGED <<dbVars, rowLock, limitsRow, monitor, retries, doubt>>

\* The exception reaches the service although the transaction reached the
\* chain: the answer was lost or carried no hash.
BroadcastLost(s) ==
    /\ At(s, "send")
    /\ Len(chain) < MaxSends
    /\ Reach(session[s].w)
    /\ Goto(s, "unsent")
    /\ doubt' = doubt \cup {session[s].w}
    /\ UNCHANGED <<dbVars, rowLock, limitsRow, monitor, retries>>

BroadcastFail(s) ==
    /\ At(s, "send")
    /\ Goto(s, "unsent")
    /\ UNCHANGED <<dbVars, rowLock, limitsRow, monitor, chain, retries, doubt>>

\* Mutant: the reservation is kept.
MutantGiveUp(s) ==
    LET w == session[s].w IN
    /\ At(s, "unsent")
    /\ MayLock(s, w)
    /\ status' = [status EXCEPT ![w] = "failed"]
    /\ End(s)
    /\ UNCHANGED <<wallet, entries, tx, limitsRow, monitor, chain, retries, doubt>>

\* The broadcast raised: unlock, mark failed, commit.
GiveUp(s) ==
    LET w == session[s].w IN
    /\ At(s, "unsent")
    /\ MayLock(s, w)
    /\ TryUnlock(w)
    /\ status' = [status EXCEPT ![w] = "failed"]
    /\ End(s)
    /\ UNCHANGED <<tx, limitsRow, monitor, chain, retries, doubt>>

\* Mutant: the debit is left out.
MutantSettle(s) ==
    LET w == session[s].w IN
    /\ At(s, "sent")
    /\ MayLock(s, w)
    /\ status' = [status EXCEPT ![w] = "processing"]
    /\ tx' = [tx EXCEPT ![w] = session[s].tx]
    /\ End(s)
    /\ UNCHANGED <<wallet, entries, limitsRow, monitor, chain, retries, doubt>>

\* The broadcast returned: hash, status and debit in one commit.
Settle(s) ==
    LET w == session[s].w IN
    /\ At(s, "sent")
    /\ MayLock(s, w)
    /\ Can("debit", w)
    /\ Book("debit", w)
    /\ status' = [status EXCEPT ![w] = "processing"]
    /\ tx' = [tx EXCEPT ![w] = session[s].tx]
    /\ End(s)
    /\ UNCHANGED <<limitsRow, monitor, chain, retries, doubt>>

\* The debit is refused or the database fails: rollback, and with it the lock.
DebitFail(s) ==
    LET w == session[s].w IN
    /\ At(s, "sent")
    /\ MayLock(s, w)
    /\ rowLock' = [rowLock EXCEPT ![w] = None]
    /\ Goto(s, "undebited")
    /\ doubt' = doubt \cup {w}
    /\ UNCHANGED <<dbVars, limitsRow, monitor, chain, retries>>

\* ... then mark failed with the hash, and unlock if that works: the session
\* has just failed, so it may not.
FailUndebited(s) ==
    LET w == session[s].w IN
    /\ At(s, "undebited")
    /\ MayLock(s, w)
    /\ \/ Can("unlock", w) /\ Book("unlock", w)
       \/ UNCHANGED <<wallet, entries>>
    /\ status' = [status EXCEPT ![w] = "failed"]
    /\ tx' = [tx EXCEPT ![w] = session[s].tx]
    /\ End(s)
    /\ UNCHANGED <<limitsRow, monitor, chain, retries, doubt>>

-----------------------------------------------------------------------------
(* retry_failed_withdrawal.                                                *)

\* FOR UPDATE, failed only.  The funds are reserved again if the user's whole
\* reservation does not cover the amount.  The commit releases the row.
Retry(s, w) ==
    /\ At(s, "idle")
    /\ retries < MaxRetries
    /\ rowLock[w] = None
    /\ status[w] = "failed"
    /\ IF wallet.reserved < Amount[w]
       THEN Can("lock", w) /\ Book("lock", w)
       ELSE UNCHANGED <<wallet, entries>>
    /\ status' = [status EXCEPT ![w] = "approved"]
    /\ tx' = [tx EXCEPT ![w] = 0]
    /\ Start(s, "retried", w)
    /\ retries' = retries + 1
    /\ doubt' = doubt \cup {w}
    /\ UNCHANGED <<rowLock, limitsRow, monitor, chain>>

\* Then execute_withdrawal, in the same session: its FOR UPDATE locks the row
\* but returns the object the session has, approved and without a hash,
\* whatever the row says by now.
ExecuteRetried(s) ==
    LET w == session[s].w IN
    /\ At(s, "retried")
    /\ rowLock[w] = None
    /\ rowLock' = [rowLock EXCEPT ![w] = s]
    /\ Goto(s, "check")
    /\ UNCHANGED <<dbVars, limitsRow, monitor, chain, retries, doubt>>

\* The process dies, or the connection: the database rolls back.
Crash(s) ==
    /\ ~At(s, "idle")
    /\ End(s)
    /\ doubt' = IF session[s].at \in {"sent", "unsent", "undebited"}
                THEN doubt \cup {session[s].w} ELSE doubt
    /\ UNCHANGED <<dbVars, limitsRow, monitor, chain, retries>>

-----------------------------------------------------------------------------
(* The monitor (app/workers/withdrawal_monitor.py).                        *)

Scan ==
    /\ monitor = Sleep
    /\ \E w \in W : status[w] = "processing" /\ tx[w] # 0
    /\ monitor' = [at |-> "scan", todo |-> {w \in W : status[w] = "processing" /\ tx[w] # 0},
                   seen |-> tx, verdict |-> [w \in W |-> "none"],
                   refund |-> {}, credit |-> 0]
    /\ UNCHANGED <<dbVars, rowLock, limitsRow, session, chain, retries, doubt>>

\* SKIP LOCKED: another session has the row.
Skip(w) ==
    /\ monitor # Sleep /\ w \in monitor.todo
    /\ rowLock[w] # None
    /\ monitor' = [monitor EXCEPT !.todo = @ \ {w}]
    /\ UNCHANGED <<dbVars, rowLock, limitsRow, session, chain, retries, doubt>>

\* Mutant: a transaction the chain knows of counts as a success.
MutantTrusting(t) == IF t.overdue THEN {"failed"} ELSE {"none", "completed"}

\* Mutant: the timeout is not looked at.
MutantPatient(t) ==
    {"none"} \cup (CASE t.state = "confirmed" -> {"completed"}
                      [] t.state = "failed"    -> {"failed"}
                      [] OTHER                 -> {})

\* What a look at transaction t may lead to: the timeout is looked at first,
\* then the chain, which may not answer.
Verdicts(t) ==
    IF t.overdue THEN {"failed"}
    ELSE {"none"} \cup (CASE t.state = "confirmed" -> {"completed"}
                          [] t.state = "failed"    -> {"failed"}
                          [] OTHER                 -> {})

\* Mutant: every failure is refunded.
MutantRefundable(w) == TRUE

\* One debit, no refund yet.  With two debits the query for the debit raises,
\* after the withdrawal was marked failed.
Refundable(w) == entries[w].refund = 0 /\ entries[w].debit = 1

\* The row is locked, not read again: status, hash and age are the scan's.
Process(w) ==
    /\ monitor # Sleep /\ w \in monitor.todo
    /\ rowLock[w] = None
    /\ rowLock' = [rowLock EXCEPT ![w] = Monitor]
    /\ \E v \in Verdicts(chain[monitor.seen[w]]) :
          LET back == v = "failed" /\ Refundable(w) IN
          monitor' = [monitor EXCEPT
              !.todo = @ \ {w}, !.verdict[w] = v,
              !.refund = IF back THEN @ \cup {w} ELSE @,
              !.credit = IF back THEN @ + Amount[w] ELSE @]
    /\ UNCHANGED <<dbVars, limitsRow, session, chain, retries, doubt>>

MonitorEnd ==
    /\ monitor' = Sleep
    /\ rowLock' = [w \in W |-> IF rowLock[w] = Monitor THEN None ELSE rowLock[w]]

\* The whole cycle in one commit.
MonitorCommit ==
    /\ monitor # Sleep /\ monitor.todo = {}
    /\ status' = [w \in W |-> IF monitor.verdict[w] = "none" THEN status[w]
                              ELSE monitor.verdict[w]]
    /\ wallet' = CreditBalance(wallet, monitor.credit)
    /\ entries' = [w \in W |-> IF w \in monitor.refund
                               THEN [entries[w] EXCEPT !.refund = @ + 1] ELSE entries[w]]
    /\ doubt' = doubt \cup {w \in W : monitor.verdict[w] # "none" /\ status[w] # "processing"}
    /\ MonitorEnd
    /\ UNCHANGED <<tx, limitsRow, session, chain, retries>>

\* An error outside the handling of one withdrawal, or the process dies.
MonitorAbort ==
    /\ monitor # Sleep
    /\ MonitorEnd
    /\ UNCHANGED <<dbVars, limitsRow, session, chain, retries, doubt>>

-----------------------------------------------------------------------------
(* The chain and the clock.                                                *)

ChainDecides(i, outcome) ==
    /\ chain[i].state = "inflight"
    /\ chain' = [chain EXCEPT ![i].state = outcome]
    /\ UNCHANGED <<dbVars, rowLock, limitsRow, session, monitor, retries, doubt>>

\* WITHDRAWAL_CONFIRM_TIMEOUT_MINUTES have passed since processed_at.
Elapse(w) ==
    /\ status[w] = "processing" /\ tx[w] # 0
    /\ ~chain[tx[w]].overdue
    /\ chain' = [chain EXCEPT ![tx[w]].overdue = TRUE]
    /\ UNCHANGED <<dbVars, rowLock, limitsRow, session, monitor, retries, doubt>>

\* Midnight: no row of the new day yet.
NextDay ==
    /\ limitsRow' = FALSE
    /\ UNCHANGED <<dbVars, rowLock, session, monitor, chain, retries, doubt>>

-----------------------------------------------------------------------------
Handler(s) ==
    \/ Cancel(s) \/ Approve(s) \/ Reject(s)
    \/ Refuse(s) \/ CheckLimits(s)
    \/ BroadcastOk(s) \/ BroadcastLost(s) \/ BroadcastFail(s)
    \/ GiveUp(s) \/ Settle(s) \/ DebitFail(s) \/ FailUndebited(s)
    \/ ExecuteRetried(s)

Request(s, w) ==
    \/ \E label \in {"cancel", "approve", "reject"} : ReadPending(s, w, label)
    \/ Execute(s, w)
    \/ Retry(s, w)

Next ==
    \/ \E w \in W : Initiate(w) \/ Skip(w) \/ Process(w) \/ Elapse(w)
    \/ \E s \in Sessions : Handler(s) \/ Crash(s)
    \/ \E s \in Sessions, w \in W : Request(s, w)
    \/ Scan \/ MonitorCommit \/ MonitorAbort
    \/ \E i \in DOMAIN chain, outcome \in {"confirmed", "failed"} : ChainDecides(i, outcome)
    \/ NextDay

Spec == Init /\ [][Next]_vars

\* Handlers go on, waiting in PostgreSQL's queue for a row lock.  The monitor
\* is restarted by systemd and runs for ever; not every cycle of it fails.
Fairness ==
    /\ \A s \in Sessions : SF_vars(Handler(s))
    /\ WF_vars(Scan)
    /\ \A w \in W : SF_vars(Skip(w) \/ Process(w)) /\ WF_vars(Elapse(w))
    /\ SF_vars(MonitorCommit)

FairSpec == Spec /\ Fairness

-----------------------------------------------------------------------------
(* Properties.                                                             *)

Sends(w) == {i \in DOMAIN chain : chain[i].w = w}

\* A debit is refunded at most once, and only a debit is refunded
\* (_refund_withdrawal: "Prevents double-refunding", "must only refund if debit
\* actually happened"), whatever the sessions, retries and crashes do.
RefundsFollowDebits == \A w \in W : entries[w].refund <= 1 /\ entries[w].refund <= entries[w].debit

\* A withdrawal reported as completed has been paid: a transaction of its own
\* is confirmed on the chain.
CompletedWasPaid ==
    \A w \in W : status[w] = "completed" => \E i \in Sends(w) : chain[i].state = "confirmed"

\* What the entries of a withdrawal of status st add up to.
Entries(l, u, d, r) == [k \in Kinds |-> CASE k = "lock" -> l [] k = "unlock" -> u
                                          [] k = "debit" -> d [] OTHER -> r]

EntriesOf(st) ==
    CASE st = "none"                      -> {Entries(0, 0, 0, 0)}
      [] st \in {"pending", "approved"}     -> {Entries(1, 0, 0, 0)}
      [] st \in {"cancelled", "rejected"}   -> {Entries(1, 1, 0, 0)}
      [] st \in {"processing", "completed"} -> {Entries(1, 0, 1, 0)}
      [] OTHER -> {Entries(1, 1, 0, 0), Entries(1, 0, 1, 1)}

\* While the withdrawals are not in doubt, each one's entries put its amount
\* where its status says it is: with the user, reserved, or paid out.
FundsFollowStatus == doubt = {} => \A w \in W : entries[w] \in EntriesOf(status[w])

\* Where the money of w is.
FundsOf(w) ==
    LET e == entries[w] IN
    IF e.lock > e.unlock + e.debit THEN "reserved"
    ELSE IF e.debit > e.refund THEN "out" ELSE "user"

PromiseOf(w) == [status |-> status[w], funds |-> FundsOf(w), sent |-> Sends(w) # {}]

Promised == INSTANCE WithdrawalPromise WITH promise <- [w \in W |-> PromiseOf(w)]

\* As long as no withdrawal is in doubt, every step keeps the promise.
KeepsPromise == [][doubt' = {} => Promised!Next]_<<status, entries, chain>>

Executing(s, w) == session[s].at \in {"check", "send", "sent", "unsent"} /\ session[s].w = w

\* "calling it multiple times will not send twice"
\* (app/services/withdrawal_execution_service.py:32): true of a withdrawal that is
\* not in doubt, and at most one session at a time is between the checks of its
\* execution and the commit of the outcome ("Lock the withdrawal row FOR UPDATE to
\* prevent concurrent execution", line 37).
SentOnceUnlessInDoubt ==
    /\ \A i, j \in DOMAIN chain : chain[i].w = chain[j].w => i = j \/ chain[i].w \in doubt
    /\ \A w \in W \ doubt, s, t \in Sessions : Executing(s, w) /\ Executing(t, w) => s = t

\* The monitor comes to a verdict on every payout.
ProcessingEnds == \A w \in W : status[w] = "processing" ~> status[w] # "processing"
=============================================================================
