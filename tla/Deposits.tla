-------------------------------- MODULE Deposits --------------------------------
(***************************************************************************)
(* Deposits on the chain: the user asks for an address, the monitor sees a *)
(* transfer to it, follows its confirmations and settles the deposit; an   *)
(* administrator may confirm a deposit by hand, retry a settlement or mark *)
(* a deposit failed.  The credit of the wallet, the row of                 *)
(* crypto_transactions and the new status are one database transaction.    *)
(*                                                                         *)
(* Each monitor and each request has a session of its own.  Three things   *)
(* make them wait for each other: SELECT ... FOR UPDATE on the row of the  *)
(* deposit, an UPDATE of it, and an insert with a transaction hash that an *)
(* open transaction has inserted (crypto_transactions.tx_hash is unique).  *)
(* A plain SELECT waits for nothing and may be stale when it is used.      *)
(***************************************************************************)
EXTENDS Naturals, FiniteSets

CONSTANTS
    I,              \* the deposits (deposit_intents), in the order of created_at
    T,              \* the transfers, by their hash
    To, Amount,     \* To[t]: the deposit whose address t pays; Amount[t], 0 possible
    Workers,        \* the monitor processes
    Admins,         \* the sessions of administrators' requests
    None,
    MaxRequests,    \* bound on these requests
    MaxFailures     \* bound on the failures of the node, the database and the processes

ASSUME DepositsAssumption ==
    /\ I \subseteq Nat /\ None \notin I \cup T \cup Workers \cup Admins
    /\ To \in [T -> I] /\ Amount \in [T -> Nat]
    /\ Workers \cap Admins = {}
    /\ MaxRequests \in Nat /\ MaxFailures \in Nat

VARIABLES
    status, tx,     \* columns of deposit_intents
    expired,        \* the deposits whose expires_at has passed
    record,         \* record[t]: the deposit in t's row of crypto_transactions, or None
    credits,        \* credits[t]: the ledger entries DEPOSIT_CREDIT made for t
    chain,          \* chain[t]: what the node says of t
    row,            \* row[i]: the session that holds i's row FOR UPDATE, or None
    key,            \* key[t]: the session whose open transaction inserted t, or None
    work,           \* work[p]: where session p stands
    todo,           \* todo[w]: what is left of the scan of monitor w
    requests,       \* history: the number of requests
    failures,       \* history: the number of failures
    manual          \* history: the deposits confirmed or marked failed by hand

dbVars == <<status, tx, record, credits>>
lockVars == <<row, key>>
vars == <<status, tx, expired, record, credits, chain, row, key, work, todo, requests, failures, manual>>

Statuses == {"none", "pending", "detected", "confirmed", "settled", "failed", "expired"}

Sessions == Workers \cup Admins

Idle == [at |-> "idle"]

\* pending, detected: the monitor holds the row and has read this status.
\* retry, failing: the request has read the row and waits for it.  read,
\* checked, recorded: in confirm_deposit, before its checks, after them, after
\* the insert.  seen is the status confirm_deposit works with.
Active == [at : {"pending", "detected", "retry", "failing", "read", "checked", "recorded"},
           i : I, t : T \cup {None}, seen : Statuses]

TypeOK ==
    /\ status \in [I -> Statuses]
    /\ tx \in [I -> T \cup {None}]
    /\ expired \subseteq I
    /\ record \in [T -> I \cup {None}]
    /\ credits \in [T -> Nat]
    /\ chain \in [T -> {"none", "seen", "final", "lost"}]
    /\ row \in [I -> Sessions \cup {None}]
    /\ key \in [T -> Sessions \cup {None}]
    /\ work \in [Sessions -> Active \cup {Idle}]
    /\ todo \in [Workers -> SUBSET I]
    /\ requests \in Nat /\ failures \in Nat
    /\ manual \subseteq I

Init ==
    /\ status = [i \in I |-> "none"]
    /\ tx = [i \in I |-> None]
    /\ expired = {}
    /\ record = [t \in T |-> None]
    /\ credits = [t \in T |-> 0]
    /\ chain = [t \in T |-> "none"]
    /\ row = [i \in I |-> None]
    /\ key = [t \in T |-> None]
    /\ work = [p \in Sessions |-> Idle]
    /\ todo = [w \in Workers |-> {}]
    /\ requests = 0 /\ failures = 0
    /\ manual = {}

-----------------------------------------------------------------------------
(* Sessions and their locks.                                               *)

At(p, label) == work[p].at = label

Goto(p, label) == work' = [work EXCEPT ![p].at = label]

\* An UPDATE waits for FOR UPDATE.
MayUpdate(p, i) == row[i] \in {None, p}

\* FOR UPDATE waits also for the key share lock that a row of
\* crypto_transactions, not yet committed, takes on the deposit it points to.
MayLock(p, i) ==
    /\ MayUpdate(p, i)
    /\ \A q \in Sessions \ {p} : ~(At(q, "recorded") /\ work[q].i = i)

Unlock(p) ==
    /\ row' = [i \in I |-> IF row[i] = p THEN None ELSE row[i]]
    /\ key' = [t \in T |-> IF key[t] = p THEN None ELSE key[t]]

\* The session commits; a monitor goes on to the next deposit of its scan.
Commit(p) ==
    /\ Unlock(p)
    /\ work' = [work EXCEPT ![p] = Idle]
    /\ todo' = [w \in Workers |-> IF w = p THEN todo[w] \ {work[p].i} ELSE todo[w]]

\* The session rolls back.  A rollback expires the row object that the error
\* handler of the monitor then reads: it raises, and the rest of the scan is lost.
Rollback(p) ==
    /\ Unlock(p)
    /\ work' = [work EXCEPT ![p] = Idle]
    /\ todo' = [w \in Workers |-> IF w = p THEN {} ELSE todo[w]]

SetStatus(i, s) == status' = [status EXCEPT ![i] = s]

-----------------------------------------------------------------------------
(* Users, the chain and the clock.                                         *)

\* initiate_deposit: an address of its own for every request.
Initiate(i) ==
    /\ status[i] = "none"
    /\ SetStatus(i, "pending")
    /\ UNCHANGED <<tx, expired, record, credits, chain, lockVars, work, todo, requests, failures, manual>>

Expire(i) ==
    /\ status[i] # "none" /\ i \notin expired
    /\ expired' = expired \cup {i}
    /\ UNCHANGED <<dbVars, chain, lockVars, work, todo, requests, failures, manual>>

\* The user pays; the block becomes final, or is dropped with the transfer.
Pay(t) ==
    /\ chain[t] = "none" /\ status[To[t]] # "none"
    /\ chain' = [chain EXCEPT ![t] = "seen"]
    /\ UNCHANGED <<dbVars, expired, lockVars, work, todo, requests, failures, manual>>

Mine(t) ==
    /\ chain[t] = "seen"
    /\ chain' = [chain EXCEPT ![t] = "final"]
    /\ UNCHANGED <<dbVars, expired, lockVars, work, todo, requests, failures, manual>>

Drop(t) ==
    /\ chain[t] = "seen" /\ failures < MaxFailures
    /\ chain' = [chain EXCEPT ![t] = "lost"]
    /\ failures' = failures + 1
    /\ UNCHANGED <<dbVars, expired, lockVars, work, todo, requests, manual>>
-----------------------------------------------------------------------------
(* The monitor (app/workers/deposit_monitor.py).                           *)

\* Mutant: the scan asks for pending deposits only.
MutantScannable == {i \in I : status[i] = "pending" /\ i \notin expired}

Scannable == {i \in I : status[i] \in {"pending", "detected"} /\ i \notin expired}

Scan(w) ==
    /\ work[w] = Idle /\ todo[w] = {}
    /\ todo' = [todo EXCEPT ![w] = Scannable]
    /\ UNCHANGED <<dbVars, expired, chain, lockVars, work, requests, failures, manual>>

\* FOR UPDATE SKIP LOCKED and a refresh of the row; a locked row is skipped, and
\* one that is no longer pending or detected committed as it is.
Take(w) ==
    \E i \in todo[w] :
       /\ work[w] = Idle /\ \A j \in todo[w] : i <= j
       /\ \/ /\ MayLock(w, i) /\ status[i] \in {"pending", "detected"}
             /\ row' = [row EXCEPT ![i] = w]
             /\ work' = [work EXCEPT ![w] = [at |-> status[i], i |-> i, t |-> tx[i],
                                             seen |-> status[i]]]
             /\ UNCHANGED todo
          \/ /\ ~MayLock(w, i) \/ status[i] \notin {"pending", "detected"}
             /\ todo' = [todo EXCEPT ![w] = @ \ {i}]
             /\ UNCHANGED <<row, work>>
       /\ UNCHANGED <<dbVars, expired, chain, key, requests, failures, manual>>

Arrived(i) == {t \in T : To[t] = i /\ chain[t] \in {"seen", "final"}}

\* _process_pending_intent: the first transfer the node lists is taken, whatever
\* its amount; a transfer that another deposit has makes this one fail.
Detect(w) ==
    /\ At(w, "pending")
    /\ LET i == work[w].i IN
       \/ Arrived(i) = {} /\ UNCHANGED <<status, tx>>
       \/ \E t \in Arrived(i) :
            IF \E j \in I \ {i} : tx[j] = t
            THEN SetStatus(i, "failed") /\ UNCHANGED tx
            ELSE SetStatus(i, "detected") /\ tx' = [tx EXCEPT ![i] = t]
    /\ Commit(w)
    /\ UNCHANGED <<expired, record, credits, chain, requests, failures, manual>>

\* Mutant: a settlement that raises leaves the deposit confirmed.
MutantFail(p) ==
    /\ work[p] # Idle /\ failures < MaxFailures
    /\ failures' = failures + 1
    /\ Rollback(p)
    /\ IF p \in Workers /\ At(p, "recorded") THEN SetStatus(work[p].i, "confirmed")
                                             ELSE UNCHANGED status
    /\ UNCHANGED <<tx, record, credits, expired, chain, requests, manual>>

\* _process_detected_intent up to settlement: too few confirmations change
\* nothing; settle_deposit_intent refuses a deposit without an amount, and the
\* status confirmed is committed all the same.
Follow(w) ==
    /\ At(w, "detected")
    /\ LET i == work[w].i  t == work[w].t IN
       \/ chain[t] = "seen" /\ Commit(w) /\ UNCHANGED status
       \/ chain[t] = "final" /\ Amount[t] = 0 /\ SetStatus(i, "confirmed") /\ Commit(w)
       \/ /\ chain[t] = "final" /\ Amount[t] # 0
          /\ work' = [work EXCEPT ![w].at = "read", ![w].seen = "confirmed"]
          /\ UNCHANGED <<status, lockVars, todo>>
    /\ UNCHANGED <<tx, record, credits, expired, chain, requests, failures, manual>>

\* get_tx_info does not find a transfer that was dropped, and raises.
NotFound(w) ==
    /\ At(w, "detected") /\ chain[work[w].t] = "lost"
    /\ Rollback(w)
    /\ UNCHANGED <<dbVars, expired, chain, requests, failures, manual>>
-----------------------------------------------------------------------------
(* The administrator's requests (app/routers/deposits.py, admin.py).       *)

Begin(r) ==
    /\ work[r] = Idle /\ requests < MaxRequests
    /\ requests' = requests + 1

\* POST /deposits/confirm with a hash of the administrator's choice.
Confirm(r, i, t) ==
    /\ Begin(r) /\ status[i] # "none"
    /\ work' = [work EXCEPT ![r] = [at |-> "read", i |-> i, t |-> t, seen |-> status[i]]]
    /\ manual' = manual \cup {i}
    /\ UNCHANGED <<dbVars, expired, chain, lockVars, todo, failures>>

\* POST /deposits/{id}/retry settles what it finds confirmed.
Retry(r, i) ==
    /\ Begin(r) /\ status[i] = "confirmed"
    /\ work' = [work EXCEPT ![r] = [at |-> "retry", i |-> i, t |-> tx[i], seen |-> "confirmed"]]
    /\ UNCHANGED <<dbVars, expired, chain, lockVars, todo, failures, manual>>

\* settle_deposit_intent locks the row; the object read before the lock stays
\* as it was.
LockRetry(r) ==
    /\ At(r, "retry") /\ MayLock(r, work[r].i)
    /\ IF Amount[work[r].t] = 0
       THEN Commit(r)
       ELSE /\ row' = [row EXCEPT ![work[r].i] = r]
            /\ Goto(r, "read")
            /\ UNCHANGED <<key, todo>>
    /\ UNCHANGED <<dbVars, expired, chain, requests, failures, manual>>

\* POST /deposits/{id}/mark_failed: the check and the write are two statements.
MarkFailed(r, i) ==
    /\ Begin(r) /\ status[i] \notin {"none", "settled"}
    /\ work' = [work EXCEPT ![r] = [at |-> "failing", i |-> i, t |-> None, seen |-> status[i]]]
    /\ manual' = manual \cup {i}
    /\ UNCHANGED <<dbVars, expired, chain, lockVars, todo, failures>>

WriteFailed(r) ==
    /\ At(r, "failing") /\ MayUpdate(r, work[r].i)
    /\ SetStatus(work[r].i, "failed")
    /\ Commit(r)
    /\ UNCHANGED <<tx, record, credits, expired, chain, requests, failures, manual>>
-----------------------------------------------------------------------------
(* confirm_deposit (app/services/deposit_service.py), from the monitor,    *)
(* the retry or the confirmation by hand.                                  *)

\* The status a refused settlement leaves: the monitor has flushed confirmed
\* and commits it.
Refused(p) ==
    /\ IF p \in Workers THEN SetStatus(work[p].i, "confirmed") ELSE UNCHANGED status
    /\ Commit(p)

\* A replay of a settled deposit; an expired one, which is marked so; a hash
\* that was recorded already; or none of these.
Check(p) ==
    /\ At(p, "read")
    /\ LET i == work[p].i  t == work[p].t  replay == work[p].seen = "settled" /\ record[t] = i IN
       \/ replay /\ Commit(p) /\ UNCHANGED status
       \/ ~replay /\ i \in expired /\ MayUpdate(p, i) /\ SetStatus(i, "expired") /\ Commit(p)
       \/ ~replay /\ i \notin expired /\ record[t] # None /\ Refused(p)
       \/ /\ ~replay /\ i \notin expired /\ record[t] = None
          /\ Goto(p, "checked")
          /\ UNCHANGED <<status, lockVars, todo>>
    /\ UNCHANGED <<tx, record, credits, expired, chain, requests, failures, manual>>

\* Mutant: tx_hash is not unique.
MutantInsert(p) ==
    /\ At(p, "checked")
    /\ key' = [key EXCEPT ![work[p].t] = p]
    /\ Goto(p, "recorded")
    /\ UNCHANGED <<row, todo, dbVars, expired, chain, requests, failures, manual>>

\* The insert waits for a transaction that has inserted the same hash, and
\* raises when that one has committed.
Insert(p) ==
    /\ At(p, "checked")
    /\ LET t == work[p].t IN
       /\ key[t] = None
       /\ \/ record[t] # None /\ Rollback(p)
          \/ /\ record[t] = None
             /\ key' = [key EXCEPT ![t] = p]
             /\ Goto(p, "recorded")
             /\ UNCHANGED <<row, todo>>
    /\ UNCHANGED <<dbVars, expired, chain, requests, failures, manual>>

\* No other deposit has the hash (unique index on network and tx_hash).
HashIsFree(i, t) == \A j \in I \ {i} : tx[j] # t

\* Mutant: the credit is committed before the status is written.
MutantSettle(p) ==
    /\ At(p, "recorded") /\ HashIsFree(work[p].i, work[p].t)
    /\ record' = [record EXCEPT ![work[p].t] = work[p].i]
    /\ credits' = [credits EXCEPT ![work[p].t] = @ + 1]
    /\ Rollback(p)
    /\ UNCHANGED <<status, tx, expired, chain, requests, failures, manual>>

\* The row is updated, the wallet credited, the deposit settled, one commit.
Settle(p) ==
    /\ At(p, "recorded") /\ MayUpdate(p, work[p].i)
    /\ LET i == work[p].i  t == work[p].t IN
       \/ /\ HashIsFree(i, t)
          /\ SetStatus(i, "settled")
          /\ tx' = [tx EXCEPT ![i] = t]
          /\ record' = [record EXCEPT ![t] = i]
          /\ credits' = [credits EXCEPT ![t] = @ + 1]
          /\ Commit(p)
       \/ ~HashIsFree(i, t) /\ Rollback(p) /\ UNCHANGED dbVars
    /\ UNCHANGED <<expired, chain, requests, failures, manual>>

\* p and q each hold what the other waits for; the database breaks it by
\* failing one of them.
Deadlocked(p, q) ==
    /\ At(p, "checked") /\ At(q, "recorded")
    /\ key[work[p].t] = q /\ row[work[q].i] = p

Victim(p) ==
    /\ \E q \in Sessions : Deadlocked(p, q) \/ Deadlocked(q, p)
    /\ Rollback(p)
    /\ UNCHANGED <<dbVars, expired, chain, requests, failures, manual>>

\* The node does not answer, the wallet refuses, the process dies.
Fail(p) ==
    /\ work[p] # Idle /\ failures < MaxFailures
    /\ failures' = failures + 1
    /\ Rollback(p)
    /\ UNCHANGED <<dbVars, expired, chain, requests, manual>>
-----------------------------------------------------------------------------
MonitorStep(w) ==
    Scan(w) \/ Take(w) \/ Detect(w) \/ Follow(w) \/ NotFound(w)

RequestStep(r) == LockRetry(r) \/ WriteFailed(r)

SessionStep(p) == Check(p) \/ Insert(p) \/ Settle(p) \/ Victim(p)

Next ==
    \/ \E i \in I : Initiate(i) \/ Expire(i)
    \/ \E t \in T : Pay(t) \/ Mine(t) \/ Drop(t)
    \/ \E w \in Workers : MonitorStep(w)
    \/ \E r \in Admins : RequestStep(r)
    \/ \E r \in Admins, i \in I : Retry(r, i) \/ MarkFailed(r, i)
    \/ \E r \in Admins, i \in I, t \in T : Confirm(r, i, t)
    \/ \E p \in Sessions : SessionStep(p) \/ Fail(p)

\* The monitor loops, a handler runs to its end, and blocks become final.
Fairness ==
    /\ \A w \in Workers : WF_vars(MonitorStep(w))
    /\ \A r \in Admins : WF_vars(RequestStep(r))
    /\ \A p \in Sessions : WF_vars(SessionStep(p))
    /\ \A t \in T : WF_vars(Mine(t))

Spec == Init /\ [][Next]_vars /\ Fairness
-----------------------------------------------------------------------------
(* Properties.                                                             *)

\* A transfer is credited exactly when it is recorded, and then once: neither
\* two monitors, nor a monitor and an administrator, nor a retry credit it twice
\* (deposit_service.py:115, "same tx_hash will not credit twice").
CreditedOnce == \A t \in T : credits[t] = IF record[t] = None THEN 0 ELSE 1

\* A deposit that is left confirmed has nothing to settle it with: its transfer
\* has no amount or was credited to another deposit.  What the monitor cannot
\* settle for a passing reason goes back to detected and is tried again.
ConfirmedWasRefused ==
    \A i \in I : status[i] = "confirmed" => Amount[tx[i]] = 0 \/ record[tx[i]] # None

Life(i) == INSTANCE DepositLife WITH
    status <- status[i], credits <- Cardinality({t \in T : record[t] = i})

\* As long as nobody confirms it or marks it failed, every step of a deposit is
\* one of DepositLife, whatever retries and other monitors do; and none leaves
\* "settled" but by the hand of an administrator, not even by a scan that is older
\* than the settlement.
UntouchedDepositsLive ==
    [][/\ \A i \in I \ manual' : Life(i)!Next \/ UNCHANGED Life(i)!vars
       /\ \A i \in I : status[i] = "settled" /\ status'[i] # "settled" =>
             \E r \in Admins :
                 work[r].at \in {"failing", "read"} /\ work[r].i = i /\ work'[r] = Idle]_vars

\* A transfer that reaches the address of a waiting deposit in time gets the
\* deposit decided, through failures of a cycle and deadlocks.  A transfer that is
\* dropped stops this for every younger deposit: each cycle ends at it.
PaidIsDecided ==
    []<>(\A t \in T :
            \/ chain[t] # "final"
            \/ status[To[t]] \notin {"pending", "detected"}
            \/ To[t] \in expired
            \/ \E u \in T : chain[u] = "lost")
=============================================================================
