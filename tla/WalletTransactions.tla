-------------------------- MODULE WalletTransactions ---------------------------
(***************************************************************************)
(* WalletService as requests and workers run it: database sessions that    *)
(* interleave on PostgreSQL at READ COMMITTED (app/core/database.py sets   *)
(* no isolation level).                                                    *)
(*                                                                         *)
(* The SELECT of get_or_create_balance takes no lock.  The checks and the  *)
(* new values are computed in the process from what it returned; the       *)
(* UPDATE of the flush waits for the row lock, which lasts until the       *)
(* transaction ends, and writes those values whatever the row holds by     *)
(* then.  Other users' transactions never see what is not committed, so    *)
(* row and ledger hold committed data only.                                *)
(***************************************************************************)
EXTENDS WalletService

CONSTANT Users, MaxEntries     \* MaxEntries bounds the ledger of a user
CONSTANT Sessions, None        \* None: nobody holds the lock

ASSUME SessionsAssumption == None \notin Sessions

VARIABLES
    row,        \* row[u]: the committed row (EmptyRow before it exists)
    exists,     \* the users whose row has been committed
    ledger,     \* ledger[u]: the committed ledger entries, in commit order
    lock,       \* lock[u]: the session whose transaction holds the row (or its key)
    session,    \* session[s]: where the session's transaction stands
    raced       \* history: raced[u] counts the commits computed from a row already stale

vars == <<row, exists, ledger, lock, session, raced>>

\* missing: the SELECT found no row; read: it returned `seen`; flushed: the
\* UPDATE and the INSERTs were sent.  `at` is history: the length of the
\* ledger when the SELECT ran.
Active == [phase : {"missing", "read", "flushed"}, user : Users, plan : Plans,
           seen : Row, at : Nat]

Idle == [phase |-> "idle"]

TypeOK ==
    /\ row \in [Users -> Row]
    /\ exists \subseteq Users
    /\ ledger \in [Users -> Seq(Entry)]
    /\ lock \in [Users -> Sessions \cup {None}]
    /\ session \in [Sessions -> Active \cup {Idle}]
    /\ raced \in [Users -> Nat]

Init ==
    /\ row = [u \in Users |-> EmptyRow]
    /\ exists = {}
    /\ ledger = [u \in Users |-> <<>>]
    /\ lock = [u \in Users |-> None]
    /\ session = [s \in Sessions |-> Idle]
    /\ raced = [u \in Users |-> 0]

-----------------------------------------------------------------------------
In(s, phase) == session[s].phase = phase

MayTake(s, u) == lock[u] \in {None, s}

Released(s) == [u \in Users |-> IF lock[u] = s THEN None ELSE lock[u]]

\* The unlocked SELECT of get_or_create_balance.
Read(s, u, plan) ==
    /\ In(s, "idle")
    /\ session' = [session EXCEPT ![s] =
          [phase |-> IF u \in exists THEN "read" ELSE "missing",
           user |-> u, plan |-> plan, seen |-> row[u], at |-> Len(ledger[u])]]
    /\ UNCHANGED <<row, exists, ledger, lock, raced>>

\* No row: insert one with zeros.  The unique key (user, asset) makes a second
\* inserter wait for the first one's transaction.
InsertRow(s) ==
    LET u == session[s].user IN
    /\ In(s, "missing")
    /\ MayTake(s, u)
    /\ u \notin exists
    /\ lock' = [lock EXCEPT ![u] = s]
    /\ session' = [session EXCEPT ![s].phase = "read"]
    /\ UNCHANGED <<row, exists, ledger, raced>>

\* The transaction is over: commit, rollback or connection lost.
End(s) ==
    /\ session' = [session EXCEPT ![s] = Idle]
    /\ lock' = Released(s)

\* Mutant: the failed transaction is left open, its lock with it.
MutantAbort(s) ==
    /\ session' = [session EXCEPT ![s] = Idle]
    /\ UNCHANGED <<row, exists, ledger, raced, lock>>

Abort(s) == End(s) /\ UNCHANGED <<row, exists, ledger, raced>>

\* ... and fails with an IntegrityError once the first one has committed.
InsertConflict(s) == In(s, "missing") /\ session[s].user \in exists /\ Abort(s)

\* A check refuses: ValueError, and the caller rolls back.
Refuse(s) ==
    /\ In(s, "read")
    /\ ~PlanAccepted(session[s].seen, session[s].plan)
    /\ Abort(s)

\* Mutant: the check of the columns that were read is dropped.
MutantFlush(s) ==
    /\ In(s, "read")
    /\ MayTake(s, session[s].user)
    /\ lock' = [lock EXCEPT ![session[s].user] = s]
    /\ session' = [session EXCEPT ![s].phase = "flushed"]
    /\ UNCHANGED <<row, exists, ledger, raced>>

\* The checks pass on what was read; the UPDATE waits for the row lock.
Flush(s) ==
    LET u == session[s].user IN
    /\ In(s, "read")
    /\ PlanAccepted(session[s].seen, session[s].plan)
    /\ MayTake(s, u)
    /\ lock' = [lock EXCEPT ![u] = s]
    /\ session' = [session EXCEPT ![s].phase = "flushed"]
    /\ UNCHANGED <<row, exists, ledger, raced>>

\* The caller commits: the row and the ledger entries become visible together.
Commit(s) ==
    LET u == session[s].user  plan == session[s].plan  seen == session[s].seen IN
    /\ In(s, "flushed")
    /\ Len(ledger[u]) + Len(plan) <= MaxEntries
    /\ row' = [row EXCEPT ![u] = Written(@, seen, plan)]
    /\ ledger' = [ledger EXCEPT ![u] = @ \o PlanEntries(seen, plan)]
    /\ exists' = exists \cup {u}
    /\ raced' = IF session[s].at = Len(ledger[u]) THEN raced ELSE [raced EXCEPT ![u] = @ + 1]
    /\ End(s)

\* An error in the caller's own statements, a lost connection, a killed worker.
Rollback(s) == ~In(s, "idle") /\ Abort(s)

Begin(s) == \E u \in Users, plan \in Plans : Read(s, u, plan)

Next ==
    \E s \in Sessions :
        \/ Begin(s)
        \/ InsertRow(s)
        \/ InsertConflict(s)
        \/ Refuse(s)
        \/ Flush(s)
        \/ Commit(s)
        \/ Rollback(s)

Spec == Init /\ [][Next]_vars

-----------------------------------------------------------------------------
(* A session that has begun goes on.  PostgreSQL queues the waiters of a   *)
(* row lock, so one that asks again and again is served.                   *)

Fairness ==
    \A s \in Sessions :
        /\ SF_vars(InsertRow(s))
        /\ WF_vars(InsertConflict(s))
        /\ WF_vars(Refuse(s))
        /\ SF_vars(Flush(s))
        /\ WF_vars(In(s, "flushed") /\ (Commit(s) \/ Rollback(s)))

FairSpec == Spec /\ Fairness

-----------------------------------------------------------------------------
(* Properties.                                                             *)

WL == INSTANCE WalletLedger

\* The stored row of every user is what replaying the ledger gives: the
\* promise of WalletLedger, which racing sessions break
\* (tests/test_ledger_invariants.py:59).
StoredMatchesLedger == WL!StoredMatchesLedger

\* What is left of it: it holds for every user none of whose transactions was
\* computed from a row another one had changed since.
UnracedMatchLedger ==
    \A u \in Users :
        raced[u] = 0 => WL!Chained(ledger[u]) /\ row[u] = WL!Replayed(ledger[u])

\* Whether or not sessions race, a column holds what the last ledger entry
\* that changed it says: an update can be lost, never half applied or applied
\* without its entry.
ColumnsFollowLedger ==
    \A u \in Users, c \in {"balance", "reserved"} :
        LET changed == {i \in DOMAIN ledger[u] : ledger[u][i].before[c] # ledger[u][i].after[c]}
        IN  row[u][c] = IF changed = {} THEN 0
                        ELSE ledger[u][CHOOSE i \in changed : \A j \in changed : j <= i].after[c]

\* A commit that no other one raced is a transaction of WalletLedger, and
\* nothing else changes a row or a ledger.
UnracedCommitsAreSerial == [][raced' = raced => WL!Next]_<<row, ledger>>

\* No transaction waits for ever, for a lock or for its turn to insert the row.
EveryTransactionEnds == \A s \in Sessions : ~In(s, "idle") ~> In(s, "idle")
=============================================================================
