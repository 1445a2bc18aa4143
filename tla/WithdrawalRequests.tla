--------------------------- MODULE WithdrawalRequests ---------------------------
(***************************************************************************)
(* POST /withdrawals/initiate for one user: the rate limiter, the lookup   *)
(* of the client's request id, the balance and the daily limit, the row    *)
(* and the lock on the funds in one transaction, and the daily counter in  *)
(* another.  The client sends a request again until it is answered, also   *)
(* while an earlier copy is still being served.                            *)
(*                                                                         *)
(* Nothing is read FOR UPDATE: a session writes the balance and the counter *)
(* that it has computed from its last read of them.                        *)
(***************************************************************************)
EXTENDS RateLimiter, FiniteSets

CONSTANTS
    Ids,            \* the values of client_request_id
    Amount,         \* Amount[r]: what request r withdraws
    Sessions,       \* the requests that are served at the same time
    Balances,       \* what the user may have available at the beginning
    MaxDaily,       \* MAX_WITHDRAWAL_DAILY_USD
    InitiateLimit,  \* max_requests of withdraw_initiate
    ReadLimit,      \* max_requests of api_read
    Days,           \* bound: the days are 1 .. Days
    MaxOthers,      \* bound on the user's other requests
    MaxFailures,    \* bound on failures and lost answers
    None

ASSUME RequestsAssumption ==
    /\ IsFiniteSet(Ids) /\ IsFiniteSet(Sessions)
    /\ Amount \in [Ids -> Nat \ {0}]
    /\ Balances \subseteq Nat
    /\ {MaxDaily, InitiateLimit, ReadLimit, MaxOthers, MaxFailures} \subseteq Nat
    /\ Days \in Nat \ {0} /\ None \notin Nat

VARIABLES
    hits,               \* the window of the rate limiter
    available, locked,  \* columns of user_crypto_balances
    created,            \* created[r]: the withdrawals stored for request r
    counter,            \* counter[d]: withdrawals_amount_usd of day d, None without a row
    today,
    work,               \* work[s]: where session s stands, and what it has read
    answer,             \* answer[r]: what the client has been told
    others, failures,   \* history: the numbers of other requests and of failures
    funded,             \* history: the available balance at the beginning
    createdOn,          \* history: what was requested on each day
    overlapped,         \* history: two sessions were between check and counter
    lost                \* history: a balance or a count was overwritten or left out

windowVars == <<hits, others>>
walletVars == <<available, locked>>
pastVars == <<funded, createdOn, overlapped, lost>>
vars == <<hits, available, locked, created, counter, today, work, answer, others, failures,
          funded, createdOn, overlapped, lost>>

DaysUsed == 1 .. Days

\* inserted, locking: the row of the withdrawal is in an open transaction.
\* Behind the commit the withdrawal exists and is not yet counted.
Uncounted == {"count", "countNew", "write"}
Stored == {"inserted", "locking"}
Underway == {"check", "checkNew", "insert"} \cup Stored \cup Uncounted

Idle == [at |-> "idle"]
Active == [at : {"lookup", "funds"} \cup Underway, r : Ids,
           available : Nat, locked : Nat, day : Nat, used : Nat]

TypeOK ==
    /\ hits \in [Ages -> Nat]
    /\ available \in Nat /\ locked \in Nat
    /\ created \in [Ids -> Nat]
    /\ counter \in [DaysUsed -> Nat \cup {None}]
    /\ today \in DaysUsed
    /\ work \in [Sessions -> Active \cup {Idle}]
    /\ answer \in [Ids -> {"none", "created", "refused"}]
    /\ others \in 0 .. MaxOthers /\ failures \in 0 .. MaxFailures
    /\ funded \in Balances
    /\ createdOn \in [DaysUsed -> Nat]
    /\ overlapped \in BOOLEAN /\ lost \subseteq {"funds", "count"}

Init ==
    /\ hits = NoHits
    /\ funded \in Balances
    /\ available = funded /\ locked = 0
    /\ created = [r \in Ids |-> 0]
    /\ counter = [d \in DaysUsed |-> None]
    /\ today = 1
    /\ work = [s \in Sessions |-> Idle]
    /\ answer = [r \in Ids |-> "none"]
    /\ others = 0 /\ failures = 0
    /\ createdOn = [d \in DaysUsed |-> 0]
    /\ overlapped = FALSE /\ lost = {}

-----------------------------------------------------------------------------
At(s, label) == work[s].at = label
Wanted(s) == Amount[work[s].r]
Goto(s, label) == work' = [work EXCEPT ![s].at = label]
End(s) == work' = [work EXCEPT ![s] = Idle]

\* The answer reaches the client, or is lost on the way.
Answer(s, what) ==
    /\ End(s)
    /\ \/ answer' = [answer EXCEPT ![work[s].r] = what] /\ UNCHANGED failures
       \/ failures < MaxFailures /\ failures' = failures + 1 /\ UNCHANGED answer

\* The session ends without an answer that the client accepts.
Drop(s) ==
    /\ End(s)
    /\ lost' = IF work[s].at \in Uncounted THEN lost \cup {"count"} ELSE lost
    /\ UNCHANGED <<windowVars, walletVars, created, counter, today, answer, funded, createdOn, overlapped>>

-----------------------------------------------------------------------------
(* The rate limiter, and the clock.                                        *)

\* The first request for r, or one more attempt.
Send(s, r) ==
    /\ At(s, "idle") /\ answer[r] = "none"
    /\ Allowed(hits, InitiateLimit)
    /\ hits' = Hit(hits)
    /\ work' = [work EXCEPT ![s] = [at |-> "lookup", r |-> r, available |-> 0, locked |-> 0,
                                    day |-> 0, used |-> 0]]
    /\ UNCHANGED <<walletVars, created, counter, today, answer, others, failures, pastVars>>

\* Another request of the same address that is let through: a read, or an
\* initiate with an Idempotency-Key, which raises before it looks at anything.
Other(limit) ==
    /\ others < MaxOthers
    /\ Allowed(hits, limit)
    /\ hits' = Hit(hits) /\ others' = others + 1
    /\ UNCHANGED <<walletVars, created, counter, today, work, answer, failures, pastVars>>

Read == Other(ReadLimit)
InitiateWithKey == Other(InitiateLimit)

Tick ==
    /\ hits # NoHits
    /\ hits' = Older(hits)
    /\ UNCHANGED <<walletVars, created, counter, today, work, answer, others, failures, pastVars>>

Midnight ==
    /\ today < Days
    /\ today' = today + 1
    /\ UNCHANGED <<windowVars, walletVars, created, counter, work, answer, failures, pastVars>>

-----------------------------------------------------------------------------
(* The checks.                                                             *)

\* Mutant: the request id is not looked up.
MutantLookupNone(s) ==
    /\ At(s, "lookup")
    /\ Goto(s, "funds")
    /\ UNCHANGED <<answer, failures, windowVars, walletVars, created, counter, today, pastVars>>

Lookup(s) ==
    /\ At(s, "lookup")
    /\ IF created[work[s].r] > 0 THEN Answer(s, "created")
       ELSE Goto(s, "funds") /\ UNCHANGED <<answer, failures>>
    /\ UNCHANGED <<windowVars, walletVars, created, counter, today, pastVars>>

ReadFunds(s) ==
    /\ At(s, "funds")
    /\ IF Wanted(s) > available
       THEN Answer(s, "refused") /\ UNCHANGED overlapped
       ELSE /\ work' = [work EXCEPT ![s].at = "check"]
            /\ overlapped' = (overlapped \/ \E t \in Sessions \ {s} : work[t].at \in Underway)
            /\ UNCHANGED <<answer, failures>>
    /\ UNCHANGED <<windowVars, walletVars, created, counter, today, funded, createdOn, lost>>

\* Mutant: the check compares what is used, without the new amount.
MutantFindRow(s) ==
    LET day == IF work[s].day = 0 THEN today ELSE work[s].day
        row == counter[day]
        new == IF At(s, "check") THEN "checkNew" ELSE "countNew"
    IN  /\ work[s].at \in {"check", "count"}
        /\ \/ /\ row = None
              /\ work' = [work EXCEPT ![s] = [@ EXCEPT !.at = new, !.day = day]]
           \/ /\ row # None /\ At(s, "check") /\ row <= MaxDaily
              /\ work' = [work EXCEPT ![s] = [@ EXCEPT !.at = "insert", !.day = 0]]
           \/ /\ row # None /\ At(s, "count")
              /\ work' = [work EXCEPT ![s] = [@ EXCEPT !.at = "write", !.day = day, !.used = row]]
        /\ UNCHANGED <<windowVars, walletVars, created, counter, today, answer, failures, pastVars>>

\* The row of the day, read for the check and again for the counter, which may
\* be another day's.
FindRow(s) ==
    LET day == IF work[s].day = 0 THEN today ELSE work[s].day
        row == counter[day]
        new == IF At(s, "check") THEN "checkNew" ELSE "countNew"
    IN  /\ work[s].at \in {"check", "count"}
        /\ \/ /\ row = None
              /\ work' = [work EXCEPT ![s] = [@ EXCEPT !.at = new, !.day = day]]
              /\ UNCHANGED <<answer, failures>>
           \/ /\ row # None /\ At(s, "check") /\ row + Wanted(s) <= MaxDaily
              /\ work' = [work EXCEPT ![s] = [@ EXCEPT !.at = "insert", !.day = 0]]
              /\ UNCHANGED <<answer, failures>>
           \/ /\ row # None /\ At(s, "check") /\ row + Wanted(s) > MaxDaily
              /\ Answer(s, "refused")
           \/ /\ row # None /\ At(s, "count")
              /\ work' = [work EXCEPT ![s] = [@ EXCEPT !.at = "write", !.day = day, !.used = row]]
              /\ UNCHANGED <<answer, failures>>
        /\ UNCHANGED <<windowVars, walletVars, created, counter, today, pastVars>>

\* A day has one row: the second insert raises.
OpenRow(s) ==
    /\ work[s].at \in {"checkNew", "countNew"}
    /\ IF counter[work[s].day] = None
       THEN /\ counter' = [counter EXCEPT ![work[s].day] = 0]
            /\ Goto(s, IF At(s, "checkNew") THEN "check" ELSE "count")
            /\ UNCHANGED <<windowVars, walletVars, created, today, answer, pastVars>>
       ELSE Drop(s)
    /\ UNCHANGED failures

-----------------------------------------------------------------------------
(* The withdrawal, its funds and the counter.                              *)

\* Mutant: client_request_id is indexed but not unique.
MutantInsert(s) ==
    /\ At(s, "insert") /\ Goto(s, "inserted")
    /\ UNCHANGED <<windowVars, walletVars, created, counter, today, answer, failures, pastVars>>

\* The unique key on user and client_request_id: an insert waits for one that is
\* not committed, and raises after one that is.
Insert(s) ==
    /\ At(s, "insert")
    /\ \A t \in Sessions : work[t].at \in Stored => work[t].r # work[s].r
    /\ IF created[work[s].r] > 0 THEN Drop(s)
       ELSE /\ Goto(s, "inserted")
            /\ UNCHANGED <<windowVars, walletVars, created, counter, today, answer, pastVars>>
    /\ UNCHANGED failures

\* lock_balance reads the row again; without funds the withdrawal is rolled back.
ReadLock(s) ==
    /\ At(s, "inserted")
    /\ IF Wanted(s) > available
       THEN Answer(s, "refused")
       ELSE /\ work' = [work EXCEPT ![s] = [@ EXCEPT !.at = "locking", !.available = available,
                                                    !.locked = locked]]
            /\ UNCHANGED <<answer, failures>>
    /\ UNCHANGED <<windowVars, walletVars, created, counter, today, pastVars>>

\* Mutant: only the reservation is added to in the database.
MutantCommit(s) ==
    /\ At(s, "locking")
    /\ available' = work[s].available - Wanted(s)
    /\ locked' = locked + Wanted(s)
    /\ created' = [created EXCEPT ![work[s].r] = @ + 1]
    /\ createdOn' = [createdOn EXCEPT ![today] = @ + Wanted(s)]
    /\ Goto(s, "count")
    /\ UNCHANGED <<windowVars, counter, today, answer, failures, funded, overlapped, lost>>

Commit(s) ==
    /\ At(s, "locking")
    /\ available' = work[s].available - Wanted(s)
    /\ locked' = work[s].locked + Wanted(s)
    /\ created' = [created EXCEPT ![work[s].r] = @ + 1]
    /\ createdOn' = [createdOn EXCEPT ![today] = @ + Wanted(s)]
    /\ lost' = IF locked = work[s].locked THEN lost ELSE lost \cup {"funds"}
    /\ work' = [work EXCEPT ![s] = [@ EXCEPT !.at = "count", !.available = 0, !.locked = 0]]
    /\ UNCHANGED <<windowVars, counter, today, answer, failures, funded, overlapped>>

Count(s) ==
    /\ At(s, "write")
    /\ counter' = [counter EXCEPT ![work[s].day] = work[s].used + Wanted(s)]
    /\ lost' = IF counter[work[s].day] = work[s].used THEN lost ELSE lost \cup {"count"}
    /\ Answer(s, "created")
    /\ UNCHANGED <<windowVars, walletVars, created, today, funded, createdOn, overlapped>>

\* The database fails one session.
Fail(s) ==
    /\ ~At(s, "idle") /\ failures < MaxFailures
    /\ failures' = failures + 1
    /\ Drop(s)

\* The process dies, and the window with it.
Restart ==
    /\ failures < MaxFailures
    /\ failures' = failures + 1
    /\ hits' = NoHits
    /\ work' = [s \in Sessions |-> Idle]
    /\ lost' = IF \E s \in Sessions : work[s].at \in Uncounted THEN lost \cup {"count"} ELSE lost
    /\ UNCHANGED <<walletVars, created, counter, today, answer, others, funded, createdOn, overlapped>>

-----------------------------------------------------------------------------
Serve(s) ==
    \/ Lookup(s) \/ ReadFunds(s) \/ FindRow(s) \/ OpenRow(s)
    \/ Insert(s) \/ ReadLock(s) \/ Commit(s) \/ Count(s)

Next ==
    \/ \E s \in Sessions : Serve(s) \/ Fail(s) \/ \E r \in Ids : Send(s, r)
    \/ Read \/ InitiateWithKey \/ Tick \/ Midnight \/ Restart

\* A request that is being served goes on, time passes, and the client repeats a
\* request until it has an answer.
Fairness ==
    /\ \A s \in Sessions : WF_vars(Serve(s))
    /\ \A r \in Ids : WF_vars(\E s \in Sessions : Send(s, r))
    /\ WF_vars(Tick)

Spec == Init /\ [][Next]_vars /\ Fairness

-----------------------------------------------------------------------------
(* Properties.                                                             *)

CountOf(d) == IF counter[d] = None THEN 0 ELSE counter[d]

Requested == SumFunction([r \in Ids |-> created[r] * Amount[r]])
Counted == SumFunction([d \in DaysUsed |-> CountOf(d)])

\* A request id has at most one withdrawal, however often and however quickly
\* its client repeats it: the lookup alone does not ensure it, the unique key does.
OneWithdrawalPerId == \A r \in Ids : created[r] <= 1

\* Overlapping requests write the balance they have read.  They never make or
\* lose money, and never hold more than what was requested; exactly that
\* much is held unless one of them has overwritten another.
FundsFollowWithdrawals ==
    /\ available + locked = funded
    /\ locked <= Requested
    /\ "funds" \notin lost => locked = Requested

\* A withdrawal is never counted twice, not even when its client repeats it after
\* a lost answer; once all is quiet each is counted unless a count was lost with its
\* session or overwritten.  What is requested on a day stays within the daily limit,
\* over midnight too, unless requests overlapped or a count was lost.
LimitKept ==
    /\ Counted <= Requested
    /\ "count" \notin lost /\ (\A s \in Sessions : At(s, "idle")) => Counted = Requested
    /\ ~overlapped /\ "count" \notin lost => \A d \in DaysUsed : createdOn[d] <= MaxDaily

\* A client that repeats its request is told in the end whether it has its
\* withdrawal, through rate limits, failures and conflicts with its own copies.
Answered == <>(\A r \in Ids : answer[r] # "none")
=============================================================================
