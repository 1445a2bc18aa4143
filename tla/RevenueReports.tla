----------------------------- MODULE RevenueReports -----------------------------
(***************************************************************************)
(* The daily revenue reports (app/services/revenue_report_service.py) of   *)
(* the bets of module Bets: what the house has won, by type and day of the *)
(* entries in the ledger.  An entry bears the time at which its            *)
(* transaction began, and becomes visible when it commits; so a day can    *)
(* still grow after it has ended.                                          *)
(*                                                                         *)
(* An administrator computes and stores the report of a day, any number of *)
(* times; lists show the stored report of a day and compute the others.  The *)
(* match has no result here: one would only forbid steps.                  *)
(***************************************************************************)
EXTENDS Bets

CONSTANTS
    LastDay,        \* the days are 1 .. LastDay
    Reporters,      \* the requests that compute reports
    Asked,          \* bound: the days they ask for
    MaxReports      \* bound on the reports that are computed

\* The amounts of a report, and a row of daily_revenue_reports; clean is history of
\* the last write, see Store.
Data == [staked : Int, losing : Int, profit : Int, ggr : Int]

StoredReport == [data : Data, clean : BOOLEAN]

\* No bet is placed at odds below 1.01.
ASSUME ReportsAssumption ==
    /\ LastDay \in Nat \ {0} /\ MaxReports \in Nat /\ Asked \subseteq 1 .. LastDay
    /\ None \notin Nat \cup StoredReport
    /\ \A b \in B : Payout[b] >= Stake[b]

VARIABLES
    today,
    began,      \* began[s]: the day the transaction of session s began, or None
    days,       \* days[b]: the days of the entries of b
    stored,     \* stored[d]: the report of day d in daily_revenue_reports, or None
    reporter,   \* reporter[r]: where request r stands
    computed    \* history: the number of computations

reportVars == <<stored, reporter, computed>>
allVars == <<vars, today, began, days, reportVars>>

Days == 1 .. LastDay

ReportInit ==
    /\ Init
    /\ today = 1
    /\ began = [s \in Sessions |-> None]
    /\ days = [b \in B |-> <<>>]
    /\ stored = [d \in Days |-> None]
    /\ reporter = [r \in Reporters |-> Idle]
    /\ computed = 0

-----------------------------------------------------------------------------
(* What a report says.                                                     *)

AmountOf(b, type) == IF type = "BET_WIN_PAYOUT_CREDIT" THEN Payout[b] ELSE Stake[b]

\* The entries of a type from day `from` to day `to`, ends included.
Found(type, from, to) ==
    {e \in B \X (1 .. 3) :
        /\ e[2] \in DOMAIN entries[e[1]]
        /\ entries[e[1]][e[2]] = type
        /\ days[e[1]][e[2]] \in from .. to}

Total(type, from, to) ==
    LET found == Found(type, from, to) IN Sum([e \in found |-> AmountOf(e[1], type)], found)

\* What was paid to the winners beyond their stakes; never less than nothing.
Profit(from, to) ==
    LET paid  == Total("BET_WIN_PAYOUT_CREDIT", from, to)
        stake == Total("BET_WIN_DEDUCT_STAKE", from, to)
    IN  IF paid < stake THEN 0 ELSE paid - stake

Compute(from, to) ==
    LET losing == Total("BET_LOSS_DEDUCT", from, to)  profit == Profit(from, to) IN
    [staked |-> Total("BET_LOCK", from, to), losing |-> losing, profit |-> profit, ggr |-> losing - profit]

\* A line of the list.
Listed(d) == IF stored[d] # None THEN stored[d].data ELSE Compute(d, d)

-----------------------------------------------------------------------------
(* The requests that bet.                                                  *)

\* A request's transaction begins with the lookup of its user.
Open(s) ==
    /\ In(s, "idle") /\ began[s] = None
    /\ began' = [began EXCEPT ![s] = today]
    /\ UNCHANGED <<vars, today, days, reportVars>>

Ended(s) == began' = [began EXCEPT ![s] = None]

\* The request is refused before it has done anything.
Close(s) ==
    /\ In(s, "idle") /\ began[s] # None
    /\ Ended(s)
    /\ UNCHANGED <<vars, today, days, reportVars>>

Working(s) ==
    /\ began[s] # None
    /\ Request(s) \/ ReadWallet(s) \/ Flush(s)
    /\ UNCHANGED <<today, began, days, reportVars>>

Failing(s) ==
    /\ Refuse(s) \/ Rollback(s)
    /\ Ended(s)
    /\ UNCHANGED <<today, days, reportVars>>

\* Mutant: every entry bears the time at which it is written.
MutantStamp(s, types) == [i \in DOMAIN types |-> IF i = 1 THEN began[s] ELSE today]

Stamp(s, types) == [i \in DOMAIN types |-> began[s]]

Booking(s) ==
    LET b == session[s].b IN
    /\ Commit(s)
    /\ days' = [days EXCEPT ![b] = @ \o Stamp(s, TypesOf(session[s].to))]
    /\ Ended(s)
    /\ UNCHANGED <<today, reportVars>>

Midnight ==
    /\ today < LastDay
    /\ today' = today + 1
    /\ UNCHANGED <<vars, began, days, reportVars>>

-----------------------------------------------------------------------------
(* The requests that report; one that fails takes no further step.         *)

Is(r, phase) == reporter[r].phase = phase

\* Has the day ended, with nothing of it still to commit?
Complete(d) == d < today /\ \A s \in Sessions : began[s] # d

ComputeForDate(r, d) ==
    /\ Is(r, "idle") /\ computed < MaxReports
    /\ computed' = computed + 1
    /\ reporter' = [reporter EXCEPT ![r] =
          [phase |-> "computed", day |-> d, data |-> Compute(d, d), complete |-> Complete(d)]]
    /\ UNCHANGED <<vars, today, began, days, stored>>

\* The lookup of the report there is.
Look(r) ==
    LET q == reporter[r] IN
    /\ Is(r, "computed")
    /\ reporter' = [reporter EXCEPT ![r] =
          [phase |-> "looked", day |-> q.day, data |-> q.data, complete |-> q.complete, seen |-> stored[q.day]]]
    /\ UNCHANGED <<vars, today, began, days, stored, computed>>

\* Mutant: an update forgets the losing stakes.
MutantMerged(old, seen, data) == [data EXCEPT !.losing = old.losing]

\* The UPDATE names the columns that differ from what was seen.
Merged(old, seen, data) ==
    [c \in DOMAIN data |-> IF data[c] = seen[c] THEN old[c] ELSE data[c]]

\* The unique index on day and asset refuses a second row; otherwise the report is
\* inserted or updated, and committed, however old the computation is by now.
\* clean: it was one of the complete day, written over the row it had seen or over
\* a clean one.
Store(r) ==
    LET q == reporter[r]  old == stored[q.day] IN
    /\ Is(r, "looked")
    /\ reporter' = [reporter EXCEPT ![r] = Idle]
    /\ stored' =
          IF q.seen # None
          THEN [stored EXCEPT ![q.day] =
                  [data |-> Merged(old.data, q.seen.data, q.data),
                   clean |-> q.complete /\ (old = q.seen \/ old.clean)]]
          ELSE IF old = None
          THEN [stored EXCEPT ![q.day] = [data |-> q.data, clean |-> q.complete]]
          ELSE stored
    /\ UNCHANGED <<vars, today, began, days, computed>>

ReportNext ==
    \/ \E s \in Sessions : Open(s) \/ Close(s) \/ Working(s) \/ Failing(s) \/ Booking(s)
    \/ Midnight
    \/ \E r \in Reporters :
          \/ \E d \in Asked : d <= today /\ ComputeForDate(r, d)
          \/ Look(r) \/ Store(r)

ReportSpec == ReportInit /\ [][ReportNext]_allVars

-----------------------------------------------------------------------------
(* Properties.                                                             *)

Exact(d) == stored[d] # None /\ stored[d].data = Compute(d, d)

\* The step in which request r stores, or is refused to store, the report of day d.
Stores(r, d) == Is(r, "looked") /\ reporter[r].day = d /\ reporter'[r] = Idle

\* Another request has inserted or changed the report since r looked for it.
Overtaken(r) ==
    LET q == reporter[r] IN
    stored[q.day] # None /\ (q.seen = None \/ stored[q.day].data # q.seen.data)

\* What a step does to the report of a complete day.
Reported(d) ==
    /\ \A b \in B : \A i \in DOMAIN days'[b] \ DOMAIN days[b] : days'[b][i] # d
    /\ stored'[d] # stored[d] /\ Exact(d) /\ ~Exact(d)' =>
          \E r \in Reporters : Stores(r, d) /\ ~reporter[r].complete
    /\ \A r \in Reporters : Stores(r, d) /\ reporter[r].complete =>
          Exact(d)' \/ (~Exact(d) /\ Overtaken(r))

\* A complete day gets no more entries.  From then on its stored report stops being
\* exact only when a request stores what it computed before; and one that computed
\* the complete day leaves it exact, unless another has meanwhile stored amounts that
\* are not.  (Both exceptions occur: an older computation overwrites an exact report,
\* and an update names only the columns that differ from what it saw.)
CompleteDaysReported ==
    [][\A d \in Days : Complete(d) => Reported(d)]_allVars

\* What the house has won, by the days of a list as by its summary, is what the
\* user has lost, unless updates of the wallet were lost or the last write of a stored
\* report was too early or mixed with such a one.  Each day counts a negative profit
\* as none, which is right because stake and payout of a bet are of one day.
UnracedRevenueIsTheirLoss ==
    raced = 0 /\ (\A d \in Days : stored[d] = None \/ stored[d].clean) =>
        LET lost == Funds - (wallet.balance + wallet.reserved) IN
        /\ Compute(1, LastDay).ggr = lost
        /\ Sum([d \in Days |-> Listed(d).ggr], Days) = lost
=============================================================================
