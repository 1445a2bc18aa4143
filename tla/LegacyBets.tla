------------------------------- MODULE LegacyBets -------------------------------
(***************************************************************************)
(* Bets on funds_usd and the five ways to settle them: the owner's betting *)
(* records and his transactions, which settle his bets before they list    *)
(* them; settle-finished-matches and settle-specific-match; and            *)
(* settle-all-finished, which a timer also runs every day.  They differ in *)
(* which bets and results they accept, in when they read the balance, and  *)
(* in what they commit.  The scraper writes the results.                   *)
(*                                                                         *)
(* Every bet is a bet on the home team in the match of odds row Row, at    *)
(* odds that pay Win for a stake of 1.                                     *)
(***************************************************************************)
EXTENDS LegacyFunds

CONSTANTS
    Row, Other,     \* two rows of the table odds, with the same two teams
    Daily,          \* the session of the daily job
    Win,            \* what a won bet pays
    Referred        \* an affiliate referred the user

ASSUME LegacyBetsAssumption ==
    /\ Row # Other /\ None \notin {Row, Other}
    /\ Daily \in Sessions
    /\ Win \in Nat \ {0} /\ Referred \in BOOLEAN

O == {Row, Other}

VARIABLES
    bet,                \* bet[b]: bet_status
    linked,             \* the bets recorded with the match_id of their row
    ends,               \* ends[b]: the numbers of transactions bet_won and bet_lost
    present, result,    \* the rows of the table odds
    played,             \* the rows whose date and time have passed
    twin,               \* Other is the match of Row, listed under another date
    paid,               \* history: how often the winnings of b were added
    contested           \* history: the bets that two settlements had on their lists

betVars == <<bet, linked, ends, paid, contested>>
oddsVars == <<present, result, played, twin>>
vars == <<fundsVars, work, requests, betVars, oddsVars>>

Results == {"none", "home", "away", "garbage"}

\* _is_valid_football_result: a score up to 15; garbage is a higher one.
Valid(r) == r \in {"home", "away"}

\* Garbage such as 18-17 is a home win to those who do not check.
Outcome(r) == IF r = "away" THEN "lost" ELSE "won"

OwnRoutes == {"records", "transactions"}
BulkRoutes == {"finished", "specific", "all"}

NoEnds == [b \in B |-> [won |-> 0, lost |-> 0]]

\* list: the bets are read next.  settling: todo is what is left of the list, a
\* bet with the row and the result it was found with; rows, what is left of the
\* rows.  base is the balance the session last shared with the database, seen
\* the balance in its user object; done, new and gain are not yet committed.
Settling ==
    [at : {"list", "settling", "commission", "reverting"}, route : OwnRoutes \cup BulkRoutes \cup {"revert"},
     seen : Int \cup {None}, base : Int \cup {None},
     rows : SUBSET (O \X Results), todo : SUBSET (B \X O \X Results),
     done : [B -> {"none", "won", "lost"}],
     new : [B -> [won : Nat, lost : Nat]], gain : [B -> Nat]]

TypeOK ==
    /\ FundsTypeOK
    /\ work \in [Sessions -> Active \cup Settling \cup {Idle}]
    /\ bet \in [B -> {"none", "pending", "won", "lost"}]
    /\ linked \subseteq B /\ contested \subseteq B
    /\ ends \in [B -> [won : Nat, lost : Nat]]
    /\ present \subseteq O /\ played \subseteq O
    /\ result \in [O -> Results] /\ \A o \in O \ present : result[o] = "none"
    /\ twin \in BOOLEAN
    /\ paid \in [B -> Int]

\* The user has deposited enough for the bets he has placed already, and Opening
\* is left.  Other is either the row of an earlier season, with a result, perhaps
\* garbage that an earlier scraper stored, or it is the same match listed twice.
\* Two settlements may have been cut off after the commission on a lost bet.
Init ==
    /\ FundsInit
    /\ staked \in SUBSET B
    /\ funds = Opening /\ net = Opening
    /\ bet = [b \in B |-> IF b \in staked THEN "pending" ELSE "none"]
    /\ linked \in SUBSET B
    /\ twin \in BOOLEAN
    /\ present = IF twin THEN {Row} ELSE O
    /\ \/ /\ ends = NoEnds
          /\ played = IF twin THEN {} ELSE {Other}
          /\ \E r \in {"away", "garbage"} :
                result = [o \in O |-> IF o \in present \ {Row} THEN r ELSE "none"]
       \/ /\ Referred /\ twin
          /\ ends = [b \in B |-> [won |-> 0, lost |-> IF b \in staked THEN 2 ELSE 0]]
          /\ played = O
          /\ result = [o \in O |-> IF o = Row THEN "away" ELSE "none"]
    /\ paid = [b \in B |-> 0]
    /\ contested = {}

-----------------------------------------------------------------------------
(* The table odds (dataanalytics/get_real_odds_oddsportal.py).             *)

KickOff(o) ==
    /\ o \notin played
    /\ played' = IF twin THEN O ELSE played \cup {o}
    /\ UNCHANGED <<fundsVars, work, requests, betVars, present, result, twin>>

\* The scraper reads o with result r, rightly; or it takes a time such as 3:15 for
\* the score of a match still to come, or another score than it stored before.
Read(o, r) ==
    IF r = "none" \/ (o \in played /\ result[o] = "none")
    THEN UNCHANGED failures
    ELSE failures < MaxFailures /\ failures' = failures + 1

\* insert_rows, for the latest season: an existing row keeps its result if none
\* was read; a new one is skipped if the teams have a row at most two days away,
\* unless only the new one has a result.
Scrape(o, r) ==
    LET near == present \ {o} IN
    /\ twin \/ o = Row
    /\ Read(o, r)
    /\ \/ o \in present /\ r \notin {"none", result[o]} /\ UNCHANGED present
       \/ /\ o \notin present
          /\ near = {} \/ (r # "none" /\ \A n \in near : result[n] = "none")
          /\ present' = present \cup {o}
    /\ result' = [result EXCEPT ![o] = r]
    /\ UNCHANGED <<funds, net, lock, unbooked, staked, overwritten, adjusted,
                   work, requests, betVars, played, twin>>

\* scripts/clear_invalid_odds_results.py
ClearInvalid(o) ==
    /\ result[o] = "garbage"
    /\ result' = [result EXCEPT ![o] = "none"]
    /\ UNCHANGED <<fundsVars, work, requests, betVars, present, played, twin>>
-----------------------------------------------------------------------------
\* Mutant: the record of a bet deducts the stake as well.
MutantCreateRecord(b) ==
    /\ bet[b] = "none" /\ b \in staked /\ lock = None
    /\ bet' = [bet EXCEPT ![b] = "pending"]
    /\ net' = net - 1 /\ funds' = funds - 1
    /\ UNCHANGED <<lock, unbooked, staked, failures, overwritten, adjusted,
                   work, requests, linked, ends, paid, contested, oddsVars>>

\* create_betting_record, which the client sends after the stake was deducted:
\* the transaction of the stake comes with it, the balance is left alone.
CreateRecord(b) ==
    /\ bet[b] = "none" /\ b \in staked
    /\ bet' = [bet EXCEPT ![b] = "pending"]
    /\ net' = net - 1
    /\ UNCHANGED <<funds, lock, unbooked, staked, failures, overwritten, adjusted,
                   work, requests, linked, ends, paid, contested, oddsVars>>
-----------------------------------------------------------------------------
(* Settlement.                                                             *)

Fresh(route, seen) ==
    [at |-> "list", route |-> route, seen |-> seen, base |-> seen, rows |-> {}, todo |-> {},
     done |-> [b \in B |-> "none"], new |-> NoEnds, gain |-> [b \in B |-> 0]]

Start(p, w) ==
    /\ work' = [work EXCEPT ![p] = w]
    /\ UNCHANGED <<fundsVars, betVars, oddsVars>>

\* GET /betting/records, its statistics, and GET /transactions: the owner is
\* loaded with the request.
BeginOwn(p, route) == Begin(p) /\ Start(p, Fresh(route, funds))

\* A bulk settlement is asked for by the owner or by somebody else.
BeginBulk(p, route) == Begin(p) /\ \E seen \in {funds, None} : Start(p, Fresh(route, seen))

\* run_settle_all_finished asks for no user; it reads the rows once and the bets
\* row by row.
All == [Fresh("all", None) EXCEPT
            !.at = "settling",
            !.rows = {<<o, result[o]>> : o \in {o \in present : Valid(result[o])}}]

BeginAll(p) == Begin(p) /\ Start(p, All)

RunDaily == work[Daily] = Idle /\ Start(Daily, All) /\ UNCHANGED requests

Pending == {b \in B : bet[b] = "pending"}

\* The bets that session q works on.
Listed(q) ==
    IF work[q].at \in {"settling", "commission", "reverting"}
    THEN {t[1] : t \in work[q].todo} \cup {b \in B : work[q].done[b] # "none"}
    ELSE {}

\* A list has been read: who else has its bets, and which of them has it twice.
Contest(p, todo) ==
    contested' = contested \cup
        {b \in B : /\ \E t \in todo : t[1] = b
                   /\ \/ \E q \in Sessions \ {p} : b \in Listed(q)
                      \/ Cardinality({t \in todo : t[1] = b}) > 1}

Accept(p, todo) ==
    /\ work' = [work EXCEPT ![p].at = "settling", ![p].todo = todo]
    /\ Contest(p, todo)
    /\ UNCHANGED <<fundsVars, requests, bet, linked, ends, paid, oddsVars>>

\* The match an own route finds: by match_id, or by the names of the teams if
\* only one row has them; two make scalar_one_or_none raise, which is ignored.
Found(b) ==
    IF b \in linked THEN {Row} ELSE IF Cardinality(present) = 1 THEN present ELSE {}

ListOwn(p) ==
    /\ work[p].at = "list" /\ work[p].route \in OwnRoutes
    /\ Accept(p, UNION {{<<b, o, "none">> : o \in Found(b)} : b \in Pending})

\* The join of settle_finished_matches and of settle_specific_match.
Joins(b, o) == b \notin linked \/ o = Row

WithResult == {o \in present : result[o] # "none"}

ListJoined(p, rows) ==
    Accept(p, {t \in {<<b, o, result[o]>> : b \in Pending, o \in rows} : Joins(t[1], t[2])})

ListFinished(p) ==
    /\ work[p].at = "list" /\ work[p].route = "finished"
    /\ ListJoined(p, WithResult)

ListSpecific(p) ==
    /\ work[p].at = "list" /\ work[p].route = "specific"
    /\ \E o \in WithResult : ListJoined(p, {o})

Dirty(w) == w.seen # w.base

\* The update of the user waits for the row; so do those who must flush it.
MayFlush(p) == ~Dirty(work[p]) \/ lock \in {None, p}

Held(p) == IF Dirty(work[p]) THEN p ELSE lock

\* Mutant: the bets settled for an earlier row are not flushed before the query.
MutantListRow(p) ==
    /\ work[p].at = "settling" /\ work[p].todo = {} /\ MayFlush(p)
    /\ \E row \in work[p].rows :
          LET todo == {<<b, row[1], row[2]>> : b \in Pending} IN
          /\ work' = [work EXCEPT ![p].rows = @ \ {row}, ![p].todo = todo]
          /\ Contest(p, todo)
    /\ lock' = Held(p)
    /\ UNCHANGED <<funds, net, unbooked, staked, requests, failures, overwritten, adjusted,
                   bet, linked, ends, paid, oddsVars>>

\* Mutant: only the match_id is compared.
MutantListRowById(p) ==
    /\ work[p].at = "settling" /\ work[p].todo = {} /\ MayFlush(p)
    /\ \E row \in work[p].rows :
          LET mine == {b \in Pending \cap linked : work[p].done[b] = "none" /\ row[1] = Row}
              todo == {<<b, row[1], row[2]>> : b \in mine}
          IN
          /\ work' = [work EXCEPT ![p].rows = @ \ {row}, ![p].todo = todo]
          /\ Contest(p, todo)
    /\ lock' = Held(p)
    /\ UNCHANGED <<funds, net, unbooked, staked, requests, failures, overwritten, adjusted,
                   bet, linked, ends, paid, oddsVars>>

\* Two rows with the same names are the same to settle-all-finished.
ListRow(p) ==
    /\ work[p].at = "settling" /\ work[p].todo = {} /\ MayFlush(p)
    /\ \E row \in work[p].rows :
          LET todo == {<<b, row[1], row[2]>> : b \in {b \in Pending : work[p].done[b] = "none"}} IN
          /\ work' = [work EXCEPT ![p].rows = @ \ {row}, ![p].todo = todo]
          /\ Contest(p, todo)
    /\ lock' = Held(p)
    /\ UNCHANGED <<funds, net, unbooked, staked, requests, failures, overwritten, adjusted,
                   bet, linked, ends, paid, oddsVars>>

Accepted(p, t) ==
    IF work[p].route \in OwnRoutes
    THEN Valid(result[t[2]]) /\ t[2] \in played
    ELSE t[3] # "none"

\* The transactions bet_won and bet_lost of b that session p can see.
Seen(p, b) ==
    LET new == work[p].new[b] IN ends[b].won + ends[b].lost + new.won + new.lost

\* The betting records are the only route that looks for them first; it writes
\* none if there is one, and raises if there are two.
Writes(p, b) == work[p].route # "records" \/ Seen(p, b) = 0

Announced(n, outcome) ==
    IF outcome = "won" THEN [n EXCEPT !.won = @ + 1] ELSE [n EXCEPT !.lost = @ + 1]

\* What is left for session w when b has ended so; the user may be loaded now.
Ended(p, t, outcome) ==
    LET w    == work[p]
        b    == t[1]
        seen == IF w.seen = None THEN funds ELSE w.seen
        won  == outcome = "won"
    IN  [w EXCEPT !.todo = @ \ {t},
                  !.base = IF w.seen = None THEN funds ELSE @,
                  !.seen = IF won THEN seen + Win ELSE seen,
                  !.gain[b] = IF won THEN @ + 1 ELSE @,
                  !.done[b] = outcome,
                  !.new[b] = IF Writes(p, b) THEN Announced(@, outcome) ELSE @]

\* The sum of Win * f[b].
Winnings(f) == Win * Cardinality(UNION {{b} \X (1..f[b]) : b \in B})

\* Session p commits what w holds: bets, transactions, balance.
Flush(p, w) ==
    /\ bet' = [b \in B |-> IF w.done[b] = "none" THEN bet[b] ELSE w.done[b]]
    /\ ends' = [b \in B |-> [won |-> ends[b].won + w.new[b].won,
                             lost |-> ends[b].lost + w.new[b].lost]]
    /\ paid' = [b \in B |-> paid[b] + w.gain[b]]
    /\ net' = net + Winnings([b \in B |-> w.new[b].won])
    /\ funds' = IF Dirty(w) THEN w.seen ELSE funds
    /\ overwritten' = (overwritten \/ (Dirty(w) /\ funds # w.base))
    /\ lock' = IF lock = p THEN None ELSE lock

Pays(p, t, outcome) == work[p].route = "records" /\ Referred /\ outcome = "lost" /\ Writes(p, t[1])

\* One bet of the list.  A row that does not settle it is passed over.  The
\* betting records flush the balance before they look for transactions, which
\* waits for the row of the user; a lost bet goes on to the affiliate's commission.
Settle(p, t) ==
    LET r == IF work[p].route \in OwnRoutes THEN result[t[2]] ELSE t[3]
        w == Ended(p, t, Outcome(r))
        records == work[p].route = "records"
    IN  /\ IF Accepted(p, t)
           THEN /\ records => (Seen(p, t[1]) <= 1 /\ (Dirty(w) => lock \in {None, p}))
                /\ work' = [work EXCEPT ![p] = IF Pays(p, t, Outcome(r))
                                               THEN [w EXCEPT !.at = "commission"] ELSE w]
                /\ lock' = IF records /\ Dirty(w) THEN p ELSE lock
           ELSE /\ work' = [work EXCEPT ![p].todo = @ \ {t}]
                /\ UNCHANGED lock
        /\ UNCHANGED <<funds, net, unbooked, staked, requests, failures, overwritten,
                       adjusted, betVars, oddsVars>>

\* The commission commits the session: the bets before this one and the
\* transaction of this one, which itself is not marked yet.
Commission(p) ==
    LET w == work[p] IN
    /\ w.at = "commission"
    /\ \E b \in B :
          /\ w.new[b].lost = 1 /\ w.done[b] = "lost"
          /\ Flush(p, [w EXCEPT !.done[b] = "none"])
          /\ work' = [work EXCEPT ![p] = [Fresh("records", w.seen) EXCEPT
                                             !.at = "settling", !.todo = w.todo, !.done[b] = "lost"]]
    /\ UNCHANGED <<unbooked, staked, requests, failures, adjusted, linked, contested, oddsVars>>

\* Two transactions make scalar_one_or_none raise: the settlement is given up.
Raise(p, t) ==
    /\ work[p].route = "records" /\ Accepted(p, t) /\ Seen(p, t[1]) > 1
    /\ Abort(p)
    /\ UNCHANGED <<funds, net, unbooked, staked, requests, failures, overwritten, adjusted,
                   betVars, oddsVars>>

Finish(p) ==
    /\ work[p].at = "settling" /\ work[p].todo = {} /\ work[p].rows = {} /\ MayFlush(p)
    /\ Flush(p, work[p])
    /\ work' = [work EXCEPT ![p] = Idle]
    /\ UNCHANGED <<unbooked, staked, requests, failures, adjusted, linked, contested, oddsVars>>
-----------------------------------------------------------------------------
(* POST /admin/revert-future-settled-bets (also scripts/).                 *)

\* The settled bets whose match is still to come, and their transactions.
BeginRevert(p) ==
    LET wrong == {b \in B : bet[b] \in {"won", "lost"} /\ Row \notin played} IN
    /\ Begin(p)
    /\ work' = [work EXCEPT ![p] =
                   [Fresh("revert", funds) EXCEPT
                       !.at = "reverting",
                       !.done = [b \in B |-> IF b \in wrong THEN bet[b] ELSE "none"],
                       !.new = [b \in B |-> IF b \in wrong THEN ends[b] ELSE NoEnds[b]]]]
    /\ Contest(p, {<<b, Row, "none">> : b \in wrong})
    /\ UNCHANGED <<fundsVars, bet, linked, ends, paid, oddsVars>>

Less(new, gone) ==
    [b \in B |-> [won  |-> IF new[b].won > gone[b].won THEN new[b].won - gone[b].won ELSE 0,
                  lost |-> IF new[b].lost > gone[b].lost THEN new[b].lost - gone[b].lost ELSE 0]]

\* The transactions that are still there are deleted, the winnings taken back as
\* far as the balance goes, the bets pending again.  What another revert has read
\* and this one deletes, it will not find.
Revert(p) ==
    LET w     == work[p]
        wrong == {b \in B : w.done[b] # "none"}
        back  == Win * Cardinality({b \in B : w.done[b] = "won"})
    IN  /\ w.at = "reverting" /\ (back # 0 => lock = None)
        /\ bet' = [b \in B |-> IF b \in wrong THEN "pending" ELSE bet[b]]
        /\ ends' = [b \in B |-> [won |-> ends[b].won - w.new[b].won,
                                 lost |-> ends[b].lost - w.new[b].lost]]
        /\ net' = net - Winnings([b \in B |-> w.new[b].won])
        /\ paid' = [b \in B |-> IF w.done[b] = "won" THEN paid[b] - 1 ELSE paid[b]]
        /\ funds' = IF back = 0 THEN funds ELSE IF w.seen >= back THEN w.seen - back ELSE 0
        /\ adjusted' = (adjusted \/ w.seen < back)
        /\ overwritten' = (overwritten \/ (back # 0 /\ funds # w.seen))
        /\ work' = [q \in Sessions |->
                       IF q = p THEN Idle
                       ELSE IF work[q].at = "reverting" THEN [work[q] EXCEPT !.new = Less(@, w.new)]
                       ELSE work[q]]
        /\ UNCHANGED <<lock, unbooked, staked, requests, failures, linked, contested, oddsVars>>
-----------------------------------------------------------------------------
SettlementRequest(p) ==
    \/ \E route \in OwnRoutes : BeginOwn(p, route)
    \/ \E route \in {"finished", "specific"} : BeginBulk(p, route)
    \/ BeginAll(p) \/ BeginRevert(p)

SettlementStep(p) ==
    \/ ListOwn(p) \/ ListFinished(p) \/ ListSpecific(p) \/ ListRow(p)
    \/ /\ work[p].at = "settling"
       /\ \E t \in work[p].todo : Settle(p, t) \/ Raise(p, t)
    \/ Commission(p) \/ Finish(p) \/ Revert(p)

Next ==
    \/ \E p \in Sessions \ {Daily} :
          \/ FundsRequest(p) /\ UNCHANGED <<betVars, oddsVars>>
          \/ SettlementRequest(p)
    \/ \E p \in Sessions :
          \/ (FundsStep(p) \/ Fail(p)) /\ UNCHANGED <<betVars, oddsVars>>
          \/ SettlementStep(p)
    \/ RunDaily
    \/ \E b \in B : CreateRecord(b)
    \/ \E o \in O : KickOff(o) \/ ClearInvalid(o)
    \/ \E o \in O, r \in Results \ {"garbage"} : Scrape(o, r)

\* A handler runs to its end, and the timer starts the daily job.
Fairness ==
    /\ \A p \in Sessions : WF_vars(SettlementStep(p))
    /\ \A p \in Sessions : WF_vars(FundsStep(p) /\ UNCHANGED <<betVars, oddsVars>>)
    /\ WF_vars(RunDaily)

Spec == Init /\ [][Next]_vars /\ Fairness
-----------------------------------------------------------------------------
(* Properties.                                                             *)

\* The balance is what the transaction summary says, but for stakes deducted
\* whose bet is not recorded yet, and for a win paid on a bet that a commission
\* had already announced as lost: unless a request overwrote another's balance,
\* two settlements had the same bet, or an administrator adjusted it.
BooksBalance ==
    LET unrecorded  == {b \in staked : bet[b] = "none"}
        unannounced == {b \in B : bet[b] = "won" /\ ends[b].won = 0}
    IN  ~overwritten /\ ~adjusted /\ contested = {} =>
            funds = net - Cardinality(unrecorded) + Win * Cardinality(unannounced)

Life(b) == INSTANCE LegacyBetLife WITH
    status <- bet[b], paid <- paid[b], ended <- ends[b].won + ends[b].lost

\* Every step of a bet that no two settlements had on their lists at the same
\* time, and none had twice, is one of LegacyBetLife: whichever route, whatever
\* fails, however the scraper changes the rows.
UncontestedBetsLive ==
    [][\A b \in B \ contested' : Life(b)!Next \/ UNCHANGED Life(b)!vars]_vars

\* A bet whose teams have a row with a valid result is settled, by the daily job
\* if by nobody else: also a bet whose own row never gets a result because the
\* scraper listed the match twice.
FinishedIsSettled ==
    \A b \in B :
        (bet[b] = "pending" /\ \E o \in present : Valid(result[o])) ~> bet[b] # "pending"
=============================================================================
