------------------------------- MODULE OddsScraper -------------------------------
(***************************************************************************)
(* The daily job that reads OddsPortal into the table odds: for every      *)
(* league the results of its seasons, page by page, and then the page of   *)
(* the next matches.  Each page is read, checked against the table and     *)
(* committed; a page that cannot be turned ends the whole job.             *)
(*                                                                         *)
(* Meanwhile the days pass, matches are moved, and an administrator runs   *)
(* the scripts that clean the table.  A bet refers to a row and keeps it   *)
(* from being deleted; that is all there is of bets here.                  *)
(***************************************************************************)
EXTENDS OddsBoard

CONSTANTS
    M,              \* the matches, numbered
    Leagues,        \* the leagues are 1 .. Leagues
    Latest,         \* the latest season in LEAGUES
    SeasonOf(_),    \* the season whose results page lists a match
    FirstKick(_),   \* the day and time a match is first announced for
    Times,          \* the times of day, numbered
    MaxDay,         \* the days are 0 .. MaxDay
    NewSeason(_),   \* the day from which a league's dates are in the season after Latest
    MaxMoves,       \* bound on matches that are moved
    MaxCleanings,   \* bound on the runs of cleaning scripts
    MaxFaults       \* bound on failures and on rows that are not read rightly

ASSUME OddsAssumption ==
    /\ M \subseteq Nat /\ IsFiniteSet(M) /\ Times \subseteq Nat
    /\ {Leagues, MaxDay} \subseteq Nat \ {0}
    /\ {Latest, MaxMoves, MaxCleanings, MaxFaults} \subseteq Nat
    /\ Null \notin Nat
    /\ \A m \in M : LeagueOf(m) \in 1 .. Leagues /\ SeasonOf(m) \in 0 .. Latest
    /\ \A m \in M : FirstKick(m) \in [day : 0 .. MaxDay, time : Times \cup {Null}]

VARIABLES
    today,
    kick,           \* kick[m]: day and time of the match on the site, if it shows one
    odds,           \* the rows, each with its id
    lastId,         \* the sequence of the ids
    run,            \* the job: where it is
    job,            \* the cleaning script: the rows it is about to delete
    misread,        \* history: the matches with a score that was misread
    moved,          \* history: the matches that have been moved
    cleanings,      \* history: the number of cleanings
    faults          \* history: the number of failures

siteVars == <<today, kick, moved>>
tableVars == <<odds, lastId>>
scraperVars == <<siteVars, tableVars, run, job, misread, cleanings, faults>>

Days == 0 .. MaxDay
Value == Values(M, 0 .. Latest + 1, Days, Times)

Stopped == [at |-> "idle"]

Batch == [new : SUBSET Value, known : SUBSET Value]

\* season: the results of a season are opened next; page: a page of them is read
\* next; commit: batch is checked and not yet committed; next, commitNext: so for
\* the next matches.
Running ==
    [at : {"season", "next"}, league : 1 .. Leagues, season : 0 .. Latest]
    \cup [at : {"page"}, league : 1 .. Leagues, season : 0 .. Latest, page : Nat, pages : Nat]
    \cup [at : {"commit"}, league : 1 .. Leagues, season : 0 .. Latest, page : Nat, pages : Nat, batch : Batch]
    \cup [at : {"commitNext"}, league : 1 .. Leagues, batch : Batch]

Stored == [id : 1 .. lastId, match : M, season : 0 .. Latest + 1, day : Days, time : Times \cup {Null},
           result : {"score", "wrong", Null}, price : {"odds", Null}]

Cleaning ==
    [at : {"delete"}, script : {"cleanup", "remove", "match"}, rows : (SUBSET Stored) \ {{}}]

ScraperTypeOK ==
    /\ today \in Days
    /\ kick \in [M -> [day : Days, time : Times \cup {Null}]]
    /\ lastId \in Nat
    /\ odds \subseteq Stored
    /\ run \in Running \cup {Stopped}
    /\ job \in Cleaning \cup {Stopped}
    /\ misread \subseteq M /\ moved \subseteq M
    /\ cleanings \in 0 .. MaxCleanings /\ faults \in 0 .. MaxFaults

ScraperInit ==
    /\ today = 1
    /\ kick = [m \in M |-> FirstKick(m)]
    /\ odds = {} /\ lastId = 0
    /\ run = Stopped /\ job = Stopped
    /\ misread = {} /\ moved = {} /\ cleanings = 0 /\ faults = 0

-----------------------------------------------------------------------------
(* The site and what can be read of it.                                    *)

Played(m) == kick[m].day < today

\* The results pages of a season, one match to a page, the last match first.
Results(l, s) == {m \in M : LeagueOf(m) = l /\ SeasonOf(m) = s /\ Played(m)}

Later(n, m) == kick[n].day > kick[m].day \/ (kick[n].day = kick[m].day /\ n > m)

OnPage(l, s, p) == {m \in Results(l, s) : Cardinality({n \in Results(l, s) : Later(n, m)}) = p - 1}

\* On the page of the next matches headings such as "Tomorrow, 07 Feb" are not read
\* as a date, and the rows below them are skipped.
Dated(m) == kick[m].day >= today + 2

Announced(l) == {m \in M : LeagueOf(m) = l /\ Dated(m)}

InferredSeason(l, d) == IF d >= NewSeason(l) THEN Latest + 1 ELSE Latest

Row(m, s, result) ==
    [match |-> m, season |-> s, day |-> kick[m].day, time |-> kick[m].time,
     result |-> result, price |-> "odds"]

\* What else may be read of a row: no time; no score, or other numbers for the
\* score; no odds.
Untimed(v) == [v EXCEPT !.time = Null]
Misscored(v) == {[v EXCEPT !.result = x] : x \in {Null, "wrong"}}
Unpriced(v) == [v EXCEPT !.price = Null]

Misreadings(v) == ({Untimed(v), Unpriced(v)} \cup Misscored(v)) \ {v}

\* What may be read of a page: at most one row wrongly, and one without a date is
\* skipped.
PagesRead(rows) ==
    {rows} \cup UNION {{rows \ {r}} \cup {(rows \ {r}) \cup {v} : v \in Misreadings(r)} : r \in rows}

Read(rows, values) ==
    /\ faults' = IF values = rows THEN faults ELSE faults + 1
    /\ faults' <= MaxFaults
    /\ misread' = misread \cup {v.match : v \in {w \in values \ rows : w.result = "wrong"}}

-----------------------------------------------------------------------------
(* The job.                                                                *)

RunAt(label) == run.at = label

\* sorted(league.seasons, reverse=True), then the next matches of the league, then
\* the next league.
ToSeason(l, s) == [at |-> "season", league |-> l, season |-> s]
AfterSeason(l, s) == IF s = 0 THEN [at |-> "next", league |-> l, season |-> 0] ELSE ToSeason(l, s - 1)
AfterNext(l) == IF l = Leagues THEN Stopped ELSE ToSeason(l + 1, Latest)

\* The timer, every day; or a run by hand.  systemd starts no second one.
Start ==
    /\ RunAt("idle")
    /\ run' = ToSeason(1, Latest)
    /\ UNCHANGED <<siteVars, tableVars, job, misread, cleanings, faults>>

\* No driver can be made, in three attempts.
StartFails ==
    /\ RunAt("idle")
    /\ faults < MaxFaults /\ faults' = faults + 1
    /\ UNCHANGED <<siteVars, tableVars, run, job, misread, cleanings>>

InDatabase(l, s) == {r \in odds : LeagueOf(r.match) = l /\ r.season = s}

\* A season of the past is scraped only if none of it is stored; the latest always.
Skipped(l, s) == s # Latest /\ InDatabase(l, s) # {}

OpenSeason ==
    LET l == run.league  s == run.season IN
    /\ RunAt("season")
    /\ run' = IF Skipped(l, s) THEN AfterSeason(l, s)
              ELSE [at |-> "page", league |-> l, season |-> s, page |-> 1,
                    pages |-> Cardinality(Results(l, s))]
    /\ UNCHANGED <<siteVars, tableVars, job, misread, cleanings, faults>>

\* The page does not load, three times: the season waits for the next run.
GiveUpSeason ==
    LET l == run.league  s == run.season IN
    /\ RunAt("season") /\ ~Skipped(l, s)
    /\ faults < MaxFaults /\ faults' = faults + 1
    /\ run' = AfterSeason(l, s)
    /\ UNCHANGED <<siteVars, tableVars, job, misread, cleanings>>

\* insert_rows up to its commit: the rows to insert, and those to update, which
\* stay locked.
Check(values, mayUpdate) ==
    [new |-> {v \in values : Inserted(odds, v)},
     known |-> IF mayUpdate THEN {v \in values : \E r \in odds : Same(r, v)} ELSE {}]

ReadPage ==
    LET l == run.league  s == run.season
        rows == {Row(m, s, "score") : m \in OnPage(l, s, run.page)}
    IN
    /\ RunAt("page")
    /\ \E values \in PagesRead(rows) :
          /\ Read(rows, values)
          /\ run' = [at |-> "commit", league |-> l, season |-> s, page |-> run.page, pages |-> run.pages,
                     batch |-> Check(values, s = Latest)]
    /\ UNCHANGED <<siteVars, tableVars, job, cleanings>>

\* The id of a new row of the page.
NewId(new, v) == lastId + Cardinality({w \in new : w.match <= v.match})

StoreBatch(batch) ==
    /\ odds' = Update(odds, batch.known) \cup {WithId(v, NewId(batch.new, v)) : v \in batch.new}
    /\ lastId' = lastId + Cardinality(batch.new)

CommitPage ==
    LET l == run.league  s == run.season IN
    /\ RunAt("commit")
    /\ StoreBatch(run.batch)
    /\ run' = IF run.page < run.pages
              THEN [at |-> "page", league |-> l, season |-> s, page |-> run.page + 1, pages |-> run.pages]
              ELSE AfterSeason(l, s)
    /\ UNCHANGED <<siteVars, job, misread, cleanings, faults>>

\* The button to the next page is not found.
StopPaging ==
    /\ RunAt("page") /\ run.page > 1
    /\ faults < MaxFaults /\ faults' = faults + 1
    /\ run' = AfterSeason(run.league, run.season)
    /\ UNCHANGED <<siteVars, tableVars, job, misread, cleanings>>

ReadNext ==
    LET l == run.league
        rows == {Row(m, InferredSeason(l, kick[m].day), Null) : m \in Announced(l)}
    IN
    /\ RunAt("next")
    /\ \E values \in PagesRead(rows) :
          /\ Read(rows, values)
          /\ run' = [at |-> "commitNext", league |-> l, batch |-> Check(values, FALSE)]
    /\ UNCHANGED <<siteVars, tableVars, job, cleanings>>

CommitNext ==
    /\ RunAt("commitNext")
    /\ StoreBatch(run.batch)
    /\ run' = AfterNext(run.league)
    /\ UNCHANGED <<siteVars, job, misread, cleanings, faults>>

\* The page does not come when it is turned; the next matches do not load; a row
\* has one team only, and its insert fails; the process dies.  All of them end the
\* job, and what is not committed is rolled back.
Abort ==
    /\ ~RunAt("idle")
    /\ faults < MaxFaults /\ faults' = faults + 1
    /\ run' = Stopped
    /\ UNCHANGED <<siteVars, tableVars, job, misread, cleanings>>

-----------------------------------------------------------------------------
(* The cleaning scripts.                                                   *)

CleaningStarts == job = Stopped /\ cleanings < MaxCleanings /\ cleanings' = cleanings + 1

\* cleanup_duplicate_matches.  If a betting record refers to a row it would delete,
\* it stops here.
ListDuplicates ==
    /\ CleaningStarts
    /\ Doomed(odds) # {}
    /\ job' = [at |-> "delete", script |-> "cleanup", rows |-> Doomed(odds)]
    /\ UNCHANGED <<siteVars, tableVars, run, misread, faults>>

\* remove_duplicate_odds keeps the row with the fewest bookmakers, which may be any.
ListAlike ==
    /\ CleaningStarts
    /\ \E r, q \in odds :
          /\ r # q /\ Alike(r, q)
          /\ job' = [at |-> "delete", script |-> "remove", rows |-> {r}]
    /\ UNCHANGED <<siteVars, tableVars, run, misread, faults>>

\* The administrator deletes a row whose date is wrong.
ListFake ==
    /\ CleaningStarts
    /\ \E r \in odds :
          /\ r.day # kick[r.match].day
          /\ job' = [at |-> "delete", script |-> "match", rows |-> {r}]
    /\ UNCHANGED <<siteVars, tableVars, run, misread, faults>>

Locked(id) ==
    /\ RunAt("commit")
    /\ \E r \in odds : r.id = id /\ \E v \in run.batch.known : Same(r, v)

\* The rows are deleted by their ids, whatever they hold by now; all or, if a bet
\* refers to one of them, none.
Delete ==
    LET ids == {r.id : r \in job.rows} IN
    /\ job # Stopped /\ \A id \in ids : ~Locked(id)
    /\ \/ odds' = {r \in odds : r.id \notin ids}
       \/ UNCHANGED odds
    /\ job' = Stopped
    /\ UNCHANGED <<siteVars, lastId, run, misread, cleanings, faults>>

-----------------------------------------------------------------------------
(* The world.                                                              *)

\* The job starts early in the morning and ends within the day.
Tick ==
    /\ today < MaxDay /\ RunAt("idle")
    /\ today' = today + 1
    /\ UNCHANGED <<kick, moved, tableVars, run, job, misread, cleanings, faults>>

Move(m, d, t) ==
    /\ kick[m].day >= today /\ d >= today /\ [day |-> d, time |-> t] # kick[m]
    /\ m \notin moved /\ Cardinality(moved) < MaxMoves
    /\ kick' = [kick EXCEPT ![m] = [day |-> d, time |-> t]]
    /\ moved' = moved \cup {m}
    /\ UNCHANGED <<today, tableVars, run, job, misread, cleanings, faults>>

Scrape ==
    \/ OpenSeason \/ ReadPage \/ CommitPage \/ ReadNext \/ CommitNext

ScraperNext ==
    \/ Start \/ StartFails \/ Scrape \/ GiveUpSeason \/ StopPaging \/ Abort
    \/ ListDuplicates \/ ListAlike \/ ListFake \/ Delete
    \/ Tick
    \/ \E m \in M, d \in Days, t \in Times : Move(m, d, t)

\* The timer starts the job again and again, and its steps end.
ScraperSpec == ScraperInit /\ [][ScraperNext]_scraperVars /\ WF_scraperVars(Start) /\ WF_scraperVars(Scrape)

-----------------------------------------------------------------------------
(* Properties.                                                             *)

Match(r) == <<r.match, r.season, r.day, r.time>>

\* The table is well-formed, and no two rows are the same match at the same time:
\* no key forbids it, only what the scraper looks up before it inserts.
TableOK ==
    /\ ScraperTypeOK
    /\ \A r, q \in odds : r # q => r.id # q.id /\ Match(r) # Match(q)

\* A result or price once stored is never lost to a reading that missed it.
NothingForgotten ==
    [][\A r \in odds, q \in odds' : r.id = q.id =>
          (r.result # Null => q.result # Null) /\ (r.price # Null => q.price # Null)]_scraperVars

\* cleanup_duplicate_matches leaves a row of every match it deletes rows of, and one
\* with a result if it has deleted one with a result - of those it had seen.
CleanupKeepsResults ==
    [][(job # Stopped /\ job' = Stopped /\ job.script = "cleanup") =>
          \A r \in job.rows : \E q \in odds' :
             r.match = q.match /\ r.season = q.season /\ (r.result # Null => q.result # Null)]_scraperVars

Arrived(m) == \E r \in odds : Same(r, Row(m, Latest, Null)) /\ r.result = "score"

\* Whatever fails, all matches of the latest season that were played have their
\* results again and again, each in the row of its date and time; but for a match
\* that was moved and misread, as a row of its old date with a wrong score keeps
\* the right one out.
ResultsArrive ==
    []<>(\A m \in M : SeasonOf(m) = Latest /\ Played(m) =>
            Arrived(m) \/ (m \in moved /\ m \in misread))

\* The featured matches are matches of the week, as many as fit.  A match beyond its
\* country's share is shown only if every match of the week that is within its
\* country's share and left out comes after the rows the page reads: nobody before
\* that cut is left with less than the share, somebody behind it may be.
FeaturedSpread ==
    LET rows  == Upcoming(odds, today)
        shown == Featured(odds, today)
    IN  ~FeaturedFails(odds, today) =>
            /\ shown \subseteq rows
            /\ Cardinality(shown) = (IF Cardinality(rows) < Limit THEN Cardinality(rows) ELSE Limit)
            /\ ~(shown \subseteq Combined(rows)) =>
                  \A q \in Combined(rows) \ shown :
                      Cardinality({r \in rows : r # q /\ InOrder(r, q)}) >= FetchSize

\* Whoever turns all pages of the list sees every row that shares its date and time
\* with no other exactly once.
PagesCover ==
    \A results \in BOOLEAN :
        LET rows == Listed(odds, results, today) IN
        \A r \in rows :
            LET ranks == Ranks(rows, r) IN
            Cardinality(ranks) = 1 =>
                \A size \in 1 .. 2 :
                    Cardinality({p \in 1 .. Pages(rows, size) : MayBeOn(ranks, p, size)}) = 1

\* What the two pages of the site show is right on every table the scraper and
\* the clean-ups can leave.
BoardIsRight == FeaturedSpread /\ PagesCover
=============================================================================
