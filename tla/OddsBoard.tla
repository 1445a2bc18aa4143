-------------------------------- MODULE OddsBoard --------------------------------
(***************************************************************************)
(* What the betting pages show of the table odds (app/routers/odds.py):    *)
(* the paged list, the matches of the week, and the featured matches,      *)
(* which are chosen from the first rows of the week only and spread over   *)
(* the countries.                                                          *)
(***************************************************************************)
EXTENDS OddsTable

CONSTANTS
    LeagueOf(_),        \* the league of a match
    CountryOf(_),       \* the country of a league
    FEATURED_LEAGUES,
    Cap,                \* FEATURED_CAP_PER_COUNTRY
    Limit,              \* how many featured matches a page asks for, 1 to 100
    FetchSize           \* how many rows it reads for them: min(300, max(4 * Limit, 150))

ASSUME BoardAssumption == Cap \in Nat /\ Limit \in Nat /\ FetchSize \in Nat /\ Limit <= FetchSize

Week == 6

\* ORDER BY date, time: NULL is last, and equal rows come in any order.
Before(r, q) ==
    \/ r.day < q.day
    \/ r.day = q.day /\ r.time # q.time /\ (q.time = Null \/ (r.time # Null /\ r.time < q.time))

\* One of these orders; which one does not matter below.
InOrder(r, q) == Before(r, q) \/ (~Before(q, r) /\ r.id <= q.id)

\* The first n rows of a set.
First(rows, n) == {r \in rows : Cardinality({q \in rows : q # r /\ InOrder(q, r)}) < n}

\* The matches of the coming week without a result.
Upcoming(table, today) ==
    {r \in table : r.day >= today /\ r.day <= today + Week /\ r.result = Null}

-----------------------------------------------------------------------------
(* Pages of the list.                                                      *)

\* Without date_from, date_to asks for results, and only for scores of them.
Listed(table, results, until) ==
    IF results THEN {r \in table : r.day <= until /\ r.result # Null} ELSE table

Pages(rows, size) == (Cardinality(rows) + size - 1) \div size

Offset(page, size) == (page - 1) * size

\* The numbers of rows that may precede r.
Ranks(rows, r) ==
    LET before == Cardinality({q \in rows : Before(q, r)})
        ties   == Cardinality({q \in rows : ~Before(q, r) /\ ~Before(r, q)})
    IN  before .. before + ties - 1

\* A row with one of these ranks may be on the page.
MayBeOn(ranks, page, size) ==
    \E k \in ranks : Offset(page, size) <= k /\ k < Offset(page, size) + size

-----------------------------------------------------------------------------
(* Featured matches.                                                       *)

\* Mutant: the query reads no more rows than the page shows.
MutantFetched(rows) == First(rows, Limit)

\* The query is cut before anything is chosen: what comes after the cut is not
\* featured, whatever its league or country.
Fetched(rows) == First(rows, FetchSize)

Country(r) == CountryOf(LeagueOf(r.match))

Famous(rows) == {r \in rows : LeagueOf(r.match) \in FEATURED_LEAGUES}

\* At most Cap rows of a country, the first ones.
Capped(rows) == {r \in rows : r \in First({q \in rows : Country(q) = Country(r)}, Cap)}

\* A missing time does not compare with a time: the sort of the answer raises.
Sortable(rows) ==
    \A r, q \in rows : r.day = q.day => (r.time = Null <=> q.time = Null)

\* A country has one share of famous matches and one of others.
Combined(rows) == Capped(Famous(rows)) \cup Capped(rows \ Famous(rows))

\* The fetched rows that are left fill the list if the capped ones do not.
Filled(rows) ==
    LET capped == Combined(rows) IN
    IF Cardinality(capped) < Limit
    THEN capped \cup First(rows \ capped, Limit - Cardinality(capped))
    ELSE capped

\* What is shown of the rows fetched: the famous leagues come first if the list had
\* not to be filled.
Chosen(rows) ==
    LET famous == Capped(Famous(rows)) IN
    IF Cardinality(Combined(rows)) < Limit THEN Filled(rows)
    ELSE IF Cardinality(famous) >= Limit THEN First(famous, Limit)
    ELSE famous \cup First(Capped(rows \ Famous(rows)), Limit - Cardinality(famous))

Featured(table, today) == Chosen(Fetched(Upcoming(table, today)))

\* The page fails if a sort raises.
FeaturedFails(table, today) ==
    LET rows == Fetched(Upcoming(table, today)) IN
    \/ ~Sortable(Capped(Famous(rows))) \/ ~Sortable(Capped(rows \ Famous(rows)))
    \/ Cardinality(Combined(rows)) < Limit /\ ~Sortable(Filled(rows))
=============================================================================
