-------------------------------- MODULE OddsTable --------------------------------
(***************************************************************************)
(* The table odds: what counts as the same match, what the scraper does    *)
(* with a row it has read, and which rows the two cleaning scripts delete. *)
(* No key of the table but the id is unique.                               *)
(*                                                                         *)
(* A row names its match by league, season, date, time and the two teams;  *)
(* here match stands for the country, the league and the teams, and price  *)
(* for the three odds.                                                     *)
(***************************************************************************)
EXTENDS Naturals, FiniteSets

CONSTANT Null   \* NULL

Values(Matches, Seasons, Days, Times) ==
    [match : Matches, season : Seasons, day : Days, time : Times \cup {Null},
     result : {"score", "wrong", Null}, price : {"odds", Null}]

\* A row of the table.
WithId(v, i) ==
    [id |-> i, match |-> v.match, season |-> v.season, day |-> v.day, time |-> v.time,
     result |-> v.result, price |-> v.price]

Gap(d, e) == IF d < e THEN e - d ELSE d - e
Suspicious == 2     \* days within which the same teams do not play twice

\* Mutant: NULL = NULL is not true in SQL.
MutantSame(r, v) ==
    /\ r.match = v.match /\ r.season = v.season /\ r.day = v.day
    /\ r.time = v.time /\ r.time # Null

Same(r, v) ==
    /\ r.match = v.match /\ r.season = v.season /\ r.day = v.day /\ r.time = v.time

SameTeams(r, v) ==
    /\ r.match = v.match /\ r.season = v.season
    /\ r.day # v.day /\ Gap(r.day, v.day) <= Suspicious

\* Mutant: two rows with the same teams are always taken for one match.
MutantInserted(table, v) == \A r \in table : ~Same(r, v) /\ ~SameTeams(r, v)

\* A new row is inserted unless it is a suspicious duplicate: of two with the same
\* teams the one with a result is preferred, and then the one that was there.
Inserted(table, v) ==
    LET near == {r \in table : SameTeams(r, v)} IN
    /\ \A r \in table : ~Same(r, v)
    /\ near # {} => v.result # Null /\ \A r \in near : r.result = Null

\* Mutant: an update stores what was read, read or not.
MutantCoalesce(new, old) == new

Coalesce(new, old) == IF new = Null THEN old ELSE new

Updated(r, v) == [r EXCEPT !.result = Coalesce(v.result, @), !.price = Coalesce(v.price, @)]

\* The values of a page are of different matches.
Update(table, values) ==
    {IF \E v \in values : Same(r, v) THEN Updated(r, CHOOSE v \in values : Same(r, v)) ELSE r :
        r \in table}

-----------------------------------------------------------------------------
\* Mutant: a result is no reason to keep a row.
MutantLoser(r, q) == IF r.day < q.day THEN q ELSE r

\* cleanup_duplicate_matches, of two rows of the same teams, r the older entry.
Loser(r, q) ==
    CASE r.result # Null /\ q.result = Null -> q
      [] r.result = Null /\ q.result # Null -> r
      [] OTHER -> IF r.day < q.day THEN q ELSE r

Doomed(table) == {Loser(p[1], p[2]) : p \in {x \in table \X table : x[1].id < x[2].id /\ SameTeams(x[1], x[2])}}

\* remove_duplicate_odds, which looks at neither season nor result.
Alike(r, q) == r.match = q.match /\ r.day = q.day /\ r.time = q.time
=============================================================================
