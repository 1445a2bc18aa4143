------------------------------- MODULE MCOdds -------------------------------
(* Matches 1 and 2 are of league 1; 3 and 4 are of league 2 of another country,    *)
(* whose new season begins on day 3.  The site shows no time of match 3, and match *)
(* 4 is of the season before.  A match that is read once without its time and then *)
(* with it has two rows, so that four rows can be upcoming where three are fetched. *)
EXTENDS OddsScraper

MCLeagueOf(m) == IF m <= 2 THEN 1 ELSE 2
MCSeasonOf(m) == IF m = 4 THEN 0 ELSE 1
MCFirstKick(m) ==
    CASE m = 3 -> [day |-> 3, time |-> Null]
      [] m = 4 -> [day |-> 0, time |-> 1]
      [] OTHER -> [day |-> 3, time |-> 1]
MCNewSeason(l) == IF l = 1 THEN MaxDay + 1 ELSE 3
MCCountryOf(l) == l
=============================================================================
