SPECIFICATION ScraperSpec
CONSTANTS
    Null = Null
    CountryOf <- MCCountryOf
    FEATURED_LEAGUES = {1}
    Cap = 1
    Limit = 2
    FetchSize = 3
    M = {1, 2, 3, 4}
    Leagues = 2
    LeagueOf <- MCLeagueOf
    Latest = 1
    SeasonOf <- MCSeasonOf
    FirstKick <- MCFirstKick
    Times = {1}
    MaxDay = 4
    NewSeason <- MCNewSeason
    MaxMoves = 1
    MaxCleanings = 1
    MaxFaults = 1
INVARIANTS TableOK BoardIsRight
PROPERTIES NothingForgotten CleanupKeepsResults ResultsArrive
