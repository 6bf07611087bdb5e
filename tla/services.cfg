SPECIFICATION FairSpec
CONSTANTS
    None = None
    Matches = {f1, f2}
    Leagues <- MCLeagues
    Ttl = 1
    MaxErrors = 1
    Past = Past
    Fixtures = {f1}
    Nil = Nil
    MaxBreaks = 1
    Keys = {gap}
    Watchdogs = {w1, w2}
    Cooldown <- MCCooldown
    Unset = Unset
    MaxInFlight = 2
    MaxTime = 2
    MaxFailures = 2
    MaxTimeouts = 1
    MaxRestarts = 1
    Absent = Absent
    Board <- MCBoard
    Scored <- MCScored
    Canonical <- MCNames
    Alike <- MCAlike
    PageSize = 1
    LeaguePages = 2
    ListLimit = 2
    MaxTurns = 1
    Clients = {"daily", "alert"}
    Calls <- MCCalls
    Limit = 2
    Window = 2
    CacheTtl = 2
    Quota = 1
    MaxReruns = 1
    Services = {"bot", "daemon"}
    Tables <- MCTables
    Columns <- MCColumns
    OutcomeTable = "outcomes"
    MaxLocks = 2
    Site <- MCSite
    Pin <- MCPin
    Canon <- MCCanon
    Likeness <- MCLikeness
    Fold <- MCFold
    Bar = 90
    MinRows = 2
    Scrapers = {"daemon", "cli"}
    MaxTroubles = 2
INVARIANTS TypeOK WindowRespected RouteIsHeadToHead BootsTogether OwnRatingFirst
PROPERTIES CardReachesStore StandingFaultIsTold LineupMissHasCause TeamsOfAllArrive
CHECK_DEADLOCK FALSE
