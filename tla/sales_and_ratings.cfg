SPECIFICATION BothSpec
CONSTANTS
    None = None
    Users = {u1, u2}
    Operator = u1
    Triples <- MCTriples
    Matches <- MCMatches
    Markets = {"HOME", "DRAW"}
    PageLimit = 1
    MaxRescores = 1
    MaxPasses = 1
    MaxActivity = 2
    MaxAborts = 1
    Never = Never
    AlertAfter = 0
    StaleAfter = 1
    MaxFeedDay = 2
    MaxRuns = 1
    MaxFaults = 1
INVARIANTS TypeOK RecordIsHonest ReportIsHonest FeedTypeOK OperatorHears
PROPERTIES RecordKeepsTheSale MirrorIsComplete
CHECK_DEADLOCK FALSE
