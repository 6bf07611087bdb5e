SPECIFICATION SoldSpec
CONSTANTS
    None = None
    Users = {u1, u2}
    Triples <- MCTriples
    Matches <- MCMatches
    MaxRescores = 1
    MaxPasses = 0
INVARIANT AsShownIsTrue
CHECK_DEADLOCK FALSE
