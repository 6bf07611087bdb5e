SPECIFICATION Spec
CONSTANTS
    None = None
    Fixtures = {f1}
    Users = {op, u1}
    Operator = {op}
    Group = {}
    Settlers = {"daemon", "cli"}
    Entries <- MCEntries
    MaxInFlight = 2
    MaxChanges = 2
    MaxFailures = 1
    MaxTimeouts = 0
    MaxRestarts = 1
    MaxPasses = 1
INVARIANTS ResultToldOnce RatingsLearnOnce
PROPERTY ImplementsRecord
CHECK_DEADLOCK FALSE
