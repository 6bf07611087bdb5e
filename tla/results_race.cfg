SPECIFICATION Spec
CONSTANTS
    None = None
    Fixtures = {f1}
    Users = {op}
    Operator = {op}
    Group = {}
    Settlers = {"daemon"}
    Entries <- MCEntries
    MaxInFlight = 2
    MaxChanges = 2
    MaxFailures = 0
    MaxTimeouts = 0
    MaxRestarts = 0
    MaxPasses = 1
INVARIANT LastWordIsRecord
CHECK_DEADLOCK FALSE
