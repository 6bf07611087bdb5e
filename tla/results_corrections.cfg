SPECIFICATION FairSpec
CONSTANTS
    None = None
    Fixtures = {f1}
    Users = {u1}
    Operator = {}
    Group = {g}
    Settlers = {"daemon"}
    Entries <- MCDubious
    MaxInFlight = 1
    MaxChanges = 2
    MaxFailures = 1
    MaxTimeouts = 0
    MaxRestarts = 1
    MaxPasses = 2
INVARIANTS TypeOK CorrectionsAreSound LastWordIsRecord
PROPERTY PendingIsHandled
CHECK_DEADLOCK FALSE
