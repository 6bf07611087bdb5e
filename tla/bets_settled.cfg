SPECIFICATION Spec
CONSTANTS
    None = None
    Fixtures = {f1, f2}
    Scorers = {r1, r2}
    Settlers = {s1, s2}
    Prices = {50}
    Cap = 1
    KillPct = 20
    MinStaked = 2
    Window = 1
    MaxDay = 1
    MaxFlips = 1
SYMMETRY Symmetry
CONSTRAINT OverlapInPairs
INVARIANTS TypeOK OvershootIsBounded
PROPERTY SettlementIsSound
