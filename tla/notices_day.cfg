SPECIFICATION FairSpec
CONSTANTS
  Fixtures = {f1}
  Nobody = Nobody
  Plans = {plan}
  Sweeps = {sweep}
  PromoSweeps = {promo}
  Hooks = {hook}
  MaxTime = 5
  MaxRescores = 3
  MaxMoves = 1
  MaxFaults = 1
INVARIANTS
  TypeOK
  ToldOnceAndTruly
PROPERTIES
  DroppedIsTold
