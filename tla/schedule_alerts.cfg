SPECIFICATION Spec
CONSTANTS
  Fixtures = {f1}
  None = None
  Kickoffs <- MCKickoffs
  MaxTime = 7
  MaxChanges = 2
  MaxScores = 2
  MaxFaults = 2
INVARIANTS
  TypeOK
  SchedulerAgreesWithUpstream
  FiresOncePerSlot
  NoAlarmForLiveFixture
