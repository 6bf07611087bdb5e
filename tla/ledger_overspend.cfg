SPECIFICATION Spec
CONSTANTS
  f1 = f1
  f2 = f2
  e1 = e1
  l1 = l1
  e2 = e2
  Users = {u1}
  op = op
  Operator = op
  NoUser = NoUser
  Fixtures = {f1, f2}
  Jobs = {e1, e2}
  FixtureOf <- MCFixtureOfTwo
  Bot = Bot
  MaxBalance = 1
  MaxFires = 1
  MaxCommands = 0
  MaxFaults = 0
  MaxInFlight = 2
INVARIANTS
  SpendWithinCredit
