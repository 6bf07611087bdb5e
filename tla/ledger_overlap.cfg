SPECIFICATION Spec
CONSTANTS
  f1 = f1
  f2 = f2
  e1 = e1
  l1 = l1
  e2 = e2
  Users = {u1, op}
  op = op
  Operator = op
  NoUser = NoUser
  Fixtures = {f1, f2}
  Jobs = {e1, l1, e2}
  FixtureOf <- MCFixtureOf
  Bot = Bot
  MaxBalance = 1
  MaxFires = 1
  MaxCommands = 1
  MaxFaults = 1
  MaxInFlight = 2
CONSTRAINTS OperatorHasFunds OneIsServed
INVARIANTS
  TypeOK
  NeverOverBilled
  RevealedOnlyWhatWasDelivered
  BillingIsExact
PROPERTIES
  FreeUsersNeverCharged
  ImplementsBilling
