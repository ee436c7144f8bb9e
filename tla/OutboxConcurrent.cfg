SPECIFICATION Spec
CONSTANTS
  Deliveries = {d1, d2}
  OneShot = {d2}
  Workers = {w1, w2}
  Owners = {w1, w2}
  Twins = {}
  Operators = {op}
  FailureCodes = {expired, refused}
  LeaseExpired = expired
  NoOwner = NoOwner
  NoFailure = NoFailure
  NoDelivery = NoDelivery
  Durations = {1}
  Delays = {1}
  MaxTime = 6
  Budget <- MCBudget
  Times <- MCTimes
  Reference <- MCReference
INVARIANTS
  TypeOK
  LiveGrantHolds
  AcknowledgesOwnAttempt
PROPERTY
  Implements
