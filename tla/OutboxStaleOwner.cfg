SPECIFICATION Spec
CONSTANTS
  Deliveries = {d1}
  OneShot = {}
  Workers = {w1, w2}
  Owners = {w1, w2}
  Twins = {w1, w2}
  Operators = {op}
  FailureCodes = {expired}
  LeaseExpired = expired
  NoOwner = NoOwner
  NoFailure = NoFailure
  NoDelivery = NoDelivery
  Durations = {1}
  Delays = {1}
  MaxTime = 6
  Budget <- MCBudget
  Times <- MCTimes
  Reference <- MCReference
INVARIANT
  AcknowledgesOwnAttempt
