SPECIFICATION FairSpec
CONSTANTS
  Deliveries = {d1, d2}
  OneShot = {d2}
  Workers = {w1}
  Owners = {w1}
  Twins = {}
  Operators = {op}
  FailureCodes = {expired}
  LeaseExpired = expired
  NoOwner = NoOwner
  NoFailure = NoFailure
  NoDelivery = NoDelivery
  Durations = {1}
  Delays = {1}
  MaxTime = 6
  Budget <- MCBudget
  Times <- MCTimes
  Reference <- MCReference
PROPERTY
  EveryDeliverySettles
