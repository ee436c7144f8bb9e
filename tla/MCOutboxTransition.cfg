SPECIFICATION MCSpec
CONSTANTS
  Deliveries = {d1, d2}
  OneShot = {d2}
  Owners = {r1, r2}
  FailureCodes = {expired, refused}
  LeaseExpired = expired
  NoOwner = NoOwner
  NoFailure = NoFailure
  MaxAttempt = 3
  MaxTime = 1
  Budget <- MCBudget
  Times <- MCTimes
INVARIANTS
  BudgetRespected
  DeadLetterHasEvidence
CHECK_DEADLOCK FALSE
