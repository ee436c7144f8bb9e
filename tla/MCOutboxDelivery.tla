--------------------------- MODULE MCOutboxDelivery ---------------------------
(* Small instances of OutboxDelivery. *)
EXTENDS OutboxDelivery

CONSTANTS
  MaxTime,      \* the last instant: past every lease and delay the budgets allow
  OneShot,      \* the deliveries with a budget of a single attempt
  Twins         \* the workers that present the same reference

MCTimes == 0..MaxTime

MCBudget == [d \in Deliveries |-> IF d \in OneShot THEN 1 ELSE 2]

\* Owners are the worker processes themselves, but all twins present the same.
MCReference ==
  [w \in Workers |-> IF w \in Twins THEN CHOOSE t \in Twins : TRUE ELSE w]
==============================================================================
