-------------------------- MODULE MCOutboxTransition --------------------------
(***************************************************************************)
(* Enumerates every DML transaction on a small outbox table, so that TLC    *)
(* explores exactly the steps OutboxTransition permits: any new row of the   *)
(* delivery, with or without a new escalation record.                        *)
(***************************************************************************)
EXTENDS OutboxTransition

CONSTANTS MaxAttempt, MaxTime,
          OneShot       \* the deliveries with a budget of a single attempt

MCBudget == [d \in Deliveries |-> IF d \in OneShot THEN 1 ELSE 2]

MCTimes == 0..MaxTime

\* Attempts up to one past the budget, times up to one past the last instant.
Rows == [state     : States,
         attempt   : 0..MaxAttempt,
         available : 0..MaxTime,
         owner     : Owners \cup {NoOwner},
         expires   : 0..(MaxTime + 1),
         failure   : FailureCodes \cup {NoFailure}]

Evidence == [delivery : Deliveries, attempt : 0..MaxAttempt, failure : FailureCodes]

Submit(d, row, added) ==
  /\ delivery' = [delivery EXCEPT ![d] = row]
  /\ escalation' = escalation \cup added
  /\ \E began \in Times : Transact(d, began)

MCNext ==
  \E d \in Deliveries :
    \E row \in {r \in Rows : WellShaped(d, r)} :
      \E added \in {{}} \cup {{e} : e \in Evidence} : Submit(d, row, added)

MCSpec == Init /\ [][MCNext]_vars
==============================================================================
