---------------------------- MODULE OutboxRecords ----------------------------
(***************************************************************************)
(* The rows of outbox_delivery_record and outbox_delivery_escalation_record *)
(* (database/migrations/0003, 0006), shared by the transition guard and by  *)
(* the dispatcher functions.  One tenant and one delivery target: every     *)
(* statement filters on both, so rows of another tenant or target are never *)
(* read.  Timestamps are naturals counted from an epoch before every row.   *)
(***************************************************************************)
EXTENDS Naturals

CONSTANTS
  Deliveries,     \* outbox_delivery_record_id
  Owners,         \* lease_owner_reference: stable dispatcher references
  FailureCodes,   \* last_failure_code
  NoOwner,        \* NULL owner
  NoFailure,      \* NULL failure code
  LeaseExpired,   \* the failure code 'lease_expired'
  Budget,         \* maximum_attempt_count of each delivery, immutable
  Times           \* the instants at which transactions begin

ASSUME NullAssumption ==
  /\ NoOwner \notin Owners
  /\ NoFailure \notin FailureCodes
  /\ LeaseExpired \in FailureCodes

\* CHECK (maximum_attempt_count BETWEEN 1 AND 100)
ASSUME BudgetAssumption == Budget \in [Deliveries -> 1..100]

ASSUME TimesAssumption == Times \subseteq Nat /\ 0 \in Times

NoTime == 0     \* NULL lease_expires_at; a lease always ends after time 0

States == {"absent", "pending", "leased", "delivered", "dead_lettered"}

Row == [state     : States,
        attempt   : Nat,
        available : Nat,
        owner     : Owners \cup {NoOwner},
        expires   : Nat,
        failure   : FailureCodes \cup {NoFailure}]

\* The delivery has not been recorded yet.
AbsentRow == [state |-> "absent", attempt |-> 0, available |-> 0,
              owner |-> NoOwner, expires |-> NoTime, failure |-> NoFailure]

\* What record_audit_outbox_event inserts: the defaults of the table.
FreshRow(began) == [AbsentRow EXCEPT !.state = "pending", !.available = began]

Escalation == [delivery : Deliveries, attempt : Nat, failure : FailureCodes]

Terminal(row) == row.state \in {"delivered", "dead_lettered"}

\* outbox_delivery_state_shape_check; delivered_at is not NULL exactly when
\* the state is delivered, so the column is left out.
WellShaped(d, row) ==
  \/ row.state = "absent" /\ row = AbsentRow
  \/ /\ row.state = "pending"
     /\ row.owner = NoOwner /\ row.expires = NoTime
  \/ /\ row.state = "leased"
     /\ row.attempt > 0 /\ row.owner # NoOwner /\ row.expires # NoTime
  \/ /\ row.state = "delivered"
     /\ row.attempt > 0 /\ row.owner = NoOwner /\ row.expires = NoTime
  \/ /\ row.state = "dead_lettered"
     /\ row.attempt > 0 /\ row.attempt >= Budget[d]
     /\ row.owner = NoOwner /\ row.expires = NoTime
     /\ row.failure # NoFailure

\* The escalation record is evidence of exactly this terminal row.
Evidences(e, d, row) ==
  /\ e.delivery = d
  /\ row.state = "dead_lettered"
  /\ e.attempt = row.attempt
  /\ e.failure = row.failure
==============================================================================
