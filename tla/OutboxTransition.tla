--------------------------- MODULE OutboxTransition ---------------------------
(***************************************************************************)
(* What the database promises about the outbox whatever statement reaches   *)
(* it: the transition trigger protect_outbox_delivery_transition (0007), the *)
(* shape constraint and the escalation constraints and deferred binding      *)
(* guard (0006).  A step is one committed transaction that touches one       *)
(* delivery with any DML: nothing here knows the dispatcher functions, which *)
(* OutboxDelivery shows to be an implementation of this specification.       *)
(*                                                                           *)
(* The transaction timestamp is an input of the step: transactions commit in *)
(* any order, so successive steps may carry decreasing timestamps.           *)
(***************************************************************************)
EXTENDS OutboxRecords

VARIABLES
  delivery,     \* outbox_delivery_record, by identifier
  escalation    \* outbox_delivery_escalation_record, append-only

vars == <<delivery, escalation>>

TypeOK ==
  /\ delivery \in [Deliveries -> Row]
  /\ escalation \subseteq Escalation

Init ==
  /\ delivery = [d \in Deliveries |-> AbsentRow]
  /\ escalation = {}

------------------------------------------------------------------------------
(* The branches of the trigger, one predicate each, on the old and new row.  *)

LeasePermitted(d, old, new, began) ==
  /\ old.state = "pending" /\ new.state = "leased"
  /\ old.attempt < Budget[d]
  /\ new.attempt = old.attempt + 1
  /\ new.owner # NoOwner
  /\ new.expires > began
  /\ new.available = old.available
  /\ new.failure = old.failure

TakeOverPermitted(d, old, new, began) ==
  /\ old.state = "leased" /\ new.state = "leased"
  /\ old.attempt < Budget[d]
  /\ old.expires <= began
  /\ new.attempt = old.attempt + 1
  /\ new.owner # NoOwner
  /\ new.expires > began
  /\ new.available = old.available
  /\ new.failure = LeaseExpired

\* Mutant: the trigger as it was before 0006, with no budget on the retry.
RequeueUnbudgeted(d, old, new) ==
  /\ old.state = "leased" /\ new.state = "pending"
  /\ new.attempt = old.attempt
  /\ new.owner = NoOwner /\ new.expires = NoTime
  /\ new.failure # NoFailure
  /\ new.available >= old.available

RequeuePermitted(d, old, new) ==
  /\ old.state = "leased" /\ new.state = "pending"
  /\ old.attempt < Budget[d]
  /\ new.attempt = old.attempt
  /\ new.owner = NoOwner /\ new.expires = NoTime
  /\ new.failure # NoFailure
  /\ new.available >= old.available

\* The trigger leaves last_failure_code free here.
DeliverPermitted(old, new) ==
  /\ old.state = "leased" /\ new.state = "delivered"
  /\ new.attempt = old.attempt
  /\ new.owner = NoOwner /\ new.expires = NoTime
  /\ new.available = old.available

DeadLetterPermitted(d, old, new, evidence) ==
  /\ old.state = "leased" /\ new.state = "dead_lettered"
  /\ new.attempt = old.attempt
  /\ new.attempt >= Budget[d]
  /\ new.owner = NoOwner /\ new.expires = NoTime
  /\ new.available = old.available
  /\ new.failure # NoFailure
  /\ \E e \in evidence : Evidences(e, d, new)

UpdatePermitted(d, old, new, began, evidence) ==
  \/ LeasePermitted(d, old, new, began)
  \/ TakeOverPermitted(d, old, new, began)
  \/ RequeuePermitted(d, old, new)
  \/ DeliverPermitted(old, new)
  \/ DeadLetterPermitted(d, old, new, evidence)

\* Rows enter the table through record_audit_outbox_event only.
InsertPermitted(old, new, began) ==
  old = AbsentRow /\ new = FreshRow(began)

\* Mutant: the binding guard forgets to compare the state.
EvidenceBoundToAnyState(added, rows) ==
  \A e \in added :
    /\ rows[e.delivery].attempt = e.attempt
    /\ rows[e.delivery].failure = e.failure

\* The deferred binding guard: at commit, new evidence matches its delivery.
EvidenceBound(added, rows) ==
  \A e \in added : Evidences(e, e.delivery, rows[e.delivery])

\* outbox_escalation_delivery_unique
EvidenceUnique(records) ==
  \A e, f \in records : e.delivery = f.delivery => e = f

------------------------------------------------------------------------------
\* One committed transaction on delivery d that began at the given time.
Transact(d, began) ==
  /\ delivery'[d] \in Row
  /\ delivery' = [delivery EXCEPT ![d] = delivery'[d]]
  /\ WellShaped(d, delivery'[d])
  /\ \/ delivery'[d] = delivery[d]
     \/ InsertPermitted(delivery[d], delivery'[d], began)
     \/ UpdatePermitted(d, delivery[d], delivery'[d], began, escalation')
  /\ escalation \subseteq escalation'
  /\ escalation' \subseteq Escalation
  /\ EvidenceUnique(escalation')
  /\ EvidenceBound(escalation' \ escalation, delivery')

\* Some transaction, whenever it began, on some delivery.
Next == \E d \in Deliveries, began \in Times : Transact(d, began)

Spec == Init /\ [][Next]_vars

------------------------------------------------------------------------------
(* Safety *)

\* The durable retry budget (0006, 0007: "a dispatcher cannot manufacture
\* attempt N+1"): no sequence of claims, takeovers and retries counts an
\* attempt past the budget, and no pending row has used it up, so a row that
\* waits can always still be claimed.
BudgetRespected ==
  \A d \in Deliveries :
    /\ delivery[d].attempt <= Budget[d]
    /\ delivery[d].state = "pending" => delivery[d].attempt < Budget[d]

\* Dead-lettering and its evidence stand or fall together (OPERABILITY): every
\* dead-lettered row has an escalation record of its attempt count and failure
\* code, every escalation record a dead-lettered row that still agrees with it.
DeadLetterHasEvidence ==
  /\ \A d \in Deliveries :
       delivery[d].state = "dead_lettered" =>
         \E e \in escalation : Evidences(e, d, delivery[d])
  /\ \A e \in escalation : Evidences(e, e.delivery, delivery[e.delivery])
==============================================================================
