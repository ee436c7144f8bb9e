------------------------ MODULE OutboxTransitionProofs ------------------------
(***************************************************************************)
(* For every set of deliveries, owners and failure codes, every budget and   *)
(* every set of instants: whatever DML is committed against the outbox       *)
(* tables, the budget is respected and dead-lettering has its evidence.      *)
(***************************************************************************)
EXTENDS OutboxTransition, TLAPS

\* DeadLetterHasEvidence needs that terminal rows do not change, which the
\* trigger ensures branch by branch.
Inv == TypeOK /\ BudgetRespected /\ DeadLetterHasEvidence

\* The tables are empty at first.
LEMMA InitInv == Init => Inv
  <1>1. AbsentRow \in Row
    BY NullAssumption DEF AbsentRow, Row, States, NoTime
  <1>2. Init => TypeOK
    BY <1>1 DEF Init, TypeOK
  <1>3. ASSUME Init
        PROVE  BudgetRespected
    <2> SUFFICES ASSUME NEW d \in Deliveries
                 PROVE  /\ delivery[d].attempt <= Budget[d]
                        /\ delivery[d].state = "pending" => delivery[d].attempt < Budget[d]
      BY DEF BudgetRespected
    <2>1. delivery[d].attempt = 0 /\ delivery[d].state = "absent"
      BY <1>3 DEF Init, AbsentRow
    <2>2. Budget[d] \in 1..100
      BY BudgetAssumption
    <2>3. QED
      BY <2>1, <2>2
  <1>4. Init => DeadLetterHasEvidence
    BY DEF Init, DeadLetterHasEvidence, AbsentRow
  <1>5. QED
    BY <1>2, <1>3, <1>4 DEF Inv

\* What one transaction leaves alone: every other row.
LEMMA OthersUnchanged ==
  ASSUME NEW d \in Deliveries, NEW began \in Times, TypeOK, Transact(d, began)
  PROVE  /\ delivery' \in [Deliveries -> Row]
         /\ \A e \in Deliveries \ {d} : delivery'[e] = delivery[e]
         /\ TypeOK'
  BY DEF TypeOK, Transact

\* A terminal row survives every transaction unchanged.
LEMMA TerminalRowStays ==
  ASSUME NEW d \in Deliveries, NEW began \in Times, Transact(d, began),
         Terminal(delivery[d])
  PROVE  delivery'[d] = delivery[d]
  BY DEF Transact, Terminal, InsertPermitted, AbsentRow, UpdatePermitted, LeasePermitted,
         TakeOverPermitted, RequeuePermitted, DeliverPermitted, DeadLetterPermitted

\* One transaction keeps the budget.
LEMMA TransactBudget ==
  ASSUME NEW d \in Deliveries, NEW began \in Times, Inv, Transact(d, began)
  PROVE  BudgetRespected'
  <1> DEFINE old == delivery[d]
             new == delivery'[d]
  <1>1. old \in Row /\ new \in Row /\ Budget[d] \in 1..100
    BY OthersUnchanged, BudgetAssumption DEF Inv, TypeOK
  <1>2. old.attempt <= Budget[d] /\ (old.state = "pending" => old.attempt < Budget[d])
    BY DEF Inv, BudgetRespected
  <1>3. new.attempt <= Budget[d] /\ (new.state = "pending" => new.attempt < Budget[d])
    <2>1. CASE new = old
      BY <1>2, <2>1
    <2>2. CASE InsertPermitted(old, new, began)
      BY <1>1, <2>2 DEF InsertPermitted, FreshRow, AbsentRow
    <2>3. CASE LeasePermitted(d, old, new, began)
      BY <1>1, <2>3 DEF LeasePermitted, Row
    <2>4. CASE TakeOverPermitted(d, old, new, began)
      BY <1>1, <2>4 DEF TakeOverPermitted, Row
    <2>5. CASE RequeuePermitted(d, old, new)
      BY <1>1, <2>5 DEF RequeuePermitted, Row
    <2>6. CASE DeliverPermitted(old, new)
      BY <1>2, <2>6 DEF DeliverPermitted
    <2>7. CASE DeadLetterPermitted(d, old, new, escalation')
      BY <1>2, <2>7 DEF DeadLetterPermitted
    <2>8. QED
      BY <2>1, <2>2, <2>3, <2>4, <2>5, <2>6, <2>7 DEF Transact, UpdatePermitted
  <1>4. QED
    BY <1>3, OthersUnchanged DEF Inv, BudgetRespected

\* One transaction keeps dead-lettered rows and escalation records together.
LEMMA TransactEvidence ==
  ASSUME NEW d \in Deliveries, NEW began \in Times, Inv, Transact(d, began)
  PROVE  DeadLetterHasEvidence'
  <1>1. TypeOK /\ TypeOK' /\ \A e \in Deliveries \ {d} : delivery'[e] = delivery[e]
    BY OthersUnchanged DEF Inv
  <1>2. ASSUME NEW c \in Deliveries, delivery'[c].state = "dead_lettered"
        PROVE  \E e \in escalation' : Evidences(e, c, delivery'[c])
    <2>1. CASE delivery'[c] = delivery[c]
      BY <1>2, <2>1 DEF Inv, DeadLetterHasEvidence, Transact
    <2>2. CASE delivery'[c] # delivery[c]
      <3>1. c = d
        BY <1>1, <2>2
      <3>2. ~InsertPermitted(delivery[d], delivery'[d], began)
        BY <1>2, <3>1 DEF InsertPermitted, FreshRow, AbsentRow
      <3>3. UpdatePermitted(d, delivery[d], delivery'[d], began, escalation')
        BY <2>2, <3>1, <3>2 DEF Transact
      <3>4. DeadLetterPermitted(d, delivery[d], delivery'[d], escalation')
        BY <1>2, <3>1, <3>3 DEF UpdatePermitted, LeasePermitted, TakeOverPermitted,
           RequeuePermitted, DeliverPermitted
      <3>5. QED
        BY <3>1, <3>4 DEF DeadLetterPermitted
    <2>3. QED
      BY <2>1, <2>2
  <1>3. ASSUME NEW e \in escalation'
        PROVE  Evidences(e, e.delivery, delivery'[e.delivery])
    <2>1. CASE e \in escalation
      <3>1. e.delivery \in Deliveries /\ Evidences(e, e.delivery, delivery[e.delivery])
        BY <1>1, <2>1 DEF TypeOK, Escalation, Inv, DeadLetterHasEvidence
      <3>2. delivery'[e.delivery] = delivery[e.delivery]
        BY <1>1, <3>1, TerminalRowStays DEF Evidences, Terminal
      <3>3. QED
        BY <3>1, <3>2
    <2>2. CASE e \notin escalation
      BY <1>3, <2>2 DEF Transact, EvidenceBound
    <2>3. QED
      BY <2>1, <2>2
  <1>4. QED
    BY <1>2, <1>3 DEF DeadLetterHasEvidence

\* Inv is inductive.
LEMMA NextInv == Inv /\ [Next]_vars => Inv'
  <1>1. ASSUME Inv, NEW d \in Deliveries, NEW began \in Times, Transact(d, began)
        PROVE  Inv'
    BY <1>1, OthersUnchanged, TransactBudget, TransactEvidence DEF Inv
  <1>2. ASSUME Inv, UNCHANGED vars
        PROVE  Inv'
    BY <1>2 DEF vars, Inv, TypeOK, BudgetRespected, DeadLetterHasEvidence
  <1>3. QED
    BY <1>1, <1>2 DEF Next

\* Every reachable outbox has well-typed rows and escalation records.
THEOREM Typing == Spec => []TypeOK
  <1>1. Inv => TypeOK
    BY DEF Inv
  <1>2. QED
    BY InitInv, NextInv, <1>1, PTL DEF Spec

\* No transaction whatever counts an attempt past the stored budget, and a
\* pending row can always still be claimed.
THEOREM Budgets == Spec => []BudgetRespected
  <1>1. Inv => BudgetRespected
    BY DEF Inv
  <1>2. QED
    BY InitInv, NextInv, <1>1, PTL DEF Spec

\* Dead-lettered rows and escalation records always agree.
THEOREM Evidence == Spec => []DeadLetterHasEvidence
  <1>1. Inv => DeadLetterHasEvidence
    BY DEF Inv
  <1>2. QED
    BY InitInv, NextInv, <1>1, PTL DEF Spec
==============================================================================
