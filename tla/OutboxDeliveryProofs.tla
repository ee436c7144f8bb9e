------------------------- MODULE OutboxDeliveryProofs -------------------------
(***************************************************************************)
(* For every set of deliveries, workers, operators, durations and instants:  *)
(* the dispatcher functions are an implementation of the database guards,    *)
(* whatever sessions interleave, abort or die; and when no two workers       *)
(* present the same reference, a live lease is exclusive and no worker       *)
(* settles an attempt it was not granted.                                    *)
(***************************************************************************)
EXTENDS OutboxDelivery, TLAPS

------------------------------------------------------------------------------
(* The inductive invariant of the refinement *)

Wrote(s) == tx[s].phase = "wrote"

\* The committed rows have the shape the table's CHECK asks for, and a delivery
\* has at most one escalation record.
TablesGuarded ==
  /\ \A d \in Deliveries : WellShaped(d, delivery[d])
  /\ \A e, f \in escalation : e.delivery = f.delivery => e = f

\* FOR UPDATE: a row has one writer at a time.
LockExclusive ==
  \A s, t \in Sessions :
    Wrote(s) /\ Wrote(t) /\ tx[s].target = tx[t].target => s = t

\* New version row of d, with its evidence, is a change the guard permits.
PermittedWrite(d, row, began, evidence) ==
  /\ d \in Deliveries
  /\ WellShaped(d, row)
  /\ Guard!UpdatePermitted(d, delivery[d], row, began, evidence)
  /\ \A e \in evidence :
       /\ Evidences(e, d, row)
       /\ \A f \in escalation \cup evidence : f.delivery = d => f = e

\* What a transaction wrote when it held the row lock is still permitted on the
\* row it will commit over, however long it takes to commit.
WritesStayPermitted ==
  \A s \in Sessions :
    Wrote(s) => PermittedWrite(tx[s].target, tx[s].row, tx[s].began, tx[s].evidence)

GuardInv == TypeOK /\ TablesGuarded /\ LockExclusive /\ WritesStayPermitted

------------------------------------------------------------------------------
(* The guard's vocabulary is that of the functions *)

\* The trigger's module and this one speak of the same rows.
LEMMA GuardVocabulary ==
  /\ Guard!Row = Row
  /\ Guard!Escalation = Escalation
  /\ Guard!AbsentRow = AbsentRow
  /\ \A began : Guard!FreshRow(began) = FreshRow(began)
  /\ \A d, row : Guard!WellShaped(d, row) <=> WellShaped(d, row)
  /\ \A e, d, row : Guard!Evidences(e, d, row) <=> Evidences(e, d, row)
  <1>1. Guard!Row = Row
    BY DEF Guard!Row, Row, Guard!States, States
  <1>2. Guard!Escalation = Escalation
    BY DEF Guard!Escalation, Escalation
  <1>3. Guard!AbsentRow = AbsentRow
    BY DEF Guard!AbsentRow, AbsentRow, Guard!NoTime, NoTime
  <1>4. \A began : Guard!FreshRow(began) = FreshRow(began)
    BY <1>3 DEF Guard!FreshRow, FreshRow
  <1>5. \A d, row : Guard!WellShaped(d, row) <=> WellShaped(d, row)
    BY <1>3 DEF Guard!WellShaped, WellShaped, Guard!NoTime, NoTime
  <1>6. \A e, d, row : Guard!Evidences(e, d, row) <=> Evidences(e, d, row)
    BY DEF Guard!Evidences, Evidences
  <1>7. QED
    BY <1>1, <1>2, <1>3, <1>4, <1>5, <1>6

\* The initial values are rows, transactions and grants.
LEMMA RowTyping ==
  /\ AbsentRow \in Row
  /\ \A began \in Times : FreshRow(began) \in Row
  /\ Idle \in Transaction
  /\ NoGrant \in Grant
  <1>1. AbsentRow \in Row
    BY NullAssumption DEF AbsentRow, Row, States, NoTime
  <1>2. ASSUME NEW began \in Times
        PROVE  FreshRow(began) \in Row
    BY <1>1, TimesAssumption DEF FreshRow, AbsentRow, Row, States
  <1>3. Idle \in Transaction
    BY <1>1, TimesAssumption DEF Idle, Transaction, Calls
  <1>4. NoGrant \in Grant
    BY DEF NoGrant, Grant, NoTime
  <1>5. QED
    BY <1>1, <1>2, <1>3, <1>4

\* Widening the evidence keeps a permitted update permitted.
LEMMA UpdatePermittedMonotone ==
  ASSUME NEW d, NEW old, NEW new, NEW began, NEW fewer, NEW more, fewer \subseteq more,
         Guard!UpdatePermitted(d, old, new, began, fewer)
  PROVE  Guard!UpdatePermitted(d, old, new, began, more)
  BY DEF Guard!UpdatePermitted, Guard!DeadLetterPermitted

\* Only rows that wait or are leased are ever updated.
LEMMA UpdatedRowWasOpen ==
  ASSUME NEW d, NEW old, NEW new, NEW began, NEW evidence,
         Guard!UpdatePermitted(d, old, new, began, evidence)
  PROVE  old.state \in {"pending", "leased"}
  BY DEF Guard!UpdatePermitted, Guard!LeasePermitted, Guard!TakeOverPermitted,
         Guard!RequeuePermitted, Guard!DeliverPermitted, Guard!DeadLetterPermitted

\* Before any event is recorded no row is written or locked.
LEMMA InitGuardInv == Init => GuardInv
  <1> SUFFICES ASSUME Init
               PROVE  GuardInv
    OBVIOUS
  <1>1. TypeOK
    BY RowTyping, TimesAssumption DEF Init, TypeOK
  <1>2. TablesGuarded
    BY DEF Init, TablesGuarded, WellShaped, AbsentRow
  <1>3. \A s \in Sessions : ~Wrote(s)
    BY DEF Init, Wrote, Idle
  <1>4. QED
    BY <1>1, <1>2, <1>3 DEF GuardInv, LockExclusive, WritesStayPermitted

------------------------------------------------------------------------------
(* A call takes a free row lock and writes a permitted new version *)

\* A write that the guard permits is kept in its transaction, under its lock.
LEMMA WriteKeepsInv ==
  ASSUME GuardInv, NEW s \in Sessions, NEW call \in Calls, NEW d \in Deliveries,
         NEW row \in Row, NEW evidence \in SUBSET Escalation,
         Write(s, call, d, row, evidence), ~Locked(d),
         PermittedWrite(d, row, tx[s].began, evidence)
  PROVE  GuardInv'
  <1> USE DEF GuardInv
  <1>1. tx[s].began \in Times
    BY DEF TypeOK, Transaction
  <1>2. TypeOK'
    BY <1>1 DEF TypeOK, Write, Transaction, tables
  <1>3. TablesGuarded'
    BY DEF TablesGuarded, Write, tables
  <1>4. /\ tx'[s] = [phase |-> "wrote", began |-> tx[s].began, call |-> call,
                     target |-> d, row |-> row, evidence |-> evidence]
        /\ \A t \in Sessions \ {s} : tx'[t] = tx[t]
    BY DEF Write, TypeOK
  <1>5. LockExclusive'
    BY <1>4 DEF LockExclusive, Wrote, Locked
  <1>6. WritesStayPermitted'
    <2>1. UNCHANGED <<delivery, escalation>>
      BY DEF Write, tables
    <2>2. ASSUME NEW t \in Sessions, Wrote(t)'
          PROVE  PermittedWrite(tx[t].target, tx[t].row, tx[t].began, tx[t].evidence)'
      BY <1>4, <2>1, <2>2 DEF WritesStayPermitted, Wrote, PermittedWrite
    <2>3. QED
      BY <2>2 DEF WritesStayPermitted
  <1>7. QED
    BY <1>2, <1>3, <1>5, <1>6

\* A claim or takeover of a due row.
LEMMA ClaimKeepsInv ==
  ASSUME GuardInv, NEW w \in Workers, NEW duration \in Durations, Claim(w, duration)
  PROVE  GuardInv'
  <1>1. PICK d \in Candidates(tx[w].began) : Claim(w, duration)!(d)
    BY Zenon DEF Claim
  <1> DEFINE old == delivery[d]
             new == [old EXCEPT
                       !.state = "leased",
                       !.attempt = @ + 1,
                       !.owner = Reference[w],
                       !.expires = tx[w].began + duration,
                       !.failure = IF old.state = "leased" THEN LeaseExpired ELSE @]
  <1>2. /\ d \in Deliveries /\ ~Locked(d) /\ w \in Sessions /\ Due(d, tx[w].began)
        /\ Write(w, "claim", d, new, {})
    BY <1>1 DEF Candidates, Sessions
  <1>3. /\ old \in Row /\ tx[w].began \in Nat /\ Reference[w] \in Owners /\ Reference[w] # NoOwner
        /\ duration \in Nat /\ duration > 0 /\ Budget[d] \in Nat
    BY <1>2, SessionAssumption, NullAssumption, DurationAssumption, TimesAssumption, BudgetAssumption
       DEF GuardInv, TypeOK, Transaction, Sessions
  <1>4. new \in Row
    <2> DEFINE code == IF old.state = "leased" THEN LeaseExpired ELSE old.failure
    <2>1. code \in FailureCodes \cup {NoFailure}
      BY <1>3, NullAssumption DEF Row
    <2>2. new = [old EXCEPT !.state = "leased", !.attempt = old.attempt + 1,
                            !.owner = Reference[w], !.expires = tx[w].began + duration,
                            !.failure = code]
      OBVIOUS
    <2>3. ASSUME NEW row \in Row, NEW a \in Nat, NEW o \in Owners \cup {NoOwner}, NEW x \in Nat,
                 NEW f \in FailureCodes \cup {NoFailure}
          PROVE  [row EXCEPT !.state = "leased", !.attempt = a, !.owner = o, !.expires = x,
                             !.failure = f] \in Row
      BY DEF Row, States
    <2>4. old.attempt + 1 \in Nat /\ tx[w].began + duration \in Nat
      BY <1>3 DEF Row
    <2> HIDE DEF code, new, old
    <2>5. QED
      BY <1>3, <2>1, <2>2, <2>3, <2>4
  <1>5. new.expires > tx[w].began /\ new.expires # NoTime /\ new.attempt > 0
    BY <1>3 DEF Row, NoTime
  <1>6. WellShaped(d, new)
    BY <1>3, <1>5 DEF WellShaped, Row
  <1>7. Guard!UpdatePermitted(d, old, new, tx[w].began, {})
    <2>1. CASE old.state = "pending"
      BY <1>2, <1>3, <1>5, <2>1
         DEF Due, Row, Guard!UpdatePermitted, Guard!LeasePermitted
    <2>2. CASE old.state = "leased"
      BY <1>2, <1>3, <1>5, <2>2
         DEF Due, Expired, Row, Guard!UpdatePermitted, Guard!TakeOverPermitted
    <2>3. QED
      BY <1>2, <2>1, <2>2 DEF Due
  <1>8. PermittedWrite(d, new, tx[w].began, {})
    BY <1>2, <1>6, <1>7 DEF PermittedWrite
  <1>9. QED
    BY <1>2, <1>4, <1>8, WriteKeepsInv DEF Calls

\* An acknowledgement of a row leased to the worker.
LEMMA CompleteKeepsInv ==
  ASSUME GuardInv, NEW w \in Workers, Complete(w)
  PROVE  GuardInv'
  <1> DEFINE d == grant[w].delivery
             old == delivery[d]
             new == [old EXCEPT !.state = "delivered", !.owner = NoOwner, !.expires = NoTime]
  <1>1. /\ w \in Sessions /\ ~Locked(d) /\ OwnedBy(w, d) /\ Write(w, "complete", d, new, {})
    BY DEF Complete, Sessions
  <1>2. d \in Deliveries /\ old \in Row
    BY DEF GuardInv, TypeOK, Grant, Complete
  <1>3. old.state = "leased" /\ old.attempt > 0
    BY <1>1, <1>2 DEF OwnedBy, GuardInv, TablesGuarded, WellShaped, AbsentRow
  <1>4. new \in Row
    BY <1>2 DEF Row, States, NoTime
  <1>5. WellShaped(d, new)
    BY <1>2, <1>3 DEF WellShaped, Row
  <1>6. Guard!UpdatePermitted(d, old, new, tx[w].began, {})
    BY <1>2, <1>3 DEF Guard!UpdatePermitted, Guard!DeliverPermitted, Row, Guard!NoTime, NoTime
  <1>7. PermittedWrite(d, new, tx[w].began, {})
    BY <1>2, <1>5, <1>6 DEF PermittedWrite
  <1>8. QED
    BY <1>1, <1>2, <1>4, <1>7, WriteKeepsInv DEF Calls

\* A leased row with budget left handed back for a later attempt.
LEMMA RetryKeepsInv ==
  ASSUME GuardInv, NEW w \in Workers, NEW failure \in FailureCodes, NEW delay \in Delays,
         Retry(w, failure, delay)
  PROVE  GuardInv'
  <1> DEFINE d == grant[w].delivery
             old == delivery[d]
             new == [old EXCEPT !.state = "pending", !.owner = NoOwner, !.expires = NoTime,
                                !.failure = failure,
                                !.available = Later(@, tx[w].began + delay)]
  <1>1. /\ w \in Sessions /\ ~Locked(d) /\ old.state = "leased" /\ old.attempt < Budget[d]
        /\ Write(w, "retry", d, new, {})
    BY DEF Retry, Sessions, OwnedBy
  <1>2. /\ d \in Deliveries /\ old \in Row
        /\ tx[w].began \in Nat /\ delay \in Nat /\ failure # NoFailure
    BY <1>1, DurationAssumption, TimesAssumption, NullAssumption
       DEF GuardInv, TypeOK, Transaction, Grant, Retry
  <1>3. /\ Later(old.available, tx[w].began + delay) \in Nat
        /\ Later(old.available, tx[w].began + delay) >= old.available
    BY <1>2 DEF Later, Row
  <1>4. new \in Row
    BY <1>2, <1>3 DEF Row, States, NoTime
  <1>5. WellShaped(d, new)
    BY <1>2 DEF WellShaped, Row
  <1>6. Guard!UpdatePermitted(d, old, new, tx[w].began, {})
    BY <1>1, <1>2, <1>3 DEF Guard!UpdatePermitted, Guard!RequeuePermitted, Row, Guard!NoTime, NoTime
  <1>7. PermittedWrite(d, new, tx[w].began, {})
    BY <1>2, <1>5, <1>6 DEF PermittedWrite
  <1>8. QED
    BY <1>1, <1>2, <1>4, <1>7, WriteKeepsInv DEF Calls

\* A leased row at its budget terminated together with its escalation record.
LEMMA TerminateKeepsInv ==
  ASSUME GuardInv, NEW s \in Sessions, NEW call \in Calls, NEW d \in Deliveries,
         NEW failure \in FailureCodes, Terminate(s, call, d, failure),
         ~Locked(d), delivery[d].state = "leased", delivery[d].attempt >= Budget[d]
  PROVE  GuardInv'
  <1> DEFINE old == delivery[d]
             new == [old EXCEPT !.state = "dead_lettered", !.owner = NoOwner,
                                !.expires = NoTime, !.failure = failure]
             record == [delivery |-> d, attempt |-> old.attempt, failure |-> failure]
  <1>1. Write(s, call, d, new, {record}) /\ \A e \in escalation : e.delivery # d
    BY DEF Terminate
  <1>2. old \in Row /\ failure # NoFailure /\ Budget[d] \in 1..100
    BY NullAssumption, BudgetAssumption DEF GuardInv, TypeOK
  <1>3. new \in Row /\ record \in Escalation
    BY <1>2 DEF Row, States, NoTime, Escalation
  <1>4. old.attempt > 0
    BY <1>2 DEF Row
  <1>5. WellShaped(d, new)
    BY <1>2, <1>4 DEF WellShaped, Row
  <1>6. Evidences(record, d, new)
    BY <1>2 DEF Evidences, Row
  <1>7. Guard!UpdatePermitted(d, old, new, tx[s].began, {record})
    BY <1>2, <1>6, GuardVocabulary
       DEF Guard!UpdatePermitted, Guard!DeadLetterPermitted, Row, Guard!NoTime, NoTime
  <1>8. PermittedWrite(d, new, tx[s].began, {record})
    BY <1>1, <1>5, <1>6, <1>7 DEF PermittedWrite
  <1>9. QED
    BY <1>1, <1>3, <1>8, WriteKeepsInv

\* Each of the SQL functions writes nothing, or one row that the guard permits.
LEMMA FunctionsKeepInv ==
  /\ \A w \in Workers, d \in Deliveries, failure \in FailureCodes :
       GuardInv /\ DeadLetter(w, d, failure) => GuardInv'
  /\ \A o \in Operators, d \in Deliveries, failure \in FailureCodes :
       GuardInv /\ OperatorDeadLetter(o, d, failure) => GuardInv'
  <1>1. ASSUME GuardInv, NEW w \in Workers, NEW d \in Deliveries, NEW failure \in FailureCodes,
               DeadLetter(w, d, failure)
        PROVE  GuardInv'
    <2>1. /\ w \in Sessions /\ Terminate(w, "dead_letter", d, failure) /\ ~Locked(d)
          /\ delivery[d].state = "leased" /\ delivery[d].attempt >= Budget[d]
      BY <1>1 DEF DeadLetter, OwnedBy, Sessions
    <2>2. QED
      BY <1>1, <2>1, TerminateKeepsInv DEF Calls
  <1>2. ASSUME GuardInv, NEW o \in Operators, NEW d \in Deliveries, NEW failure \in FailureCodes,
               OperatorDeadLetter(o, d, failure)
        PROVE  GuardInv'
    <2>1. /\ o \in Sessions /\ Terminate(o, "operator_dead_letter", d, failure) /\ ~Locked(d)
          /\ delivery[d].state = "leased" /\ delivery[d].attempt >= Budget[d]
      BY <1>2 DEF OperatorDeadLetter, Sessions
    <2>2. QED
      BY <1>2, <2>1, TerminateKeepsInv DEF Calls
  <1>3. QED
    BY <1>1, <1>2

------------------------------------------------------------------------------
(* Steps that end a transaction or write nothing *)

\* A session whose transaction ends, or begins, holds no row lock.
LEMMA ReleaseKeepsInv ==
  ASSUME GuardInv, NEW s \in Sessions, NEW transaction \in Transaction,
         transaction.phase # "wrote", tx' = [tx EXCEPT ![s] = transaction],
         UNCHANGED <<delivery, escalation, now>>, grant' \in [Workers -> Grant]
  PROVE  GuardInv'
  <1> USE DEF GuardInv
  <1>1. TypeOK' /\ TablesGuarded'
    BY DEF TypeOK, TablesGuarded
  <1>2. \A t \in Sessions : Wrote(t)' => Wrote(t) /\ tx'[t] = tx[t]
    BY DEF TypeOK, Wrote
  <1>3. LockExclusive'
    BY <1>2 DEF LockExclusive, Wrote
  <1>4. WritesStayPermitted'
    BY <1>2 DEF WritesStayPermitted, Wrote, PermittedWrite
  <1>5. QED
    BY <1>1, <1>3, <1>4

\* Beginning, rolling back, crashing and the passing of time write nothing.
LEMMA SessionStepsKeepInv ==
  /\ \A s \in Sessions : GuardInv /\ Begin(s) => GuardInv'
  /\ \A s \in Sessions : GuardInv /\ Abort(s) => GuardInv'
  /\ \A w \in Workers : GuardInv /\ Crash(w) => GuardInv'
  /\ GuardInv /\ Tick => GuardInv'
  <1>1. ASSUME GuardInv, NEW s \in Sessions, Begin(s)
        PROVE  GuardInv'
    <2> DEFINE opened == [Idle EXCEPT !.phase = "open", !.began = now]
    <2>1. opened \in Transaction /\ opened.phase # "wrote"
      BY <1>1, RowTyping DEF GuardInv, TypeOK, Transaction, Idle
    <2>2. grant' \in [Workers -> Grant] /\ UNCHANGED <<delivery, escalation, now>>
          /\ tx' = [tx EXCEPT ![s] = opened]
      BY <1>1 DEF Begin, GuardInv, TypeOK, tables
    <2>3. QED
      BY <1>1, <2>1, <2>2, ReleaseKeepsInv
  <1>2. ASSUME GuardInv, NEW s \in Sessions, Abort(s)
        PROVE  GuardInv'
    <2>1. Idle \in Transaction /\ Idle.phase # "wrote"
      BY RowTyping DEF Idle
    <2>2. QED
      BY <1>2, <2>1, ReleaseKeepsInv DEF Abort, GuardInv, TypeOK, tables
  <1>3. ASSUME GuardInv, NEW w \in Workers, Crash(w)
        PROVE  GuardInv'
    <2>1. Idle \in Transaction /\ Idle.phase # "wrote" /\ NoGrant \in Grant
      BY RowTyping DEF Idle
    <2>2. w \in Sessions /\ grant' \in [Workers -> Grant]
      BY <1>3, <2>1 DEF Crash, Sessions, GuardInv, TypeOK
    <2>3. QED
      BY <1>3, <2>1, <2>2, ReleaseKeepsInv DEF Crash, tables
  <1>4. ASSUME GuardInv, Tick
        PROVE  GuardInv'
    BY <1>4 DEF Tick, GuardInv, TypeOK, TablesGuarded, LockExclusive, WritesStayPermitted,
       PermittedWrite, Wrote, tables
  <1>5. QED
    BY <1>1, <1>2, <1>3, <1>4

------------------------------------------------------------------------------
(* Steps that change the tables *)

\* A commit is one transaction of the guard, on the row it locked.
LEMMA CommitTransacts ==
  ASSUME GuardInv, NEW s \in Sessions, Commit(s)
  PROVE  /\ tx[s].target \in Deliveries /\ tx[s].began \in Times
         /\ Guard!Transact(tx[s].target, tx[s].began)
  <1> DEFINE d == tx[s].target
             new == tx[s].row
             added == tx[s].evidence
  <1>1. tx[s] \in Transaction /\ PermittedWrite(d, new, tx[s].began, added)
    BY DEF GuardInv, TypeOK, WritesStayPermitted, Wrote, Commit
  <1>2. d \in Deliveries /\ tx[s].began \in Times /\ new \in Row /\ added \subseteq Escalation
    BY <1>1 DEF PermittedWrite, Transaction
  <1>3. /\ delivery' = [delivery EXCEPT ![d] = new] /\ delivery'[d] = new
        /\ escalation' = escalation \cup added
    BY <1>2 DEF Commit, GuardInv, TypeOK
  <1>4. /\ delivery'[d] \in Guard!Row
        /\ delivery' = [delivery EXCEPT ![d] = delivery'[d]]
        /\ Guard!WellShaped(d, delivery'[d])
    <2>1. delivery'[d] \in Guard!Row
      BY <1>2, <1>3, GuardVocabulary
    <2>2. Guard!WellShaped(d, new)
      BY <1>1, GuardVocabulary, Zenon DEF PermittedWrite
    <2>3. QED
      BY <1>3, <2>1, <2>2, Zenon
  <1>5. Guard!UpdatePermitted(d, delivery[d], delivery'[d], tx[s].began, escalation')
    BY <1>1, <1>3, UpdatePermittedMonotone DEF PermittedWrite
  <1>6. escalation \subseteq escalation' /\ escalation' \subseteq Guard!Escalation
    BY <1>2, <1>3, GuardVocabulary DEF GuardInv, TypeOK
  <1>7. Guard!EvidenceUnique(escalation')
    BY <1>1, <1>3 DEF Guard!EvidenceUnique, GuardInv, TablesGuarded, PermittedWrite, Evidences
  <1>8. Guard!EvidenceBound(escalation' \ escalation, delivery')
    BY <1>1, <1>3, GuardVocabulary DEF Guard!EvidenceBound, PermittedWrite, Evidences
  <1>9. QED
    BY <1>2, <1>4, <1>5, <1>6, <1>7, <1>8 DEF Guard!Transact

\* A commit publishes the transaction's one row and frees it.
LEMMA CommitKeepsInv ==
  ASSUME GuardInv, NEW s \in Sessions, Commit(s)
  PROVE  GuardInv'
  <1> DEFINE d == tx[s].target
             new == tx[s].row
             added == tx[s].evidence
  <1> USE DEF GuardInv
  <1>1. tx[s] \in Transaction /\ Wrote(s) /\ PermittedWrite(d, new, tx[s].began, added)
    BY DEF TypeOK, WritesStayPermitted, Wrote, Commit
  <1>2. d \in Deliveries /\ new \in Row /\ added \subseteq Escalation
    BY <1>1 DEF PermittedWrite, Transaction
  <1>3. /\ delivery' = [delivery EXCEPT ![d] = new]
        /\ escalation' = escalation \cup added
        /\ tx' = [tx EXCEPT ![s] = Idle] /\ now' = now
    BY DEF Commit
  <1>4. grant' \in [Workers -> Grant]
    <2> SUFFICES ASSUME NEW w \in Workers
                 PROVE  grant'[w] \in Grant
      BY DEF Commit
    <2>1. [delivery |-> d, attempt |-> new.attempt, expires |-> new.expires] \in Grant
      BY <1>2 DEF Grant, Row
    <2>2. grant[w] \in Grant /\ NoGrant \in Grant
      BY RowTyping DEF TypeOK
    <2>3. grant'[w] \in {grant[w], NoGrant,
                         [delivery |-> d, attempt |-> new.attempt, expires |-> new.expires]}
      BY DEF Commit
    <2>4. QED
      BY <2>1, <2>2, <2>3
  <1>5. TypeOK'
    BY <1>2, <1>3, <1>4, RowTyping DEF TypeOK
  <1>6. TablesGuarded'
    BY <1>1, <1>2, <1>3 DEF TablesGuarded, TypeOK, PermittedWrite, Evidences
  <1>7. \A t \in Sessions : Wrote(t)' =>
          Wrote(t) /\ t # s /\ tx'[t] = tx[t] /\ tx[t].target # d
    BY <1>1, <1>3 DEF TypeOK, Wrote, Idle, LockExclusive
  <1>8. LockExclusive'
    BY <1>7 DEF LockExclusive, Wrote
  <1>9. WritesStayPermitted'
    <2> SUFFICES ASSUME NEW t \in Sessions, Wrote(t)'
                 PROVE  PermittedWrite(tx[t].target, tx[t].row, tx[t].began, tx[t].evidence)'
      BY DEF WritesStayPermitted
    <2>1. /\ tx'[t] = tx[t] /\ tx[t].target # d
          /\ PermittedWrite(tx[t].target, tx[t].row, tx[t].began, tx[t].evidence)
      BY <1>7 DEF WritesStayPermitted
    <2>2. delivery'[tx[t].target] = delivery[tx[t].target]
      BY <1>3, <2>1 DEF TypeOK, PermittedWrite
    <2>3. \A f \in added : f.delivery # tx[t].target
      BY <1>1, <2>1 DEF PermittedWrite, Evidences
    <2>4. QED
      BY <1>3, <2>1, <2>2, <2>3 DEF PermittedWrite
  <1>10. QED
    BY <1>5, <1>6, <1>8, <1>9

\* Recording an audit event is the guard's insert.
LEMMA RecordEventTransacts ==
  ASSUME GuardInv, NEW d \in Deliveries, NEW began \in Times, RecordEvent(d, began)
  PROVE  Guard!Transact(d, began)
  <1>1. /\ delivery' = [delivery EXCEPT ![d] = FreshRow(began)]
        /\ delivery'[d] = FreshRow(began) /\ escalation' = escalation
    BY DEF RecordEvent, GuardInv, TypeOK
  <1>2. delivery[d] = AbsentRow
    BY DEF RecordEvent, GuardInv, TablesGuarded, WellShaped
  <1>3. WellShaped(d, FreshRow(began))
    BY DEF WellShaped, FreshRow, AbsentRow
  <1>4. Guard!WellShaped(d, delivery'[d]) /\ delivery'[d] \in Guard!Row
    <2>1. Guard!WellShaped(d, FreshRow(began))
      BY <1>3, GuardVocabulary, Zenon
    <2>2. FreshRow(began) \in Guard!Row
      BY RowTyping, GuardVocabulary
    <2>3. QED
      BY <1>1, <2>1, <2>2, Zenon
  <1>5. Guard!InsertPermitted(delivery[d], delivery'[d], began)
    BY <1>1, <1>2, GuardVocabulary DEF Guard!InsertPermitted
  <1>6. escalation' \subseteq Guard!Escalation /\ Guard!EvidenceUnique(escalation')
    BY <1>1, GuardVocabulary DEF Guard!EvidenceUnique, GuardInv, TypeOK, TablesGuarded
  <1>7. Guard!EvidenceBound(escalation' \ escalation, delivery')
    BY <1>1 DEF Guard!EvidenceBound
  <1>8. QED
    BY <1>1, <1>4, <1>5, <1>6, <1>7 DEF Guard!Transact

\* Recording an event adds a row nobody else has.
LEMMA RecordEventKeepsInv ==
  ASSUME GuardInv, NEW d \in Deliveries, NEW began \in Times, RecordEvent(d, began)
  PROVE  GuardInv'
  <1> USE DEF GuardInv
  <1>1. /\ delivery' = [delivery EXCEPT ![d] = FreshRow(began)]
        /\ UNCHANGED <<escalation, now, tx, grant>>
    BY DEF RecordEvent
  <1>2. TypeOK'
    BY <1>1, RowTyping DEF TypeOK
  <1>3. WellShaped(d, FreshRow(began))
    BY DEF WellShaped, FreshRow, AbsentRow
  <1>4. TablesGuarded' /\ LockExclusive'
    BY <1>1, <1>3 DEF TablesGuarded, LockExclusive, Wrote, TypeOK
  <1>5. ASSUME NEW s \in Sessions, Wrote(s)'
        PROVE  PermittedWrite(tx[s].target, tx[s].row, tx[s].began, tx[s].evidence)'
    <2>1. PermittedWrite(tx[s].target, tx[s].row, tx[s].began, tx[s].evidence)
      BY <1>1, <1>5 DEF WritesStayPermitted, Wrote
    <2>2. tx[s].target # d
      BY <2>1, UpdatedRowWasOpen DEF PermittedWrite, RecordEvent
    <2>3. QED
      BY <1>1, <2>1, <2>2 DEF TypeOK, PermittedWrite
  <1>6. WritesStayPermitted'
    BY <1>5 DEF WritesStayPermitted
  <1>7. QED
    BY <1>2, <1>4, <1>6

\* GuardInv is inductive.
LEMMA NextGuardInv == GuardInv /\ [Next]_vars => GuardInv'
  <1>1. ASSUME GuardInv, NEW w \in Workers, WorkerStep(w)
        PROVE  GuardInv'
    BY <1>1, ClaimKeepsInv, CompleteKeepsInv, RetryKeepsInv, FunctionsKeepInv,
       SessionStepsKeepInv DEF WorkerStep
  <1>2. ASSUME GuardInv, NEW s \in Sessions, SessionStep(s)
        PROVE  GuardInv'
    BY <1>2, SessionStepsKeepInv, CommitKeepsInv DEF SessionStep
  <1>3. ASSUME GuardInv, UNCHANGED vars
        PROVE  GuardInv'
    BY <1>3 DEF vars, tables, GuardInv, TypeOK, TablesGuarded, LockExclusive,
       WritesStayPermitted, PermittedWrite, Wrote
  <1>4. QED
    BY <1>1, <1>2, <1>3, RecordEventKeepsInv, FunctionsKeepInv, SessionStepsKeepInv
       DEF Next, OperatorStep

\* Only commits and recorded events touch the tables.
LEMMA OtherStepsStutter ==
  /\ \A w \in Workers : WorkerStep(w) => UNCHANGED tables
  /\ \A o \in Operators : OperatorStep(o) => UNCHANGED tables
  /\ \A s \in Sessions : Begin(s) \/ Abort(s) => UNCHANGED tables
  /\ Tick => UNCHANGED tables
  <1>1. ASSUME NEW w \in Workers, WorkerStep(w)
        PROVE  UNCHANGED tables
    BY <1>1 DEF WorkerStep, Claim, Complete, Retry, DeadLetter, Terminate, Crash, Write
  <1>2. ASSUME NEW o \in Operators, OperatorStep(o)
        PROVE  UNCHANGED tables
    BY <1>2 DEF OperatorStep, OperatorDeadLetter, Terminate, Write
  <1>3. QED
    BY <1>1, <1>2 DEF Begin, Abort, Tick

\* Every reachable state is well typed: rows, transactions and what the workers
\* remember.
THEOREM Typing == Spec => []TypeOK
  <1>1. GuardInv => TypeOK
    BY DEF GuardInv
  <1>2. QED
    BY InitGuardInv, NextGuardInv, <1>1, PTL DEF Spec

\* The dispatcher functions implement the database guards: every commit of
\* every call is one transaction the trigger and the constraints permit, and
\* every other step leaves the tables alone.
THEOREM Refinement == Spec => Implements
  <1>1. Init => Guard!Init
    BY GuardVocabulary DEF Init, Guard!Init
  <1>2. ASSUME GuardInv, Next
        PROVE  Guard!Next \/ UNCHANGED Guard!vars
    <2>1. CASE \E d \in Deliveries, began \in Times : RecordEvent(d, began)
      BY <1>2, <2>1, RecordEventTransacts DEF Guard!Next
    <2>2. CASE \E w \in Workers : WorkerStep(w)
      BY <2>2, OtherStepsStutter DEF tables, Guard!vars
    <2>3. CASE \E o \in Operators : OperatorStep(o)
      BY <2>3, OtherStepsStutter DEF tables, Guard!vars
    <2>4. CASE \E s \in Sessions : SessionStep(s)
      <3>1. CASE \E s \in Sessions : Commit(s)
        BY <1>2, <3>1, CommitTransacts DEF Guard!Next
      <3>2. CASE \E s \in Sessions : Begin(s) \/ Abort(s)
        BY <3>2, OtherStepsStutter DEF tables, Guard!vars
      <3>3. QED
        BY <2>4, <3>1, <3>2 DEF SessionStep
    <2>5. CASE Tick
      BY <2>5, OtherStepsStutter DEF tables, Guard!vars
    <2>6. QED
      BY <1>2, <2>1, <2>2, <2>3, <2>4, <2>5 DEF Next
  <1>3. GuardInv /\ [Next]_vars => [Guard!Next]_Guard!vars
    BY <1>2 DEF vars, tables, Guard!vars
  <1>4. QED
    BY <1>1, <1>3, InitGuardInv, NextGuardInv, PTL DEF Spec, Implements, Guard!Spec

------------------------------------------------------------------------------
(* Leases.  The operations manual gives each dispatcher process a stable       *)
(* reference of its own; the database cannot tell two processes that share     *)
(* one apart, and outbox_stale_owner shows what happens then.                  *)

DistinctReferences == \A v, w \in Workers : Reference[v] = Reference[w] => v = w

\* A transaction reads the clock when it begins and the clock never goes back.
BeganInThePast == \A s \in Sessions : tx[s].phase # "idle" => tx[s].began <= now

\* Why the transaction of s may overwrite the row it locked: the lease there is
\* over, or it is the worker's own.
MayOverwrite(s) ==
  LET d == tx[s].target IN
  \/ /\ tx[s].call = "claim" /\ s \in Workers
     /\ tx[s].row.state = "leased" /\ tx[s].row.owner = Reference[s]
     /\ delivery[d].state = "leased" => Expired(delivery[d].expires, tx[s].began)
  \/ /\ tx[s].call \in {"complete", "retry"} /\ s \in Workers
     /\ d = grant[s].delivery /\ OwnedBy(s, d) /\ tx[s].row.state # "leased"
     /\ tx[s].row.attempt = delivery[d].attempt
  \/ /\ tx[s].call = "dead_letter" /\ s \in Workers
     /\ OwnedBy(s, d) /\ tx[s].row.state # "leased"
  \/ /\ tx[s].call = "operator_dead_letter"
     /\ Expired(delivery[d].expires, tx[s].began) /\ tx[s].row.state # "leased"

\* While a worker owns the delivery it remembers, it is at the attempt it
\* remembers; and it owns it as long as the remembered lease runs.
GrantHolds(w) ==
  LET d == grant[w].delivery IN
  d # NoDelivery =>
    /\ OwnedBy(w, d) => /\ delivery[d].attempt = grant[w].attempt
                        /\ delivery[d].expires = grant[w].expires
    /\ ~Expired(grant[w].expires, now) => OwnedBy(w, d)

LeaseInv ==
  /\ GuardInv
  /\ BeganInThePast
  /\ \A s \in Sessions : Wrote(s) => MayOverwrite(s)
  /\ \A w \in Workers : GrantHolds(w)

\* At the start nobody holds a lease.
LEMMA InitLeaseInv == Init => LeaseInv
  BY InitGuardInv DEF Init, LeaseInv, BeganInThePast, Wrote, GrantHolds, Idle, NoGrant

\* A call of s that has locked and written d.
LEMMA WriteKeepsLeases ==
  ASSUME LeaseInv, GuardInv', NEW s \in Sessions, NEW call \in Calls, NEW d \in Deliveries,
         NEW row \in Row, NEW evidence, tx[s].phase = "open",
         Write(s, call, d, row, evidence), MayOverwrite(s)'
  PROVE  LeaseInv'
  <1>1. /\ tx'[s] = [phase |-> "wrote", began |-> tx[s].began, call |-> call,
                     target |-> d, row |-> row, evidence |-> evidence]
        /\ \A t \in Sessions \ {s} : tx'[t] = tx[t]
        /\ UNCHANGED <<delivery, escalation, now, grant>>
    BY DEF Write, tables, LeaseInv, GuardInv, TypeOK
  <1>2. BeganInThePast'
    BY <1>1 DEF BeganInThePast, LeaseInv
  <1>3. \A t \in Sessions : Wrote(t)' => MayOverwrite(t)'
    BY <1>1 DEF LeaseInv, Wrote, MayOverwrite, OwnedBy
  <1>4. \A w \in Workers : GrantHolds(w)'
    BY <1>1 DEF LeaseInv, GrantHolds, OwnedBy
  <1>5. QED
    BY <1>2, <1>3, <1>4 DEF LeaseInv

\* A worker's statement renews, ends or takes only the lease it found or its own.
LEMMA WorkerKeepsLeases ==
  ASSUME LeaseInv, GuardInv', NEW w \in Workers, WorkerStep(w)
  PROVE  LeaseInv'
  <1> w \in Sessions
    BY DEF Sessions
  <1> USE DEF Calls
  <1>1. ASSUME NEW duration \in Durations, Claim(w, duration)
        PROVE  LeaseInv'
    <2>1. PICK d \in Candidates(tx[w].began) : Claim(w, duration)!(d)
      BY <1>1, Zenon DEF Claim
    <2> DEFINE row == tx'[w].row
    <2>2. d \in Deliveries /\ Due(d, tx[w].began)
      BY DEF Candidates
    <2>3. /\ Write(w, "claim", d, row, {}) /\ row \in Row
          /\ tx'[w].call = "claim" /\ tx'[w].target = d /\ tx'[w].began = tx[w].began
      BY <2>1 DEF Write, LeaseInv, GuardInv, TypeOK, Transaction
    <2>4. row.state = "leased" /\ row.owner = Reference[w]
      BY <2>1, <2>2 DEF Write, LeaseInv, GuardInv, TypeOK, Row
    <2>5. UNCHANGED <<delivery, grant>>
      BY <2>1 DEF Write, tables
    <2>6. MayOverwrite(w)'
      BY <2>2, <2>3, <2>4, <2>5 DEF MayOverwrite, Due
    <2>7. QED
      BY <2>1, <2>2, <2>3, <2>6, WriteKeepsLeases
  <1>2. ASSUME Complete(w)
        PROVE  LeaseInv'
    <2> DEFINE d == grant[w].delivery
               row == tx'[w].row
    <2>1. d \in Deliveries /\ OwnedBy(w, d) /\ tx[w].phase = "open"
      BY <1>2 DEF Complete, LeaseInv, GuardInv, TypeOK, Grant
    <2>2. /\ Write(w, "complete", d, row, {}) /\ row \in Row
          /\ tx'[w].call = "complete" /\ tx'[w].target = d /\ UNCHANGED <<delivery, grant>>
      BY <1>2 DEF Complete, Write, tables, LeaseInv, GuardInv, TypeOK, Transaction
    <2>3. row.state # "leased" /\ row.attempt = delivery[d].attempt
      BY <1>2, <2>1 DEF Complete, Write, LeaseInv, GuardInv, TypeOK, Row
    <2>4. MayOverwrite(w)'
      BY <2>1, <2>2, <2>3 DEF MayOverwrite, OwnedBy
    <2>5. QED
      BY <2>1, <2>2, <2>4, WriteKeepsLeases
  <1>3. ASSUME NEW failure \in FailureCodes, NEW delay \in Delays, Retry(w, failure, delay)
        PROVE  LeaseInv'
    <2> DEFINE d == grant[w].delivery
               row == tx'[w].row
    <2>1. d \in Deliveries /\ OwnedBy(w, d) /\ tx[w].phase = "open"
      BY <1>3 DEF Retry, LeaseInv, GuardInv, TypeOK, Grant
    <2>2. /\ Write(w, "retry", d, row, {}) /\ row \in Row
          /\ tx'[w].call = "retry" /\ tx'[w].target = d /\ UNCHANGED <<delivery, grant>>
      BY <1>3 DEF Retry, Write, tables, LeaseInv, GuardInv, TypeOK, Transaction
    <2>3. row.state # "leased" /\ row.attempt = delivery[d].attempt
      BY <1>3, <2>1 DEF Retry, Write, LeaseInv, GuardInv, TypeOK, Row
    <2>4. MayOverwrite(w)'
      BY <2>1, <2>2, <2>3 DEF MayOverwrite, OwnedBy
    <2>5. QED
      BY <2>1, <2>2, <2>4, WriteKeepsLeases
  <1>4. ASSUME NEW d \in Deliveries, NEW failure \in FailureCodes, DeadLetter(w, d, failure)
        PROVE  LeaseInv'
    <2> DEFINE row == tx'[w].row
    <2>1. /\ Write(w, "dead_letter", d, row, tx'[w].evidence) /\ row \in Row
          /\ tx'[w].call = "dead_letter" /\ tx'[w].target = d /\ UNCHANGED <<delivery, grant>>
      BY <1>4 DEF DeadLetter, Terminate, Write, tables, LeaseInv, GuardInv, TypeOK, Transaction
    <2>2. row.state # "leased" /\ OwnedBy(w, d) /\ tx[w].phase = "open"
      BY <1>4 DEF DeadLetter, Terminate, Write, LeaseInv, GuardInv, TypeOK, Row
    <2>3. MayOverwrite(w)'
      BY <2>1, <2>2 DEF MayOverwrite, OwnedBy
    <2>4. QED
      BY <2>1, <2>2, <2>3, WriteKeepsLeases
  <1>5. ASSUME Crash(w)
        PROVE  LeaseInv'
    <2>1. /\ tx' = [tx EXCEPT ![w] = Idle] /\ grant' = [grant EXCEPT ![w] = NoGrant]
          /\ UNCHANGED <<delivery, escalation, now>>
      BY <1>5 DEF Crash, tables
    <2>2. BeganInThePast'
      BY <2>1 DEF BeganInThePast, LeaseInv, GuardInv, TypeOK, Idle
    <2>3. ASSUME NEW t \in Sessions, Wrote(t)'
          PROVE  MayOverwrite(t)'
      <3>1. t # w /\ tx'[t] = tx[t] /\ (t \in Workers => grant'[t] = grant[t])
        BY <2>1, <2>3 DEF LeaseInv, GuardInv, TypeOK, Wrote, Idle
      <3>2. MayOverwrite(t)
        BY <2>3, <3>1 DEF LeaseInv, Wrote
      <3>3. QED
        BY <2>1, <3>1, <3>2 DEF MayOverwrite, OwnedBy
    <2>4. ASSUME NEW v \in Workers
          PROVE  GrantHolds(v)'
      BY <2>1 DEF LeaseInv, GuardInv, TypeOK, GrantHolds, OwnedBy, NoGrant
    <2>5. QED
      BY <2>2, <2>3, <2>4 DEF LeaseInv
  <1>6. QED
    BY <1>1, <1>2, <1>3, <1>4, <1>5 DEF WorkerStep

\* An operator takes a delivery out of the rotation, and with it the lease.
LEMMA OperatorKeepsLeases ==
  ASSUME LeaseInv, GuardInv', NEW o \in Operators, NEW d \in Deliveries,
         NEW failure \in FailureCodes, OperatorDeadLetter(o, d, failure)
  PROVE  LeaseInv'
  <1> DEFINE row == tx'[o].row
  <1>1. o \in Sessions
    BY DEF Sessions
  <1>2. /\ Write(o, "operator_dead_letter", d, row, tx'[o].evidence) /\ row \in Row
        /\ tx'[o].call = "operator_dead_letter" /\ tx'[o].target = d
        /\ tx'[o].began = tx[o].began /\ UNCHANGED <<delivery, grant>>
    BY <1>1 DEF OperatorDeadLetter, Terminate, Write, tables, LeaseInv, GuardInv, TypeOK, Transaction
  <1>3. /\ row.state # "leased" /\ tx[o].phase = "open"
        /\ Expired(delivery[d].expires, tx[o].began)
    BY <1>1 DEF OperatorDeadLetter, Terminate, Write, LeaseInv, GuardInv, TypeOK, Row
  <1>4. MayOverwrite(o)'
    BY <1>2, <1>3 DEF MayOverwrite
  <1>5. QED
    BY <1>1, <1>2, <1>3, <1>4, WriteKeepsLeases DEF Calls

\* The commit of s changes the row a worker was granted only when that lease is
\* over or is the worker's own.
LEMMA CommitKeepsGrant ==
  ASSUME DistinctReferences, LeaseInv, NEW s \in Sessions, Commit(s), NEW w \in Workers
  PROVE  GrantHolds(w)'
  <1> DEFINE d == tx[s].target
             row == tx[s].row
  <1>1. /\ delivery' = [delivery EXCEPT ![d] = row] /\ d \in Deliveries /\ row \in Row
        /\ now' = now /\ now \in Nat /\ grant[w] \in Grant /\ delivery \in [Deliveries -> Row]
    BY TimesAssumption
       DEF Commit, LeaseInv, GuardInv, TypeOK, WritesStayPermitted, PermittedWrite, Wrote, Transaction
  <1>2. MayOverwrite(s) /\ tx[s].began <= now /\ tx[s].began \in Nat
    BY TimesAssumption
       DEF Commit, LeaseInv, BeganInThePast, Wrote, GuardInv, TypeOK, Transaction
  <1>3. GrantHolds(w)
    BY DEF LeaseInv
  <1>4. CASE w = s /\ tx[s].call = "claim"
    <2>1. grant'[w] = [delivery |-> d, attempt |-> row.attempt, expires |-> row.expires]
      BY <1>4 DEF Commit
    <2>2. delivery'[d] = row /\ row.state = "leased" /\ row.owner = Reference[w]
      BY <1>1, <1>2, <1>4 DEF MayOverwrite
    <2>3. QED
      BY <2>1, <2>2 DEF GrantHolds, OwnedBy
  <1>5. CASE w = s /\ tx[s].call # "claim" /\ d = grant[w].delivery
    <2>1. grant'[w] = NoGrant
      BY <1>5 DEF Commit
    <2>2. QED
      BY <2>1 DEF GrantHolds, NoGrant
  <1>6. CASE d # grant[w].delivery /\ ~(w = s /\ tx[s].call = "claim")
    <2>1. grant'[w] = grant[w]
      BY <1>6 DEF Commit
    <2>2. grant[w].delivery # NoDelivery => delivery'[grant[w].delivery] = delivery[grant[w].delivery]
      BY <1>1, <1>6 DEF Grant
    <2>3. QED
      BY <1>1, <1>3, <2>1, <2>2 DEF GrantHolds, OwnedBy
  <1>7. CASE d = grant[w].delivery /\ w # s
    <2>1. grant'[w] = grant[w] /\ delivery'[d] = row
      BY <1>1, <1>7 DEF Commit
    <2>2. ~(row.state = "leased" /\ row.owner = Reference[w])
      BY <1>2, <1>7 DEF MayOverwrite, DistinctReferences
    <2>3. Expired(grant[w].expires, now)
      <3> SUFFICES ASSUME ~Expired(grant[w].expires, now)
                   PROVE  FALSE
        OBVIOUS
      <3>1. /\ delivery[d].state = "leased" /\ delivery[d].owner = Reference[w]
            /\ delivery[d].expires = grant[w].expires
        BY <1>1, <1>3, <1>7, SessionAssumption DEF GrantHolds, OwnedBy
      <3>2. ~Expired(delivery[d].expires, tx[s].began)
        BY <1>1, <1>2, <3>1 DEF Expired, Grant
      <3>3. QED
        BY <1>2, <1>7, <3>1, <3>2 DEF MayOverwrite, OwnedBy, DistinctReferences
    <2>4. QED
      BY <1>1, <1>7, <2>1, <2>2, <2>3 DEF GrantHolds, OwnedBy
  <1>8. QED
    BY <1>4, <1>5, <1>6, <1>7

\* A commit, a rollback or a crash leaves each lease with its holder, or without one.
LEMMA SessionKeepsLeases ==
  ASSUME DistinctReferences, LeaseInv, GuardInv', NEW s \in Sessions, SessionStep(s)
  PROVE  LeaseInv'
  <1> USE DEF LeaseInv
  <1>1. tx \in [Sessions -> Transaction] /\ now \in Nat
    BY TimesAssumption DEF GuardInv, TypeOK
  <1>2. ASSUME Begin(s) \/ Abort(s)
        PROVE  LeaseInv'
    <2>1. /\ UNCHANGED <<delivery, escalation, now, grant>>
          /\ ~Wrote(s)'
          /\ tx'[s].phase # "idle" => tx'[s].began = now
          /\ \A t \in Sessions \ {s} : tx'[t] = tx[t]
      <3>1. CASE Begin(s)
        BY <1>1, <3>1 DEF Begin, tables, Wrote, Idle
      <3>2. CASE Abort(s)
        BY <1>1, <3>2 DEF Abort, tables, Wrote, Idle
      <3>3. QED
        BY <1>2, <3>1, <3>2
    <2>2. BeganInThePast'
      BY <1>1, <2>1 DEF BeganInThePast
    <2>3. \A t \in Sessions : Wrote(t)' => MayOverwrite(t)'
      BY <2>1 DEF Wrote, MayOverwrite, OwnedBy
    <2>4. \A w \in Workers : GrantHolds(w)'
      BY <2>1 DEF GrantHolds, OwnedBy
    <2>5. QED
      BY <2>2, <2>3, <2>4
  <1>3. ASSUME Commit(s)
        PROVE  LeaseInv'
    <2>1. /\ tx' = [tx EXCEPT ![s] = Idle] /\ now' = now
          /\ delivery' = [delivery EXCEPT ![tx[s].target] = tx[s].row]
      BY <1>3 DEF Commit
    <2>2. BeganInThePast'
      BY <1>1, <2>1 DEF BeganInThePast, Idle
    <2>3. ASSUME NEW t \in Sessions, Wrote(t)'
          PROVE  MayOverwrite(t)'
      <3>1. t # s /\ tx'[t] = tx[t] /\ Wrote(t) /\ MayOverwrite(t)
        BY <1>1, <2>1, <2>3 DEF Wrote, Idle
      <3>2. tx[t].target # tx[s].target /\ tx[t].target \in Deliveries
        BY <1>3, <3>1 DEF Commit, GuardInv, LockExclusive, Wrote, WritesStayPermitted, PermittedWrite
      <3>3. delivery'[tx[t].target] = delivery[tx[t].target]
        BY <2>1, <3>2 DEF GuardInv, TypeOK
      <3>4. t \in Workers => grant'[t] = grant[t]
        BY <1>3, <3>1 DEF Commit
      <3>5. QED
        BY <3>1, <3>3, <3>4 DEF MayOverwrite, OwnedBy
    <2>4. QED
      BY <1>3, <2>2, <2>3, CommitKeepsGrant
  <1>4. QED
    BY <1>2, <1>3 DEF SessionStep

\* A new delivery is leased to nobody.
LEMMA RecordEventKeepsLeases ==
  ASSUME LeaseInv, GuardInv', NEW d \in Deliveries, NEW began \in Times, RecordEvent(d, began)
  PROVE  LeaseInv'
  <1>1. /\ delivery' = [delivery EXCEPT ![d] = FreshRow(began)] /\ delivery[d].state = "absent"
        /\ delivery \in [Deliveries -> Row] /\ UNCHANGED <<escalation, now, tx, grant>>
    BY DEF RecordEvent, LeaseInv, GuardInv, TypeOK
  <1>2. BeganInThePast'
    BY <1>1 DEF LeaseInv, BeganInThePast
  <1>3. ASSUME NEW s \in Sessions, Wrote(s)'
        PROVE  MayOverwrite(s)'
    <2>1. MayOverwrite(s) /\ tx[s].target \in Deliveries /\ tx[s].target # d
      BY <1>1, <1>3, UpdatedRowWasOpen
         DEF LeaseInv, Wrote, GuardInv, WritesStayPermitted, PermittedWrite
    <2>2. delivery'[tx[s].target] = delivery[tx[s].target]
      BY <1>1, <2>1
    <2>3. QED
      BY <1>1, <2>1, <2>2 DEF MayOverwrite, OwnedBy
  <1>4. ASSUME NEW w \in Workers
        PROVE  GrantHolds(w)'
    <2>1. GrantHolds(w) /\ grant[w] \in Grant
      BY DEF LeaseInv, GuardInv, TypeOK
    <2>2. CASE grant[w].delivery = d
      <3>1. ~OwnedBy(w, d) /\ ~OwnedBy(w, d)'
        BY <1>1 DEF OwnedBy, FreshRow, AbsentRow
      <3>2. QED
        BY <1>1, <2>1, <2>2, <3>1 DEF GrantHolds
    <2>3. CASE grant[w].delivery # d
      BY <1>1, <2>1, <2>3 DEF GrantHolds, OwnedBy, Grant
    <2>4. QED
      BY <2>2, <2>3
  <1>5. QED
    BY <1>2, <1>3, <1>4 DEF LeaseInv

\* Time ends leases and starts none.
LEMMA TickKeepsLeases ==
  ASSUME LeaseInv, GuardInv', Tick
  PROVE  LeaseInv'
  <1>1. /\ now \in Nat /\ now' = now + 1 /\ UNCHANGED <<delivery, escalation, tx, grant>>
        /\ grant \in [Workers -> Grant]
    BY TimesAssumption DEF Tick, tables, LeaseInv, GuardInv, TypeOK
  <1>2. BeganInThePast'
    <2>1. \A s \in Sessions : tx[s].began \in Nat
      BY TimesAssumption DEF LeaseInv, GuardInv, TypeOK, Transaction
    <2>2. QED
      BY <1>1, <2>1 DEF LeaseInv, BeganInThePast
  <1>3. \A s \in Sessions : Wrote(s)' => MayOverwrite(s)'
    BY <1>1 DEF LeaseInv, Wrote, MayOverwrite, OwnedBy
  <1>4. \A w \in Workers : GrantHolds(w)'
    BY <1>1 DEF LeaseInv, GrantHolds, OwnedBy, Expired, Grant
  <1>5. QED
    BY <1>2, <1>3, <1>4 DEF LeaseInv

\* LeaseInv is inductive when no two workers share a reference.
LEMMA NextLeaseInv ==
  ASSUME DistinctReferences
  PROVE  LeaseInv /\ [Next]_vars => LeaseInv'
  <1> SUFFICES ASSUME LeaseInv, [Next]_vars
               PROVE  LeaseInv'
    OBVIOUS
  <1>1. GuardInv'
    BY NextGuardInv DEF LeaseInv
  <1>2. ASSUME UNCHANGED vars
        PROVE  LeaseInv'
    BY <1>1, <1>2 DEF vars, tables, LeaseInv, BeganInThePast, Wrote, MayOverwrite, GrantHolds,
       OwnedBy
  <1>3. QED
    BY <1>1, <1>2, WorkerKeepsLeases, OperatorKeepsLeases, SessionKeepsLeases,
       RecordEventKeepsLeases, TickKeepsLeases DEF Next, OperatorStep

\* A live lease is exclusive: as long as the lease a worker was granted runs,
\* no claim, takeover, late commit or operator moves the row it holds.
THEOREM LiveGrants ==
  ASSUME DistinctReferences
  PROVE  Spec => []LiveGrantHolds
  <1>1. LeaseInv => LiveGrantHolds
    BY DEF LeaseInv, GrantHolds, LiveGrantHolds
  <1>2. QED
    BY InitLeaseInv, NextLeaseInv, <1>1, PTL DEF Spec

\* No worker acknowledges or hands back an attempt later than the one it was
\* granted, however long it slept in between.
THEOREM OwnAttempts ==
  ASSUME DistinctReferences
  PROVE  Spec => []AcknowledgesOwnAttempt
  <1>1. LeaseInv => AcknowledgesOwnAttempt
    <2> SUFFICES ASSUME LeaseInv, NEW w \in Workers, Wrote(w), tx[w].call \in {"complete", "retry"}
                 PROVE  tx[w].row.attempt = grant[w].attempt
      BY DEF AcknowledgesOwnAttempt, Wrote
    <2>1. MayOverwrite(w) /\ GrantHolds(w) /\ tx[w].target \in Deliveries
      BY DEF LeaseInv, GuardInv, WritesStayPermitted, PermittedWrite, Sessions
    <2>2. QED
      BY <2>1, SessionAssumption DEF MayOverwrite, GrantHolds
  <1>2. QED
    BY InitLeaseInv, NextLeaseInv, <1>1, PTL DEF Spec

------------------------------------------------------------------------------
(* What OutboxTransitionProofs proves of the guard holds of the functions. *)

Proved == INSTANCE OutboxTransitionProofs WITH delivery <- delivery, escalation <- escalation

\* The two instances of OutboxTransition are the same specification.
LEMMA SameGuard == Guard!Spec => Proved!Spec
  <1>1. Guard!Init => Proved!Init
    BY DEF Guard!Init, Proved!Init, Guard!AbsentRow, Proved!AbsentRow, Guard!NoTime, Proved!NoTime
  <1>2. Guard!Next => Proved!Next
    BY Zenon
    DEF Guard!Next, Guard!Transact, Guard!Row, Guard!States, Guard!WellShaped, Guard!AbsentRow,
        Guard!NoTime, Guard!InsertPermitted, Guard!FreshRow, Guard!UpdatePermitted,
        Guard!LeasePermitted, Guard!TakeOverPermitted, Guard!RequeuePermitted,
        Guard!DeliverPermitted, Guard!DeadLetterPermitted, Guard!Evidences, Guard!Escalation,
        Guard!EvidenceUnique, Guard!EvidenceBound,
        Proved!Next, Proved!Transact, Proved!Row, Proved!States, Proved!WellShaped, Proved!AbsentRow,
        Proved!NoTime, Proved!InsertPermitted, Proved!FreshRow, Proved!UpdatePermitted,
        Proved!LeasePermitted, Proved!TakeOverPermitted, Proved!RequeuePermitted,
        Proved!DeliverPermitted, Proved!DeadLetterPermitted, Proved!Evidences, Proved!Escalation,
        Proved!EvidenceUnique, Proved!EvidenceBound
  <1>3. [Guard!Next]_Guard!vars => [Proved!Next]_Proved!vars
    BY <1>2 DEF Guard!vars, Proved!vars
  <1>4. QED
    BY <1>1, <1>3, PTL DEF Guard!Spec, Proved!Spec

\* Concurrent dispatchers and operators, whatever they do and in whatever order
\* they commit, never count an attempt past the budget, never strand a pending
\* row, and keep dead-lettering and its evidence together.
THEOREM DispatchersKeepGuarantees ==
  Spec => [](Proved!BudgetRespected /\ Proved!DeadLetterHasEvidence)
  <1>1. Proved!Spec => []Proved!BudgetRespected
    BY Proved!Budgets, NullAssumption, BudgetAssumption, TimesAssumption
  <1>2. Proved!Spec => []Proved!DeadLetterHasEvidence
    BY Proved!Evidence, NullAssumption, BudgetAssumption, TimesAssumption
  <1>3. QED
    BY <1>1, <1>2, Refinement, SameGuard, PTL DEF Implements
==============================================================================
