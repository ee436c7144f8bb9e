---------------------------- MODULE OutboxDelivery ----------------------------
(***************************************************************************)
(* The dispatcher functions of the outbox (database/migrations 0003-0008):  *)
(* record_audit_outbox_event, claim_, complete_, retry_, dead_letter_ and    *)
(* operator_dead_letter_expired_outbox_delivery, called by concurrent        *)
(* database sessions.                                                        *)
(*                                                                           *)
(* A call runs in a transaction of its own, in three steps, because the code  *)
(* depends on each of them: Begin fixes transaction_timestamp(), the call     *)
(* takes the row lock, reads the row and writes it, and Commit publishes the  *)
(* write and releases the lock.  Between the first two the clock moves and    *)
(* others commit; between the last two claims skip the row (SKIP LOCKED) and  *)
(* the other calls wait for it (FOR UPDATE).  Abort stands for every          *)
(* exception, failed check, disconnection and client rollback.                *)
(***************************************************************************)
EXTENDS OutboxRecords

CONSTANTS
  Workers,      \* dispatcher processes, each with a session
  Operators,    \* sessions holding orgmetra_outbox_operator
  Reference,    \* the stable reference each worker presents as lease owner
  Durations,    \* p_lease_duration_seconds
  Delays,       \* p_retry_delay_seconds
  NoDelivery    \* no delivery

ASSUME SessionAssumption ==
  /\ Workers \cap Operators = {}
  /\ Reference \in [Workers -> Owners]
  /\ NoDelivery \notin Deliveries

\* Both are checked to be at least one second.
ASSUME DurationAssumption ==
  /\ Durations \subseteq Nat \ {0}
  /\ Delays \subseteq Nat \ {0}

VARIABLES
  delivery,     \* the committed rows
  escalation,   \* the committed escalation records
  now,          \* the database clock
  tx,           \* the open transaction of each session
  grant         \* what each worker process remembers of its last claim

vars == <<delivery, escalation, now, tx, grant>>
tables == <<delivery, escalation>>

Sessions == Workers \cup Operators

Calls == {"none", "claim", "complete", "retry", "dead_letter", "operator_dead_letter"}

\* phase "wrote": the row lock of target is held and row is its new version.
Transaction ==
  [phase    : {"idle", "open", "wrote"},
   began    : Times,
   call     : Calls,
   target   : Deliveries \cup {NoDelivery},
   row      : Row,
   evidence : SUBSET Escalation]

Idle == [phase |-> "idle", began |-> 0, call |-> "none", target |-> NoDelivery,
         row |-> AbsentRow, evidence |-> {}]

Grant == [delivery : Deliveries \cup {NoDelivery}, attempt : Nat, expires : Nat]

NoGrant == [delivery |-> NoDelivery, attempt |-> 0, expires |-> NoTime]

TypeOK ==
  /\ delivery \in [Deliveries -> Row]
  /\ escalation \subseteq Escalation
  /\ now \in Times
  /\ tx \in [Sessions -> Transaction]
  /\ grant \in [Workers -> Grant]

Init ==
  /\ delivery = [d \in Deliveries |-> AbsentRow]
  /\ escalation = {}
  /\ now = 0
  /\ tx = [s \in Sessions |-> Idle]
  /\ grant = [w \in Workers |-> NoGrant]

------------------------------------------------------------------------------
(* Transactions and row locks *)

\* Mutant: the calls read the row without FOR UPDATE.
LockedNever(d) == FALSE

Locked(d) == \E s \in Sessions : tx[s].phase = "wrote" /\ tx[s].target = d

\* A lease that runs to expires is over for a transaction begun at began.
Expired(expires, began) == expires <= began

\* Mutant: any worker may act on a leased row.
OwnedByAnyone(w, d) == delivery[d].state = "leased"

OwnedBy(w, d) == delivery[d].state = "leased" /\ delivery[d].owner = Reference[w]

Begin(s) ==
  /\ tx[s].phase = "idle"
  /\ tx' = [tx EXCEPT ![s] = [Idle EXCEPT !.phase = "open", !.began = now]]
  /\ UNCHANGED <<tables, now, grant>>

\* The session of s locks d, reads it and writes its new version.
Write(s, call, d, row, evidence) ==
  /\ tx' = [tx EXCEPT ![s] = [phase |-> "wrote", began |-> tx[s].began, call |-> call,
                              target |-> d, row |-> row, evidence |-> evidence]]
  /\ UNCHANGED <<tables, now, grant>>

\* Row version and memory of the worker once the transaction of s commits.
Commit(s) ==
  /\ tx[s].phase = "wrote"
  /\ delivery' = [delivery EXCEPT ![tx[s].target] = tx[s].row]
  /\ escalation' = escalation \cup tx[s].evidence
  /\ tx' = [tx EXCEPT ![s] = Idle]
  /\ grant' = [w \in Workers |->
       IF w # s THEN grant[w]
       ELSE IF tx[s].call = "claim"
            THEN [delivery |-> tx[s].target, attempt |-> tx[s].row.attempt,
                  expires |-> tx[s].row.expires]
            ELSE IF tx[s].target = grant[w].delivery THEN NoGrant ELSE grant[w]]
  /\ UNCHANGED now

Abort(s) ==
  /\ tx[s].phase # "idle"
  /\ tx' = [tx EXCEPT ![s] = Idle]
  /\ UNCHANGED <<tables, now, grant>>

\* The process dies: its transaction rolls back and it forgets its claim.
Crash(w) ==
  /\ grant[w] # NoGrant \/ tx[w] # Idle
  /\ tx' = [tx EXCEPT ![w] = Idle]
  /\ grant' = [grant EXCEPT ![w] = NoGrant]
  /\ UNCHANGED <<tables, now>>

------------------------------------------------------------------------------
(* The functions *)

\* A business transaction that began at the given time commits its audit event
\* and the pending delivery; no other session sees the row before.
RecordEvent(d, began) ==
  /\ delivery[d].state = "absent"
  /\ began <= now
  /\ delivery' = [delivery EXCEPT ![d] = FreshRow(began)]
  /\ UNCHANGED <<escalation, now, tx, grant>>

Due(d, began) ==
  /\ delivery[d].attempt < Budget[d]
  /\ \/ delivery[d].state = "pending" /\ delivery[d].available <= began
     \/ delivery[d].state = "leased" /\ Expired(delivery[d].expires, began)

\* The rows the candidate query can lock at once.
Candidates(began) == {d \in Deliveries : Due(d, began) /\ ~Locked(d)}

\* Mutant: the lease ends before it begins.
ClaimBackwards(w, duration) ==
  \E d \in Candidates(tx[w].began) :
    /\ tx[w].phase = "open"
    /\ Write(w, "claim", d,
             [delivery[d] EXCEPT
                !.state = "leased",
                !.attempt = @ + 1,
                !.owner = Reference[w],
                !.expires = tx[w].began - duration],
             {})

\* Ordered by available_at; recorded_at and the identifier only break ties,
\* which stay open here.
Claim(w, duration) ==
  \E d \in Candidates(tx[w].began) :
    /\ tx[w].phase = "open"
    /\ \A e \in Candidates(tx[w].began) :
         delivery[d].available <= delivery[e].available
    /\ Write(w, "claim", d,
             [delivery[d] EXCEPT
                !.state = "leased",
                !.attempt = @ + 1,
                !.owner = Reference[w],
                !.expires = tx[w].began + duration,
                !.failure = IF delivery[d].state = "leased" THEN LeaseExpired ELSE @],
             {})

\* The worker acknowledges the delivery it was last granted.
Complete(w) ==
  LET d == grant[w].delivery IN
  /\ tx[w].phase = "open"
  /\ d # NoDelivery
  /\ ~Locked(d)
  /\ OwnedBy(w, d)
  /\ ~Expired(delivery[d].expires, tx[w].began)
  /\ Write(w, "complete", d,
           [delivery[d] EXCEPT !.state = "delivered", !.owner = NoOwner, !.expires = NoTime],
           {})

Later(s, t) == IF s <= t THEN t ELSE s

\* Mutant: retry as 0005 had it, with no attempt budget.
RetryUnbudgeted(w, failure, delay) ==
  LET d == grant[w].delivery IN
  /\ tx[w].phase = "open"
  /\ d # NoDelivery
  /\ ~Locked(d)
  /\ OwnedBy(w, d)
  /\ ~Expired(delivery[d].expires, tx[w].began)
  /\ Write(w, "retry", d,
           [delivery[d] EXCEPT !.state = "pending", !.owner = NoOwner, !.expires = NoTime,
                               !.failure = failure,
                               !.available = Later(@, tx[w].began + delay)],
           {})

\* The worker hands back the delivery it was last granted.
Retry(w, failure, delay) ==
  LET d == grant[w].delivery IN
  /\ tx[w].phase = "open"
  /\ d # NoDelivery
  /\ ~Locked(d)
  /\ OwnedBy(w, d)
  /\ delivery[d].attempt < Budget[d]
  /\ ~Expired(delivery[d].expires, tx[w].began)
  /\ Write(w, "retry", d,
           [delivery[d] EXCEPT !.state = "pending", !.owner = NoOwner, !.expires = NoTime,
                               !.failure = failure,
                               !.available = Later(@, tx[w].began + delay)],
           {})

\* Insert the escalation record and terminate the row, in one transaction.
\* The unique constraint refuses a second escalation record.
Terminate(s, call, d, failure) ==
  /\ \A e \in escalation : e.delivery # d
  /\ Write(s, call, d,
           [delivery[d] EXCEPT !.state = "dead_lettered", !.owner = NoOwner,
                               !.expires = NoTime, !.failure = failure],
           {[delivery |-> d, attempt |-> delivery[d].attempt, failure |-> failure]})

\* A worker may terminate a delivery it does not remember: a restarted process
\* with the same reference finds it in the table.  The lease may be over.
DeadLetter(w, d, failure) ==
  /\ tx[w].phase = "open"
  /\ ~Locked(d)
  /\ OwnedBy(w, d)
  /\ delivery[d].attempt >= Budget[d]
  /\ Terminate(w, "dead_letter", d, failure)

\* Mutant: off by one, the budget is never exceeded.
OperatorDeadLetterPastBudget(o, d, failure) ==
  /\ tx[o].phase = "open"
  /\ ~Locked(d)
  /\ delivery[d].state = "leased"
  /\ delivery[d].attempt > Budget[d]
  /\ Expired(delivery[d].expires, tx[o].began)
  /\ Terminate(o, "operator_dead_letter", d, failure)

OperatorDeadLetter(o, d, failure) ==
  /\ tx[o].phase = "open"
  /\ ~Locked(d)
  /\ delivery[d].state = "leased"
  /\ delivery[d].attempt >= Budget[d]
  /\ Expired(delivery[d].expires, tx[o].began)
  /\ Terminate(o, "operator_dead_letter", d, failure)

------------------------------------------------------------------------------
\* Time passes while a lease or a retry delay is still running: the clock is
\* compared with nothing else.
Tick ==
  /\ \E d \in Deliveries :
       \/ delivery[d].state = "leased" /\ ~Expired(delivery[d].expires, now)
       \/ delivery[d].state = "pending" /\ delivery[d].available > now
  /\ now + 1 \in Times
  /\ now' = now + 1
  /\ UNCHANGED <<tables, tx, grant>>

WorkerStep(w) ==
  \/ \E duration \in Durations : Claim(w, duration)
  \/ Complete(w)
  \/ \E failure \in FailureCodes, delay \in Delays : Retry(w, failure, delay)
  \/ \E d \in Deliveries, failure \in FailureCodes : DeadLetter(w, d, failure)
  \/ Crash(w)

OperatorStep(o) ==
  \E d \in Deliveries, failure \in FailureCodes : OperatorDeadLetter(o, d, failure)

SessionStep(s) == Begin(s) \/ Commit(s) \/ Abort(s)

Next ==
  \/ \E d \in Deliveries, began \in Times : RecordEvent(d, began)
  \/ \E w \in Workers : WorkerStep(w)
  \/ \E o \in Operators : OperatorStep(o)
  \/ \E s \in Sessions : SessionStep(s)
  \/ Tick

Spec == Init /\ [][Next]_vars

\* What liveness needs of the processes outside the repository: every session
\* keeps starting and ending transactions, not every write it makes is rolled
\* back, dispatchers poll for due work and operators clear stranded final
\* leases.  No worker is assumed to acknowledge, hand back or dead-letter
\* anything, and each may crash at any time.  Strong fairness, because a row
\* lock or an ill-timed crash disables these steps again and again.
Fairness ==
  /\ WF_vars(Tick)
  /\ \A s \in Sessions : WF_vars(Begin(s)) /\ WF_vars(Abort(s)) /\ SF_vars(Commit(s))
  /\ \A w \in Workers : SF_vars(\E duration \in Durations : Claim(w, duration))
  /\ \A o \in Operators : SF_vars(OperatorStep(o))

FairSpec == Spec /\ Fairness

------------------------------------------------------------------------------
(* Properties *)

\* The functions never commit a change the database guards would refuse: each
\* transaction is a step of OutboxTransition, although it read the clock when
\* it began and others committed before it took the row lock.
Guard == INSTANCE OutboxTransition WITH delivery <- delivery, escalation <- escalation

Implements == Guard!Spec

\* A live lease is exclusive (OPERABILITY: "A live leased row is never
\* claimable"; recovery "does not permit takeover of live or retryable work").
\* While the lease a worker was granted still runs on the clock, the row stays
\* leased to it at that attempt: no takeover, no operator, no lost update of a
\* concurrent claim moves it.  Needs a reference of its own for each process.
LiveGrantHolds ==
  \A w \in Workers :
    LET d == grant[w].delivery IN
    d # NoDelivery /\ ~Expired(grant[w].expires, now) =>
      /\ OwnedBy(w, d)
      /\ delivery[d].attempt = grant[w].attempt
      /\ delivery[d].expires = grant[w].expires

\* A worker settles the attempt it was granted and no later one (OPERABILITY:
\* "a stale worker cannot acknowledge work after losing its lease").
AcknowledgesOwnAttempt ==
  \A w \in Workers :
    tx[w].phase = "wrote" /\ tx[w].call \in {"complete", "retry"} =>
      tx[w].row.attempt = grant[w].attempt

\* Every recorded delivery is eventually delivered or dead-lettered, whatever
\* crashes, expired leases and abandoned claims come first.
EveryDeliverySettles ==
  \A d \in Deliveries :
    delivery[d].state # "absent" ~> Terminal(delivery[d])
==============================================================================
