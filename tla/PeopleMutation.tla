---------------------------- MODULE PeopleMutation ----------------------------
(***************************************************************************)
(* The governed People writes (services/people-api): accept_hire,            *)
(* create_employment, create_position and create_assignment, each request in   *)
(* a READ COMMITTED transaction of its own, one SQL statement per step.        *)
(*                                                                           *)
(* Every command first takes the advisory lock of its route and               *)
(* Idempotency-Key and replays what the key is bound to.  Employment and       *)
(* assignment commands then lock the conversion of their person, assignment    *)
(* commands also the position, and only then read the clock and the facts they  *)
(* decide on.  The inserts of a command share one step: what one of them waits  *)
(* for, or is refused for, is part of that step.                              *)
(* Tenants never share rows (row-level security): one tenant.                  *)
(***************************************************************************)
EXTENDS WorkforceComposition

CONSTANTS
  Requests,     \* the POSTs; also the fresh record identities of each
  Key,          \* the Idempotency-Key of each request
  Command,      \* the route and semantic command of each request
  Confirmed,    \* <<candidate, actor>> of every sealed, confirmed hire decision
  Persons,
  SeedConversions, SeedEmployments, SeedPositions,  \* committed at time 0
  MaxTime

Routes == {"candidate-worker-conversions", "employment-records",
           "position-records", "assignment-records"}

ASSUME ClockAssumption == MaxTime \in Nat /\ MaxTime < Forever

\* What the constructors of the commands let through.
ASSUME CommandAssumption ==
  \A r \in Requests :
    /\ Command[r].route \in Routes
    /\ Command[r].from \in Days
    /\ Command[r].route # "position-records" => Command[r].person \in Persons
    /\ Command[r].route = "assignment-records" => Command[r].ratio \in 1..One

Hires == {r \in Requests : Command[r].route = "candidate-worker-conversions"}

\* Identities are UUIDs of their own; those a hire brings stand or fall with its
\* person.
ASSUME IdentityAssumption ==
  /\ \A e \in SeedEmployments : e.employment \notin Requests
  /\ \A p \in SeedPositions : p.position \notin Requests
  /\ \A r \in Hires :
       /\ Command[r].employment \notin Requests
       /\ \A e \in SeedEmployments :
            e.employment = Command[r].employment => e.person = Command[r].person
       /\ \A q \in Hires :
            Command[q].employment = Command[r].employment => Command[q].person = Command[r].person

\* What earlier writes left behind: nothing of it is closed, versions of one employment
\* follow each other (the exclusion constraint of employment_record_version), every
\* employment is of a converted person, and exclusive employments of a person do not
\* overlap.
ASSUME SeedAssumption ==
  /\ IsFiniteSet(SeedEmployments)
  /\ \A e \in SeedEmployments :
       /\ e.from \in Days /\ e.to \in Days \cup {Forever} /\ e.from < e.to
       /\ e.since = 0 /\ e.until = Forever /\ e.person \in Persons
       /\ \E c \in SeedConversions : c.person = e.person
       /\ \A f \in SeedEmployments : e.employment = f.employment /\ Overlaps(e, f) => e = f
  /\ \A p \in SeedPositions : p.since = 0 /\ p.until = Forever
  /\ \A p \in Persons : Exclusive({e \in SeedEmployments : e.person = p}, 0)

VARIABLES
  conversion,   \* current candidate_worker_conversion_record rows
  employment,   \* employment_record and its versions
  position,     \* position_record and its versions
  assignment,   \* assignment_record
  binding,      \* people_mutation_idempotency_record
  audited,      \* requests whose audit event and outbox delivery are committed
  now,          \* the database clock
  tx,           \* the transaction of each request
  reply         \* the outcome of each request

vars == <<conversion, employment, position, assignment, binding, audited, now, tx, reply>>
tables == <<conversion, employment, position, assignment, binding, audited>>

Times == 0..MaxTime

\* began: transaction_timestamp(); recorded: recorded_at; versions: the
\* employment or position versions the statements before the clock have read.
NewTx == [phase |-> "new", began |-> 0, recorded |-> 0,
          employments |-> {}, positions |-> {}]

Phases == {"new", "open", "keyed", "fresh", "person", "employed", "locked", "timed",
           "written", "done"}

\* refused: 404, or 409 for a broken rule; conflict: 409 for a key bound to
\* another command; failed: 500, or the connection was lost.
Answer(outcome) == [outcome |-> outcome, record |-> "none"]
Created(outcome, record) == [outcome |-> outcome, record |-> record]

TypeOK ==
  /\ \A e \in employment : e.from < e.to /\ e.since \in Times /\ e.person \in Persons
  /\ \A a \in assignment : a.from < a.to /\ a.since \in Times /\ a.ratio \in 1..One
  /\ audited \subseteq Requests
  /\ now \in Times
  /\ \A r \in Requests :
       /\ tx[r].phase \in Phases
       /\ tx[r].began \in Times /\ tx[r].recorded \in Times
       /\ reply[r].outcome \in {"none", "created", "replayed", "conflict", "refused", "failed"}

Seeded ==
  /\ conversion = SeedConversions
  /\ employment = SeedEmployments
  /\ position = SeedPositions
  /\ assignment = {} /\ binding = {} /\ audited = {}
  /\ now = 0

Init ==
  /\ Seeded
  /\ tx = [r \in Requests |-> NewTx]
  /\ reply = [r \in Requests |-> Answer("none")]

------------------------------------------------------------------------------
Route(r) == Command[r].route

Move(r, phase) == tx' = [tx EXCEPT ![r].phase = phase]

Finish(r, answer) ==
  /\ Move(r, "done")
  /\ reply' = [reply EXCEPT ![r] = answer]
  /\ UNCHANGED <<tables, now>>

\* mutation_command_digest and _hire_command_digest.  The first leaves out the
\* identities allocated for the request, the second covers them: a hire brings its own.
Digest(r) == Command[r]

SameKey(r, q) == Route(r) = Route(q) /\ Key[r] = Key[q]

\* Mutant: a session-level advisory lock, which outlives its transaction.
HoldsKeyForever(r) == tx[r].phase \notin {"new", "open"}

\* A lock lasts from the statement that takes it to the end of the transaction.
HoldsKey(r) == tx[r].phase \notin {"new", "open", "done"}

\* Mutant: the conversion is read without FOR UPDATE.
HoldsPersonNever(r) == FALSE

HoldsPerson(r) ==
  /\ Route(r) \in {"employment-records", "assignment-records"}
  /\ tx[r].phase \in {"person", "employed", "locked", "timed", "written"}

\* Mutant: the position is read without FOR UPDATE.
HoldsPositionNever(r) == FALSE

\* A position that does not exist cannot be locked.
HoldsPosition(r) ==
  /\ Route(r) = "assignment-records" /\ tx[r].positions # {}
  /\ tx[r].phase \in {"locked", "timed", "written"}

Others(r) == Requests \ {r}

Bound(r) == {b \in binding : b.route = Route(r) /\ b.key = Key[r]}

------------------------------------------------------------------------------
Begin(r) ==
  /\ tx[r].phase = "new"
  /\ tx' = [tx EXCEPT ![r].phase = "open", ![r].began = now]
  /\ UNCHANGED <<tables, now, reply>>

LockKey(r) ==
  /\ tx[r].phase = "open"
  /\ \A q \in Others(r) : HoldsKey(q) => ~SameKey(r, q)
  /\ Move(r, "keyed")
  /\ UNCHANGED <<tables, now, reply>>

\* Mutant: the stored digest is not compared.
ReadKeyOnly(r) ==
  /\ tx[r].phase = "keyed"
  /\ \/ /\ Bound(r) = {}
        /\ Move(r, "fresh")
        /\ UNCHANGED <<tables, now, reply>>
     \/ \E b \in Bound(r) : Finish(r, Created("replayed", b.created))

\* Mutant: the digest covers the identity allocated for the request.
ReadKeyWithIdentity(r) ==
  /\ tx[r].phase = "keyed"
  /\ \/ /\ Bound(r) = {}
        /\ Move(r, "fresh")
        /\ UNCHANGED <<tables, now, reply>>
     \/ \E b \in Bound(r) :
          Finish(r, IF b.digest = Digest(r) /\ b.created = r
                    THEN Created("replayed", b.created) ELSE Answer("conflict"))

\* The statement after the lock: it sees whatever the previous holder committed.
ReadKey(r) ==
  /\ tx[r].phase = "keyed"
  /\ \/ /\ Bound(r) = {}
        /\ Move(r, "fresh")
        /\ UNCHANGED <<tables, now, reply>>
     \/ \E b \in Bound(r) :
          Finish(r, IF b.digest = Digest(r) THEN Created("replayed", b.created)
                                              ELSE Answer("conflict"))

------------------------------------------------------------------------------
(* accept_hire.  All its record identities come with the command; person      *)
(* stands for them.                                                           *)

SameWorker(c, d) == c.candidate = d.candidate \/ c.person = d.person

\* Mutant: every unique violation is taken for a key that is bound already.
HireClashIsConflict(r) ==
  LET c == Command[r] IN
  /\ tx[r].phase = "fresh" /\ Route(r) = "candidate-worker-conversions"
  /\ \/ /\ <<c.candidate, c.actor>> \notin Confirmed
        /\ Finish(r, Answer("refused"))
     \/ /\ <<c.candidate, c.actor>> \in Confirmed
        /\ \A q \in Others(r) :
             Route(q) = Route(r) /\ tx[q].phase = "written" => ~SameWorker(Command[q], c)
        /\ \/ /\ \E d \in conversion : SameWorker(c, d)
              /\ Finish(r, Answer("conflict"))
           \/ /\ \A d \in conversion : ~SameWorker(c, d)
              /\ tx' = [tx EXCEPT ![r].phase = "written", ![r].recorded = tx[r].began]
              /\ UNCHANGED <<tables, now, reply>>

\* Mutant: no exclusion constraint, only a look at the committed conversions.
HireUnwaited(r) ==
  LET c == Command[r] IN
  /\ tx[r].phase = "fresh" /\ Route(r) = "candidate-worker-conversions"
  /\ \/ /\ <<c.candidate, c.actor>> \notin Confirmed
        /\ Finish(r, Answer("refused"))
     \/ /\ <<c.candidate, c.actor>> \in Confirmed
        /\ \/ /\ \E d \in conversion : SameWorker(c, d)
              /\ Finish(r, Answer("failed"))
           \/ /\ \A d \in conversion : ~SameWorker(c, d)
              /\ tx' = [tx EXCEPT ![r].phase = "written", ![r].recorded = tx[r].began]
              /\ UNCHANGED <<tables, now, reply>>

\* A clash with an open transaction waits for it, with a committed row is an
\* error of the driver: 500.
Hire(r) ==
  LET c == Command[r] IN
  /\ tx[r].phase = "fresh" /\ Route(r) = "candidate-worker-conversions"
  /\ \/ /\ <<c.candidate, c.actor>> \notin Confirmed
        /\ Finish(r, Answer("refused"))
     \/ /\ <<c.candidate, c.actor>> \in Confirmed
        /\ \A q \in Others(r) :
             Route(q) = Route(r) /\ tx[q].phase = "written" => ~SameWorker(Command[q], c)
        /\ \/ /\ \E d \in conversion : SameWorker(c, d)
              /\ Finish(r, Answer("failed"))
           \/ /\ \A d \in conversion : ~SameWorker(c, d)
              /\ tx' = [tx EXCEPT ![r].phase = "written", ![r].recorded = tx[r].began]
              /\ UNCHANGED <<tables, now, reply>>

------------------------------------------------------------------------------
(* create_employment and create_assignment *)

\* _CONVERSION_SQL: wait for the row lock, then read the current conversion.
LockConversion(r) ==
  /\ tx[r].phase = "fresh"
  /\ Route(r) \in {"employment-records", "assignment-records"}
  /\ \A q \in Others(r) : HoldsPerson(q) => Command[q].person # Command[r].person
  /\ \/ /\ \E c \in conversion : c.person = Command[r].person
        /\ Move(r, IF Route(r) = "employment-records" THEN "locked" ELSE "person")
        /\ UNCHANGED <<tables, now, reply>>
     \/ /\ \A c \in conversion : c.person # Command[r].person
        /\ Finish(r, Answer("refused"))

ReadEmployment(r) ==
  /\ tx[r].phase = "person"
  /\ tx' = [tx EXCEPT ![r].phase = "employed",
                      ![r].employments = {e \in employment :
                                            e.employment = Command[r].employment}]
  /\ UNCHANGED <<tables, now, reply>>

LockPosition(r) ==
  /\ tx[r].phase = "employed"
  /\ \A q \in Others(r) : HoldsPosition(q) => Command[q].position # Command[r].position
  /\ tx' = [tx EXCEPT ![r].phase = "locked",
                      ![r].positions = {p \in position : p.position = Command[r].position}]
  /\ UNCHANGED <<tables, now, reply>>

\* _post_lock_recorded_at
ReadClock(r) ==
  /\ tx[r].phase = "locked"
  /\ tx' = [tx EXCEPT ![r].phase = "timed", ![r].recorded = now]
  /\ UNCHANGED <<tables, now, reply>>

\* Mutant: an employment that ends on the day it begins.
NewEmploymentEmpty(r) ==
  [employment |-> r, person |-> Command[r].person, concurrency |-> "exclusive",
   status |-> Command[r].status, from |-> Command[r].from, to |-> Command[r].from,
   since |-> tx[r].recorded, until |-> Forever]

NewEmployment(r) ==
  [employment |-> IF Route(r) = "employment-records" THEN r ELSE Command[r].employment,
   person |-> Command[r].person,
   concurrency |-> IF Route(r) = "employment-records" THEN Command[r].concurrency
                                                     ELSE "exclusive",
   status |-> Command[r].status, from |-> Command[r].from, to |-> Forever,
   since |-> tx[r].recorded, until |-> Forever]

\* Mutant: recorded_from is left to the default of its column.
NewAssignmentDefaulted(r) ==
  [assignment |-> r, employment |-> Command[r].employment, person |-> Command[r].person,
   position |-> Command[r].position, ratio |-> Command[r].ratio,
   from |-> Command[r].from, to |-> Forever, since |-> tx[r].began, until |-> Forever]

NewAssignment(r) ==
  [assignment |-> r, employment |-> Command[r].employment, person |-> Command[r].person,
   position |-> Command[r].position, ratio |-> Command[r].ratio,
   from |-> Command[r].from, to |-> Forever, since |-> tx[r].recorded, until |-> Forever]

NewPosition(r) ==
  [position |-> r, status |-> Command[r].status, from |-> Command[r].from, to |-> Forever,
   since |-> tx[r].recorded, until |-> Forever]

WriteEmployment(r) ==
  LET ofPerson == {e \in employment : e.person = Command[r].person} IN
  /\ tx[r].phase = "timed" /\ Route(r) = "employment-records"
  /\ IF Exclusive(ofPerson \cup {NewEmployment(r)}, tx[r].recorded)
     THEN Move(r, "written") /\ UNCHANGED <<tables, now, reply>>
     ELSE Finish(r, Answer("refused"))

WriteAssignment(r) ==
  LET read == {a \in assignment : \/ a.employment = Command[r].employment
                                  \/ a.position = Command[r].position}
      new == NewAssignment(r)
  IN
  /\ tx[r].phase = "timed" /\ Route(r) = "assignment-records"
  /\ IF AssignmentPermitted(new, read \cup {new}, tx[r].employments, tx[r].positions,
                            tx[r].recorded)
     THEN Move(r, "written") /\ UNCHANGED <<tables, now, reply>>
     ELSE Finish(r, Answer("refused"))

\* create_position decides on nothing that changes: it takes no lock and
\* records the transaction timestamp.
WritePosition(r) ==
  /\ tx[r].phase = "fresh" /\ Route(r) = "position-records"
  /\ IF Command[r].parented
     THEN /\ tx' = [tx EXCEPT ![r].phase = "written", ![r].recorded = tx[r].began]
          /\ UNCHANGED <<tables, now, reply>>
     ELSE Finish(r, Answer("refused"))

------------------------------------------------------------------------------
\* The identity the idempotency row and the reply name.
CreatedBy(r) ==
  IF Route(r) = "candidate-worker-conversions" THEN Command[r].person ELSE r

\* The rows of the command, its audit event and its outbox delivery.
Store(r) ==
  /\ conversion' = IF Route(r) = "candidate-worker-conversions"
       THEN conversion \cup {[candidate |-> Command[r].candidate, person |-> Command[r].person]}
       ELSE conversion
  /\ employment' = IF Route(r) \in {"candidate-worker-conversions", "employment-records"}
       THEN employment \cup {NewEmployment(r)} ELSE employment
  /\ position' = IF Route(r) = "position-records"
       THEN position \cup {NewPosition(r)} ELSE position
  /\ assignment' = IF Route(r) = "assignment-records"
       THEN assignment \cup {NewAssignment(r)} ELSE assignment
  /\ audited' = audited \cup {r}

\* Mutant: the binding names the identity of the request.
BindingOfRequest(r) ==
  [route |-> Route(r), key |-> Key[r], digest |-> Digest(r), created |-> r]

Binding(r) ==
  [route |-> Route(r), key |-> Key[r], digest |-> Digest(r), created |-> CreatedBy(r)]

\* The lock on the key keeps the unique index of its row from having anything to
\* refuse.  The reply to a transaction that did commit may be lost.
Commit(r) ==
  /\ tx[r].phase = "written"
  /\ Store(r)
  /\ binding' = binding \cup {Binding(r)}
  /\ Move(r, "done")
  /\ \E answer \in {Created("created", CreatedBy(r)), Answer("failed")} :
       reply' = [reply EXCEPT ![r] = answer]
  /\ UNCHANGED now

\* The connection or the process is lost, or a deadlock or timeout ends it.
Abort(r) ==
  /\ tx[r].phase \notin {"new", "done"}
  /\ Finish(r, Answer("failed"))

Tick ==
  /\ now < MaxTime
  /\ now' = now + 1
  /\ UNCHANGED <<tables, tx, reply>>

Statement(r) ==
  \/ Begin(r) \/ LockKey(r) \/ ReadKey(r)
  \/ Hire(r)
  \/ LockConversion(r) \/ ReadEmployment(r) \/ LockPosition(r) \/ ReadClock(r)
  \/ WriteEmployment(r) \/ WriteAssignment(r) \/ WritePosition(r)
  \/ Commit(r)

Next ==
  \/ \E r \in Requests : Statement(r) \/ Abort(r)
  \/ Tick

Spec == Init /\ [][Next]_vars

\* The requests keep executing their statements: PostgreSQL wakes the waiters of a
\* lock when its holder ends.  No request has to be served before another.
Fairness == WF_vars(\E r \in Requests : Statement(r))

------------------------------------------------------------------------------
(* Properties *)

\* A key has one effect, however often its command is sent, races itself or loses
\* its reply ("A matching retry returns the first committed identity without a second
\* HRIS, audit, or outbox fact", services/people-api/README.md), and whoever is told
\* of success is told of a fact committed with its audit event.
OneEffectPerKey ==
  /\ \A r, q \in audited : SameKey(r, q) => r = q
  /\ \A r \in Requests : reply[r].outcome \in {"created", "replayed"} =>
       \E q \in audited : SameKey(r, q) /\ reply[r].record = CreatedBy(q)

\* All requests that succeed with one route and key asked for one command and
\* learn one identity, although each allocated identities of its own.
RetriesAgree ==
  LET succeeded == {r \in Requests : reply[r].outcome \in {"created", "replayed"}} IN
  \A r, q \in succeeded :
    SameKey(r, q) => Command[r] = Command[q] /\ reply[r].record = reply[q].record

\* A candidate becomes a worker once, and a worker is one candidate, under whichever
\* keys the hire is sent (candidate_conversion_knowledge_exclusion): of two hires of one
\* candidate, which hold no lock in common, one is written and the other waits for it and
\* fails, so that requests told of one candidate's hire sent one key and learn one person.
OneConversionPerCandidate ==
  LET hired == Hires \cap audited
      told == {r \in Hires : reply[r].outcome \in {"created", "replayed"}}
  IN
  /\ \A r, q \in hired : SameWorker(Command[r], Command[q]) => r = q
  /\ \A r \in hired, c \in SeedConversions : ~SameWorker(Command[r], c)
  /\ \A r, q \in told : SameWorker(Command[r], Command[q]) =>
       SameKey(r, q) /\ reply[r].record = reply[q].record

\* The four writes implement IdempotentCommand: although a command is decided and written
\* in many statements, to the outside it takes effect in one step with its binding,
\* and no request is told of a conflict under a key that is bound to nothing.
Promise == INSTANCE IdempotentCommand WITH
  Key <- [r \in Requests |-> <<Route(r), Key[r]>>],
  bound <- {[key |-> <<b.route, b.key>>, command |-> b.digest] : b \in binding},
  effect <- audited,
  answer <- [r \in Requests |->
    IF reply[r].outcome = "created" THEN "effected" ELSE reply[r].outcome]

Implements == Promise!Spec

\* "A same-key same-command replay returns the first committed identity": once a
\* key is bound to a command, the identical command is not refused.
IdenticalRetryReplays ==
  [][\A r \in Requests :
       reply[r].outcome = "none" /\ reply'[r].outcome \in {"conflict", "refused"} =>
         \A b \in Bound(r) : b.digest # Digest(r)]_vars

\* Two exclusive employments of one person never overlap (ADR-0005), at any
\* instant at which the history is reconstructed and whichever order the locks
\* were granted in.
ExclusiveAsKnown ==
  \A known \in 0..now, p \in Persons :
    Exclusive({e \in employment : e.person = p}, known)

\* Visible allocations of a seat and of an employment never exceed 1.0000
\* (ADR-0005), on any day as known at any instant.
AllocationsAsKnown ==
  \A known \in 0..now, day \in Days, a \in assignment :
    /\ WithinOne({b \in assignment : b.position = a.position}, day, known)
    /\ WithinOne({b \in assignment : b.employment = a.employment}, day, known)

\* From the instant an assignment is known, the employment and the staffable
\* seat that cover it are known too: commands record themselves after everything
\* they rely on, although transactions commit in another order than they begin.
StaffedAsKnown ==
  \A a \in assignment, known \in 0..now :
    KnownAt(a, known) =>
      /\ EmploymentCovers(a, {e \in employment : e.employment = a.employment}, known)
      /\ PositionCovers(a, {p \in position : p.position = a.position}, known)

\* "The function fails closed when source truth is contradictory" (workforce.py):
\* governed writes never make it so.  Whatever raced, the workforce can be
\* reported at every day and cutoff.
Reportable ==
  \A known \in 0..now, day \in Days : Composable(employment, assignment, day, known)

\* The counts of a report, each derived on its own, agree: everyone staffed is
\* counted as employed, and nobody's allocation exceeds the employments reported.
CountsAgree ==
  \A known \in 0..now, day \in Days :
    LET report == Composition(employment, assignment, day, known) IN
    /\ report.headcount = report.staffed + report.unassigned
    /\ report.fte <= One * report.employments

\* "facts recorded later cannot leak into an earlier decision reconstruction"
\* (ADR-0003): what a past knowledge cutoff shows never changes.
ReconstructionIsStable ==
  [][\A known \in 0..now - 1 :
       /\ {e \in employment' : KnownAt(e, known)} = {e \in employment : KnownAt(e, known)}
       /\ {p \in position' : KnownAt(p, known)} = {p \in position : KnownAt(p, known)}
       /\ {a \in assignment' : KnownAt(a, known)} = {a \in assignment : KnownAt(a, known)}]_vars

\* Requests wait for keys, conversions and positions in one order, so none
\* waits forever: every request is answered.
EveryRequestAnswered == <>(\A r \in Requests : reply[r].outcome # "none")
==============================================================================
