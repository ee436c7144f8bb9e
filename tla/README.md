# TLA+ models of Orgmetra

Orgmetra is a human-resources system of record.  Its code is a set of Python
packages (a pure decision kernel, two HTTP services, adapters) over one
PostgreSQL schema, and much of its logic lives in that schema: triggers, locks,
constraints and functions.  These modules model the parts where several
transactions meet, check them with TLC on small instances, and prove with TLAPS,
for every instance, the invariants, action properties and refinements that the
runs check.

Run a check from this directory with
`tlc -config OutboxConcurrent.cfg MCOutboxDelivery.tla`, a proof with
`tlapm OutboxTransitionProofs.tla`.  `PROJECT.json` lists the runs with their
configurations, the lines of source behind every definition (`map`), a mutated
definition that each property refutes (`mutants`), the hazards and the findings.

## 1. Inventory

| Component | State | Operations | Modules |
|---|---|---|---|
| Outbox tables and guard (`0003`, `0006`, `0007`) | `outbox_delivery_record`, `outbox_delivery_escalation_record` | any DML; transition trigger, shape check, deferred binding guard | `OutboxRecords`, `OutboxTransition` |
| Dispatcher functions (`0003`-`0008`) | the same, leases, what a worker remembers | record, claim, complete, retry, dead-letter, operator dead-letter | `OutboxDelivery` |
| Decision evidence (`0001`, `0002`) | `decision_evidence_set`, its members, `selection_decision` | insert, add member, decide (seals), direct update | `EvidenceSealing` |
| People writes (`people-api`: `postgres_mutations.py`, `postgres_hire.py`; `0012`) | conversions, employments, positions, assignments, idempotency rows, audit events | `accept_hire`, `create_employment`, `create_position`, `create_assignment` | `PeopleMutation` |
| Decision rules (`hris-kernel`: `intervals`, `employment`, `assignment`) | none | exclusivity, coverage, portfolio and seat validation | `WorkforceRules` |
| Workforce composition, organization (`workforce.py`, `organization.py`) | none | report at a coordinate, cycle check of a chart | `WorkforceComposition`, `BitemporalHistory` |
| Bitemporal guard and corrections (`0001`, `correction.py`, `resolution.py`) | the versions of a fact family | insert, close, replace a version; resolve at a coordinate | `BitemporalHistory` |
| Job-analysis documents (`hris-kernel`: `job_analysis.py`; `snapshot.py`) | none | parse, validate, canonical form, digest, rows and back | `JobAnalysisDocument` |
| Job-analysis persistence (`job-analysis-api`: `postgres.py`; `0013`) | snapshots, command rows, audit events | `persist_snapshot`, `_load_snapshot` | `JobAnalysisPersistence` |
| Idempotency (`services/people-api/README.md`, ADR-0014) | key bindings, effects, answers | execute, replay, conflict, refuse | `IdempotentCommand` (abstract) |
| HTTP boundaries (`http.py`, `hire_http.py`, `mutation_http.py`, both services), Keyverse policy | one request | check, authenticate, bind tenant, read the body under limits, authorize, dispatch, answer | `GovernedRequest` |
| Conversion governance (`0009`), criterion scope, validity cases (`0010`, `0011`) | `candidate_worker_conversion_record`, observations, study cases | convert, correct, insert under triggers | not modelled |
| Audit envelope, review packets, migration handoff, calendar intent | none | validation of one value | not modelled: no state, no interaction |
| OpenAPI, design tokens, scripts, workflows | none | none at run time | not modelled |

**How they interact.**  Every governed write is one transaction that stores its
facts, calls `record_audit_outbox_event` and stores an idempotency row; the
delivery it leaves `pending` is what the dispatcher functions work on later.
Components share nothing but tables; the order of their effects is decided by
row locks, advisory locks, unique indexes and the instants at which statements
read the clock.  People writes call the kernel's rules on the rows they have
just read.  A request reaches a port only through an HTTP application, which has
authenticated, bound and authorized it.  A hire
needs a decision, and a decision needs sealed evidence.

**What is hard.**  (1) Three kinds of time: the start of a transaction, the
clock after a lock, and the commit, which is no timestamp at all.  The outbox
compares leases with the first, People commands stamp facts with the second,
readers see the third.  (2) What a statement sees after it waited: under READ
COMMITTED a statement reads the snapshot taken when it *starts*, so a lock and
the read it protects must not share a statement.  (3) Retries of commands whose
reply was lost, racing the original.  (4) Workers that die holding a lease, and
come back under the same name.  (5) Guards that must hold against any DML, not
only against the functions.  (6) Failures after the commit: an answer is lost, a
send breaks, and the client must not be told that nothing happened.

**What makes each correct.**  Outbox: live leases are exclusive, a worker
settles what it was granted, attempts never exceed the stored budget, terminal
failure and its evidence agree, every delivery settles.  Evidence: the digest
covers the members, one decision per set, seals are final.  People: one effect
per key, retries agree, exclusivity and allocations hold at every knowledge
cutoff, assignments are covered whenever they are known, everyone is answered.
Job analysis: what is stored reads back as what was posted, snapshot, command
and audit event stand together, a key answers for one command.  History: one
version per coordinate, a correction never changes what was known before it.  HTTP:
effects only for whom the policy entitles, bodies bounded and held back, answers
true.  Rules: what they look at (probe days, a cursor over periods, a walk over
parents) decides what looking at everything would.

## 2. Modules

The models of the database have one tenant: every statement filters by tenant and
row-level security enforces it.  `GovernedRequest`, which decides whose tenant it
is, has two.  Field syntax, error
wording and search-path hardening are left out.  Advisory locks are modelled by
the key they hash; hash collisions only make requests wait.

`OutboxRecords` holds the row types, `OutboxTransition` the promise of the
database: a step is one committed transaction with any DML that trigger,
constraints and deferred guard let through.  `OutboxDelivery` models the
functions called by concurrent sessions, a call in three steps: `Begin` (fixes
`transaction_timestamp()`), the locked read and write, `Commit` or `Abort`.  It
*implements* `OutboxTransition` with its committed rows (`Implements`).  A
transaction makes one call; `recorded_at` and the identifier, which break ties
of `available_at`, leave the choice open.  `delivered_at` and the operator's
reference are left out: nothing reads them.

`EvidenceSealing` models statements with their triggers, the locks they hold
until the end of the transaction, and the deferred guard in `Commit`.  The
digest is the set of members it was computed over.  A transaction works on one
set, and on no savepoints.  `SnapshotSessions` names sessions whose transactions
are REPEATABLE READ; runs and proofs take it empty (READ COMMITTED, the default).

`WorkforceRules` translates the kernel's rules, `WorkforceComposition` the report
built on them.

`BitemporalHistory` models one single-valued fact family, `organization_unit_version`,
under any INSERT and UPDATE of READ COMMITTED sessions: an UPDATE waits for
a row another transaction has changed, an insert for an open row that may exclude
it.  Sessions name any instants, past or to come, because the trigger compares them
with each other only and never with the clock.  A row may so be closed at an instant
to come; the worker read, which looks for `recorded_to IS NULL`
(`people-api/postgres.py:100`), no longer finds it although a reconstruction at the
clock still does.  No text of the repository rules that out, and no property states it.

`PeopleMutation` extends `WorkforceComposition` with the four commands, one SQL
statement per step.  Nothing but the exclusion constraint on conversions stands between
two hires of a candidate under two keys: the later one waits for the earlier
(`OneConversionPerCandidate`).  The consecutive inserts of a command share a step, because only the first can
wait.  The identities that a command allocates are those of its request.  The
version a hire or an employment command creates is open-ended, as in the code;
nothing in the service closes one.  The unique index on the idempotency row
cannot be reached while the advisory lock of its key is held.

`JobAnalysisDocument` says which document is accepted and what becomes of it:
`Parsed`, `Accepted`, `Canonical` (sorted, instants in UTC), `Digest`, `Rows`,
`Loaded`.  An instant is a wall time with an offset, a text its words and their
spacing, so that the conversions do something.  Sorting is defined by the place it
gives to an entry, equal keys keeping their order (`Place`, `SortedBy`).
`IsDocument` says which fields a posted document is read as; a review of which only one
half was posted (`HalfReview`) is one of them, and is not accepted.

`JobAnalysisPersistence` splits the lookup statement in two (`Lookup` takes its
snapshot, `Serialized` is the lock being granted).  Task, KSAO and link rows are
inserted with their snapshot.  `current` holds the jobs, positions and criterion
blueprints whose rows other transactions supersede or restore.

`IdempotentCommand` is the promise of an `Idempotency-Key`: in one step a command
takes effect and binds its key; whoever repeats it is told so; only a bound key
is in conflict.  `PeopleMutation` and `JobAnalysisPersistence` implement it
(`Promise`, `Implements`), each with its keys, digests and answers substituted.

`GovernedRequest` is one request through one of the four applications.  `Order`
gives each route its checks; a check that only looks at what was sent passes
unless it is among the request's `defects`.  The client delivers frames (and may
never stop, or disconnect), the identity service, the ports and the sends may fail,
the process may die.  What a port does inside its transaction is the subject of
the modules above: here it commits, replays or refuses.  A purpose code that passes
the header check of a People write and is none to the policy fails at authorization
and is answered 500.  Before the body the job-analysis write only
looks whether there is an `Idempotency-Key`; the value is refused after it, with the
same status.

`MCPeopleScenarios` and `MCJobAnalysisPersistence` take one scenario of requests
at a time.  `MCWorkforceRules` holds two instances, the filling of a seat and the
correction of a chart; a behaviour takes one of them.  `MC...` modules and
`.cfg` files are the instances; `...Proofs` the proofs.

## 3. Runs

| Run | Question | States |
|---|---|---|
| `outbox_dml` | Do trigger and constraints keep budget and evidence, whatever the DML? | 987 |
| `outbox_concurrent` | Are live leases exclusive, acknowledgements own, and all commits within the guards? | 606,000 |
| `outbox_settles` | Does every delivery settle, behind another one and after a crash on its last attempt? | 10,500 |
| `outbox_stale_owner` | Is a stale worker always refused? **No** (finding 1) | |
| `evidence_sealing` | Do racing members, decisions and direct writes leave exact, unique, final seals? | 188,000 |
| `workforce_rules` | Do probe days and cursor decide what every day would; do corrections leave one version per coordinate and earlier knowledge alone; is a chart refused exactly when it is cyclic? | 140,000 |
| `job_analysis_concurrent` | Does what is stored read back; do snapshot, command and audit stand together; does a key answer for one command, as `IdempotentCommand` promises; is everyone answered? | 111,000 |
| `job_analysis_retry` | Is an identical retry replayed? **No**, while the first is running (finding 2) | |
| `people_writes` | Do keys have one effect and one answer, as `IdempotentCommand` promises; is a candidate converted once; do exclusivity, allocations and coverage hold and can the workforce be reported at every cutoff; is everyone answered? | 132,000 |
| `people_knowledge` | Does a past cutoff keep showing the same facts? **No** (finding 3) | |
| `requests` | Are effects only for the entitled, bodies held back and bounded, answers true, requests over? | 352,000 |
| `requests_failures` | Is every failure answered? **No**, on worker reads (finding 4) | |

**Bounds.**  The outbox has two deliveries (a budget of two attempts and one of
one: first, middle and last attempt), two workers and an operator; leases and
delays last one unit and the clock runs to six.  That bound never stops a
behaviour: the clock only moves while a lease or a delay is running, and the
budgets allow too few of them to get past six.  Lost, stale and late
transactions appear because the clock moves between `Begin` and the call.
Evidence has two sessions, sets,
members and decisions: a race needs two transactions on one set, a reuse a second
set or decision.  `people_writes` has five scenarios of three or four requests,
`job_analysis_concurrent` three of four and one of two, chosen so that each pair of locks is
contended and each answer occurs: retries (also written down differently: another
order of the lists, other zones, other spacing), the same key for another command,
actor or scope, the same person, seat or version under another key.  Requests of
different scenarios share no lock and no rule but the person's, so they are not
mixed.  The clock of
the People runs has two instants (three in `people_knowledge`): enough to put a
request on each side of one, and only their order matters.
`workforce_rules` has four days, so that periods can be apart, adjacent,
nested and crossing, and ratios of four and six tenths, so that two fit and
three do not; its charts have three units (room for a cycle of two and one of three)
and begin without a cycle: two sessions close one by moves of which each is
harmless alone.  There are two
sessions, versions that begin on one of two days, two instants and at most five rows
(`MaxRows`): a chart, and two rows to insert or replace.
`requests` takes every pair of defects, every combination of tenant, actor,
purpose, fields and policy around a proper request, and every body of up to four
frames of up to two bytes against limits of three and three, so that each limit is
met, missed and passed.  The days of `people_writes` are three, on each side of a
start.  Runs over finitely many requests end when all are answered,
hence `CHECK_DEADLOCK FALSE` in the People and request runs; so do `outbox_dml`,
whose rows all become terminal, and `workforce_rules`, whose inputs run out.

**Fairness.**  Safety runs assume none.  In the outbox, dispatchers and
operators are outside the repository: sessions keep beginning and ending
transactions, poll for work, and are not aborted every time; no worker is
assumed to acknowledge, hand back or terminate anything.  Claims, commits and
operator actions are strongly fair because locks and crashes disable them again
and again.  In People and job analysis the
requests together keep executing statements (weak fairness of `Statement` of some
request): PostgreSQL queues the waiters of a lock, and no request need be served
before another.  In `requests` the handler goes on whenever what it awaits has
happened (weak fairness of `Handle`); the server, the client and the identity
service let every await return, with a frame, an error or a notice that the client
is gone.

## 4. Findings

Four statements of the repository's texts that the code does not keep; each has
a run whose counterexample shows it.

1. A stale worker can acknowledge work after it lost its lease, if the lease has
   since been taken over under the *same* stable reference (`0005:58` against
   `docs/OPERABILITY.md:31`).  With distinct references the property holds.
2. An identical retry that arrives while the first request is running is refused
   with 400 rather than replayed, because lock and lookup are one statement
   (`job-analysis-api/postgres.py:39` against the docstring at `:233`).  The
   People service uses two statements, and `people_writes` shows the replay.
3. A fact is stamped before it commits, so a knowledge cutoff between the two
   shows it only later (`postgres_mutations.py:504` against ADR-0003:24).
4. An unexpected error of the identity service escapes the worker-read
   application without a response (`people-api/http.py:129` against
   `services/people-api/README.md:11`); the other applications answer 500.

The lease is compared with the start of the caller's transaction (`0005:64`), so a
completion that began in time is accepted even if the lease ends while it runs.
That is harmless: `LiveGrantHolds` and `Implements` hold with such transactions.

The job-analysis application sends its 201 inside the `try` whose last handler
answers 500, so a broken connection starts a second response after a commit: 500, or
400 if the send raised a `ValueError` or `TypeError`, of what did happen.  It also counts
no body frames, so that a body of empty frames that never ends keeps a request
reading.  No text of the repository promises otherwise of either, so neither is a
finding and no property excludes them: `AnswersAreTrue` and `EveryRequestEnds` name
exactly these two exceptions, and are about everything else.

## 5. Proofs

Every invariant, action property and refinement of a run that passes is the subject
of a theorem, for all values of the constants under the named assumptions beside
their declaration; `PROJECT.json` pairs them.  Each proof has one pattern: the
properties say nothing of transactions that are under way, so they are not
inductive; the strengthening says what each transaction knows until it ends, and
why the others cannot take it away.  TLC found no counterexample to the strengthenings
on the instances of section 3.

`OutboxTransitionProofs`, for all deliveries, owners, failure codes, budgets and
instants (the NULL values are distinct, budgets are 1..100, instants are naturals):
`Typing`, `Budgets`, `Evidence`.  The invariant is the conjunction of the three.
`BudgetRespected` is inductive branch by branch; `DeadLetterHasEvidence` needs that
a terminal row is never changed again (`TerminalRowStays`) and, for new evidence,
the deferred guard.

`OutboxDeliveryProofs`, for all workers, operators, leases and delays: `Typing`,
and `Refinement`, that the functions implement `OutboxTransition`.  Its invariant
(`GuardInv`) is that what a transaction wrote under its row lock stays a permitted
change of the row it will commit over (`WritesStayPermitted`).  So what
`OutboxTransitionProofs` shows of any DML holds of concurrent dispatchers without
a second proof (`DispatchersKeepGuarantees`).  `LiveGrants` and `OwnAttempts` have a
hypothesis, `DistinctReferences`: no two workers present one reference.  It is
needed, `outbox_stale_owner` is the counterexample without it.  `LeaseInv` adds that
transactions began in the past, why each may overwrite the row it has locked
(`MayOverwrite`), and that a worker owns what it remembers as long as the lease runs
(`GrantHolds`).

`EvidenceSealingProofs`, for all sets, members, decisions and sessions, if no
session is REPEATABLE READ: `Typing`, `Sealing`, `Ownership`, `Freezing`.  The
strengthening: locks are exclusive; a locked set has no committed seal; without the
lock nothing is written; an uncommitted decision is new, unique and has sealed its
set on exactly the members that will be committed with it.  `CommitEffect` is the
heart: a row that claims a seal without a decision of its own transaction would have
to name a committed one, which owns a sealed set (`DecisionOwnsEvidence`), but the
locked set is not sealed, so the deferred guard refuses it.

`PeopleMutationProofs`, for all requests, keys, commands and committed facts, in three
steps.  Keys: `OneEffect`, `RetriesLearnTheSame`, `RetriesAreReplayed` and
`Refinement` (to `IdempotentCommand`) follow from `KeyInv`: the lock on a key is
exclusive, and a key that a request found unbound stays so until it commits.
Hires: `CandidatesConvertOnce` follows from `HireInv`, that conversions are those of the
seed and of the audited hires, and that no two of these and of the hires that wait to
commit are of one candidate or make one worker.
Facts: `Typing`, `ExclusiveEmployments`, `AssignmentsStaffed`, `AllocationsKept`,
`WorkforceReportable`, `ReportsAgree` follow from `HistoryInv`: what a request has
read of a person or a seat under their locks is all that is committed of them
(`EmploymentDecided`, `AssignmentDecided`, `PortfolioDecided`), and it read the clock
only then, so the fact it writes is the latest known.  The rules therefore hold at
every cutoff and not only at the last (`ExclusiveAlways`, `StaffedAlways`,
`AllocatedAlways`).  Assumptions: the clock stays before the open end of a period;
commands are what their constructors let through (`CommandAssumption`); new
identities are unused (`IdentityAssumption`); the facts that are already committed
are open, their employments are of converted persons and exclusive, and versions of
one employment do not overlap, as the exclusion constraint
`employment_record_bitemporal_exclusion` demands (`SeedAssumption`).

`WorkforceRulesProofs`, about the kernel's operators, for all facts, days and ratios:
the total of a portfolio splits by employment and grows with its facts; a total is
largest on the first day of a fact, so the days the code probes decide for all;
`UnionCoversDays`, that following the periods from end to end accepts exactly the
targets whose every day is covered.  Sums and walks go over finite sets and finitely
many cursors, so the induction is an argument about a smallest counterexample.

`BitemporalHistoryProofs`, for all units, sessions, instants and initial histories
that exclude themselves: `OneVersion`, `EarlierStands`.  The
strengthening: what each open transaction would commit excludes itself and the rows
it leaves (`Pending`), two of them touch different rows and write rows that fit each
other (`Apart`).  `CyclesAreRefused` holds the walk over parents against a
ranking of the units: a walk that comes to its root gives each unit its distance as a
rank; if there is a ranking, the walk cannot visit a unit twice (`UnitAssumption`:
there are finitely many).  For the seat of `MCWorkforceRules`, with any
periods and natural ratios: `SeatNotOversold`, `SeatCovered`, `SeatOffered`, from the
lemmas on the rules.

`JobAnalysisPersistenceProofs`, for all requests, keys, documents, zones and limits:
`Typing`, `StandsTogether`, `Refinement` (to `IdempotentCommand`), `KeyAnswers`,
`StoredIsReadBack`.  The invariant (`IInv`) is that the tables hold exactly the rows
of the audited requests, that the holder of a key's lock finds it free until it
commits, and that what a request would insert clashes with no committed or pending
row.  The rest is about the conversions.  An entry's place is the number of elements
up to it, so any two lists of one set sort into the same list; parsed documents with
one canonical form mean the same; rows that are read back, in whatever order and
zone, agree with the document in UTC, so they are accepted again and have the same
digest.  Assumptions: a posted document has the fields `IsDocument` names and its job
is one of the jobs (`RequestAssumption`), the limits are naturals and the session's
zone is an integer offset (`LimitAssumption`).

`GovernedRequestProofs`, for all requests, policies, principals and limits
(known routes, at least one field, numeric frames, and a purpose code that is none to
the policy only with a People write): `Typing`, `OnlyTheEntitled`,
`BodiesHeldBack`, `BodiesWithinLimits`, `AnswersTrue`.  The invariant says what the
checks a route has passed have established (`Established`, by the lemma
`Pipelines`, which reads the five orders), what is held of the body (`Held`), and
that what is to be sent agrees with what was done (`Honest`).  Nothing is assumed of
when a send breaks; the answer that may follow a broken 201 of a job analysis is the
exception that `AnswersAreTrue` states.

**Only model-checked.**  Liveness under fairness is out of the prover's reach:
`EveryDeliverySettles`, `EveryRequestAnswered` of the People and job-analysis
requests, `EveryRequestEnds`.  The findings are runs, and their properties are not
theorems.  The proofs of `OutboxDelivery` say nothing of workers that share a
reference, those of `EvidenceSealing` nothing of REPEATABLE READ.

## 6. Not modelled

Conversion governance (`0009`) and the criterion and validity-study triggers
(`0010`, `0011`): they relate decisions, persons and audit events of three
components in one state, and `PeopleMutation` takes the confirmed decision as an
input instead.  Direct INSERTs of outbox deliveries, which the transition trigger
does not cover.  The data migration inside `0006`.  DELETEs, which every trigger
refuses.  `bind_identity_subject`, which no service calls.  The join of the worker
read: `GovernedRequest` models when and for whom it runs.  Validation of single fields, formats and wording everywhere.

## 7. Plan

What is left, in this order.

1. `ConversionGovernance` (`0009`), composed with `EvidenceSealing`: corrections,
   audit binding, one open conversion per candidate; and its proofs.
2. The triggers of `0010` and `0011`.
3. The data migration inside `0006`, so that the pending rows it leaves are states of
   `OutboxTransition`.
