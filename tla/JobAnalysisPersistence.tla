------------------------ MODULE JobAnalysisPersistence ------------------------
(***************************************************************************)
(* PostgresJobAnalysisPort.persist_snapshot (services/job-analysis-api):     *)
(* concurrent POSTs, each in a READ COMMITTED transaction of its own, that    *)
(* store one snapshot or replay the one their Idempotency-Key is bound to.    *)
(*                                                                           *)
(* A step is one SQL statement, except the lookup: it takes the advisory lock *)
(* and reads job_analysis_write_command in one statement, whose snapshot is    *)
(* taken when it starts.  Lookup is that start and fixes what the read will    *)
(* see; Serialized is the moment the lock is granted.  The task, KSAO and link *)
(* rows are written between the snapshot and the command and conflict with     *)
(* nothing: they are part of InsertSnapshot.  One tenant (row-level security). *)
(* JobAnalysisDocument says what a document and its rows are.                 *)
(***************************************************************************)
EXTENDS JobAnalysisDocument

CONSTANTS
  Requests,     \* the POSTs; also their random event and command identities
  Keys,         \* Idempotency-Keys
  Authorities,  \* actor and purpose
  Jobs,         \* job_profile_id
  Parents,      \* positions and criterion blueprints, with the job each is bound to
  Key,          \* of each request
  Document,     \* what each request posts
  Authority,
  Scope,        \* the parents each request names
  NoCommand     \* the lookup found no row

ASSUME RequestAssumption ==
  /\ Key \in [Requests -> Keys]
  /\ DOMAIN Document = Requests
  /\ Authority \in [Requests -> Authorities]
  /\ \A r \in Requests : IsDocument(Document[r]) /\ Document[r].job \in Jobs

\* What persist_job_analysis_snapshot makes of each request before it calls the port.
Posted == [r \in Requests |-> Parsed(Document[r])]
RequestDigest == [r \in Requests |-> Digest(Posted[r], Scope[r])]
PostedRows == [r \in Requests |-> Rows(Posted[r])]
Acceptable == {r \in Requests : WithinLimits(Document[r]) /\ Accepted(Posted[r])}

Command ==
  [id : Requests, key : Keys, digest : {RequestDigest[r] : r \in Requests},
   analysis : {Document[r].analysis : r \in Requests}, authority : Authorities]

ASSUME NoCommandAssumption == NoCommand \notin Command

VARIABLES
  snapshot,     \* committed rows of the snapshots: header, tasks, KSAOs and links
  command,      \* committed job_analysis_write_command rows
  audited,      \* requests whose audit event and outbox delivery are committed
  current,      \* jobs and parents whose rows are current (recorded_to IS NULL)
  phase,        \* of each request
  seen,         \* the command row the lookup of each request reads
  reply         \* the HTTP outcome of each request

vars == <<snapshot, command, audited, current, phase, seen, reply>>
tables == <<snapshot, command, audited>>

Phases == {"new", "waiting", "serialized", "scoped", "inserted", "recorded", "done"}

\* stored, replayed: 201.  conflict, scope_missing: 409.  invalid: 400.
\* failed: 500, or the connection was lost.
Replies == {"none", "stored", "replayed", "conflict", "scope_missing", "invalid", "failed"}

TypeOK ==
  /\ snapshot \subseteq {PostedRows[r] : r \in Requests}
  /\ command \subseteq Command
  /\ audited \subseteq Requests
  /\ current \subseteq Jobs \cup Parents
  /\ phase \in [Requests -> Phases]
  /\ seen \in [Requests -> Command \cup {NoCommand}]
  /\ reply \in [Requests -> Replies]

Init ==
  /\ snapshot = {} /\ command = {} /\ audited = {}
  /\ current \in SUBSET (Jobs \cup Parents)
  /\ phase = [r \in Requests |-> "new"]
  /\ seen = [r \in Requests |-> NoCommand]
  /\ reply = [r \in Requests |-> "none"]

------------------------------------------------------------------------------
\* Mutant: a session-level advisory lock, which outlives its transaction.
HoldsKeyForever(r) == phase[r] \notin {"new", "waiting"}

\* pg_advisory_xact_lock is released with the transaction.
HoldsKey(r) == phase[r] \notin {"new", "waiting", "done"}

Wrote(r) == phase[r] \in {"inserted", "recorded"}

\* Same primary key, or same job and version (job_analysis_snapshot_job_version_unique).
Clash(d, e) ==
  \/ d.analysis = e.analysis
  \/ d.job = e.job /\ d.version = e.version

Taken(r) == \E row \in snapshot : Clash(row.header, Posted[r])

\* Mutant: the digest alone decides whether the key is bound to this command.
SameDigest(c, r) == c.digest = RequestDigest[r]

SameCommand(c, r) == c.digest = RequestDigest[r] /\ c.authority = Authority[r]

Advance(r, p) == phase' = [phase EXCEPT ![r] = p]

\* The transaction of r ends with this reply and writes nothing.
Answer(r, outcome) ==
  /\ Advance(r, "done")
  /\ reply' = [reply EXCEPT ![r] = outcome]
  /\ UNCHANGED <<tables, current, seen>>

------------------------------------------------------------------------------
\* The document is refused before the port is called.
Reject(r) ==
  /\ phase[r] = "new" /\ r \notin Acceptable
  /\ Answer(r, "invalid")

\* The lookup statement starts: its snapshot holds what is committed now.
Lookup(r) ==
  /\ phase[r] = "new" /\ r \in Acceptable
  /\ seen' = [seen EXCEPT ![r] =
       IF \E c \in command : c.key = Key[r]
       THEN CHOOSE c \in command : c.key = Key[r] ELSE NoCommand]
  /\ Advance(r, "waiting")
  /\ UNCHANGED <<tables, current, reply>>

\* The advisory lock is granted.
Serialized(r) ==
  /\ phase[r] = "waiting"
  /\ \A q \in Requests \ {r} : Key[q] = Key[r] => ~HoldsKey(q)
  /\ Advance(r, "serialized")
  /\ UNCHANGED <<tables, current, seen, reply>>

\* The snapshot of the command is loaded, and refused if it is not what was stored.
Replay(r) ==
  /\ phase[r] = "serialized" /\ seen[r] # NoCommand
  /\ SameCommand(seen[r], r)
  /\ IF \E rows \in snapshot : rows.header.analysis = seen[r].analysis /\ Loads(rows)
     THEN Answer(r, "replayed")
     ELSE Answer(r, "invalid")

Conflict(r) ==
  /\ phase[r] = "serialized" /\ seen[r] # NoCommand
  /\ ~SameCommand(seen[r], r)
  /\ Answer(r, "conflict")

InScope(r) ==
  /\ Document[r].job \in current
  /\ \A parent \in Scope[r] : parent \in current /\ parent.job = Document[r].job

\* The scope checks: the job row is current, the optional parents are its own.
CheckScope(r) ==
  /\ phase[r] = "serialized" /\ seen[r] = NoCommand
  /\ \/ /\ InScope(r)
        /\ Advance(r, "scoped")
        /\ UNCHANGED <<tables, current, seen, reply>>
     \/ /\ ~InScope(r)
        /\ Answer(r, "scope_missing")

\* Mutant: ON CONFLICT DO NOTHING.
InsertSnapshotAnyway(r) ==
  /\ phase[r] = "scoped"
  /\ \A q \in Requests \ {r} : Wrote(q) => ~Clash(Posted[q], Posted[r])
  /\ Advance(r, "inserted")
  /\ UNCHANGED <<tables, current, seen, reply>>

\* Mutant: the unique violation is mapped like that of the command row.
InsertSnapshotConflict(r) ==
  /\ phase[r] = "scoped"
  /\ \A q \in Requests \ {r} : Wrote(q) => ~Clash(Posted[q], Posted[r])
  /\ \/ /\ ~Taken(r)
        /\ Advance(r, "inserted")
        /\ UNCHANGED <<tables, current, seen, reply>>
     \/ /\ Taken(r)
        /\ Answer(r, "conflict")

\* A unique index entry of an open transaction makes the insert wait for it; a
\* committed one raises the unique violation that becomes JobAnalysisIntegrityError.
InsertSnapshot(r) ==
  /\ phase[r] = "scoped"
  /\ \A q \in Requests \ {r} : Wrote(q) => ~Clash(Posted[q], Posted[r])
  /\ \/ /\ ~Taken(r)
        /\ Advance(r, "inserted")
        /\ UNCHANGED <<tables, current, seen, reply>>
     \/ /\ Taken(r)
        /\ Answer(r, "invalid")

\* The command row, the audit event and the outbox delivery.
InsertCommand(r) ==
  /\ phase[r] = "inserted"
  /\ \/ /\ \A c \in command : c.key # Key[r]
        /\ Advance(r, "recorded")
        /\ UNCHANGED <<tables, current, seen, reply>>
     \/ /\ \E c \in command : c.key = Key[r]
        /\ Answer(r, "conflict")

\* Mutant: the positional parameters of the command row are shifted.
CommandRowShifted(r) ==
  [id |-> r, key |-> Key[r], digest |-> RequestDigest[r],
   analysis |-> Document[r].analysis, authority |-> Key[r]]

CommandRow(r) ==
  [id |-> r, key |-> Key[r], digest |-> RequestDigest[r],
   analysis |-> Document[r].analysis, authority |-> Authority[r]]

\* The reply to a transaction that did commit may be lost.
Commit(r) ==
  /\ phase[r] = "recorded"
  /\ Advance(r, "done")
  /\ audited' = audited \cup {r}
  /\ snapshot' = snapshot \cup {PostedRows[r]}
  /\ command' = command \cup {CommandRow(r)}
  /\ \E outcome \in {"stored", "failed"} : reply' = [reply EXCEPT ![r] = outcome]
  /\ UNCHANGED <<current, seen>>

\* The connection or the process of the request is lost: its transaction rolls back.
Abort(r) ==
  /\ phase[r] \notin {"new", "done"}
  /\ Answer(r, "failed")

\* Another transaction supersedes a job, position or criterion row, or restores it.
ChangeScope(x) ==
  /\ current' = IF x \in current THEN current \ {x} ELSE current \cup {x}
  /\ UNCHANGED <<tables, phase, seen, reply>>

Statement(r) ==
  \/ Reject(r)
  \/ Lookup(r)
  \/ Serialized(r)
  \/ Replay(r)
  \/ Conflict(r)
  \/ CheckScope(r)
  \/ InsertSnapshot(r)
  \/ InsertCommand(r)
  \/ Commit(r)

Next ==
  \/ \E r \in Requests : Statement(r) \/ Abort(r)
  \/ \E x \in Jobs \cup Parents : ChangeScope(x)

Spec == Init /\ [][Next]_vars

\* The requests keep executing their statements: PostgreSQL wakes the waiters of a
\* lock or an index entry when its holder ends.  No request has to be served before
\* another.
Fairness == WF_vars(\E r \in Requests : Statement(r))

------------------------------------------------------------------------------
(* Properties *)

\* The snapshot, its command row and its audit event stand together (ADR-0014:
\* the governed write path), whichever requests race or are lost: each stored
\* snapshot was written by exactly one command, every command was audited,
\* nothing else is there, and a job has one snapshot of a version.
Governed ==
  /\ \A row, q \in snapshot : Clash(row.header, q.header) => row = q
  /\ \A row \in snapshot :
       Cardinality({c \in command : c.analysis = row.header.analysis}) = 1
  /\ {c.analysis : c \in command} = {row.header.analysis : row \in snapshot}
  /\ {c.id : c \in command} = audited

\* What is stored can be read back and says what everyone said who was told that it
\* is stored: through parsing, canonical form, rows, session time zone and digest
\* check, for the first request and for a retry that lists, dates or spaces it
\* otherwise ("provenance-complete", "reconstructed evidence").
ReadsBack ==
  /\ \A row \in snapshot : Loads(row)
  /\ \A r \in Requests :
       reply[r] \in {"stored", "replayed"} =>
         \E row \in snapshot : Meaning(Loaded(row)) = Meaning(Document[r])

\* A key answers for one command ("A reused key with a different digest, actor, or
\* purpose is rejected"): all who stored a snapshot under a key, or were told that
\* it is stored, said the same in the same scope and with the same authority.
KeyAnswersForOneCommand ==
  LET told == {r \in Requests : reply[r] \in {"stored", "replayed"}} IN
  /\ \A r, q \in told \cup audited :
       Key[r] = Key[q] =>
         /\ Meaning(Document[r]) = Meaning(Document[q])
         /\ Scope[r] = Scope[q] /\ Authority[r] = Authority[q]
  /\ \A r \in told : Cardinality({c \in command : c.key = Key[r]}) = 1

\* The port implements IdempotentCommand: although a command is looked up, checked and
\* written in many statements, to the outside it takes effect in one step, and no
\* request is told of a conflict under a key that is bound to nothing.
Promise == INSTANCE IdempotentCommand WITH
  Command <- [r \in Requests |-> <<RequestDigest[r], Authority[r]>>],
  bound <- {[key |-> c.key, command |-> <<c.digest, c.authority>>] : c \in command},
  effect <- audited,
  answer <- [r \in Requests |->
    CASE reply[r] = "stored" -> "effected"
      [] reply[r] \in {"scope_missing", "invalid"} -> "refused"
      [] OTHER -> reply[r]]

Implements == Promise!Spec

\* "Insert one snapshot or replay an identical Idempotency-Key command": once a
\* key is bound to a command, the identical command is not refused.
IdenticalRetryReplays ==
  [][\A r \in Requests :
       reply[r] = "none" /\ reply'[r] \in {"conflict", "invalid"} =>
         \A c \in command : ~(c.key = Key[r] /\ SameCommand(c, r))]_vars

\* Requests never wait for each other in a circle and no lock outlives its
\* transaction: every request is answered.
EveryRequestAnswered == <>(\A r \in Requests : reply[r] # "none")
==============================================================================
