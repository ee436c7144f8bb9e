--------------------- MODULE JobAnalysisPersistenceProofs ---------------------
(***************************************************************************)
(* For any requests, keys and documents: what is stored stands together, a key  *)
(* answers for one command, and the port implements IdempotentCommand, however   *)
(* lookups, locks, inserts and commits interleave, are aborted or lose a reply.  *)
(***************************************************************************)
EXTENDS JobAnalysisPersistence, FiniteSetTheorems, TLAPS

Others(r) == Requests \ {r}

Shape ==
  /\ audited \in SUBSET Acceptable
  /\ current \subseteq Jobs \cup Parents
  /\ phase \in [Requests -> Phases]
  /\ seen \in [Requests -> Command \cup {NoCommand}]
  /\ reply \in [Requests -> Replies]

\* What is committed was written by the requests that are audited, for one of them under
\* each key, analysis, and version of a job.
Written ==
  /\ snapshot = {PostedRows[r] : r \in audited}
  /\ command = {CommandRow(r) : r \in audited}
  /\ \A r \in audited : phase[r] = "done"
  /\ \A r, q \in audited : Key[r] = Key[q] \/ Clash(Posted[r], Posted[q]) => r = q

\* A request is answered when its transaction is over; one that is not acceptable has
\* none, and is not told that anything is stored.
Answered(r) ==
  /\ phase[r] = "done" <=> reply[r] # "none"
  /\ phase[r] \notin {"new", "done"} => r \in Acceptable
  /\ reply[r] \in {"stored", "replayed"} => r \in Acceptable

\* The advisory lock on a key has one holder, which finds the key free until it commits.
KeyLocked(r) ==
  /\ HoldsKey(r) => \A q \in Others(r) : HoldsKey(q) => Key[q] # Key[r]
  /\ phase[r] = "recorded" => \A c \in command : c.key # Key[r]

\* No other request has, or is about to have, a row the unique indexes would refuse.
RowsApart(r) ==
  Wrote(r) =>
    /\ \A q \in audited : ~Clash(Posted[q], Posted[r])
    /\ \A q \in Others(r) : Wrote(q) => ~Clash(Posted[q], Posted[r])

\* What a lookup has seen under the key is committed, and so is what is told to be stored.
SeenTrue(r) == seen[r] # NoCommand => seen[r] \in command /\ seen[r].key = Key[r]

ToldTrue(r) ==
  reply[r] \in {"stored", "replayed"} =>
    \E c \in command : c.key = Key[r] /\ SameCommand(c, r)

RequestInv(r) ==
  Answered(r) /\ KeyLocked(r) /\ RowsApart(r) /\ SeenTrue(r) /\ ToldTrue(r)

IInv == Shape /\ Written /\ \A r \in Requests : RequestInv(r)

------------------------------------------------------------------------------
(* Documents *)

Fields == {"analysis", "job", "version", "status", "recorded", "review", "tasks", "ksaos",
           "links", "fja"}

\* A record with these fields and no other.
HasFields(doc) == doc = [f \in Fields |-> doc[f]]

\* A document is a record of the ten fields.
LEMMA DocumentFields ==
  ASSUME NEW doc, IsDocument(doc)
  PROVE  HasFields(doc)
  BY DEF IsDocument, HasFields, Fields

\* Parsing and storing leave alone what the unique indexes are on.
LEMMA ParsedFields ==
  ASSUME NEW doc, HasFields(doc)
  PROVE  /\ HasFields(Parsed(doc))
         /\ \A f \in Fields \ {"tasks", "ksaos"} : Parsed(doc)[f] = doc[f]
         /\ Parsed(doc).tasks = ItemsNormalized(doc.tasks)
         /\ Parsed(doc).ksaos = ItemsNormalized(doc.ksaos)
  <1>1. "tasks" \in Fields /\ "ksaos" \in Fields
    BY DEF Fields
  <1>2. QED
    BY <1>1 DEF Parsed, HasFields

\* The header keeps the three indexed columns.
LEMMA RowFields ==
  ASSUME NEW doc, HasFields(doc)
  PROVE  /\ Rows(doc).header.analysis = doc.analysis
         /\ Rows(doc).header.job = doc.job /\ Rows(doc).header.version = doc.version
  BY DEF Rows, InUtc, HasFields, Fields

\* What the unique indexes are on is what was posted, in the snapshot and in its rows.
LEMMA Indexed ==
  ASSUME NEW r \in Requests
  PROVE  /\ Posted[r].analysis = Document[r].analysis
         /\ Posted[r].job = Document[r].job /\ Posted[r].version = Document[r].version
         /\ PostedRows[r].header.analysis = Posted[r].analysis
         /\ PostedRows[r].header.job = Posted[r].job
         /\ PostedRows[r].header.version = Posted[r].version
  <1>1. HasFields(Document[r])
    BY RequestAssumption, DocumentFields
  <1>2. Posted[r] = Parsed(Document[r]) /\ PostedRows[r] = Rows(Posted[r])
    BY DEF Posted, PostedRows
  <1>3. QED
    BY <1>1, <1>2, ParsedFields, RowFields DEF Fields

\* Clashing is symmetric.
LEMMA ClashBack ==
  \A d, e : Clash(d, e) <=> Clash(e, d)
  BY DEF Clash

\* The unique index sees in a stored row what it saw in the document.
LEMMA TakenMeans ==
  ASSUME Written, Shape, NEW r \in Requests
  PROVE  Taken(r) <=> \E q \in audited : Clash(Posted[q], Posted[r])
  <1>1. \A q \in audited : Clash(PostedRows[q].header, Posted[r]) <=> Clash(Posted[q], Posted[r])
    BY Indexed DEF Clash, Shape, Acceptable
  <1>2. QED
    BY <1>1 DEF Taken, Written

------------------------------------------------------------------------------
(* Statements before the commit *)

\* While nothing is committed, what one request relies on is disturbed by another only
\* through the locks and rows they share.
LEMMA RequestStep ==
  ASSUME IInv, Shape', NEW r \in Requests, UNCHANGED tables, r \notin audited,
         \A q \in Others(r) : phase'[q] = phase[q] /\ seen'[q] = seen[q] /\ reply'[q] = reply[q],
         RequestInv(r)'
  PROVE  IInv'
  <1>1. snapshot' = snapshot /\ command' = command /\ audited' = audited
    BY DEF tables
  <1>2. Written'
    BY <1>1 DEF IInv, Written, Shape, Acceptable, Others, CommandRow
  <1>3. ASSUME NEW q \in Others(r)
        PROVE  RequestInv(q)'
    <2>1. /\ q \in Requests /\ r \in Others(q) /\ RequestInv(q)
          /\ phase'[q] = phase[q] /\ seen'[q] = seen[q] /\ reply'[q] = reply[q]
      BY <1>3 DEF Others, IInv
    <2>2. Answered(q)' /\ SeenTrue(q)' /\ ToldTrue(q)'
      BY <1>1, <2>1 DEF RequestInv, Answered, SeenTrue, ToldTrue, SameCommand
    <2>3. KeyLocked(q)'
      <3>1. ASSUME HoldsKey(q)', NEW p \in Others(q), HoldsKey(p)'
            PROVE  Key[p] # Key[q]
        <4>1. CASE p = r
          BY <1>3, <3>1, <4>1 DEF RequestInv, KeyLocked, Others
        <4>2. CASE p # r
          <5>1. p \in Others(r) /\ phase'[p] = phase[p]
            BY <3>1, <4>2 DEF Others
          <5>2. QED
            BY <2>1, <3>1, <5>1 DEF RequestInv, KeyLocked, HoldsKey
        <4>3. QED
          BY <4>1, <4>2
      <3>2. QED
        BY <1>1, <2>1, <3>1 DEF RequestInv, KeyLocked, Others
    <2>4. RowsApart(q)'
      <3>1. ASSUME Wrote(q)', NEW p \in Others(q), Wrote(p)'
            PROVE  ~Clash(Posted[p], Posted[q])
        <4>1. CASE p = r
          BY <1>3, <3>1, <4>1, ClashBack DEF RequestInv, RowsApart, Others, Clash
        <4>2. CASE p # r
          <5>1. p \in Others(r) /\ phase'[p] = phase[p]
            BY <3>1, <4>2 DEF Others
          <5>2. QED
            BY <2>1, <3>1, <5>1 DEF RequestInv, RowsApart, Wrote
        <4>3. QED
          BY <4>1, <4>2
      <3>2. QED
        BY <1>1, <2>1, <3>1 DEF RequestInv, RowsApart, Others, Wrote, Clash
    <2>5. QED
      BY <2>2, <2>3, <2>4 DEF RequestInv
  <1>4. QED
    BY <1>2, <1>3 DEF IInv, Others

\* A statement before the commit changes its own request only.
Own(r, p, outcome) ==
  /\ phase' = [phase EXCEPT ![r] = p] /\ reply' = [reply EXCEPT ![r] = outcome]
  /\ UNCHANGED <<tables, current>>

\* What such a statement leaves alone.
LEMMA OwnStep ==
  ASSUME IInv, NEW r \in Requests, NEW p \in Phases, NEW outcome \in Replies,
         Own(r, p, outcome), UNCHANGED seen, phase[r] # "done"
  PROVE  /\ Shape' /\ UNCHANGED tables /\ r \notin audited
         /\ \A q \in Others(r) : phase'[q] = phase[q] /\ seen'[q] = seen[q] /\ reply'[q] = reply[q]
         /\ phase'[r] = p /\ reply'[r] = outcome /\ seen'[r] = seen[r]
         /\ command' = command /\ audited' = audited
  BY DEF IInv, Shape, Written, Own, Others, tables

\* A request whose transaction ends without an effect relies only on what it is told.
LEMMA AnswerKeeps ==
  ASSUME IInv, NEW r \in Requests, phase[r] # "done",
         NEW outcome \in Replies \ {"none"}, Answer(r, outcome),
         outcome \in {"stored", "replayed"} =>
           r \in Acceptable /\ \E c \in command : c.key = Key[r] /\ SameCommand(c, r)
  PROVE  IInv'
  <1>1. Own(r, "done", outcome) /\ UNCHANGED seen
    BY DEF Answer, Advance, Own, tables, IInv, Shape
  <1>2. /\ Shape' /\ UNCHANGED tables /\ r \notin audited
        /\ \A q \in Others(r) : phase'[q] = phase[q] /\ seen'[q] = seen[q] /\ reply'[q] = reply[q]
        /\ phase'[r] = "done" /\ reply'[r] = outcome /\ seen'[r] = seen[r]
        /\ command' = command /\ audited' = audited
    BY <1>1, OwnStep DEF Phases
  <1>3. Answered(r)' /\ KeyLocked(r)' /\ RowsApart(r)'
    BY <1>2 DEF Answered, KeyLocked, RowsApart, HoldsKey, Wrote
  <1>4. SeenTrue(r)' /\ ToldTrue(r)'
    BY <1>2 DEF IInv, RequestInv, SeenTrue, ToldTrue, SameCommand
  <1>5. QED
    BY <1>2, <1>3, <1>4, RequestStep DEF RequestInv

\* A request that goes on relies on what it has found.
LEMMA AdvanceKeeps ==
  ASSUME IInv, NEW r \in Requests, NEW p \in Phases \ {"new", "done"}, Advance(r, p),
         UNCHANGED <<tables, current, seen, reply>>,
         phase[r] \notin {"new", "done"},
         p # "waiting" => \A q \in Others(r) : HoldsKey(q) => Key[q] # Key[r],
         p = "recorded" => \A c \in command : c.key # Key[r],
         p \in {"inserted", "recorded"} =>
           /\ \A q \in audited : ~Clash(Posted[q], Posted[r])
           /\ \A q \in Others(r) : Wrote(q) => ~Clash(Posted[q], Posted[r])
  PROVE  IInv'
  <1>1. reply[r] \in Replies /\ reply[r] = "none" /\ r \in Acceptable
    BY DEF IInv, RequestInv, Answered, Shape
  <1>2. Own(r, p, reply[r]) /\ UNCHANGED seen
    BY DEF Advance, Own, tables, IInv, Shape
  <1>3. /\ Shape' /\ UNCHANGED tables /\ r \notin audited
        /\ \A q \in Others(r) : phase'[q] = phase[q] /\ seen'[q] = seen[q] /\ reply'[q] = reply[q]
        /\ phase'[r] = p /\ reply'[r] = reply[r] /\ seen'[r] = seen[r]
        /\ command' = command /\ audited' = audited
    BY <1>1, <1>2, OwnStep
  <1>4. Answered(r)'
    BY <1>1, <1>3 DEF Answered
  <1>5. KeyLocked(r)'
    BY <1>3 DEF KeyLocked, HoldsKey, Others
  <1>6. RowsApart(r)'
    BY <1>3 DEF RowsApart, Wrote, Others
  <1>7. SeenTrue(r)' /\ ToldTrue(r)'
    BY <1>1, <1>3 DEF IInv, RequestInv, SeenTrue, ToldTrue
  <1>8. QED
    BY <1>3, <1>4, <1>5, <1>6, <1>7, RequestStep DEF RequestInv

\* Every command row is one of a request.
LEMMA CommandRows ==
  ASSUME Written, Shape
  PROVE  command \subseteq Command
  <1>1. ASSUME NEW r \in audited
        PROVE  CommandRow(r) \in Command
    <2>1. r \in Requests /\ Key[r] \in Keys /\ Authority[r] \in Authorities
      BY RequestAssumption DEF Shape, Acceptable
    <2>2. QED
      BY <2>1 DEF CommandRow, Command
  <1>2. QED
    BY <1>1 DEF Written

\* The row the lookup reads is the one of its key.
LEMMA LookupKeeps ==
  ASSUME IInv, NEW r \in Requests, Lookup(r)
  PROVE  IInv'
  <1> DEFINE found == IF \E c \in command : c.key = Key[r]
                      THEN CHOOSE c \in command : c.key = Key[r] ELSE NoCommand
  <1>1. /\ phase[r] = "new" /\ r \in Acceptable
        /\ seen' = [seen EXCEPT ![r] = found] /\ phase' = [phase EXCEPT ![r] = "waiting"]
        /\ reply' = reply /\ snapshot' = snapshot /\ command' = command /\ audited' = audited
        /\ current' = current
    BY DEF Lookup, Advance, tables
  <1>2. found # NoCommand => found \in command /\ found.key = Key[r]
    OBVIOUS
  <1>3. found \in Command \cup {NoCommand}
    BY <1>2, CommandRows DEF IInv
  <1> HIDE DEF found
  <1>4. Shape' /\ r \notin audited
    BY <1>1, <1>3 DEF IInv, Shape, Phases, Written
  <1>5. /\ \A q \in Others(r) : phase'[q] = phase[q] /\ seen'[q] = seen[q] /\ reply'[q] = reply[q]
        /\ phase'[r] = "waiting" /\ seen'[r] = found
    BY <1>1 DEF IInv, Shape, Others
  <1>6. reply[r] = "none"
    BY <1>1 DEF IInv, RequestInv, Answered
  <1>7. RequestInv(r)'
    BY <1>1, <1>2, <1>5, <1>6
       DEF RequestInv, Answered, KeyLocked, RowsApart, SeenTrue, ToldTrue, HoldsKey, Wrote
  <1>8. QED
    BY <1>1, <1>4, <1>5, <1>7, RequestStep DEF tables

\* What a request in the middle of its transaction relies on.
LEMMA Midway ==
  ASSUME IInv, NEW r \in Requests
  PROVE  /\ RequestInv(r) /\ Written /\ Shape
         /\ phase[r] \in {"serialized", "scoped", "inserted", "recorded"} =>
              \A q \in Others(r) : HoldsKey(q) => Key[q] # Key[r]
  BY DEF IInv, RequestInv, KeyLocked, HoldsKey

\* No statement before the commit disturbs IInv.
LEMMA StatementKeeps ==
  ASSUME IInv, NEW r \in Requests, Statement(r) \/ Abort(r), ~Commit(r)
  PROVE  IInv'
  <1>1. CASE Reject(r)
    <2>1. Answer(r, "invalid") /\ phase[r] # "done"
      BY <1>1 DEF Reject
    <2>2. QED
      BY <2>1, AnswerKeeps DEF Replies
  <1>2. CASE Lookup(r)
    BY <1>2, LookupKeeps
  <1>3. CASE Serialized(r)
    <2>1. /\ phase[r] = "waiting" /\ Advance(r, "serialized")
          /\ UNCHANGED <<tables, current, seen, reply>>
          /\ \A q \in Others(r) : HoldsKey(q) => Key[q] # Key[r]
      BY <1>3 DEF Serialized, Others
    <2>2. QED
      BY <2>1, AdvanceKeeps DEF Phases
  <1>4. CASE Replay(r)
    <2>1. /\ phase[r] # "done" /\ seen[r] \in command /\ seen[r].key = Key[r]
          /\ SameCommand(seen[r], r) /\ r \in Acceptable
      BY <1>4, Midway DEF Replay, RequestInv, SeenTrue, Answered
    <2>2. Answer(r, "replayed") \/ Answer(r, "invalid")
      BY <1>4 DEF Replay
    <2>3. QED
      BY <2>1, <2>2, AnswerKeeps DEF Replies
  <1>5. CASE Conflict(r)
    <2>1. Answer(r, "conflict") /\ phase[r] # "done"
      BY <1>5 DEF Conflict
    <2>2. QED
      BY <2>1, AnswerKeeps DEF Replies
  <1>6. CASE CheckScope(r)
    <2>1. CASE Answer(r, "scope_missing")
      <3>1. phase[r] # "done"
        BY <1>6 DEF CheckScope
      <3>2. QED
        BY <2>1, <3>1, AnswerKeeps DEF Replies
    <2>2. CASE ~Answer(r, "scope_missing")
      <3>1. /\ phase[r] = "serialized" /\ Advance(r, "scoped")
            /\ UNCHANGED <<tables, current, seen, reply>>
        BY <1>6, <2>2 DEF CheckScope
      <3>2. QED
        BY <3>1, Midway, AdvanceKeeps DEF Phases
    <2>3. QED
      BY <2>1, <2>2
  <1>7. CASE InsertSnapshot(r)
    <2>1. CASE Answer(r, "invalid")
      <3>1. phase[r] # "done"
        BY <1>7 DEF InsertSnapshot
      <3>2. QED
        BY <2>1, <3>1, AnswerKeeps DEF Replies
    <2>2. CASE ~Answer(r, "invalid")
      <3>1. /\ phase[r] = "scoped" /\ Advance(r, "inserted") /\ ~Taken(r)
            /\ UNCHANGED <<tables, current, seen, reply>>
            /\ \A q \in Others(r) : Wrote(q) => ~Clash(Posted[q], Posted[r])
        BY <1>7, <2>2 DEF InsertSnapshot, Others
      <3>2. \A q \in audited : ~Clash(Posted[q], Posted[r])
        BY <3>1, Midway, TakenMeans
      <3>3. QED
        BY <3>1, <3>2, Midway, AdvanceKeeps DEF Phases
    <2>3. QED
      BY <2>1, <2>2
  <1>8. CASE InsertCommand(r)
    <2>1. CASE Answer(r, "conflict")
      <3>1. phase[r] # "done"
        BY <1>8 DEF InsertCommand
      <3>2. QED
        BY <2>1, <3>1, AnswerKeeps DEF Replies
    <2>2. CASE ~Answer(r, "conflict")
      <3>1. /\ phase[r] = "inserted" /\ Advance(r, "recorded")
            /\ \A c \in command : c.key # Key[r]
            /\ UNCHANGED <<tables, current, seen, reply>>
        BY <1>8, <2>2 DEF InsertCommand
      <3>2. /\ \A q \in audited : ~Clash(Posted[q], Posted[r])
            /\ \A q \in Others(r) : Wrote(q) => ~Clash(Posted[q], Posted[r])
        BY <3>1, Midway DEF RequestInv, RowsApart, Wrote
      <3>3. QED
        BY <3>1, <3>2, Midway, AdvanceKeeps DEF Phases
    <2>3. QED
      BY <2>1, <2>2
  <1>9. CASE Abort(r)
    <2>1. Answer(r, "failed") /\ phase[r] # "done"
      BY <1>9 DEF Abort
    <2>2. QED
      BY <2>1, AnswerKeeps DEF Replies
  <1>10. QED
    BY <1>1, <1>2, <1>3, <1>4, <1>5, <1>6, <1>7, <1>8, <1>9 DEF Statement

------------------------------------------------------------------------------
(* The commit *)

\* A commit adds the rows of a request that holds its key alone.
LEMMA CommitAdds ==
  ASSUME IInv, NEW r \in Requests, Commit(r)
  PROVE  /\ phase[r] = "recorded" /\ r \in Acceptable /\ r \notin audited
         /\ HoldsKey(r) /\ Wrote(r) /\ RequestInv(r)
         /\ audited' = audited \cup {r} /\ command' = command \cup {CommandRow(r)}
         /\ snapshot' = snapshot \cup {PostedRows[r]}
         /\ seen' = seen /\ current' = current
         /\ phase'[r] = "done" /\ \A q \in Others(r) : phase'[q] = phase[q]
         /\ reply'[r] \in {"stored", "failed"} /\ \A q \in Others(r) : reply'[q] = reply[q]
         /\ phase' \in [Requests -> Phases] /\ reply' \in [Requests -> Replies]
  BY DEF Commit, Advance, IInv, Shape, Written, RequestInv, Answered, HoldsKey, Wrote, Others,
     Phases, Replies

\* Its key is new among the command rows, and so are its analysis and version.
LEMMA CommitWrites ==
  ASSUME IInv, NEW r \in Requests, Commit(r)
  PROVE  Shape' /\ Written'
  <1>1. Shape'
    <2>1. command \subseteq command'
      BY CommitAdds
    <2>2. QED
      BY CommitAdds DEF IInv, Shape, Acceptable
  <1>2. /\ snapshot' = {PostedRows[q] : q \in audited'}
        /\ command' = {CommandRow(q) : q \in audited'}
    BY CommitAdds DEF IInv, Written
  <1>3. \A q \in audited' : phase'[q] = "done"
    BY CommitAdds DEF IInv, Written, Shape, Acceptable, Others
  <1>4. ASSUME NEW q \in audited
        PROVE  Key[q] # Key[r] /\ ~Clash(Posted[q], Posted[r]) /\ ~Clash(Posted[r], Posted[q])
    <2>1. CommandRow(q) \in command /\ CommandRow(q).key = Key[q]
      BY DEF IInv, Written, CommandRow
    <2>2. Key[q] # Key[r]
      BY <2>1, CommitAdds DEF RequestInv, KeyLocked
    <2>3. ~Clash(Posted[q], Posted[r])
      BY CommitAdds DEF RequestInv, RowsApart
    <2>4. QED
      BY <2>2, <2>3, ClashBack
  <1>5. ASSUME NEW p \in audited', NEW q \in audited',
               Key[p] = Key[q] \/ Clash(Posted[p], Posted[q])
        PROVE  p = q
    BY <1>4, <1>5, CommitAdds DEF IInv, Written
  <1>6. QED
    BY <1>1, <1>2, <1>3, <1>5 DEF Written, CommandRow, Clash

\* What the other requests rely on is not what a commit changes.
LEMMA CommitKeepsRequests ==
  ASSUME IInv, NEW r \in Requests, Commit(r), NEW q \in Requests
  PROVE  RequestInv(q)'
  <1>1. RequestInv(q)
    BY DEF IInv
  <1>2. CommandRow(r) \in command' /\ CommandRow(r).key = Key[r] /\ SameCommand(CommandRow(r), r)
    BY CommitAdds DEF CommandRow, SameCommand
  <1>3. CASE q = r
    <2>1. Answered(r)' /\ KeyLocked(r)' /\ RowsApart(r)'
      BY CommitAdds DEF Answered, KeyLocked, RowsApart, HoldsKey, Wrote
    <2>2. SeenTrue(r)' /\ ToldTrue(r)'
      BY <1>1, <1>2, <1>3, CommitAdds DEF RequestInv, SeenTrue, ToldTrue, SameCommand
    <2>3. QED
      BY <1>3, <2>1, <2>2 DEF RequestInv
  <1>4. CASE q # r
    <2>1. /\ q \in Others(r) /\ r \in Others(q) /\ phase'[q] = phase[q] /\ reply'[q] = reply[q]
          /\ \A p \in Requests : (HoldsKey(p)' => HoldsKey(p)) /\ (Wrote(p)' => Wrote(p))
      BY <1>4, CommitAdds DEF Others, HoldsKey, Wrote
    <2>2. Answered(q)' /\ SeenTrue(q)' /\ ToldTrue(q)'
      BY <1>1, <2>1, CommitAdds DEF RequestInv, Answered, SeenTrue, ToldTrue, SameCommand
    <2>3. KeyLocked(q)'
      <3>1. phase[q] = "recorded" => Key[r] # Key[q]
        BY <1>1, <2>1, CommitAdds DEF RequestInv, KeyLocked, HoldsKey
      <3>2. QED
        BY <1>1, <1>2, <2>1, <3>1, CommitAdds DEF RequestInv, KeyLocked, Others
    <2>4. RowsApart(q)'
      <3>1. Wrote(q) => ~Clash(Posted[r], Posted[q])
        BY <1>1, <2>1, CommitAdds DEF RequestInv, RowsApart
      <3>2. QED
        BY <1>1, <2>1, <3>1, CommitAdds DEF RequestInv, RowsApart, Others, Clash
    <2>5. QED
      BY <2>2, <2>3, <2>4 DEF RequestInv
  <1>5. QED
    BY <1>3, <1>4

------------------------------------------------------------------------------
(* IInv is inductive *)

\* At the start nothing is stored, locked or answered.
LEMMA Starts == Init => IInv
  <1> SUFFICES ASSUME Init
               PROVE  IInv
    OBVIOUS
  <1>1. Shape /\ Written
    BY DEF Init, Shape, Written, Phases, Replies
  <1>2. \A r \in Requests : RequestInv(r)
    BY DEF Init, RequestInv, Answered, KeyLocked, RowsApart, SeenTrue, ToldTrue, HoldsKey, Wrote
  <1>3. QED
    BY <1>1, <1>2 DEF IInv

\* IInv says nothing of the scope but where its rows come from.
LEMMA ScopeKeeps ==
  ASSUME IInv, UNCHANGED <<tables, phase, seen, reply>>, current' \subseteq Jobs \cup Parents
  PROVE  IInv'
  <1>1. /\ snapshot' = snapshot /\ command' = command /\ audited' = audited
        /\ phase' = phase /\ seen' = seen /\ reply' = reply
    BY DEF tables
  <1>2. Shape' /\ Written'
    BY <1>1 DEF IInv, Shape, Written, CommandRow, Clash
  <1>3. ASSUME NEW r \in Requests
        PROVE  RequestInv(r)'
    <2>1. RequestInv(r)
      BY DEF IInv
    <2>2. QED
      BY <1>1, <2>1 DEF RequestInv, Answered, KeyLocked, RowsApart, SeenTrue, ToldTrue, HoldsKey,
         Wrote, SameCommand, Clash
  <1>4. QED
    BY <1>2, <1>3 DEF IInv

\* IInv is inductive.
LEMMA Keeps == IInv /\ [Next]_vars => IInv'
  <1> SUFFICES ASSUME IInv, [Next]_vars
               PROVE  IInv'
    OBVIOUS
  <1>1. ASSUME NEW r \in Requests, Commit(r)
        PROVE  IInv'
    BY <1>1, CommitWrites, CommitKeepsRequests DEF IInv
  <1>2. ASSUME NEW r \in Requests, Statement(r) \/ Abort(r), ~Commit(r)
        PROVE  IInv'
    BY <1>2, StatementKeeps
  <1>3. ASSUME NEW x \in Jobs \cup Parents, ChangeScope(x)
        PROVE  IInv'
    BY <1>3, ScopeKeeps DEF ChangeScope, IInv, Shape
  <1>4. CASE UNCHANGED vars
    <2>1. UNCHANGED <<tables, phase, seen, reply>> /\ current' = current
      BY <1>4 DEF vars, tables
    <2>2. QED
      BY <2>1, ScopeKeeps DEF IInv, Shape
  <1>5. QED
    BY <1>1, <1>2, <1>3, <1>4 DEF Next

------------------------------------------------------------------------------
(* Results *)

\* Every committed row is one that a request posted, and every request is somewhere in
\* its transaction.
THEOREM Typing == Spec => []TypeOK
  <1>1. IInv => TypeOK
    BY CommandRows DEF IInv, Shape, Written, Acceptable, TypeOK
  <1>2. QED
    BY Starts, Keeps, <1>1, PTL DEF Spec

\* Snapshots, command rows and audit events stand together: a snapshot is stored with the
\* one command that wrote it, a command with its audit event, and a job has one
\* snapshot of a version, whichever requests race or are lost.
THEOREM StandsTogether == Spec => []Governed
  <1>1. IInv => Governed
    <2> SUFFICES ASSUME IInv
                 PROVE  Governed
      OBVIOUS
    <2>1. /\ snapshot = {PostedRows[r] : r \in audited}
          /\ command = {CommandRow(r) : r \in audited}
          /\ \A r, q \in audited : Clash(Posted[r], Posted[q]) => r = q
          /\ audited \subseteq Requests
      BY DEF IInv, Written, Shape, Acceptable
    <2>2. \A r \in audited : /\ PostedRows[r].header.analysis = Posted[r].analysis
                            /\ PostedRows[r].header.job = Posted[r].job
                            /\ PostedRows[r].header.version = Posted[r].version
                            /\ CommandRow(r).analysis = Posted[r].analysis
                            /\ CommandRow(r).id = r
      BY <2>1, Indexed DEF CommandRow
    <2>3. \A row, q \in snapshot : Clash(row.header, q.header) => row = q
      BY <2>1, <2>2 DEF Clash
    <2>4. ASSUME NEW row \in snapshot
          PROVE  Cardinality({c \in command : c.analysis = row.header.analysis}) = 1
      <3>1. PICK r \in audited : row = PostedRows[r]
        BY <2>1
      <3>2. {c \in command : c.analysis = row.header.analysis} = {CommandRow(r)}
        BY <2>1, <2>2, <3>1 DEF Clash
      <3>3. QED
        BY <3>2, FS_Singleton
    <2>5. {c.analysis : c \in command} = {row.header.analysis : row \in snapshot}
      BY <2>1, <2>2
    <2>6. {c.id : c \in command} = audited
      BY <2>1, <2>2
    <2>7. QED
      BY <2>3, <2>4, <2>5, <2>6 DEF Governed
  <1>2. QED
    BY Starts, Keeps, <1>1, PTL DEF Spec

------------------------------------------------------------------------------
(* Refinement of IdempotentCommand *)

Told(outcome) ==
  CASE outcome = "stored" -> "effected"
    [] outcome \in {"scope_missing", "invalid"} -> "refused"
    [] OTHER -> outcome

PromisedAnswer == [r \in Requests |-> Told(reply[r])]
PromisedCommand == [r \in Requests |-> <<RequestDigest[r], Authority[r]>>]
PromisedBound == {[key |-> c.key, command |-> <<c.digest, c.authority>>] : c \in command}

\* What the promise makes of each outcome.
LEMMA ToldOutcomes ==
  /\ Told("stored") = "effected" /\ Told("replayed") = "replayed"
  /\ Told("conflict") = "conflict" /\ Told("failed") = "failed" /\ Told("none") = "none"
  /\ Told("scope_missing") = "refused" /\ Told("invalid") = "refused"
  BY DEF Told

\* What a finished request is told is what the promise's request is given.
LEMMA GiveAnswer ==
  ASSUME IInv, NEW r \in Requests, phase[r] # "done", NEW outcome,
         reply' = [reply EXCEPT ![r] = outcome]
  PROVE  /\ PromisedAnswer[r] = "none"
         /\ PromisedAnswer' = [PromisedAnswer EXCEPT ![r] = Told(outcome)]
  <1>1. reply[r] = "none" /\ reply \in [Requests -> Replies]
    BY DEF IInv, RequestInv, Answered, Shape
  <1>2. reply'[r] = outcome /\ \A q \in Requests \ {r} : reply'[q] = reply[q]
    BY <1>1
  <1>3. QED
    BY <1>1, <1>2, ToldOutcomes DEF PromisedAnswer

\* An answer without an effect is one of the promise's answers, of a conflict or a replay
\* only under a key that is bound.
LEMMA AnswerPromised ==
  ASSUME IInv, NEW r \in Requests, phase[r] # "done", NEW outcome, Answer(r, outcome),
         \/ outcome \in {"scope_missing", "invalid", "failed"}
         \/ outcome = "conflict" /\ \E c \in command : c.key = Key[r]
         \/ outcome = "replayed" /\ \E c \in command : c.key = Key[r] /\ SameCommand(c, r)
  PROVE  Promise!Next
  <1> USE DEF Promise!Give
  <1>1. /\ PromisedAnswer[r] = "none"
        /\ PromisedAnswer' = [PromisedAnswer EXCEPT ![r] = Told(outcome)]
        /\ command' = command /\ audited' = audited
    BY GiveAnswer DEF Answer, tables
  <1>2. CASE outcome \in {"scope_missing", "invalid", "failed"}
    <2>1. Told(outcome) \in {"refused", "failed"}
      BY <1>2, ToldOutcomes
    <2>2. Promise!Refuse(r)
      BY <1>1, <2>1 DEF Promise!Refuse, PromisedAnswer, Told
    <2>3. QED
      BY <2>2 DEF Promise!Next
  <1>3. CASE outcome = "conflict" /\ \E c \in command : c.key = Key[r]
    <2>1. \E b \in PromisedBound : b.key = Key[r]
      <3>1. PICK c \in command : c.key = Key[r]
        BY <1>3
      <3>2. [key |-> c.key, command |-> <<c.digest, c.authority>>] \in PromisedBound
        BY <3>1 DEF PromisedBound
      <3>3. QED
        BY <3>1, <3>2
    <2>2. Promise!Conflict(r)
      BY <1>1, <1>3, <2>1, ToldOutcomes DEF Promise!Conflict, PromisedAnswer, PromisedBound, Told
    <2>3. QED
      BY <2>2 DEF Promise!Next
  <1>4. CASE outcome = "replayed" /\ \E c \in command : c.key = Key[r] /\ SameCommand(c, r)
    <2>1. PICK c \in command : c.key = Key[r] /\ SameCommand(c, r)
      BY <1>4
    <2>2. <<c.digest, c.authority>> = PromisedCommand[r]
      BY <2>1 DEF SameCommand, PromisedCommand
    <2>3. [key |-> c.key, command |-> <<c.digest, c.authority>>] \in PromisedBound
      BY <2>1 DEF PromisedBound
    <2>4. [key |-> Key[r], command |-> PromisedCommand[r]] \in PromisedBound
      BY <2>1, <2>2, <2>3
    <2>5. Promise!Replay(r)
      BY <1>1, <1>4, <2>4, ToldOutcomes
         DEF Promise!Replay, PromisedAnswer, PromisedBound, PromisedCommand, Told
    <2>6. QED
      BY <2>5 DEF Promise!Next
  <1>5. QED
    BY <1>2, <1>3, <1>4

\* A commit is the one step in which the command takes effect.
LEMMA CommitPromised ==
  ASSUME IInv, NEW r \in Requests, Commit(r)
  PROVE  Promise!Next
  <1> USE DEF Promise!Give
  <1>1. PICK outcome \in {"stored", "failed"} : reply' = [reply EXCEPT ![r] = outcome]
    BY DEF Commit
  <1>2. phase[r] # "done" /\ audited' = audited \cup {r}
        /\ command' = command \cup {CommandRow(r)} /\ \A c \in command : c.key # Key[r]
    BY CommitAdds DEF RequestInv, KeyLocked
  <1>3. Told(outcome) \in {"effected", "failed"}
    BY ToldOutcomes
  <1>4. /\ PromisedAnswer[r] = "none"
        /\ PromisedAnswer' = [PromisedAnswer EXCEPT ![r] = Told(outcome)]
    BY <1>1, <1>2, GiveAnswer
  <1>5. \A b \in PromisedBound : b.key # Key[r]
    BY <1>2 DEF PromisedBound
  <1>6. PromisedBound' = PromisedBound \cup {[key |-> Key[r], command |-> PromisedCommand[r]]}
    <2> DEFINE row == CommandRow(r)
    <2>1. row.key = Key[r] /\ <<row.digest, row.authority>> = PromisedCommand[r]
      BY DEF CommandRow, PromisedCommand
    <2> HIDE DEF row
    <2>2. PromisedBound' = PromisedBound \cup
            {[key |-> row.key, command |-> <<row.digest, row.authority>>]}
      BY <1>2 DEF PromisedBound, row
    <2>3. QED
      BY <2>1, <2>2
  <1>7. Promise!Execute(r)
    BY <1>2, <1>3, <1>4, <1>5, <1>6
       DEF Promise!Execute, PromisedAnswer, PromisedBound, PromisedCommand, Told
  <1>8. QED
    BY <1>7 DEF Promise!Next

\* The port keeps the promise of an Idempotency-Key: seen through its command rows, its
\* audited effects and its answers, every step of every interleaving is one of its
\* steps or invisible.
THEOREM Refinement == Spec => Implements
  <1>1. Init => Promise!Init
    BY DEF Init, Promise!Init
  <1>2. UNCHANGED <<tables, reply>> => UNCHANGED Promise!vars
    BY DEF tables, Promise!vars
  <1>3. ASSUME IInv, NEW r \in Requests, Statement(r) \/ Abort(r)
        PROVE  Promise!Next \/ UNCHANGED Promise!vars
    <2>1. CASE Commit(r)
      BY <1>3, <2>1, CommitPromised
    <2>2. CASE UNCHANGED <<tables, reply>>
      BY <1>2, <2>2
    <2>3. CASE Reject(r) \/ Abort(r)
      BY <1>3, <2>3, AnswerPromised DEF Reject, Abort
    <2>4. CASE Replay(r)
      <3>1. /\ phase[r] # "done" /\ seen[r] \in command /\ seen[r].key = Key[r]
            /\ SameCommand(seen[r], r) /\ (Answer(r, "replayed") \/ Answer(r, "invalid"))
        BY <1>3, <2>4, Midway DEF Replay, RequestInv, SeenTrue
      <3>2. QED
        BY <1>3, <3>1, AnswerPromised
    <2>5. CASE Conflict(r)
      <3>1. /\ phase[r] # "done" /\ seen[r] \in command /\ seen[r].key = Key[r]
            /\ Answer(r, "conflict")
        BY <1>3, <2>5, Midway DEF Conflict, RequestInv, SeenTrue
      <3>2. QED
        BY <1>3, <3>1, AnswerPromised
    <2>6. CASE CheckScope(r) \/ InsertSnapshot(r) \/ InsertCommand(r)
      <3>1. \/ UNCHANGED <<tables, reply>>
            \/ /\ phase[r] # "done"
               /\ \/ Answer(r, "scope_missing") \/ Answer(r, "invalid")
                  \/ Answer(r, "conflict") /\ \E c \in command : c.key = Key[r]
        BY <2>6 DEF CheckScope, InsertSnapshot, InsertCommand, tables
      <3>2. QED
        BY <1>3, <2>2, <3>1, AnswerPromised
    <2>7. CASE Lookup(r) \/ Serialized(r)
      BY <2>2, <2>7 DEF Lookup, Serialized, tables
    <2>8. QED
      BY <1>3, <2>1, <2>3, <2>4, <2>5, <2>6, <2>7 DEF Statement
  <1>4. ASSUME NEW x \in Jobs \cup Parents, ChangeScope(x)
        PROVE  UNCHANGED Promise!vars
    BY <1>2, <1>4 DEF ChangeScope, tables
  <1>5. UNCHANGED vars => UNCHANGED Promise!vars
    BY <1>2 DEF vars, tables
  <1>6. IInv /\ [Next]_vars => [Promise!Next]_Promise!vars
    BY <1>3, <1>4, <1>5 DEF Next
  <1>7. QED
    BY <1>1, <1>6, Starts, Keeps, PTL DEF Spec, Implements, Promise!Spec

------------------------------------------------------------------------------
(* Sorting *)

\* R puts the elements of X one after the other.
Orders(R, X) ==
  /\ \A x \in X : <<x, x>> \notin R
  /\ \A x, y \in X : x = y \/ <<x, y>> \in R \/ <<y, x>> \in R
  /\ \A x, y, z \in X : <<x, y>> \in R /\ <<y, z>> \in R => <<x, z>> \in R

\* A sequence that lists the elements of X, each once.
Lists(s, X) ==
  /\ s \in Seq(X) /\ ToSet(s) = X
  /\ \A i, j \in DOMAIN s : s[i] = s[j] => i = j

\* An entry's place, for an order that is given as a set of pairs.
PlaceIn(s, R, i) ==
  Cardinality({j \in DOMAIN s : IF j <= i THEN <<s[i], s[j]>> \notin R
                                ELSE <<s[j], s[i]>> \in R})

Sorts(t, s, R) ==
  /\ DOMAIN t = DOMAIN s /\ t = [k \in DOMAIN s |-> t[k]]
  /\ \A k \in DOMAIN s : \E i \in DOMAIN s : PlaceIn(s, R, i) = k /\ t[k] = s[i]

\* The elements up to x.
UpTo(x, X, R) == {y \in X : y = x \/ <<y, x>> \in R}

\* A sequence that lists a set is as long as the set is large.
LEMMA ListLength ==
  ASSUME NEW X, NEW s, Lists(s, X)
  PROVE  IsFiniteSet(X) /\ Cardinality(X) = Len(s) /\ DOMAIN s = 1..Len(s) /\ Len(s) \in Nat
  <1>1. DOMAIN s = 1..Len(s) /\ Len(s) \in Nat /\ s \in [1..Len(s) -> X]
    BY DEF Lists
  <1>2. s \in Bijection(1..Len(s), X)
    BY <1>1 DEF Lists, ToSet, Bijection, Injection, Surjection, IsInjective
  <1>3. IsFiniteSet(1..Len(s)) /\ Cardinality(1..Len(s)) = Len(s)
    BY <1>1, FS_Interval
  <1>4. ExistsBijection(1..Len(s), X)
    BY <1>2 DEF ExistsBijection
  <1>5. QED
    BY <1>1, <1>3, <1>4, FS_Bijection

\* An entry's place is the number of elements up to it.
LEMMA PlaceCounts ==
  ASSUME NEW X, NEW s, Lists(s, X), NEW R, Orders(R, X), NEW i \in DOMAIN s
  PROVE  PlaceIn(s, R, i) = Cardinality(UpTo(s[i], X, R))
  <1> DEFINE J == {j \in DOMAIN s : IF j <= i THEN <<s[i], s[j]>> \notin R ELSE <<s[j], s[i]>> \in R}
             f == [j \in J |-> s[j]]
  <1>1. DOMAIN s = 1..Len(s) /\ IsFiniteSet(DOMAIN s) /\ \A j \in DOMAIN s : s[j] \in X
    BY ListLength, FS_Interval DEF Lists
  <1>2. \A j \in DOMAIN s : j \in J <=> s[j] \in UpTo(s[i], X, R)
    <2> SUFFICES ASSUME NEW j \in DOMAIN s
                 PROVE  j \in J <=> s[j] \in UpTo(s[i], X, R)
      OBVIOUS
    <2>1. s[i] \in X /\ s[j] \in X /\ i \in Nat /\ j \in Nat
      BY <1>1
    <2>2. s[j] = s[i] <=> j = i
      BY DEF Lists
    <2>3. ~(<<s[i], s[j]>> \in R /\ <<s[j], s[i]>> \in R)
      BY <2>1 DEF Orders
    <2>4. s[j] = s[i] \/ <<s[i], s[j]>> \in R \/ <<s[j], s[i]>> \in R
      BY <2>1 DEF Orders
    <2>5. <<s[i], s[i]>> \notin R
      BY <2>1 DEF Orders
    <2>6. QED
      BY <2>1, <2>2, <2>3, <2>4, <2>5 DEF UpTo
  <1>3. f \in Bijection(J, UpTo(s[i], X, R))
    <2>1. \A x \in UpTo(s[i], X, R) : \E j \in J : s[j] = x
      <3> SUFFICES ASSUME NEW x \in UpTo(s[i], X, R)
                   PROVE  \E j \in J : s[j] = x
        OBVIOUS
      <3>1. PICK j \in DOMAIN s : s[j] = x
        BY DEF Lists, ToSet, UpTo
      <3>2. j \in J
        BY <1>2, <3>1
      <3>3. QED
        BY <3>1, <3>2
    <2>2. \A j \in J : j \in DOMAIN s
      OBVIOUS
    <2>3. \A j \in J : s[j] \in UpTo(s[i], X, R)
      BY <1>2, <2>2
    <2>4. \A j, k \in J : s[j] = s[k] => j = k
      BY <2>2 DEF Lists
    <2> HIDE DEF J
    <2>5. QED
      BY <2>1, <2>3, <2>4 DEF Bijection, Injection, Surjection, IsInjective
  <1>4. ExistsBijection(J, UpTo(s[i], X, R))
    BY <1>3 DEF ExistsBijection
  <1>5. IsFiniteSet(J)
    BY <1>1, FS_Subset
  <1>6. Cardinality(UpTo(s[i], X, R)) = Cardinality(J)
    <2> HIDE DEF J
    <2>1. QED
      BY <1>4, <1>5, FS_Bijection
  <1>7. QED
    BY <1>6 DEF PlaceIn

\* No two elements have as many up to them, and for every number up to that of all
\* there is one that has so many.
LEMMA Ranks ==
  ASSUME NEW X, IsFiniteSet(X), NEW R, Orders(R, X)
  PROVE  /\ \A x, y \in X : Cardinality(UpTo(x, X, R)) = Cardinality(UpTo(y, X, R)) => x = y
         /\ \A k \in 1..Cardinality(X) : \E x \in X : Cardinality(UpTo(x, X, R)) = k
  <1> DEFINE n == Cardinality(X)
             C(x) == Cardinality(UpTo(x, X, R))
             f == [x \in X |-> C(x)]
  <1>1. n \in Nat /\ IsFiniteSet(1..n) /\ Cardinality(1..n) = n
    <2>1. n \in Nat
      BY FS_CardinalityType
    <2>2. QED
      BY <2>1, FS_Interval
  <1>2. \A x \in X : IsFiniteSet(UpTo(x, X, R)) /\ C(x) \in Nat /\ C(x) <= n
    BY FS_Subset, FS_CardinalityType DEF UpTo
  <1>3. ASSUME NEW x \in X, NEW y \in X, <<x, y>> \in R
        PROVE  C(x) < C(y)
    <2>1. UpTo(x, X, R) \subseteq UpTo(y, X, R)
      BY <1>3 DEF UpTo, Orders
    <2>2. y \in UpTo(y, X, R) /\ y \notin UpTo(x, X, R)
      BY <1>3 DEF UpTo, Orders
    <2>3. C(x) <= C(y) /\ C(x) # C(y)
      BY <1>2, <2>1, <2>2, FS_Subset
    <2>4. QED
      BY <1>2, <2>3
  <1>4. \A x, y \in X : C(x) = C(y) => x = y
    <2> SUFFICES ASSUME NEW x \in X, NEW y \in X, C(x) = C(y), x # y
                 PROVE  FALSE
      OBVIOUS
    <2>1. <<x, y>> \in R \/ <<y, x>> \in R
      BY DEF Orders
    <2>2. C(x) < C(y) \/ C(y) < C(x)
      BY <1>3, <2>1
    <2> HIDE DEF C
    <2>3. QED
      BY <1>2, <2>2
  <1>5. \A x \in X : C(x) \in 1..n
    <2> SUFFICES ASSUME NEW x \in X PROVE C(x) \in 1..n
      OBVIOUS
    <2>1. UpTo(x, X, R) # {}
      BY DEF UpTo
    <2>2. C(x) # 0
      BY <1>2, <2>1, FS_EmptySet
    <2> HIDE DEF C
    <2>3. QED
      BY <1>1, <1>2, <2>2
  <1> HIDE DEF C
  <1>6. f \in Injection(X, 1..n)
    BY <1>4, <1>5 DEF Injection, IsInjective
  <1>7. f \in Surjection(X, 1..n)
    <2> HIDE DEF f
    <2>1. QED
      BY <1>1, <1>6, FS_Injection
  <1>8. \A k \in 1..n : \E x \in X : C(x) = k
    BY <1>7 DEF Surjection
  <1>9. QED
    BY <1>4, <1>8 DEF C

\* Every place is some entry's.
LEMMA PlacesTaken ==
  ASSUME NEW X, NEW s, Lists(s, X), NEW R, Orders(R, X)
  PROVE  \A k \in DOMAIN s : \E i \in DOMAIN s : PlaceIn(s, R, i) = k
  <1> SUFFICES ASSUME NEW k \in DOMAIN s
               PROVE  \E i \in DOMAIN s : PlaceIn(s, R, i) = k
    OBVIOUS
  <1>1. IsFiniteSet(X) /\ k \in 1..Cardinality(X)
    BY ListLength
  <1>2. PICK x \in X : Cardinality(UpTo(x, X, R)) = k
    BY <1>1, Ranks
  <1>3. PICK i \in DOMAIN s : s[i] = x
    BY DEF Lists, ToSet
  <1>4. QED
    BY <1>2, <1>3, PlaceCounts

\* Sorting a list lists the same elements, each at the place of its rank.
LEMMA SortedLists ==
  ASSUME NEW X, NEW s, Lists(s, X), NEW R, Orders(R, X), NEW t, Sorts(t, s, R)
  PROVE  /\ Lists(t, X) /\ DOMAIN t = DOMAIN s
         /\ \A k \in DOMAIN s : t[k] \in X /\ Cardinality(UpTo(t[k], X, R)) = k
  <1>1. /\ DOMAIN s = 1..Len(s) /\ Len(s) \in Nat /\ IsFiniteSet(X) /\ Cardinality(X) = Len(s)
        /\ \A i \in DOMAIN s : s[i] \in X
    BY ListLength DEF Lists
  <1>2. \A k \in DOMAIN s : t[k] \in X /\ Cardinality(UpTo(t[k], X, R)) = k
    BY <1>1, PlaceCounts DEF Sorts
  <1>3. DOMAIN t = DOMAIN s /\ t = [k \in DOMAIN s |-> t[k]]
    BY DEF Sorts
  <1>4. t \in [1..Len(s) -> X]
    BY <1>1, <1>2, <1>3
  <1>5. t \in Seq(X)
    BY <1>1, <1>4
  <1>6. ASSUME NEW x \in X
        PROVE  \E k \in DOMAIN t : t[k] = x
    <2>1. PICK i \in DOMAIN s : s[i] = x
      BY DEF Lists, ToSet
    <2> DEFINE k == Cardinality(UpTo(x, X, R))
    <2>2. IsFiniteSet(UpTo(x, X, R)) /\ k \in Nat /\ k <= Cardinality(X)
      BY <1>1, FS_Subset, FS_CardinalityType DEF UpTo
    <2>3. k # 0
      <3>1. x \in UpTo(x, X, R)
        BY DEF UpTo
      <3>2. QED
        BY <2>2, <3>1, FS_EmptySet
    <2>4. k \in DOMAIN s
      BY <1>1, <2>2, <2>3
    <2>5. t[k] = x
      BY <1>1, <1>2, <2>4, Ranks
    <2>6. QED
      BY <1>3, <2>4, <2>5
  <1>7. ToSet(t) = X
    BY <1>2, <1>3, <1>6 DEF ToSet
  <1>8. \A i, j \in DOMAIN t : t[i] = t[j] => i = j
    <2> SUFFICES ASSUME NEW i \in DOMAIN s, NEW j \in DOMAIN s, t[i] = t[j]
                 PROVE  i = j
      BY <1>3
    <2>1. Cardinality(UpTo(t[i], X, R)) = i /\ Cardinality(UpTo(t[j], X, R)) = j
      BY <1>2
    <2>2. QED
      BY <2>1
  <1>9. QED
    BY <1>2, <1>3, <1>5, <1>7, <1>8 DEF Lists

\* Two lists of the same set are sorted into one and the same.
LEMMA SortedOnce ==
  ASSUME NEW X, NEW R, Orders(R, X), NEW s, Lists(s, X), NEW u, Lists(u, X),
         NEW t, Sorts(t, s, R), NEW v, Sorts(v, u, R)
  PROVE  t = v
  <1>1. /\ IsFiniteSet(X) /\ DOMAIN s = 1..Cardinality(X) /\ DOMAIN u = 1..Cardinality(X)
    BY ListLength
  <1>2. /\ DOMAIN t = 1..Cardinality(X) /\ t = [k \in 1..Cardinality(X) |-> t[k]]
        /\ DOMAIN v = 1..Cardinality(X) /\ v = [k \in 1..Cardinality(X) |-> v[k]]
    BY <1>1 DEF Sorts
  <1>3. ASSUME NEW k \in 1..Cardinality(X)
        PROVE  t[k] = v[k]
    <2>1. \A i \in DOMAIN s : t[i] \in X /\ Cardinality(UpTo(t[i], X, R)) = i
      BY SortedLists
    <2>2. \A i \in DOMAIN u : v[i] \in X /\ Cardinality(UpTo(v[i], X, R)) = i
      BY SortedLists
    <2>3. QED
      BY <1>1, <2>1, <2>2, Ranks
  <1>4. QED
    BY <1>2, <1>3

\* What makes a list of items, or of links, one that can be put in order.
ItemsListed(s) ==
  /\ s \in Seq(ToSet(s)) /\ Unrepeated(s, ItemId)
  /\ \A item \in ToSet(s) : item.id \in Int

LinksListed(s) ==
  /\ s \in Seq(ToSet(s)) /\ Unrepeated(s, LinkId)
  /\ \A link \in ToSet(s) : link = [task |-> link.task, ksao |-> link.ksao, strength |-> link.strength]
                            /\ link.task \in Int /\ link.ksao \in Int

ItemOrder(X) == {p \in X \X X : ItemBefore(p[1], p[2])}
LinkOrder(X) == {p \in X \X X : LinkBefore(p[1], p[2])}

\* Items with identities of their own are listed, and ordered by them.
LEMMA ItemsAreListed ==
  ASSUME NEW s, ItemsListed(s)
  PROVE  /\ Lists(s, ToSet(s)) /\ Orders(ItemOrder(ToSet(s)), ToSet(s))
         /\ \A x, y \in ToSet(s) : x.id = y.id => x = y
  <1>1. Lists(s, ToSet(s))
    BY DEF ItemsListed, Lists, Unrepeated, ItemId
  <1>2. \A x, y \in ToSet(s) : x.id = y.id => x = y
    BY DEF ItemsListed, Unrepeated, ItemId, ToSet
  <1>3. \A x, y \in ToSet(s) : <<x, y>> \in ItemOrder(ToSet(s)) <=> x.id < y.id
    BY DEF ItemOrder, ItemBefore
  <1>4. \A x \in ToSet(s) : x.id \in Int
    BY DEF ItemsListed
  <1>5. Orders(ItemOrder(ToSet(s)), ToSet(s))
    BY <1>2, <1>3, <1>4 DEF Orders
  <1>6. QED
    BY <1>1, <1>2, <1>5

\* Links are listed, and ordered by the pairs they join.
LEMMA LinksAreListed ==
  ASSUME NEW s, LinksListed(s)
  PROVE  /\ Lists(s, ToSet(s)) /\ Orders(LinkOrder(ToSet(s)), ToSet(s))
         /\ \A x, y \in ToSet(s) : x.task = y.task /\ x.ksao = y.ksao => x = y
  <1>1. Lists(s, ToSet(s))
    BY DEF LinksListed, Lists, Unrepeated, LinkId
  <1>2. \A x, y \in ToSet(s) : x.task = y.task /\ x.ksao = y.ksao => x = y
    BY DEF LinksListed, Unrepeated, LinkId, ToSet
  <1>3. \A x, y \in ToSet(s) :
          <<x, y>> \in LinkOrder(ToSet(s)) <=> x.task < y.task \/ (x.task = y.task /\ x.ksao < y.ksao)
    BY DEF LinkOrder, LinkBefore
  <1>4. \A x \in ToSet(s) : x.task \in Int /\ x.ksao \in Int
    BY DEF LinksListed
  <1>5. Orders(LinkOrder(ToSet(s)), ToSet(s))
    BY <1>2, <1>3, <1>4 DEF Orders
  <1>6. QED
    BY <1>1, <1>2, <1>5

\* Items are sorted by identity.
LEMMA ItemsSorted ==
  ASSUME NEW s, ItemsListed(s)
  PROVE  Sorts(ItemsInOrder(s), s, ItemOrder(ToSet(s)))
  <1> DEFINE R == ItemOrder(ToSet(s))
             t == ItemsInOrder(s)
  <1>1. \A i, j \in DOMAIN s : ItemBefore(s[i], s[j]) <=> <<s[i], s[j]>> \in R
    BY DEF ItemOrder, ToSet
  <1>2. ASSUME NEW i \in DOMAIN s
        PROVE  Place(s, i, ItemBefore) = PlaceIn(s, R, i)
    <2>1. {j \in DOMAIN s : IF j <= i THEN ~ItemBefore(s[i], s[j]) ELSE ItemBefore(s[j], s[i])}
            = {j \in DOMAIN s : IF j <= i THEN <<s[i], s[j]>> \notin R ELSE <<s[j], s[i]>> \in R}
      BY <1>1
    <2>2. QED
      BY <2>1 DEF Place, PlaceIn
  <1>3. \A k \in DOMAIN s : \E i \in DOMAIN s : PlaceIn(s, R, i) = k
    BY ItemsAreListed, PlacesTaken
  <1>4. t = [k \in DOMAIN s |-> s[CHOOSE i \in DOMAIN s : Place(s, i, ItemBefore) = k]]
    BY DEF ItemsInOrder, SortedBy
  <1> HIDE DEF R, t
  <1>5. ASSUME NEW k \in DOMAIN s
        PROVE  \E i \in DOMAIN s : PlaceIn(s, R, i) = k /\ t[k] = s[i]
    <2> DEFINE i == CHOOSE i \in DOMAIN s : Place(s, i, ItemBefore) = k
    <2>1. i \in DOMAIN s /\ Place(s, i, ItemBefore) = k
      BY <1>2, <1>3
    <2>2. t[k] = s[i]
      BY <1>4
    <2>3. PlaceIn(s, R, i) = k
      BY <1>2, <2>1
    <2>4. QED
      BY <2>1, <2>2, <2>3
  <1>6. DOMAIN t = DOMAIN s /\ t = [k \in DOMAIN s |-> t[k]]
    BY <1>4
  <1>7. QED
    BY <1>5, <1>6 DEF Sorts, R, t

\* Links are sorted by task and requirement.
LEMMA LinksSorted ==
  ASSUME NEW s, LinksListed(s)
  PROVE  Sorts(LinksInOrder(s), s, LinkOrder(ToSet(s)))
  <1> DEFINE R == LinkOrder(ToSet(s))
             t == LinksInOrder(s)
  <1>1. \A i, j \in DOMAIN s : LinkBefore(s[i], s[j]) <=> <<s[i], s[j]>> \in R
    BY DEF LinkOrder, ToSet
  <1>2. ASSUME NEW i \in DOMAIN s
        PROVE  Place(s, i, LinkBefore) = PlaceIn(s, R, i)
    <2>1. {j \in DOMAIN s : IF j <= i THEN ~LinkBefore(s[i], s[j]) ELSE LinkBefore(s[j], s[i])}
            = {j \in DOMAIN s : IF j <= i THEN <<s[i], s[j]>> \notin R ELSE <<s[j], s[i]>> \in R}
      BY <1>1
    <2>2. QED
      BY <2>1 DEF Place, PlaceIn
  <1>3. \A k \in DOMAIN s : \E i \in DOMAIN s : PlaceIn(s, R, i) = k
    BY LinksAreListed, PlacesTaken
  <1>4. t = [k \in DOMAIN s |-> s[CHOOSE i \in DOMAIN s : Place(s, i, LinkBefore) = k]]
    BY DEF LinksInOrder, SortedBy
  <1> HIDE DEF R, t
  <1>5. ASSUME NEW k \in DOMAIN s
        PROVE  \E i \in DOMAIN s : PlaceIn(s, R, i) = k /\ t[k] = s[i]
    <2> DEFINE i == CHOOSE i \in DOMAIN s : Place(s, i, LinkBefore) = k
    <2>1. i \in DOMAIN s /\ Place(s, i, LinkBefore) = k
      BY <1>2, <1>3
    <2>2. t[k] = s[i]
      BY <1>4
    <2>3. PlaceIn(s, R, i) = k
      BY <1>2, <2>1
    <2>4. QED
      BY <2>1, <2>2, <2>3
  <1>6. DOMAIN t = DOMAIN s /\ t = [k \in DOMAIN s |-> t[k]]
    BY <1>4
  <1>7. QED
    BY <1>5, <1>6 DEF Sorts, R, t

------------------------------------------------------------------------------
(* Documents that can be put in order *)

\* What parsing leaves of a document, and what is loaded again, reads as.
Good(doc) ==
  /\ HasFields(doc)
  /\ ItemsListed(doc.tasks) /\ ItemsListed(doc.ksaos) /\ LinksListed(doc.links)
  /\ \A item \in ToSet(doc.tasks) \cup ToSet(doc.ksaos) : IsItem(item)
  /\ IsInstant(doc.recorded) /\ IsSource(doc.fja)
  /\ doc.review # NoReview => IsReview(doc.review)
  /\ doc.review # HalfReview

\* A list that is rewritten entry by entry, keeping its identities.
Rewrites(t, s) ==
  /\ DOMAIN t = DOMAIN s /\ t = [i \in DOMAIN s |-> t[i]]
  /\ \A i \in DOMAIN s : t[i].id = s[i].id

\* Such a list has the identities it had, each as often.
LEMMA RewrittenListed ==
  ASSUME NEW s, s \in Seq(ToSet(s)), \A item \in ToSet(s) : item.id \in Int, NEW t, Rewrites(t, s)
  PROVE  /\ t \in Seq(ToSet(t)) /\ \A item \in ToSet(t) : item.id \in Int
         /\ Unrepeated(t, ItemId) <=> Unrepeated(s, ItemId)
         /\ Ids(t) = Ids(s)
  <1>1. DOMAIN s = 1..Len(s) /\ Len(s) \in Nat
    OBVIOUS
  <1>2. t \in [1..Len(s) -> ToSet(t)]
    BY <1>1 DEF Rewrites, ToSet
  <1>3. t \in Seq(ToSet(t))
    BY <1>1, <1>2
  <1>4. \A item \in ToSet(t) : item.id \in Int
    BY DEF Rewrites, ToSet
  <1>5. Unrepeated(t, ItemId) <=> Unrepeated(s, ItemId)
    BY DEF Rewrites, Unrepeated, ItemId
  <1>6. Ids(t) = {t[i].id : i \in DOMAIN t} /\ Ids(s) = {s[i].id : i \in DOMAIN s}
    BY DEF Ids, ToSet
  <1>7. Ids(t) = Ids(s)
    BY <1>6 DEF Rewrites
  <1>8. QED
    BY <1>3, <1>4, <1>5, <1>7

\* An item that is parsed is an item, and says the same.
LEMMA ItemParsed ==
  ASSUME NEW item, IsItem(item)
  PROVE  LET parsed == [item EXCEPT !.statement = Normalized(@)] IN
         /\ IsItem(parsed) /\ parsed.id = item.id /\ parsed.source = item.source
         /\ parsed.statement.words = item.statement.words
         /\ ItemInUtc(parsed).id = item.id /\ ItemInUtc(item).id = item.id
         /\ [ItemInUtc(parsed) EXCEPT !.statement = @.words]
              = [ItemInUtc(item) EXCEPT !.statement = @.words]
  <1> DEFINE parsed == [item EXCEPT !.statement = Normalized(@)]
  <1>1. item = [id |-> item.id, statement |-> item.statement, source |-> item.source]
        /\ item.id \in Int /\ IsSource(item.source)
        /\ item.statement = [words |-> item.statement.words, spacing |-> item.statement.spacing]
    BY DEF IsItem
  <1>2. Normalized(item.statement) = [words |-> item.statement.words, spacing |-> "single"]
    BY <1>1 DEF Normalized
  <1>3. parsed = [id |-> item.id, statement |-> Normalized(item.statement), source |-> item.source]
    BY <1>1
  <1> HIDE DEF parsed
  <1>4. IsItem(parsed) /\ parsed.id = item.id /\ parsed.source = item.source
        /\ parsed.statement.words = item.statement.words
    BY <1>1, <1>2, <1>3 DEF IsItem
  <1>5. ItemInUtc(parsed) = [id |-> item.id, statement |-> parsed.statement,
                             source |-> SourceInUtc(item.source)]
    BY <1>3 DEF ItemInUtc
  <1>6. ItemInUtc(item) = [id |-> item.id, statement |-> item.statement,
                           source |-> SourceInUtc(item.source)]
    BY <1>1 DEF ItemInUtc
  <1>7. [ItemInUtc(parsed) EXCEPT !.statement = @.words]
          = [id |-> item.id, statement |-> parsed.statement.words,
             source |-> SourceInUtc(item.source)]
    BY <1>5
  <1>8. [ItemInUtc(item) EXCEPT !.statement = @.words]
          = [id |-> item.id, statement |-> item.statement.words,
             source |-> SourceInUtc(item.source)]
    BY <1>6
  <1>9. QED
    BY <1>4, <1>5, <1>6, <1>7, <1>8 DEF parsed

\* Parsing rewrites the items of a list and what they say stays.
LEMMA ItemsParsed ==
  ASSUME NEW s, s \in Seq(ToSet(s)), \A item \in ToSet(s) : IsItem(item)
  PROVE  /\ Rewrites(ItemsNormalized(s), s)
         /\ \A item \in ToSet(ItemsNormalized(s)) : IsItem(item)
         /\ \A i \in DOMAIN s :
              [ItemInUtc(ItemsNormalized(s)[i]) EXCEPT !.statement = @.words]
                = [ItemInUtc(s[i]) EXCEPT !.statement = @.words]
  <1> DEFINE t == ItemsNormalized(s)
  <1>1. DOMAIN t = DOMAIN s /\ t = [i \in DOMAIN s |-> t[i]]
        /\ \A i \in DOMAIN s : t[i] = [s[i] EXCEPT !.statement = Normalized(@)]
    BY DEF ItemsNormalized
  <1>2. \A i \in DOMAIN s : IsItem(s[i])
    BY DEF ToSet
  <1> HIDE DEF t
  <1>3. ASSUME NEW i \in DOMAIN s
        PROVE  /\ IsItem(t[i]) /\ t[i].id = s[i].id
               /\ [ItemInUtc(t[i]) EXCEPT !.statement = @.words]
                    = [ItemInUtc(s[i]) EXCEPT !.statement = @.words]
    BY <1>1, <1>2, ItemParsed
  <1>4. QED
    BY <1>1, <1>3 DEF Rewrites, ToSet, t

\* A parsed list without repetition can be put in order.
LEMMA ParsedListed ==
  ASSUME NEW s, s \in Seq(ToSet(s)), \A item \in ToSet(s) : IsItem(item),
         Unrepeated(ItemsNormalized(s), ItemId)
  PROVE  ItemsListed(ItemsNormalized(s)) /\ \A item \in ToSet(ItemsNormalized(s)) : IsItem(item)
  <1>1. \A item \in ToSet(s) : item.id \in Int
    BY DEF IsItem
  <1>2. Rewrites(ItemsNormalized(s), s) /\ \A item \in ToSet(ItemsNormalized(s)) : IsItem(item)
    BY ItemsParsed
  <1>3. /\ ItemsNormalized(s) \in Seq(ToSet(ItemsNormalized(s)))
        /\ \A item \in ToSet(ItemsNormalized(s)) : item.id \in Int
    BY <1>1, <1>2, RewrittenListed
  <1>4. QED
    BY <1>2, <1>3 DEF ItemsListed

\* A document that is accepted is a good one once it is parsed.
LEMMA PostedGood ==
  ASSUME NEW r \in Acceptable
  PROVE  Good(Posted[r])
  <1> DEFINE doc == Document[r]
             P == Posted[r]
  <1>1. r \in Requests /\ IsDocument(doc) /\ Accepted(P) /\ P = Parsed(doc) /\ HasFields(doc)
    BY RequestAssumption, DocumentFields DEF Acceptable, Posted
  <1>2. /\ doc.tasks \in Seq(ToSet(doc.tasks)) /\ \A item \in ToSet(doc.tasks) : IsItem(item)
        /\ doc.ksaos \in Seq(ToSet(doc.ksaos)) /\ \A item \in ToSet(doc.ksaos) : IsItem(item)
        /\ doc.links \in Seq(ToSet(doc.links)) /\ \A link \in ToSet(doc.links) : IsLink(link)
        /\ IsInstant(doc.recorded) /\ IsSource(doc.fja)
        /\ doc.review \notin {NoReview, HalfReview} => IsReview(doc.review)
    BY <1>1 DEF IsDocument
  <1>3. /\ HasFields(P) /\ P.links = doc.links /\ P.recorded = doc.recorded /\ P.fja = doc.fja
        /\ P.review = doc.review
        /\ P.tasks = ItemsNormalized(doc.tasks) /\ P.ksaos = ItemsNormalized(doc.ksaos)
    BY <1>1, ParsedFields DEF Fields
  <1>4. Unrepeated(P.tasks, ItemId) /\ Unrepeated(P.ksaos, ItemId) /\ Unrepeated(P.links, LinkId)
    BY <1>1 DEF Accepted, Linked
  <1>5. ItemsListed(P.tasks) /\ \A item \in ToSet(P.tasks) : IsItem(item)
    <2>1. ItemsListed(ItemsNormalized(doc.tasks))
          /\ \A item \in ToSet(ItemsNormalized(doc.tasks)) : IsItem(item)
      BY <1>2, <1>3, <1>4, ParsedListed
    <2>2. QED
      BY <1>3, <2>1
  <1>6. ItemsListed(P.ksaos) /\ \A item \in ToSet(P.ksaos) : IsItem(item)
    <2>1. ItemsListed(ItemsNormalized(doc.ksaos))
          /\ \A item \in ToSet(ItemsNormalized(doc.ksaos)) : IsItem(item)
      BY <1>2, <1>3, <1>4, ParsedListed
    <2>2. QED
      BY <1>3, <2>1
  <1>7. LinksListed(P.links)
    BY <1>2, <1>3, <1>4 DEF LinksListed, IsLink
  <1>8. P.review # HalfReview
    BY <1>1 DEF Accepted
  <1>9. QED
    BY <1>2, <1>3, <1>5, <1>6, <1>7, <1>8 DEF Good

------------------------------------------------------------------------------
(* What a canonical form says *)

\* Records with the ten fields are equal when the fields are.
LEMMA SameFields ==
  ASSUME NEW d, NEW e, HasFields(d), HasFields(e), \A f \in Fields : d[f] = e[f]
  PROVE  d = e
  BY DEF HasFields

Scalars == {"analysis", "job", "version", "status", "recorded", "review", "fja"}

\* The fields of a document in UTC.
LEMMA InUtcFields ==
  ASSUME NEW doc, HasFields(doc)
  PROVE  /\ HasFields(InUtc(doc))
         /\ \A f \in {"analysis", "job", "version", "status", "links"} : InUtc(doc)[f] = doc[f]
         /\ InUtc(doc).recorded = Utc(doc.recorded) /\ InUtc(doc).fja = SourceInUtc(doc.fja)
         /\ InUtc(doc).review = ReviewInUtc(doc.review)
         /\ InUtc(doc).tasks = [i \in DOMAIN doc.tasks |-> ItemInUtc(doc.tasks[i])]
         /\ InUtc(doc).ksaos = [i \in DOMAIN doc.ksaos |-> ItemInUtc(doc.ksaos[i])]
  BY DEF InUtc, HasFields, Fields

\* The fields of a canonical form: those in UTC, with the lists sorted.
LEMMA CanonicalFields ==
  ASSUME NEW doc, HasFields(doc)
  PROVE  /\ HasFields(Canonical(doc))
         /\ \A f \in Scalars : Canonical(doc)[f] = InUtc(doc)[f]
         /\ Canonical(doc).tasks = ItemsInOrder(InUtc(doc).tasks)
         /\ Canonical(doc).ksaos = ItemsInOrder(InUtc(doc).ksaos)
         /\ Canonical(doc).links = LinksInOrder(doc.links)
  <1> DEFINE U == InUtc(doc)
  <1>1. HasFields(U) /\ U.links = doc.links
    BY InUtcFields
  <1>2. Canonical(doc) = [U EXCEPT !.tasks = ItemsInOrder(U.tasks),
                                   !.ksaos = ItemsInOrder(U.ksaos),
                                   !.links = LinksInOrder(U.links)]
    BY <1>1 DEF Canonical, HasFields, Fields
  <1> HIDE DEF U
  <1>3. /\ HasFields(Canonical(doc))
        /\ \A f \in Scalars : Canonical(doc)[f] = U[f]
        /\ Canonical(doc).tasks = ItemsInOrder(U.tasks)
        /\ Canonical(doc).ksaos = ItemsInOrder(U.ksaos)
        /\ Canonical(doc).links = LinksInOrder(U.links)
    BY <1>1, <1>2 DEF HasFields, Fields, Scalars
  <1>4. QED
    BY <1>1, <1>3 DEF U

\* The items of a list, but for the spacing of their statements.
Said(list) == {[item EXCEPT !.statement = @.words] : item \in ToSet(list)}

\* The fields of a meaning: those in UTC, with the lists made sets.
LEMMA MeaningFields ==
  ASSUME NEW doc, HasFields(doc)
  PROVE  /\ HasFields(Meaning(doc))
         /\ \A f \in Scalars : Meaning(doc)[f] = InUtc(doc)[f]
         /\ Meaning(doc).tasks = Said(InUtc(doc).tasks)
         /\ Meaning(doc).ksaos = Said(InUtc(doc).ksaos)
         /\ Meaning(doc).links = ToSet(doc.links)
  <1> DEFINE U == InUtc(doc)
  <1>1. HasFields(U) /\ U.links = doc.links
    BY InUtcFields
  <1>2. Meaning(doc) = [U EXCEPT !.tasks = Said(U.tasks), !.ksaos = Said(U.ksaos),
                                 !.links = ToSet(U.links)]
    BY <1>1 DEF Meaning, Said, HasFields, Fields
  <1> HIDE DEF U
  <1>3. /\ HasFields(Meaning(doc))
        /\ \A f \in Scalars : Meaning(doc)[f] = U[f]
        /\ Meaning(doc).tasks = Said(U.tasks) /\ Meaning(doc).ksaos = Said(U.ksaos)
        /\ Meaning(doc).links = ToSet(U.links)
    BY <1>1, <1>2 DEF HasFields, Fields, Scalars
  <1>4. QED
    BY <1>1, <1>3 DEF U

\* In UTC the items keep their identities.
LEMMA UtcListed ==
  ASSUME NEW s, ItemsListed(s), \A item \in ToSet(s) : IsItem(item)
  PROVE  ItemsListed([i \in DOMAIN s |-> ItemInUtc(s[i])])
  <1> DEFINE t == [i \in DOMAIN s |-> ItemInUtc(s[i])]
  <1>1. \A i \in DOMAIN s : t[i].id = s[i].id
    BY ItemParsed DEF ToSet
  <1>2. Rewrites(t, s)
    BY <1>1 DEF Rewrites
  <1> HIDE DEF t
  <1>3. /\ s \in Seq(ToSet(s)) /\ \A item \in ToSet(s) : item.id \in Int
        /\ Unrepeated(s, ItemId)
    BY DEF ItemsListed
  <1>4. /\ t \in Seq(ToSet(t)) /\ \A item \in ToSet(t) : item.id \in Int
        /\ Unrepeated(t, ItemId) <=> Unrepeated(s, ItemId)
    BY <1>2, <1>3, RewrittenListed
  <1>5. ItemsListed(t)
    BY <1>3, <1>4 DEF ItemsListed
  <1>6. QED
    BY <1>5 DEF t

\* Sorting adds nothing and leaves nothing out.
LEMMA SortedItems ==
  ASSUME NEW s, ItemsListed(s)
  PROVE  /\ ToSet(ItemsInOrder(s)) = ToSet(s)
         /\ ItemsListed(ItemsInOrder(s))
  <1> DEFINE t == ItemsInOrder(s)
  <1>1. Sorts(t, s, ItemOrder(ToSet(s))) /\ Lists(s, ToSet(s)) /\ Orders(ItemOrder(ToSet(s)), ToSet(s))
        /\ \A x, y \in ToSet(s) : x.id = y.id => x = y
    BY ItemsSorted, ItemsAreListed
  <1> HIDE DEF t
  <1>2. Lists(t, ToSet(s))
    BY <1>1, SortedLists
  <1>3. ToSet(t) = ToSet(s) /\ t \in Seq(ToSet(t)) /\ \A item \in ToSet(t) : item.id \in Int
    BY <1>2 DEF Lists, ItemsListed
  <1>4. Unrepeated(t, ItemId)
    BY <1>1, <1>2 DEF Unrepeated, ItemId, Lists
  <1>5. ToSet(t) = ToSet(s) /\ ItemsListed(t)
    BY <1>3, <1>4 DEF ItemsListed
  <1>6. QED
    BY <1>5 DEF t

\* The same for links.
LEMMA SortedLinks ==
  ASSUME NEW s, LinksListed(s)
  PROVE  /\ ToSet(LinksInOrder(s)) = ToSet(s)
         /\ LinksListed(LinksInOrder(s))
  <1> DEFINE t == LinksInOrder(s)
  <1>1. Sorts(t, s, LinkOrder(ToSet(s))) /\ Lists(s, ToSet(s)) /\ Orders(LinkOrder(ToSet(s)), ToSet(s))
        /\ \A x, y \in ToSet(s) : x.task = y.task /\ x.ksao = y.ksao => x = y
    BY LinksSorted, LinksAreListed
  <1> HIDE DEF t
  <1>2. Lists(t, ToSet(s))
    BY <1>1, SortedLists
  <1>3. ToSet(t) = ToSet(s) /\ t \in Seq(ToSet(t))
    BY <1>2 DEF Lists
  <1>4. Unrepeated(t, LinkId)
    BY <1>1, <1>2 DEF Unrepeated, LinkId, Lists
  <1>5. ToSet(t) = ToSet(s) /\ LinksListed(t)
    BY <1>3, <1>4 DEF LinksListed
  <1>6. QED
    BY <1>5 DEF t

\* A good document in UTC can be put in order.
LEMMA GoodInUtc ==
  ASSUME NEW doc, Good(doc)
  PROVE  /\ HasFields(doc) /\ LinksListed(doc.links)
         /\ ItemsListed(InUtc(doc).tasks) /\ ItemsListed(InUtc(doc).ksaos)
  <1>1. /\ HasFields(doc) /\ LinksListed(doc.links)
        /\ ItemsListed(doc.tasks) /\ \A item \in ToSet(doc.tasks) : IsItem(item)
        /\ ItemsListed(doc.ksaos) /\ \A item \in ToSet(doc.ksaos) : IsItem(item)
    BY DEF Good
  <1>2. /\ InUtc(doc).tasks = [i \in DOMAIN doc.tasks |-> ItemInUtc(doc.tasks[i])]
        /\ InUtc(doc).ksaos = [i \in DOMAIN doc.ksaos |-> ItemInUtc(doc.ksaos[i])]
    BY <1>1, InUtcFields
  <1>3. ItemsListed([i \in DOMAIN doc.tasks |-> ItemInUtc(doc.tasks[i])])
    BY <1>1, UtcListed
  <1>4. ItemsListed([i \in DOMAIN doc.ksaos |-> ItemInUtc(doc.ksaos[i])])
    BY <1>1, UtcListed
  <1>5. QED
    BY <1>1, <1>2, <1>3, <1>4

\* Documents with one canonical form say the same.
LEMMA CanonicalMeans ==
  ASSUME NEW d, Good(d), NEW e, Good(e), Canonical(d) = Canonical(e)
  PROVE  Meaning(d) = Meaning(e)
  <1>1. HasFields(d) /\ LinksListed(d.links)
        /\ ItemsListed(InUtc(d).tasks) /\ ItemsListed(InUtc(d).ksaos)
    BY GoodInUtc
  <1>2. HasFields(e) /\ LinksListed(e.links)
        /\ ItemsListed(InUtc(e).tasks) /\ ItemsListed(InUtc(e).ksaos)
    BY GoodInUtc
  <1>3. /\ ToSet(Canonical(d).tasks) = ToSet(InUtc(d).tasks)
        /\ ToSet(Canonical(d).ksaos) = ToSet(InUtc(d).ksaos)
        /\ ToSet(Canonical(d).links) = ToSet(d.links)
    BY <1>1, CanonicalFields, SortedItems, SortedLinks
  <1>4. /\ ToSet(Canonical(e).tasks) = ToSet(InUtc(e).tasks)
        /\ ToSet(Canonical(e).ksaos) = ToSet(InUtc(e).ksaos)
        /\ ToSet(Canonical(e).links) = ToSet(e.links)
    BY <1>2, CanonicalFields, SortedItems, SortedLinks
  <1>5. /\ Said(InUtc(d).tasks) = Said(InUtc(e).tasks)
        /\ Said(InUtc(d).ksaos) = Said(InUtc(e).ksaos)
    BY <1>3, <1>4 DEF Said
  <1>6. \A f \in Scalars : InUtc(d)[f] = InUtc(e)[f]
    BY <1>1, <1>2, CanonicalFields
  <1>7. \A f \in Fields : Meaning(d)[f] = Meaning(e)[f]
    <2>1. /\ \A f \in Scalars : Meaning(d)[f] = Meaning(e)[f]
          /\ Meaning(d).tasks = Meaning(e).tasks /\ Meaning(d).ksaos = Meaning(e).ksaos
          /\ Meaning(d).links = Meaning(e).links
      BY <1>1, <1>2, <1>3, <1>4, <1>5, <1>6, MeaningFields
    <2>2. QED
      BY <2>1 DEF Fields, Scalars
  <1>8. HasFields(Meaning(d)) /\ HasFields(Meaning(e))
    BY <1>1, <1>2, MeaningFields
  <1>9. QED
    BY <1>7, <1>8, SameFields

\* Parsing changes nothing of what a document says.
LEMMA ParsedMeans ==
  ASSUME NEW doc, IsDocument(doc)
  PROVE  Meaning(Parsed(doc)) = Meaning(doc)
  <1> DEFINE P == Parsed(doc)
  <1>1. /\ HasFields(doc) /\ HasFields(P)
        /\ \A f \in Fields \ {"tasks", "ksaos"} : P[f] = doc[f]
        /\ P.tasks = ItemsNormalized(doc.tasks) /\ P.ksaos = ItemsNormalized(doc.ksaos)
    BY DocumentFields, ParsedFields
  <1> HIDE DEF P
  <1>2. ASSUME NEW s, s \in Seq(ToSet(s)), \A item \in ToSet(s) : IsItem(item)
        PROVE  Said([i \in DOMAIN ItemsNormalized(s) |-> ItemInUtc(ItemsNormalized(s)[i])])
                 = Said([i \in DOMAIN s |-> ItemInUtc(s[i])])
    <2> DEFINE t == ItemsNormalized(s)
               a == [i \in DOMAIN t |-> ItemInUtc(t[i])]
               b == [i \in DOMAIN s |-> ItemInUtc(s[i])]
    <2>1. DOMAIN t = DOMAIN s
          /\ \A i \in DOMAIN s : [ItemInUtc(t[i]) EXCEPT !.statement = @.words]
                                   = [ItemInUtc(s[i]) EXCEPT !.statement = @.words]
      BY <1>2, ItemsParsed DEF Rewrites
    <2> HIDE DEF t
    <2>2. DOMAIN a = DOMAIN s /\ DOMAIN b = DOMAIN s
          /\ \A i \in DOMAIN s : a[i] = ItemInUtc(t[i]) /\ b[i] = ItemInUtc(s[i])
      BY <2>1
    <2> HIDE DEF a, b
    <2> DEFINE A == [i \in DOMAIN s |-> [a[i] EXCEPT !.statement = @.words]]
               B == [i \in DOMAIN s |-> [b[i] EXCEPT !.statement = @.words]]
    <2>3. A = B
      BY <2>1, <2>2
    <2>4. Said(a) = ToSet(A) /\ Said(b) = ToSet(B)
      BY <2>2 DEF Said, ToSet
    <2>5. Said(a) = Said(b)
      <3> HIDE DEF A, B
      <3>1. QED
        BY <2>3, <2>4
    <2>6. QED
      BY <2>5 DEF a, b, t
  <1>3. Said(InUtc(P).tasks) = Said(InUtc(doc).tasks) /\ Said(InUtc(P).ksaos) = Said(InUtc(doc).ksaos)
    <2>1. /\ doc.tasks \in Seq(ToSet(doc.tasks)) /\ \A item \in ToSet(doc.tasks) : IsItem(item)
          /\ doc.ksaos \in Seq(ToSet(doc.ksaos)) /\ \A item \in ToSet(doc.ksaos) : IsItem(item)
      BY DEF IsDocument
    <2> DEFINE Zoned(s) == [i \in DOMAIN s |-> ItemInUtc(s[i])]
    <2>2. \A s : s \in Seq(ToSet(s)) /\ (\A item \in ToSet(s) : IsItem(item))
                 => Said(Zoned(ItemsNormalized(s))) = Said(Zoned(s))
      BY <1>2
    <2>3. /\ InUtc(P).tasks = Zoned(P.tasks) /\ InUtc(P).ksaos = Zoned(P.ksaos)
          /\ InUtc(doc).tasks = Zoned(doc.tasks) /\ InUtc(doc).ksaos = Zoned(doc.ksaos)
      BY <1>1, InUtcFields
    <2> HIDE DEF Zoned
    <2>4. Said(Zoned(ItemsNormalized(doc.tasks))) = Said(Zoned(doc.tasks))
      BY <2>1, <2>2
    <2>5. Said(Zoned(ItemsNormalized(doc.ksaos))) = Said(Zoned(doc.ksaos))
      BY <2>1, <2>2
    <2>6. P.tasks = ItemsNormalized(doc.tasks) /\ P.ksaos = ItemsNormalized(doc.ksaos)
      BY <1>1
    <2>7. QED
      BY <2>3, <2>4, <2>5, <2>6
  <1>4. \A f \in Scalars : InUtc(P)[f] = InUtc(doc)[f]
    <2>1. \A f \in Scalars : P[f] = doc[f]
      BY <1>1 DEF Scalars, Fields
    <2>2. /\ \A f \in {"analysis", "job", "version", "status"} : InUtc(P)[f] = P[f]
          /\ InUtc(P).recorded = Utc(P.recorded) /\ InUtc(P).fja = SourceInUtc(P.fja)
          /\ InUtc(P).review = ReviewInUtc(P.review)
      BY <1>1, InUtcFields
    <2>3. /\ \A f \in {"analysis", "job", "version", "status"} : InUtc(doc)[f] = doc[f]
          /\ InUtc(doc).recorded = Utc(doc.recorded) /\ InUtc(doc).fja = SourceInUtc(doc.fja)
          /\ InUtc(doc).review = ReviewInUtc(doc.review)
      BY <1>1, InUtcFields
    <2>4. QED
      BY <2>1, <2>2, <2>3 DEF Scalars
  <1>5. P.links = doc.links
    BY <1>1 DEF Fields
  <1>6. \A f \in Fields : Meaning(P)[f] = Meaning(doc)[f]
    <2>1. /\ \A f \in Scalars : Meaning(P)[f] = Meaning(doc)[f]
          /\ Meaning(P).tasks = Meaning(doc).tasks /\ Meaning(P).ksaos = Meaning(doc).ksaos
          /\ Meaning(P).links = Meaning(doc).links
      BY <1>1, <1>3, <1>4, <1>5, MeaningFields
    <2>2. QED
      BY <2>1 DEF Fields, Scalars
  <1>7. HasFields(Meaning(P)) /\ HasFields(Meaning(doc))
    BY <1>1, MeaningFields
  <1>8. QED
    BY <1>6, <1>7, SameFields DEF P

\* A key answers for one command: all who stored a snapshot under it, or were told that it
\* is stored, said the same, in the same scope and with the same authority.
THEOREM KeyAnswers == Spec => []KeyAnswersForOneCommand
  <1>1. IInv => KeyAnswersForOneCommand
    <2> SUFFICES ASSUME IInv
                 PROVE  KeyAnswersForOneCommand
      OBVIOUS
    <2> DEFINE told == {r \in Requests : reply[r] \in {"stored", "replayed"}}
    <2>1. /\ command = {CommandRow(r) : r \in audited} /\ audited \subseteq Acceptable
          /\ \A c, d \in command : c.key = d.key => c = d
      BY DEF IInv, Written, Shape, CommandRow
    <2>2. \A r \in told \cup audited :
            r \in Acceptable /\ \E c \in command : c.key = Key[r] /\ SameCommand(c, r)
      <3>1. ASSUME NEW r \in told
            PROVE  r \in Acceptable /\ \E c \in command : c.key = Key[r] /\ SameCommand(c, r)
        BY DEF IInv, RequestInv, Answered, ToldTrue
      <3>2. ASSUME NEW r \in audited
            PROVE  r \in Acceptable /\ \E c \in command : c.key = Key[r] /\ SameCommand(c, r)
        <4>1. CommandRow(r) \in command /\ CommandRow(r).key = Key[r] /\ SameCommand(CommandRow(r), r)
          BY <2>1 DEF CommandRow, SameCommand
        <4>2. QED
          BY <2>1, <4>1
      <3>3. QED
        BY <3>1, <3>2
    <2> HIDE DEF told
    <2>3. ASSUME NEW r \in told \cup audited, NEW q \in told \cup audited, Key[r] = Key[q]
          PROVE  /\ Meaning(Document[r]) = Meaning(Document[q])
                 /\ Scope[r] = Scope[q] /\ Authority[r] = Authority[q]
      <3>1. r \in Acceptable /\ q \in Acceptable /\ r \in Requests /\ q \in Requests
        BY <2>2 DEF Acceptable
      <3>2. RequestDigest[r] = RequestDigest[q] /\ Authority[r] = Authority[q]
        BY <2>1, <2>2, <2>3 DEF SameCommand
      <3>3. Canonical(Posted[r]) = Canonical(Posted[q]) /\ Scope[r] = Scope[q]
        BY <3>1, <3>2 DEF RequestDigest, Digest
      <3>4. Meaning(Posted[r]) = Meaning(Posted[q])
        BY <3>1, <3>3, PostedGood, CanonicalMeans
      <3>5. /\ Posted[r] = Parsed(Document[r]) /\ Posted[q] = Parsed(Document[q])
            /\ IsDocument(Document[r]) /\ IsDocument(Document[q])
        BY <3>1, RequestAssumption DEF Posted
      <3>6. Meaning(Document[r]) = Meaning(Document[q])
        BY <3>4, <3>5, ParsedMeans
      <3>7. QED
        BY <3>2, <3>3, <3>6
    <2>4. ASSUME NEW r \in told
          PROVE  Cardinality({c \in command : c.key = Key[r]}) = 1
      <3>1. PICK c \in command : c.key = Key[r]
        BY <2>2
      <3>2. {d \in command : d.key = Key[r]} = {c}
        BY <2>1, <3>1
      <3>3. QED
        BY <3>2, FS_Singleton
    <2>5. QED
      BY <2>3, <2>4 DEF KeyAnswersForOneCommand, told
  <1>2. QED
    BY Starts, Keeps, <1>1, PTL DEF Spec

------------------------------------------------------------------------------
(* What the rows say *)

\* The items of a list with their instants in UTC.
Zoned(s) == [i \in DOMAIN s |-> ItemInUtc(s[i])]

\* SetToSeq lists a finite set.
LEMMA Enumerated ==
  ASSUME NEW X, IsFiniteSet(X)
  PROVE  Lists(SetToSeq(X), X)
  <1> DEFINE n == Cardinality(X)
             f == SetToSeq(X)
  <1>1. n \in Nat /\ \E g \in [1..n -> X] : IsInjective(g)
    BY FS_CardinalityType DEF ExistsBijection, Bijection, Injection
  <1>2. f \in [1..n -> X] /\ IsInjective(f)
    BY <1>1 DEF SetToSeq
  <1>3. IsFiniteSet(1..n) /\ Cardinality(1..n) = n
    BY <1>1, FS_Interval
  <1> HIDE DEF f, n
  <1>4. f \in Injection(1..n, X) /\ Cardinality(1..n) = Cardinality(X)
    BY <1>2, <1>3 DEF Injection, n
  <1>5. f \in Surjection(1..n, X)
    BY <1>4, FS_Injection
  <1>6. \A x \in X : \E i \in 1..n : f[i] = x
    BY <1>5 DEF Surjection
  <1>7. f \in Seq(X)
    BY <1>1, <1>2
  <1>8. ToSet(f) = X
    BY <1>2, <1>6 DEF ToSet
  <1>9. Lists(f, X)
    BY <1>2, <1>7, <1>8 DEF Lists, IsInjective
  <1>10. QED
    BY <1>9 DEF f

\* However the items of a set are listed, they are sorted into one list.
LEMMA ItemsOneOrder ==
  ASSUME NEW s, ItemsListed(s), NEW u, ItemsListed(u), ToSet(s) = ToSet(u)
  PROVE  ItemsInOrder(s) = ItemsInOrder(u)
  <1> DEFINE t == ItemsInOrder(s)
             v == ItemsInOrder(u)
             X == ToSet(s)
             R == ItemOrder(X)
  <1>1. Lists(s, X) /\ Orders(R, X) /\ Lists(u, X)
    BY ItemsAreListed
  <1>2. Sorts(t, s, R) /\ Sorts(v, u, R)
    BY ItemsSorted
  <1> HIDE DEF t, v, X, R
  <1>3. t = v
    BY <1>1, <1>2, SortedOnce
  <1>4. QED
    BY <1>3 DEF t, v

\* The same for links.
LEMMA LinksOneOrder ==
  ASSUME NEW s, LinksListed(s), NEW u, LinksListed(u), ToSet(s) = ToSet(u)
  PROVE  LinksInOrder(s) = LinksInOrder(u)
  <1> DEFINE t == LinksInOrder(s)
             v == LinksInOrder(u)
             X == ToSet(s)
             R == LinkOrder(X)
  <1>1. Lists(s, X) /\ Orders(R, X) /\ Lists(u, X)
    BY LinksAreListed
  <1>2. Sorts(t, s, R) /\ Sorts(v, u, R)
    BY LinksSorted
  <1> HIDE DEF t, v, X, R
  <1>3. t = v
    BY <1>1, <1>2, SortedOnce
  <1>4. QED
    BY <1>3 DEF t, v

\* The rows of a list, in the order the database happens to return them.
LEMMA ItemsListedAgain ==
  ASSUME NEW s, ItemsListed(s), NEW u, u = SetToSeq(ToSet(s))
  PROVE  ItemsListed(u) /\ ToSet(u) = ToSet(s)
  <1>1. Lists(s, ToSet(s)) /\ \A x, y \in ToSet(s) : x.id = y.id => x = y
    BY ItemsAreListed
  <1>2. Lists(u, ToSet(s))
    BY <1>1, ListLength, Enumerated
  <1>3. ToSet(u) = ToSet(s) /\ u \in Seq(ToSet(u)) /\ \A item \in ToSet(u) : item.id \in Int
    BY <1>2 DEF Lists, ItemsListed
  <1>4. Unrepeated(u, ItemId)
    BY <1>1, <1>2 DEF Unrepeated, ItemId, Lists
  <1>5. QED
    BY <1>3, <1>4 DEF ItemsListed

\* The same for links.
LEMMA LinksListedAgain ==
  ASSUME NEW s, LinksListed(s), NEW u, u = SetToSeq(ToSet(s))
  PROVE  LinksListed(u) /\ ToSet(u) = ToSet(s)
  <1>1. Lists(s, ToSet(s)) /\ \A x, y \in ToSet(s) : x.task = y.task /\ x.ksao = y.ksao => x = y
    BY LinksAreListed
  <1>2. Lists(u, ToSet(s))
    BY <1>1, ListLength, Enumerated
  <1>3. ToSet(u) = ToSet(s) /\ u \in Seq(ToSet(u))
    BY <1>2 DEF Lists
  <1>4. Unrepeated(u, LinkId)
    BY <1>1, <1>2 DEF Unrepeated, LinkId, Lists
  <1>5. QED
    BY <1>3, <1>4 DEF LinksListed

\* The session's zone changes how an instant is written, not which it is.
LEMMA InstantRead ==
  ASSUME NEW u \in Int
  PROVE  IsInstant(InZone(u)) /\ Utc(InZone(u)) = u
  <1>1. InZone(u).wall = u + Zone /\ InZone(u).offset = Zone /\ Zone \in Int
    BY LimitAssumption DEF InZone
  <1>2. u + Zone \in Int /\ (u + Zone) - Zone = u
    BY <1>1
  <1>3. QED
    BY <1>1, <1>2 DEF IsInstant, Utc, InZone

\* A source is read back as the same, in the session's zone.
LEMMA SourceRead ==
  ASSUME NEW s, IsSource(s)
  PROVE  LET read == SourceFromRow(SourceInUtc(s)) IN
         IsSource(read) /\ SourceInUtc(read) = SourceInUtc(s)
  <1> DEFINE read == SourceFromRow(SourceInUtc(s))
             u == Utc(s.retrieved)
  <1>1. s = [retrieved |-> s.retrieved, origin |-> s.origin] /\ u \in Int
    BY DEF IsSource, IsInstant, Utc
  <1> HIDE DEF u
  <1>2. SourceInUtc(s) = [retrieved |-> u, origin |-> s.origin]
    BY <1>1 DEF SourceInUtc, u
  <1>3. read = [retrieved |-> InZone(u), origin |-> s.origin]
    BY <1>2 DEF SourceFromRow
  <1> HIDE DEF read
  <1>4. IsInstant(InZone(u)) /\ Utc(InZone(u)) = u
    BY <1>1, InstantRead
  <1>5. IsSource(read)
    BY <1>3, <1>4 DEF IsSource
  <1>6. SourceInUtc(read) = [retrieved |-> u, origin |-> s.origin]
    BY <1>3, <1>4 DEF SourceInUtc
  <1>7. QED
    BY <1>2, <1>5, <1>6 DEF read

\* An item is read back as the same, in the session's zone.
LEMMA ItemRead ==
  ASSUME NEW item, IsItem(item)
  PROVE  LET read == [ItemInUtc(item) EXCEPT !.source = SourceFromRow(@)] IN
         IsItem(read) /\ read.id = ItemInUtc(item).id /\ ItemInUtc(read) = ItemInUtc(item)
  <1> DEFINE read == [ItemInUtc(item) EXCEPT !.source = SourceFromRow(@)]
             src == SourceFromRow(SourceInUtc(item.source))
  <1>1. item = [id |-> item.id, statement |-> item.statement, source |-> item.source]
        /\ item.id \in Int /\ IsSource(item.source)
        /\ item.statement = [words |-> item.statement.words, spacing |-> item.statement.spacing]
    BY DEF IsItem
  <1>2. ItemInUtc(item) = [id |-> item.id, statement |-> item.statement,
                           source |-> SourceInUtc(item.source)]
    BY <1>1 DEF ItemInUtc
  <1>3. read = [id |-> item.id, statement |-> item.statement, source |-> src]
    BY <1>2
  <1>4. IsSource(src) /\ SourceInUtc(src) = SourceInUtc(item.source)
    BY <1>1, SourceRead
  <1> HIDE DEF read, src
  <1>5. IsItem(read)
    BY <1>1, <1>3, <1>4 DEF IsItem
  <1>6. ItemInUtc(read) = [id |-> item.id, statement |-> item.statement,
                           source |-> SourceInUtc(item.source)]
    BY <1>3, <1>4 DEF ItemInUtc
  <1>7. QED
    BY <1>2, <1>3, <1>5, <1>6 DEF read

\* The rows of a list are read back as a list of the same items in the session's zone.
LEMMA ItemsRead ==
  ASSUME NEW s, ItemsListed(s), \A item \in ToSet(s) : IsItem(item),
         NEW t, t = ItemsFromRows(ToSet(Zoned(s)))
  PROVE  /\ ItemsListed(t) /\ ToSet(Zoned(t)) = ToSet(Zoned(s))
         /\ \A item \in ToSet(t) : IsItem(item)
  <1> DEFINE z == Zoned(s)
             u == SetToSeq(ToSet(z))
             v == ItemsInOrder(u)
  <1>1. ItemsListed(z) /\ \A x \in ToSet(z) : \E item \in ToSet(s) : x = ItemInUtc(item)
    BY UtcListed DEF Zoned, ToSet
  <1>2. t = [i \in DOMAIN v |-> [v[i] EXCEPT !.source = SourceFromRow(@)]]
    BY DEF ItemsFromRows
  <1> HIDE DEF z
  <1>3. ItemsListed(u) /\ ToSet(u) = ToSet(z)
    BY <1>1, ItemsListedAgain
  <1> HIDE DEF u
  <1>4. ItemsListed(v) /\ ToSet(v) = ToSet(z)
    BY <1>3, SortedItems
  <1> HIDE DEF v
  <1>5. ASSUME NEW i \in DOMAIN v
        PROVE  IsItem(t[i]) /\ t[i].id = v[i].id /\ ItemInUtc(t[i]) = v[i]
    <2>1. v[i] \in ToSet(v)
      BY DEF ToSet
    <2>2. PICK item \in ToSet(s) : v[i] = ItemInUtc(item)
      BY <1>1, <1>4, <2>1
    <2>3. IsItem(item) /\ t[i] = [ItemInUtc(item) EXCEPT !.source = SourceFromRow(@)]
      BY <1>2, <2>2
    <2>4. QED
      BY <2>2, <2>3, ItemRead
  <1>6. Rewrites(t, v)
    BY <1>2, <1>5 DEF Rewrites
  <1>7. /\ v \in Seq(ToSet(v)) /\ \A item \in ToSet(v) : item.id \in Int
        /\ Unrepeated(v, ItemId)
    BY <1>4 DEF ItemsListed
  <1>8. /\ t \in Seq(ToSet(t)) /\ \A item \in ToSet(t) : item.id \in Int
        /\ Unrepeated(t, ItemId) <=> Unrepeated(v, ItemId)
    BY <1>6, <1>7, RewrittenListed
  <1>9. ItemsListed(t)
    BY <1>7, <1>8 DEF ItemsListed
  <1>10. \A item \in ToSet(t) : IsItem(item)
    BY <1>5, <1>6 DEF Rewrites, ToSet
  <1>11. ToSet(Zoned(t)) = ToSet(v)
    <2>1. DOMAIN t = DOMAIN v
      BY <1>6 DEF Rewrites
    <2>2. Zoned(t) = [i \in DOMAIN v |-> v[i]]
      BY <1>5, <2>1 DEF Zoned
    <2>3. QED
      BY <2>2 DEF ToSet
  <1>12. QED
    BY <1>4, <1>9, <1>10, <1>11 DEF z

\* The links are read back.
LEMMA LinksRead ==
  ASSUME NEW s, LinksListed(s), NEW t, t = LinksInOrder(SetToSeq(ToSet(s)))
  PROVE  LinksListed(t) /\ ToSet(t) = ToSet(s)
  <1> DEFINE u == SetToSeq(ToSet(s))
  <1>1. LinksListed(u) /\ ToSet(u) = ToSet(s)
    BY LinksListedAgain
  <1>2. t = LinksInOrder(u)
    OBVIOUS
  <1> HIDE DEF u
  <1>3. QED
    BY <1>1, <1>2, SortedLinks

\* A review is read back, or that there is none.
LEMMA ReviewRead ==
  ASSUME NEW review, review # NoReview => IsReview(review), review # HalfReview, NEW read,
         read = ReviewFromRow(ReviewInUtc(review))
  PROVE  /\ read # NoReview => IsReview(read)
         /\ read # HalfReview
         /\ read = NoReview <=> review = NoReview
         /\ ReviewInUtc(read) = ReviewInUtc(review)
         /\ review # NoReview => ReviewInUtc(review) # NoReview
                                 /\ ReviewInUtc(review).at = Utc(review.at)
  <1>1. CASE review = NoReview
    BY <1>1 DEF ReviewInUtc, ReviewFromRow
  <1>2. CASE review # NoReview
    <2> DEFINE u == Utc(review.at)
    <2>1. /\ review = [by |-> review.by, at |-> review.at] /\ IsInstant(review.at)
          /\ \A x \in Int \cup [wall : Int, offset : Int] :
               [by |-> review.by, at |-> x] \notin {NoReview, HalfReview}
      BY <1>2 DEF IsReview
    <2>2. u \in Int
      BY <2>1 DEF IsInstant, Utc
    <2> HIDE DEF u
    <2>3. ReviewInUtc(review) = [by |-> review.by, at |-> u]
      BY <1>2, <2>1 DEF ReviewInUtc, u
    <2>4. ReviewInUtc(review) \notin {NoReview, HalfReview}
      BY <2>1, <2>2, <2>3
    <2>5. read = [by |-> review.by, at |-> InZone(u)]
      BY <2>3, <2>4 DEF ReviewFromRow
    <2>6. IsInstant(InZone(u)) /\ Utc(InZone(u)) = u
      BY <2>2, InstantRead
    <2>7. InZone(u) \in [wall : Int, offset : Int]
      BY <2>6 DEF IsInstant
    <2>8. read \notin {NoReview, HalfReview}
      BY <2>1, <2>5, <2>7
    <2>9. ReviewInUtc(read) = [by |-> review.by, at |-> u]
      BY <2>5, <2>6, <2>8 DEF ReviewInUtc
    <2>10. IsReview(read)
      <3>1. {NoReview, HalfReview} \cap
              [by : {review.by}, at : Int \cup [wall : Int, offset : Int]] = {}
        BY <1>2 DEF IsReview
      <3>2. read.by = review.by /\ read.at = InZone(u)
        BY <2>5
      <3>3. QED
        BY <2>5, <2>6, <3>1, <3>2 DEF IsReview
    <2>11. QED
      BY <1>2, <2>3, <2>4, <2>8, <2>9, <2>10 DEF u
  <1>3. QED
    BY <1>1, <1>2

\* Two documents that say the same in UTC, in whatever order.
Agree(d, e) ==
  /\ \A f \in Scalars : InUtc(d)[f] = InUtc(e)[f]
  /\ ToSet(InUtc(d).tasks) = ToSet(InUtc(e).tasks)
  /\ ToSet(InUtc(d).ksaos) = ToSet(InUtc(e).ksaos)
  /\ ToSet(d.links) = ToSet(e.links)

\* The fields of the snapshot that is built of rows.
LEMMA LoadedFields ==
  ASSUME NEW rows, HasFields(rows.header)
  PROVE  /\ HasFields(Loaded(rows))
         /\ \A f \in {"analysis", "job", "version", "status"} : Loaded(rows)[f] = rows.header[f]
         /\ Loaded(rows).recorded = InZone(rows.header.recorded)
         /\ Loaded(rows).fja = SourceFromRow(rows.header.fja)
         /\ Loaded(rows).review = ReviewFromRow(rows.header.review)
         /\ Loaded(rows).tasks = ItemsFromRows(rows.tasks)
         /\ Loaded(rows).ksaos = ItemsFromRows(rows.ksaos)
         /\ Loaded(rows).links = LinksInOrder(SetToSeq(rows.links))
  <1> DEFINE h == rows.header
             review == ReviewFromRow(h.review)
             recorded == InZone(h.recorded)
             fja == SourceFromRow(h.fja)
             tasks == ItemsFromRows(rows.tasks)
             ksaos == ItemsFromRows(rows.ksaos)
             links == LinksInOrder(SetToSeq(rows.links))
  <1>1. Loaded(rows) = [h EXCEPT !.recorded = recorded, !.fja = fja, !.review = review,
                                 !.tasks = tasks, !.ksaos = ksaos, !.links = links]
    BY DEF Loaded
  <1>2. HasFields(h)
    OBVIOUS
  <1> HIDE DEF h, recorded, fja, review, tasks, ksaos, links
  <1>3. /\ HasFields(Loaded(rows))
        /\ \A f \in {"analysis", "job", "version", "status"} : Loaded(rows)[f] = h[f]
        /\ Loaded(rows).recorded = recorded /\ Loaded(rows).fja = fja
        /\ Loaded(rows).review = review /\ Loaded(rows).tasks = tasks
        /\ Loaded(rows).ksaos = ksaos /\ Loaded(rows).links = links
    BY <1>1, <1>2 DEF HasFields, Fields
  <1>4. QED
    BY <1>3 DEF h, recorded, fja, review, tasks, ksaos, links

\* The rows of a document, put together again, agree with it.
LEMMA RowsRead ==
  ASSUME NEW doc, Good(doc), NEW L, L = Loaded(Rows(doc))
  PROVE  Good(L) /\ Agree(L, doc)
  <1> DEFINE U == InUtc(doc)
             h == Rows(doc).header
  <1>1. /\ HasFields(doc) /\ LinksListed(doc.links) /\ IsInstant(doc.recorded) /\ IsSource(doc.fja)
        /\ ItemsListed(doc.tasks) /\ \A item \in ToSet(doc.tasks) : IsItem(item)
        /\ ItemsListed(doc.ksaos) /\ \A item \in ToSet(doc.ksaos) : IsItem(item)
        /\ (doc.review # NoReview => IsReview(doc.review)) /\ doc.review # HalfReview
    BY DEF Good
  <1>2. /\ HasFields(U) /\ U.recorded = Utc(doc.recorded) /\ U.fja = SourceInUtc(doc.fja)
        /\ U.review = ReviewInUtc(doc.review)
        /\ U.tasks = Zoned(doc.tasks) /\ U.ksaos = Zoned(doc.ksaos)
    BY <1>1, InUtcFields DEF Zoned
  <1>3. /\ h = [U EXCEPT !.tasks = {}, !.ksaos = {}, !.links = {}]
        /\ Rows(doc).tasks = ToSet(U.tasks) /\ Rows(doc).ksaos = ToSet(U.ksaos)
        /\ Rows(doc).links = ToSet(doc.links)
    BY DEF Rows
  <1> HIDE DEF U, h
  <1>4. HasFields(h) /\ \A f \in Scalars : h[f] = U[f]
    BY <1>2, <1>3 DEF HasFields, Fields, Scalars
  <1>5. L = Loaded(Rows(doc)) /\ h = Rows(doc).header
    BY DEF h
  <1>6. /\ HasFields(L)
        /\ \A f \in {"analysis", "job", "version", "status"} : L[f] = U[f]
        /\ L.recorded = InZone(U.recorded) /\ L.fja = SourceFromRow(U.fja)
        /\ L.review = ReviewFromRow(U.review)
        /\ L.tasks = ItemsFromRows(ToSet(U.tasks)) /\ L.ksaos = ItemsFromRows(ToSet(U.ksaos))
        /\ L.links = LinksInOrder(SetToSeq(ToSet(doc.links)))
    <2>1. /\ h.recorded = U.recorded /\ h.fja = U.fja /\ h.review = U.review
          /\ \A f \in {"analysis", "job", "version", "status"} : h[f] = U[f]
      BY <1>4 DEF Scalars
    <2>2. /\ HasFields(L)
          /\ \A f \in {"analysis", "job", "version", "status"} : L[f] = h[f]
          /\ L.recorded = InZone(h.recorded) /\ L.fja = SourceFromRow(h.fja)
          /\ L.review = ReviewFromRow(h.review)
          /\ L.tasks = ItemsFromRows(Rows(doc).tasks) /\ L.ksaos = ItemsFromRows(Rows(doc).ksaos)
          /\ L.links = LinksInOrder(SetToSeq(Rows(doc).links))
      BY <1>4, <1>5, LoadedFields
    <2>3. QED
      BY <1>3, <2>1, <2>2
  <1>7. /\ ItemsListed(L.tasks) /\ ToSet(Zoned(L.tasks)) = ToSet(U.tasks)
        /\ \A item \in ToSet(L.tasks) : IsItem(item)
    BY <1>1, <1>2, <1>6, ItemsRead
  <1>8. /\ ItemsListed(L.ksaos) /\ ToSet(Zoned(L.ksaos)) = ToSet(U.ksaos)
        /\ \A item \in ToSet(L.ksaos) : IsItem(item)
    BY <1>1, <1>2, <1>6, ItemsRead
  <1>9. LinksListed(L.links) /\ ToSet(L.links) = ToSet(doc.links)
    BY <1>1, <1>6, LinksRead
  <1>10. IsInstant(L.recorded) /\ Utc(L.recorded) = U.recorded
    <2>1. U.recorded \in Int
      BY <1>1, <1>2 DEF IsInstant, Utc
    <2>2. QED
      BY <1>6, <2>1, InstantRead
  <1>11. IsSource(L.fja) /\ SourceInUtc(L.fja) = U.fja
    BY <1>1, <1>2, <1>6, SourceRead
  <1>12. /\ (L.review # NoReview => IsReview(L.review)) /\ L.review # HalfReview
         /\ ReviewInUtc(L.review) = U.review
    BY <1>1, <1>2, <1>6, ReviewRead
  <1>13. Good(L)
    BY <1>6, <1>7, <1>8, <1>9, <1>10, <1>11, <1>12 DEF Good
  <1>14. /\ \A f \in {"analysis", "job", "version", "status"} : InUtc(L)[f] = L[f]
         /\ InUtc(L).recorded = Utc(L.recorded) /\ InUtc(L).fja = SourceInUtc(L.fja)
         /\ InUtc(L).review = ReviewInUtc(L.review)
         /\ InUtc(L).tasks = Zoned(L.tasks) /\ InUtc(L).ksaos = Zoned(L.ksaos)
    BY <1>6, InUtcFields DEF Zoned
  <1>15. \A f \in Scalars : InUtc(L)[f] = U[f]
    BY <1>6, <1>10, <1>11, <1>12, <1>14 DEF Scalars
  <1>16. QED
    BY <1>7, <1>8, <1>9, <1>13, <1>14, <1>15 DEF Agree, U

\* Documents that agree have one canonical form.
LEMMA AgreeCanonical ==
  ASSUME NEW d, Good(d), NEW e, Good(e), Agree(d, e)
  PROVE  Canonical(d) = Canonical(e)
  <1>1. HasFields(d) /\ LinksListed(d.links)
        /\ ItemsListed(InUtc(d).tasks) /\ ItemsListed(InUtc(d).ksaos)
    BY GoodInUtc
  <1>2. HasFields(e) /\ LinksListed(e.links)
        /\ ItemsListed(InUtc(e).tasks) /\ ItemsListed(InUtc(e).ksaos)
    BY GoodInUtc
  <1>3. /\ \A f \in Scalars : InUtc(d)[f] = InUtc(e)[f]
        /\ ToSet(InUtc(d).tasks) = ToSet(InUtc(e).tasks)
        /\ ToSet(InUtc(d).ksaos) = ToSet(InUtc(e).ksaos)
        /\ ToSet(d.links) = ToSet(e.links)
    BY DEF Agree
  <1>4. /\ ItemsInOrder(InUtc(d).tasks) = ItemsInOrder(InUtc(e).tasks)
        /\ ItemsInOrder(InUtc(d).ksaos) = ItemsInOrder(InUtc(e).ksaos)
    BY <1>1, <1>2, <1>3, ItemsOneOrder
  <1>5. LinksInOrder(d.links) = LinksInOrder(e.links)
    BY <1>1, <1>2, <1>3, LinksOneOrder
  <1>6. /\ HasFields(Canonical(d)) /\ HasFields(Canonical(e))
        /\ \A f \in Scalars : Canonical(d)[f] = Canonical(e)[f]
    BY <1>1, <1>2, <1>3, CanonicalFields
  <1>7. /\ Canonical(d).tasks = Canonical(e).tasks /\ Canonical(d).ksaos = Canonical(e).ksaos
        /\ Canonical(d).links = Canonical(e).links
    BY <1>1, <1>2, <1>4, <1>5, CanonicalFields
  <1>8. \A f \in Fields : Canonical(d)[f] = Canonical(e)[f]
    BY <1>6, <1>7 DEF Fields, Scalars
  <1>9. QED
    BY <1>6, <1>8, SameFields

\* What the dates and origins of the evidence are in UTC.
UtcSources(doc) ==
  {item.source : item \in ToSet(InUtc(doc).tasks) \cup ToSet(InUtc(doc).ksaos)} \cup {InUtc(doc).fja}

\* The sources of a document in UTC are those of its items in UTC.
LEMMA SourcesInUtc ==
  ASSUME NEW doc, Good(doc)
  PROVE  /\ UtcSources(doc) = {SourceInUtc(s) : s \in Sources(doc)}
         /\ \A s \in Sources(doc) : /\ SourceInUtc(s).retrieved = Utc(s.retrieved)
                                    /\ SourceInUtc(s).origin = s.origin
  <1>1. /\ HasFields(doc) /\ IsSource(doc.fja)
        /\ \A item \in ToSet(doc.tasks) \cup ToSet(doc.ksaos) : IsItem(item)
    BY DEF Good
  <1>2. InUtc(doc).tasks = Zoned(doc.tasks) /\ InUtc(doc).ksaos = Zoned(doc.ksaos)
        /\ InUtc(doc).fja = SourceInUtc(doc.fja)
    BY <1>1, InUtcFields DEF Zoned
  <1>3. /\ ToSet(InUtc(doc).tasks) = {ItemInUtc(item) : item \in ToSet(doc.tasks)}
        /\ ToSet(InUtc(doc).ksaos) = {ItemInUtc(item) : item \in ToSet(doc.ksaos)}
    BY <1>2 DEF Zoned, ToSet
  <1>4. \A item \in ToSet(doc.tasks) \cup ToSet(doc.ksaos) :
          IsSource(item.source) /\ ItemInUtc(item).source = SourceInUtc(item.source)
    <2> SUFFICES ASSUME NEW item, IsItem(item)
                 PROVE  IsSource(item.source) /\ ItemInUtc(item).source = SourceInUtc(item.source)
      BY <1>1
    <2>1. item = [id |-> item.id, statement |-> item.statement, source |-> item.source]
          /\ IsSource(item.source)
      BY DEF IsItem
    <2>2. QED
      BY <2>1 DEF ItemInUtc
  <1>5. UtcSources(doc) = {SourceInUtc(s) : s \in Sources(doc)}
    BY <1>2, <1>3, <1>4 DEF UtcSources, Sources
  <1>6. ASSUME NEW s, IsSource(s)
        PROVE  SourceInUtc(s).retrieved = Utc(s.retrieved) /\ SourceInUtc(s).origin = s.origin
    BY <1>6 DEF IsSource, SourceInUtc
  <1>7. \A s \in Sources(doc) : IsSource(s)
    BY <1>1, <1>4 DEF Sources
  <1>8. QED
    BY <1>5, <1>6, <1>7

\* Whether the dates of a document are in order shows in UTC.
InUtcOrder(doc) ==
  LET U == InUtc(doc) IN
  /\ \A source \in UtcSources(doc) : source.retrieved <= U.recorded
  /\ U.review # NoReview =>
       /\ U.review.at <= U.recorded
       /\ \A source \in UtcSources(doc) : source.retrieved <= U.review.at

\* An order in UTC is an order.
LEMMA OrderInUtc ==
  ASSUME NEW doc, Good(doc)
  PROVE  /\ InOrder(doc) <=> InUtcOrder(doc)
         /\ doc.review = NoReview <=> InUtc(doc).review = NoReview
  <1>1. (doc.review # NoReview => IsReview(doc.review)) /\ doc.review # HalfReview
    BY DEF Good
  <1>2. HasFields(doc)
    BY DEF Good
  <1>3. InUtc(doc).recorded = Utc(doc.recorded) /\ InUtc(doc).review = ReviewInUtc(doc.review)
    BY <1>2, InUtcFields
  <1>4. doc.review # NoReview =>
          ReviewInUtc(doc.review) # NoReview /\ ReviewInUtc(doc.review).at = Utc(doc.review.at)
    BY <1>1, <1>2, ReviewRead
  <1>5. doc.review = NoReview => ReviewInUtc(doc.review) = NoReview
    BY DEF ReviewInUtc
  <1>6. /\ UtcSources(doc) = {SourceInUtc(s) : s \in Sources(doc)}
        /\ \A s \in Sources(doc) : SourceInUtc(s).retrieved = Utc(s.retrieved)
    BY SourcesInUtc
  <1>7. ASSUME NEW bound
        PROVE  (\A s \in UtcSources(doc) : s.retrieved <= bound)
                 <=> (\A s \in Sources(doc) : Utc(s.retrieved) <= bound)
    BY <1>6
  <1>8. /\ (\A s \in UtcSources(doc) : s.retrieved <= InUtc(doc).recorded)
             <=> (\A s \in Sources(doc) : Utc(s.retrieved) <= Utc(doc.recorded))
        /\ (\A s \in UtcSources(doc) : s.retrieved <= Utc(doc.review.at))
             <=> (\A s \in Sources(doc) : Utc(s.retrieved) <= Utc(doc.review.at))
    BY <1>3, <1>7
  <1>9. CASE doc.review = NoReview
    BY <1>3, <1>5, <1>8, <1>9 DEF InOrder, InUtcOrder
  <1>10. CASE doc.review # NoReview
    <2>1. InUtc(doc).review # NoReview /\ InUtc(doc).review.at = Utc(doc.review.at)
      BY <1>3, <1>4, <1>10
    <2>2. QED
      BY <1>3, <1>8, <1>10, <2>1 DEF InOrder, InUtcOrder
  <1>11. QED
    BY <1>9, <1>10

\* The identities of the items are those of the items in UTC.
LEMMA IdsInUtc ==
  ASSUME NEW doc, Good(doc)
  PROVE  /\ Ids(doc.tasks) = {item.id : item \in ToSet(InUtc(doc).tasks)}
         /\ Ids(doc.ksaos) = {item.id : item \in ToSet(InUtc(doc).ksaos)}
         /\ doc.tasks # <<>> <=> ToSet(InUtc(doc).tasks) # {}
         /\ doc.ksaos # <<>> <=> ToSet(InUtc(doc).ksaos) # {}
         /\ doc.links # <<>> <=> ToSet(doc.links) # {}
  <1>1. /\ HasFields(doc) /\ doc.links \in Seq(ToSet(doc.links))
        /\ doc.tasks \in Seq(ToSet(doc.tasks)) /\ \A item \in ToSet(doc.tasks) : IsItem(item)
        /\ doc.ksaos \in Seq(ToSet(doc.ksaos)) /\ \A item \in ToSet(doc.ksaos) : IsItem(item)
    BY DEF Good, ItemsListed, LinksListed
  <1>2. InUtc(doc).tasks = Zoned(doc.tasks) /\ InUtc(doc).ksaos = Zoned(doc.ksaos)
    BY <1>1, InUtcFields DEF Zoned
  <1>3. ASSUME NEW s, s \in Seq(ToSet(s)), \A item \in ToSet(s) : IsItem(item)
        PROVE  /\ Ids(s) = {item.id : item \in ToSet(Zoned(s))}
               /\ s # <<>> <=> ToSet(Zoned(s)) # {}
    <2>1. \A i \in DOMAIN s : ItemInUtc(s[i]).id = s[i].id
      BY <1>3, ItemParsed DEF ToSet
    <2>2. ToSet(Zoned(s)) = {ItemInUtc(s[i]) : i \in DOMAIN s}
      BY DEF Zoned, ToSet
    <2>3. Ids(s) = {s[i].id : i \in DOMAIN s}
      BY DEF Ids, ToSet
    <2>4. Ids(s) = {item.id : item \in ToSet(Zoned(s))}
      BY <2>1, <2>2, <2>3
    <2>5. s # <<>> <=> DOMAIN s # {}
      <3>1. DOMAIN s = 1..Len(s) /\ Len(s) \in Nat
        BY <1>3
      <3>2. s = <<>> <=> Len(s) = 0
        BY <1>3
      <3>3. 1..Len(s) = {} <=> Len(s) = 0
        BY <3>1
      <3>4. QED
        BY <3>1, <3>2, <3>3
    <2>6. ToSet(Zoned(s)) # {} <=> DOMAIN s # {}
      BY <2>2
    <2>7. QED
      BY <2>4, <2>5, <2>6
  <1>4. ASSUME NEW s, s \in Seq(ToSet(s))
        PROVE  s # <<>> <=> ToSet(s) # {}
    BY <1>4 DEF ToSet
  <1>5. /\ Ids(doc.tasks) = {item.id : item \in ToSet(Zoned(doc.tasks))}
        /\ doc.tasks # <<>> <=> ToSet(Zoned(doc.tasks)) # {}
    BY <1>1, <1>3
  <1>6. /\ Ids(doc.ksaos) = {item.id : item \in ToSet(Zoned(doc.ksaos))}
        /\ doc.ksaos # <<>> <=> ToSet(Zoned(doc.ksaos)) # {}
    BY <1>1, <1>3
  <1>7. doc.links # <<>> <=> ToSet(doc.links) # {}
    BY <1>1, <1>4
  <1>8. QED
    BY <1>2, <1>5, <1>6, <1>7

\* A document that agrees with an accepted one is accepted.
LEMMA AgreeAccepted ==
  ASSUME NEW d, Good(d), NEW e, Good(e), Agree(d, e), Accepted(e)
  PROVE  Accepted(d)
  <1>1. /\ \A f \in Scalars : InUtc(d)[f] = InUtc(e)[f]
        /\ ToSet(InUtc(d).tasks) = ToSet(InUtc(e).tasks)
        /\ ToSet(InUtc(d).ksaos) = ToSet(InUtc(e).ksaos)
        /\ ToSet(d.links) = ToSet(e.links)
    BY DEF Agree
  <1>2. /\ e.tasks # <<>> /\ e.ksaos # <<>> /\ e.links # <<>>
        /\ InOrder(e) /\ Linked(e)
    BY DEF Accepted
  <1>3. InUtc(d).recorded = InUtc(e).recorded /\ InUtc(d).review = InUtc(e).review
        /\ InUtc(d).fja = InUtc(e).fja /\ InUtc(d).status = InUtc(e).status
    BY <1>1 DEF Scalars
  <1>4. d.status = e.status
    BY <1>3, InUtcFields DEF Good
  <1>5. UtcSources(d) = UtcSources(e)
    BY <1>1, <1>3 DEF UtcSources
  <1>6. Ids(d.tasks) = Ids(e.tasks) /\ Ids(d.ksaos) = Ids(e.ksaos)
        /\ d.tasks # <<>> /\ d.ksaos # <<>> /\ d.links # <<>>
    BY <1>1, <1>2, IdsInUtc
  <1>7. InOrder(d)
    <2>1. InUtcOrder(e)
      BY <1>2, OrderInUtc
    <2>2. InUtcOrder(d)
      BY <1>3, <1>5, <2>1 DEF InUtcOrder
    <2>3. QED
      BY <2>2, OrderInUtc
  <1>8. Linked(d)
    <2>1. \A link \in ToSet(e.links) : link.task \in Ids(e.tasks) /\ link.ksao \in Ids(e.ksaos)
      BY <1>2 DEF Linked
    <2>2. Unrepeated(d.tasks, ItemId) /\ Unrepeated(d.ksaos, ItemId) /\ Unrepeated(d.links, LinkId)
      BY DEF Good, ItemsListed, LinksListed
    <2>3. QED
      BY <1>1, <1>6, <2>1, <2>2 DEF Linked
  <1>9. ASSUME d.status = "analysis_validated"
        PROVE  Validated(d)
    <2>1. Validated(e)
      BY <1>2, <1>4, <1>9 DEF Accepted
    <2>2. d.review # NoReview
      BY <1>3, <2>1, OrderInUtc DEF Validated
    <2>3. \A x \in UtcSources(e) : x.origin # "llm_draft"
      BY <2>1, SourcesInUtc DEF Validated
    <2>4. \A s \in Sources(d) : s.origin # "llm_draft"
      BY <1>5, <2>3, SourcesInUtc
    <2>5. /\ {link.task : link \in ToSet(e.links)} = Ids(e.tasks)
          /\ {link.ksao : link \in ToSet(e.links)} = Ids(e.ksaos)
      BY <2>1 DEF Validated
    <2>6. /\ {link.task : link \in ToSet(d.links)} = Ids(d.tasks)
          /\ {link.ksao : link \in ToSet(d.links)} = Ids(d.ksaos)
      BY <1>1, <1>6, <2>5
    <2>7. QED
      BY <2>2, <2>4, <2>6 DEF Validated
  <1>10. QED
    BY <1>6, <1>7, <1>8, <1>9 DEF Good, Accepted

\* What a request is told is stored can be read back, and says what the request said:
\* through parsing, canonical form, rows, the session's zone, the order the rows come in and
\* the digest check, whether the request stored it or found it stored.
THEOREM StoredIsReadBack == Spec => []ReadsBack
  <1>1. ASSUME NEW r \in Acceptable
        PROVE  Loads(PostedRows[r]) /\ Meaning(Loaded(PostedRows[r])) = Meaning(Document[r])
    <2> DEFINE P == Posted[r]
               L == Loaded(Rows(P))
    <2>1. /\ r \in Requests /\ Good(P) /\ Accepted(P) /\ P = Parsed(Document[r])
          /\ IsDocument(Document[r]) /\ PostedRows[r] = Rows(P)
      BY PostedGood, RequestAssumption DEF Acceptable, Posted, PostedRows
    <2>2. Rows(P).digest = Canonical(P)
      BY DEF Rows
    <2> HIDE DEF P
    <2>3. Good(L) /\ Agree(L, P)
      BY <2>1, RowsRead
    <2> HIDE DEF L
    <2>4. Canonical(L) = Canonical(P) /\ Accepted(L)
      BY <2>1, <2>3, AgreeCanonical, AgreeAccepted
    <2>5. Meaning(L) = Meaning(P)
      BY <2>1, <2>3, <2>4, CanonicalMeans
    <2>6. Meaning(P) = Meaning(Document[r])
      BY <2>1, ParsedMeans
    <2>7. QED
      BY <2>1, <2>2, <2>4, <2>5, <2>6 DEF Loads, L
  <1>2. IInv => ReadsBack
    <2> SUFFICES ASSUME IInv
                 PROVE  ReadsBack
      OBVIOUS
    <2>1. /\ snapshot = {PostedRows[q] : q \in audited} /\ audited \subseteq Acceptable
          /\ command = {CommandRow(q) : q \in audited}
      BY DEF IInv, Written, Shape
    <2>2. \A row \in snapshot : Loads(row)
      BY <1>1, <2>1
    <2>3. ASSUME NEW r \in Requests, reply[r] \in {"stored", "replayed"}
          PROVE  \E row \in snapshot : Meaning(Loaded(row)) = Meaning(Document[r])
      <3>1. r \in Acceptable /\ \E c \in command : SameCommand(c, r)
        BY <2>3 DEF IInv, RequestInv, Answered, ToldTrue
      <3>2. PICK q \in audited : SameCommand(CommandRow(q), r)
        BY <2>1, <3>1
      <3>3. RequestDigest[q] = RequestDigest[r] /\ q \in Acceptable /\ q \in Requests
        BY <2>1, <3>2 DEF SameCommand, CommandRow, Acceptable
      <3>4. Canonical(Posted[q]) = Canonical(Posted[r])
        BY <3>1, <3>3 DEF RequestDigest, Digest, Acceptable
      <3>5. Meaning(Posted[q]) = Meaning(Posted[r])
        BY <3>1, <3>3, <3>4, PostedGood, CanonicalMeans
      <3>6. /\ Posted[r] = Parsed(Document[r]) /\ Posted[q] = Parsed(Document[q])
            /\ IsDocument(Document[r]) /\ IsDocument(Document[q])
        BY <3>3, RequestAssumption DEF Posted
      <3>7. Meaning(Document[q]) = Meaning(Document[r])
        BY <3>5, <3>6, ParsedMeans
      <3>8. PostedRows[q] \in snapshot /\ Meaning(Loaded(PostedRows[q])) = Meaning(Document[q])
        BY <1>1, <2>1, <3>3
      <3>9. QED
        BY <3>7, <3>8
    <2>4. QED
      BY <2>2, <2>3 DEF ReadsBack
  <1>3. QED
    BY Starts, Keeps, <1>2, PTL DEF Spec
==============================================================================
