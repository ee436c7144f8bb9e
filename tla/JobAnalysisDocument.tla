-------------------------- MODULE JobAnalysisDocument --------------------------
(***************************************************************************)
(* What becomes of a posted job analysis: snapshot_from_document               *)
(* (services/job-analysis-api, snapshot.py) and JobAnalysisSnapshot             *)
(* (packages/hris-kernel, job_analysis.py) accept it or not, give it one         *)
(* canonical form and a digest; the port (postgres.py) takes it apart into rows    *)
(* and puts the rows together again.                                         *)
(*                                                                           *)
(* Identities are numbers, ordered as their text is.  An instant is a wall       *)
(* time with its offset from UTC, a text its words and how they are spaced.       *)
(* Field syntax, ratings and the FJA codes are left out: they are checked one by  *)
(* one and decide nothing together.                                          *)
(***************************************************************************)
EXTENDS Integers, Sequences, FiniteSets, SequencesExt

CONSTANTS
  Zone,         \* the offset from UTC the database session reports instants in
  MaxItems,     \* _MAX_TASKS, _MAX_KSAOS
  MaxLinks,     \* _MAX_TASK_KSAO_LINKS
  NoReview,     \* neither reviewed_by_reference nor reviewed_at
  HalfReview    \* one of them without the other

ASSUME LimitAssumption == Zone \in Int /\ MaxItems \in Nat /\ MaxLinks \in Nat

\* What the fields of a posted document are read as.
IsInstant(t) ==
  /\ t = [wall |-> t.wall, offset |-> t.offset]
  /\ t.wall \in Int /\ t.offset \in Int

IsSource(s) ==
  /\ s = [retrieved |-> s.retrieved, origin |-> s.origin]
  /\ IsInstant(s.retrieved)

IsItem(item) ==
  /\ item = [id |-> item.id, statement |-> item.statement, source |-> item.source]
  /\ item.id \in Int /\ IsSource(item.source)
  /\ item.statement = [words |-> item.statement.words, spacing |-> item.statement.spacing]

IsLink(link) ==
  /\ link = [task |-> link.task, ksao |-> link.ksao, strength |-> link.strength]
  /\ link.task \in Int /\ link.ksao \in Int

IsReview(review) ==
  /\ review = [by |-> review.by, at |-> review.at]
  /\ IsInstant(review.at)
  /\ {NoReview, HalfReview} \cap
       [by : {review.by}, at : Int \cup [wall : Int, offset : Int]] = {}

IsDocument(doc) ==
  /\ doc = [analysis |-> doc.analysis, job |-> doc.job, version |-> doc.version,
            status |-> doc.status, recorded |-> doc.recorded, review |-> doc.review,
            tasks |-> doc.tasks, ksaos |-> doc.ksaos, links |-> doc.links, fja |-> doc.fja]
  /\ doc.tasks \in Seq(ToSet(doc.tasks)) /\ \A item \in ToSet(doc.tasks) : IsItem(item)
  /\ doc.ksaos \in Seq(ToSet(doc.ksaos)) /\ \A item \in ToSet(doc.ksaos) : IsItem(item)
  /\ doc.links \in Seq(ToSet(doc.links)) /\ \A link \in ToSet(doc.links) : IsLink(link)
  /\ IsInstant(doc.recorded) /\ IsSource(doc.fja)
  /\ doc.review \notin {NoReview, HalfReview} => IsReview(doc.review)

\* An instant as the numbers of its UTC time (_utc, _utc_text).
Utc(instant) == instant.wall - instant.offset

\* timestamptz as the driver returns it.
InZone(utc) == [wall |-> utc + Zone, offset |-> Zone]

\* _validate_text
Normalized(text) == [text EXCEPT !.spacing = "single"]

ItemsNormalized(items) ==
  [i \in DOMAIN items |-> [items[i] EXCEPT !.statement = Normalized(@)]]

\* The snapshot that is built of a document.
Parsed(doc) == [doc EXCEPT !.tasks = ItemsNormalized(@), !.ksaos = ItemsNormalized(@)]

\* The lengths snapshot_from_document admits.
WithinLimits(doc) ==
  /\ Len(doc.tasks) \in 1..MaxItems
  /\ Len(doc.ksaos) \in 1..MaxItems
  /\ Len(doc.links) \in 1..MaxLinks

Sources(doc) ==
  {item.source : item \in ToSet(doc.tasks) \cup ToSet(doc.ksaos)} \cup {doc.fja}

Ids(items) == {item.id : item \in ToSet(items)}

Unrepeated(s, Id(_)) == \A i, j \in DOMAIN s : Id(s[i]) = Id(s[j]) => i = j

ItemId(item) == item.id
LinkId(link) == <<link.task, link.ksao>>

\* Every link joins a task and a requirement of the document, each pair once.
Linked(doc) ==
  /\ Unrepeated(doc.tasks, ItemId) /\ Unrepeated(doc.ksaos, ItemId)
  /\ \A link \in ToSet(doc.links) :
       link.task \in Ids(doc.tasks) /\ link.ksao \in Ids(doc.ksaos)
  /\ Unrepeated(doc.links, LinkId)

\* Evidence is older than its review, and both are older than the record.
InOrder(doc) ==
  /\ \A source \in Sources(doc) : Utc(source.retrieved) <= Utc(doc.recorded)
  /\ doc.review # NoReview =>
       /\ Utc(doc.review.at) <= Utc(doc.recorded)
       /\ \A source \in Sources(doc) : Utc(source.retrieved) <= Utc(doc.review.at)

Validated(doc) ==
  /\ doc.review # NoReview
  /\ {link.task : link \in ToSet(doc.links)} = Ids(doc.tasks)
  /\ {link.ksao : link \in ToSet(doc.links)} = Ids(doc.ksaos)
  /\ \A source \in Sources(doc) : source.origin # "llm_draft"

\* JobAnalysisSnapshot.__post_init__
Accepted(doc) ==
  /\ doc.tasks # <<>> /\ doc.ksaos # <<>> /\ doc.links # <<>>
  /\ doc.review # HalfReview
  /\ InOrder(doc)
  /\ Linked(doc)
  /\ doc.status = "analysis_validated" => Validated(doc)

SourceInUtc(source) == [source EXCEPT !.retrieved = Utc(@)]

ItemInUtc(item) == [item EXCEPT !.source = SourceInUtc(@)]

ReviewInUtc(review) ==
  IF review \in {NoReview, HalfReview} THEN review ELSE [review EXCEPT !.at = Utc(@)]

InUtc(doc) ==
  [doc EXCEPT !.recorded = Utc(@), !.fja = SourceInUtc(@), !.review = ReviewInUtc(@),
              !.tasks = [i \in DOMAIN @ |-> ItemInUtc(@[i])],
              !.ksaos = [i \in DOMAIN @ |-> ItemInUtc(@[i])]]

ItemBefore(a, b) == a.id < b.id

LinkBefore(a, b) == a.task < b.task \/ (a.task = b.task /\ a.ksao < b.ksao)

\* Where sorting puts the i-th entry: after those that come before it, and after
\* those that were before it and do not come after it.
Place(s, i, Before(_, _)) ==
  Cardinality({j \in DOMAIN s : IF j <= i THEN ~Before(s[i], s[j]) ELSE Before(s[j], s[i])})

SortedBy(s, Before(_, _)) ==
  [k \in DOMAIN s |-> s[CHOOSE i \in DOMAIN s : Place(s, i, Before) = k]]

\* sorted, ORDER BY
ItemsInOrder(items) == SortedBy(items, ItemBefore)

LinksInOrder(links) == SortedBy(links, LinkBefore)

\* Mutant: the items are left in the order they were given in.
CanonicalAsGiven(doc) == InUtc(doc)

\* to_snapshot, and what content_digest is a digest of.
Canonical(doc) ==
  [InUtc(doc) EXCEPT !.tasks = ItemsInOrder(@), !.ksaos = ItemsInOrder(@),
                     !.links = LinksInOrder(@)]

\* command_digest
Digest(doc, scope) == [snapshot |-> Canonical(doc), scope |-> scope]

\* The rows of the four tables, and the digest in the first of them.
Rows(doc) ==
  [header |-> [InUtc(doc) EXCEPT !.tasks = {}, !.ksaos = {}, !.links = {}],
   tasks |-> ToSet(InUtc(doc).tasks),
   ksaos |-> ToSet(InUtc(doc).ksaos),
   links |-> ToSet(doc.links),
   digest |-> Canonical(doc)]

SourceFromRow(source) == [source EXCEPT !.retrieved = InZone(@)]

ReviewFromRow(review) ==
  IF review \in {NoReview, HalfReview} THEN review ELSE [review EXCEPT !.at = InZone(@)]

ItemsFromRows(rows) ==
  LET sorted == ItemsInOrder(SetToSeq(rows)) IN
  [i \in DOMAIN sorted |-> [sorted[i] EXCEPT !.source = SourceFromRow(@)]]

\* The snapshot _load_snapshot builds of the rows.
Loaded(rows) ==
  [rows.header EXCEPT
     !.recorded = InZone(@), !.fja = SourceFromRow(@),
     !.review = ReviewFromRow(@),
     !.tasks = ItemsFromRows(rows.tasks), !.ksaos = ItemsFromRows(rows.ksaos),
     !.links = LinksInOrder(SetToSeq(rows.links))]

\* _load_snapshot does not refuse the rows.
Loads(rows) ==
  \E loaded \in {Loaded(rows)} : Accepted(loaded) /\ Canonical(loaded) = rows.digest

\* What a document says, whatever the order of its lists, the zones of its instants
\* and the spacing of its texts.
Meaning(doc) ==
  LET items(list) == {[item EXCEPT !.statement = @.words] : item \in ToSet(list)}
      said == InUtc(doc)
  IN [said EXCEPT !.tasks = items(said.tasks), !.ksaos = items(said.ksaos),
                  !.links = ToSet(@)]
==============================================================================
