----------------------- MODULE MCJobAnalysisPersistence -----------------------
(* POSTs of JobAnalysisPersistence, a few of them at a time: the others have lost  *)
(* their connection in the lookup, a state that Lookup and Abort reach from Init.  *)
EXTENDS JobAnalysisPersistence

CONSTANTS
  first, again, byBob, changed, scoped, another,   \* under one key
  rival, draft, early, half,              \* under keys of their own
  k1, k2, k3, k4, k5, alice, bob, carol, job, otherJob,
  Scenarios

At(utc, offset) == [wall |-> utc + offset, offset |-> offset]

Source(utc, offset, origin) == [retrieved |-> At(utc, offset), origin |-> origin]

Item(id, spacing, offset) ==
  [id |-> id, statement |-> [words |-> id, spacing |-> spacing],
   source |-> Source(1, offset, "job_incumbent")]

Link(task, ksao, strength) == [task |-> task, ksao |-> ksao, strength |-> strength]

FirstDocument ==
  [analysis |-> 1, job |-> job, version |-> 1, status |-> "analysis_validated",
   recorded |-> At(3, 0), review |-> [by |-> carol, at |-> At(2, 0)],
   tasks |-> <<Item(2, "single", 0), Item(1, "single", 0)>>,
   ksaos |-> <<Item(1, "single", 0)>>,
   links |-> <<Link(2, 1, 4), Link(1, 1, 3)>>,
   fja |-> Source(2, 0, "authoritative_occupation_source")]

\* The same analysis, written down differently.
AgainDocument ==
  [FirstDocument EXCEPT
     !.recorded = At(3, 9), !.review.at = At(2, 9),
     !.tasks = <<Item(1, "single", 9), Item(2, "loose", 0)>>,
     !.ksaos = <<Item(1, "loose", 9)>>,
     !.links = <<Link(1, 1, 3), Link(2, 1, 4)>>,
     !.fja.retrieved = At(2, 9)]

\* Under its local time the review follows the evidence, in fact it precedes it.
EarlyDocument ==
  [FirstDocument EXCEPT !.analysis = 4, !.version = 4, !.review.at = At(1, 9)]

DraftDocument ==
  [FirstDocument EXCEPT
     !.analysis = 3, !.version = 3, !.status = "analysis_draft", !.review = NoReview,
     !.links = <<Link(1, 1, 5)>>, !.fja.origin = "llm_draft"]

MCDocument == [r \in Requests |->
  CASE r \in {first, byBob, scoped} -> FirstDocument
    [] r = again -> AgainDocument
    [] r = changed -> [FirstDocument EXCEPT !.links = <<Link(2, 1, 4), Link(1, 1, 2)>>]
    [] r = rival -> [FirstDocument EXCEPT !.analysis = 2]
    [] r = another -> [FirstDocument EXCEPT !.analysis = 5, !.version = 5]
    [] r = draft -> DraftDocument
    [] r = early -> EarlyDocument
    [] r = half -> [DraftDocument EXCEPT !.analysis = 6, !.version = 6, !.review = HalfReview]]

\* A position of the job and a criterion blueprint of another one.
Seat == [id |-> "position", job |-> job]
Blueprint == [id |-> "criterion", job |-> otherJob]

MCKey == [r \in Requests |->
  CASE r \in {first, again, byBob, changed, scoped, another} -> k1
    [] r = rival -> k2 [] r = draft -> k3 [] r = early -> k4 [] r = half -> k5]
MCAuthority == [r \in Requests |-> IF r = byBob THEN bob ELSE alice]
MCScope == [r \in Requests |->
  CASE r = scoped -> {Seat} [] r = draft -> {Seat, Blueprint} [] OTHER -> {}]
MCParents == {Seat, Blueprint}
MCZone == -5

MCInit ==
  /\ snapshot = {} /\ command = {} /\ audited = {}
  /\ current \in SUBSET (Jobs \cup Parents)
  /\ seen = [r \in Requests |-> NoCommand]
  /\ \E sent \in Scenarios :
       /\ phase = [r \in Requests |-> IF r \in sent THEN "new" ELSE "done"]
       /\ reply = [r \in Requests |-> IF r \in sent THEN "none" ELSE "failed"]

MCSpec == MCInit /\ [][Next]_vars /\ Fairness
==============================================================================
