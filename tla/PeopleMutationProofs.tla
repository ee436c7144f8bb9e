------------------------- MODULE PeopleMutationProofs -------------------------
(***************************************************************************)
(* For any requests, keys, commands and committed facts.                     *)
(*                                                                           *)
(* Keys: a key has one effect, all its successful requests learn the same, and  *)
(* the four writes implement IdempotentCommand, however requests race, are       *)
(* aborted or lose their reply.                                               *)
(*                                                                           *)
(* History: at every instant at which it is reconstructed the exclusive          *)
(* employments of a person do not overlap, every assignment is covered by the     *)
(* employment and the seat it names, none of them is allocated more than once      *)
(* over, and the workforce can be reported, whichever order locks are granted,    *)
(* clocks are read and writes commit.                                         *)
(***************************************************************************)
EXTENDS PeopleMutation, WorkforceRulesProofs

Outcomes == {"none", "created", "replayed", "conflict", "refused", "failed"}

\* What a transaction has read of the facts is committed.
Transaction ==
  [phase : Phases, began : Times, recorded : Times,
   employments : SUBSET employment, positions : SUBSET position]

Reply == [outcome : Outcomes, record : Requests \cup Persons \cup {"none"}]

Shape ==
  /\ tx \in [Requests -> Transaction]
  /\ reply \in [Requests -> Reply]
  /\ now \in Times
  /\ audited \subseteq Requests

\* Past the read of its key: the key was found unbound.
Deciding == {"fresh", "person", "employed", "locked", "timed", "written"}

\* The advisory lock has one holder.
KeyExclusive ==
  \A r, q \in Requests : HoldsKey(r) /\ HoldsKey(q) /\ SameKey(r, q) => r = q

\* While its holder decides, the key stays as unbound as it was read.
KeyStaysUnbound == \A r \in Requests : tx[r].phase \in Deciding => Bound(r) = {}

\* A key is bound by the request whose audit event is committed, and by no other.
BindingsAudited ==
  /\ binding = {Binding(r) : r \in audited}
  /\ \A r, q \in audited : SameKey(r, q) => r = q

\* A request is answered when its transaction is over, and told of success only
\* what the effect of its key and command created.
RepliesTrue ==
  /\ \A r \in Requests : tx[r].phase = "done" <=> reply[r].outcome # "none"
  /\ \A r \in audited : tx[r].phase = "done"
  /\ \A r \in Requests : reply[r].outcome \in {"created", "replayed"} =>
       \E q \in audited : /\ SameKey(r, q) /\ Command[r] = Command[q]
                          /\ reply[r].record = CreatedBy(q)

KeyInv == Shape /\ KeyExclusive /\ KeyStaysUnbound /\ BindingsAudited /\ RepliesTrue

------------------------------------------------------------------------------
(* What one statement does to its key *)

\* The request goes on: nothing is committed and nothing is said.
Advances(r) ==
  \E t \in Transaction :
    /\ tx' = [tx EXCEPT ![r] = t]
    /\ t.phase # "done"
    /\ t.phase \in Deciding => Bound(r) = {}
    /\ t.phase \notin {"new", "open"} =>
         HoldsKey(r) \/ \A q \in Others(r) : HoldsKey(q) => ~SameKey(r, q)
    /\ UNCHANGED <<tables, now, reply>>

\* The request is over without an effect; a rule is broken only while deciding.
Refuses(r) ==
  \/ Finish(r, Answer("failed"))
  \/ Finish(r, Answer("refused")) /\ Bound(r) = {}

Conflicts(r) ==
  \E b \in Bound(r) : b.digest # Digest(r) /\ Finish(r, Answer("conflict"))

Replays(r) ==
  \E b \in Bound(r) : b.digest = Digest(r) /\ Finish(r, Created("replayed", b.created))

\* The statements of the four writes, seen from their key.
LEMMA StatementKinds ==
  ASSUME KeyInv, NEW r \in Requests, Statement(r) \/ Abort(r)
  PROVE  /\ tx[r].phase # "done"
         /\ Advances(r) \/ Refuses(r) \/ Conflicts(r) \/ Replays(r) \/ Commit(r)
  <1>1. tx[r] \in Transaction /\ tx[r].phase \in Phases /\ now \in Times
    BY DEF KeyInv, Shape, Transaction
  <1>2. tx[r].phase \in Deciding => Bound(r) = {} /\ HoldsKey(r)
    BY DEF KeyInv, KeyStaysUnbound, Deciding, HoldsKey
  <1>3. ASSUME NEW t \in Transaction, t.phase \in Deciding, tx[r].phase \in Deciding,
               tx' = [tx EXCEPT ![r] = t], UNCHANGED <<tables, now, reply>>
        PROVE  Advances(r)
    BY <1>2, <1>3 DEF Advances, Deciding
  <1>4. ASSUME NEW phase \in Phases
        PROVE  /\ [tx[r] EXCEPT !.phase = phase] \in Transaction
               /\ [tx[r] EXCEPT !.phase = phase].phase = phase
    BY <1>1 DEF Transaction
  <1>5. CASE Begin(r)
    <2> DEFINE t == [tx[r] EXCEPT !.phase = "open", !.began = now]
    <2>1. t \in Transaction /\ t.phase = "open"
      BY <1>1 DEF Transaction, Phases
    <2>2. tx' = [tx EXCEPT ![r] = t] /\ UNCHANGED <<tables, now, reply>>
      BY <1>5 DEF Begin
    <2>3. QED
      BY <1>5, <2>1, <2>2 DEF Begin, Advances, Deciding
  <1>6. CASE LockKey(r)
    <2> DEFINE t == [tx[r] EXCEPT !.phase = "keyed"]
    <2>1. t \in Transaction /\ t.phase = "keyed"
      BY <1>4 DEF Phases
    <2>2. tx' = [tx EXCEPT ![r] = t] /\ UNCHANGED <<tables, now, reply>>
      BY <1>6 DEF LockKey, Move
    <2>3. QED
      BY <1>6, <2>1, <2>2 DEF LockKey, Advances, Deciding
  <1>7. CASE ReadKey(r)
    <2>1. CASE Bound(r) = {}
      <3> DEFINE t == [tx[r] EXCEPT !.phase = "fresh"]
      <3>1. t \in Transaction /\ t.phase = "fresh" /\ HoldsKey(r)
        BY <1>4, <1>7 DEF Phases, ReadKey, HoldsKey
      <3>2. tx' = [tx EXCEPT ![r] = t] /\ UNCHANGED <<tables, now, reply>>
        BY <1>7, <2>1 DEF ReadKey, Move
      <3>3. QED
        BY <1>7, <2>1, <3>1, <3>2 DEF ReadKey, Advances
    <2>2. CASE Bound(r) # {}
      BY <1>7, <2>2 DEF ReadKey, Conflicts, Replays
    <2>3. QED
      BY <2>1, <2>2
  <1>8. CASE Hire(r) \/ WritePosition(r)
    <2>1. tx[r].phase = "fresh" /\ Bound(r) = {}
      BY <1>2, <1>8 DEF Hire, WritePosition, Deciding
    <2>2. \/ Refuses(r)
          \/ /\ tx' = [tx EXCEPT ![r].phase = "written", ![r].recorded = tx[r].began]
             /\ UNCHANGED <<tables, now, reply>>
      BY <1>8, <2>1 DEF Hire, WritePosition, Refuses
    <2> DEFINE t == [tx[r] EXCEPT !.phase = "written", !.recorded = tx[r].began]
    <2>3. t \in Transaction /\ t.phase = "written"
      BY <1>1 DEF Transaction, Phases
    <2>4. QED
      BY <1>3, <2>1, <2>2, <2>3 DEF Deciding
  <1>9. CASE LockConversion(r) \/ WriteEmployment(r) \/ WriteAssignment(r)
    <2>1. tx[r].phase \in Deciding /\ Bound(r) = {}
      BY <1>2, <1>9 DEF LockConversion, WriteEmployment, WriteAssignment, Deciding
    <2>2. \/ Refuses(r)
          \/ \E phase \in {"locked", "person", "written"} :
               Move(r, phase) /\ UNCHANGED <<tables, now, reply>>
      BY <1>9, <2>1 DEF LockConversion, WriteEmployment, WriteAssignment, Refuses
    <2>3. ASSUME NEW phase \in {"locked", "person", "written"}, Move(r, phase),
                 UNCHANGED <<tables, now, reply>>
          PROVE  Advances(r)
      <3> DEFINE t == [tx[r] EXCEPT !.phase = phase]
      <3>1. t \in Transaction /\ t.phase \in Deciding
        BY <1>4 DEF Phases, Deciding
      <3>2. QED
        BY <1>3, <2>1, <2>3, <3>1 DEF Move
    <2>4. QED
      BY <1>9, <2>2, <2>3 DEF LockConversion, WriteEmployment, WriteAssignment
  <1>10. CASE ReadEmployment(r) \/ LockPosition(r) \/ ReadClock(r)
    <2>1. tx[r].phase \in Deciding
      BY <1>10 DEF ReadEmployment, LockPosition, ReadClock, Deciding
    <2>2. UNCHANGED <<tables, now, reply>>
      BY <1>10 DEF ReadEmployment, LockPosition, ReadClock
    <2> DEFINE t == tx'[r]
    <2>3. t \in Transaction /\ t.phase \in Deciding /\ tx' = [tx EXCEPT ![r] = t]
      <3>1. CASE ReadEmployment(r)
        BY <1>1, <3>1 DEF ReadEmployment, Transaction, Phases, Deciding, KeyInv, Shape
      <3>2. CASE LockPosition(r)
        BY <1>1, <3>2 DEF LockPosition, Transaction, Phases, Deciding, KeyInv, Shape
      <3>3. CASE ReadClock(r)
        BY <1>1, <3>3 DEF ReadClock, Transaction, Phases, Deciding, KeyInv, Shape
      <3>4. QED
        BY <1>10, <3>1, <3>2, <3>3
    <2>4. QED
      BY <1>3, <1>10, <2>1, <2>2, <2>3 DEF ReadEmployment, LockPosition, ReadClock
  <1>11. CASE Commit(r) \/ Abort(r)
    BY <1>11 DEF Commit, Abort, Refuses
  <1>12. QED
    <2>1. tx[r].phase # "done"
      BY DEF Statement, Abort, Begin, LockKey, ReadKey, Hire, LockConversion, ReadEmployment,
         LockPosition, ReadClock, WriteEmployment, WriteAssignment, WritePosition, Commit
    <2>2. QED
      BY <1>5, <1>6, <1>7, <1>8, <1>9, <1>10, <1>11, <2>1 DEF Statement

------------------------------------------------------------------------------
(* KeyInv is inductive *)

\* Before the first command no key is bound.
LEMMA InitKeyInv == Init => KeyInv
  <1> SUFFICES ASSUME Init
               PROVE  KeyInv
    OBVIOUS
  <1>1. 0 \in Times
    BY ClockAssumption DEF Times
  <1>2. NewTx \in Transaction /\ Answer("none") \in Reply
    BY <1>1 DEF NewTx, Transaction, Phases, Answer, Reply, Outcomes
  <1>3. Shape
    BY <1>1, <1>2 DEF Init, Seeded, Shape
  <1>4. \A r \in Requests : tx[r].phase = "new" /\ reply[r].outcome = "none"
    BY DEF Init, NewTx, Answer
  <1>5. audited = {} /\ binding = {}
    BY DEF Init, Seeded
  <1>6. QED
    BY <1>3, <1>4, <1>5 DEF KeyInv, KeyExclusive, HoldsKey, KeyStaysUnbound, Deciding,
       BindingsAudited, RepliesTrue

\* A statement between lookup and commit binds no key.
LEMMA AdvanceKeepsKeys ==
  ASSUME KeyInv, NEW r \in Requests, tx[r].phase # "done", Advances(r)
  PROVE  KeyInv'
  <1>1. PICK t \in Transaction :
          /\ tx' = [tx EXCEPT ![r] = t]
          /\ t.phase # "done"
          /\ t.phase \in Deciding => Bound(r) = {}
          /\ t.phase \notin {"new", "open"} =>
               HoldsKey(r) \/ \A q \in Others(r) : HoldsKey(q) => ~SameKey(r, q)
          /\ UNCHANGED <<tables, now, reply>>
    BY DEF Advances
  <1>2. tx'[r] = t /\ \A q \in Others(r) : tx'[q] = tx[q]
    BY <1>1 DEF KeyInv, Shape, Others
  <1>3. Shape'
    BY <1>1 DEF KeyInv, Shape, tables, Transaction
  <1>4. KeyExclusive'
    BY <1>1, <1>2 DEF KeyInv, KeyExclusive, HoldsKey, SameKey, Others
  <1>5. KeyStaysUnbound' /\ BindingsAudited'
    BY <1>1, <1>2 DEF KeyInv, KeyStaysUnbound, BindingsAudited, Bound, Others, tables, Binding
  <1>6. RepliesTrue'
    BY <1>1, <1>2 DEF KeyInv, RepliesTrue, Others, tables
  <1>7. QED
    BY <1>3, <1>4, <1>5, <1>6 DEF KeyInv

\* An answer without an effect tells of nothing that is not bound.
LEMMA FinishKeepsKeys ==
  ASSUME KeyInv, NEW r \in Requests, tx[r].phase # "done",
         NEW answer \in Reply, answer.outcome # "none", Finish(r, answer),
         answer.outcome \in {"created", "replayed"} =>
           \E q \in audited : /\ SameKey(r, q) /\ Command[r] = Command[q]
                              /\ answer.record = CreatedBy(q)
  PROVE  KeyInv'
  <1>1. /\ tx' = [tx EXCEPT ![r].phase = "done"] /\ reply' = [reply EXCEPT ![r] = answer]
        /\ UNCHANGED <<conversion, employment, position, assignment, binding, audited, now>>
    BY DEF Finish, Move, tables
  <1>2. /\ tx'[r].phase = "done" /\ reply'[r] = answer
        /\ \A q \in Others(r) : tx'[q] = tx[q] /\ reply'[q] = reply[q]
        /\ tx' \in [Requests -> Transaction] /\ reply' \in [Requests -> Reply]
    BY <1>1 DEF KeyInv, Shape, Others, Transaction, Phases
  <1>3. Shape'
    BY <1>1, <1>2 DEF KeyInv, Shape, Transaction
  <1>4. KeyExclusive'
    BY <1>2 DEF KeyInv, KeyExclusive, HoldsKey, SameKey, Others
  <1>5. KeyStaysUnbound' /\ BindingsAudited'
    BY <1>1, <1>2 DEF KeyInv, KeyStaysUnbound, Deciding, BindingsAudited, Bound, Others, Binding
  <1>6. RepliesTrue'
    BY <1>1, <1>2 DEF KeyInv, RepliesTrue, Others
  <1>7. QED
    BY <1>3, <1>4, <1>5, <1>6 DEF KeyInv

\* A key is bound to the command of the one request audited under it.
LEMMA BoundByAudited ==
  ASSUME KeyInv, NEW r \in Requests, NEW b \in Bound(r)
  PROVE  /\ \E q \in audited : SameKey(r, q) /\ b = Binding(q)
         /\ \A c \in Bound(r) : c = b
  <1>1. ASSUME NEW c \in Bound(r)
        PROVE  \E q \in audited : SameKey(r, q) /\ c = Binding(q)
    BY DEF KeyInv, BindingsAudited, Bound, Binding, SameKey
  <1>2. \A c \in Bound(r) : c = b
    BY <1>1 DEF KeyInv, BindingsAudited, SameKey
  <1>3. QED
    BY <1>1, <1>2

\* Refusals, conflicts and replays are such answers.
LEMMA AnswersKeepKeys ==
  ASSUME KeyInv, NEW r \in Requests, tx[r].phase # "done",
         Refuses(r) \/ Conflicts(r) \/ Replays(r)
  PROVE  KeyInv'
  <1>1. \A outcome \in {"failed", "refused", "conflict"} :
          /\ Answer(outcome) \in Reply
          /\ Answer(outcome).outcome \notin {"none", "created", "replayed"}
    BY DEF Answer, Reply, Outcomes
  <1>2. CASE Refuses(r) \/ Conflicts(r)
    BY <1>1, <1>2, FinishKeepsKeys DEF Refuses, Conflicts
  <1>3. CASE Replays(r)
    <2>1. PICK b \in Bound(r) : b.digest = Digest(r) /\ Finish(r, Created("replayed", b.created))
      BY <1>3 DEF Replays
    <2>2. PICK q \in audited : SameKey(r, q) /\ b = Binding(q)
      BY BoundByAudited
    <2>3. q \in Requests /\ Command[r] = Command[q] /\ b.created = CreatedBy(q)
      BY <2>1, <2>2 DEF Binding, Digest, KeyInv, Shape
    <2>4. CreatedBy(q) \in Requests \cup Persons
      BY <2>3, CommandAssumption DEF CreatedBy, Route
    <2>5. Created("replayed", b.created) \in Reply
      BY <2>3, <2>4 DEF Created, Reply, Outcomes
    <2>6. QED
      BY <2>1, <2>2, <2>3, <2>5, FinishKeepsKeys DEF Created
  <1>4. QED
    BY <1>2, <1>3

\* A commit binds a key that its request holds alone.
LEMMA CommitKeepsKeys ==
  ASSUME KeyInv, NEW r \in Requests, Commit(r)
  PROVE  KeyInv'
  <1>1. PICK answer \in {Created("created", CreatedBy(r)), Answer("failed")} :
          reply' = [reply EXCEPT ![r] = answer]
    BY DEF Commit
  <1>2. /\ tx[r].phase = "written" /\ tx' = [tx EXCEPT ![r].phase = "done"]
        /\ audited' = audited \cup {r} /\ binding' = binding \cup {Binding(r)}
        /\ employment \subseteq employment' /\ position \subseteq position' /\ now' = now
    BY DEF Commit, Move, Store
  <1>3. Bound(r) = {} /\ HoldsKey(r)
    BY <1>2 DEF KeyInv, KeyStaysUnbound, Deciding, HoldsKey
  <1>4. answer \in Reply /\ answer.outcome # "none"
    BY CommandAssumption DEF CreatedBy, Route, Created, Answer, Reply, Outcomes
  <1>5. /\ tx'[r].phase = "done" /\ reply'[r] = answer
        /\ \A q \in Others(r) : tx'[q] = tx[q] /\ reply'[q] = reply[q]
        /\ tx' \in [Requests -> Transaction] /\ reply' \in [Requests -> Reply]
    BY <1>1, <1>2, <1>4 DEF KeyInv, Shape, Others, Transaction, Phases
  <1>6. Shape'
    <2>1. Transaction \subseteq Transaction'
      BY <1>2 DEF Transaction
    <2>2. QED
      BY <1>2, <1>5, <2>1 DEF KeyInv, Shape, Reply
  <1>7. KeyExclusive'
    BY <1>5 DEF KeyInv, KeyExclusive, HoldsKey, SameKey, Others
  <1>8. ASSUME NEW q \in audited
        PROVE  ~SameKey(r, q) /\ q # r
    <2>1. Binding(q) \in binding
      BY DEF KeyInv, BindingsAudited
    <2>2. SameKey(r, q) => Binding(q) \in Bound(r)
      BY <2>1 DEF Bound, Binding, SameKey
    <2>3. tx[q].phase = "done"
      BY DEF KeyInv, RepliesTrue
    <2>4. QED
      BY <1>2, <1>3, <2>2, <2>3
  <1>9. BindingsAudited'
    <2>1. binding' = {Binding(q) : q \in audited'}
      BY <1>2 DEF KeyInv, BindingsAudited, Binding
    <2>2. \A p, q \in audited' : SameKey(p, q) => p = q
      BY <1>2, <1>8 DEF KeyInv, BindingsAudited, SameKey
    <2>3. QED
      BY <2>1, <2>2 DEF BindingsAudited, SameKey
  <1>10. KeyStaysUnbound'
    <2> SUFFICES ASSUME NEW q \in Requests, tx'[q].phase \in Deciding
                 PROVE  Bound(q)' = {}
      BY DEF KeyStaysUnbound
    <2>1. q \in Others(r) /\ tx[q].phase \in Deciding /\ Bound(q) = {}
      BY <1>5 DEF KeyInv, KeyStaysUnbound, Deciding, Others
    <2>2. ~SameKey(q, r)
      BY <1>3, <2>1 DEF KeyInv, KeyExclusive, HoldsKey, Deciding, Others
    <2>3. QED
      BY <1>2, <2>1, <2>2 DEF Bound, Binding, SameKey
  <1>11. RepliesTrue'
    <2>1. SameKey(r, r)
      BY DEF SameKey
    <2>2. QED
      BY <1>2, <1>5, <2>1 DEF KeyInv, RepliesTrue, Others, Created, Answer
  <1>12. QED
    BY <1>6, <1>7, <1>9, <1>10, <1>11 DEF KeyInv

\* KeyInv is inductive.
LEMMA NextKeyInv == KeyInv /\ [Next]_vars => KeyInv'
  <1>1. ASSUME KeyInv, NEW r \in Requests, Statement(r) \/ Abort(r)
        PROVE  KeyInv'
    BY <1>1, StatementKinds, AdvanceKeepsKeys, AnswersKeepKeys, CommitKeepsKeys
  <1>2. ASSUME KeyInv, Tick
        PROVE  KeyInv'
    <2>1. now' \in Times
      BY <1>2, ClockAssumption DEF Tick, KeyInv, Shape, Times
    <2>2. QED
      BY <1>2, <2>1 DEF Tick, tables, KeyInv, Shape, Transaction, KeyExclusive, HoldsKey,
         KeyStaysUnbound, Bound, BindingsAudited, RepliesTrue, Binding
  <1>3. ASSUME KeyInv, UNCHANGED vars
        PROVE  KeyInv'
    BY <1>3 DEF vars, KeyInv, Shape, Transaction, KeyExclusive, HoldsKey, KeyStaysUnbound,
       Bound, BindingsAudited, RepliesTrue, Binding
  <1>4. QED
    BY <1>1, <1>2, <1>3 DEF Next

------------------------------------------------------------------------------
(* Results *)

\* However often a command is sent, races itself or loses its reply, its key has one
\* audited effect, and whoever is told of success is told of a committed fact.
THEOREM OneEffect == Spec => []OneEffectPerKey
  <1>1. KeyInv => OneEffectPerKey
    BY DEF KeyInv, BindingsAudited, RepliesTrue, OneEffectPerKey
  <1>2. QED
    BY InitKeyInv, NextKeyInv, <1>1, PTL DEF Spec

\* All requests that succeed under one route and key asked for one command and
\* learn one identity.
THEOREM RetriesLearnTheSame == Spec => []RetriesAgree
  <1>1. KeyInv => RetriesAgree
    <2> SUFFICES ASSUME KeyInv, NEW r \in Requests, NEW q \in Requests, SameKey(r, q),
                        reply[r].outcome \in {"created", "replayed"},
                        reply[q].outcome \in {"created", "replayed"}
                 PROVE  Command[r] = Command[q] /\ reply[r].record = reply[q].record
      BY DEF RetriesAgree
    <2>1. PICK s \in audited : /\ SameKey(r, s) /\ Command[r] = Command[s]
                               /\ reply[r].record = CreatedBy(s)
      BY DEF KeyInv, RepliesTrue
    <2>2. PICK t \in audited : /\ SameKey(q, t) /\ Command[q] = Command[t]
                               /\ reply[q].record = CreatedBy(t)
      BY DEF KeyInv, RepliesTrue
    <2>3. s = t
      BY <2>1, <2>2 DEF KeyInv, BindingsAudited, SameKey
    <2>4. QED
      BY <2>1, <2>2, <2>3
  <1>2. QED
    BY InitKeyInv, NextKeyInv, <1>1, PTL DEF Spec

\* The conversions are those committed before and those of the audited hires.  No two of
\* these, and of the hires that wait to commit, convert one candidate or make one worker.
Hiring(r) == r \in Hires /\ (tx[r].phase = "written" \/ r \in audited)

HireInv ==
  /\ conversion = SeedConversions \cup
       {[candidate |-> Command[r].candidate, person |-> Command[r].person] :
          r \in Hires \cap audited}
  /\ \A r, q \in Requests :
       Hiring(r) /\ Hiring(q) /\ SameWorker(Command[r], Command[q]) => r = q
  /\ \A r \in Requests, c \in SeedConversions : Hiring(r) => ~SameWorker(Command[r], c)

\* A hire that is written has waited for every other one.
LEMMA HireKeepsHires ==
  ASSUME KeyInv, HireInv, NEW r \in Requests, Hire(r)
  PROVE  HireInv'
  <1>1. /\ tx[r].phase = "fresh" /\ r \in Hires /\ r \notin audited
        /\ UNCHANGED <<conversion, audited>>
    BY DEF Hire, Hires, Route, Finish, tables, KeyInv, RepliesTrue
  <1>2. \A q \in Others(r) : Hiring(q)' <=> Hiring(q)
    BY <1>1 DEF Hire, Finish, Move, Others, Hiring, KeyInv, Shape
  <1>3. CASE ~Hiring(r)'
    BY <1>1, <1>2, <1>3 DEF HireInv, Others
  <1>4. CASE Hiring(r)'
    <2>1. /\ \A q \in Others(r) :
               Route(q) = Route(r) /\ tx[q].phase = "written" => ~SameWorker(Command[q], Command[r])
          /\ \A d \in conversion : ~SameWorker(Command[r], d)
      <3>1. tx'[r].phase = "written"
        BY <1>1, <1>4 DEF Hiring
      <3>2. tx \in [Requests -> Transaction]
        BY DEF KeyInv, Shape
      <3>3. \A answer : ~Finish(r, answer)
        BY <3>1, <3>2 DEF Finish, Move, Transaction
      <3>4. QED
        BY <3>3 DEF Hire
    <2>2. ASSUME NEW q \in Others(r), Hiring(q)
          PROVE  ~SameWorker(Command[r], Command[q]) /\ ~SameWorker(Command[q], Command[r])
      <3>1. CASE tx[q].phase = "written"
        BY <1>1, <2>1, <2>2, <3>1 DEF Hiring, Hires, Route, SameWorker
      <3>2. CASE q \in audited
        <4> DEFINE d == [candidate |-> Command[q].candidate, person |-> Command[q].person]
        <4>1. d \in conversion
          BY <2>2, <3>2 DEF HireInv, Hiring
        <4>2. QED
          BY <2>1, <4>1 DEF SameWorker
      <3>3. QED
        BY <2>2, <3>1, <3>2 DEF Hiring
    <2>3. \A c \in SeedConversions : ~SameWorker(Command[r], c)
      BY <2>1 DEF HireInv
    <2>4. QED
      BY <1>1, <1>2, <2>2, <2>3 DEF HireInv, Others
  <1>5. QED
    BY <1>3, <1>4

\* A commit converts the candidate of the hire that was written.
LEMMA CommitKeepsHires ==
  ASSUME KeyInv, HireInv, NEW r \in Requests, Commit(r)
  PROVE  HireInv'
  <1>1. /\ tx[r].phase = "written" /\ tx' = [tx EXCEPT ![r].phase = "done"]
        /\ audited' = audited \cup {r}
        /\ conversion' = IF r \in Hires
             THEN conversion \cup
                    {[candidate |-> Command[r].candidate, person |-> Command[r].person]}
             ELSE conversion
    BY DEF Commit, Move, Store, Hires, Route
  <1>2. \A q \in Requests : Hiring(q)' <=> Hiring(q)
    BY <1>1 DEF Hiring, KeyInv, Shape
  <1>3. conversion' = SeedConversions \cup
          {[candidate |-> Command[q].candidate, person |-> Command[q].person] :
             q \in Hires \cap audited'}
    BY <1>1 DEF HireInv
  <1>4. QED
    BY <1>2, <1>3 DEF HireInv

\* No other step writes or commits a hire.
LEMMA NextHireInv == KeyInv /\ HireInv /\ [Next]_vars => HireInv'
  <1>1. ASSUME KeyInv, HireInv, NEW r \in Requests, Statement(r) \/ Abort(r)
        PROVE  HireInv'
    <2>1. CASE Hire(r)
      BY <1>1, <2>1, HireKeepsHires
    <2>2. CASE Commit(r)
      BY <1>1, <2>2, CommitKeepsHires
    <2>3. CASE ~Hire(r) /\ ~Commit(r)
      <3>1. UNCHANGED <<conversion, audited>> /\ \A q \in Others(r) : tx'[q] = tx[q]
        BY <1>1, <2>3 DEF Statement, Abort, Begin, LockKey, ReadKey, LockConversion,
           ReadEmployment, LockPosition, ReadClock, WriteEmployment, WriteAssignment,
           WritePosition, Finish, Move, tables, Others, KeyInv, Shape
      <3>2. Hiring(r)' => Hiring(r)
        <4> SUFFICES ASSUME r \in Hires, tx'[r].phase = "written"
                     PROVE  FALSE
          BY <3>1 DEF Hiring
        <4>1. tx \in [Requests -> Transaction]
          BY <1>1 DEF KeyInv, Shape
        <4>2. \A phase : Move(r, phase) => phase = "written"
          BY <4>1 DEF Move
        <4>3. \A answer : ~Finish(r, answer)
          BY <4>2 DEF Finish
        <4>4. ~LockKey(r) /\ ~ReadKey(r) /\ ~LockConversion(r) /\ ~Abort(r)
          BY <4>2, <4>3 DEF LockKey, ReadKey, LockConversion, Abort
        <4>5. ~Begin(r) /\ ~ReadEmployment(r) /\ ~LockPosition(r) /\ ~ReadClock(r)
          BY <4>1 DEF Begin, ReadEmployment, LockPosition, ReadClock, Transaction
        <4>6. ~WriteEmployment(r) /\ ~WriteAssignment(r) /\ ~WritePosition(r)
          BY DEF WriteEmployment, WriteAssignment, WritePosition, Hires, Route
        <4>7. QED
          BY <1>1, <2>3, <4>4, <4>5, <4>6 DEF Statement
      <3>3. QED
        BY <1>1, <3>1, <3>2 DEF HireInv, Hiring, Others
    <2>4. QED
      BY <2>1, <2>2, <2>3
  <1>2. ASSUME HireInv, Tick \/ UNCHANGED vars
        PROVE  HireInv'
    BY <1>2 DEF HireInv, Hiring, Tick, tables, vars
  <1>3. QED
    BY <1>1, <1>2 DEF Next

\* A candidate becomes a worker once, whatever keys its hires are sent under and however
\* they race: the written hire makes the others wait, and its row refuses them.
THEOREM CandidatesConvertOnce == Spec => []OneConversionPerCandidate
  <1>1. Init => HireInv
    BY DEF Init, Seeded, NewTx, HireInv, Hiring
  <1>2. KeyInv /\ HireInv => OneConversionPerCandidate
    <2> SUFFICES ASSUME KeyInv, HireInv
                 PROVE  OneConversionPerCandidate
      OBVIOUS
    <2>1. \A r \in Hires \cap audited : r \in Requests /\ Hiring(r)
      BY DEF Hiring, Hires
    <2>2. ASSUME NEW r \in Hires, NEW q \in Hires,
                 reply[r].outcome \in {"created", "replayed"},
                 reply[q].outcome \in {"created", "replayed"},
                 SameWorker(Command[r], Command[q])
          PROVE  SameKey(r, q) /\ reply[r].record = reply[q].record
      <3>1. PICK s \in audited : /\ SameKey(r, s) /\ Command[r] = Command[s]
                                 /\ reply[r].record = CreatedBy(s)
        BY <2>2 DEF KeyInv, RepliesTrue, Hires
      <3>2. PICK t \in audited : /\ SameKey(q, t) /\ Command[q] = Command[t]
                                 /\ reply[q].record = CreatedBy(t)
        BY <2>2 DEF KeyInv, RepliesTrue, Hires
      <3>3. s \in Hires /\ t \in Hires
        BY <3>1, <3>2 DEF Hires, KeyInv, Shape
      <3>4. s = t
        BY <2>1, <2>2, <3>1, <3>2, <3>3 DEF HireInv
      <3>5. QED
        BY <3>1, <3>2, <3>4 DEF SameKey
    <2>3. QED
      BY <2>1, <2>2 DEF HireInv, OneConversionPerCandidate
  <1>3. QED
    BY <1>1, <1>2, InitKeyInv, NextKeyInv, NextHireInv, PTL DEF Spec

\* What a step tells a request, if anything.
LEMMA StepAnswers ==
  ASSUME KeyInv, NEW r \in Requests, Next, reply'[r] # reply[r]
  PROVE  Refuses(r) \/ Conflicts(r) \/ Replays(r) \/ Commit(r)
  <1>1. ~Tick
    BY DEF Tick
  <1>2. PICK q \in Requests : Statement(q) \/ Abort(q)
    BY <1>1 DEF Next
  <1>3. Advances(q) \/ Refuses(q) \/ Conflicts(q) \/ Replays(q) \/ Commit(q)
    BY <1>2, StatementKinds
  <1>4. q # r => reply'[r] = reply[r]
    BY <1>3 DEF KeyInv, Shape, Advances, Refuses, Conflicts, Replays, Commit, Finish
  <1>5. ~Advances(q)
    BY DEF Advances
  <1>6. QED
    BY <1>3, <1>4, <1>5

\* An identical retry of a committed command is replayed: it is never told of a
\* conflict, nor refused by a rule that the committed facts now break.
THEOREM RetriesAreReplayed == Spec => IdenticalRetryReplays
  <1>1. ASSUME KeyInv, [Next]_vars
        PROVE  [\A r \in Requests :
                  reply[r].outcome = "none" /\ reply'[r].outcome \in {"conflict", "refused"} =>
                    \A b \in Bound(r) : b.digest # Digest(r)]_vars
    <2> SUFFICES ASSUME Next, NEW r \in Requests, reply[r].outcome = "none",
                        reply'[r].outcome \in {"conflict", "refused"}, NEW b \in Bound(r)
                 PROVE  b.digest # Digest(r)
      BY <1>1
    <2>1. Refuses(r) \/ Conflicts(r) \/ Replays(r) \/ Commit(r)
      BY <1>1, StepAnswers
    <2>2. reply \in [Requests -> Reply]
      BY <1>1 DEF KeyInv, Shape
    <2>3. ~Refuses(r) /\ ~Replays(r) /\ ~Commit(r)
      <3>1. ~Finish(r, Answer("failed"))
        BY <2>2 DEF Finish, Answer
      <3>2. ~Replays(r) /\ ~Commit(r)
        BY <2>2 DEF Replays, Commit, Finish, Created, Answer
      <3>3. QED
        BY <3>1, <3>2 DEF Refuses
    <2>4. PICK c \in Bound(r) : c.digest # Digest(r)
      BY <2>1, <2>3 DEF Conflicts
    <2>5. QED
      BY <1>1, <2>4, BoundByAudited
  <1>2. QED
    BY <1>1, InitKeyInv, NextKeyInv, PTL DEF Spec, IdenticalRetryReplays

------------------------------------------------------------------------------
(* Refinement of IdempotentCommand *)

PromisedKey == [r \in Requests |-> <<Route(r), Key[r]>>]
PromisedBound == {[key |-> <<b.route, b.key>>, command |-> b.digest] : b \in binding}
Told(answer) == IF answer.outcome = "created" THEN "effected" ELSE answer.outcome
PromisedAnswer == [r \in Requests |-> Told(reply[r])]

\* What a finished request is told is what the promise's request is given.
LEMMA GiveAnswer ==
  ASSUME KeyInv, NEW r \in Requests, tx[r].phase # "done",
         reply' = [reply EXCEPT ![r] = reply'[r]]
  PROVE  /\ PromisedAnswer[r] = "none"
         /\ PromisedAnswer' = [PromisedAnswer EXCEPT ![r] = Told(reply'[r])]
  <1>1. reply[r].outcome = "none" /\ reply \in [Requests -> Reply]
    BY DEF KeyInv, RepliesTrue, Shape
  <1>2. \A q \in Requests \ {r} : reply'[q] = reply[q]
    BY <1>1
  <1>3. QED
    BY <1>1, <1>2 DEF PromisedAnswer, Told

\* What the promise makes of each answer.
LEMMA ToldOutcomes ==
  /\ \A outcome \in {"refused", "failed", "conflict"} : Told(Answer(outcome)) = outcome
  /\ \A record : Told(Created("replayed", record)) = "replayed"
  /\ \A record : Told(Created("created", record)) = "effected"
  BY DEF Told, Answer, Created

\* A key is bound in the promise exactly when a row binds it.
LEMMA BoundPromised ==
  ASSUME NEW r \in Requests
  PROVE  /\ Bound(r) = {} => \A c \in PromisedBound : c.key # PromisedKey[r]
         /\ \A b \in Bound(r) :
              [key |-> PromisedKey[r], command |-> b.digest] \in PromisedBound
  <1>1. PromisedKey[r] = <<Route(r), Key[r]>>
    BY DEF PromisedKey
  <1>2. ASSUME NEW c \in PromisedBound, c.key = PromisedKey[r]
        PROVE  Bound(r) # {}
    <2>1. PICK b \in binding : c = [key |-> <<b.route, b.key>>, command |-> b.digest]
      BY DEF PromisedBound
    <2>2. b.route = Route(r) /\ b.key = Key[r]
      BY <1>1, <1>2, <2>1
    <2>3. QED
      BY <2>2 DEF Bound
  <1>3. ASSUME NEW b \in Bound(r)
        PROVE  [key |-> PromisedKey[r], command |-> b.digest] \in PromisedBound
    <2>1. b \in binding /\ <<b.route, b.key>> = PromisedKey[r]
      BY <1>1 DEF Bound
    <2>2. [key |-> <<b.route, b.key>>, command |-> b.digest] \in PromisedBound
      BY <2>1 DEF PromisedBound
    <2>3. QED
      BY <2>1, <2>2
  <1>4. QED
    BY <1>2, <1>3

\* The four writes keep the promise of an Idempotency-Key: seen through its
\* binding, its audited effects and its answers, every step of every interleaving
\* is one of its steps or invisible.
THEOREM Refinement == Spec => Implements
  <1> USE DEF Promise!Give
  <1>1. Init => Promise!Init
    BY DEF Init, Seeded, Answer, Promise!Init
  <1>2. ASSUME KeyInv, NEW r \in Requests, Statement(r) \/ Abort(r)
        PROVE  Promise!Next \/ UNCHANGED Promise!vars
    <2>1. /\ tx[r].phase # "done"
          /\ Advances(r) \/ Refuses(r) \/ Conflicts(r) \/ Replays(r) \/ Commit(r)
      BY <1>2, StatementKinds
    <2>2. CASE Advances(r)
      BY <2>2 DEF Advances, tables, Promise!vars
    <2>3. CASE Refuses(r)
      <3>1. PICK outcome \in {"refused", "failed"} : Finish(r, Answer(outcome))
        BY <2>3 DEF Refuses
      <3>2. PromisedAnswer[r] = "none" /\ PromisedAnswer' = [PromisedAnswer EXCEPT ![r] = outcome]
        <4>1. reply' = [reply EXCEPT ![r] = reply'[r]] /\ reply'[r] = Answer(outcome)
          BY <1>2, <3>1 DEF Finish, KeyInv, Shape
        <4>2. QED
          BY <1>2, <2>1, <4>1, GiveAnswer, ToldOutcomes
      <3>3. Promise!Refuse(r)
        BY <3>1, <3>2 DEF Promise!Refuse, Finish, tables, PromisedAnswer, Told
      <3>4. QED
        BY <3>3 DEF Promise!Next
    <2>4. CASE Conflicts(r)
      <3>1. PICK b \in Bound(r) : Finish(r, Answer("conflict"))
        BY <2>4 DEF Conflicts
      <3>2. PromisedAnswer[r] = "none" /\ PromisedAnswer' = [PromisedAnswer EXCEPT ![r] = "conflict"]
        <4>1. reply' = [reply EXCEPT ![r] = reply'[r]] /\ reply'[r] = Answer("conflict")
          BY <1>2, <3>1 DEF Finish, KeyInv, Shape
        <4>2. QED
          BY <1>2, <2>1, <4>1, GiveAnswer, ToldOutcomes
      <3>3. \E c \in PromisedBound : c.key = PromisedKey[r]
        BY BoundPromised
      <3>4. Promise!Conflict(r)
        BY <3>1, <3>2, <3>3
           DEF Promise!Conflict, Finish, tables, PromisedAnswer, Told, PromisedBound, PromisedKey
      <3>5. QED
        BY <3>4 DEF Promise!Next
    <2>5. CASE Replays(r)
      <3>1. PICK b \in Bound(r) : b.digest = Digest(r) /\ Finish(r, Created("replayed", b.created))
        BY <2>5 DEF Replays
      <3>2. PromisedAnswer[r] = "none" /\ PromisedAnswer' = [PromisedAnswer EXCEPT ![r] = "replayed"]
        <4>1. reply' = [reply EXCEPT ![r] = reply'[r]] /\ reply'[r] = Created("replayed", b.created)
          BY <1>2, <3>1 DEF Finish, KeyInv, Shape
        <4>2. QED
          BY <1>2, <2>1, <4>1, GiveAnswer, ToldOutcomes
      <3>3. [key |-> PromisedKey[r], command |-> Command[r]] \in PromisedBound
        BY <3>1, BoundPromised DEF Digest
      <3>4. Promise!Replay(r)
        BY <3>1, <3>2, <3>3
           DEF Promise!Replay, Finish, tables, PromisedAnswer, Told, PromisedBound, PromisedKey
      <3>5. QED
        BY <3>4 DEF Promise!Next
    <2>6. CASE Commit(r)
      <3>1. PICK answer \in {Created("created", CreatedBy(r)), Answer("failed")} :
              reply' = [reply EXCEPT ![r] = answer]
        BY <2>6 DEF Commit
      <3>2. \E outcome \in {"effected", "failed"} :
              PromisedAnswer[r] = "none" /\ PromisedAnswer' = [PromisedAnswer EXCEPT ![r] = outcome]
        <4>1. reply' = [reply EXCEPT ![r] = reply'[r]] /\ reply'[r] = answer
          BY <1>2, <3>1 DEF KeyInv, Shape
        <4>2. Told(answer) \in {"effected", "failed"}
          BY ToldOutcomes
        <4>3. QED
          BY <1>2, <2>1, <4>1, <4>2, GiveAnswer
      <3>3. \A c \in PromisedBound : c.key # PromisedKey[r]
        BY <1>2, <2>6, BoundPromised DEF Commit, KeyInv, KeyStaysUnbound, Deciding
      <3>4. PromisedBound' = PromisedBound \cup {[key |-> PromisedKey[r], command |-> Command[r]]}
        <4>1. binding' = binding \cup {Binding(r)}
          BY <2>6 DEF Commit
        <4>2. [key |-> <<Binding(r).route, Binding(r).key>>, command |-> Binding(r).digest]
                = [key |-> PromisedKey[r], command |-> Command[r]]
          BY DEF Binding, PromisedKey, Digest
        <4>3. PromisedBound' = PromisedBound \cup
                {[key |-> <<Binding(r).route, Binding(r).key>>, command |-> Binding(r).digest]}
          BY <4>1 DEF PromisedBound
        <4>4. QED
          BY <4>2, <4>3
      <3>5. audited' = audited \cup {r}
        BY <2>6 DEF Commit, Store
      <3>6. Promise!Execute(r)
        BY <3>2, <3>3, <3>4, <3>5
           DEF Promise!Execute, PromisedAnswer, Told, PromisedBound, PromisedKey
      <3>7. QED
        BY <3>6 DEF Promise!Next
    <2>7. QED
      BY <2>1, <2>2, <2>3, <2>4, <2>5, <2>6
  <1>3. Tick => UNCHANGED Promise!vars
    BY DEF Tick, tables, Promise!vars
  <1>4. KeyInv /\ [Next]_vars => [Promise!Next]_Promise!vars
    BY <1>2, <1>3 DEF Next, vars, Promise!vars
  <1>5. QED
    BY <1>1, <1>4, InitKeyInv, NextKeyInv, PTL DEF Spec, Implements, Promise!Spec

------------------------------------------------------------------------------
(* History *)

EmploymentsOf(person) == {e \in employment : e.person = person}
VersionsOf(id) == {e \in employment : e.employment = id}
SeatVersionsOf(id) == {p \in position : p.position = id}
OnSeat(facts, id) == {a \in facts : a.position = id}
OnEmployment(facts, id) == {a \in facts : a.employment = id}

Written(r) == tx[r].phase = "written"
Timed(r) == tx[r].phase \in {"timed", "written"}

\* Facts are open, recorded in the past, and every employment is of a converted person.
FactsTyped ==
  /\ IsFiniteSet(employment) /\ IsFiniteSet(assignment)
  /\ \A e \in employment :
       /\ e.from \in Days /\ e.to \in Cursors /\ e.from < e.to
       /\ e.since \in Times /\ e.since <= now /\ e.until = Forever
       /\ e.person \in Persons
       /\ \E c \in conversion : c.person = e.person
  /\ \A a \in assignment :
       /\ a.from \in Days /\ a.to = Forever
       /\ a.since \in Times /\ a.since <= now /\ a.until = Forever
       /\ a.ratio \in 1..One
  /\ \A p \in position : p.since \in Times /\ p.since <= now /\ p.until = Forever

\* An identity in use was brought by the write that is committed with it.
IdentitiesUsedOnce ==
  /\ \A e \in employment :
       /\ e.employment \in Requests => e.employment \in audited
       /\ \A r \in Hires :
            e.employment = Command[r].employment => e.person = Command[r].person
       /\ \A f \in employment : e.employment = f.employment /\ Overlaps(e, f) => e = f
  /\ \A p \in position : p.position \in Requests => p.position \in audited
  /\ \A a, b \in assignment : a.assignment \in audited /\ (a.assignment = b.assignment => a = b)

ExclusiveAlways ==
  \A known \in Times, p \in Persons : Exclusive(EmploymentsOf(p), known)

StaffedAlways ==
  \A a \in assignment, known \in Times :
    KnownAt(a, known) =>
      /\ EmploymentCovers(a, VersionsOf(a.employment), known)
      /\ PositionCovers(a, SeatVersionsOf(a.position), known)

AllocatedAlways ==
  \A known \in Times, day \in Days, a \in assignment :
    /\ WithinOne(OnSeat(assignment, a.position), day, known)
    /\ WithinOne(OnEmployment(assignment, a.employment), day, known)

\* The instants a request has read are past.
ClockRead(r) == tx[r].began <= now /\ tx[r].recorded <= now

\* The row lock on the conversion of a person has one holder.
PersonLocked(r) ==
  HoldsPerson(r) =>
    /\ \E c \in conversion : c.person = Command[r].person
    /\ \A q \in Others(r) : HoldsPerson(q) => Command[q].person # Command[r].person

\* So has the row lock on a position.
PositionLocked(r) ==
  HoldsPosition(r) =>
    \A q \in Others(r) : HoldsPosition(q) => Command[q].position # Command[r].position

\* A hire about to commit is the first of its candidate and person.
HireFirst(r) ==
  Route(r) = "candidate-worker-conversions" /\ Written(r) =>
    /\ \A c \in conversion : ~SameWorker(Command[r], c)
    /\ \A q \in Others(r) : Route(q) = Route(r) /\ Written(q) => ~SameWorker(Command[q], Command[r])

\* The clock a locked command reads is past everything it decides on, which still
\* is all there is of the person when it commits.
EmploymentDecided(r) ==
  /\ HoldsPerson(r) /\ Timed(r) =>
       \A e \in EmploymentsOf(Command[r].person) : e.since <= tx[r].recorded
  /\ Route(r) = "employment-records" /\ Written(r) =>
       Exclusive(EmploymentsOf(Command[r].person) \cup {NewEmployment(r)}, tx[r].recorded)

\* What an assignment command has found of its employment and its seat is all there
\* ever is of them.
AssignmentDecided(r) ==
  /\ tx[r].employments # {} => tx[r].employments = VersionsOf(Command[r].employment)
  /\ tx[r].positions # {} => tx[r].positions = SeatVersionsOf(Command[r].position)
  /\ Route(r) = "assignment-records" /\ Timed(r) =>
       \A fact \in tx[r].employments \cup tx[r].positions : fact.since <= tx[r].recorded
  /\ Route(r) = "assignment-records" /\ Written(r) =>
       /\ EmploymentCovers(NewAssignment(r), tx[r].employments, tx[r].recorded)
       /\ PositionCovers(NewAssignment(r), tx[r].positions, tx[r].recorded)

\* The assignments _ASSIGNMENT_FACTS_SQL reads for a command, with the new one.
Considered(r) ==
  {a \in assignment : \/ a.employment = Command[r].employment
                      \/ a.position = Command[r].position} \cup {NewAssignment(r)}

\* The portfolio and the seat of a new assignment are as full when it commits as they
\* were when it was decided.
PortfolioDecided(r) ==
  Route(r) = "assignment-records" =>
    /\ Timed(r) =>
         \A a \in assignment :
           \/ a.person = Command[r].person
           \/ tx[r].positions # {} /\ a.position = Command[r].position
           => a.since <= tx[r].recorded
    /\ Written(r) =>
         \A day \in ProbeDays(Considered(r), NewAssignment(r)) :
           /\ WithinOne({a \in Considered(r) : /\ a.person = Command[r].person
                                               /\ a.employment = Command[r].employment},
                        day, tx[r].recorded)
           /\ WithinOne(OnSeat(Considered(r), Command[r].position), day, tx[r].recorded)

RequestInv(r) ==
  /\ ClockRead(r) /\ PersonLocked(r) /\ PositionLocked(r) /\ HireFirst(r)
  /\ EmploymentDecided(r) /\ AssignmentDecided(r) /\ PortfolioDecided(r)

FactsInv ==
  FactsTyped /\ IdentitiesUsedOnce /\ ExclusiveAlways /\ StaffedAlways /\ AllocatedAlways

HistoryInv == KeyInv /\ FactsInv /\ \A r \in Requests : RequestInv(r)

------------------------------------------------------------------------------
(* The rules at later cutoffs *)

\* The instants are numbers before the end of time.
LEMMA TimesOrdered == \A t \in Times : t \in Nat /\ t < Forever
  BY ClockAssumption, DayAssumption DEF Times

\* A fact that is open is known from the instant it was recorded on.
LEMMA KnownFromThenOn ==
  ASSUME NEW fact, NEW t \in Times, NEW known \in Times, t <= known,
         fact.since \in Times, fact.since <= t, fact.until = Forever
  PROVE  KnownAt(fact, t) /\ KnownAt(fact, known)
  BY TimesOrdered DEF KnownAt

\* A cover that was found when all of it was known stays one.
LEMMA CoversFromThenOn ==
  ASSUME NEW a, NEW versions, NEW t \in Times, NEW known \in Times, t <= known,
         \A v \in versions : v.since \in Times /\ v.since <= t /\ v.until = Forever
  PROVE  /\ EmploymentCovers(a, versions, t) => EmploymentCovers(a, versions, known)
         /\ PositionCovers(a, versions, t) => PositionCovers(a, versions, known)
  <1>1. \A v \in versions : KnownAt(v, t) /\ KnownAt(v, known)
    BY KnownFromThenOn
  <1>2. {v \in versions : KnownAt(v, t) /\ Overlaps(v, a)}
          = {v \in versions : KnownAt(v, known) /\ Overlaps(v, a)}
    BY <1>1
  <1>3. {v \in versions : KnownAt(v, t) /\ v.status \in {"active", "open"}}
          = {v \in versions : KnownAt(v, known) /\ v.status \in {"active", "open"}}
    BY <1>1
  <1>4. EmploymentCovers(a, versions, t) => EmploymentCovers(a, versions, known)
    BY <1>2 DEF EmploymentCovers
  <1>5. PositionCovers(a, versions, t) => PositionCovers(a, versions, known)
    BY <1>3 DEF PositionCovers
  <1>6. QED
    BY <1>4, <1>5

\* No facts cover no period.
LEMMA NothingCovers ==
  ASSUME NEW target, target.from \in Days, target.to = Forever
  PROVE  ~UnionCovers({}, target)
  <1>1. target.to \in Cursors /\ Contains(target, target.from)
    BY CursorsOrdered DEF Contains
  <1>2. QED
    BY <1>1, UnionCoversDays

------------------------------------------------------------------------------
(* Statements before the commit *)

\* SameWorker is symmetric.
LEMMA SameWorkerBack ==
  \A c, d : SameWorker(c, d) <=> SameWorker(d, c)
  BY DEF SameWorker

\* While nothing is committed, what one request relies on is disturbed by another only
\* through the locks they share.
LEMMA RequestStep ==
  ASSUME HistoryInv, KeyInv', NEW r \in Requests, UNCHANGED <<tables, now>>,
         \A q \in Others(r) : tx'[q] = tx[q], RequestInv(r)'
  PROVE  HistoryInv'
  <1>1. /\ conversion' = conversion /\ employment' = employment /\ position' = position
        /\ assignment' = assignment /\ audited' = audited /\ now' = now
    BY DEF tables
  <1>2. FactsInv'
    BY <1>1 DEF HistoryInv, FactsInv, FactsTyped, IdentitiesUsedOnce, ExclusiveAlways,
       StaffedAlways, AllocatedAlways, EmploymentsOf, VersionsOf, SeatVersionsOf, OnSeat,
       OnEmployment
  <1>3. ASSUME NEW q \in Others(r)
        PROVE  RequestInv(q)'
    <2>1. q \in Requests /\ tx'[q] = tx[q] /\ RequestInv(q) /\ r \in Others(q)
      BY <1>3 DEF Others, HistoryInv
    <2>2. /\ HoldsPerson(q)' <=> HoldsPerson(q)
          /\ Written(q)' <=> Written(q)
          /\ Timed(q)' <=> Timed(q)
          /\ HoldsPosition(q)' <=> HoldsPosition(q)
      BY <2>1 DEF HoldsPerson, Written, Timed, HoldsPosition
    <2>3. ClockRead(q)'
      BY <1>1, <2>1 DEF RequestInv, ClockRead
    <2>4. PersonLocked(q)'
      <3> SUFFICES ASSUME HoldsPerson(q)'
                   PROVE  /\ \E c \in conversion : c.person = Command[q].person
                          /\ \A p \in Others(q) :
                               HoldsPerson(p)' => Command[p].person # Command[q].person
        BY <1>1 DEF PersonLocked, Others
      <3>1. ASSUME NEW p \in Others(q), HoldsPerson(p)'
            PROVE  Command[p].person # Command[q].person
        <4>1. CASE p = r
          BY <1>3, <3>1, <4>1 DEF RequestInv, PersonLocked, Others
        <4>2. CASE p # r
          <5>1. p \in Others(r) /\ HoldsPerson(p)
            BY <3>1, <4>2 DEF Others, HoldsPerson
          <5>2. QED
            BY <2>1, <2>2, <3>1, <5>1 DEF RequestInv, PersonLocked
        <4>3. QED
          BY <4>1, <4>2
      <3>2. QED
        BY <2>1, <2>2, <3>1 DEF RequestInv, PersonLocked
    <2>5. HireFirst(q)'
      <3> SUFFICES ASSUME Route(q) = "candidate-worker-conversions", Written(q)'
                   PROVE  /\ \A c \in conversion : ~SameWorker(Command[q], c)
                          /\ \A p \in Others(q) : Route(p) = Route(q) /\ Written(p)' =>
                               ~SameWorker(Command[p], Command[q])
        BY <1>1 DEF HireFirst, Others, Route, SameWorker
      <3>1. ASSUME NEW p \in Others(q), Route(p) = Route(q), Written(p)'
            PROVE  ~SameWorker(Command[p], Command[q])
        <4>1. CASE p = r
          BY <1>3, <3>1, <4>1, SameWorkerBack DEF RequestInv, HireFirst, Others, Route, SameWorker
        <4>2. CASE p # r
          <5>1. p \in Others(r) /\ Written(p)
            BY <3>1, <4>2 DEF Others, Written
          <5>2. QED
            BY <2>1, <2>2, <3>1, <5>1 DEF RequestInv, HireFirst
        <4>3. QED
          BY <4>1, <4>2
      <3>2. QED
        BY <2>1, <2>2, <3>1 DEF RequestInv, HireFirst
    <2>6. EmploymentDecided(q)'
      BY <1>1, <2>1, <2>2 DEF RequestInv, EmploymentDecided, EmploymentsOf, NewEmployment, Route
    <2>7. AssignmentDecided(q)'
      BY <1>1, <2>1, <2>2
         DEF RequestInv, AssignmentDecided, VersionsOf, SeatVersionsOf, NewAssignment, Route
    <2>8. PositionLocked(q)'
      <3> SUFFICES ASSUME HoldsPosition(q)'
                   PROVE  \A p \in Others(q) :
                            HoldsPosition(p)' => Command[p].position # Command[q].position
        BY DEF PositionLocked, Others
      <3>1. ASSUME NEW p \in Others(q), HoldsPosition(p)'
            PROVE  Command[p].position # Command[q].position
        <4>1. CASE p = r
          BY <1>3, <3>1, <4>1 DEF RequestInv, PositionLocked, Others
        <4>2. CASE p # r
          <5>1. p \in Others(r) /\ HoldsPosition(p)
            BY <3>1, <4>2 DEF Others, HoldsPosition
          <5>2. QED
            BY <2>1, <2>2, <3>1, <5>1 DEF RequestInv, PositionLocked
        <4>3. QED
          BY <4>1, <4>2
      <3>2. QED
        BY <3>1
    <2>9. PortfolioDecided(q)'
      <3>1. NewAssignment(q)' = NewAssignment(q)
        BY <2>1 DEF NewAssignment
      <3>2. Considered(q)' = Considered(q)
        BY <1>1, <3>1 DEF Considered
      <3>3. QED
        BY <1>1, <2>1, <2>2, <3>1, <3>2 DEF RequestInv, PortfolioDecided, Route, OnSeat
    <2>10. QED
      BY <2>3, <2>4, <2>5, <2>6, <2>7, <2>8, <2>9 DEF RequestInv
  <1>4. QED
    BY <1>2, <1>3 DEF HistoryInv, Others

\* A request that holds nothing, or nothing any more, relies on nothing.
LEMMA NothingHeld ==
  ASSUME HistoryInv, NEW r \in Requests, UNCHANGED <<tables, now>>,
         tx'[r].phase \in {"open", "keyed", "fresh", "done"},
         tx'[r].began <= now, tx'[r].recorded = tx[r].recorded,
         tx'[r].employments = tx[r].employments, tx'[r].positions = tx[r].positions
  PROVE  RequestInv(r)'
  <1>1. /\ ~HoldsPerson(r)' /\ ~HoldsPosition(r)' /\ ~Written(r)' /\ ~Timed(r)'
        /\ employment' = employment /\ position' = position /\ now' = now
    BY DEF HoldsPerson, HoldsPosition, Written, Timed, tables
  <1>2. RequestInv(r)
    BY DEF HistoryInv
  <1>3. ClockRead(r)' /\ AssignmentDecided(r)'
    BY <1>1, <1>2 DEF RequestInv, ClockRead, AssignmentDecided, VersionsOf, SeatVersionsOf
  <1>4. QED
    BY <1>1, <1>3 DEF RequestInv, PersonLocked, PositionLocked, HireFirst, EmploymentDecided,
       PortfolioDecided

\* What a transaction holds when a statement of it begins.
LEMMA TransactionHolds ==
  ASSUME HistoryInv, NEW r \in Requests
  PROVE  /\ RequestInv(r)
         /\ tx \in [Requests -> Transaction] /\ tx[r] \in Transaction
         /\ tx[r].began <= now /\ tx[r].recorded <= now /\ now \in Nat
         /\ tx[r].employments \subseteq employment /\ tx[r].positions \subseteq position
  <1>1. now \in Nat
    BY TimesOrdered DEF HistoryInv, KeyInv, Shape
  <1>2. RequestInv(r)
    BY DEF HistoryInv
  <1>3. QED
    BY <1>1, <1>2 DEF HistoryInv, KeyInv, Shape, Transaction, RequestInv, ClockRead

\* A request that goes on under the locks it has keeps them.
LEMMA LocksKept ==
  ASSUME HistoryInv, NEW r \in Requests, UNCHANGED <<tables, now>>,
         \A q \in Others(r) : tx'[q] = tx[q],
         HoldsPerson(r)' => HoldsPerson(r),
         Written(r)' => Route(r) # "candidate-worker-conversions"
  PROVE  /\ PersonLocked(r)' /\ HireFirst(r)'
         /\ (HoldsPosition(r)' => HoldsPosition(r)) => PositionLocked(r)'
  <1>1. RequestInv(r) /\ conversion' = conversion
    BY TransactionHolds DEF tables
  <1>2. \A q \in Others(r) : /\ HoldsPerson(q)' <=> HoldsPerson(q)
                             /\ HoldsPosition(q)' <=> HoldsPosition(q)
    BY DEF HoldsPerson, HoldsPosition
  <1>3. PersonLocked(r)'
    BY <1>1, <1>2 DEF RequestInv, PersonLocked, Others
  <1>4. HireFirst(r)'
    BY DEF HireFirst, Route
  <1>5. (HoldsPosition(r)' => HoldsPosition(r)) => PositionLocked(r)'
    BY <1>1, <1>2 DEF RequestInv, PositionLocked, Others
  <1>6. QED
    BY <1>3, <1>4, <1>5

\* A statement before the commit changes only what its own request relies on.
LEMMA StatementKeepsRequest ==
  ASSUME HistoryInv, NEW r \in Requests, Statement(r) \/ Abort(r), ~Commit(r)
  PROVE  /\ UNCHANGED <<tables, now>>
         /\ \A q \in Others(r) : tx'[q] = tx[q]
         /\ RequestInv(r)'
  <1>1. /\ RequestInv(r)
        /\ tx \in [Requests -> Transaction] /\ tx[r] \in Transaction
        /\ tx[r].began <= now /\ tx[r].recorded <= now /\ now \in Nat
        /\ tx[r].employments \subseteq employment /\ tx[r].positions \subseteq position
    BY TransactionHolds
  <1>2. ASSUME NEW answer, Finish(r, answer)
        PROVE  /\ UNCHANGED <<tables, now>>
               /\ \A q \in Others(r) : tx'[q] = tx[q]
               /\ RequestInv(r)'
    <2>1. tx' = [tx EXCEPT ![r].phase = "done"] /\ UNCHANGED <<tables, now>>
      BY <1>2 DEF Finish, Move
    <2>2. /\ tx'[r].phase = "done" /\ tx'[r].began <= now /\ tx'[r].recorded = tx[r].recorded
          /\ tx'[r].employments = tx[r].employments /\ tx'[r].positions = tx[r].positions
          /\ \A q \in Others(r) : tx'[q] = tx[q]
      BY <1>1, <2>1 DEF Transaction, Others
    <2>3. QED
      BY <2>1, <2>2, NothingHeld
  <1>3. CASE Begin(r) \/ LockKey(r) \/ (ReadKey(r) /\ Bound(r) = {})
    <2>1. UNCHANGED <<tables, now>>
      BY <1>3 DEF Begin, LockKey, ReadKey
    <2>2. /\ tx'[r].phase \in {"open", "keyed", "fresh"}
          /\ tx'[r].began <= now /\ tx'[r].recorded = tx[r].recorded
          /\ tx'[r].employments = tx[r].employments /\ tx'[r].positions = tx[r].positions
          /\ \A q \in Others(r) : tx'[q] = tx[q]
      <3>1. CASE Begin(r)
        BY <1>1, <3>1 DEF Begin, Transaction, Others
      <3>2. CASE LockKey(r)
        BY <1>1, <3>2 DEF LockKey, Move, Transaction, Others
      <3>3. CASE ReadKey(r) /\ Bound(r) = {}
        BY <1>1, <3>3 DEF ReadKey, Move, Transaction, Others
      <3>4. QED
        BY <1>3, <3>1, <3>2, <3>3
    <2>3. QED
      BY <2>1, <2>2, NothingHeld
  <1>4. CASE (ReadKey(r) /\ Bound(r) # {}) \/ Abort(r)
    BY <1>2, <1>4 DEF ReadKey, Abort
  <1>5. CASE Hire(r) \/ WritePosition(r)
    <2>1. CASE \E answer : Finish(r, answer)
      BY <1>2, <2>1
    <2>2. CASE /\ tx' = [tx EXCEPT ![r].phase = "written", ![r].recorded = tx[r].began]
               /\ UNCHANGED <<tables, now, reply>>
      <3>1. /\ tx'[r].phase = "written" /\ tx'[r].recorded = tx[r].began
            /\ tx'[r].began = tx[r].began
            /\ tx'[r].employments = tx[r].employments /\ tx'[r].positions = tx[r].positions
            /\ \A q \in Others(r) : tx'[q] = tx[q]
        BY <1>1, <2>2 DEF Transaction, Others
      <3>2. conversion' = conversion /\ employment' = employment /\ position' = position /\ now' = now
        BY <2>2 DEF tables
      <3>3. Route(r) \in {"candidate-worker-conversions", "position-records"}
        BY <1>5 DEF Hire, WritePosition
      <3>4. /\ ClockRead(r)' /\ PersonLocked(r)' /\ PositionLocked(r)'
            /\ EmploymentDecided(r)' /\ PortfolioDecided(r)'
        BY <1>1, <3>1, <3>2, <3>3
           DEF ClockRead, PersonLocked, PositionLocked, EmploymentDecided, PortfolioDecided,
               HoldsPerson, HoldsPosition, Route
      <3>5. AssignmentDecided(r)'
        BY <1>1, <3>1, <3>2, <3>3
           DEF RequestInv, AssignmentDecided, VersionsOf, SeatVersionsOf, Route
      <3>6. HireFirst(r)'
        <4>1. Hire(r) => /\ \A c \in conversion : ~SameWorker(Command[r], c)
                         /\ \A q \in Others(r) :
                              Route(q) = Route(r) /\ tx[q].phase = "written" =>
                                ~SameWorker(Command[q], Command[r])
          <5>1. ASSUME Hire(r)
                PROVE  /\ \A c \in conversion : ~SameWorker(Command[r], c)
                       /\ \A q \in Others(r) :
                            Route(q) = Route(r) /\ tx[q].phase = "written" =>
                              ~SameWorker(Command[q], Command[r])
            <6>1. \A answer : ~Finish(r, answer)
              BY <1>1, <3>1 DEF Finish, Move, Transaction
            <6>2. QED
              BY <5>1, <6>1 DEF Hire
          <5>2. QED
            BY <5>1
        <4>2. Route(r) = "candidate-worker-conversions" => Hire(r)
          BY <1>5 DEF WritePosition
        <4>3. QED
          BY <3>1, <3>2, <4>1, <4>2 DEF HireFirst, Written, Others, Route, SameWorker
      <3>7. QED
        BY <2>2, <3>1, <3>4, <3>5, <3>6 DEF RequestInv
    <2>3. QED
      BY <1>5, <2>1, <2>2 DEF Hire, WritePosition
  <1>6. CASE LockConversion(r)
    <2>1. CASE \E answer : Finish(r, answer)
      BY <1>2, <2>1
    <2>2. CASE ~ \E answer : Finish(r, answer)
      <3>1. /\ \E c \in conversion : c.person = Command[r].person
            /\ Move(r, IF Route(r) = "employment-records" THEN "locked" ELSE "person")
            /\ UNCHANGED <<tables, now, reply>>
        BY <1>6, <2>2 DEF LockConversion
      <3>2. /\ tx'[r].phase \in {"locked", "person"} /\ tx'[r].recorded = tx[r].recorded
            /\ tx'[r].began = tx[r].began
            /\ tx'[r].employments = tx[r].employments /\ tx'[r].positions = tx[r].positions
            /\ \A q \in Others(r) : tx'[q] = tx[q]
        BY <1>1, <3>1 DEF Move, Transaction, Others
      <3>3. conversion' = conversion /\ employment' = employment /\ position' = position /\ now' = now
        BY <3>1 DEF tables
      <3>4. ClockRead(r)' /\ HireFirst(r)' /\ EmploymentDecided(r)' /\ PortfolioDecided(r)'
        BY <1>1, <3>2, <3>3
           DEF ClockRead, HireFirst, EmploymentDecided, PortfolioDecided, Written, Timed
      <3>5. AssignmentDecided(r)'
        BY <1>1, <3>2, <3>3
           DEF RequestInv, AssignmentDecided, VersionsOf, SeatVersionsOf, Written, Timed
      <3>6. PersonLocked(r)'
        <4>1. \A q \in Others(r) : HoldsPerson(q)' => Command[q].person # Command[r].person
          BY <1>6, <3>2 DEF LockConversion, HoldsPerson
        <4>2. QED
          BY <3>1, <3>3, <4>1 DEF PersonLocked, Others
      <3>7. ~HoldsPosition(r)'
        <4>1. Route(r) = "employment-records" \/ tx'[r].phase = "person"
          BY <1>1, <1>6, <3>1 DEF LockConversion, Move
        <4>2. QED
          BY <3>2, <4>1 DEF HoldsPosition, Route
      <3>8. QED
        BY <3>1, <3>2, <3>4, <3>5, <3>6, <3>7 DEF RequestInv, PositionLocked
    <2>3. QED
      BY <2>1, <2>2
  <1>7. CASE ReadEmployment(r) \/ LockPosition(r) \/ ReadClock(r)
    <2>1. /\ UNCHANGED <<tables, now>>
          /\ conversion' = conversion /\ employment' = employment /\ position' = position
          /\ now' = now
      BY <1>7 DEF ReadEmployment, LockPosition, ReadClock, tables
    <2>2. /\ tx[r].phase \in {"person", "employed", "locked"}
          /\ tx'[r].phase \in {"employed", "locked", "timed"}
          /\ tx'[r].began = tx[r].began /\ tx'[r].recorded \in {tx[r].recorded, now}
          /\ tx'[r].phase = "timed" => tx'[r].recorded = now
          /\ tx'[r].employments \in {tx[r].employments, VersionsOf(Command[r].employment)}
          /\ tx'[r].positions \in {tx[r].positions, SeatVersionsOf(Command[r].position)}
          /\ \A q \in Others(r) : tx'[q] = tx[q]
      <3>1. CASE ReadEmployment(r)
        BY <1>1, <3>1 DEF ReadEmployment, Transaction, Others, VersionsOf
      <3>2. CASE LockPosition(r)
        BY <1>1, <3>2 DEF LockPosition, Transaction, Others, SeatVersionsOf
      <3>3. CASE ReadClock(r)
        BY <1>1, <3>3 DEF ReadClock, Transaction, Others
      <3>4. QED
        BY <1>7, <3>1, <3>2, <3>3
    <2>3. ClockRead(r)'
      BY <1>1, <2>1, <2>2 DEF ClockRead
    <2>4. /\ PersonLocked(r)' /\ HireFirst(r)'
          /\ (HoldsPosition(r)' => HoldsPosition(r)) => PositionLocked(r)'
      <3>1. (HoldsPerson(r)' => HoldsPerson(r)) /\ ~Written(r)'
        BY <2>2 DEF HoldsPerson, Written
      <3>2. QED
        BY <2>1, <2>2, <3>1, LocksKept
    <2>5. EmploymentDecided(r)'
      BY <2>1, <2>2
         DEF HistoryInv, FactsInv, FactsTyped, EmploymentDecided, EmploymentsOf, Written, Timed
    <2>6. AssignmentDecided(r)'
      <3>1. /\ tx'[r].employments \subseteq employment /\ tx'[r].positions \subseteq position
        BY <1>1, <2>2 DEF VersionsOf, SeatVersionsOf
      <3>2. \A fact \in employment \cup position : fact.since <= now
        BY DEF HistoryInv, FactsInv, FactsTyped
      <3>3. Timed(r)' => \A fact \in tx'[r].employments \cup tx'[r].positions :
                           fact.since <= tx'[r].recorded
        BY <2>2, <3>1, <3>2 DEF Timed
      <3>4. /\ tx'[r].employments # {} => tx'[r].employments = VersionsOf(Command[r].employment)
            /\ tx'[r].positions # {} => tx'[r].positions = SeatVersionsOf(Command[r].position)
        BY <1>1, <2>2 DEF RequestInv, AssignmentDecided
      <3>5. QED
        BY <2>1, <2>2, <3>3, <3>4 DEF AssignmentDecided, VersionsOf, SeatVersionsOf, Written
    <2>7. PositionLocked(r)'
      <3>1. CASE LockPosition(r)
        <4>1. \A q \in Others(r) : HoldsPosition(q)' => Command[q].position # Command[r].position
          BY <2>2, <3>1 DEF LockPosition, HoldsPosition
        <4>2. QED
          BY <4>1 DEF PositionLocked, Others
      <3>2. CASE ReadEmployment(r)
        <4>1. ~HoldsPosition(r)'
          BY <1>1, <3>2 DEF ReadEmployment, HoldsPosition, Transaction
        <4>2. QED
          BY <4>1 DEF PositionLocked
      <3>3. CASE ReadClock(r)
        <4>1. tx[r].phase = "locked" /\ tx'[r].positions = tx[r].positions
          BY <1>1, <3>3 DEF ReadClock, Transaction
        <4>2. HoldsPosition(r)' => HoldsPosition(r)
          BY <4>1 DEF HoldsPosition, Route
        <4>3. QED
          BY <2>4, <4>2
      <3>4. QED
        BY <1>7, <3>1, <3>2, <3>3
    <2>8. PortfolioDecided(r)'
      <3>1. ~Written(r)' /\ (Timed(r)' => tx'[r].recorded = now) /\ assignment' = assignment
        BY <2>1, <2>2 DEF Written, Timed, tables
      <3>2. \A a \in assignment : a.since <= now
        BY DEF HistoryInv, FactsInv, FactsTyped
      <3>3. QED
        BY <3>1, <3>2 DEF PortfolioDecided
    <2>9. QED
      BY <2>1, <2>2, <2>3, <2>4, <2>5, <2>6, <2>7, <2>8 DEF RequestInv
  <1>8. CASE WriteEmployment(r) \/ WriteAssignment(r)
    <2>1. CASE \E answer : Finish(r, answer)
      BY <1>2, <2>1
    <2>2. CASE ~ \E answer : Finish(r, answer)
      <3>1. /\ tx[r].phase = "timed" /\ Move(r, "written") /\ UNCHANGED <<tables, now, reply>>
            /\ \/ /\ Route(r) = "employment-records"
                  /\ Exclusive(EmploymentsOf(Command[r].person) \cup {NewEmployment(r)},
                               tx[r].recorded)
               \/ /\ Route(r) = "assignment-records"
                  /\ AssignmentPermitted(NewAssignment(r), Considered(r), tx[r].employments,
                                         tx[r].positions, tx[r].recorded)
        BY <1>8, <2>2 DEF WriteEmployment, WriteAssignment, Considered, EmploymentsOf
      <3>2. /\ tx'[r].phase = "written" /\ tx'[r].recorded = tx[r].recorded
            /\ tx'[r].began = tx[r].began
            /\ tx'[r].employments = tx[r].employments /\ tx'[r].positions = tx[r].positions
            /\ \A q \in Others(r) : tx'[q] = tx[q]
        BY <1>1, <3>1 DEF Move, Transaction, Others
      <3>3. conversion' = conversion /\ employment' = employment /\ position' = position /\ now' = now
        BY <3>1 DEF tables
      <3>4. ClockRead(r)'
        BY <1>1, <3>2, <3>3 DEF ClockRead
      <3>5. HoldsPerson(r) /\ Timed(r) /\ Timed(r)' /\ (HoldsPosition(r)' => HoldsPosition(r))
        BY <3>1, <3>2 DEF HoldsPerson, HoldsPosition, Timed
      <3>6. PersonLocked(r)' /\ HireFirst(r)' /\ PositionLocked(r)'
        BY <3>1, <3>2, <3>5, LocksKept
      <3>7. NewEmployment(r)' = NewEmployment(r) /\ NewAssignment(r)' = NewAssignment(r)
        BY <3>2 DEF NewEmployment, NewAssignment, Route
      <3>8. EmploymentDecided(r)'
        BY <1>1, <3>1, <3>2, <3>3, <3>5, <3>7 DEF RequestInv, EmploymentDecided, EmploymentsOf, Route
      <3>9. AssignmentDecided(r)'
        BY <1>1, <3>1, <3>2, <3>3, <3>5, <3>7
           DEF RequestInv, AssignmentDecided, VersionsOf, SeatVersionsOf, Route, AssignmentPermitted
      <3>10. PortfolioDecided(r)'
        <4>1. assignment' = assignment /\ Considered(r)' = Considered(r)
          BY <3>1, <3>7 DEF tables, Considered
        <4>2. /\ NewAssignment(r).person = Command[r].person
              /\ NewAssignment(r).employment = Command[r].employment
              /\ NewAssignment(r).position = Command[r].position
          BY DEF NewAssignment
        <4>3. Route(r) = "assignment-records" =>
                \A day \in ProbeDays(Considered(r), NewAssignment(r)) :
                  /\ WithinOne({a \in Considered(r) : /\ a.person = Command[r].person
                                                      /\ a.employment = Command[r].employment},
                               day, tx[r].recorded)
                  /\ WithinOne(OnSeat(Considered(r), Command[r].position), day, tx[r].recorded)
          BY <3>1, <4>2 DEF AssignmentPermitted, OnSeat
        <4>4. Route(r) = "assignment-records" =>
                \A a \in assignment :
                  \/ a.person = Command[r].person
                  \/ tx[r].positions # {} /\ a.position = Command[r].position
                  => a.since <= tx[r].recorded
          BY <1>1, <3>5 DEF RequestInv, PortfolioDecided
        <4>5. QED
          BY <3>2, <3>7, <4>1, <4>3, <4>4 DEF PortfolioDecided, Route, OnSeat
      <3>11. QED
        BY <3>1, <3>2, <3>4, <3>6, <3>8, <3>9, <3>10 DEF RequestInv
    <2>3. QED
      BY <2>1, <2>2
  <1>9. QED
    BY <1>3, <1>4, <1>5, <1>6, <1>7, <1>8 DEF Statement

------------------------------------------------------------------------------
(* The commit *)

\* What a transaction adds to the facts when it commits.
LEMMA CommitAdds ==
  ASSUME HistoryInv, NEW r \in Requests, Commit(r)
  PROVE  /\ Written(r) /\ now' = now /\ audited' = audited \cup {r}
         /\ tx'[r] = [tx[r] EXCEPT !.phase = "done"] /\ \A q \in Others(r) : tx'[q] = tx[q]
         /\ tx[r].recorded \in Times /\ tx[r].recorded <= now /\ r \notin audited
  BY TransactionHolds DEF Commit, Store, Move, Others, Written, Transaction, HistoryInv, KeyInv, RepliesTrue

\* The identity of a new employment is of no employment there is: it was allocated for
\* the request, or its person was never hired.
LEMMA FreshEmployment ==
  ASSUME HistoryInv, NEW r \in Requests, Written(r), r \notin audited,
         Route(r) \in {"candidate-worker-conversions", "employment-records"}
  PROVE  \A e \in employment : e.employment # NewEmployment(r).employment
  <1> SUFFICES ASSUME NEW e \in employment, e.employment = NewEmployment(r).employment
               PROVE  FALSE
    OBVIOUS
  <1>1. CASE Route(r) = "employment-records"
    BY <1>1 DEF NewEmployment, HistoryInv, FactsInv, IdentitiesUsedOnce
  <1>2. CASE Route(r) = "candidate-worker-conversions"
    <2>1. r \in Hires /\ e.employment = Command[r].employment
      BY <1>2 DEF NewEmployment, Hires, Route
    <2>2. e.person = Command[r].person /\ \E c \in conversion : c.person = e.person
      BY <2>1 DEF HistoryInv, FactsInv, IdentitiesUsedOnce, FactsTyped
    <2>3. RequestInv(r)
      BY DEF HistoryInv
    <2>4. QED
      BY <1>2, <2>2, <2>3 DEF RequestInv, HireFirst, SameWorker
  <1>3. QED
    BY <1>1, <1>2

\* Whoever holds the lock of a person, nobody else commits an employment or an
\* assignment of that person.
LEMMA PersonUntouched ==
  ASSUME HistoryInv, NEW r \in Requests, Written(r), NEW q \in Others(r), HoldsPerson(q),
         Route(r) # "position-records"
  PROVE  Command[r].person # Command[q].person
  <1>1. q \in Requests /\ r \in Others(q) /\ RequestInv(q) /\ RequestInv(r)
    BY DEF Others, HistoryInv
  <1>2. CASE Route(r) \in {"employment-records", "assignment-records"}
    <2>1. HoldsPerson(r)
      BY <1>2 DEF Written, HoldsPerson
    <2>2. QED
      BY <1>1, <2>1 DEF RequestInv, PersonLocked
  <1>3. CASE Route(r) = "candidate-worker-conversions"
    BY <1>1, <1>3 DEF RequestInv, PersonLocked, HireFirst, SameWorker
  <1>4. QED
    BY <1>2, <1>3, CommandAssumption DEF Route, Routes

\* An employment or seat that has a version gets no other one.
LEMMA VersionsStay ==
  ASSUME HistoryInv, NEW r \in Requests, Commit(r)
  PROVE  /\ \A id : VersionsOf(id) # {} => VersionsOf(id)' = VersionsOf(id)
         /\ \A id : SeatVersionsOf(id) # {} => SeatVersionsOf(id)' = SeatVersionsOf(id)
  <1>1. Written(r) /\ r \notin audited
    BY CommitAdds
  <1>2. \A id : VersionsOf(id) # {} => VersionsOf(id)' = VersionsOf(id)
    <2>1. CASE Route(r) \in {"candidate-worker-conversions", "employment-records"}
      <3>1. employment' = employment \cup {NewEmployment(r)}
        BY <2>1 DEF Commit, Store
      <3>2. QED
        BY <1>1, <2>1, <3>1, FreshEmployment DEF VersionsOf
    <2>2. CASE Route(r) \notin {"candidate-worker-conversions", "employment-records"}
      <3>1. employment' = employment
        BY <2>2 DEF Commit, Store
      <3>2. QED
        BY <3>1 DEF VersionsOf
    <2>3. QED
      BY <2>1, <2>2
  <1>3. \A id : SeatVersionsOf(id) # {} => SeatVersionsOf(id)' = SeatVersionsOf(id)
    <2>1. CASE Route(r) = "position-records"
      <3>1. position' = position \cup {NewPosition(r)} /\ NewPosition(r).position = r
        BY <2>1 DEF Commit, Store, NewPosition
      <3>2. \A p \in position : p.position # r
        BY <1>1 DEF HistoryInv, FactsInv, IdentitiesUsedOnce
      <3>3. QED
        BY <3>1, <3>2 DEF SeatVersionsOf
    <2>2. CASE Route(r) # "position-records"
      <3>1. position' = position
        BY <2>2 DEF Commit, Store
      <3>2. QED
        BY <3>1 DEF SeatVersionsOf
    <2>3. QED
      BY <2>1, <2>2
  <1>4. QED
    BY <1>2, <1>3

\* The new rows are shaped like the old ones and bring their own identities.
LEMMA CommitKeepsFacts ==
  ASSUME HistoryInv, NEW r \in Requests, Commit(r)
  PROVE  FactsTyped' /\ IdentitiesUsedOnce'
  <1>1. /\ Written(r) /\ now' = now /\ audited' = audited \cup {r} /\ r \notin audited
        /\ tx[r].recorded \in Times /\ tx[r].recorded <= now
    BY CommitAdds
  <1>2. /\ employment' \subseteq employment \cup {NewEmployment(r)}
        /\ Route(r) \notin {"candidate-worker-conversions", "employment-records"} =>
             employment' = employment
        /\ position' \subseteq position \cup {NewPosition(r)}
        /\ assignment' \subseteq assignment \cup {NewAssignment(r)}
        /\ Route(r) # "assignment-records" => assignment' = assignment
        /\ conversion \subseteq conversion'
        /\ Route(r) = "candidate-worker-conversions" =>
             \E c \in conversion' : c.person = Command[r].person
    <2>1. /\ employment' = IF Route(r) \in {"candidate-worker-conversions", "employment-records"}
                           THEN employment \cup {NewEmployment(r)} ELSE employment
          /\ position' = IF Route(r) = "position-records"
                         THEN position \cup {NewPosition(r)} ELSE position
          /\ assignment' = IF Route(r) = "assignment-records"
                           THEN assignment \cup {NewAssignment(r)} ELSE assignment
      BY DEF Commit, Store
    <2>2. CASE Route(r) = "candidate-worker-conversions"
      <3> DEFINE new == [candidate |-> Command[r].candidate, person |-> Command[r].person]
      <3>1. conversion' = conversion \cup {new}
        BY <2>2 DEF Commit, Store
      <3>2. new \in conversion' /\ new.person = Command[r].person /\ conversion \subseteq conversion'
        BY <3>1
      <3>3. QED
        BY <2>1, <2>2, <3>2
    <2>3. CASE Route(r) # "candidate-worker-conversions"
      <3>1. conversion' = conversion
        BY <2>3 DEF Commit, Store
      <3>2. QED
        BY <2>1, <2>3, <3>1
    <2>4. QED
      BY <2>2, <2>3
  <1>3. /\ Command[r].from \in Days /\ Command[r].from < Forever
        /\ Route(r) # "position-records" => Command[r].person \in Persons
        /\ Route(r) = "assignment-records" => Command[r].ratio \in 1..One
    BY CommandAssumption, DayAssumption DEF Route
  <1>4. Route(r) \in {"candidate-worker-conversions", "employment-records"} =>
          \E c \in conversion' : c.person = Command[r].person
    <2>1. Route(r) = "employment-records" => HoldsPerson(r)
      BY <1>1 DEF Written, HoldsPerson
    <2>2. QED
      BY <1>2, <2>1 DEF HistoryInv, RequestInv, PersonLocked
  <1>5. \A e \in employment' :
          /\ e.from \in Days /\ e.to \in Cursors /\ e.from < e.to
          /\ e.since \in Times /\ e.since <= now /\ e.until = Forever
          /\ e.person \in Persons
          /\ \E c \in conversion' : c.person = e.person
    <2>1. ASSUME NEW e \in employment
          PROVE  /\ e.from \in Days /\ e.to \in Cursors /\ e.from < e.to
                 /\ e.since \in Times /\ e.since <= now /\ e.until = Forever
                 /\ e.person \in Persons
                 /\ \E c \in conversion' : c.person = e.person
      BY <1>2 DEF HistoryInv, FactsInv, FactsTyped
    <2>2. CASE Route(r) \in {"candidate-worker-conversions", "employment-records"}
      <3> DEFINE e == NewEmployment(r)
      <3>1. /\ e.from \in Days /\ e.to \in Cursors /\ e.from < e.to
            /\ e.since \in Times /\ e.since <= now /\ e.until = Forever
            /\ e.person \in Persons
            /\ \E c \in conversion' : c.person = e.person
        BY <1>1, <1>3, <1>4, <2>2 DEF NewEmployment, Cursors
      <3>2. QED
        BY <1>2, <2>1, <3>1
    <2>3. QED
      BY <1>2, <2>1, <2>2
  <1>6. \A a \in assignment' :
          /\ a.from \in Days /\ a.to = Forever
          /\ a.since \in Times /\ a.since <= now /\ a.until = Forever
          /\ a.ratio \in 1..One
    BY <1>1, <1>2, <1>3 DEF HistoryInv, FactsInv, FactsTyped, NewAssignment
  <1>7. \A p \in position' : p.since \in Times /\ p.since <= now /\ p.until = Forever
    BY <1>1, <1>2 DEF HistoryInv, FactsInv, FactsTyped, NewPosition
  <1>8. IsFiniteSet(employment') /\ IsFiniteSet(assignment')
    <2>1. IsFiniteSet(employment) /\ IsFiniteSet(assignment)
      BY DEF HistoryInv, FactsInv, FactsTyped
    <2>2. /\ IsFiniteSet(employment \cup {NewEmployment(r)})
          /\ IsFiniteSet(assignment \cup {NewAssignment(r)})
      BY <2>1, FS_AddElement
    <2>3. QED
      BY <1>2, <2>2, FS_Subset
  <1>9. FactsTyped'
    BY <1>1, <1>5, <1>6, <1>7, <1>8 DEF FactsTyped, Times
  <1>10. ASSUME NEW e \in employment'
         PROVE  /\ e.employment \in Requests => e.employment \in audited'
                /\ \A q \in Hires :
                     e.employment = Command[q].employment => e.person = Command[q].person
    <2>1. CASE e \in employment
      BY <1>1, <2>1 DEF HistoryInv, FactsInv, IdentitiesUsedOnce
    <2>2. CASE e = NewEmployment(r) /\ Route(r) = "employment-records"
      <3>1. e.employment = r
        BY <2>2 DEF NewEmployment
      <3>2. QED
        BY <1>1, <3>1, IdentityAssumption
    <2>3. CASE e = NewEmployment(r) /\ Route(r) = "candidate-worker-conversions"
      <3>1. r \in Hires /\ e.employment = Command[r].employment /\ e.person = Command[r].person
        BY <2>3 DEF NewEmployment, Hires, Route
      <3>2. QED
        BY <3>1, IdentityAssumption
    <2>4. QED
      BY <1>2, <2>1, <2>2, <2>3
  <1>11. ASSUME NEW e \in employment', NEW f \in employment',
                e.employment = f.employment, Overlaps(e, f)
         PROVE  e = f
    <2>1. CASE e \in employment /\ f \in employment
      BY <1>11, <2>1 DEF HistoryInv, FactsInv, IdentitiesUsedOnce
    <2>2. CASE Route(r) \in {"candidate-worker-conversions", "employment-records"}
      BY <1>1, <1>2, <1>11, <2>1, <2>2, FreshEmployment
    <2>3. QED
      BY <1>2, <2>1, <2>2
  <1>12. \A p \in position' : p.position \in Requests => p.position \in audited'
    BY <1>1, <1>2 DEF HistoryInv, FactsInv, IdentitiesUsedOnce, NewPosition
  <1>13. ASSUME NEW a \in assignment', NEW b \in assignment'
         PROVE  a.assignment \in audited' /\ (a.assignment = b.assignment => a = b)
    <2>1. NewAssignment(r).assignment = r
      BY DEF NewAssignment
    <2>2. QED
      BY <1>1, <1>2, <2>1 DEF HistoryInv, FactsInv, IdentitiesUsedOnce
  <1>14. IdentitiesUsedOnce'
    BY <1>10, <1>11, <1>12, <1>13 DEF IdentitiesUsedOnce, Hires, Overlaps
  <1>15. QED
    BY <1>9, <1>14

\* What was exclusive with a new employment when everything of it was known, is so at
\* every cutoff: before, the new employment is not known.
LEMMA ExclusiveFromThenOn ==
  ASSUME NEW facts, NEW new, NEW t \in Times, new.since = t,
         \A f \in facts : f.since \in Times /\ f.since <= t /\ f.until = Forever,
         new.until = Forever, Exclusive(facts \cup {new}, t),
         NEW known \in Times, Exclusive(facts, known)
  PROVE  Exclusive(facts \cup {new}, known)
  <1>1. t \in Nat /\ known \in Nat /\ t < Forever /\ known < Forever
    BY TimesOrdered
  <1>2. CASE t <= known
    <2>1. \A f \in facts \cup {new} : KnownAt(f, t) /\ KnownAt(f, known)
      BY <1>1, <1>2, KnownFromThenOn
    <2>2. QED
      BY <2>1 DEF Exclusive
  <1>3. CASE ~(t <= known)
    <2>1. ~KnownAt(new, known)
      BY <1>1, <1>3 DEF KnownAt
    <2>2. QED
      BY <2>1 DEF Exclusive
  <1>4. QED
    BY <1>2, <1>3

\* A committed employment overlaps none of its worker, at any cutoff.
LEMMA CommitKeepsExclusive ==
  ASSUME HistoryInv, NEW r \in Requests, Commit(r)
  PROVE  ExclusiveAlways'
  <1>1. Written(r) /\ tx[r].recorded \in Times /\ RequestInv(r)
    BY CommitAdds, TransactionHolds
  <1>2. \A known \in Times, p \in Persons : Exclusive(EmploymentsOf(p), known)
    BY DEF HistoryInv, FactsInv, ExclusiveAlways
  <1> SUFFICES ASSUME NEW known \in Times, NEW p \in Persons
               PROVE  Exclusive(EmploymentsOf(p)', known)
    BY DEF ExclusiveAlways, Exclusive
  <1>3. CASE EmploymentsOf(p)' = EmploymentsOf(p)
    BY <1>2, <1>3
  <1>4. CASE EmploymentsOf(p)' # EmploymentsOf(p)
    <2>1. /\ Route(r) \in {"candidate-worker-conversions", "employment-records"}
          /\ employment' = employment \cup {NewEmployment(r)}
      BY <1>4 DEF Commit, Store, EmploymentsOf
    <2>2. p = Command[r].person
      BY <1>4, <2>1 DEF EmploymentsOf, NewEmployment
    <2>3. EmploymentsOf(p)' = EmploymentsOf(p) \cup {NewEmployment(r)}
      BY <2>1, <2>2 DEF EmploymentsOf, NewEmployment
    <2>4. CASE Route(r) = "employment-records"
      <3>1. HoldsPerson(r) /\ Timed(r)
        BY <1>1, <2>4 DEF Written, Timed, HoldsPerson
      <3>2. /\ \A e \in EmploymentsOf(p) : e.since <= tx[r].recorded
            /\ Exclusive(EmploymentsOf(p) \cup {NewEmployment(r)}, tx[r].recorded)
        BY <1>1, <2>2, <2>4, <3>1 DEF RequestInv, EmploymentDecided
      <3>3. \A e \in EmploymentsOf(p) : e.since \in Times /\ e.until = Forever
        BY DEF EmploymentsOf, HistoryInv, FactsInv, FactsTyped
      <3>4. NewEmployment(r).since = tx[r].recorded /\ NewEmployment(r).until = Forever
        BY DEF NewEmployment
      <3>5. QED
        BY <1>1, <1>2, <2>3, <3>2, <3>3, <3>4, ExclusiveFromThenOn
    <2>5. CASE Route(r) = "candidate-worker-conversions"
      <3>1. EmploymentsOf(p) = {}
        BY <1>1, <2>2, <2>5
           DEF RequestInv, HireFirst, SameWorker, EmploymentsOf, HistoryInv, FactsInv, FactsTyped
      <3>2. QED
        BY <2>3, <3>1 DEF Exclusive
    <2>6. QED
      BY <2>1, <2>4, <2>5
  <1>5. QED
    BY <1>3, <1>4

\* An assignment there is names an employment and a seat that have versions.
LEMMA CoversAreSomething ==
  ASSUME NEW a, a.from \in Days, a.to = Forever, NEW known
  PROVE  ~EmploymentCovers(a, {}, known) /\ ~PositionCovers(a, {}, known)
  <1>1. ~UnionCovers({}, a)
    BY NothingCovers, DayAssumption
  <1>2. /\ {v \in {w \in {} : KnownAt(w, known) /\ Overlaps(w, a)} : v.status \in {"active", "leave"}}
             = {}
        /\ {v \in {} : KnownAt(v, known) /\ v.status \in {"active", "open"}} = {}
    OBVIOUS
  <1>3. QED
    BY <1>1, <1>2 DEF EmploymentCovers, PositionCovers

\* A committed assignment lies within an employment and a position, at any cutoff.
LEMMA CommitKeepsStaffed ==
  ASSUME HistoryInv, NEW r \in Requests, Commit(r)
  PROVE  StaffedAlways'
  <1> SUFFICES ASSUME NEW a \in assignment', NEW known \in Times, KnownAt(a, known)
               PROVE  /\ EmploymentCovers(a, VersionsOf(a.employment)', known)
                      /\ PositionCovers(a, SeatVersionsOf(a.position)', known)
    BY DEF StaffedAlways, VersionsOf, SeatVersionsOf
  <1>1. CASE a \in assignment
    <2>1. /\ EmploymentCovers(a, VersionsOf(a.employment), known)
          /\ PositionCovers(a, SeatVersionsOf(a.position), known)
      BY <1>1 DEF HistoryInv, FactsInv, StaffedAlways
    <2>2. VersionsOf(a.employment) # {} /\ SeatVersionsOf(a.position) # {}
      BY <1>1, <2>1, CoversAreSomething DEF HistoryInv, FactsInv, FactsTyped
    <2>3. QED
      BY <2>1, <2>2, VersionsStay
  <1>2. CASE a \notin assignment
    <2>1. a = NewAssignment(r) /\ Route(r) = "assignment-records"
      BY <1>2 DEF Commit, Store
    <2>2. employment' = employment /\ position' = position
      BY <2>1 DEF Commit, Store
    <2>3. /\ Written(r) /\ Timed(r) /\ tx[r].recorded \in Times /\ RequestInv(r)
          /\ tx[r].employments \subseteq employment /\ tx[r].positions \subseteq position
      BY CommitAdds, TransactionHolds DEF Written, Timed
    <2>4. a.from \in Days /\ a.to = Forever /\ a.since = tx[r].recorded
          /\ a.employment = Command[r].employment /\ a.position = Command[r].position
      BY <2>1, CommandAssumption DEF NewAssignment
    <2>5. /\ EmploymentCovers(a, tx[r].employments, tx[r].recorded)
          /\ PositionCovers(a, tx[r].positions, tx[r].recorded)
          /\ \A fact \in tx[r].employments \cup tx[r].positions : fact.since <= tx[r].recorded
      BY <2>1, <2>3 DEF RequestInv, AssignmentDecided
    <2>6. /\ tx[r].employments = VersionsOf(a.employment)
          /\ tx[r].positions = SeatVersionsOf(a.position)
      BY <2>3, <2>4, <2>5, CoversAreSomething DEF RequestInv, AssignmentDecided
    <2>7. tx[r].recorded <= known
      BY <2>4 DEF KnownAt
    <2>8. /\ \A v \in tx[r].employments : v.since \in Times /\ v.until = Forever
          /\ \A v \in tx[r].positions : v.since \in Times /\ v.until = Forever
      BY <2>3 DEF HistoryInv, FactsInv, FactsTyped
    <2>9. /\ EmploymentCovers(a, tx[r].employments, known)
          /\ PositionCovers(a, tx[r].positions, known)
      BY <2>3, <2>5, <2>7, <2>8, CoversFromThenOn
    <2>10. QED
      BY <2>2, <2>6, <2>9 DEF VersionsOf, SeatVersionsOf
  <1>3. QED
    BY <1>1, <1>2

\* What a written assignment command relies on: an employment of its person, and a seat
\* it has locked.
LEMMA WrittenAssignment ==
  ASSUME HistoryInv, NEW r \in Requests, Written(r), Route(r) = "assignment-records"
  PROVE  /\ HoldsPerson(r) /\ HoldsPosition(r) /\ tx[r].positions # {}
         /\ VersionsOf(Command[r].employment) # {}
         /\ \A v \in VersionsOf(Command[r].employment) : v.person = Command[r].person
  <1> DEFINE new == NewAssignment(r)
  <1>1. /\ new.from \in Days /\ new.to = Forever /\ new.person = Command[r].person
        /\ new.employment = Command[r].employment
    BY CommandAssumption DEF NewAssignment
  <1>2. /\ EmploymentCovers(new, tx[r].employments, tx[r].recorded)
        /\ PositionCovers(new, tx[r].positions, tx[r].recorded)
        /\ tx[r].employments # {} => tx[r].employments = VersionsOf(Command[r].employment)
    BY TransactionHolds DEF RequestInv, AssignmentDecided
  <1>3. tx[r].employments # {} /\ tx[r].positions # {}
    BY <1>1, <1>2, CoversAreSomething
  <1>4. \A v \in tx[r].employments : v.person = new.person
    BY <1>2 DEF EmploymentCovers
  <1>5. HoldsPerson(r) /\ HoldsPosition(r)
    BY <1>3 DEF HoldsPerson, HoldsPosition, Written
  <1>6. QED
    BY <1>1, <1>2, <1>3, <1>4, <1>5

\* The assignments of an employment are of one person.
LEMMA PersonOfEmployment ==
  ASSUME HistoryInv, NEW a \in assignment
  PROVE  /\ VersionsOf(a.employment) # {}
         /\ \A v \in VersionsOf(a.employment) : v.person = a.person
  <1>1. a.from \in Days /\ a.to = Forever /\ a.since \in Times /\ KnownAt(a, a.since)
    BY TimesOrdered DEF HistoryInv, FactsInv, FactsTyped, KnownAt
  <1>2. EmploymentCovers(a, VersionsOf(a.employment), a.since)
    BY <1>1 DEF HistoryInv, FactsInv, StaffedAlways
  <1>3. VersionsOf(a.employment) # {}
    BY <1>1, <1>2, CoversAreSomething
  <1>4. QED
    BY <1>2, <1>3 DEF EmploymentCovers

\* What the days probed at the commit leave room for, there is room for at every cutoff:
\* before, the new assignment is not known.
LEMMA AllocatedFromThenOn ==
  ASSUME NEW t \in Times, NEW new, NEW facts, NEW all, facts \cup {new} \subseteq all,
         IsFiniteSet(facts),
         \A f \in facts \cup {new} :
           /\ f.ratio \in Nat /\ f.from \in Nat /\ f.to \in Nat
           /\ f.since \in Times /\ f.since <= t /\ f.until = Forever,
         new.since = t,
         \A probe \in ProbeDays(all, new) : WithinOne(facts \cup {new}, probe, t),
         NEW known \in Times, NEW day \in Nat, WithinOne(facts, day, known)
  PROVE  WithinOne(facts \cup {new}, day, known)
  <1> DEFINE Seen(S, k) == {f \in S : Contains(f, day) /\ KnownAt(f, k)}
  <1>1. t \in Nat /\ known \in Nat /\ t < Forever /\ known < Forever
    BY TimesOrdered
  <1>2. Total(Seen(facts, known)) <= One
    BY DEF WithinOne
  <1>3. CASE ~Contains(new, day) \/ ~(t <= known)
    <2>1. ~(t <= known) => ~KnownAt(new, known)
      BY <1>1 DEF KnownAt
    <2>2. Seen(facts \cup {new}, known) = Seen(facts, known)
      BY <1>3, <2>1
    <2>3. Total(Seen(facts \cup {new}, known)) = Total(Seen(facts, known))
      BY <2>2
    <2>4. QED
      BY <1>2, <2>3 DEF WithinOne
  <1>4. CASE Contains(new, day) /\ t <= known
    <2>1. IsFiniteSet(facts \cup {new})
      BY FS_AddElement
    <2>2. WithinOne(facts \cup {new}, day, t)
      BY <1>4, <2>1, ProbesSuffice
    <2>3. \A f \in facts \cup {new} : KnownAt(f, t) /\ KnownAt(f, known)
      BY <1>1, <1>4, KnownFromThenOn
    <2>4. Seen(facts \cup {new}, known) = Seen(facts \cup {new}, t)
      BY <2>3
    <2>5. Total(Seen(facts \cup {new}, known)) = Total(Seen(facts \cup {new}, t))
      BY <2>4
    <2>6. QED
      BY <2>2, <2>5 DEF WithinOne
  <1>5. QED
    BY <1>3, <1>4

\* A seat or an employment without assignments has room.
LEMMA RoomWhenEmpty ==
  ASSUME NEW day, NEW known
  PROVE  WithinOne({}, day, known)
  <1>1. {f \in {} : Contains(f, day) /\ KnownAt(f, known)} = {}
    OBVIOUS
  <1>2. Total({f \in {} : Contains(f, day) /\ KnownAt(f, known)}) = 0
    BY <1>1, TotalEmpty
  <1>3. QED
    BY <1>2 DEF WithinOne, One

\* The numbers an allocation is computed from.
LEMMA AssignmentNumbers ==
  ASSUME FactsTyped
  PROVE  \A a \in assignment : /\ a.ratio \in Nat /\ a.from \in Nat /\ a.to \in Nat
                               /\ a.since \in Times /\ a.until = Forever
  <1>1. \A a \in assignment : a.ratio \in 1..One /\ a.from \in Days /\ a.to = Forever
    BY DEF FactsTyped
  <1>2. \A a \in assignment : a.ratio \in Nat
    BY <1>1
  <1>3. QED
    BY <1>1, <1>2, DayAssumption DEF FactsTyped

\* A committed assignment leaves each allocation within its limit, at any cutoff.
LEMMA CommitKeepsAllocated ==
  ASSUME HistoryInv, NEW r \in Requests, Commit(r)
  PROVE  AllocatedAlways'
  <1> SUFFICES ASSUME NEW known \in Times, NEW day \in Days, NEW a \in assignment'
               PROVE  /\ WithinOne(OnSeat(assignment', a.position), day, known)
                      /\ WithinOne(OnEmployment(assignment', a.employment), day, known)
    BY DEF AllocatedAlways, OnSeat, OnEmployment, WithinOne
  <1> DEFINE new == NewAssignment(r)
             seat == OnSeat(assignment, new.position)
             job == OnEmployment(assignment, new.employment)
  <1>1. \A b \in assignment :
          /\ WithinOne(OnSeat(assignment, b.position), day, known)
          /\ WithinOne(OnEmployment(assignment, b.employment), day, known)
    BY DEF HistoryInv, FactsInv, AllocatedAlways
  <1>2. CASE Route(r) # "assignment-records"
    <2>1. assignment' = assignment
      BY <1>2 DEF Commit, Store
    <2>2. QED
      BY <1>1, <2>1
  <1>3. CASE Route(r) = "assignment-records"
    <2>1. assignment' = assignment \cup {new}
      BY <1>3 DEF Commit, Store
    <2>2. /\ Written(r) /\ Timed(r) /\ RequestInv(r) /\ tx[r].recorded \in Times
      BY CommitAdds, TransactionHolds DEF Written, Timed
    <2>3. /\ new.position = Command[r].position /\ new.employment = Command[r].employment
          /\ new.person = Command[r].person /\ new.since = tx[r].recorded
          /\ new.ratio \in Nat /\ new.from \in Nat /\ new.to \in Nat
          /\ new.since \in Times /\ new.since <= tx[r].recorded /\ new.until = Forever
      <3>1. /\ Command[r].from \in Nat /\ Forever \in Nat /\ Command[r].ratio \in 1..One
            /\ tx[r].recorded \in Nat
        BY <1>3, <2>2, TimesOrdered, CommandAssumption, DayAssumption DEF Route
      <3>2. Command[r].ratio \in Nat
        BY <3>1
      <3>3. QED
        BY <2>2, <3>1, <3>2 DEF NewAssignment
    <2>4. \A b \in assignment : /\ b.ratio \in Nat /\ b.from \in Nat /\ b.to \in Nat
                                /\ b.since \in Times /\ b.until = Forever
      BY AssignmentNumbers DEF HistoryInv, FactsInv
    <2>5. IsFiniteSet(seat) /\ IsFiniteSet(job)
      BY FS_Subset DEF HistoryInv, FactsInv, FactsTyped, OnSeat, OnEmployment
    <2>6. \A b \in job : b.person = Command[r].person
      BY <1>3, <2>2, <2>3, WrittenAssignment, PersonOfEmployment DEF OnEmployment
    <2>7. /\ \A b \in seat : b.since <= tx[r].recorded
          /\ \A b \in job : b.since <= tx[r].recorded
      BY <1>3, <2>2, <2>3, <2>6, WrittenAssignment
         DEF RequestInv, PortfolioDecided, OnSeat, OnEmployment
    <2>8. /\ seat \cup {new} = OnSeat(Considered(r), Command[r].position)
          /\ seat \cup {new} \subseteq Considered(r)
      BY <2>3 DEF OnSeat, Considered
    <2>9. /\ job \cup {new} = {b \in Considered(r) : /\ b.person = Command[r].person
                                                     /\ b.employment = Command[r].employment}
          /\ job \cup {new} \subseteq Considered(r)
      BY <2>3, <2>6 DEF OnEmployment, Considered
    <2>10. \A probe \in ProbeDays(Considered(r), new) :
             /\ WithinOne(seat \cup {new}, probe, tx[r].recorded)
             /\ WithinOne(job \cup {new}, probe, tx[r].recorded)
      BY <1>3, <2>2, <2>8, <2>9 DEF RequestInv, PortfolioDecided
    <2>11. /\ WithinOne(seat, day, known)
           /\ WithinOne(job, day, known)
      BY <1>1, RoomWhenEmpty DEF OnSeat, OnEmployment
    <2>12. day \in Nat
      BY DayAssumption
    <2> HIDE DEF new, seat, job
    <2>13. WithinOne(seat \cup {new}, day, known)
      <3>1. \A f \in seat \cup {new} :
              /\ f.ratio \in Nat /\ f.from \in Nat /\ f.to \in Nat
              /\ f.since \in Times /\ f.since <= tx[r].recorded /\ f.until = Forever
        BY <2>3, <2>4, <2>7 DEF seat, OnSeat
      <3>2. QED
        BY <2>2, <2>3, <2>5, <2>8, <2>10, <2>11, <2>12, <3>1, AllocatedFromThenOn
    <2>14. WithinOne(job \cup {new}, day, known)
      <3>1. \A f \in job \cup {new} :
              /\ f.ratio \in Nat /\ f.from \in Nat /\ f.to \in Nat
              /\ f.since \in Times /\ f.since <= tx[r].recorded /\ f.until = Forever
        BY <2>3, <2>4, <2>7 DEF job, OnEmployment
      <3>2. QED
        BY <2>2, <2>3, <2>5, <2>9, <2>10, <2>11, <2>12, <3>1, AllocatedFromThenOn
    <2>15. WithinOne(OnSeat(assignment', a.position), day, known)
      <3>1. CASE a.position = new.position
        <4>1. OnSeat(assignment', a.position) = seat \cup {new}
          BY <2>1, <3>1 DEF OnSeat, seat
        <4>2. QED
          BY <2>13, <4>1
      <3>2. CASE a.position # new.position
        <4>1. a \in assignment /\ OnSeat(assignment', a.position) = OnSeat(assignment, a.position)
          BY <2>1, <3>2 DEF OnSeat
        <4>2. QED
          BY <1>1, <4>1
      <3>3. QED
        BY <3>1, <3>2
    <2>16. WithinOne(OnEmployment(assignment', a.employment), day, known)
      <3>1. CASE a.employment = new.employment
        <4>1. OnEmployment(assignment', a.employment) = job \cup {new}
          BY <2>1, <3>1 DEF OnEmployment, job
        <4>2. QED
          BY <2>14, <4>1
      <3>2. CASE a.employment # new.employment
        <4>1. /\ a \in assignment
              /\ OnEmployment(assignment', a.employment) = OnEmployment(assignment, a.employment)
          BY <2>1, <3>2 DEF OnEmployment
        <4>2. QED
          BY <1>1, <4>1
      <3>3. QED
        BY <3>1, <3>2
    <2>17. QED
      BY <2>15, <2>16
  <1>4. QED
    BY <1>2, <1>3

\* What the other requests rely on is not what a commit changes.
LEMMA CommitKeepsRequests ==
  ASSUME HistoryInv, NEW r \in Requests, Commit(r), NEW q \in Requests
  PROVE  RequestInv(q)'
  <1>1. /\ Written(r) /\ now' = now /\ RequestInv(q) /\ RequestInv(r)
        /\ tx'[r] = [tx[r] EXCEPT !.phase = "done"] /\ \A p \in Others(r) : tx'[p] = tx[p]
        /\ tx[r] \in Transaction
    BY CommitAdds, TransactionHolds
  <1>2. /\ tx'[q].began = tx[q].began /\ tx'[q].recorded = tx[q].recorded
        /\ tx'[q].employments = tx[q].employments /\ tx'[q].positions = tx[q].positions
    BY <1>1 DEF Transaction, Others
  <1>3. ClockRead(q)'
    BY <1>1, <1>2 DEF RequestInv, ClockRead
  <1>4. \A p \in Requests : /\ HoldsPerson(p)' => p \in Others(r) /\ HoldsPerson(p)
                            /\ Written(p)' => p \in Others(r) /\ Written(p)
                            /\ Timed(p)' => p \in Others(r) /\ Timed(p)
    BY <1>1 DEF HoldsPerson, Written, Timed, Others, Transaction
  <1>5. PersonLocked(q)'
    <2>1. conversion \subseteq conversion'
      BY DEF Commit, Store
    <2>2. QED
      BY <1>1, <1>4, <2>1 DEF RequestInv, PersonLocked, Others
  <1>6. HireFirst(q)'
    <2> SUFFICES ASSUME Route(q) = "candidate-worker-conversions", Written(q)'
                 PROVE  /\ \A c \in conversion' : ~SameWorker(Command[q], c)
                        /\ \A p \in Others(q) : Route(p) = Route(q) /\ Written(p)' =>
                             ~SameWorker(Command[p], Command[q])
      BY DEF HireFirst, Others, Route, SameWorker
    <2>1. q \in Others(r) /\ r \in Others(q) /\ Written(q)
      BY <1>4 DEF Others
    <2>2. \A p \in Others(q) : Route(p) = Route(q) /\ Written(p)' =>
            ~SameWorker(Command[p], Command[q])
      BY <1>1, <1>4, <2>1 DEF RequestInv, HireFirst, Others
    <2>3. ASSUME NEW c \in conversion'
          PROVE  ~SameWorker(Command[q], c)
      <3>1. CASE c \in conversion
        BY <1>1, <2>1, <3>1 DEF RequestInv, HireFirst
      <3>2. CASE c \notin conversion
        <4>1. /\ Route(r) = "candidate-worker-conversions"
              /\ c = [candidate |-> Command[r].candidate, person |-> Command[r].person]
          BY <3>2 DEF Commit, Store
        <4>2. ~SameWorker(Command[r], Command[q])
          BY <1>1, <2>1, <4>1 DEF RequestInv, HireFirst
        <4>3. QED
          BY <4>1, <4>2 DEF SameWorker
      <3>3. QED
        BY <3>1, <3>2
    <2>4. QED
      BY <2>2, <2>3
  <1>7. EmploymentDecided(q)'
    <2>1. CASE HoldsPerson(q)'
      <3>1. q \in Others(r) /\ HoldsPerson(q)
        BY <1>4, <2>1
      <3>2. EmploymentsOf(Command[q].person)' = EmploymentsOf(Command[q].person)
        <4>1. CASE Route(r) \in {"candidate-worker-conversions", "employment-records"}
          <5>1. employment' = employment \cup {NewEmployment(r)}
            BY <4>1 DEF Commit, Store
          <5>2. NewEmployment(r).person # Command[q].person
            BY <1>1, <3>1, <4>1, PersonUntouched DEF NewEmployment
          <5>3. QED
            BY <5>1, <5>2 DEF EmploymentsOf
        <4>2. CASE Route(r) \notin {"candidate-worker-conversions", "employment-records"}
          <5>1. employment' = employment
            BY <4>2 DEF Commit, Store
          <5>2. QED
            BY <5>1 DEF EmploymentsOf
        <4>3. QED
          BY <4>1, <4>2
      <3>3. NewEmployment(q)' = NewEmployment(q)
        BY <1>2 DEF NewEmployment, Route
      <3>4. QED
        BY <1>1, <1>2, <1>4, <3>1, <3>2, <3>3 DEF RequestInv, EmploymentDecided, Route
    <2>2. CASE ~HoldsPerson(q)'
      <3>1. ~(Route(q) = "employment-records" /\ Written(q)')
        BY <2>2 DEF HoldsPerson, Written
      <3>2. QED
        BY <2>2, <3>1 DEF EmploymentDecided, Route
    <2>3. QED
      BY <2>1, <2>2
  <1>8. AssignmentDecided(q)'
    <2>1. NewAssignment(q)' = NewAssignment(q)
      BY <1>2 DEF NewAssignment
    <2>2. /\ tx[q].employments # {} =>
               tx[q].employments = VersionsOf(Command[q].employment)'
          /\ tx[q].positions # {} =>
               tx[q].positions = SeatVersionsOf(Command[q].position)'
      BY <1>1, VersionsStay DEF RequestInv, AssignmentDecided
    <2>3. QED
      BY <1>1, <1>2, <1>4, <2>1, <2>2 DEF RequestInv, AssignmentDecided, Route
  <1>9. \A p \in Requests : HoldsPosition(p)' => p \in Others(r) /\ HoldsPosition(p)
    BY <1>1 DEF HoldsPosition, Others, Transaction
  <1>10. PositionLocked(q)'
    BY <1>1, <1>9 DEF RequestInv, PositionLocked, Others
  <1>11. PortfolioDecided(q)'
    <2> SUFFICES ASSUME Route(q) = "assignment-records", Timed(q)'
                 PROVE  PortfolioDecided(q)'
      BY DEF PortfolioDecided, Timed, Written, Route
    <2>1. q \in Others(r) /\ r \in Others(q) /\ Timed(q) /\ PortfolioDecided(q)
      BY <1>1, <1>4 DEF Others, RequestInv
    <2>2. HoldsPerson(q) /\ (tx[q].positions # {} => HoldsPosition(q))
      BY <2>1 DEF HoldsPerson, HoldsPosition, Timed
    <2>3. NewAssignment(q)' = NewAssignment(q)
      BY <1>2 DEF NewAssignment
    <2>4. CASE Route(r) # "assignment-records"
      <3>1. assignment' = assignment
        BY <2>4 DEF Commit, Store
      <3>2. Considered(q)' = Considered(q)
        BY <2>3, <3>1 DEF Considered
      <3>3. QED
        BY <1>2, <1>4, <2>1, <2>3, <3>1, <3>2 DEF PortfolioDecided, Route, OnSeat
    <2>5. CASE Route(r) = "assignment-records"
      <3> DEFINE new == NewAssignment(r)
      <3>1. /\ assignment' = assignment \cup {new}
            /\ new.person = Command[r].person /\ new.position = Command[r].position
            /\ new.employment = Command[r].employment
        BY <2>5 DEF Commit, Store, NewAssignment
      <3>2. new.person # Command[q].person
        BY <1>1, <2>1, <2>2, <2>5, <3>1, PersonUntouched
      <3>3. tx[q].positions # {} => new.position # Command[q].position
        BY <1>1, <2>1, <2>2, <2>5, <3>1, WrittenAssignment DEF RequestInv, PositionLocked
      <3> HIDE DEF new
      <3>4. \A a \in assignment' :
              \/ a.person = Command[q].person
              \/ tx[q].positions # {} /\ a.position = Command[q].position
              => a \in assignment
        BY <3>1, <3>2, <3>3
      <3>5. \A a \in assignment' :
              \/ a.person = Command[q].person
              \/ tx[q].positions # {} /\ a.position = Command[q].position
              => a.since <= tx[q].recorded
        BY <2>1, <3>4 DEF PortfolioDecided
      <3>6. ASSUME Written(q)'
            PROVE  Considered(q)' = Considered(q)
        <4>1. /\ tx[q].positions # {} /\ VersionsOf(Command[q].employment) # {}
              /\ \A v \in VersionsOf(Command[q].employment) : v.person = Command[q].person
          BY <1>4, <3>6, WrittenAssignment
        <4>2. \A v \in VersionsOf(Command[r].employment) : v.person = Command[r].person
          BY <1>1, <2>5, WrittenAssignment
        <4>3. Command[r].employment # Command[q].employment
          BY <3>1, <3>2, <4>1, <4>2
        <4>4. QED
          BY <2>3, <3>1, <3>3, <4>1, <4>3 DEF Considered
      <3>7. ASSUME Written(q)'
            PROVE  \A day \in ProbeDays(Considered(q), NewAssignment(q)) :
                     /\ WithinOne({a \in Considered(q) : /\ a.person = Command[q].person
                                                         /\ a.employment = Command[q].employment},
                                  day, tx[q].recorded)
                     /\ WithinOne(OnSeat(Considered(q), Command[q].position), day, tx[q].recorded)
        BY <1>4, <2>1, <3>7 DEF PortfolioDecided
      <3>8. QED
        BY <1>2, <2>3, <3>5, <3>6, <3>7 DEF PortfolioDecided, Route, OnSeat
    <2>6. QED
      BY <2>4, <2>5
  <1>12. QED
    BY <1>3, <1>5, <1>6, <1>7, <1>8, <1>10, <1>11 DEF RequestInv

------------------------------------------------------------------------------
(* HistoryInv is inductive *)

\* The seeded histories are ones the commands could have left.
LEMMA InitHistoryInv == Init => HistoryInv
  <1> SUFFICES ASSUME Init
               PROVE  HistoryInv
    OBVIOUS
  <1>1. /\ employment = SeedEmployments /\ position = SeedPositions
        /\ conversion = SeedConversions /\ assignment = {} /\ now = 0
        /\ \A r \in Requests : tx[r] = NewTx
    BY DEF Init, Seeded
  <1>2. 0 \in Times /\ \A t \in Times : t \in Nat
    BY ClockAssumption DEF Times
  <1>3. FactsTyped
    BY <1>1, <1>2, SeedAssumption, FS_EmptySet DEF FactsTyped, Cursors
  <1>4. IdentitiesUsedOnce
    BY <1>1, IdentityAssumption, SeedAssumption DEF IdentitiesUsedOnce
  <1>5. ExclusiveAlways
    <2> SUFFICES ASSUME NEW known \in Times, NEW p \in Persons
                 PROVE  Exclusive(EmploymentsOf(p), known)
      BY DEF ExclusiveAlways
    <2>1. Exclusive(EmploymentsOf(p), 0)
      BY <1>1, SeedAssumption DEF EmploymentsOf
    <2>2. \A e \in EmploymentsOf(p) : KnownAt(e, 0) /\ KnownAt(e, known)
      BY <1>1, <1>2, SeedAssumption, TimesOrdered DEF EmploymentsOf, KnownAt
    <2>3. QED
      BY <2>1, <2>2 DEF Exclusive
  <1>6. StaffedAlways /\ AllocatedAlways
    BY <1>1 DEF StaffedAlways, AllocatedAlways
  <1>7. ASSUME NEW r \in Requests
        PROVE  RequestInv(r)
    <2>1. /\ tx[r].began = 0 /\ tx[r].recorded = 0
          /\ tx[r].employments = {} /\ tx[r].positions = {}
          /\ ~HoldsPerson(r) /\ ~HoldsPosition(r) /\ ~Written(r) /\ ~Timed(r)
      BY <1>1 DEF NewTx, HoldsPerson, HoldsPosition, Written, Timed
    <2>2. QED
      BY <1>1, <2>1
         DEF RequestInv, ClockRead, PersonLocked, PositionLocked, HireFirst, EmploymentDecided,
             AssignmentDecided, PortfolioDecided
  <1>8. QED
    BY <1>3, <1>4, <1>5, <1>6, <1>7, InitKeyInv DEF HistoryInv, FactsInv

\* Time passes over everything that is past.
LEMMA TickKeepsHistory ==
  ASSUME HistoryInv, KeyInv', Tick
  PROVE  HistoryInv'
  <1>1. /\ conversion' = conversion /\ employment' = employment /\ position' = position
        /\ assignment' = assignment /\ audited' = audited /\ tx' = tx /\ now' = now + 1
    BY DEF Tick, tables
  <1>2. now \in Nat /\ \A t \in Times : t \in Nat
    BY TimesOrdered DEF HistoryInv, KeyInv, Shape
  <1>3. FactsTyped'
    BY <1>1, <1>2 DEF HistoryInv, FactsInv, FactsTyped
  <1>4. IdentitiesUsedOnce' /\ ExclusiveAlways' /\ StaffedAlways' /\ AllocatedAlways'
    BY <1>1 DEF HistoryInv, FactsInv, IdentitiesUsedOnce, ExclusiveAlways, StaffedAlways,
       AllocatedAlways, EmploymentsOf, VersionsOf, SeatVersionsOf, OnSeat, OnEmployment
  <1>5. ASSUME NEW r \in Requests
        PROVE  RequestInv(r)'
    <2>1. RequestInv(r) /\ tx[r].began \in Nat /\ tx[r].recorded \in Nat
      BY <1>2 DEF HistoryInv, KeyInv, Shape, Transaction
    <2>2. ClockRead(r)'
      BY <1>1, <1>2, <2>1 DEF RequestInv, ClockRead
    <2>3. \A q \in Requests :
            /\ HoldsPerson(q)' <=> HoldsPerson(q)
            /\ HoldsPosition(q)' <=> HoldsPosition(q)
            /\ Written(q)' <=> Written(q)
            /\ Timed(q)' <=> Timed(q)
      BY <1>1 DEF HoldsPerson, HoldsPosition, Written, Timed
    <2>4. PersonLocked(r)' /\ PositionLocked(r)' /\ HireFirst(r)'
      BY <1>1, <2>1, <2>3 DEF RequestInv, PersonLocked, PositionLocked, HireFirst, Others, Route
    <2>5. EmploymentDecided(r)'
      BY <1>1, <2>1, <2>3 DEF RequestInv, EmploymentDecided, EmploymentsOf, NewEmployment, Route
    <2>6. AssignmentDecided(r)'
      BY <1>1, <2>1, <2>3
         DEF RequestInv, AssignmentDecided, VersionsOf, SeatVersionsOf, NewAssignment, Route
    <2>7. PortfolioDecided(r)'
      <3>1. NewAssignment(r)' = NewAssignment(r) /\ Considered(r)' = Considered(r)
        BY <1>1 DEF NewAssignment, Considered
      <3>2. QED
        BY <1>1, <2>1, <2>3, <3>1 DEF RequestInv, PortfolioDecided, Route, OnSeat
    <2>8. QED
      BY <2>2, <2>4, <2>5, <2>6, <2>7 DEF RequestInv
  <1>6. QED
    BY <1>3, <1>4, <1>5 DEF HistoryInv, FactsInv

\* HistoryInv is inductive.
LEMMA NextHistoryInv == HistoryInv /\ [Next]_vars => HistoryInv'
  <1> SUFFICES ASSUME HistoryInv, [Next]_vars
               PROVE  HistoryInv'
    OBVIOUS
  <1>1. KeyInv'
    BY NextKeyInv DEF HistoryInv
  <1>2. ASSUME NEW r \in Requests, Commit(r)
        PROVE  HistoryInv'
    BY <1>1, <1>2, CommitKeepsFacts, CommitKeepsExclusive, CommitKeepsStaffed,
       CommitKeepsAllocated, CommitKeepsRequests DEF HistoryInv, FactsInv
  <1>3. ASSUME NEW r \in Requests, Statement(r) \/ Abort(r), ~Commit(r)
        PROVE  HistoryInv'
    BY <1>1, <1>3, StatementKeepsRequest, RequestStep
  <1>4. CASE Tick
    BY <1>1, <1>4, TickKeepsHistory
  <1>5. CASE UNCHANGED vars
    <2>1. /\ conversion' = conversion /\ employment' = employment /\ position' = position
          /\ assignment' = assignment /\ audited' = audited /\ tx' = tx /\ now' = now
      BY <1>5 DEF vars
    <2>2. FactsInv'
      BY <2>1 DEF HistoryInv, FactsInv, FactsTyped, IdentitiesUsedOnce, ExclusiveAlways,
         StaffedAlways, AllocatedAlways, EmploymentsOf, VersionsOf, SeatVersionsOf, OnSeat,
         OnEmployment
    <2>3. ASSUME NEW r \in Requests
          PROVE  RequestInv(r)'
      <3>1. RequestInv(r)
        BY DEF HistoryInv
      <3>2. \A q \in Requests :
              /\ HoldsPerson(q)' <=> HoldsPerson(q)
              /\ HoldsPosition(q)' <=> HoldsPosition(q)
              /\ Written(q)' <=> Written(q)
              /\ Timed(q)' <=> Timed(q)
        BY <2>1 DEF HoldsPerson, HoldsPosition, Written, Timed
      <3>3. /\ NewAssignment(r)' = NewAssignment(r) /\ Considered(r)' = Considered(r)
            /\ NewEmployment(r)' = NewEmployment(r)
        BY <2>1 DEF NewAssignment, Considered, NewEmployment, Route
      <3>4. ClockRead(r)' /\ PersonLocked(r)' /\ PositionLocked(r)' /\ HireFirst(r)'
        BY <2>1, <3>1, <3>2
           DEF RequestInv, ClockRead, PersonLocked, PositionLocked, HireFirst, Others, Route
      <3>5. EmploymentDecided(r)' /\ AssignmentDecided(r)'
        BY <2>1, <3>1, <3>2, <3>3 DEF RequestInv, EmploymentDecided, AssignmentDecided,
           EmploymentsOf, VersionsOf, SeatVersionsOf, Route
      <3>6. PortfolioDecided(r)'
        BY <2>1, <3>1, <3>2, <3>3 DEF RequestInv, PortfolioDecided, OnSeat, Route
      <3>7. QED
        BY <3>4, <3>5, <3>6 DEF RequestInv
    <2>4. QED
      BY <1>1, <2>2, <2>3 DEF HistoryInv
  <1>6. QED
    BY <1>2, <1>3, <1>4, <1>5 DEF Next

------------------------------------------------------------------------------
(* Results *)

\* Every row and every transaction is of its kind, and no row is recorded before the
\* clock has come there.
THEOREM Typing == Spec => []TypeOK
  <1>1. HistoryInv => TypeOK
    <2> SUFFICES ASSUME HistoryInv
                 PROVE  TypeOK
      OBVIOUS
    <2>1. \A e \in employment : e.from < e.to /\ e.since \in Times /\ e.person \in Persons
      BY DEF HistoryInv, FactsInv, FactsTyped
    <2>2. \A a \in assignment : a.from < a.to /\ a.since \in Times /\ a.ratio \in 1..One
      BY DayAssumption DEF HistoryInv, FactsInv, FactsTyped
    <2>3. QED
      BY <2>1, <2>2 DEF HistoryInv, KeyInv, Shape, Transaction, Reply, Outcomes, TypeOK
  <1>2. QED
    BY InitHistoryInv, NextHistoryInv, <1>1, PTL DEF Spec

\* Two exclusive employments of a person never overlap, at whatever instant the history
\* is reconstructed: commands of one person follow each other on the lock of its
\* conversion, and read the clock only once they hold it.
THEOREM ExclusiveEmployments == Spec => []ExclusiveAsKnown
  <1>1. HistoryInv => ExclusiveAsKnown
    <2> SUFFICES ASSUME HistoryInv, NEW known \in 0..now, NEW p \in Persons
                 PROVE  Exclusive({e \in employment : e.person = p}, known)
      BY DEF ExclusiveAsKnown
    <2>1. known \in Times
      BY ClockAssumption DEF HistoryInv, KeyInv, Shape, Times
    <2>2. QED
      BY <2>1 DEF HistoryInv, FactsInv, ExclusiveAlways, EmploymentsOf
  <1>2. QED
    BY InitHistoryInv, NextHistoryInv, <1>1, PTL DEF Spec

\* From the instant an assignment is known, its employment covers it and its seat can be
\* staffed: what its command has read under its locks is all there ever is of them,
\* and the command records itself after it.
THEOREM AssignmentsStaffed == Spec => []StaffedAsKnown
  <1>1. HistoryInv => StaffedAsKnown
    <2> SUFFICES ASSUME HistoryInv, NEW a \in assignment, NEW known \in 0..now,
                        KnownAt(a, known)
                 PROVE  /\ EmploymentCovers(a, VersionsOf(a.employment), known)
                        /\ PositionCovers(a, SeatVersionsOf(a.position), known)
      BY DEF StaffedAsKnown, VersionsOf, SeatVersionsOf
    <2>1. known \in Times
      BY ClockAssumption DEF HistoryInv, KeyInv, Shape, Times
    <2>2. QED
      BY <2>1 DEF HistoryInv, FactsInv, StaffedAlways
  <1>2. QED
    BY InitHistoryInv, NextHistoryInv, <1>1, PTL DEF Spec

\* No seat and no employment is allocated more than once over, on any day as known at any
\* instant: the commands of one seat, and those of one person, follow each other on its
\* lock, and the days a command probes decide for every day.
THEOREM AllocationsKept == Spec => []AllocationsAsKnown
  <1>1. HistoryInv => AllocationsAsKnown
    <2> SUFFICES ASSUME HistoryInv, NEW known \in 0..now, NEW day \in Days, NEW a \in assignment
                 PROVE  /\ WithinOne(OnSeat(assignment, a.position), day, known)
                        /\ WithinOne(OnEmployment(assignment, a.employment), day, known)
      BY DEF AllocationsAsKnown, OnSeat, OnEmployment
    <2>1. known \in Times
      BY ClockAssumption DEF HistoryInv, KeyInv, Shape, Times
    <2>2. QED
      BY <2>1 DEF HistoryInv, FactsInv, AllocatedAlways
  <1>2. QED
    BY InitHistoryInv, NextHistoryInv, <1>1, PTL DEF Spec

\* Part of what is within one is within one.
LEMMA PartWithinOne ==
  ASSUME NEW S, IsFiniteSet(S), \A f \in S : f.ratio \in Nat, NEW T, T \subseteq S,
         NEW day, NEW known, WithinOne(S, day, known)
  PROVE  WithinOne(T, day, known)
  <1> DEFINE Seen(X) == {f \in X : Contains(f, day) /\ KnownAt(f, known)}
  <1>1. IsFiniteSet(Seen(S)) /\ IsFiniteSet(Seen(T)) /\ Seen(T) \subseteq Seen(S)
    BY FS_Subset
  <1>2. \A f \in Seen(S) : f.ratio \in Nat
    OBVIOUS
  <1>3. Total(Seen(S)) <= One
    BY DEF WithinOne
  <1> HIDE DEF Seen
  <1>4. Total(Seen(T)) <= Total(Seen(S)) /\ Total(Seen(T)) \in Nat /\ Total(Seen(S)) \in Nat
    <2>1. \A f \in Seen(T) : f.ratio \in Nat
      BY <1>1, <1>2
    <2>2. QED
      BY <1>1, <1>2, <2>1, TotalMonotone, TotalType
  <1>5. Total(Seen(T)) <= One
    BY <1>3, <1>4 DEF One
  <1>6. QED
    BY <1>5 DEF WithinOne, Seen

\* What HistoryInv says of the facts a report is composed of.
LEMMA ReportFacts ==
  ASSUME HistoryInv, NEW known \in 0..now, NEW day \in Days
  PROVE  /\ known \in Times /\ day \in Nat
         /\ IsFiniteSet(employment) /\ IsFiniteSet(assignment)
         /\ IsFiniteSet(Visible(assignment, day, known))
         /\ IsFiniteSet(Reported(employment, day, known))
         /\ \A a \in assignment : a.ratio \in Nat
  <1>1. known \in Times /\ day \in Nat
    BY ClockAssumption, DayAssumption DEF HistoryInv, KeyInv, Shape, Times
  <1>2. IsFiniteSet(employment) /\ IsFiniteSet(assignment)
    BY DEF HistoryInv, FactsInv, FactsTyped
  <1>3. /\ Visible(assignment, day, known) \subseteq assignment
        /\ Reported(employment, day, known) \subseteq employment
    BY DEF Visible, Reported
  <1>4. /\ IsFiniteSet(Visible(assignment, day, known))
        /\ IsFiniteSet(Reported(employment, day, known))
    BY <1>2, <1>3, FS_Subset
  <1>5. \A a \in assignment : a.ratio \in Nat
    BY DEF HistoryInv, FactsInv, FactsTyped
  <1>6. QED
    BY <1>1, <1>2, <1>4, <1>5

\* Whatever raced, the workforce can be reported at every day and cutoff: governed writes
\* never leave facts that build_workforce_composition_snapshot refuses.
THEOREM WorkforceReportable == Spec => []Reportable
  <1>1. HistoryInv => Reportable
    <2> SUFFICES ASSUME HistoryInv, NEW known \in 0..now, NEW day \in Days
                 PROVE  Composable(employment, assignment, day, known)
      BY DEF Reportable
    <2>1. SingleValued(employment, assignment, day, known)
      <3>1. ASSUME NEW v \in Visible(employment, day, known),
                   NEW w \in Visible(employment, day, known), v.employment = w.employment
            PROVE  v = w
        <4>1. /\ v \in employment /\ w \in employment
              /\ Contains(v, day) /\ Contains(w, day)
          BY DEF Visible
        <4>2. /\ v.from \in Nat /\ v.to \in Nat /\ w.from \in Nat /\ w.to \in Nat
          BY <4>1, CursorsOrdered DEF HistoryInv, FactsInv, FactsTyped
        <4>3. Overlaps(v, w)
          BY <4>1, <4>2, ReportFacts DEF Overlaps, Contains
        <4>4. QED
          BY <3>1, <4>1, <4>3 DEF HistoryInv, FactsInv, IdentitiesUsedOnce
      <3>2. \A a, b \in Visible(assignment, day, known) : a.assignment = b.assignment => a = b
        BY DEF Visible, HistoryInv, FactsInv, IdentitiesUsedOnce
      <3>3. QED
        BY <3>1, <3>2 DEF SingleValued
    <2>2. PortfoliosPermitted(employment, day, known)
      <3> SUFFICES ASSUME NEW u \in Visible(employment, day, known)
                   PROVE  Exclusive({v \in Visible(employment, day, known) : v.person = u.person},
                                    known)
        BY DEF PortfoliosPermitted
      <3>1. u.person \in Persons
        BY DEF Visible, HistoryInv, FactsInv, FactsTyped
      <3>2. Exclusive(EmploymentsOf(u.person), known)
        BY <3>1, ReportFacts DEF HistoryInv, FactsInv, ExclusiveAlways
      <3>3. QED
        BY <3>2 DEF Exclusive, EmploymentsOf, Visible
    <2>3. AssignmentsPermitted(employment, assignment, day, known)
      <3> SUFFICES ASSUME NEW a \in Visible(assignment, day, known)
                   PROVE  /\ EmploymentCovers(a, VersionsOf(a.employment), known)
                          /\ WithinOne({b \in assignment : /\ b.person = a.person
                                                           /\ b.employment = a.employment},
                                       day, known)
                          /\ WithinOne(OnSeat(assignment, a.position), day, known)
        BY DEF AssignmentsPermitted, VersionsOf, OnSeat
      <3>1. a \in assignment /\ KnownAt(a, known) /\ known \in Times
        BY ReportFacts DEF Visible
      <3>2. EmploymentCovers(a, VersionsOf(a.employment), known)
        BY <3>1 DEF HistoryInv, FactsInv, StaffedAlways
      <3>3. /\ WithinOne(OnSeat(assignment, a.position), day, known)
            /\ WithinOne(OnEmployment(assignment, a.employment), day, known)
        BY <3>1 DEF HistoryInv, FactsInv, AllocatedAlways
      <3>4. /\ IsFiniteSet(OnEmployment(assignment, a.employment))
            /\ \A b \in OnEmployment(assignment, a.employment) : b.ratio \in Nat
        BY ReportFacts, FS_Subset DEF OnEmployment
      <3>5. {b \in assignment : b.person = a.person /\ b.employment = a.employment}
              \subseteq OnEmployment(assignment, a.employment)
        BY DEF OnEmployment
      <3>6. WithinOne({b \in assignment : b.person = a.person /\ b.employment = a.employment},
                      day, known)
        BY <3>3, <3>4, <3>5, PartWithinOne
      <3>7. QED
        BY <3>2, <3>3, <3>6
    <2>4. QED
      BY <2>1, <2>2, <2>3 DEF Composable
  <1>2. QED
    BY InitHistoryInv, NextHistoryInv, <1>1, PTL DEF Spec

\* Finitely many facts are of finitely many persons.
LEMMA PersonsFinite ==
  ASSUME NEW facts, IsFiniteSet(facts)
  PROVE  IsFiniteSet({f.person : f \in facts})
  <1> DEFINE persons == {f.person : f \in facts}
             of == [f \in facts |-> f.person]
  <1>1. of \in Surjection(facts, persons)
    BY DEF Surjection
  <1>2. QED
    BY <1>1, FS_Surjection DEF ExistsSurjection

\* An assignment in force is on an employment that is reported.
LEMMA AssignedIsEmployed ==
  ASSUME HistoryInv, NEW known \in 0..now, NEW day \in Days,
         NEW a \in Visible(assignment, day, known)
  PROVE  \E v \in Reported(employment, day, known) :
           v.person = a.person /\ v.employment = a.employment
  <1> DEFINE met == {v \in VersionsOf(a.employment) : KnownAt(v, known) /\ Overlaps(v, a)}
             active == {v \in met : v.status \in {"active", "leave"}}
  <1>1. a \in assignment /\ Contains(a, day) /\ KnownAt(a, known) /\ known \in Times
    BY ReportFacts DEF Visible
  <1>2. a.from \in Days /\ a.to \in Cursors
    BY <1>1 DEF HistoryInv, FactsInv, FactsTyped, Cursors
  <1>3. \A v \in active : v.from \in Nat /\ v.to \in Cursors
    BY DayAssumption DEF VersionsOf, HistoryInv, FactsInv, FactsTyped
  <1>4. EmploymentCovers(a, VersionsOf(a.employment), known)
    BY <1>1 DEF HistoryInv, FactsInv, StaffedAlways
  <1>5. UnionCovers(active, a) /\ \A v \in VersionsOf(a.employment) : v.person = a.person
    BY <1>4 DEF EmploymentCovers
  <1> HIDE DEF active
  <1>6. PICK v \in active : Contains(v, day)
    BY <1>1, <1>2, <1>3, <1>5, UnionCoversDays
  <1>7. /\ v \in VersionsOf(a.employment) /\ KnownAt(v, known)
        /\ v.status \in {"active", "leave"}
    BY DEF active
  <1>8. QED
    BY <1>5, <1>6, <1>7 DEF VersionsOf, Reported, Visible

\* The counts of a report agree, although each is derived on its own: whoever is staffed
\* is employed, and no employment reported carries more than one full allocation.
THEOREM ReportsAgree == Spec => []CountsAgree
  <1>1. HistoryInv => CountsAgree
    <2> SUFFICES ASSUME HistoryInv, NEW known \in 0..now, NEW day \in Days
                 PROVE  LET report == Composition(employment, assignment, day, known) IN
                        /\ report.headcount = report.staffed + report.unassigned
                        /\ report.fte <= One * report.employments
      BY DEF CountsAgree
    <2> DEFINE reported == Reported(employment, day, known)
               working == Visible(assignment, day, known)
               employed == {v.person : v \in reported}
               staffed == {a.person : a \in working}
    <2>1. /\ IsFiniteSet(reported) /\ IsFiniteSet(working) /\ known \in Times
          /\ \A a \in working : a.ratio \in Nat
      BY ReportFacts DEF Visible
    <2>2. \A a \in working : \E v \in reported :
            v.person = a.person /\ v.employment = a.employment
      BY AssignedIsEmployed
    <2>3. Cardinality(employed) = Cardinality(staffed) + Cardinality(employed \ staffed)
      <3>1. staffed \subseteq employed
        BY <2>2
      <3>2. IsFiniteSet(employed) /\ IsFiniteSet(staffed)
        BY <2>1, PersonsFinite
      <3> HIDE DEF employed, staffed
      <3>3. employed \cap staffed = staffed
        BY <3>1
      <3>4. Cardinality(employed \ staffed) = Cardinality(employed) - Cardinality(staffed)
        BY <3>2, <3>3, FS_Difference
      <3>5. Cardinality(employed) \in Nat /\ Cardinality(staffed) \in Nat
        BY <3>2, FS_CardinalityType
      <3>6. QED
        BY <3>4, <3>5
    <2>4. Total(working) <= One * Cardinality(reported)
      <3>1. ASSUME NEW v \in reported
            PROVE  Total({a \in working : a.employment = v.employment}) <= One
        <4>1. WithinOne(OnEmployment(assignment, v.employment), day, known)
          <5>1. CASE OnEmployment(assignment, v.employment) = {}
            BY <5>1, RoomWhenEmpty
          <5>2. CASE \E a \in assignment : a.employment = v.employment
            BY <2>1, <5>2 DEF HistoryInv, FactsInv, AllocatedAlways
          <5>3. QED
            BY <5>1, <5>2 DEF OnEmployment
        <4>2. {a \in OnEmployment(assignment, v.employment) : Contains(a, day) /\ KnownAt(a, known)}
                = {a \in working : a.employment = v.employment}
          BY DEF OnEmployment, Visible
        <4>3. QED
          BY <4>1, <4>2 DEF WithinOne
      <3>2. \A a \in working : \E v \in reported : v.employment = a.employment
        BY <2>2
      <3> HIDE DEF working, reported
      <3>3. QED
        BY <2>1, <3>1, <3>2, TotalByEmployment
    <2>5. QED
      BY <2>3, <2>4 DEF Composition
  <1>2. QED
    BY InitHistoryInv, NextHistoryInv, <1>1, PTL DEF Spec
==============================================================================
