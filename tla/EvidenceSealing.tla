---------------------------- MODULE EvidenceSealing ----------------------------
(***************************************************************************)
(* The sealing of decision evidence (database/migrations 0001, 0002): the     *)
(* tables decision_evidence_set, selection_decision_evidence and               *)
(* selection_decision, and the triggers that guard them against whatever DML   *)
(* concurrent sessions send.                                                  *)
(*                                                                           *)
(* A step is one statement with its BEFORE triggers.  A statement that touches  *)
(* the row of a set locks it (FOR UPDATE, UPDATE) until its transaction ends.   *)
(* The deferred binding guard runs in Commit.  A transaction works on one set.  *)
(* The digest is modelled as the set of members it was computed over: members   *)
(* are hashed sorted, and SHA-256 is taken to be injective.                   *)
(***************************************************************************)
EXTENDS FiniteSets

CONSTANTS
  Sets,               \* decision_evidence_set_id
  Members,            \* evidence_reference with evidence_version_code
  Decisions,          \* selection_decision_id
  Sessions,
  SnapshotSessions,   \* the sessions whose transactions are REPEATABLE READ
  NoSet, NoDecision

ASSUME SealingAssumption ==
  /\ NoSet \notin Sets
  /\ NoDecision \notin Decisions
  /\ SnapshotSessions \subseteq Sessions

VARIABLES
  evidence,     \* the committed row of each set
  member,       \* its committed selection_decision_evidence rows
  decision,     \* the set each committed selection_decision consumed
  tx            \* the transaction of each session

vars == <<evidence, member, decision, tx>>
tables == <<evidence, member, decision>>

AbsentRow == [state |-> "absent", decision |-> NoDecision, digest |-> {}]
OpenRow == [AbsentRow EXCEPT !.state = "open"]

\* decision_evidence_seal_state_check: all three seal columns or none.
SealedRow(x, digest) == [state |-> "sealed", decision |-> x, digest |-> digest]
SealedRows == {SealedRow(x, digest) : x \in Decisions, digest \in SUBSET Members}

Row == {AbsentRow, OpenRow} \cup SealedRows

\* held: the row of the set is locked, row is its version in the transaction.
\* seen and seenMembers: the snapshot of a REPEATABLE READ transaction.
Transaction ==
  [set         : Sets \cup {NoSet},
   held        : BOOLEAN,
   row         : Row,
   added       : SUBSET Members,
   decision    : Decisions \cup {NoDecision},
   seen        : Row,
   seenMembers : SUBSET Members]

Idle == [set |-> NoSet, held |-> FALSE, row |-> AbsentRow, added |-> {},
         decision |-> NoDecision, seen |-> AbsentRow, seenMembers |-> {}]

TypeOK ==
  /\ evidence \in [Sets -> Row]
  /\ member \in [Sets -> SUBSET Members]
  /\ decision \in [Decisions -> Sets \cup {NoSet}]
  /\ tx \in [Sessions -> Transaction]

Init ==
  /\ evidence = [e \in Sets |-> AbsentRow]
  /\ member = [e \in Sets |-> {}]
  /\ decision = [x \in Decisions |-> NoSet]
  /\ tx = [s \in Sessions |-> Idle]

------------------------------------------------------------------------------
Busy(s) == tx[s].set # NoSet

\* Mutant: the triggers read the set without FOR UPDATE.
LockableAlways(s) == TRUE

\* No other transaction holds the row, and under REPEATABLE READ nobody has
\* updated it since the snapshot (could not serialize access).
Lockable(s) ==
  /\ \A q \in Sessions \ {s} : tx[q].held => tx[q].set # tx[s].set
  /\ s \in SnapshotSessions /\ ~tx[s].held => evidence[tx[s].set] = tx[s].seen

\* The version of the row that a statement of s finds once it has the lock.
Current(s) == IF tx[s].held THEN tx[s].row ELSE evidence[tx[s].set]

VisibleMembers(s) ==
  tx[s].added \cup (IF s \in SnapshotSessions THEN tx[s].seenMembers
                                               ELSE member[tx[s].set])

\* Mutant: the guard of 0001, which let a sealed row be sealed again.
SealPermittedAgain(old, new) == new.state = "sealed"

\* protect_evidence_set_seal: one update, from open to sealed.
SealPermitted(old, new) == old.state = "open" /\ new.state = "sealed"

------------------------------------------------------------------------------
Begin(s, e) ==
  /\ ~Busy(s)
  /\ tx' = [tx EXCEPT ![s] = [Idle EXCEPT !.set = e, !.seen = evidence[e],
                                          !.seenMembers = member[e]]]
  /\ UNCHANGED tables

\* A statement of s writes this version of the row, with the members added and
\* the decision inserted so far.
Write(s, row, added, x) ==
  /\ tx' = [tx EXCEPT ![s] = [tx[s] EXCEPT !.held = TRUE, !.row = row, !.added = added,
                                           !.decision = x]]
  /\ UNCHANGED tables

\* No trigger guards the insert: the row may claim to be sealed already.
InsertSet(s, row) ==
  /\ Busy(s) /\ Lockable(s)
  /\ Current(s).state = "absent"
  /\ Write(s, row, tx[s].added, tx[s].decision)

\* reject_sealed_evidence_insert, then the insert; a member is unique in its set.
AddMember(s, m) ==
  /\ Busy(s) /\ Lockable(s)
  /\ Current(s).state = "open"
  /\ m \notin member[tx[s].set] \cup tx[s].added
  /\ Write(s, Current(s), tx[s].added \cup {m}, tx[s].decision)

\* Nobody else has inserted the decision (its primary key makes them wait).
Unused(s, x) == decision[x] = NoSet /\ \A q \in Sessions : tx[q].decision # x

\* seal_decision_evidence_set, then the insert of the decision.
Decide(s, x) ==
  LET new == SealedRow(x, VisibleMembers(s)) IN
  /\ Busy(s) /\ Lockable(s) /\ Unused(s, x)
  /\ VisibleMembers(s) # {}
  /\ SealPermitted(Current(s), new)
  /\ Write(s, new, tx[s].added, x)

\* Any other UPDATE of the set.
UpdateSet(s, row) ==
  /\ Busy(s) /\ Lockable(s)
  /\ SealPermitted(Current(s), row)
  /\ Write(s, row, tx[s].added, tx[s].decision)

\* Mutant: without the deferred guard any existing decision will do.
BoundToAny(row, e, decisions) ==
  row.state = "sealed" => decisions[row.decision] # NoSet

\* validate_evidence_set_decision_binding; the row is checked as inserted or updated.
BoundTo(row, e, decisions) ==
  row.state = "sealed" => decisions[row.decision] = e

Commit(s) ==
  LET e == tx[s].set IN
  /\ Busy(s) /\ tx[s].held
  /\ evidence' = [evidence EXCEPT ![e] = tx[s].row]
  /\ member' = [member EXCEPT ![e] = @ \cup tx[s].added]
  /\ decision' = [x \in Decisions |-> IF x = tx[s].decision THEN e ELSE decision[x]]
  /\ BoundTo(tx[s].row, e, decision')
  /\ tx' = [tx EXCEPT ![s] = Idle]

\* Rollback: by the client, by an error of any trigger, or by a lost connection.
Abort(s) ==
  /\ Busy(s)
  /\ tx' = [tx EXCEPT ![s] = Idle]
  /\ UNCHANGED tables

Step(s) ==
  \/ \E e \in Sets : Begin(s, e)
  \/ \E row \in {OpenRow} \cup SealedRows : InsertSet(s, row)
  \/ \E m \in Members : AddMember(s, m)
  \/ \E x \in Decisions : Decide(s, x)
  \/ \E row \in SealedRows : UpdateSet(s, row)
  \/ Commit(s)
  \/ Abort(s)

Next == \E s \in Sessions : Step(s)

Spec == Init /\ [][Next]_vars

------------------------------------------------------------------------------
(* Safety *)

\* The digest of a sealed set is computed over all of its members and by the
\* decision that consumed it ("SHA-256 over the sorted versioned evidence members
\* in the same transaction that records the accountable selection decision",
\* 0002), although members and decisions race and clients may write the seal
\* columns themselves.
SealedOnMembership ==
  \A e \in Sets :
    evidence[e].state = "sealed" =>
      /\ evidence[e].digest = member[e] /\ member[e] # {}
      /\ decision[evidence[e].decision] = e

\* A decision stands on evidence that is sealed in its name, so no two
\* decisions share a set and none rests on an open one.
DecisionOwnsEvidence ==
  \A x \in Decisions :
    decision[x] # NoSet =>
      /\ evidence[decision[x]].state = "sealed"
      /\ evidence[decision[x]].decision = x

\* Whatever is committed later, sealed evidence and its seal stay what they were
\* when the decision was recorded.
EvidenceFrozen ==
  [][\A e \in Sets :
       evidence[e].state = "sealed" =>
         evidence'[e] = evidence[e] /\ member'[e] = member[e]]_vars
==============================================================================
