------------------------- MODULE EvidenceSealingProofs -------------------------
(***************************************************************************)
(* For all sets, members, decisions and sessions: as long as every session    *)
(* runs READ COMMITTED, a sealed set is sealed on exactly its members, by the  *)
(* one decision that consumed it, for good.                                   *)
(***************************************************************************)
EXTENDS EvidenceSealing, TLAPS

\* The strengthening: what an open transaction knows stays true until it ends.

\* The row lock is exclusive.
LockExclusive ==
  \A s, q \in Sessions :
    tx[s].held /\ tx[q].held /\ tx[s].set = tx[q].set => s = q

\* A locked set has no committed seal yet, so its members may still change, and
\* only by the transaction that holds the lock.
LockedUnsealed ==
  \A s \in Sessions :
    tx[s].held => tx[s].set \in Sets /\ evidence[tx[s].set].state # "sealed"

\* Without the lock nothing has been written.
LockedToWrite ==
  \A s \in Sessions :
    ~tx[s].held => tx[s].added = {} /\ tx[s].decision = NoDecision

\* An uncommitted decision has sealed its set on what its members will be.
Deciding(s) ==
  /\ tx[s].row = SealedRow(tx[s].decision, member[tx[s].set] \cup tx[s].added)
  /\ member[tx[s].set] \cup tx[s].added # {}
  /\ decision[tx[s].decision] = NoSet

DecisionsPrepared ==
  \A s \in Sessions : tx[s].decision # NoDecision => Deciding(s)

DecisionsDistinct ==
  \A s, q \in Sessions :
    tx[s].decision # NoDecision /\ tx[s].decision = tx[q].decision => s = q

Inv ==
  /\ TypeOK
  /\ LockExclusive /\ LockedUnsealed /\ LockedToWrite
  /\ DecisionsPrepared /\ DecisionsDistinct
  /\ SealedOnMembership /\ DecisionOwnsEvidence

------------------------------------------------------------------------------
\* The rows the statements write are rows.
LEMMA RowTypes ==
  /\ AbsentRow \in Row /\ OpenRow \in Row /\ Idle \in Transaction
  /\ \A x \in Decisions, digest \in SUBSET Members : SealedRow(x, digest) \in Row
  /\ SealedRows \subseteq Row
  /\ \A row \in Row : row.state = "sealed" => row.decision \in Decisions
  <1>1. AbsentRow \in Row /\ OpenRow \in Row /\ SealedRows \subseteq Row
    BY DEF Row
  <1>2. Idle \in Transaction
    BY <1>1 DEF Idle, Transaction
  <1>3. \A x \in Decisions, digest \in SUBSET Members : SealedRow(x, digest) \in Row
    BY DEF Row, SealedRows
  <1>4. ASSUME NEW row \in Row, row.state = "sealed"
        PROVE  row.decision \in Decisions
    <2>1. AbsentRow.state # "sealed" /\ OpenRow.state # "sealed"
      BY DEF AbsentRow, OpenRow
    <2>2. row \in SealedRows
      BY <1>4, <2>1 DEF Row
    <2>3. QED
      BY <2>2 DEF SealedRows, SealedRow
  <1>5. QED
    BY <1>1, <1>2, <1>3, <1>4

\* With no set and no session, nothing is sealed.
LEMMA InitInv == Init => Inv
  <1> SUFFICES ASSUME Init PROVE Inv
    OBVIOUS
  <1>1. TypeOK
    BY RowTypes DEF Init, TypeOK
  <1>2. \A s \in Sessions : tx[s] = Idle
    BY DEF Init
  <1>3. LockExclusive /\ LockedUnsealed /\ LockedToWrite
    BY <1>2 DEF Idle, LockExclusive, LockedUnsealed, LockedToWrite
  <1>4. DecisionsPrepared /\ DecisionsDistinct
    BY <1>2 DEF Idle, DecisionsPrepared, DecisionsDistinct
  <1>5. SealedOnMembership /\ DecisionOwnsEvidence
    BY DEF Init, AbsentRow, SealedOnMembership, DecisionOwnsEvidence
  <1>6. QED
    BY <1>1, <1>3, <1>4, <1>5 DEF Inv

------------------------------------------------------------------------------
(* One statement, and then the end of the transaction.                        *)

Statement(s) ==
  \/ \E row \in {OpenRow} \cup SealedRows : InsertSet(s, row)
  \/ \E m \in Members : AddMember(s, m)
  \/ \E x \in Decisions : Decide(s, x)
  \/ \E row \in SealedRows : UpdateSet(s, row)

\* What Write leaves alone.
LEMMA WriteTypes ==
  ASSUME NEW s \in Sessions, NEW row \in Row, NEW added \in SUBSET Members,
         NEW x \in Decisions \cup {NoDecision}, TypeOK, Write(s, row, added, x)
  PROVE  /\ TypeOK'
         /\ \A q \in Sessions \ {s} : tx'[q] = tx[q]
         /\ tx'[s].held /\ tx'[s].set = tx[s].set
         /\ tx'[s].row = row /\ tx'[s].added = added /\ tx'[s].decision = x
         /\ evidence' = evidence /\ member' = member /\ decision' = decision
  <1> DEFINE new == [tx[s] EXCEPT !.held = TRUE, !.row = row, !.added = added, !.decision = x]
  <1>1. tx[s] \in Transaction
    BY DEF TypeOK
  <1>2. /\ new \in Transaction /\ new.held /\ new.set = tx[s].set
        /\ new.row = row /\ new.added = added /\ new.decision = x
    BY <1>1 DEF Transaction
  <1>3. tx' = [tx EXCEPT ![s] = new] /\ UNCHANGED tables
    BY DEF Write
  <1> HIDE DEF new
  <1>4. tx'[s] = new /\ \A q \in Sessions \ {s} : tx'[q] = tx[q]
    BY <1>3 DEF TypeOK
  <1>5. TypeOK'
    BY <1>2, <1>3 DEF TypeOK, tables
  <1>6. QED
    BY <1>2, <1>3, <1>4, <1>5 DEF tables

\* A statement finds its set unlocked by others and not sealed, so its
\* transaction has inserted no decision yet.
LEMMA FindsUnsealed ==
  ASSUME NEW s \in Sessions, Inv, Busy(s), Lockable(s), Current(s).state # "sealed"
  PROVE  /\ tx[s].set \in Sets /\ evidence[tx[s].set].state # "sealed"
         /\ tx[s].decision = NoDecision
         /\ \A q \in Sessions \ {s} : tx[q].held => tx[q].set # tx[s].set
  <1>1. tx[s] \in Transaction /\ tx[s].set \in Sets
    BY DEF Inv, TypeOK, Busy, Transaction
  <1>2. CASE tx[s].held
    <2>1. tx[s].row.state # "sealed"
      BY <1>2 DEF Current
    <2>2. ASSUME tx[s].decision # NoDecision
          PROVE  tx[s].row.state = "sealed"
      <3>1. Deciding(s)
        BY <2>2 DEF Inv, DecisionsPrepared
      <3>2. QED
        BY <3>1 DEF Deciding, SealedRow
    <2>3. QED
      BY <1>1, <1>2, <2>1, <2>2 DEF Inv, LockedUnsealed, Lockable
  <1>3. CASE ~tx[s].held
    BY <1>1, <1>3 DEF Inv, LockedToWrite, Current, Lockable
  <1>4. QED
    BY <1>1, <1>2, <1>3 DEF Transaction

\* A write that finds its set unsealed keeps the invariant, if a decision that
\* it inserts is prepared and new.
LEMMA WriteInv ==
  ASSUME NEW s \in Sessions, NEW row \in Row, NEW added \in SUBSET Members,
         NEW x \in Decisions \cup {NoDecision},
         Inv, Busy(s), Lockable(s), Current(s).state # "sealed",
         Write(s, row, added, x),
         x # NoDecision =>
           /\ row = SealedRow(x, member[tx[s].set] \cup added)
           /\ member[tx[s].set] \cup added # {}
           /\ Unused(s, x)
  PROVE  Inv'
  <1>1. /\ TypeOK'
        /\ \A q \in Sessions \ {s} : tx'[q] = tx[q]
        /\ tx'[s].held /\ tx'[s].set = tx[s].set
        /\ tx'[s].row = row /\ tx'[s].added = added /\ tx'[s].decision = x
        /\ evidence' = evidence /\ member' = member /\ decision' = decision
    BY WriteTypes DEF Inv
  <1>2. /\ tx[s].set \in Sets /\ evidence[tx[s].set].state # "sealed"
        /\ \A q \in Sessions \ {s} : tx[q].held => tx[q].set # tx[s].set
    BY FindsUnsealed
  <1>3. LockExclusive'
    BY <1>1, <1>2 DEF Inv, LockExclusive
  <1>4. LockedUnsealed'
    BY <1>1, <1>2 DEF Inv, LockedUnsealed
  <1>5. LockedToWrite'
    BY <1>1 DEF Inv, LockedToWrite
  <1>6. DecisionsPrepared'
    <2> SUFFICES ASSUME NEW q \in Sessions, tx'[q].decision # NoDecision
                 PROVE  Deciding(q)'
      BY DEF DecisionsPrepared
    <2>1. CASE q = s
      BY <1>1, <2>1 DEF Deciding, Unused
    <2>2. CASE q # s
      BY <1>1, <2>2 DEF Inv, DecisionsPrepared, Deciding
    <2>3. QED
      BY <2>1, <2>2
  <1>7. DecisionsDistinct'
    BY <1>1 DEF Inv, DecisionsDistinct, Unused
  <1>8. SealedOnMembership' /\ DecisionOwnsEvidence'
    BY <1>1 DEF Inv, SealedOnMembership, DecisionOwnsEvidence
  <1>9. QED
    BY <1>1, <1>3, <1>4, <1>5, <1>6, <1>7, <1>8 DEF Inv

\* A READ COMMITTED statement changes only what its transaction holds.
LEMMA StatementInv ==
  ASSUME SnapshotSessions = {}, NEW s \in Sessions, Inv, Statement(s)
  PROVE  Inv'
  <1>1. Current(s) \in Row /\ tx[s] \in Transaction
    BY DEF Inv, TypeOK, Current, Transaction, Statement, InsertSet, AddMember, Decide,
       UpdateSet, Busy
  <1>2. ASSUME NEW row \in {OpenRow} \cup SealedRows, InsertSet(s, row)
        PROVE  Inv'
    <2>1. row \in Row
      BY RowTypes
    <2>2. tx[s].decision = NoDecision
      BY <1>2, FindsUnsealed DEF InsertSet
    <2>3. QED
      BY <1>1, <1>2, <2>1, <2>2, WriteInv DEF InsertSet, Transaction
  <1>3. ASSUME NEW m \in Members, AddMember(s, m)
        PROVE  Inv'
    <2>1. tx[s].decision = NoDecision
      BY <1>3, FindsUnsealed DEF AddMember
    <2>2. tx[s].added \cup {m} \in SUBSET Members
      BY <1>1 DEF Transaction
    <2>3. QED
      BY <1>1, <1>3, <2>1, <2>2, WriteInv DEF AddMember
  <1>4. ASSUME NEW x \in Decisions, Decide(s, x)
        PROVE  Inv'
    <2>1. Current(s).state = "open" /\ tx[s].set \in Sets
      BY <1>1, <1>4 DEF Decide, SealPermitted, Busy, Transaction
    <2>2. VisibleMembers(s) = member[tx[s].set] \cup tx[s].added
      BY DEF VisibleMembers
    <2>3. tx[s].added \in SUBSET Members /\ VisibleMembers(s) \in SUBSET Members
      BY <1>1, <2>1, <2>2 DEF Inv, TypeOK, Transaction
    <2>4. SealedRow(x, VisibleMembers(s)) \in Row
      BY <2>3, RowTypes
    <2>5. QED
      BY <1>4, <2>1, <2>2, <2>3, <2>4, WriteInv DEF Decide
  <1>5. ASSUME NEW row \in SealedRows, UpdateSet(s, row)
        PROVE  Inv'
    <2>1. row \in Row
      BY RowTypes
    <2>2. Current(s).state = "open"
      BY <1>5 DEF UpdateSet, SealPermitted
    <2>3. tx[s].decision = NoDecision
      BY <1>5, <2>2, FindsUnsealed DEF UpdateSet
    <2>4. QED
      BY <1>1, <1>5, <2>1, <2>2, <2>3, WriteInv DEF UpdateSet, Transaction
  <1>6. QED
    BY <1>2, <1>3, <1>4, <1>5 DEF Statement

\* Beginning or ending a transaction without effect.
LEMMA ResetInv ==
  ASSUME NEW s \in Sessions, NEW t \in Transaction, Inv,
         ~t.held, t.added = {}, t.decision = NoDecision,
         tx' = [tx EXCEPT ![s] = t], UNCHANGED tables
  PROVE  Inv'
  <1>1. /\ tx'[s] = t /\ \A q \in Sessions \ {s} : tx'[q] = tx[q]
        /\ tx' \in [Sessions -> Transaction]
        /\ evidence' = evidence /\ member' = member /\ decision' = decision
    BY DEF Inv, TypeOK, tables
  <1>2. TypeOK'
    BY <1>1 DEF Inv, TypeOK
  <1>3. LockExclusive' /\ LockedUnsealed' /\ LockedToWrite'
    BY <1>1 DEF Inv, LockExclusive, LockedUnsealed, LockedToWrite
  <1>4. DecisionsPrepared' /\ DecisionsDistinct'
    BY <1>1 DEF Inv, DecisionsPrepared, Deciding, DecisionsDistinct
  <1>5. SealedOnMembership' /\ DecisionOwnsEvidence'
    BY <1>1 DEF Inv, SealedOnMembership, DecisionOwnsEvidence
  <1>6. QED
    BY <1>2, <1>3, <1>4, <1>5 DEF Inv

\* The effect of a commit on the tables.  The deferred guard makes sure that a
\* row which is committed as sealed was sealed by this transaction's decision: a
\* decision committed before would have sealed the set already.
LEMMA CommitEffect ==
  ASSUME NEW s \in Sessions, Inv, Commit(s)
  PROVE  LET e == tx[s].set  x == tx[s].decision IN
         /\ TypeOK' /\ e \in Sets /\ evidence[e].state # "sealed"
         /\ tx'[s] = Idle /\ \A q \in Sessions \ {s} : tx'[q] = tx[q]
         /\ evidence'[e] = tx[s].row /\ member'[e] = member[e] \cup tx[s].added
         /\ \A f \in Sets \ {e} : evidence'[f] = evidence[f] /\ member'[f] = member[f]
         /\ \A y \in Decisions \ {x} : decision'[y] = decision[y]
         /\ x # NoDecision => x \in Decisions /\ decision'[x] = e
         /\ tx[s].row.state = "sealed" => x # NoDecision
  <1> DEFINE e == tx[s].set
             x == tx[s].decision
  <1>1. tx[s] \in Transaction /\ tx[s].held /\ e \in Sets /\ evidence[e].state # "sealed"
    BY DEF Inv, TypeOK, LockedUnsealed, Commit
  <1>2. /\ evidence' = [evidence EXCEPT ![e] = tx[s].row]
        /\ member' = [member EXCEPT ![e] = member[e] \cup tx[s].added]
        /\ decision' = [y \in Decisions |-> IF y = x THEN e ELSE decision[y]]
        /\ tx' = [tx EXCEPT ![s] = Idle]
        /\ BoundTo(tx[s].row, e, decision')
    BY DEF Commit
  <1>3. tx[s].row \in Row /\ tx[s].added \subseteq Members /\ x \in Decisions \cup {NoDecision}
    BY <1>1 DEF Transaction
  <1>4. TypeOK'
    BY <1>1, <1>2, <1>3, RowTypes DEF Inv, TypeOK
  <1>5. tx'[s] = Idle /\ \A q \in Sessions \ {s} : tx'[q] = tx[q]
    BY <1>2 DEF Inv, TypeOK
  <1>6. /\ evidence'[e] = tx[s].row /\ member'[e] = member[e] \cup tx[s].added
        /\ \A f \in Sets \ {e} : evidence'[f] = evidence[f] /\ member'[f] = member[f]
    BY <1>1, <1>2 DEF Inv, TypeOK
  <1>7. /\ \A y \in Decisions \ {x} : decision'[y] = decision[y]
        /\ x # NoDecision => x \in Decisions /\ decision'[x] = e
    BY <1>2, <1>3
  <1>8. ASSUME tx[s].row.state = "sealed", x = NoDecision
        PROVE  FALSE
    <2> DEFINE y == tx[s].row.decision
    <2>1. decision' = decision
      BY <1>2, <1>8, SealingAssumption DEF Inv, TypeOK
    <2>2. decision[y] = e
      BY <1>2, <1>8, <2>1 DEF BoundTo
    <2>3. y \in Decisions
      BY <1>3, <1>8, RowTypes
    <2>4. QED
      BY <1>1, <2>2, <2>3, SealingAssumption DEF Inv, DecisionOwnsEvidence
  <1>9. QED
    BY <1>1, <1>4, <1>5, <1>6, <1>7, <1>8

\* A commit publishes what the transaction's locks kept apart.
LEMMA CommitInv ==
  ASSUME NEW s \in Sessions, Inv, Commit(s)
  PROVE  Inv'
  <1> DEFINE e == tx[s].set
             x == tx[s].decision
  <1>1. /\ TypeOK' /\ e \in Sets /\ evidence[e].state # "sealed"
        /\ tx'[s] = Idle /\ \A q \in Sessions \ {s} : tx'[q] = tx[q]
        /\ evidence'[e] = tx[s].row /\ member'[e] = member[e] \cup tx[s].added
        /\ \A f \in Sets \ {e} : evidence'[f] = evidence[f] /\ member'[f] = member[f]
        /\ \A y \in Decisions \ {x} : decision'[y] = decision[y]
        /\ x # NoDecision => x \in Decisions /\ decision'[x] = e
        /\ tx[s].row.state = "sealed" => x # NoDecision
    BY CommitEffect
  <1>2. tx[s].held /\ tx[s] \in Transaction
    BY DEF Inv, TypeOK, Commit
  <1>3. x # NoDecision => Deciding(s)
    BY DEF Inv, DecisionsPrepared
  <1>4. ASSUME x # NoDecision
        PROVE  /\ decision[x] = NoSet
               /\ evidence'[e].state = "sealed" /\ evidence'[e].decision = x
               /\ evidence'[e].digest = member'[e] /\ member'[e] # {}
    <2>1. SealedRow(x, member'[e]).state = "sealed" /\ SealedRow(x, member'[e]).decision = x
          /\ SealedRow(x, member'[e]).digest = member'[e]
      BY DEF SealedRow
    <2>2. evidence'[e] = SealedRow(x, member'[e]) /\ member'[e] # {} /\ decision[x] = NoSet
      BY <1>1, <1>3, <1>4 DEF Deciding
    <2>3. QED
      BY <2>1, <2>2
  \* The others hold other sets and insert other decisions.
  <1>5. ASSUME NEW q \in Sessions \ {s}, tx[q].held
        PROVE  /\ tx[q].set \in Sets \ {e}
               /\ evidence'[tx[q].set] = evidence[tx[q].set]
               /\ member'[tx[q].set] = member[tx[q].set]
    BY <1>1, <1>2, <1>5 DEF Inv, LockExclusive, LockedUnsealed
  <1>6. LockExclusive'
    BY <1>1 DEF Inv, LockExclusive, Idle
  <1>7. LockedUnsealed'
    BY <1>1, <1>5 DEF Inv, LockedUnsealed, Idle
  <1>8. LockedToWrite'
    BY <1>1 DEF Inv, LockedToWrite, Idle
  <1>9. DecisionsPrepared'
    <2> SUFFICES ASSUME NEW q \in Sessions, tx'[q].decision # NoDecision
                 PROVE  Deciding(q)'
      BY DEF DecisionsPrepared
    <2>1. q # s /\ tx'[q] = tx[q]
      BY <1>1 DEF Idle
    <2>2. Deciding(q) /\ tx[q].held
      BY <2>1 DEF Inv, DecisionsPrepared, LockedToWrite
    <2>3. tx[q].decision # x /\ tx[q].decision \in Decisions
      BY <2>1 DEF Inv, DecisionsDistinct, TypeOK, Transaction
    <2>4. decision'[tx[q].decision] = decision[tx[q].decision]
      BY <1>1, <2>3
    <2>5. member'[tx[q].set] = member[tx[q].set]
      BY <1>5, <2>1, <2>2
    <2>6. QED
      BY <2>1, <2>2, <2>4, <2>5 DEF Deciding
  <1>10. DecisionsDistinct'
    BY <1>1 DEF Inv, DecisionsDistinct, Idle
  <1>11. SealedOnMembership'
    <2> SUFFICES ASSUME NEW f \in Sets, evidence'[f].state = "sealed"
                 PROVE  /\ evidence'[f].digest = member'[f] /\ member'[f] # {}
                        /\ decision'[evidence'[f].decision] = f
      BY DEF SealedOnMembership
    <2>1. CASE f = e
      <3>1. x # NoDecision
        BY <1>1, <2>1
      <3>2. evidence'[f].digest = member'[f] /\ evidence'[f].decision = x
        BY <1>4, <2>1, <3>1
      <3>3. QED
        BY <1>1, <1>4, <2>1, <3>1, <3>2
    <2>2. CASE f # e
      <3>1. evidence'[f] = evidence[f] /\ member'[f] = member[f]
        BY <1>1, <2>2
      <3>2. /\ evidence[f].digest = member[f] /\ member[f] # {}
            /\ decision[evidence[f].decision] = f
        BY <3>1 DEF Inv, SealedOnMembership
      <3>3. evidence[f].decision \in Decisions
        BY <3>1, RowTypes DEF Inv, TypeOK
      <3>4. evidence[f].decision # x
        BY <1>1, <1>4, <3>2, <3>3, SealingAssumption
      <3>5. QED
        BY <1>1, <3>1, <3>2, <3>3, <3>4
    <2>3. QED
      BY <2>1, <2>2
  <1>12. DecisionOwnsEvidence'
    <2> SUFFICES ASSUME NEW y \in Decisions, decision'[y] # NoSet
                 PROVE  /\ evidence'[decision'[y]].state = "sealed"
                        /\ evidence'[decision'[y]].decision = y
      BY DEF DecisionOwnsEvidence
    <2>1. CASE y = x
      <3>1. x # NoDecision
        BY <2>1, SealingAssumption
      <3>2. QED
        BY <1>1, <1>4, <2>1, <3>1
    <2>2. CASE y # x
      <3>1. decision'[y] = decision[y]
        BY <1>1, <2>2
      <3>2. decision[y] \in Sets /\ evidence[decision[y]].state = "sealed"
            /\ evidence[decision[y]].decision = y
        BY <3>1 DEF Inv, TypeOK, DecisionOwnsEvidence
      <3>3. QED
        BY <1>1, <3>1, <3>2
    <2>3. QED
      BY <2>1, <2>2
  <1>13. QED
    BY <1>1, <1>6, <1>7, <1>8, <1>9, <1>10, <1>11, <1>12 DEF Inv

\* Inv is inductive when every session is READ COMMITTED.
LEMMA NextInv ==
  ASSUME SnapshotSessions = {}
  PROVE  Inv /\ [Next]_vars => Inv'
  <1> SUFFICES ASSUME Inv, [Next]_vars PROVE Inv'
    OBVIOUS
  <1>1. ASSUME NEW s \in Sessions, NEW e \in Sets, Begin(s, e)
        PROVE  Inv'
    <2> DEFINE t == [Idle EXCEPT !.set = e, !.seen = evidence[e], !.seenMembers = member[e]]
    <2>1. t \in Transaction /\ ~t.held /\ t.added = {} /\ t.decision = NoDecision
      BY RowTypes DEF Inv, TypeOK, Idle, Transaction
    <2>2. tx' = [tx EXCEPT ![s] = t] /\ UNCHANGED tables
      BY <1>1 DEF Begin
    <2> HIDE DEF t
    <2>3. QED
      BY <2>1, <2>2, ResetInv
  <1>2. ASSUME NEW s \in Sessions, Abort(s)
        PROVE  Inv'
    <2>1. Idle \in Transaction /\ ~Idle.held /\ Idle.added = {} /\ Idle.decision = NoDecision
      BY RowTypes DEF Idle
    <2>2. QED
      BY <1>2, <2>1, ResetInv DEF Abort
  <1>3. ASSUME NEW s \in Sessions, Statement(s)
        PROVE  Inv'
    BY <1>3, StatementInv
  <1>4. ASSUME NEW s \in Sessions, Commit(s)
        PROVE  Inv'
    BY <1>4, CommitInv
  <1>5. CASE UNCHANGED vars
    <2>1. UNCHANGED <<evidence, member, decision, tx>>
      BY <1>5 DEF vars
    <2>2. QED
      BY <2>1 DEF Inv, TypeOK, LockExclusive, LockedUnsealed, LockedToWrite,
         DecisionsPrepared, Deciding, DecisionsDistinct, SealedOnMembership,
         DecisionOwnsEvidence
  <1>6. QED
    BY <1>1, <1>2, <1>3, <1>4, <1>5 DEF Next, Step, Statement

------------------------------------------------------------------------------
\* Rows, members and transactions always have their types.
THEOREM Typing ==
  ASSUME SnapshotSessions = {}
  PROVE  Spec => []TypeOK
  <1>1. Inv => TypeOK
    BY DEF Inv
  <1>2. QED
    BY InitInv, NextInv, <1>1, PTL DEF Spec

\* However members, decisions and direct writes of the seal columns interleave,
\* a sealed set carries the digest of all its members and names the decision
\* that consumed it.
THEOREM Sealing ==
  ASSUME SnapshotSessions = {}
  PROVE  Spec => []SealedOnMembership
  <1>1. Inv => SealedOnMembership
    BY DEF Inv
  <1>2. QED
    BY InitInv, NextInv, <1>1, PTL DEF Spec

\* No two decisions share a set and none rests on an open one.
THEOREM Ownership ==
  ASSUME SnapshotSessions = {}
  PROVE  Spec => []DecisionOwnsEvidence
  <1>1. Inv => DecisionOwnsEvidence
    BY DEF Inv
  <1>2. QED
    BY InitInv, NextInv, <1>1, PTL DEF Spec

\* Sealed evidence never changes again, neither its row nor its members: nobody
\* can still hold its lock.
THEOREM Freezing ==
  ASSUME SnapshotSessions = {}
  PROVE  Spec => EvidenceFrozen
  <1> DEFINE Frozen == \A e \in Sets :
               evidence[e].state = "sealed" =>
                 evidence'[e] = evidence[e] /\ member'[e] = member[e]
  <1>1. ASSUME Inv, [Next]_vars
        PROVE  Frozen
    <2>1. CASE \E s \in Sessions : Commit(s)
      <3>1. PICK s \in Sessions : Commit(s)
        BY <2>1
      <3>2. /\ evidence[tx[s].set].state # "sealed"
            /\ \A f \in Sets \ {tx[s].set} : evidence'[f] = evidence[f] /\ member'[f] = member[f]
        BY <1>1, <3>1, CommitEffect
      <3>3. QED
        BY <3>2
    <2>2. CASE UNCHANGED tables
      BY <2>2 DEF tables
    <2>3. QED
      BY <1>1, <2>1, <2>2 DEF Next, Step, Begin, InsertSet, AddMember, Decide, UpdateSet,
         Write, Abort, vars, tables
  <1>2. QED
    BY InitInv, NextInv, <1>1, PTL DEF Spec, EvidenceFrozen
==============================================================================
