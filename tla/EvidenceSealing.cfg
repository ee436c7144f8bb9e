SPECIFICATION Spec
CONSTANTS
  Sets = {e1, e2}
  Members = {m1, m2}
  Decisions = {x1, x2}
  Sessions = {s1, s2}
  SnapshotSessions = {}
  NoSet = NoSet
  NoDecision = NoDecision
INVARIANTS
  SealedOnMembership
  DecisionOwnsEvidence
PROPERTY
  EvidenceFrozen
