SPECIFICATION MCSpec
CONSTANTS
  first = first
  again = again
  byBob = byBob
  changed = changed
  scoped = scoped
  another = another
  rival = rival
  draft = draft
  early = early
  half = half
  k1 = k1
  k2 = k2
  k3 = k3
  k4 = k4
  k5 = k5
  alice = alice
  bob = bob
  carol = carol
  job = job
  otherJob = otherJob
  Requests = {first, again, byBob, changed, scoped, another, rival, draft, early, half}
  Scenarios = {{first, again, byBob, rival},
               {first, again, changed, early},
               {first, scoped, another, draft},
               {first, half}}
  Keys = {k1, k2, k3, k4, k5}
  Authorities = {alice, bob}
  Jobs = {job}
  Parents <- MCParents
  NoCommand = NoCommand
  NoReview = NoReview
  HalfReview = HalfReview
  Zone <- MCZone
  MaxItems = 2
  MaxLinks = 2
  Key <- MCKey
  Document <- MCDocument
  Authority <- MCAuthority
  Scope <- MCScope
INVARIANTS
  TypeOK
  ReadsBack
  Governed
  KeyAnswersForOneCommand
PROPERTY
  Implements
  EveryRequestAnswered
