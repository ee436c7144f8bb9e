SPECIFICATION MCSpec
CONSTANTS
  hire = hire
  hireAgain = hireAgain
  hireChanged = hireChanged
  hireOther = hireOther
  exclusive = exclusive
  exclusiveAgain = exclusiveAgain
  exclusiveRival = exclusiveRival
  concurrent = concurrent
  seat = seat
  seatAgain = seatAgain
  seatOrphan = seatOrphan
  seatStaffed = seatStaffed
  most = most
  mostAgain = mostAgain
  mostOfSeat = mostOfSeat
  mostOfJob = mostOfJob
  ada = ada
  ben = ben
  cora = cora
  dan = dan
  candidate = candidate
  alice = alice
  bob = bob
  adaJob = adaJob
  benJob = benJob
  coraJob = coraJob
  danJob = danJob
  coraLastJob = coraLastJob
  desk = desk
  spare = spare
  Requests = {hire, hireAgain, hireChanged, hireOther,
              exclusive, exclusiveAgain, exclusiveRival, concurrent,
              most, mostOfSeat, mostOfJob,
              seat, seatAgain, seatOrphan, seatStaffed}
  Scenarios = {{hire, hireAgain, hireChanged, hireOther},
               {exclusive, exclusiveAgain, exclusiveRival},
               {exclusive, exclusiveRival, concurrent},
               {most, mostOfSeat, mostOfJob},
               {seat, seatAgain, seatOrphan, seatStaffed}}
  Days <- MCDays
  Forever = 9
  MaxTime = 1
  Key <- MCKey
  Command <- MCCommand
  Confirmed <- MCConfirmed
  Persons <- MCPersons
  SeedConversions <- MCConversions
  SeedEmployments <- MCEmployments
  SeedPositions <- MCPositions
INVARIANTS
  TypeOK
  OneEffectPerKey
  RetriesAgree
  OneConversionPerCandidate
  ExclusiveAsKnown
  AllocationsAsKnown
  StaffedAsKnown
  Reportable
  CountsAgree
PROPERTY
  IdenticalRetryReplays
  Implements
  EveryRequestAnswered
CHECK_DEADLOCK FALSE
