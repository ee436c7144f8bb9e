SPECIFICATION Spec
CONSTANTS
  hire = hire
  hireAgain = hireAgain
  hireChanged = hireChanged
  hireOther = hireOther
  exclusive = exclusive
  exclusiveAgain = exclusiveAgain
  exclusiveRival = exclusiveRival
  concurrent = concurrent
  seat = seat
  seatAgain = seatAgain
  seatOrphan = seatOrphan
  seatStaffed = seatStaffed
  most = most
  mostAgain = mostAgain
  mostOfSeat = mostOfSeat
  mostOfJob = mostOfJob
  ada = ada
  ben = ben
  cora = cora
  dan = dan
  candidate = candidate
  alice = alice
  bob = bob
  adaJob = adaJob
  benJob = benJob
  coraJob = coraJob
  danJob = danJob
  coraLastJob = coraLastJob
  desk = desk
  spare = spare
  Requests = {exclusive}
  Days <- MCDays
  Forever = 9
  MaxTime = 2
  Key <- MCKey
  Command <- MCCommand
  Confirmed <- MCConfirmed
  Persons <- MCPersons
  SeedConversions <- MCConversions
  SeedEmployments <- MCEmployments
  SeedPositions <- MCPositions
PROPERTY
  ReconstructionIsStable
CHECK_DEADLOCK FALSE
