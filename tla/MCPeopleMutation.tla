--------------------------- MODULE MCPeopleMutation ---------------------------
(* Requests for PeopleMutation: ada and ben are candidates, cora and dan already *)
(* work, and two seats are open.                                              *)
EXTENDS PeopleMutation

CONSTANTS
  \* "Again" repeats a command under its key, "Changed" reuses the key.
  hire, hireAgain, hireChanged, hireOther,
  exclusive, exclusiveAgain, exclusiveRival, concurrent,
  seat, seatAgain, seatOrphan, seatStaffed,
  most, mostAgain, mostOfSeat, mostOfJob,   \* assignments of six tenths
  ada, ben, cora, dan, candidate, alice, bob,
  adaJob, benJob, coraJob, danJob, coraLastJob, desk, spare

MCDays == 0..2

Key1 == "k1"
Key2 == "k2"
Key3 == "k3"

MCKey == [r \in Requests |->
  CASE r \in {hire, hireAgain, hireChanged, exclusive, exclusiveAgain, seat, seatAgain,
             most, mostAgain} -> Key1
    [] r \in {hireOther, exclusiveRival, mostOfSeat, seatStaffed} -> Key2
    [] OTHER -> Key3]

HireOf(p, actor) ==
  [route |-> "candidate-worker-conversions", candidate |-> candidate, actor |-> actor,
   person |-> p, employment |-> IF p = ada THEN adaJob ELSE benJob,
   status |-> "active", from |-> 1]

EmploymentOf(p, concurrency, day) ==
  [route |-> "employment-records", actor |-> alice, person |-> p,
   concurrency |-> concurrency, status |-> "active", from |-> day]

SeatOf(parented) ==
  [route |-> "position-records", actor |-> alice, parented |-> parented, status |-> "open",
   from |-> 0]

AssignmentOf(p, job, place) ==
  [route |-> "assignment-records", actor |-> alice, person |-> p, employment |-> job,
   position |-> place, ratio |-> 6000, from |-> 1]

MCCommand == [r \in Requests |->
  CASE r \in {hire, hireAgain} -> HireOf(ada, alice)
    [] r = hireOther -> HireOf(ben, alice)
    [] r = hireChanged -> HireOf(ben, bob)
    [] r \in {exclusive, exclusiveAgain} -> EmploymentOf(cora, "exclusive", 1)
    [] r = exclusiveRival -> EmploymentOf(cora, "exclusive", 2)
    [] r = concurrent -> EmploymentOf(cora, "concurrent", 1)
    [] r \in {seat, seatAgain} -> SeatOf(TRUE)
    [] r = seatOrphan -> SeatOf(FALSE)
    [] r = seatStaffed -> AssignmentOf(cora, coraJob, seat)
    [] r \in {most, mostAgain} -> AssignmentOf(cora, coraJob, desk)
    [] r = mostOfSeat -> AssignmentOf(dan, danJob, desk)
    [] r = mostOfJob -> AssignmentOf(cora, coraJob, spare)]

MCConfirmed == {<<candidate, alice>>}
MCPersons == {ada, ben, cora, dan}

\* An employment recorded at time 0.
Employed(job, p, concurrency, day) ==
  [employment |-> job, person |-> p, concurrency |-> concurrency, status |-> "active",
   from |-> 0, to |-> day, since |-> 0, until |-> Forever]

Seat(place) ==
  [position |-> place, status |-> "open", from |-> 0, to |-> Forever, since |-> 0,
   until |-> Forever]

MCConversions == {[candidate |-> "first", person |-> cora], [candidate |-> "second", person |-> dan]}
MCEmployments == {Employed(coraLastJob, cora, "exclusive", 1),
                  Employed(coraJob, cora, "concurrent", Forever),
                  [Employed(danJob, dan, "exclusive", Forever) EXCEPT !.status = "leave"]}
MCPositions == {Seat(desk), Seat(spare)}
==============================================================================
