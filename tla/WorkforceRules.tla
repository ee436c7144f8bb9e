---------------------------- MODULE WorkforceRules ----------------------------
(***************************************************************************)
(* The decision rules of the HRIS kernel (packages/hris-kernel: intervals,    *)
(* employment and assignment) over bitemporal facts of one tenant.            *)
(*                                                                           *)
(* A fact carries its effective days [from, to) and its recorded instants     *)
(* [since, until).  Days and instants are naturals; Forever stands for None.  *)
(* Allocation ratios are counted in ten-thousandths, the scale of             *)
(* numeric(5,4).                                                              *)
(***************************************************************************)
EXTENDS Naturals, FiniteSets, FiniteSetsExt

CONSTANTS
  Days,         \* business days
  Forever       \* after every day and every instant

ASSUME DayAssumption ==
  /\ Days \subseteq Nat /\ Forever \in Nat
  /\ \A day \in Days : day < Forever

One == 10000

Contains(fact, day) == fact.from <= day /\ day < fact.to

Overlaps(f, g) == f.from < g.to /\ g.from < f.to

\* RecordedInterval.contains: what Orgmetra knew at an instant.
KnownAt(fact, known) == fact.since <= known /\ known < fact.until

Total(facts) == MapThenSumSet(LAMBDA fact : fact.ratio, facts)

------------------------------------------------------------------------------
(* employment.py *)

\* validate_person_employment_exclusivity; versions of one person.
Exclusive(versions, known) ==
  \A v, w \in {u \in versions : KnownAt(u, known) /\ u.concurrency = "exclusive"} :
    v.employment # w.employment => ~Overlaps(v, w)

------------------------------------------------------------------------------
(* assignment.py *)

\* Mutant: one period alone has to cover the target.
UnionCoversAlone(intervals, target) ==
  \E i \in intervals : i.from <= target.from /\ target.to <= i.to

\* Mutant: only the two ends of the target are looked at.
UnionCoversEnds(intervals, target) ==
  /\ \E i \in intervals : Contains(i, target.from)
  /\ \E i \in intervals : i.from < target.to /\ target.to <= i.to

\* _union_covers: from the start of the target, take any period that contains
\* the cursor and move the cursor to its end, without ever going back.
UnionCovers(intervals, target) ==
  LET reach[cursor \in Days \cup {Forever}] ==
        LET found == {i \in intervals : Contains(i, cursor)}
            next == CHOOSE i \in found : TRUE
        IN  cursor >= target.to \/ (found # {} /\ (next.to = Forever \/ reach[next.to]))
  IN reach[target.from]

\* validate_assignment_employment_coverage; versions of the named employment.
EmploymentCovers(assignment, versions, known) ==
  LET met == {v \in versions : KnownAt(v, known) /\ Overlaps(v, assignment)} IN
  /\ \A v \in versions : v.person = assignment.person
  /\ \A v, w \in met : v # w => ~Overlaps(v, w)
  /\ UnionCovers({v \in met : v.status \in {"active", "leave"}}, assignment)

\* validate_assignment_position_coverage; versions of the named position.
PositionCovers(assignment, versions, known) ==
  UnionCovers({v \in versions : KnownAt(v, known) /\ v.status \in {"active", "open"}},
              assignment)

\* validate_assignment_portfolio and validate_position_seat_capacity on one day.
WithinOne(facts, day, known) ==
  Total({f \in facts : Contains(f, day) /\ KnownAt(f, known)}) <= One

\* Mutant: only the first day of the proposed assignment is probed.
ProbeFirstDay(assignments, target) == {target.from}

\* _allocation_probe_days
ProbeDays(assignments, target) ==
  {target.from} \cup
    {f.from : f \in {g \in assignments : Overlaps(g, target) /\ Contains(target, g.from)}}

\* validate_assignment_write; assignments includes the proposed one.
AssignmentPermitted(proposed, assignments, employmentVersions, positionVersions, known) ==
  /\ EmploymentCovers(proposed, employmentVersions, known)
  /\ PositionCovers(proposed, positionVersions, known)
  /\ \A day \in ProbeDays(assignments, proposed) :
       /\ WithinOne({f \in assignments : /\ f.person = proposed.person
                                         /\ f.employment = proposed.employment}, day, known)
       /\ WithinOne({f \in assignments : f.position = proposed.position}, day, known)
==============================================================================
