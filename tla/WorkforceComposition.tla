-------------------------- MODULE WorkforceComposition --------------------------
(***************************************************************************)
(* build_workforce_composition_snapshot (packages/hris-kernel, workforce.py):  *)
(* the counts of one tenant at one effective day and knowledge cutoff, refused  *)
(* when the facts they would be derived from contradict each other.           *)
(***************************************************************************)
EXTENDS WorkforceRules

\* The facts of a reconstruction coordinate.
Visible(facts, day, known) == {f \in facts : Contains(f, day) /\ KnownAt(f, known)}

\* Mutant: leave is not reported.
ReportedActive(versions, day, known) ==
  {v \in Visible(versions, day, known) : v.status = "active"}

\* _visible_employments
Reported(versions, day, known) ==
  {v \in Visible(versions, day, known) : v.status \in {"active", "leave"}}

\* resolve_single_valued_fact for every employment, and the visible identities of
\* _visible_assignments.
SingleValued(versions, assignments, day, known) ==
  /\ \A v, w \in Visible(versions, day, known) : v.employment = w.employment => v = w
  /\ \A a, b \in Visible(assignments, day, known) : a.assignment = b.assignment => a = b

\* _validate_visible_employment_portfolios
PortfoliosPermitted(versions, day, known) ==
  \A p \in {v.person : v \in Visible(versions, day, known)} :
    Exclusive({v \in Visible(versions, day, known) : v.person = p}, known)

\* Mutant: the seats are not told apart.
AssignmentsPermittedAsOne(versions, assignments, day, known) ==
  /\ \A a \in Visible(assignments, day, known) :
       EmploymentCovers(a, {v \in versions : v.employment = a.employment}, known)
  /\ WithinOne(assignments, day, known)

AssignmentsPermitted(versions, assignments, day, known) ==
  \A a \in Visible(assignments, day, known) :
    /\ EmploymentCovers(a, {v \in versions : v.employment = a.employment}, known)
    /\ WithinOne({b \in assignments : /\ b.person = a.person
                                      /\ b.employment = a.employment}, day, known)
    /\ WithinOne({b \in assignments : b.position = a.position}, day, known)

\* The snapshot is built and not refused.
Composable(versions, assignments, day, known) ==
  /\ SingleValued(versions, assignments, day, known)
  /\ PortfoliosPermitted(versions, day, known)
  /\ AssignmentsPermitted(versions, assignments, day, known)

\* person_headcount, employment_count, staffed_fte and unassigned_person_count.
Composition(versions, assignments, day, known) ==
  LET employed == {v.person : v \in Reported(versions, day, known)}
      staffed == {a.person : a \in Visible(assignments, day, known)}
  IN [headcount |-> Cardinality(employed),
      employments |-> Cardinality(Reported(versions, day, known)),
      staffed |-> Cardinality(staffed),
      fte |-> Total(Visible(assignments, day, known)),
      unassigned |-> Cardinality(employed \ staffed)]
==============================================================================
