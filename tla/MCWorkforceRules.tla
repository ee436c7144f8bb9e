--------------------------- MODULE MCWorkforceRules ---------------------------
(***************************************************************************)
(* Two instances of the workforce rules, of which a behaviour takes one.       *)
(*                                                                           *)
(* A seat is filled: the rules of WorkforceRules against their day-by-day      *)
(* meaning.  A state is one input: the assignments of the seat that were saved  *)
(* one after the other, each accepted by the rules, and the periods of its      *)
(* position.                                                                 *)
(*                                                                           *)
(* An organization chart is corrected: BitemporalHistory from any chart of      *)
(* three units without a cycle.                                               *)
(***************************************************************************)
EXTENDS BitemporalHistory, TLC

CONSTANTS
  Ratios,       \* allocation ratios
  MaxSaved,     \* how many assignments are saved at most
  LastDay

ASSUME RatioAssumption == Ratios \subseteq Nat

VARIABLES
  saved,        \* the assignments of the seat
  periods       \* the staffable periods of the seat

history == <<rows, tx>>

MCDays == 0..LastDay

Period == {p \in [from : Days, to : Days \cup {Forever}] : p.from < p.to}

Version(p) == [from |-> p.from, to |-> p.to, since |-> 0, until |-> Forever,
               status |-> "open"]

\* Identities keep equal assignments apart; every one has its own employment.
Assignment(n, p, ratio) ==
  [id |-> n, person |-> n, employment |-> n, position |-> "seat", ratio |-> ratio,
   from |-> p.from, to |-> p.to, since |-> 0, until |-> Forever]

Employed(n) == {[employment |-> n, person |-> n, status |-> "active", from |-> 0,
                 to |-> Forever, since |-> 0, until |-> Forever]}

MCDates == 0..1

MCTimes == 0..1

MCSymmetry == Permutations(Sessions) \cup Permutations(Units)

\* The charts in which every chain of parents ends.
Charts ==
  {parent \in [Units -> Units \cup {NoParent}] :
     \A s \in SUBSET Units : s # {} => \E u \in s : parent[u] \notin s}

\* The charts as recorded at time 0.
MCHistories ==
  {{}} \cup {{[unit |-> u, parent |-> parent[u], value |-> "unit", from |-> 0, to |-> Forever,
     since |-> 0, until |-> Forever] : u \in Units} : parent \in Charts}

MCInit ==
  /\ Init
  /\ saved = {}
  /\ \/ periods = {} /\ rows # {}
     \/ /\ rows = {}
        /\ periods \in {s \in SUBSET Period : Cardinality(s) \in 1..2}

Save(p, ratio) ==
  LET n == Cardinality(saved)
      a == Assignment(n, p, ratio)
  IN  /\ n < MaxSaved
      /\ AssignmentPermitted(a, saved \cup {a}, Employed(n), {Version(q) : q \in periods}, 0)
      /\ saved' = saved \cup {a}
      /\ UNCHANGED <<periods, history>>

\* A chart is corrected and no seat filled.
Correcting == rows # {} /\ UNCHANGED <<saved, periods>>

MCNext ==
  \/ \E p \in Period, ratio \in Ratios : Save(p, ratio)
  \/ Correcting /\ \E s \in Sessions : Begin(s)
  \/ Correcting /\ \E s \in Sessions, old \in rows, new \in Row : Change(s, old, new)
  \/ Correcting /\ \E s \in Sessions, r \in Row : Insert(s, r)
  \/ Correcting /\ \E s \in Sessions : Commit(s)
  \/ Correcting /\ \E s \in Sessions : Abort(s)

MCSpec == MCInit /\ [][MCNext]_<<history, saved, periods>>

\* ADR-0005: visible allocations of a seat cannot exceed 1.0000 on any day.
\* The rules only look at the days on which an assignment starts; that is enough
\* whatever the order in which overlapping periods were saved.
NoDayOversold == \A day \in Days : WithinOne(saved, day, 0)

\* A seat is staffed on staffable days only: following the periods from end to
\* end accepts no gap, not even between adjacent half-open periods.
NoDayUncovered ==
  \A a \in saved, day \in Days : Contains(a, day) => \E p \in periods : Contains(p, day)

\* And refuses no assignment whose days are all covered.
CoverageComplete ==
  \A target \in Period :
    (/\ \A day \in Days : Contains(target, day) => \E p \in periods : Contains(p, day)
     /\ target.to = Forever => \E p \in periods : p.to = Forever)
    => UnionCovers(periods, target)
==============================================================================
