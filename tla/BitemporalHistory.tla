--------------------------- MODULE BitemporalHistory ---------------------------
(***************************************************************************)
(* The versions of a single-valued fact family and the guards that keep their  *)
(* history: the period checks, the exclusion constraint and the trigger         *)
(* protect_bitemporal_history (database/migrations/0001).  The family is        *)
(* organization_unit_version, whose rows relate units to each other; person      *)
(* names, employments, jobs and positions are guarded alike.                  *)
(*                                                                           *)
(* Sessions send any INSERT and UPDATE in READ COMMITTED transactions, close    *)
(* and replace rows in any order and at any instants, past or to come: the trigger *)
(* compares them with each other and never with the clock.  They commit or roll   *)
(* back.  A DELETE is always refused and is left out.  The readers are            *)
(* resolve_bitemporal_facts and validate_organization_hierarchy (hris-kernel).    *)
(***************************************************************************)
EXTENDS WorkforceRules

CONSTANTS
  Units,
  NoParent,
  Values,       \* unit_name and organization_type_code
  Dates,        \* the days on which versions begin and end
  Times,        \* the recorded instants
  Sessions,
  Histories,    \* the histories committed at time 0
  MaxRows       \* how many rows there may be, committed or inserted

ASSUME UnitAssumption == IsFiniteSet(Units) /\ NoParent \notin Units

ASSUME TimeAssumption ==
  /\ Dates \subseteq Days
  /\ Times \subseteq Nat /\ 0 \in Times
  /\ \A time \in Times : time < Forever

\* A row that passes the checks of its periods and its parent.  It has no field for
\* its identity: two rows that agree on all but recorded_to exclude each other.
Row ==
  {r \in [unit : Units, parent : Units \cup {NoParent}, value : Values,
          from : Dates, to : Dates \cup {Forever},
          since : Times, until : Times \cup {Forever}] :
     r.from < r.to /\ r.since < r.until /\ r.parent # r.unit}

\* organization_unit_bitemporal_exclusion
Clash(r, q) ==
  /\ r.unit = q.unit
  /\ Overlaps(r, q)
  /\ r.since < q.until /\ q.since < r.until

ASSUME HistoryAssumption ==
  \A h \in Histories :
    /\ h \subseteq Row
    /\ \A r \in h : r.since = 0 /\ r.until = Forever
    /\ \A r, q \in h : r # q => ~Clash(r, q)

VARIABLES
  rows,         \* the committed rows
  tx            \* the open transaction of each session

vars == <<rows, tx>>

\* changed: the pairs of an old and a new row of its UPDATEs; new: its INSERTs.
Idle == [open |-> FALSE, changed |-> {}, new |-> {}]

TypeOK ==
  /\ rows \subseteq Row
  /\ tx \in [Sessions -> [open : BOOLEAN, changed : SUBSET (Row \X Row), new : SUBSET Row]]

Init ==
  /\ rows \in Histories
  /\ tx = [s \in Sessions |-> Idle]

------------------------------------------------------------------------------
(* The guards *)

\* Mutant: the other columns are not compared.
UpdatePermittedAnyColumn(old, new) ==
  /\ old.until = Forever /\ new.until # Forever
  /\ new.until > old.since

\* protect_bitemporal_history
UpdatePermitted(old, new) ==
  /\ old.until = Forever /\ new.until # Forever
  /\ new.until > old.since
  /\ [new EXCEPT !.until = old.until] = old

Old(s) == {c[1] : c \in tx[s].changed}
New(s) == {c[2] : c \in tx[s].changed} \cup tx[s].new

\* What a statement of the transaction sees, and what its commit leaves.
After(s) == (rows \ Old(s)) \cup New(s)

\* Mutant: open transactions are not waited for.
UnopposedAlways(s, r) == TRUE

\* An insert waits for a row of an open transaction that may exclude it.  Rows
\* that such a transaction has closed still exclude others until it commits.
Unopposed(s, r) == \A t \in Sessions \ {s} : \A q \in New(t) : ~Clash(q, r)

------------------------------------------------------------------------------
(* The statements *)

Begin(s) ==
  /\ ~tx[s].open
  /\ tx' = [tx EXCEPT ![s].open = TRUE]
  /\ UNCHANGED rows

\* An UPDATE waits while another transaction has changed the row.  A second one of
\* the row would be refused, one of an own insert is an insert of its outcome.
Change(s, old, new) ==
  /\ tx[s].open
  /\ old \in rows \ Old(s)
  /\ UpdatePermitted(old, new)
  /\ \A t \in Sessions \ {s} : old \notin Old(t)
  /\ \A q \in After(s) \ {old} : ~Clash(q, new)
  /\ Unopposed(s, new)
  /\ tx' = [tx EXCEPT ![s].changed = @ \cup {<<old, new>>}]
  /\ UNCHANGED rows

Insert(s, r) ==
  /\ tx[s].open
  /\ Cardinality(rows \cup UNION {tx[t].new : t \in Sessions}) < MaxRows
  /\ \A q \in After(s) : ~Clash(q, r)
  /\ Unopposed(s, r)
  /\ tx' = [tx EXCEPT ![s].new = @ \cup {r}]
  /\ UNCHANGED rows

Commit(s) ==
  /\ tx[s].open
  /\ rows' = After(s)
  /\ tx' = [tx EXCEPT ![s] = Idle]

\* ROLLBACK, an error of a guard, a deadlock or a lost connection.
Abort(s) ==
  /\ tx[s].open
  /\ tx' = [tx EXCEPT ![s] = Idle]
  /\ UNCHANGED rows

Next ==
  \E s \in Sessions :
    \/ Begin(s) \/ Commit(s) \/ Abort(s)
    \/ \E old \in rows, new \in Row : Change(s, old, new)
    \/ \E r \in Row : Insert(s, r)

Spec == Init /\ [][Next]_vars

------------------------------------------------------------------------------
(* The readers *)

\* resolve_bitemporal_facts, for all units at once.
Resolve(day, known) ==
  {r \in rows : Contains(r, day) /\ KnownAt(r, known)}

\* The parents of the units that have a version at the coordinate.
Parents(day, known) ==
  LET found == Resolve(day, known) IN
  [u \in {r.unit : r \in found} |-> (CHOOSE r \in found : r.unit = u).parent]

\* The units the walk from start visits, one per step.
Walk(parents, start) ==
  LET visited[n \in 0..Cardinality(Units)] ==
        IF n = 0 THEN start
        ELSE IF visited[n - 1] \in DOMAIN parents THEN parents[visited[n - 1]] ELSE NoParent
  IN visited

\* Mutant: the walk ends one step early.
HierarchyPermittedShort(parents) ==
  \A start \in DOMAIN parents :
    LET visited == Walk(parents, start) IN
    \A m, n \in 0..Cardinality(Units) - 1 :
      m < n /\ visited[n] # NoParent => visited[m] # visited[n]

\* validate_organization_hierarchy: no walk comes back to a unit it has seen.
HierarchyPermitted(parents) ==
  \A start \in DOMAIN parents :
    LET visited == Walk(parents, start) IN
    \A m, n \in 0..Cardinality(Units) :
      m < n /\ visited[n] # NoParent => visited[m] # visited[n]

------------------------------------------------------------------------------
(* Properties *)

\* "one effective-time plus knowledge-time coordinate resolves to at most one
\* version" (ADR-0003), whatever sessions close, replace, backdate or roll back at
\* once: resolve_single_valued_fact never finds two.
OneVersionPerCoordinate ==
  \A day \in Days, known \in Times :
    \A r, q \in Resolve(day, known) : r.unit = q.unit => r = q

\* "Late corrections do not destroy what the system previously knew" (ADR-0003):
\* a commit changes no reconstruction at a cutoff before every instant it names.
Shown(day, known) == {[r EXCEPT !.until = Forever] : r \in Resolve(day, known)}

EarlierKnowledgeStands ==
  [][\A day \in Days, known \in Times :
       Shown(day, known)' # Shown(day, known) =>
         \E s \in Sessions :
           \/ \E c \in tx[s].changed : c[2].until <= known
           \/ \E r \in tx[s].new : r.since <= known]_vars

\* A chart is refused exactly when no ranking puts every unit below its parent: at
\* every coordinate of a history of charts without cycles, in which moves of two
\* sessions, each harmless alone, have closed them.
CyclesRefused ==
  \A day \in Days, known \in Times :
    LET parents == Parents(day, known) IN
    HierarchyPermitted(parents) <=>
      \E rank \in [Units -> 1..Cardinality(Units)] :
        \A u \in DOMAIN parents :
          parents[u] \in DOMAIN parents => rank[parents[u]] < rank[u]
==============================================================================
