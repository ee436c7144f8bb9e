-------------------------- MODULE WorkforceRulesProofs --------------------------
(***************************************************************************)
(* For any facts, days and ratios: the kernel's sums and walks compute what     *)
(* they stand for.  A total splits by employment and grows with its facts, the   *)
(* first days of the facts are where a total is largest, and union_covers says    *)
(* whether every day of the target is covered.  Induction is over finite sets      *)
(* and cursors, by the smallest counterexample.                                  *)
(***************************************************************************)
EXTENDS WorkforceComposition, FiniteSetTheorems, TLAPS

\* Among finite sets with some property one has no proper subset with it.
LEMMA SmallestSet ==
  ASSUME NEW S, IsFiniteSet(S), NEW bad, bad \subseteq SUBSET S, bad # {}
  PROVE  \E T \in bad : \A U \in SUBSET T : U # T => U \notin bad
  <1>1. SUBSET S = FiniteSubsetsOf(S)
    BY FS_FiniteSubsetsOfFinite
  <1>2. IsWellFoundedOn(StrictSubsetOrdering(S), SUBSET S)
    BY <1>1, FS_StrictSubsetOrderingWellFounded
  <1>3. PICK T \in bad : \A U \in bad : <<U, T>> \notin StrictSubsetOrdering(S)
    BY <1>2, WFMin
  <1>4. ASSUME NEW U \in SUBSET T, U # T
        PROVE  U \notin bad
    <2>1. <<U, T>> \in StrictSubsetOrdering(S)
      BY <1>4 DEF StrictSubsetOrdering
    <2>2. QED
      BY <1>3, <2>1
  <1>5. QED
    BY <1>4

------------------------------------------------------------------------------
(* Totals *)

Picked(facts) == CHOOSE x \in facts : TRUE

\* The recursive function that Total is the value of.
Sums(f, S) ==
  f = [s \in SUBSET S |-> IF s = {} THEN 0
                          ELSE LET x == CHOOSE x \in s : TRUE IN x.ratio + f[s \ {x}]]

SumOf(S) == CHOOSE f : Sums(f, S)

\* Total is the sum function of its set, at that set.
LEMMA TotalIsSum ==
  ASSUME NEW S
  PROVE  Total(S) = SumOf(S)[S]
  BY DEF Total, MapThenSumSet, MapThenFoldSet, Sums, SumOf

\* A sum function takes one fact at a time.
LEMMA SumsAt ==
  ASSUME NEW S, NEW f, Sums(f, S), NEW s \in SUBSET S
  PROVE  /\ s = {} => f[s] = 0
         /\ s # {} => Picked(s) \in s /\ f[s] = Picked(s).ratio + f[s \ {Picked(s)}]
  BY DEF Sums, Picked

\* Sum functions of different sets agree on what the sets share.
LEMMA SumsAgree ==
  ASSUME NEW S, NEW T, NEW f, NEW g, Sums(f, S), Sums(g, T),
         NEW U, U \subseteq S, U \subseteq T, IsFiniteSet(U)
  PROVE  f[U] = g[U]
  <1> DEFINE bad == {s \in SUBSET U : f[s] # g[s]}
  <1>1. SUFFICES bad = {}
    OBVIOUS
  <1>2. SUFFICES ASSUME bad # {}
                 PROVE  FALSE
    OBVIOUS
  <1>3. PICK s \in bad : \A r \in SUBSET s : r # s => r \notin bad
    <2> HIDE DEF bad
    <2>1. bad \subseteq SUBSET U
      BY DEF bad
    <2>2. QED
      BY <1>2, <2>1, SmallestSet
  <1>4. s # {}
    BY <1>3, SumsAt
  <1>5. f[s] = Picked(s).ratio + f[s \ {Picked(s)}] /\ g[s] = Picked(s).ratio + g[s \ {Picked(s)}]
        /\ Picked(s) \in s
    BY <1>4, SumsAt
  <1>6. f[s \ {Picked(s)}] = g[s \ {Picked(s)}]
    BY <1>3, <1>5
  <1>7. QED
    BY <1>3, <1>5, <1>6

\* A finite set has a sum function.
LEMMA SumsExist ==
  ASSUME NEW S, IsFiniteSet(S)
  PROVE  Sums(SumOf(S), S)
  <1> DEFINE bad == {s \in SUBSET S : ~Sums(SumOf(s), s)}
  <1>1. SUFFICES ASSUME bad # {}
                 PROVE  FALSE
    OBVIOUS
  <1>2. PICK T \in bad : \A r \in SUBSET T : r # T => r \notin bad
    <2> HIDE DEF bad
    <2>1. bad \subseteq SUBSET S
      BY DEF bad
    <2>2. QED
      BY <1>1, <2>1, SmallestSet
  <1>3. \A s \in SUBSET T : s # T => Sums(SumOf(s), s)
    BY <1>2
  <1> DEFINE Value(s) == SumOf(s)[s]
             f == [s \in SUBSET T |-> IF s = {} THEN 0
                                      ELSE Picked(s).ratio + Value(s \ {Picked(s)})]
  <1>4. \A s \in SUBSET T : s # T => f[s] = Value(s)
    <2> SUFFICES ASSUME NEW s \in SUBSET T, s # T
                 PROVE  f[s] = Value(s)
      OBVIOUS
    <2>1. Sums(SumOf(s), s)
      BY <1>3
    <2>2. CASE s = {}
      BY <2>1, <2>2, SumsAt
    <2>3. CASE s # {}
      <3>1. Picked(s) \in s /\ Value(s) = Picked(s).ratio + SumOf(s)[s \ {Picked(s)}]
        BY <2>1, <2>3, SumsAt
      <3>2. Sums(SumOf(s \ {Picked(s)}), s \ {Picked(s)})
        BY <1>3, <3>1
      <3>3. IsFiniteSet(s \ {Picked(s)})
        BY <1>2, FS_Subset
      <3>4. SumOf(s)[s \ {Picked(s)}] = Value(s \ {Picked(s)})
        BY <2>1, <3>2, <3>3, SumsAgree
      <3>5. QED
        BY <2>3, <3>1, <3>4
    <2>4. QED
      BY <2>2, <2>3
  <1>5. Sums(f, T)
    <2>1. \A s \in SUBSET T : s # {} => Picked(s) \in s
      BY DEF Picked
    <2>2. \A s \in SUBSET T : s # {} => f[s \ {Picked(s)}] = Value(s \ {Picked(s)})
      BY <1>4, <2>1
    <2>3. \A s \in SUBSET T : f[s] = IF s = {} THEN 0
                                     ELSE Picked(s).ratio + f[s \ {Picked(s)}]
      BY <2>2
    <2>4. f = [s \in SUBSET T |-> f[s]]
      OBVIOUS
    <2> HIDE DEF f
    <2>5. QED
      BY <2>3, <2>4 DEF Sums, Picked
  <1>6. Sums(SumOf(T), T)
    <2> HIDE DEF f
    <2>1. QED
      BY <1>5 DEF SumOf
  <1>7. QED
    BY <1>2, <1>6

\* No facts, no allocation.
LEMMA TotalEmpty == Total({}) = 0
  <1>1. IsFiniteSet({}) /\ {} \in SUBSET {}
    BY FS_EmptySet
  <1>2. QED
    BY <1>1, SumsExist, SumsAt, TotalIsSum

\* A total is one ratio and the total of the rest.
LEMMA TotalPicked ==
  ASSUME NEW S, IsFiniteSet(S), S # {}
  PROVE  /\ Picked(S) \in S
         /\ Total(S) = Picked(S).ratio + Total(S \ {Picked(S)})
  <1>1. Sums(SumOf(S), S)
    BY SumsExist
  <1>2. Picked(S) \in S /\ SumOf(S)[S] = Picked(S).ratio + SumOf(S)[S \ {Picked(S)}]
    BY <1>1, SumsAt
  <1>3. IsFiniteSet(S \ {Picked(S)})
    BY FS_Subset
  <1>4. SumOf(S)[S \ {Picked(S)}] = SumOf(S \ {Picked(S)})[S \ {Picked(S)}]
    BY <1>1, <1>3, SumsExist, SumsAgree
  <1>5. QED
    BY <1>2, <1>4, TotalIsSum

\* A total of ratios is a number.
LEMMA TotalType ==
  ASSUME NEW S, IsFiniteSet(S), \A f \in S : f.ratio \in Nat
  PROVE  Total(S) \in Nat
  <1> DEFINE bad == {s \in SUBSET S : Total(s) \notin Nat}
  <1>1. SUFFICES ASSUME bad # {}
                 PROVE  FALSE
    OBVIOUS
  <1>2. PICK T \in bad : \A r \in SUBSET T : r # T => r \notin bad
    <2> HIDE DEF bad
    <2>1. bad \subseteq SUBSET S
      BY DEF bad
    <2>2. QED
      BY <1>1, <2>1, SmallestSet
  <1>3. IsFiniteSet(T) /\ T # {}
    <2>1. T \in SUBSET S /\ Total(T) \notin Nat
      BY <1>2
    <2>2. IsFiniteSet(T)
      BY <2>1, FS_Subset
    <2>3. T # {}
      BY <2>1, TotalEmpty
    <2>4. QED
      BY <2>2, <2>3
  <1>4. Picked(T) \in T /\ Total(T) = Picked(T).ratio + Total(T \ {Picked(T)})
    BY <1>3, TotalPicked
  <1>5. Total(T \ {Picked(T)}) \in Nat
    BY <1>2, <1>4
  <1>6. QED
    BY <1>2, <1>4, <1>5

\* The total does not depend on the order in which the facts are added up.
LEMMA TotalRemove ==
  ASSUME NEW S, IsFiniteSet(S), \A f \in S : f.ratio \in Nat, NEW x \in S
  PROVE  Total(S) = x.ratio + Total(S \ {x})
  <1> DEFINE bad == {s \in SUBSET S : \E y \in s : Total(s) # y.ratio + Total(s \ {y})}
  <1>1. SUFFICES ASSUME bad # {}
                 PROVE  FALSE
    OBVIOUS
  <1>2. PICK T \in bad : \A r \in SUBSET T : r # T => r \notin bad
    <2> HIDE DEF bad
    <2>1. bad \subseteq SUBSET S
      BY DEF bad
    <2>2. QED
      BY <1>1, <2>1, SmallestSet
  <1>3. PICK y \in T : Total(T) # y.ratio + Total(T \ {y})
    BY <1>2
  <1>4. IsFiniteSet(T) /\ T # {} /\ T \in SUBSET S
    BY <1>2, FS_Subset
  <1> DEFINE p == Picked(T)
  <1>5. p \in T /\ Total(T) = p.ratio + Total(T \ {p})
    BY <1>4, TotalPicked
  <1> HIDE DEF p
  <1>6. p # y
    BY <1>3, <1>5
  <1>7. Total(T \ {p}) = y.ratio + Total((T \ {p}) \ {y})
    <2>1. T \ {p} \in SUBSET T /\ T \ {p} # T /\ y \in T \ {p} /\ T \ {p} \in SUBSET S
      BY <1>4, <1>5, <1>6
    <2>2. T \ {p} \notin bad
      BY <1>2, <2>1
    <2>3. QED
      BY <2>1, <2>2
  <1>8. Total(T \ {y}) = p.ratio + Total((T \ {y}) \ {p})
    <2>1. T \ {y} \in SUBSET T /\ T \ {y} # T /\ p \in T \ {y} /\ T \ {y} \in SUBSET S
      BY <1>4, <1>5, <1>6
    <2>2. T \ {y} \notin bad
      BY <1>2, <2>1
    <2>3. QED
      BY <2>1, <2>2
  <1>9. Total((T \ {p}) \ {y}) = Total((T \ {y}) \ {p})
    <2>1. (T \ {p}) \ {y} = (T \ {y}) \ {p}
      OBVIOUS
    <2>2. QED
      BY <2>1
  <1>10. Total((T \ {p}) \ {y}) \in Nat /\ p.ratio \in Nat /\ y.ratio \in Nat
    <2>1. IsFiniteSet((T \ {p}) \ {y}) /\ (T \ {p}) \ {y} \subseteq S
      BY <1>4, FS_Subset
    <2>2. QED
      BY <1>4, <1>5, <2>1, TotalType
  <1> HIDE DEF bad
  <1>11. QED
    BY <1>3, <1>5, <1>7, <1>8, <1>9, <1>10

\* Fewer facts have no greater total.
LEMMA TotalMonotone ==
  ASSUME NEW S, IsFiniteSet(S), \A f \in S : f.ratio \in Nat, NEW T, T \subseteq S
  PROVE  Total(T) <= Total(S)
  <1> DEFINE bad == {s \in SUBSET S : T \subseteq s /\ ~(Total(T) <= Total(s))}
  <1>1. SUFFICES ASSUME bad # {}
                 PROVE  FALSE
    OBVIOUS
  <1>2. PICK s \in bad : \A r \in SUBSET s : r # s => r \notin bad
    <2> HIDE DEF bad
    <2>1. bad \subseteq SUBSET S
      BY DEF bad
    <2>2. QED
      BY <1>1, <2>1, SmallestSet
  <1>3. s \in SUBSET S /\ T \subseteq s /\ ~(Total(T) <= Total(s)) /\ IsFiniteSet(s) /\ IsFiniteSet(T)
    BY <1>2, FS_Subset
  <1>4. Total(T) \in Nat /\ Total(s) \in Nat
    BY <1>3, TotalType
  <1>5. PICK x \in s : x \notin T
    BY <1>3, <1>4
  <1>6. Total(s) = x.ratio + Total(s \ {x}) /\ x.ratio \in Nat
    BY <1>3, <1>5, TotalRemove
  <1>7. IsFiniteSet(s \ {x}) /\ s \ {x} \in SUBSET S /\ T \subseteq s \ {x}
    BY <1>3, <1>5, FS_Subset
  <1>8. Total(s \ {x}) \in Nat
    BY <1>7, TotalType
  <1>9. Total(T) <= Total(s \ {x})
    BY <1>2, <1>5, <1>7
  <1>10. QED
    BY <1>3, <1>4, <1>6, <1>8, <1>9


\* A total is that of the facts chosen and that of the others.
LEMMA TotalSplit ==
  ASSUME NEW S, IsFiniteSet(S), \A f \in S : f.ratio \in Nat, NEW X
  PROVE  Total(S) = Total(S \cap X) + Total(S \ X)
  <1> DEFINE bad == {s \in SUBSET S : Total(s) # Total(s \cap X) + Total(s \ X)}
  <1>1. SUFFICES ASSUME bad # {}
                 PROVE  FALSE
    OBVIOUS
  <1>2. PICK s \in bad : \A r \in SUBSET s : r # s => r \notin bad
    <2> HIDE DEF bad
    <2>1. bad \subseteq SUBSET S
      BY DEF bad
    <2>2. QED
      BY <1>1, <2>1, SmallestSet
  <1>3. s \in SUBSET S /\ Total(s) # Total(s \cap X) + Total(s \ X) /\ IsFiniteSet(s)
    BY <1>2, FS_Subset
  <1>4. s # {}
    <2>1. ASSUME s = {}
          PROVE  FALSE
      <3>1. s \cap X = {} /\ s \ X = {}
        BY <2>1
      <3>2. QED
        BY <1>3, <2>1, <3>1, TotalEmpty
    <2>2. QED
      BY <2>1
  <1>5. PICK x \in s : TRUE
    BY <1>4
  <1> DEFINE r == s \ {x}
  <1>6. Total(r) = Total(r \cap X) + Total(r \ X)
    <2>1. r \in SUBSET s /\ r # s /\ r \in SUBSET S
      BY <1>3, <1>5
    <2>2. r \notin bad
      <3> HIDE DEF bad, r
      <3>1. QED
        BY <1>2, <2>1
    <2>3. QED
      BY <2>1, <2>2
  <1>7. Total(s) = x.ratio + Total(r) /\ x.ratio \in Nat
    BY <1>3, <1>5, TotalRemove
  <1>8. /\ IsFiniteSet(s \cap X) /\ IsFiniteSet(s \ X) /\ IsFiniteSet(r \cap X) /\ IsFiniteSet(r \ X)
        /\ s \cap X \subseteq S /\ s \ X \subseteq S /\ r \cap X \subseteq S /\ r \ X \subseteq S
    BY <1>3, FS_Subset
  <1>9. Total(r \cap X) \in Nat /\ Total(r \ X) \in Nat
    BY <1>8, TotalType
  <1>10. CASE x \in X
    <2>1. x \in s \cap X /\ (s \cap X) \ {x} = r \cap X /\ s \ X = r \ X
      BY <1>5, <1>10
    <2>2. Total(s \cap X) = x.ratio + Total((s \cap X) \ {x})
      BY <1>8, <2>1, TotalRemove
    <2>3. Total((s \cap X) \ {x}) = Total(r \cap X) /\ Total(s \ X) = Total(r \ X)
      BY <2>1
    <2> HIDE DEF bad, r
    <2>4. QED
      BY <1>3, <1>6, <1>7, <1>9, <2>2, <2>3
  <1>11. CASE x \notin X
    <2>1. x \in s \ X /\ (s \ X) \ {x} = r \ X /\ s \cap X = r \cap X
      BY <1>5, <1>11
    <2>2. Total(s \ X) = x.ratio + Total((s \ X) \ {x})
      BY <1>8, <2>1, TotalRemove
    <2>3. Total((s \ X) \ {x}) = Total(r \ X) /\ Total(s \cap X) = Total(r \cap X)
      BY <2>1
    <2> HIDE DEF bad, r
    <2>4. QED
      BY <1>3, <1>6, <1>7, <1>9, <2>2, <2>3
  <1>12. QED
    BY <1>10, <1>11

\* What is within one for every employment is, over all of them, within their number.
LEMMA TotalByEmployment ==
  ASSUME NEW S, IsFiniteSet(S), \A f \in S : f.ratio \in Nat, NEW V, IsFiniteSet(V),
         \A v \in V : Total({f \in S : f.employment = v.employment}) <= One,
         \A f \in S : \E v \in V : v.employment = f.employment
  PROVE  Total(S) <= One * Cardinality(V)
  <1> DEFINE Of(T) == {f \in S : \E v \in T : v.employment = f.employment}
             bad == {T \in SUBSET V : ~(Total(Of(T)) <= One * Cardinality(T))}
  <1>1. Of(V) = S
    OBVIOUS
  <1>2. SUFFICES ASSUME bad # {}
                 PROVE  FALSE
    BY <1>1
  <1>3. PICK T \in bad : \A U \in SUBSET T : U # T => U \notin bad
    <2> HIDE DEF bad
    <2>1. bad \subseteq SUBSET V
      BY DEF bad
    <2>2. QED
      BY <1>2, <2>1, SmallestSet
  <1>4. T \in SUBSET V /\ ~(Total(Of(T)) <= One * Cardinality(T)) /\ IsFiniteSet(T)
    BY <1>3, FS_Subset
  <1>5. T # {}
    <2>1. ASSUME T = {}
          PROVE  FALSE
      <3>1. Of(T) = {} /\ Cardinality(T) = 0
        BY <2>1, FS_EmptySet
      <3>2. QED
        BY <1>4, <3>1, TotalEmpty DEF One
    <2>2. QED
      BY <2>1
  <1>6. PICK v \in T : TRUE
    BY <1>5
  <1> DEFINE U == T \ {v}
             own == {f \in S : f.employment = v.employment}
  <1>7. Total(Of(U)) <= One * Cardinality(U)
    <2>1. U \in SUBSET T /\ U # T /\ U \in SUBSET V
      BY <1>4, <1>6
    <2>2. U \notin bad
      <3> HIDE DEF bad, U
      <3>1. QED
        BY <1>3, <2>1
    <2>3. QED
      BY <2>1, <2>2
  <1>8. Cardinality(T) = Cardinality(U) + 1 /\ Cardinality(U) \in Nat /\ Cardinality(T) \in Nat
    <2>1. IsFiniteSet(U) /\ Cardinality(U) = Cardinality(T) - 1
      BY <1>4, <1>6, FS_RemoveElement
    <2>2. Cardinality(U) \in Nat /\ Cardinality(T) \in Nat
      BY <1>4, <2>1, FS_CardinalityType
    <2>3. QED
      BY <2>1, <2>2
  <1>9. /\ IsFiniteSet(Of(T)) /\ IsFiniteSet(Of(U)) /\ IsFiniteSet(own)
        /\ IsFiniteSet(Of(T) \cap own) /\ IsFiniteSet(Of(T) \ own)
    BY FS_Subset
  <1>10. Total(Of(T)) = Total(Of(T) \cap own) + Total(Of(T) \ own)
    BY <1>9, TotalSplit
  <1>11. Total(Of(T) \cap own) <= Total(own) /\ Total(own) <= One
    <2>1. Total(Of(T) \cap own) <= Total(own)
      BY <1>9, TotalMonotone
    <2>2. QED
      BY <1>4, <1>6, <2>1
  <1>12. Total(Of(T) \ own) <= Total(Of(U))
    <2>1. Of(T) \ own \subseteq Of(U)
      OBVIOUS
    <2>2. QED
      BY <1>9, <2>1, TotalMonotone
  <1>13. /\ Total(Of(T) \cap own) \in Nat /\ Total(Of(T) \ own) \in Nat
         /\ Total(own) \in Nat /\ Total(Of(U)) \in Nat
    BY <1>9, TotalType
  <1> HIDE DEF bad, Of, own, U
  <1>14. QED
    BY <1>4, <1>7, <1>8, <1>10, <1>11, <1>12, <1>13 DEF One

------------------------------------------------------------------------------
(* Probe days *)

\* Any nonempty set of naturals has a smallest element.
LEMMA SmallestNumber ==
  ASSUME NEW Q, Q \subseteq Nat, Q # {}
  PROVE  \E k \in Q : \A j \in Q : k <= j
  <1>1. PICK k \in Q : \A j \in Q : <<j, k>> \notin OpToRel(<, Nat)
    BY NatLessThanWellFounded, WFMin
  <1>2. ASSUME NEW j \in Q
        PROVE  k <= j
    <2>1. j \in Nat /\ k \in Nat
      OBVIOUS
    <2>2. ~(j < k)
      BY <1>1, <2>1 DEF OpToRel
    <2>3. QED
      BY <2>1, <2>2
  <1>3. QED
    BY <1>2

\* What is visible on a day of the proposed assignment is visible on its latest probe
\* day before: the probes decide for every day.
LEMMA ProbesSuffice ==
  ASSUME NEW all, NEW facts, facts \subseteq all, IsFiniteSet(facts),
         \A f \in facts : f.ratio \in Nat /\ f.from \in Nat /\ f.to \in Nat,
         NEW proposed, proposed.from \in Nat, proposed.to \in Nat, NEW known,
         \A probe \in ProbeDays(all, proposed) : WithinOne(facts, probe, known),
         NEW day \in Nat, Contains(proposed, day)
  PROVE  WithinOne(facts, day, known)
  <1> DEFINE back == {k \in Nat : k <= day /\ day - k \in ProbeDays(all, proposed)}
  <1>1. proposed.from \in ProbeDays(all, proposed)
    BY DEF ProbeDays
  <1>2. proposed.from <= day /\ day < proposed.to
    BY DEF Contains
  <1>3. day - proposed.from \in back
    <2>1. day - proposed.from \in Nat /\ day - (day - proposed.from) = proposed.from
          /\ day - proposed.from <= day
      BY <1>2
    <2>2. QED
      BY <1>1, <2>1
  <1>4. PICK k \in back : \A j \in back : k <= j
    <2> HIDE DEF back
    <2>1. back \subseteq Nat
      BY DEF back
    <2>2. QED
      BY <1>3, <2>1, SmallestNumber
  <1> DEFINE probe == day - k
  <1>5. probe \in Nat /\ probe <= day /\ probe \in ProbeDays(all, proposed) /\ proposed.from <= probe
    <2>1. k \in Nat /\ k <= day /\ day - k \in ProbeDays(all, proposed) /\ k <= day - proposed.from
      BY <1>3, <1>4
    <2>2. QED
      BY <1>2, <2>1
  <1>6. \A j \in ProbeDays(all, proposed) : j \in Nat /\ j <= day => j <= probe
    <2> SUFFICES ASSUME NEW j \in ProbeDays(all, proposed), j \in Nat, j <= day
                 PROVE  j <= probe
      OBVIOUS
    <2>1. day - j \in Nat /\ day - (day - j) = j /\ day - j <= day
      OBVIOUS
    <2>2. day - j \in back
      BY <2>1
    <2>3. k <= day - j /\ k \in Nat
      BY <1>4, <2>2
    <2>4. QED
      BY <2>3
  <1> HIDE DEF probe
  <1> DEFINE seen == {f \in facts : Contains(f, day) /\ KnownAt(f, known)}
             probed == {f \in facts : Contains(f, probe) /\ KnownAt(f, known)}
  <1>7. seen \subseteq probed
    <2> SUFFICES ASSUME NEW f \in facts, Contains(f, day)
                 PROVE  Contains(f, probe)
      OBVIOUS
    <2>1. f.from \in Nat /\ f.to \in Nat /\ f.from <= day /\ day < f.to
      BY DEF Contains
    <2>2. CASE f.from < proposed.from
      BY <1>5, <2>1, <2>2 DEF Contains
    <2>3. CASE proposed.from <= f.from
      <3>1. Overlaps(f, proposed) /\ Contains(proposed, f.from)
        BY <1>2, <2>1, <2>3 DEF Overlaps, Contains
      <3>2. f.from \in ProbeDays(all, proposed)
        BY <3>1 DEF ProbeDays
      <3>3. QED
        BY <1>5, <1>6, <2>1, <3>2 DEF Contains
    <2>4. QED
      BY <2>1, <2>2, <2>3
  <1>8. IsFiniteSet(probed) /\ IsFiniteSet(seen)
    BY FS_Subset
  <1>9. Total(seen) <= Total(probed) /\ Total(seen) \in Nat /\ Total(probed) \in Nat
    BY <1>7, <1>8, TotalMonotone, TotalType
  <1>10. Total(probed) <= One
    BY <1>5 DEF WithinOne
  <1>11. QED
    BY <1>9, <1>10 DEF WithinOne, One

------------------------------------------------------------------------------
(* The walk of _union_covers *)

Cursors == Days \cup {Forever}

Found(intervals, cursor) == {i \in intervals : Contains(i, cursor)}
Taken(intervals, cursor) == CHOOSE i \in Found(intervals, cursor) : TRUE

\* From the cursor the walk gets to the end of the target.
Arrives(reach, intervals, target, cursor) ==
  \/ cursor >= target.to
  \/ /\ Found(intervals, cursor) # {}
     /\ Taken(intervals, cursor).to = Forever \/ reach[Taken(intervals, cursor).to]

Walks(reach, intervals, target) ==
  reach = [cursor \in Cursors |-> Arrives(reach, intervals, target, cursor)]

\* union_covers is the walk from the first day of the target.
LEMMA CoversIsWalk ==
  ASSUME NEW intervals, NEW target
  PROVE  UnionCovers(intervals, target)
           = (CHOOSE reach : Walks(reach, intervals, target))[target.from]
  BY DEF UnionCovers, Walks, Arrives, Found, Taken, Cursors

\* The walk is defined: the cursors from which it arrives are the least set that
\* the steps of the walk do not leave.
LEMMA WalkExists ==
  ASSUME NEW intervals, NEW target, \A i \in intervals : i.to \in Cursors
  PROVE  \E reach : Walks(reach, intervals, target)
  <1> DEFINE Closed(X) == \A c \in Cursors :
               (\/ c >= target.to
                \/ /\ Found(intervals, c) # {}
                   /\ Taken(intervals, c).to = Forever \/ Taken(intervals, c).to \in X) => c \in X
             good == {c \in Cursors : \A X \in SUBSET Cursors : Closed(X) => c \in X}
             reach == [c \in Cursors |-> c \in good]
  <1>1. \A c \in Cursors : Found(intervals, c) # {} => Taken(intervals, c).to \in Cursors
    <2> SUFFICES ASSUME NEW c \in Cursors, Found(intervals, c) # {}
                 PROVE  Taken(intervals, c).to \in Cursors
      OBVIOUS
    <2>1. Taken(intervals, c) \in Found(intervals, c)
      BY DEF Taken
    <2>2. QED
      BY <2>1 DEF Found
  <1>2. Closed(good)
    <2> SUFFICES ASSUME NEW c \in Cursors,
                        \/ c >= target.to
                        \/ /\ Found(intervals, c) # {}
                           /\ Taken(intervals, c).to = Forever \/ Taken(intervals, c).to \in good,
                        NEW X \in SUBSET Cursors, Closed(X)
                 PROVE  c \in X
      OBVIOUS
    <2>1. QED
      OBVIOUS
  <1>3. \A c \in good :
          \/ c >= target.to
          \/ /\ Found(intervals, c) # {}
             /\ Taken(intervals, c).to = Forever \/ Taken(intervals, c).to \in good
    <2> SUFFICES ASSUME NEW c \in good,
                        ~(\/ c >= target.to
                          \/ /\ Found(intervals, c) # {}
                             /\ \/ Taken(intervals, c).to = Forever
                                \/ Taken(intervals, c).to \in good)
                 PROVE  FALSE
      OBVIOUS
    <2> DEFINE X == good \ {c}
    <2>1. Closed(X)
      <3> SUFFICES ASSUME NEW d \in Cursors,
                          \/ d >= target.to
                          \/ /\ Found(intervals, d) # {}
                             /\ Taken(intervals, d).to = Forever \/ Taken(intervals, d).to \in X
                   PROVE  d \in X
        OBVIOUS
      <3>1. d \in good
        <4> HIDE DEF good
        <4>1. QED
          BY <1>2
      <3>2. d # c
        <4> HIDE DEF good
        <4>1. QED
          OBVIOUS
      <3>3. QED
        BY <3>1, <3>2
    <2>2. X \in SUBSET Cursors /\ c \notin X
      OBVIOUS
    <2>3. QED
      BY <2>1, <2>2
  <1>4. \A c \in Cursors : reach[c] = Arrives(reach, intervals, target, c)
    <2> SUFFICES ASSUME NEW c \in Cursors
                 PROVE  reach[c] = Arrives(reach, intervals, target, c)
      OBVIOUS
    <2>1. Found(intervals, c) # {} => reach[Taken(intervals, c).to] = (Taken(intervals, c).to \in good)
      <3> HIDE DEF good
      <3>1. QED
        BY <1>1
    <2>2. c \in good <=> \/ c >= target.to
                         \/ /\ Found(intervals, c) # {}
                            /\ Taken(intervals, c).to = Forever \/ Taken(intervals, c).to \in good
      <3> HIDE DEF good
      <3>1. QED
        BY <1>2, <1>3
    <2>3. reach[c] = (c \in good)
      OBVIOUS
    <2>4. (c \in good) <=> Arrives(reach, intervals, target, c)
      <3> HIDE DEF good, reach
      <3>1. CASE Found(intervals, c) = {}
        BY <2>2, <3>1 DEF Arrives
      <3>2. CASE Found(intervals, c) # {}
        BY <2>1, <2>2, <3>2 DEF Arrives
      <3>3. QED
        BY <3>1, <3>2
    <2>5. Arrives(reach, intervals, target, c) \in BOOLEAN
      <3> HIDE DEF good, reach
      <3>1. QED
        BY DEF Arrives
    <2>6. QED
      <3> HIDE DEF good, reach
      <3>1. QED
        BY <2>3, <2>4, <2>5
  <1>5. Walks(reach, intervals, target)
    <2> HIDE DEF good
    <2>1. reach = [c \in Cursors |-> reach[c]]
      OBVIOUS
    <2> HIDE DEF reach
    <2>2. QED
      BY <1>4, <2>1 DEF Walks
  <1>6. QED
    <2> HIDE DEF reach
    <2>1. QED
      BY <1>5

\* The cursors are the days and the open end behind them.
LEMMA CursorsOrdered ==
  /\ Forever \in Nat /\ Forever \in Cursors
  /\ \A day \in Days : day \in Nat /\ day \in Cursors /\ day < Forever
  /\ \A c \in Cursors : c \in Nat /\ c <= Forever /\ (c # Forever => c \in Days)
  <1>1. Forever \in Nat /\ Forever \in Cursors
    BY DayAssumption DEF Cursors
  <1>2. \A day \in Days : day \in Nat /\ day \in Cursors /\ day < Forever
    BY DayAssumption DEF Cursors
  <1>3. ASSUME NEW c \in Cursors
        PROVE  c \in Nat /\ c <= Forever /\ (c # Forever => c \in Days)
    <2>1. CASE c \in Days
      BY <1>1, <1>2, <2>1
    <2>2. CASE c = Forever
      BY <1>1, <2>2
    <2>3. QED
      BY <2>1, <2>2 DEF Cursors
  <1>4. QED
    BY <1>1, <1>2, <1>3

\* Where the walk goes on from.
LEMMA WalkAt ==
  ASSUME NEW intervals, \A i \in intervals : i.from \in Nat /\ i.to \in Cursors,
         NEW target, target.to \in Cursors,
         NEW reach, Walks(reach, intervals, target), NEW c \in Cursors, c < target.to
  PROVE  /\ c \in Days
         /\ reach[c] <=> /\ Found(intervals, c) # {}
                         /\ \/ Taken(intervals, c).to = Forever
                            \/ reach[Taken(intervals, c).to]
         /\ Found(intervals, c) # {} =>
              /\ Taken(intervals, c) \in intervals /\ Taken(intervals, c).from <= c
              /\ Taken(intervals, c).to \in Cursors /\ c < Taken(intervals, c).to
  <1>1. c \in Nat /\ target.to \in Nat /\ target.to <= Forever /\ Forever \in Nat
    BY CursorsOrdered
  <1>2. c \in Days
    BY <1>1, CursorsOrdered
  <1>3. reach[c] = Arrives(reach, intervals, target, c)
    BY DEF Walks
  <1>4. ~(c >= target.to)
    BY <1>1
  <1>5. Arrives(reach, intervals, target, c) <=>
          /\ Found(intervals, c) # {}
          /\ Taken(intervals, c).to = Forever \/ reach[Taken(intervals, c).to]
    BY <1>4 DEF Arrives
  <1>6. ASSUME Found(intervals, c) # {}
        PROVE  /\ Taken(intervals, c) \in intervals /\ Taken(intervals, c).from <= c
               /\ Taken(intervals, c).to \in Cursors /\ c < Taken(intervals, c).to
    <2>1. Taken(intervals, c) \in Found(intervals, c)
      BY <1>6 DEF Taken
    <2>2. QED
      BY <2>1 DEF Found, Contains
  <1>7. QED
    BY <1>2, <1>3, <1>5, <1>6

\* Among cursors with some property one is the last.
LEMMA LastCursor ==
  ASSUME NEW bad, bad \subseteq Cursors, bad # {}
  PROVE  \E c \in bad : \A d \in bad : d <= c
  <1> DEFINE left == {k \in Nat : k <= Forever /\ Forever - k \in bad}
  <1>1. \A c \in bad : c \in Nat /\ c <= Forever /\ Forever \in Nat
    BY DayAssumption DEF Cursors
  <1>2. \A c \in bad : Forever - c \in left
    <2> SUFFICES ASSUME NEW c \in bad
                 PROVE  Forever - c \in left
      OBVIOUS
    <2>1. Forever - c \in Nat /\ Forever - c <= Forever /\ Forever - (Forever - c) = c
      BY <1>1
    <2>2. QED
      BY <2>1
  <1>3. PICK k \in left : \A j \in left : k <= j
    <2>1. left \subseteq Nat /\ left # {}
      BY <1>2
    <2> HIDE DEF left
    <2>2. QED
      BY <2>1, SmallestNumber
  <1>4. Forever - k \in bad /\ k \in Nat /\ k <= Forever
    OBVIOUS
  <1>5. ASSUME NEW d \in bad
        PROVE  d <= Forever - k
    <2>1. k <= Forever - d
      BY <1>2, <1>3
    <2> HIDE DEF left
    <2>2. QED
      BY <1>1, <1>4, <2>1
  <1>6. QED
    BY <1>4, <1>5

\* Following the periods from end to end accepts a target exactly when each of its
\* days lies in a period: no gap is accepted, not even between half-open
\* neighbours, and nothing that is covered is refused.
THEOREM UnionCoversDays ==
  ASSUME NEW intervals, \A i \in intervals : i.from \in Nat /\ i.to \in Cursors,
         NEW target, target.from \in Days, target.to \in Cursors
  PROVE  UnionCovers(intervals, target) <=>
           \A day \in Days : Contains(target, day) => \E i \in intervals : Contains(i, day)
  <1> DEFINE reach == CHOOSE reach : Walks(reach, intervals, target)
             Covered(c) == \A day \in Days : c <= day /\ day < target.to =>
                             \E i \in intervals : Contains(i, day)
  <1>1. Walks(reach, intervals, target)
    BY WalkExists
  <1>2. UnionCovers(intervals, target) = reach[target.from]
    BY CoversIsWalk
  <1> HIDE DEF reach
  <1>3. /\ target.to \in Nat /\ target.to <= Forever /\ Forever \in Nat
        /\ \A day \in Days : day \in Nat /\ day \in Cursors /\ day < Forever
        /\ \A c \in Cursors : c \in Nat
    BY CursorsOrdered
  <1>4. \A c \in Cursors : reach[c] => Covered(c)
    <2> DEFINE bad == {c \in Cursors : reach[c] /\ ~Covered(c)}
    <2>1. SUFFICES ASSUME bad # {}
                   PROVE  FALSE
      OBVIOUS
    <2>2. PICK c \in bad : \A d \in bad : d <= c
      <3>1. bad \subseteq Cursors
        OBVIOUS
      <3> HIDE DEF bad
      <3>2. QED
        BY <2>1, <3>1, LastCursor
    <2>3. c \in Cursors /\ reach[c] /\ ~Covered(c)
      BY <2>2
    <2>4. PICK day \in Days : /\ c <= day /\ day < target.to
                              /\ \A i \in intervals : ~Contains(i, day)
      BY <2>3
    <2>5. c < target.to
      BY <1>3, <2>3, <2>4
    <2> DEFINE next == Taken(intervals, c)
    <2>6. /\ next \in intervals /\ next.from <= c /\ next.to \in Cursors /\ c < next.to
          /\ next.to = Forever \/ reach[next.to]
      BY <1>1, <2>3, <2>5, WalkAt
    <2> HIDE DEF next
    <2>7. next.to \in Nat /\ c \in Nat /\ day \in Nat /\ next.from \in Nat
      BY <1>3, <2>3, <2>6
    <2>8. next.to <= day
      BY <2>4, <2>6, <2>7 DEF Contains
    <2>9. next.to # Forever
      BY <1>3, <2>7, <2>8
    <2>10. next.to \in bad
      BY <2>4, <2>6, <2>8, <2>9
    <2>11. next.to <= c
      <3> HIDE DEF bad
      <3>1. QED
        BY <2>2, <2>10
    <2>12. QED
      BY <2>6, <2>7, <2>11
  <1>5. \A c \in Cursors : Covered(c) => reach[c]
    <2> DEFINE bad == {c \in Cursors : Covered(c) /\ ~reach[c]}
    <2>1. SUFFICES ASSUME bad # {}
                   PROVE  FALSE
      OBVIOUS
    <2>2. PICK c \in bad : \A d \in bad : d <= c
      <3>1. bad \subseteq Cursors
        OBVIOUS
      <3> HIDE DEF bad
      <3>2. QED
        BY <2>1, <3>1, LastCursor
    <2>3. c \in Cursors /\ ~reach[c] /\ Covered(c)
      BY <2>2
    <2>4. c < target.to
      <3>1. c >= target.to => Arrives(reach, intervals, target, c)
        BY DEF Arrives
      <3>2. reach[c] = Arrives(reach, intervals, target, c)
        BY <1>1, <2>3 DEF Walks
      <3>3. QED
        BY <1>3, <2>3, <3>1, <3>2
    <2>5. c \in Days
      BY <1>1, <2>3, <2>4, WalkAt
    <2>6. Found(intervals, c) # {}
      BY <1>3, <2>3, <2>4, <2>5 DEF Found
    <2> DEFINE next == Taken(intervals, c)
    <2>7. /\ next \in intervals /\ next.to \in Cursors /\ c < next.to
          /\ ~reach[next.to]
      BY <1>1, <2>3, <2>4, <2>6, WalkAt
    <2> HIDE DEF next
    <2>8. next.to \in Nat /\ c \in Nat
      BY <1>3, <2>3, <2>7
    <2>9. \A day \in Days : next.to <= day => c <= day
      BY <1>3, <2>7, <2>8
    <2>10. Covered(next.to)
      BY <2>3, <2>9
    <2>11. next.to \in bad
      BY <2>7, <2>10
    <2>12. next.to <= c
      <3> HIDE DEF bad
      <3>1. QED
        BY <2>2, <2>11
    <2>13. QED
      BY <2>7, <2>8, <2>12
  <1>6. reach[target.from] <=> Covered(target.from)
    BY <1>3, <1>4, <1>5
  <1>7. QED
    BY <1>2, <1>6 DEF Contains
================================================================================
