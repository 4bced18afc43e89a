--------------------------- MODULE FiniteSumProofs ---------------------------
(***************************************************************************)
(* The sum of a function over a finite set, as the community modules fold  *)
(* it: MapThenSumSet takes the elements in the order CHOOSE gives them.    *)
(* That order is irrelevant (SumRemove), which is what a proof about a     *)
(* ledger needs: a booking adds its amount to the total.                   *)
(*                                                                         *)
(* The provers cannot instantiate the library's induction theorems.  Every *)
(* induction here is an argument about a smallest counterexample, which    *)
(* exists because strict inclusion of finite sets is well founded.         *)
(***************************************************************************)
EXTENDS Naturals, FiniteSetsExt, FiniteSetTheorems, TLAPS

SumOf(f, S) == MapThenSumSet(LAMBDA x : f[x], S)

Pick(s) == CHOOSE x \in s : TRUE

\* g is the table of partial sums from which SumOf reads its last entry.
IsTable(f, S, g) ==
  g = [s \in SUBSET S |-> IF s = {} THEN 0 ELSE f[Pick(s)] + g[s \ {Pick(s)}]]

Table(f, S) == CHOOSE g : IsTable(f, S, g)

\* SumOf is the last entry of that table, by definition.
LEMMA SumIsTable ==
  ASSUME NEW f, NEW S
  PROVE  SumOf(f, S) = Table(f, S)[S]
BY DEF SumOf, MapThenSumSet, MapThenFoldSet, Table, IsTable, Pick

\* A set of subsets of a finite set has a smallest member.
LEMMA SmallestSubset ==
  ASSUME NEW S, IsFiniteSet(S), NEW C, C \subseteq SUBSET S, C # {}
  PROVE  \E T \in C : \A U \in SUBSET T : U # T => U \notin C
<1>1. C \subseteq FiniteSubsetsOf(S)
  BY FS_FiniteSubsetsOfFinite
<1>2. PICK T \in C : \A U \in C : ~(<<U, T>> \in StrictSubsetOrdering(S))
  BY <1>1, WFMin, FS_StrictSubsetOrderingWellFounded
<1>3. ASSUME NEW U \in SUBSET T, U # T, U \in C PROVE FALSE
  <2>1. <<U, T>> \in (SUBSET S) \X (SUBSET S)
    BY <1>3
  <2>2. <<U, T>> \in StrictSubsetOrdering(S)
    BY <1>3, <2>1 DEF StrictSubsetOrdering
  <2> QED
    BY <1>2, <1>3, <2>2
<1> QED
  BY <1>3

\* The entries of a table.
LEMMA TableEntries ==
  ASSUME NEW f, NEW S, NEW g, IsTable(f, S, g), NEW s \in SUBSET S
  PROVE  /\ s = {} => g[s] = 0
         /\ s # {} => Pick(s) \in s /\ g[s] = f[Pick(s)] + g[s \ {Pick(s)}]
<1>1. g[s] = IF s = {} THEN 0 ELSE f[Pick(s)] + g[s \ {Pick(s)}]
  <2>1. g = [t \in SUBSET S |-> IF t = {} THEN 0 ELSE f[Pick(t)] + g[t \ {Pick(t)}]]
    BY DEF IsTable
  <2> QED
    BY <2>1
<1>2. s # {} => Pick(s) \in s
  BY DEF Pick
<1> QED
  BY <1>1, <1>2

\* Two tables agree where both have entries.
LEMMA TablesAgree ==
  ASSUME NEW f, NEW S, IsFiniteSet(S), NEW T \in SUBSET S, NEW g, NEW h,
         IsTable(f, S, g), IsTable(f, T, h)
  PROVE  \A t \in SUBSET T : g[t] = h[t]
<1> DEFINE C == {t \in SUBSET T : g[t] # h[t]}
<1> SUFFICES ASSUME C # {} PROVE FALSE
  OBVIOUS
<1>1. IsFiniteSet(T)
  BY FS_Subset
<1>2. PICK t \in C : \A u \in SUBSET t : u # t => u \notin C
  <2>1. C \subseteq SUBSET T
    OBVIOUS
  <2> HIDE DEF C
  <2> QED
    BY <1>1, <2>1, SmallestSubset
<1>3. t \in SUBSET T /\ t \in SUBSET S /\ g[t] # h[t]
  OBVIOUS
<1>4. t # {}
  BY <1>3, TableEntries
<1>5. /\ Pick(t) \in t
      /\ g[t] = f[Pick(t)] + g[t \ {Pick(t)}] /\ h[t] = f[Pick(t)] + h[t \ {Pick(t)}]
  BY <1>3, <1>4, TableEntries
<1>6. g[t \ {Pick(t)}] = h[t \ {Pick(t)}]
  BY <1>2, <1>3, <1>5
<1> QED
  BY <1>3, <1>5, <1>6

\* Every finite set has a table.
LEMMA TableExists ==
  ASSUME NEW f, NEW S, IsFiniteSet(S)
  PROVE  \E g : IsTable(f, S, g)
<1> DEFINE C == {T \in SUBSET S : ~(\E g : IsTable(f, T, g))}
<1> SUFFICES ASSUME C # {} PROVE FALSE
  OBVIOUS
<1>1. PICK T \in C : \A U \in SUBSET T : U # T => U \notin C
  <2>1. C \subseteq SUBSET S
    OBVIOUS
  <2> HIDE DEF C
  <2> QED
    BY <2>1, SmallestSubset
<1>2. T \in SUBSET S /\ ~(\E g : IsTable(f, T, g))
  OBVIOUS
<1>3. \A U \in SUBSET T : U # T => IsTable(f, U, Table(f, U))
  <2>1. \A U \in SUBSET T : U # T => \E g : IsTable(f, U, g)
    BY <1>1, <1>2
  <2> QED
    BY <2>1 DEF Table
<1> DEFINE V(s) == Table(f, s)[s]
           g == [s \in SUBSET T |-> IF s = {} THEN 0 ELSE f[Pick(s)] + V(s \ {Pick(s)})]
<1>4. ASSUME NEW s \in SUBSET T, s # {} PROVE g[s \ {Pick(s)}] = V(s \ {Pick(s)})
  <2> DEFINE t == s \ {Pick(s)}
  <2>1. Pick(s) \in s
    BY <1>4 DEF Pick
  <2>2. t \in SUBSET T /\ t # T
    BY <2>1
  <2>3. IsTable(f, t, Table(f, t))
    BY <1>3, <2>2
  <2> HIDE DEF t
  <2>4. CASE t = {}
    <3>1. Table(f, t)[t] = 0
      BY <2>3, <2>4, TableEntries
    <3> QED
      BY <2>2, <2>4, <3>1 DEF t
  <2>5. CASE t # {}
    <3> DEFINE r == t \ {Pick(t)}
    <3>1. Pick(t) \in t /\ Table(f, t)[t] = f[Pick(t)] + Table(f, t)[r]
      BY <2>3, <2>5, TableEntries
    <3>2. r \in SUBSET t /\ r \in SUBSET T /\ r # T
      BY <2>2, <3>1
    <3>3. IsTable(f, r, Table(f, r)) /\ IsFiniteSet(t)
      BY <1>2, <1>3, <2>2, <3>2, FS_Subset
    <3>4. Table(f, t)[r] = Table(f, r)[r]
      <4> HIDE DEF r
      <4> QED
        BY <2>3, <3>2, <3>3, TablesAgree
    <3>5. g[t] = f[Pick(t)] + V(r)
      BY <2>2, <2>5
    <3> QED
      BY <3>1, <3>4, <3>5 DEF t
  <2> QED
    BY <2>4, <2>5
<1>5. IsTable(f, T, g)
  <2>1. \A s \in SUBSET T : g[s] = IF s = {} THEN 0 ELSE f[Pick(s)] + g[s \ {Pick(s)}]
    BY <1>4
  <2>2. g = [s \in SUBSET T |-> g[s]]
    OBVIOUS
  <2> HIDE DEF g
  <2>3. g = [s \in SUBSET T |-> IF s = {} THEN 0 ELSE f[Pick(s)] + g[s \ {Pick(s)}]]
    BY <2>1, <2>2
  <2> QED
    BY <2>3 DEF IsTable
<1> QED
  BY <1>2, <1>5

\* The sum over the empty set.
LEMMA SumEmpty ==
  ASSUME NEW f
  PROVE  SumOf(f, {}) = 0
<1>1. IsTable(f, {}, Table(f, {}))
  BY TableExists, FS_EmptySet DEF Table
<1> QED
  BY <1>1, SumIsTable, TableEntries

\* A sum without the element that is taken first.
LEMMA SumPick ==
  ASSUME NEW f, NEW S, IsFiniteSet(S), S # {}
  PROVE  Pick(S) \in S /\ SumOf(f, S) = f[Pick(S)] + SumOf(f, S \ {Pick(S)})
<1> DEFINE T == S \ {Pick(S)}
<1>1. T \in SUBSET S /\ IsFiniteSet(T)
  BY FS_Subset
<1>2. IsTable(f, S, Table(f, S)) /\ IsTable(f, T, Table(f, T))
  BY <1>1, TableExists DEF Table
<1>3. Pick(S) \in S /\ Table(f, S)[S] = f[Pick(S)] + Table(f, S)[T]
  BY <1>2, TableEntries
<1>4. Table(f, S)[T] = Table(f, T)[T]
  <2> HIDE DEF T
  <2> QED
    BY <1>1, <1>2, TablesAgree
<1> QED
  BY <1>3, <1>4, SumIsTable

\* The sum of natural numbers is a natural number.
LEMMA SumNat ==
  ASSUME NEW f, NEW S, IsFiniteSet(S), \A x \in S : f[x] \in Nat
  PROVE  SumOf(f, S) \in Nat
<1> DEFINE C == {T \in SUBSET S : SumOf(f, T) \notin Nat}
<1> SUFFICES ASSUME C # {} PROVE FALSE
  OBVIOUS
<1>1. PICK T \in C : \A U \in SUBSET T : U # T => U \notin C
  <2>1. C \subseteq SUBSET S
    OBVIOUS
  <2> HIDE DEF C
  <2> QED
    BY <2>1, SmallestSubset
<1>2. T \in SUBSET S /\ SumOf(f, T) \notin Nat /\ IsFiniteSet(T)
  BY FS_Subset
<1>3. T # {}
  BY <1>2, SumEmpty
<1>4. Pick(T) \in T /\ SumOf(f, T) = f[Pick(T)] + SumOf(f, T \ {Pick(T)})
  BY <1>2, <1>3, SumPick
<1>5. SumOf(f, T \ {Pick(T)}) \in Nat
  BY <1>1, <1>2, <1>4
<1> QED
  BY <1>2, <1>4, <1>5

\* Any element can be taken out of a sum, not only the one that is taken first.
LEMMA SumRemove ==
  ASSUME NEW f, NEW S, IsFiniteSet(S), \A x \in S : f[x] \in Nat
  PROVE  \A x \in S : SumOf(f, S) = f[x] + SumOf(f, S \ {x})
<1> DEFINE C == {T \in SUBSET S : \E x \in T : SumOf(f, T) # f[x] + SumOf(f, T \ {x})}
<1> SUFFICES ASSUME C # {} PROVE FALSE
  OBVIOUS
<1>1. PICK T \in C : \A U \in SUBSET T : U # T => U \notin C
  <2>1. C \subseteq SUBSET S
    OBVIOUS
  <2> HIDE DEF C
  <2> QED
    BY <2>1, SmallestSubset
<1>2. T \in SUBSET S /\ IsFiniteSet(T)
  BY FS_Subset
<1>3. PICK x \in T : SumOf(f, T) # f[x] + SumOf(f, T \ {x})
  OBVIOUS
<1> DEFINE p == Pick(T)
<1>4. p \in T /\ SumOf(f, T) = f[p] + SumOf(f, T \ {p})
  BY <1>2, <1>3, SumPick
<1>5. x # p
  BY <1>3, <1>4
<1> HIDE DEF p
<1>6. SumOf(f, T \ {p}) = f[x] + SumOf(f, (T \ {p}) \ {x})
  BY <1>1, <1>2, <1>3, <1>4, <1>5
<1>7. SumOf(f, T \ {x}) = f[p] + SumOf(f, (T \ {x}) \ {p})
  BY <1>1, <1>2, <1>3, <1>4, <1>5
<1>8. (T \ {p}) \ {x} = (T \ {x}) \ {p}
  OBVIOUS
<1>9. f[x] \in Nat /\ f[p] \in Nat /\ SumOf(f, (T \ {p}) \ {x}) \in Nat
  <2>1. IsFiniteSet((T \ {p}) \ {x}) /\ \A y \in (T \ {p}) \ {x} : f[y] \in Nat
    BY <1>2, FS_Subset
  <2> QED
    BY <1>2, <1>4, <2>1, SumNat
<1> QED
  BY <1>3, <1>4, <1>6, <1>7, <1>8, <1>9

\* Adding an element adds its value.
LEMMA SumAdd ==
  ASSUME NEW f, NEW S, IsFiniteSet(S), NEW y, y \notin S, \A x \in S \cup {y} : f[x] \in Nat
  PROVE  SumOf(f, S \cup {y}) = SumOf(f, S) + f[y]
<1>1. IsFiniteSet(S \cup {y}) /\ (S \cup {y}) \ {y} = S /\ y \in S \cup {y}
  BY FS_AddElement
<1>2. SumOf(f, S \cup {y}) = f[y] + SumOf(f, S)
  BY <1>1, SumRemove
<1>3. SumOf(f, S) \in Nat /\ f[y] \in Nat
  BY SumNat
<1> QED
  BY <1>2, <1>3

\* A sum depends only on the values at its elements.
LEMMA SumSame ==
  ASSUME NEW f, NEW g, NEW S, IsFiniteSet(S), \A x \in S : f[x] = g[x]
  PROVE  SumOf(f, S) = SumOf(g, S)
<1> DEFINE C == {T \in SUBSET S : SumOf(f, T) # SumOf(g, T)}
<1> SUFFICES ASSUME C # {} PROVE FALSE
  OBVIOUS
<1>1. PICK T \in C : \A U \in SUBSET T : U # T => U \notin C
  <2>1. C \subseteq SUBSET S
    OBVIOUS
  <2> HIDE DEF C
  <2> QED
    BY <2>1, SmallestSubset
<1>2. T \in SUBSET S /\ SumOf(f, T) # SumOf(g, T) /\ IsFiniteSet(T)
  BY FS_Subset
<1>3. T # {}
  BY <1>2, SumEmpty
<1>4. /\ Pick(T) \in T /\ SumOf(f, T) = f[Pick(T)] + SumOf(f, T \ {Pick(T)})
      /\ SumOf(g, T) = g[Pick(T)] + SumOf(g, T \ {Pick(T)})
  BY <1>2, <1>3, SumPick
<1>5. SumOf(f, T \ {Pick(T)}) = SumOf(g, T \ {Pick(T)}) /\ f[Pick(T)] = g[Pick(T)]
  BY <1>1, <1>2, <1>4
<1> QED
  BY <1>2, <1>4, <1>5

\* A sum is bounded by its largest addend.
LEMMA SumBound ==
  ASSUME NEW f, NEW S, IsFiniteSet(S), NEW b \in Nat, \A x \in S : f[x] \in Nat /\ f[x] <= b
  PROVE  SumOf(f, S) <= Cardinality(S) * b
<1> DEFINE C == {T \in SUBSET S : ~(SumOf(f, T) <= Cardinality(T) * b)}
<1> SUFFICES ASSUME C # {} PROVE FALSE
  OBVIOUS
<1>1. PICK T \in C : \A U \in SUBSET T : U # T => U \notin C
  <2>1. C \subseteq SUBSET S
    OBVIOUS
  <2> HIDE DEF C
  <2> QED
    BY <2>1, SmallestSubset
<1>2. T # {}
  <2>1. Cardinality({}) * b = 0
    BY FS_EmptySet
  <2> QED
    BY <2>1, SumEmpty
<1> DEFINE p == Pick(T)
           U == T \ {p}
<1>3. IsFiniteSet(T) /\ T \subseteq S
  BY FS_Subset
<1>4. p \in T /\ SumOf(f, T) = f[p] + SumOf(f, U)
  BY <1>2, <1>3, SumPick
<1>5. U \in SUBSET T /\ U # T /\ IsFiniteSet(U) /\ \A x \in U : f[x] \in Nat
  BY <1>3, <1>4, FS_Subset
<1>6. SumOf(f, U) <= Cardinality(U) * b /\ SumOf(f, U) \in Nat
  BY <1>1, <1>3, <1>5, SumNat
<1>7. Cardinality(T) = Cardinality(U) + 1 /\ Cardinality(U) \in Nat
  BY <1>3, <1>4, <1>5, FS_RemoveElement, FS_CardinalityType
<1> HIDE DEF p, U
<1>8. (Cardinality(U) + 1) * b = Cardinality(U) * b + b /\ Cardinality(U) * b \in Nat
  BY <1>7
<1>9. f[p] \in Nat /\ f[p] <= b
  BY <1>3, <1>4
<1>10. SumOf(f, T) <= Cardinality(T) * b
  BY <1>4, <1>6, <1>7, <1>8, <1>9
<1> QED
  BY <1>1, <1>10

\* Another addend for y only.
LEMMA SumChange ==
  ASSUME NEW f, NEW g, NEW S, IsFiniteSet(S), NEW y \in S,
         \A x \in S : f[x] \in Nat /\ g[x] \in Nat, \A x \in S \ {y} : f[x] = g[x]
  PROVE  SumOf(g, S) + f[y] = SumOf(f, S) + g[y]
<1>1. IsFiniteSet(S \ {y}) /\ \A x \in S \ {y} : f[x] \in Nat
  BY FS_Subset
<1>2. SumOf(f, S \ {y}) = SumOf(g, S \ {y}) /\ SumOf(f, S \ {y}) \in Nat
  BY <1>1, SumSame, SumNat
<1>3. SumOf(f, S) = f[y] + SumOf(f, S \ {y}) /\ SumOf(g, S) = g[y] + SumOf(g, S \ {y})
  BY SumRemove
<1> QED
  BY <1>2, <1>3

\* The sum over two disjoint sets is the sum of their sums.
LEMMA SumUnion ==
  ASSUME NEW f, NEW S, NEW T, IsFiniteSet(S), IsFiniteSet(T), S \cap T = {},
         \A x \in S \cup T : f[x] \in Nat
  PROVE  SumOf(f, S \cup T) = SumOf(f, S) + SumOf(f, T)
<1> DEFINE C == {U \in SUBSET T : SumOf(f, S \cup U) # SumOf(f, S) + SumOf(f, U)}
<1> SUFFICES ASSUME C # {} PROVE FALSE
  OBVIOUS
<1>1. PICK U \in C : \A V \in SUBSET U : V # U => V \notin C
  <2>1. C \subseteq SUBSET T
    OBVIOUS
  <2> HIDE DEF C
  <2> QED
    BY <2>1, SmallestSubset
<1>2. SumOf(f, S) \in Nat /\ SumOf(f, {}) = 0
  BY SumNat, SumEmpty
<1>3. U # {}
  <2>1. S \cup {} = S
    OBVIOUS
  <2> QED
    BY <1>2, <2>1
<1>4. PICK y \in U : TRUE
  BY <1>3
<1> DEFINE V == U \ {y}
<1>5. V \in SUBSET U /\ V # U /\ V \in SUBSET T /\ y \notin S \cup V /\ y \in T
  OBVIOUS
<1>6. SumOf(f, S \cup V) = SumOf(f, S) + SumOf(f, V)
  BY <1>1, <1>5
<1>7. IsFiniteSet(V) /\ IsFiniteSet(S \cup V) /\ IsFiniteSet(U)
  BY <1>5, FS_Subset, FS_Union
<1>8. (S \cup V) \cup {y} = S \cup U /\ V \cup {y} = U
  OBVIOUS
<1>9. SumOf(f, S \cup U) = SumOf(f, S \cup V) + f[y]
  <2>1. \A x \in (S \cup V) \cup {y} : f[x] \in Nat
    BY <1>5
  <2> QED
    BY <1>5, <1>7, <1>8, <2>1, SumAdd
<1>10. SumOf(f, U) = SumOf(f, V) + f[y]
  <2>1. \A x \in V \cup {y} : f[x] \in Nat
    BY <1>5
  <2> QED
    BY <1>5, <1>7, <1>8, <2>1, SumAdd
<1>11. SumOf(f, V) \in Nat /\ f[y] \in Nat
  <2>1. \A x \in V : f[x] \in Nat
    BY <1>5
  <2> QED
    BY <1>5, <1>7, <2>1, SumNat
<1> QED
  BY <1>2, <1>6, <1>9, <1>10, <1>11
=============================================================================
