----------------------------- MODULE Fees_proofs -----------------------------
(***************************************************************************)
(* What the parts of a divided fee come to, for every fee and every number *)
(* of instalments, and the facts about sums this rests on.                 *)
(*                                                                         *)
(* The community modules add up a set by choosing an element at a time.    *)
(* That the choice does not matter is shown from a smallest set for which  *)
(* it would: the ordering of the subsets of a finite set is well founded.  *)
(***************************************************************************)
EXTENDS Fees, FiniteSetsExt, FiniteSetTheorems, TLAPS

Pick(s) == CHOOSE x \in s : TRUE

(* g[s] is the sum of w over s, for every subset s of S. *)
Adds(w, S, g) ==
    g = [s \in SUBSET S |-> IF s = {} THEN 0 ELSE w[Pick(s)] + g[s \ {Pick(s)}]]

Total(w, S) == (CHOOSE g : Adds(w, S, g))[S]

LEMMA Picked == ASSUME NEW s, s # {} PROVE Pick(s) \in s
  BY DEF Pick

(* Of a property that some subset of a finite set has, a smallest one has it. *)
LEMMA SmallestSubset ==
    ASSUME NEW S, IsFiniteSet(S), NEW T \in SUBSET (SUBSET S), T # {}
    PROVE  \E U \in T : \A V \in T : V \subseteq U => V = U
  <1>1. IsWellFoundedOn(StrictSubsetOrdering(S), SUBSET S)
    BY FS_StrictSubsetOrderingWellFounded, FS_FiniteSubsetsOfFinite
  <1>2. PICK U \in T : \A V \in T : ~(<<V, U>> \in StrictSubsetOrdering(S))
    BY <1>1, WFMin
  <1>3. \A V \in T : V \subseteq U => V = U
    BY <1>2 DEF StrictSubsetOrdering
  <1> QED
    BY <1>3

LEMMA AddsTo ==
    ASSUME NEW w, NEW S, NEW g, Adds(w, S, g)
    PROVE  /\ g[{}] = 0
           /\ \A s \in SUBSET S : s # {} => g[s] = w[Pick(s)] + g[s \ {Pick(s)}]
  <1>1. PICK h : h = [s \in SUBSET S |-> IF s = {} THEN 0 ELSE w[Pick(s)] + g[s \ {Pick(s)}]]
    OBVIOUS
  <1>2. g = h
    BY <1>1 DEF Adds
  <1> QED
    BY <1>1, <1>2

(* What adds up the subsets of S adds up those of a subset of it. *)
LEMMA AddsToPart ==
    ASSUME NEW w, NEW S, NEW g, Adds(w, S, g), NEW R \in SUBSET S
    PROVE  Adds(w, R, [s \in SUBSET R |-> g[s]])
  <1> DEFINE h == [s \in SUBSET R |-> g[s]]
  <1>1. ASSUME NEW s \in SUBSET R
        PROVE  h[s] = IF s = {} THEN 0 ELSE w[Pick(s)] + h[s \ {Pick(s)}]
    <2>1. s \in SUBSET S /\ s \ {Pick(s)} \in SUBSET R
      OBVIOUS
    <2>2. h[s] = g[s] /\ h[s \ {Pick(s)}] = g[s \ {Pick(s)}]
      BY <2>1
    <2> HIDE DEF h
    <2>3. s = {} => g[s] = 0
      BY AddsTo
    <2>4. s # {} => g[s] = w[Pick(s)] + g[s \ {Pick(s)}]
      <3>1. \A t \in SUBSET S : t # {} => g[t] = w[Pick(t)] + g[t \ {Pick(t)}]
        BY AddsTo
      <3> QED
        BY <2>1, <3>1, Zenon
    <2> QED
      BY <2>2, <2>3, <2>4, Zenon
  <1>2. h = [s \in SUBSET R |-> h[s]]
    OBVIOUS
  <1> HIDE DEF h
  <1>3. h = [s \in SUBSET R |-> IF s = {} THEN 0 ELSE w[Pick(s)] + h[s \ {Pick(s)}]]
    BY <1>1, <1>2
  <1> QED
    BY <1>3 DEF Adds, h

LEMMA AddsOnce ==
    ASSUME NEW w, NEW S, IsFiniteSet(S), NEW g, NEW h, Adds(w, S, g), Adds(w, S, h)
    PROVE  g = h
  <1> DEFINE T == {s \in SUBSET S : g[s] # h[s]}
  <1>1. T = {}
    <2> SUFFICES ASSUME T # {} PROVE FALSE
      OBVIOUS
    <2>1. PICK U \in T : \A V \in T : V \subseteq U => V = U
      <3>1. T \in SUBSET (SUBSET S)
        OBVIOUS
      <3> HIDE DEF T
      <3> QED
        BY <3>1, SmallestSubset
    <2>2. U \in SUBSET S /\ g[U] # h[U]
      OBVIOUS
    <2>3. U # {}
      BY <2>2, AddsTo
    <2>4. Pick(U) \in U
      BY <2>3, Picked
    <2>5. U \ {Pick(U)} \notin T
      BY <2>1, <2>4
    <2>6. g[U \ {Pick(U)}] = h[U \ {Pick(U)}]
      BY <2>2, <2>5
    <2> QED
      BY <2>2, <2>3, <2>6, AddsTo
  <1>2. g = [s \in SUBSET S |-> g[s]] /\ h = [s \in SUBSET S |-> h[s]]
    BY DEF Adds
  <1>3. \A s \in SUBSET S : g[s] = h[s]
    BY <1>1
  <1> QED
    BY <1>2, <1>3

LEMMA SomeAdds ==
    ASSUME NEW w, NEW S, IsFiniteSet(S)
    PROVE  \E g : Adds(w, S, g)
  <1> DEFINE T == {s \in SUBSET S : \A g : ~Adds(w, s, g)}
  <1>1. T = {}
    <2> SUFFICES ASSUME T # {} PROVE FALSE
      OBVIOUS
    <2>1. PICK U \in T : \A V \in T : V \subseteq U => V = U
      <3>1. T \in SUBSET (SUBSET S)
        OBVIOUS
      <3> HIDE DEF T
      <3> QED
        BY <3>1, SmallestSubset
    <2>2. \A V \in SUBSET U : V # U => Adds(w, V, CHOOSE g : Adds(w, V, g))
      <3> SUFFICES ASSUME NEW V \in SUBSET U, V # U
                   PROVE  Adds(w, V, CHOOSE g : Adds(w, V, g))
        OBVIOUS
      <3>1. V \in SUBSET S /\ V \notin T
        BY <2>1
      <3>2. \E g : Adds(w, V, g)
        BY <3>1
      <3> QED
        BY <3>2
    <2>3. \A V \in SUBSET U : IsFiniteSet(V)
      BY FS_Subset
    <2>4. ASSUME NEW V \in SUBSET U, V # U, V # {}
          PROVE  Total(w, V) = w[Pick(V)] + Total(w, V \ {Pick(V)})
      <3> DEFINE g == CHOOSE g : Adds(w, V, g)
                 R == V \ {Pick(V)}
                 h == CHOOSE h : Adds(w, R, h)
                 f == [s \in SUBSET R |-> g[s]]
      <3>1. Adds(w, V, g)
        BY <2>2, <2>4
      <3>2. R \in SUBSET U /\ R # U /\ R \in SUBSET V
        BY <2>4, Picked
      <3>3. Adds(w, R, h)
        BY <2>2, <3>2
      <3>4. Adds(w, R, f)
        BY <3>1, <3>2, AddsToPart
      <3>5. h[R] = f[R]
        <4>1. IsFiniteSet(R)
          BY <2>3, <3>2
        <4> HIDE DEF f, h, g, R
        <4> QED
          BY <4>1, <3>3, <3>4, AddsOnce
      <3>6. g[V] = w[Pick(V)] + g[R]
        <4>1. V \in SUBSET V
          OBVIOUS
        <4> HIDE DEF f, h, g
        <4> QED
          BY <4>1, <2>4, <3>1, AddsTo
      <3>7. f[R] = g[R]
        OBVIOUS
      <3>8. Total(w, V) = g[V] /\ Total(w, R) = h[R]
        BY DEF Total
      <3> QED
        BY <3>5, <3>6, <3>7, <3>8
    <2>5. U # {} => Total(w, {}) = 0
      <3> SUFFICES ASSUME U # {} PROVE Total(w, {}) = 0
        OBVIOUS
      <3> DEFINE g == CHOOSE g : Adds(w, {}, g)
      <3>1. Adds(w, {}, g)
        BY <2>2
      <3> HIDE DEF g
      <3>2. g[{}] = 0
        BY <3>1, AddsTo
      <3> QED
        BY <3>2 DEF Total, g
    <2> DEFINE f == [s \in SUBSET U |-> IF s = {} THEN 0 ELSE w[Pick(s)] + Total(w, s \ {Pick(s)})]
    <2>6. ASSUME NEW s \in SUBSET U, s # {}
          PROVE  f[s \ {Pick(s)}] = Total(w, s \ {Pick(s)})
      <3> DEFINE V == s \ {Pick(s)}
      <3>1. V \in SUBSET U /\ V # U /\ U # {}
        BY <2>6, Picked
      <3>2. f[V] = IF V = {} THEN 0 ELSE w[Pick(V)] + Total(w, V \ {Pick(V)})
        BY <3>1
      <3> HIDE DEF V, f
      <3>3. f[V] = Total(w, V)
        BY <2>4, <2>5, <3>1, <3>2
      <3> QED
        BY <3>3 DEF V
    <2>7. f = [s \in SUBSET U |-> IF s = {} THEN 0 ELSE w[Pick(s)] + f[s \ {Pick(s)}]]
      <3>1. \A s \in SUBSET U : f[s] = IF s = {} THEN 0 ELSE w[Pick(s)] + f[s \ {Pick(s)}]
        BY <2>6
      <3>2. f = [s \in SUBSET U |-> f[s]]
        OBVIOUS
      <3> HIDE DEF f
      <3> QED
        BY <3>1, <3>2
    <2>8. Adds(w, U, f)
      BY <2>7 DEF Adds
    <2> QED
      BY <2>1, <2>8
  <1>2. S \in SUBSET S
    OBVIOUS
  <1> QED
    BY <1>1, <1>2

(* The recursion of a sum. *)
LEMMA TotalStep ==
    ASSUME NEW w, NEW S, IsFiniteSet(S)
    PROVE  /\ S = {} => Total(w, S) = 0
           /\ S # {} => Total(w, S) = w[Pick(S)] + Total(w, S \ {Pick(S)})
  <1> DEFINE g == CHOOSE g : Adds(w, S, g)
             R == S \ {Pick(S)}
             h == CHOOSE h : Adds(w, R, h)
             f == [s \in SUBSET R |-> g[s]]
  <1>1. Adds(w, S, g)
    BY SomeAdds
  <1>2. R \in SUBSET S /\ IsFiniteSet(R)
    BY FS_Subset
  <1>3. Adds(w, R, h)
    BY <1>2, SomeAdds
  <1>4. Adds(w, R, f)
    BY <1>1, <1>2, AddsToPart
  <1>5. f[R] = g[R]
    OBVIOUS
  <1>6. Total(w, S) = g[S] /\ Total(w, R) = h[R]
    BY DEF Total
  <1>7. S \in SUBSET S
    OBVIOUS
  <1> HIDE DEF f, g, h
  <1>8. S = {} => g[S] = 0
    BY <1>1, AddsTo
  <1>9. S # {} => g[S] = w[Pick(S)] + g[R]
    BY <1>1, <1>7, AddsTo
  <1> HIDE DEF R
  <1>10. h = f
    BY <1>2, <1>3, <1>4, AddsOnce
  <1> QED
    BY <1>5, <1>6, <1>8, <1>9, <1>10 DEF R

(* Any element may be taken first. *)
LEMMA TotalSplit ==
    ASSUME NEW w, NEW S, IsFiniteSet(S), \A x \in S : w[x] \in Int, NEW y \in S
    PROVE  /\ Total(w, S) \in Int
           /\ Total(w, S) = w[y] + Total(w, S \ {y})
  <1> DEFINE Splits(s) == /\ Total(w, s) \in Int
                          /\ \A x \in s : Total(w, s) = w[x] + Total(w, s \ {x})
             T == {s \in SUBSET S : ~Splits(s)}
  <1>1. T = {}
    <2> SUFFICES ASSUME T # {} PROVE FALSE
      OBVIOUS
    <2>1. PICK U \in T : \A V \in T : V \subseteq U => V = U
      <3>1. T \in SUBSET (SUBSET S)
        OBVIOUS
      <3> HIDE DEF T
      <3> QED
        BY <3>1, SmallestSubset
    <2>2. U \in SUBSET S /\ ~Splits(U)
      OBVIOUS
    <2>3. \A V \in SUBSET U : V # U => Splits(V)
      BY <2>1
    <2>4. IsFiniteSet(U)
      BY <2>2, FS_Subset
    <2>5. \A V \in SUBSET U : IsFiniteSet(V)
      BY <2>4, FS_Subset
    <2> HIDE DEF Splits, T
    <2>6. CASE U = {}
      BY <2>2, <2>4, <2>6, TotalStep DEF Splits
    <2>7. CASE U # {}
      <3> DEFINE p == Pick(U)
      <3>1. p \in U /\ Total(w, U) = w[p] + Total(w, U \ {p})
        BY <2>4, <2>7, Picked, TotalStep
      <3> HIDE DEF p
      <3>2. Total(w, U \ {p}) \in Int
        BY <2>3, <3>1 DEF Splits
      <3>3. w[p] \in Int
        BY <2>2, <3>1
      <3>4. Total(w, U) \in Int
        BY <3>1, <3>2, <3>3
      <3>5. ASSUME NEW x \in U, x # p
            PROVE  Total(w, U) = w[x] + Total(w, U \ {x})
        <4>1. Total(w, U \ {p}) = w[x] + Total(w, (U \ {p}) \ {x})
          BY <2>3, <3>1, <3>5 DEF Splits
        <4>2. Total(w, U \ {x}) = w[p] + Total(w, (U \ {x}) \ {p})
          BY <2>3, <3>1, <3>5 DEF Splits
        <4>3. (U \ {x}) \ {p} = (U \ {p}) \ {x}
          OBVIOUS
        <4>4. PICK rest \in Int : rest = Total(w, (U \ {p}) \ {x})
          BY <2>3, <3>1, <3>5 DEF Splits
        <4>5. w[x] \in Int
          BY <2>2
        <4>6. Total(w, U) = w[p] + (w[x] + rest)
          BY <3>1, <4>1, <4>4
        <4>7. Total(w, U \ {x}) = w[p] + rest
          BY <4>2, <4>3, <4>4
        <4>8. w[p] + (w[x] + rest) = w[x] + (w[p] + rest)
          BY <3>3, <4>4, <4>5
        <4> QED
          BY <4>6, <4>7, <4>8
      <3> QED
        BY <2>2, <3>1, <3>4, <3>5 DEF Splits
    <2> QED
      BY <2>6, <2>7
  <1>2. S \in SUBSET S
    OBVIOUS
  <1> QED
    BY <1>1, <1>2

(* A sum of natural numbers, and of some of them. *)
LEMMA TotalGrows ==
    ASSUME NEW w, NEW S, IsFiniteSet(S), \A x \in S : w[x] \in Nat, NEW R \in SUBSET S
    PROVE  /\ Total(w, S) \in Nat /\ Total(w, R) \in Nat
           /\ Total(w, R) <= Total(w, S)
  <1> DEFINE Grows(s) == /\ Total(w, s) \in Nat
                         /\ \A r \in SUBSET s : Total(w, r) \in Nat /\ Total(w, r) <= Total(w, s)
             T == {s \in SUBSET S : ~Grows(s)}
  <1>1. T = {}
    <2> SUFFICES ASSUME T # {} PROVE FALSE
      OBVIOUS
    <2>1. PICK U \in T : \A V \in T : V \subseteq U => V = U
      <3>1. T \in SUBSET (SUBSET S)
        OBVIOUS
      <3> HIDE DEF T
      <3> QED
        BY <3>1, SmallestSubset
    <2>2. U \in SUBSET S /\ ~Grows(U)
      OBVIOUS
    <2>3. \A V \in SUBSET U : V # U => Grows(V)
      BY <2>1
    <2>4. IsFiniteSet(U)
      BY <2>2, FS_Subset
    <2> HIDE DEF Grows, T
    <2>5. Total(w, U) \in Nat
      <3>1. CASE U = {}
        <4>1. Total(w, U) = 0
          BY <2>4, <3>1, TotalStep
        <4> QED
          BY <4>1
      <3>2. CASE U # {}
        <4>1. PICK x : x \in U
          BY <3>2
        <4>2. \A z \in U : w[z] \in Int
          BY <2>2
        <4>3. Total(w, U) = w[x] + Total(w, U \ {x})
          BY <2>4, <4>1, <4>2, TotalSplit
        <4>4. Total(w, U \ {x}) \in Nat
          BY <2>3, <4>1 DEF Grows
        <4>5. w[x] \in Nat
          BY <2>2, <4>1
        <4> QED
          BY <4>3, <4>4, <4>5
      <3> QED
        BY <3>1, <3>2
    <2>6. ASSUME NEW r \in SUBSET U
          PROVE  Total(w, r) \in Nat /\ Total(w, r) <= Total(w, U)
      <3>1. CASE r = U
        BY <2>5, <3>1
      <3>2. CASE r # U
        <4>1. PICK x : x \in U /\ x \notin r
          BY <3>2
        <4>2. \A z \in U : w[z] \in Int
          BY <2>2
        <4>3. Total(w, U) = w[x] + Total(w, U \ {x})
          BY <2>4, <4>1, <4>2, TotalSplit
        <4>4. U \ {x} \in SUBSET U /\ U \ {x} # U /\ r \in SUBSET (U \ {x})
          BY <4>1
        <4>5. Grows(U \ {x})
          BY <2>3, <4>4
        <4>6. /\ Total(w, U \ {x}) \in Nat /\ Total(w, r) \in Nat
              /\ Total(w, r) <= Total(w, U \ {x})
          BY <4>4, <4>5 DEF Grows
        <4>7. w[x] \in Nat
          BY <2>2, <4>1
        <4> QED
          BY <4>3, <4>6, <4>7
      <3> QED
        BY <3>1, <3>2
    <2> QED
      BY <2>2, <2>5, <2>6 DEF Grows
  <1>2. S \in SUBSET S
    OBVIOUS
  <1> QED
    BY <1>1, <1>2

(* Only the values on the set count. *)
LEMMA SameTotal ==
    ASSUME NEW w, NEW v, NEW S, \A x \in S : w[x] = v[x]
    PROVE  Total(w, S) = Total(v, S)
  <1>1. ASSUME NEW g PROVE Adds(w, S, g) <=> Adds(v, S, g)
    <2>1. \A s \in SUBSET S : s # {} => w[Pick(s)] = v[Pick(s)]
      BY Picked
    <2>2. [s \in SUBSET S |-> IF s = {} THEN 0 ELSE w[Pick(s)] + g[s \ {Pick(s)}]]
          = [s \in SUBSET S |-> IF s = {} THEN 0 ELSE v[Pick(s)] + g[s \ {Pick(s)}]]
      BY <2>1
    <2> QED
      BY <2>2 DEF Adds
  <1>2. (CHOOSE g : Adds(w, S, g)) = (CHOOSE g : Adds(v, S, g))
    BY <1>1
  <1> QED
    BY <1>2 DEF Total

(* Totals grow with the amounts. *)
LEMMA TotalOfLarger ==
    ASSUME NEW w, NEW v, NEW S, IsFiniteSet(S),
           \A x \in S : w[x] \in Nat /\ v[x] \in Nat /\ w[x] <= v[x]
    PROVE  Total(w, S) <= Total(v, S)
  <1> DEFINE Smaller(s) == Total(w, s) <= Total(v, s)
             T == {s \in SUBSET S : ~Smaller(s)}
  <1> HIDE DEF Smaller
  <1>1. T = {}
    <2> SUFFICES ASSUME T # {} PROVE FALSE
      OBVIOUS
    <2>1. PICK U \in T : \A V \in T : V \subseteq U => V = U
      <3>1. T \in SUBSET (SUBSET S)
        OBVIOUS
      <3> HIDE DEF T
      <3> QED
        BY <3>1, SmallestSubset
    <2>2. U \in SUBSET S /\ ~Smaller(U)
      OBVIOUS
    <2>3. IsFiniteSet(U)
      BY <2>2, FS_Subset
    <2>4. U # {}
      <3>1. IsFiniteSet({}) /\ Total(w, {}) = 0 /\ Total(v, {}) = 0
        BY FS_EmptySet, TotalStep
      <3> QED
        BY <2>2, <3>1 DEF Smaller
    <2>5. PICK y : y \in U
      BY <2>4
    <2>6. Smaller(U \ {y})
      BY <2>1, <2>5
    <2> HIDE DEF T
    <2>7. \A x \in U : w[x] \in Nat /\ v[x] \in Nat /\ w[x] <= v[x]
      BY <2>2
    <2>8. \A x \in U : w[x] \in Int /\ v[x] \in Int
      BY <2>7
    <2>9. Total(w, U) = w[y] + Total(w, U \ {y}) /\ Total(v, U) = v[y] + Total(v, U \ {y})
      BY <2>3, <2>5, <2>8, TotalSplit
    <2>10. IsFiniteSet(U \ {y}) /\ \A x \in U \ {y} : w[x] \in Nat /\ v[x] \in Nat
      BY <2>3, <2>7, FS_Subset
    <2>11. Total(w, U \ {y}) \in Nat /\ Total(v, U \ {y}) \in Nat
      BY <2>10, TotalGrows
    <2>12. w[y] \in Nat /\ v[y] \in Nat /\ w[y] <= v[y]
      BY <2>5, <2>7
    <2>13. Total(w, U) <= Total(v, U)
      BY <2>6, <2>9, <2>11, <2>12 DEF Smaller
    <2> QED
      BY <2>2, <2>13 DEF Smaller
  <1>2. Smaller(S)
    BY <1>1
  <1> QED
    BY <1>2 DEF Smaller

(* The operators of the community modules compute this sum. *)
LEMMA SumFunctionIsTotal ==
    ASSUME NEW w, NEW S, IsFiniteSet(S)
    PROVE  SumFunctionOnSet(w, S) = Total(w, S)
  <1>1. SumFunctionOnSet(w, S) = Total(w, S)
    BY DEF SumFunctionOnSet, FoldFunctionOnSet, MapThenFoldSet, Total, Adds, Pick
  <1> QED
    BY <1>1

LEMMA MapThenSumIsTotal ==
    ASSUME NEW f, NEW S, NEW w, \A x \in S : w[x] = f[x].amount
    PROVE  MapThenSumSet(LAMBDA x : f[x].amount, S) = Total(w, S)
  <1> DEFINE Sums(h) ==
          h = [s \in SUBSET S |-> IF s = {} THEN 0 ELSE f[Pick(s)].amount + h[s \ {Pick(s)}]]
  <1>1. MapThenSumSet(LAMBDA x : f[x].amount, S) = (CHOOSE h : Sums(h))[S]
    BY DEF MapThenSumSet, MapThenFoldSet, Pick
  <1>2. ASSUME NEW h
        PROVE  Sums(h) <=> Adds(w, S, h)
    <2>1. \A s \in SUBSET S : s # {} => w[Pick(s)] = f[Pick(s)].amount
      BY Picked
    <2>2. [s \in SUBSET S |-> IF s = {} THEN 0 ELSE f[Pick(s)].amount + h[s \ {Pick(s)}]]
          = [s \in SUBSET S |-> IF s = {} THEN 0 ELSE w[Pick(s)] + h[s \ {Pick(s)}]]
      BY <2>1
    <2> QED
      BY <2>2 DEF Adds
  <1> HIDE DEF Sums
  <1>3. (CHOOSE h : Sums(h)) = (CHOOSE h : Adds(w, S, h))
    BY <1>2
  <1> QED
    BY <1>1, <1>3 DEF Total

(* The same for rows that carry their amount. *)
LEMMA AmountsAreTotal ==
    ASSUME NEW S, NEW w, \A x \in S : w[x] = x.amount
    PROVE  MapThenSumSet(LAMBDA x : x.amount, S) = Total(w, S)
  <1> DEFINE Sums(h) ==
          h = [s \in SUBSET S |-> IF s = {} THEN 0 ELSE Pick(s).amount + h[s \ {Pick(s)}]]
  <1>1. MapThenSumSet(LAMBDA x : x.amount, S) = (CHOOSE h : Sums(h))[S]
    BY DEF MapThenSumSet, MapThenFoldSet, Pick
  <1>2. ASSUME NEW h
        PROVE  Sums(h) <=> Adds(w, S, h)
    <2>1. \A s \in SUBSET S : s # {} => w[Pick(s)] = Pick(s).amount
      BY Picked
    <2>2. [s \in SUBSET S |-> IF s = {} THEN 0 ELSE Pick(s).amount + h[s \ {Pick(s)}]]
          = [s \in SUBSET S |-> IF s = {} THEN 0 ELSE w[Pick(s)] + h[s \ {Pick(s)}]]
      BY <2>1
    <2> QED
      BY <2>2 DEF Adds
  <1> HIDE DEF Sums
  <1>3. (CHOOSE h : Sums(h)) = (CHOOSE h : Adds(w, S, h))
    BY <1>2
  <1> QED
    BY <1>1, <1>3 DEF Total

(* Renamed, they come to the same. *)
LEMMA TotalOfRenamed ==
    ASSUME NEW w, NEW v, NEW f, NEW S, IsFiniteSet(S), \A x \in S : w[x] \in Int,
           \A x \in S : v[f[x]] = w[x],
           \A x, y \in S : f[x] = f[y] => x = y
    PROVE  Total(w, S) = Total(v, {f[x] : x \in S})
  <1> DEFINE Image(s) == {f[x] : x \in s}
             Same(s) == Total(w, s) = Total(v, Image(s))
             T == {s \in SUBSET S : ~Same(s)}
  <1> HIDE DEF Same
  <1>1. T = {}
    <2> SUFFICES ASSUME T # {} PROVE FALSE
      OBVIOUS
    <2>1. PICK U \in T : \A V \in T : V \subseteq U => V = U
      <3>1. T \in SUBSET (SUBSET S)
        OBVIOUS
      <3> HIDE DEF T
      <3> QED
        BY <3>1, SmallestSubset
    <2>2. U \in SUBSET S /\ ~Same(U)
      OBVIOUS
    <2>3. IsFiniteSet(U)
      BY <2>2, FS_Subset
    <2>4. U # {}
      <3>1. IsFiniteSet({}) /\ Total(w, {}) = 0 /\ Total(v, {}) = 0
        BY FS_EmptySet, TotalStep
      <3>2. Image({}) = {}
        OBVIOUS
      <3> QED
        BY <2>2, <3>1, <3>2 DEF Same
    <2>5. PICK y : y \in U
      BY <2>4
    <2>6. Same(U \ {y})
      BY <2>1, <2>5
    <2> HIDE DEF T
    <2>7. Total(w, U) = w[y] + Total(w, U \ {y})
      BY <2>2, <2>3, <2>5, TotalSplit
    <2>8. IsFiniteSet(Image(U)) /\ f[y] \in Image(U) /\ \A z \in Image(U) : v[z] \in Int
      <3>1. IsFiniteSet(Image(U))
        <4> DEFINE g == [x \in U |-> f[x]]
        <4>1. g \in Surjection(U, Image(U))
          BY DEF Surjection
        <4> QED
          BY <2>3, <4>1, FS_Surjection DEF ExistsSurjection
      <3> QED
        BY <2>2, <2>5, <3>1
    <2>9. Image(U \ {y}) = Image(U) \ {f[y]}
      BY <2>2, <2>5
    <2> HIDE DEF Image
    <2>10. Total(v, Image(U)) = v[f[y]] + Total(v, Image(U) \ {f[y]})
      BY <2>8, TotalSplit
    <2>11. v[f[y]] = w[y]
      BY <2>2, <2>5
    <2> QED
      BY <2>2, <2>6, <2>7, <2>9, <2>10, <2>11 DEF Same
  <1>2. Same(S)
    BY <1>1
  <1> QED
    BY <1>2 DEF Same

(* Equal values. *)
LEMMA TotalOfEquals ==
    ASSUME NEW w, NEW S, IsFiniteSet(S), NEW b \in Int, \A x \in S : w[x] = b
    PROVE  Total(w, S) = b * Cardinality(S)
  <1> DEFINE T == {s \in SUBSET S : Total(w, s) # b * Cardinality(s)}
  <1>1. T = {}
    <2> SUFFICES ASSUME T # {} PROVE FALSE
      OBVIOUS
    <2>1. PICK U \in T : \A V \in T : V \subseteq U => V = U
      <3>1. T \in SUBSET (SUBSET S)
        OBVIOUS
      <3> HIDE DEF T
      <3> QED
        BY <3>1, SmallestSubset
    <2>2. U \in SUBSET S /\ Total(w, U) # b * Cardinality(U)
      OBVIOUS
    <2>3. \A V \in SUBSET U : V # U => Total(w, V) = b * Cardinality(V)
      BY <2>1
    <2>4. IsFiniteSet(U)
      BY <2>2, FS_Subset
    <2> HIDE DEF T
    <2>5. U # {}
      <3>1. U = {} => Total(w, U) = 0 /\ Cardinality(U) = 0
        BY <2>4, TotalStep, FS_EmptySet
      <3> QED
        BY <2>2, <3>1
    <2>6. PICK x : x \in U
      BY <2>5
    <2>7. Total(w, U) = b + Total(w, U \ {x})
      <3>1. \A z \in U : w[z] \in Int
        BY <2>2
      <3>2. w[x] = b
        BY <2>2, <2>6
      <3> QED
        BY <2>4, <2>6, <3>1, <3>2, TotalSplit
    <2>8. PICK n \in Nat : n = Cardinality(U \ {x}) /\ Cardinality(U) = n + 1
      <3>1. IsFiniteSet(U \ {x}) /\ Cardinality(U \ {x}) = Cardinality(U) - 1
        BY <2>4, <2>6, FS_RemoveElement
      <3>2. Cardinality(U \ {x}) \in Nat /\ Cardinality(U) \in Nat
        BY <2>4, <3>1, FS_CardinalityType
      <3> QED
        BY <3>1, <3>2
    <2>9. Total(w, U \ {x}) = b * n
      BY <2>3, <2>6, <2>8
    <2>10. b * (n + 1) = b + b * n
      OBVIOUS
    <2> QED
      BY <2>2, <2>7, <2>8, <2>9, <2>10
  <1>2. S \in SUBSET S
    OBVIOUS
  <1> QED
    BY <1>1, <1>2

-----------------------------------------------------------------------------
(* Dividing a fee *)

LEMMA DivMod ==
    ASSUME NEW c \in Nat, NEW n \in Nat \ {0}
    PROVE  /\ c \div n \in Nat
           /\ c - (c \div n) * n \in 0 .. n - 1
  OBVIOUS

LEMMA OneLess ==
    ASSUME NEW a \in Nat, NEW n \in Nat
    PROVE  a * (n - 1) = a * n - a
  OBVIOUS

(* All parts but the last are equal, the last exceeds them by less than n  *)
(* cents, and n - 1 of them with the last come to the whole.               *)
LEMMA SplitIsExact ==
    ASSUME NEW cents \in Nat, NEW n \in Nat \ {0}
    PROVE  LET parts == SplitTotalEvenly(cents, n)
               base == cents \div n
           IN  /\ parts \in [1 .. n -> Nat]
               /\ \A i \in 1 .. n : i < n => parts[i] = base
               /\ parts[n] - base \in 0 .. n - 1
               /\ base * (n - 1) + parts[n] = cents
  <1> DEFINE base == cents \div n
             rest == cents - base * n
  <1>1. base \in Nat /\ rest \in 0 .. n - 1
    BY DivMod
  <1>2. \A i \in 1 .. n : SplitTotalEvenly(cents, n)[i] = IF i = n THEN base + rest ELSE base
    BY DEF SplitTotalEvenly
  <1>3. SplitTotalEvenly(cents, n) \in [1 .. n -> Nat]
    BY <1>1 DEF SplitTotalEvenly
  <1>4. n \in 1 .. n
    OBVIOUS
  <1>5. SplitTotalEvenly(cents, n)[n] = base + rest
    BY <1>2, <1>4
  <1>6. base * (n - 1) + (base + rest) = cents
    <2>1. base * (n - 1) = base * n - base
      BY <1>1, OneLess
    <2>2. base * n \in Int
      BY <1>1
    <2> QED
      BY <2>1, <2>2, <1>1
  <1> HIDE DEF base, rest
  <1>7. base + rest - base \in 0 .. n - 1
    BY <1>1
  <1>8. \A i \in 1 .. n : i < n => SplitTotalEvenly(cents, n)[i] = base
    BY <1>2
  <1>9. SplitTotalEvenly(cents, n)[n] - base \in 0 .. n - 1
    BY <1>1, <1>5, <1>7
  <1>10. base * (n - 1) + SplitTotalEvenly(cents, n)[n] = cents
    BY <1>5, <1>6
  <1> QED
    BY <1>3, <1>8, <1>9, <1>10, Zenon DEF base

(* "Guarantees sum === total" (date.util.ts): the parts come to the whole. *)
THEOREM SplitAddsUp ==
    ASSUME NEW cents \in Nat, NEW n \in Nat \ {0}
    PROVE  Total(SplitTotalEvenly(cents, n), 1 .. n) = cents
  <1> DEFINE parts == SplitTotalEvenly(cents, n)
             base == cents \div n
  <1>1. /\ parts \in [1 .. n -> Nat]
        /\ \A i \in 1 .. n : i < n => parts[i] = base
        /\ base * (n - 1) + parts[n] = cents
        /\ base \in Nat
    BY SplitIsExact, DivMod
  <1>2. IsFiniteSet(1 .. n) /\ IsFiniteSet(1 .. n - 1) /\ Cardinality(1 .. n - 1) = n - 1
    BY FS_Interval
  <1>3. n \in 1 .. n /\ (1 .. n) \ {n} = 1 .. n - 1
    OBVIOUS
  <1> HIDE DEF parts, base
  <1>4. Total(parts, 1 .. n) = parts[n] + Total(parts, 1 .. n - 1)
    <2>1. \A i \in 1 .. n : parts[i] \in Int
      BY <1>1
    <2> QED
      BY <1>2, <1>3, <2>1, TotalSplit
  <1>5. Total(parts, 1 .. n - 1) = base * (n - 1)
    <2>1. \A i \in 1 .. n - 1 : parts[i] = base
      BY <1>1
    <2>2. base \in Int
      BY <1>1
    <2> QED
      BY <1>2, <2>1, <2>2, TotalOfEquals
  <1>6. parts[n] \in Nat /\ base * (n - 1) \in Int
    BY <1>1, <1>3
  <1>7. parts[n] + base * (n - 1) = cents
    BY <1>1, <1>6
  <1> QED
    BY <1>4, <1>5, <1>7 DEF parts
=============================================================================
