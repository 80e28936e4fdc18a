------------------------------- MODULE TotalsProofs -------------------------------
(***************************************************************************)
(* Lemmas on numbers and totals that other proofs cite: every set of       *)
(* naturals has a least member, a downward closed set of positions is an   *)
(* interval, and how a total changes with its function.                    *)
(***************************************************************************)
EXTENDS Totals, FiniteSetTheorems, WellFoundedInduction, TLAPS

(* From the library's order on finite sets, n being read as 1..n.          *)
LEMMA LeastExists ==
  ASSUME NEW T \in SUBSET Nat, T # {}
  PROVE  \E x \in T : \A y \in T : x <= y
<1> DEFINE U == {1..n : n \in T}
<1>1. U \subseteq FiniteSubsetsOf(Nat) /\ U # {}
  <2>1. \A n \in T : (1..n) \in SUBSET Nat /\ IsFiniteSet(1..n)
    BY FS_Interval
  <2>2. QED
    BY <2>1 DEF FiniteSubsetsOf
<1>2. \E x \in U : \A y \in U : ~(<<y, x>> \in StrictSubsetOrdering(Nat))
  <2> HIDE DEF U
  <2>1. QED
    BY <1>1, FS_StrictSubsetOrderingWellFounded, WFMin
<1>3. PICK m \in T : \A n \in T : ~(<<1..n, 1..m>> \in StrictSubsetOrdering(Nat))
  BY <1>2
<1>4. ASSUME NEW n \in T, n < m PROVE FALSE
  <2>1. (1..n) \subseteq (1..m) /\ (1..n) \in SUBSET Nat /\ (1..m) \in SUBSET Nat
    BY <1>4
  <2>2. m \in (1..m) /\ m \notin 1..n
    BY <1>4
  <2>3. QED
    BY <1>3, <2>1, <2>2 DEF StrictSubsetOrdering
<1>5. QED
  BY <1>4

(* The positions of a prefix are counted by its last one.                  *)
LEMMA PrefixIsInterval ==
  ASSUME NEW n \in Nat, NEW S \in SUBSET (1..n),
         \A i \in S : \A j \in 1..i : j \in S
  PROVE  Cardinality(S) \in 0..n /\ S = 1..Cardinality(S)
<1> DEFINE T == (1..(n + 1)) \ S
<1>1. PICK m \in T : \A y \in T : m <= y
  <2>1. T \in SUBSET Nat /\ n + 1 \in T
    OBVIOUS
  <2>2. QED
    BY <2>1, LeastExists
<1>2. S = 1..(m - 1)
  <2>1. \A i \in 1..(m - 1) : i \in S
    BY <1>1
  <2>2. \A i \in S : i \in 1..(m - 1)
    BY <1>1
  <2> HIDE DEF T
  <2>3. QED
    BY <2>1, <2>2
<1>3. Cardinality(1..(m - 1)) = m - 1
  BY <1>1, FS_Interval
<1>4. QED
  BY <1>1, <1>2, <1>3

(* A total of naturals is the number of its units, and a natural.          *)
LEMMA UnitsFinite ==
  ASSUME NEW S, IsFiniteSet(S), NEW f \in [S -> Nat]
  PROVE  IsFiniteSet(Units(f)) /\ Total(f) = Cardinality(Units(f)) /\ Total(f) \in Nat
<1> DEFINE P == {{k} \X (1..f[k]) : k \in S}
           g == [k \in S |-> {k} \X (1..f[k])]
<1>1. IsFiniteSet(P)
  <2>1. g \in Surjection(S, P)
    BY DEF Surjection
  <2>2. QED
    BY <2>1, FS_Surjection
<1>2. \A T \in P : IsFiniteSet(T)
  <2>1. \A k \in S : IsFiniteSet({k}) /\ IsFiniteSet(1..f[k])
    BY FS_Singleton, FS_Interval
  <2>2. \A k \in S : IsFiniteSet({k} \X (1..f[k]))
    BY <2>1, FS_Product
  <2>3. QED
    BY <2>2
<1>3. IsFiniteSet(UNION P)
  BY <1>1, <1>2, FS_UNION
<1>4. IsFiniteSet(Units(f)) /\ Cardinality(Units(f)) \in Nat
  BY <1>3, FS_CardinalityType DEF Units
<1>5. Cardinality(Lacks(f)) = 0
  <2>1. \A k \in S : (1..-f[k]) = {}
    OBVIOUS
  <2>2. Lacks(f) = {}
    BY <2>1 DEF Lacks
  <2>3. QED
    BY <2>2, FS_EmptySet
<1>6. QED
  BY <1>4, <1>5 DEF Total

LEMMA TotalMonotone ==
  ASSUME NEW S, NEW T, IsFiniteSet(T), S \subseteq T, NEW f \in [S -> Nat], NEW g \in [T -> Nat],
         \A k \in S : f[k] <= g[k]
  PROVE  Total(f) <= Total(g)
<1>1. Units(f) \subseteq Units(g)
  <2>1. \A k \in S : (1..f[k]) \subseteq (1..g[k])
    OBVIOUS
  <2>2. QED
    BY <2>1 DEF Units
<1>2. IsFiniteSet(Units(g))
  BY UnitsFinite
<1>3. QED
  BY <1>1, <1>2, FS_Subset, UnitsFinite

LEMMA TotalAdd ==
  ASSUME NEW S, IsFiniteSet(S), NEW k, k \notin S, NEW f \in [S -> Nat],
         NEW g \in [S \union {k} -> Nat], \A j \in S : g[j] = f[j]
  PROVE  Total(g) = Total(f) + g[k]
<1> DEFINE new == {k} \X (1..g[k])
<1>1. Units(g) = Units(f) \union new
  BY DEF Units
<1>2. Units(f) \cap new = {}
  BY DEF Units
<1>3. IsFiniteSet(new) /\ Cardinality(new) = g[k]
  <2>1. IsFiniteSet({k}) /\ Cardinality({k}) = 1
    BY FS_Singleton
  <2>2. IsFiniteSet(1..g[k]) /\ Cardinality(1..g[k]) = g[k]
    BY FS_Interval
  <2>3. Cardinality(new) = Cardinality({k}) * Cardinality(1..g[k]) /\ IsFiniteSet(new)
    BY <2>1, <2>2, FS_Product
  <2>4. QED
    BY <2>1, <2>2, <2>3
<1>4. IsFiniteSet(Units(f)) /\ Cardinality(Units(f)) \in Nat
  BY UnitsFinite
<1>5. Cardinality(Units(f) \union new) = Cardinality(Units(f)) + Cardinality(new)
  <2> HIDE DEF new
  <2>1. Cardinality(Units(f) \cap new) = 0
    BY <1>2, FS_EmptySet
  <2>2. Cardinality(Units(f)) \in Nat /\ Cardinality(new) \in Nat
    BY <1>3, <1>4
  <2>3. Cardinality(Units(f) \union new)
          = Cardinality(Units(f)) + Cardinality(new) - Cardinality(Units(f) \cap new)
    BY <1>3, <1>4, FS_Union
  <2>4. QED
    BY <2>1, <2>2, <2>3
<1>6. Total(f) = Cardinality(Units(f)) /\ Total(g) = Cardinality(Units(g))
  <2>1. IsFiniteSet(S \union {k})
    BY FS_AddElement
  <2>2. QED
    BY <2>1, UnitsFinite
<1>7. QED
  BY <1>1, <1>3, <1>5, <1>6

LEMMA TotalUpdate ==
  ASSUME NEW S, IsFiniteSet(S), NEW k \in S, NEW f \in [S -> Nat],
         NEW g \in [S -> Nat], \A j \in S \ {k} : g[j] = f[j]
  PROVE  Total(g) = Total(f) + g[k] - f[k]
<1> DEFINE h == [j \in S \ {k} |-> f[j]]
<1>1. IsFiniteSet(S \ {k}) /\ S = (S \ {k}) \union {k} /\ h \in [S \ {k} -> Nat]
  BY FS_RemoveElement
<1>2. \A j \in S \ {k} : f[j] = h[j] /\ g[j] = h[j]
  OBVIOUS
<1> HIDE DEF h
<1>3. Total(f) = Total(h) + f[k]
  BY <1>1, <1>2, TotalAdd
<1>4. Total(g) = Total(h) + g[k]
  BY <1>1, <1>2, TotalAdd
<1>5. Total(h) \in Nat
  BY <1>1, UnitsFinite
<1>6. QED
  BY <1>3, <1>4, <1>5

LEMMA TotalEmpty ==
  ASSUME NEW f, DOMAIN f = {}
  PROVE  Total(f) = 0
<1>1. Units(f) = {} /\ Lacks(f) = {}
  BY DEF Units, Lacks
<1>2. QED
  BY <1>1, FS_EmptySet DEF Total

LEMMA TotalPart ==
  ASSUME NEW S, IsFiniteSet(S), NEW k \in S, NEW f \in [S -> Nat]
  PROVE  f[k] <= Total(f)
<1> DEFINE h == [j \in S \ {k} |-> f[j]]
<1>1. IsFiniteSet(S \ {k}) /\ S = (S \ {k}) \union {k} /\ h \in [S \ {k} -> Nat]
  BY FS_RemoveElement
<1>2. \A j \in S \ {k} : f[j] = h[j]
  OBVIOUS
<1> HIDE DEF h
<1>3. Total(f) = Total(h) + f[k]
  BY <1>1, <1>2, TotalAdd
<1>4. Total(h) \in Nat
  BY <1>1, UnitsFinite
<1>5. QED
  BY <1>3, <1>4

(* A total over a set is the total over a part of it and that over the rest. *)
LEMMA TotalSplit ==
  ASSUME NEW S, IsFiniteSet(S), NEW R, R \subseteq S, NEW f \in [S -> Nat], NEW g \in [R -> Nat],
         NEW h \in [S \ R -> Nat], \A k \in R : g[k] = f[k], \A k \in S \ R : h[k] = f[k]
  PROVE  Total(f) = Total(g) + Total(h)
<1>1. IsFiniteSet(R) /\ IsFiniteSet(S \ R)
  BY FS_Subset
<1>2. /\ IsFiniteSet(Units(g)) /\ Total(g) = Cardinality(Units(g)) /\ Total(g) \in Nat
      /\ IsFiniteSet(Units(h)) /\ Total(h) = Cardinality(Units(h)) /\ Total(h) \in Nat
      /\ Total(f) = Cardinality(Units(f))
  BY <1>1, UnitsFinite
<1>3. Units(f) = Units(g) \cup Units(h)
  BY DEF Units
<1>4. Units(g) \cap Units(h) = {}
  BY DEF Units
<1>5. Cardinality(Units(f)) = Cardinality(Units(g)) + Cardinality(Units(h)) - 0
  BY <1>2, <1>3, <1>4, FS_Union, FS_EmptySet
<1>6. QED
  BY <1>2, <1>5

(* A total is at most another one when each of its terms has one of its own there.  *)
LEMMA TotalInjection ==
  ASSUME NEW S, NEW T, IsFiniteSet(T), NEW f \in [S -> Nat], NEW g \in [T -> Nat],
         NEW h \in [S -> T], \A j, k \in S : h[j] = h[k] => j = k,
         \A k \in S : f[k] <= g[h[k]]
  PROVE  Total(f) <= Total(g)
<1> DEFINE F == [p \in Units(f) |-> <<h[p[1]], p[2]>>]
<1>1. \A p \in Units(f) : /\ p = <<p[1], p[2]>> /\ p[1] \in S /\ p[2] \in 1..f[p[1]]
  BY DEF Units
<1>2. F \in [Units(f) -> Units(g)]
  <2>1. ASSUME NEW p \in Units(f) PROVE <<h[p[1]], p[2]>> \in Units(g)
    <3>1. h[p[1]] \in T /\ p[2] \in 1..g[h[p[1]]]
      BY <1>1
    <3>2. QED
      BY <3>1 DEF Units
  <2>2. QED
    BY <2>1
<1>3. ASSUME NEW p \in Units(f), NEW q \in Units(f), F[p] = F[q] PROVE p = q
  <2>1. h[p[1]] = h[q[1]] /\ p[2] = q[2]
    BY <1>3
  <2>2. QED
    BY <2>1, <1>1
<1>4. F \in Injection(Units(f), Units(g))
  <2> HIDE DEF F
  <2>1. QED
    BY <1>2, <1>3 DEF Injection, IsInjective
<1>5. IsFiniteSet(Units(g)) /\ Total(g) = Cardinality(Units(g))
  BY UnitsFinite
<1>6. Cardinality(Units(f)) <= Cardinality(Units(g))
  BY <1>4, <1>5, FS_Injection
<1>7. IsFiniteSet(S)
  <2>1. h \in Injection(S, T)
    BY DEF Injection, IsInjective
  <2>2. QED
    BY <2>1, FS_Injection
<1>8. Total(f) = Cardinality(Units(f))
  BY <1>7, UnitsFinite
<1>9. QED
  BY <1>5, <1>6, <1>8

(* g has the terms of f and one more, at k.                                *)
Adds(S, k, f, g) ==
  /\ IsFiniteSet(S) /\ k \notin S /\ f \in [S -> Nat] /\ g \in [S \union {k} -> Nat]
  /\ \A j \in S : g[j] = f[j]

LEMMA TotalJoins ==
  ASSUME NEW S, NEW k, NEW f, NEW g, Adds(S, k, f, g)
  PROVE  Total(g) = Total(f) + g[k]
BY TotalAdd DEF Adds

(* Terms gathered under the keys they belong to add up to the same total.  *)
LEMMA TotalGather ==
  ASSUME NEW S, IsFiniteSet(S), NEW T, IsFiniteSet(T), NEW f \in [S -> Nat], NEW b \in [T -> Nat],
         NEW p \in [S -> T], NEW g \in [T -> Nat],
         \A k \in T : g[k] = b[k] + Total([i \in {j \in S : p[j] = k} |-> f[i]])
  PROVE  Total(g) = Total(b) + Total(f)
<1> DEFINE Part(U) == [i \in U |-> f[i]]
           Under(U, k) == {j \in U : p[j] = k}
           G(U) == [k \in T |-> b[k] + Total(Part(Under(U, k)))]
           Good(U) == Total(G(U)) = Total(b) + Total(Part(U))
           Sizes == {n \in Nat : \E U \in SUBSET S : Cardinality(U) = n /\ ~Good(U)}
<1>1. \A U \in SUBSET S : /\ IsFiniteSet(U) /\ Cardinality(U) \in Nat
                          /\ Part(U) \in [U -> Nat] /\ Total(Part(U)) \in Nat
  <2>1. SUFFICES ASSUME NEW U \in SUBSET S
                 PROVE  /\ IsFiniteSet(U) /\ Cardinality(U) \in Nat
                        /\ Part(U) \in [U -> Nat] /\ Total(Part(U)) \in Nat
    OBVIOUS
  <2>2. IsFiniteSet(U) /\ Cardinality(U) \in Nat
    BY FS_Subset, FS_CardinalityType
  <2>3. Part(U) \in [U -> Nat]
    OBVIOUS
  <2> HIDE DEF Part
  <2>4. QED
    BY <2>2, <2>3, UnitsFinite
<1>2. \A U \in SUBSET S : \A k \in T : Under(U, k) \in SUBSET S /\ G(U)[k] = b[k] + Total(Part(Under(U, k)))
  OBVIOUS
<1>3. \A U \in SUBSET S : G(U) \in [T -> Nat]
  <2>1. SUFFICES ASSUME NEW U \in SUBSET S PROVE G(U) \in [T -> Nat]
    OBVIOUS
  <2>2. \A k \in T : Total(Part(Under(U, k))) \in Nat
    BY <1>1, <1>2
  <2> HIDE DEF Part, Under
  <2>3. QED
    BY <2>2
<1>4. ASSUME NEW U \in SUBSET S, NEW x \in U, Good(U \ {x}) PROVE Good(U)
  <2> DEFINE V == U \ {x}
             k == p[x]
  <2>1. V \in SUBSET S /\ U = V \cup {x} /\ x \notin V /\ k \in T
    OBVIOUS
  <2>2. Total(Part(U)) = Total(Part(V)) + f[x]
    <3>1. \A j \in V : Part(U)[j] = Part(V)[j]
      OBVIOUS
    <3>2. Part(U)[x] = f[x]
      OBVIOUS
    <3>3. IsFiniteSet(V) /\ Part(V) \in [V -> Nat] /\ Part(U) \in [V \cup {x} -> Nat]
      BY <1>1, <2>1
    <3> HIDE DEF Part, V
    <3>4. Total(Part(U)) = Total(Part(V)) + Part(U)[x]
      <4>1. PICK d, e, W : d = Part(V) /\ e = Part(U) /\ W = V
        OBVIOUS
      <4>2. /\ IsFiniteSet(W) /\ x \notin W /\ d \in [W -> Nat] /\ e \in [W \cup {x} -> Nat]
            /\ \A j \in W : e[j] = d[j]
        BY <2>1, <3>1, <3>3, <4>1
      <4>3. Adds(W, x, d, e)
        BY <4>2 DEF Adds
      <4>4. QED
        BY <4>1, <4>3, TotalJoins
    <3>5. QED
      BY <3>2, <3>4
  <2>3. Total(Part(Under(U, k))) = Total(Part(Under(V, k))) + f[x]
    <3> DEFINE A == Under(V, k)
               B == Under(U, k)
    <3>1. A \in SUBSET S /\ B \in SUBSET S /\ B = A \cup {x} /\ x \notin A
      BY <2>1
    <3>2. \A j \in A : Part(B)[j] = Part(A)[j]
      BY <3>1
    <3>3. Part(B)[x] = f[x]
      BY <3>1
    <3>4. IsFiniteSet(A) /\ Part(A) \in [A -> Nat] /\ Part(B) \in [A \cup {x} -> Nat]
      BY <1>1, <3>1
    <3> HIDE DEF Part, A, B
    <3>5. Total(Part(B)) = Total(Part(A)) + Part(B)[x]
      <4>1. PICK d, e, W : d = Part(A) /\ e = Part(B) /\ W = A
        OBVIOUS
      <4>2. /\ IsFiniteSet(W) /\ x \notin W /\ d \in [W -> Nat] /\ e \in [W \cup {x} -> Nat]
            /\ \A j \in W : e[j] = d[j]
        BY <3>1, <3>2, <3>4, <4>1
      <4>3. Adds(W, x, d, e)
        BY <4>2 DEF Adds
      <4>4. QED
        BY <4>1, <4>3, TotalJoins
    <3>6. QED
      BY <3>3, <3>5 DEF A, B
  <2>4. \A j \in T \ {k} : Under(U, j) = Under(V, j)
    BY <2>1
  <2>5. G(U) \in [T -> Nat] /\ G(V) \in [T -> Nat]
    BY <1>3, <2>1
  <2>6. \A j \in T \ {k} : G(U)[j] = G(V)[j]
    BY <1>2, <2>1, <2>4
  <2>7. G(U)[k] = G(V)[k] + f[x]
    <3>1. G(U)[k] = b[k] + Total(Part(Under(U, k))) /\ G(V)[k] = b[k] + Total(Part(Under(V, k)))
      BY <1>2, <2>1
    <3>2. b[k] \in Nat /\ f[x] \in Nat /\ Total(Part(Under(V, k))) \in Nat
      BY <1>1, <1>2, <2>1
    <3> HIDE DEF G, Part, Under, V, k
    <3>3. QED
      BY <2>3, <3>1, <3>2
  <2> HIDE DEF G, Part, Under, V, k
  <2>8. Total(G(U)) = Total(G(V)) + G(U)[k] - G(V)[k]
    <3>1. PICK d, e, y : d = G(V) /\ e = G(U) /\ y = k
      OBVIOUS
    <3>2. y \in T /\ d \in [T -> Nat] /\ e \in [T -> Nat] /\ \A j \in T \ {y} : e[j] = d[j]
      BY <2>1, <2>5, <2>6, <3>1
    <3>3. Total(e) = Total(d) + e[y] - d[y]
      BY <3>2, TotalUpdate
    <3>4. QED
      BY <3>1, <3>3
  <2>9. Good(V)
    BY <1>4 DEF V
  <2>10. G(V)[k] \in Nat /\ f[x] \in Nat /\ Total(Part(V)) \in Nat /\ Total(b) \in Nat
    BY <1>1, <2>1, <2>5, UnitsFinite
  <2>11. QED
    BY <2>2, <2>7, <2>8, <2>9, <2>10
<1>5. Good({})
  <2>1. Total(Part({})) = 0
    BY TotalEmpty
  <2>2. \A k \in T : Under({}, k) = {}
    OBVIOUS
  <2>3. \A k \in T : G({})[k] = b[k] + 0
    BY <1>2, <2>1, <2>2
  <2>4. G({}) \in [T -> Nat]
    BY <1>3
  <2> HIDE DEF G, Part, Under
  <2>5. G({}) = b
    BY <2>3, <2>4
  <2>6. Total(b) \in Nat
    BY UnitsFinite
  <2>7. QED
    BY <2>1, <2>5, <2>6
<1>6. Sizes = {}
  <2> HIDE DEF Good
  <2>1. SUFFICES ASSUME Sizes # {} PROVE FALSE
    OBVIOUS
  <2>2. PICK n \in Sizes : \A m \in Sizes : n <= m
    BY <2>1, LeastExists
  <2>3. PICK U \in SUBSET S : Cardinality(U) = n /\ ~Good(U)
    BY <2>2
  <2>4. PICK x : x \in U
    BY <1>5, <2>3
  <2>5. U \ {x} \in SUBSET S /\ Cardinality(U \ {x}) = n - 1 /\ n - 1 \in Nat
    <3>1. IsFiniteSet(U)
      BY <1>1
    <3>2. Cardinality(U \ {x}) = Cardinality(U) - 1
      BY <2>4, <3>1, FS_RemoveElement
    <3>3. Cardinality(U \ {x}) \in Nat
      BY <1>1
    <3>4. QED
      BY <2>3, <3>2, <3>3
  <2>6. n - 1 \notin Sizes
    BY <2>2, <2>5
  <2>7. Good(U \ {x})
    BY <2>5, <2>6
  <2>8. QED
    BY <1>4, <2>3, <2>4, <2>7
<1>7. Good(S)
  <2>1. Cardinality(S) \in Nat
    BY <1>1
  <2> HIDE DEF Good
  <2>2. QED
    BY <1>6, <2>1
<1>8. Part(S) = f
  OBVIOUS
<1>9. G(S) = g
  <2>1. \A k \in T : g[k] = b[k] + Total(Part(Under(S, k)))
    OBVIOUS
  <2>2. \A k \in T : G(S)[k] = g[k]
    BY <1>2, <2>1
  <2>3. G(S) \in [T -> Nat]
    BY <1>3
  <2> HIDE DEF G
  <2>4. QED
    BY <2>2, <2>3
<1>10. QED
  BY <1>7, <1>8, <1>9

LEMMA TotalSupport ==
  ASSUME NEW S, NEW R, R \subseteq S, NEW f \in [S -> Nat], NEW g \in [R -> Nat],
         \A k \in R : g[k] = f[k], \A k \in S \ R : f[k] = 0
  PROVE  Total(g) = Total(f)
<1>1. Units(g) = Units(f)
  BY DEF Units
<1>2. Lacks(g) = {} /\ Lacks(f) = {}
  BY DEF Lacks
<1>3. QED
  BY <1>1, <1>2 DEF Total

LEMMA TotalZero ==
  ASSUME NEW f, \A k \in DOMAIN f : f[k] = 0
  PROVE  Total(f) = 0
<1>1. Units(f) = {} /\ Lacks(f) = {}
  BY DEF Units, Lacks
<1>2. QED
  BY <1>1, FS_EmptySet DEF Total
=============================================================================
