----------------------------- MODULE Sums_proofs -----------------------------
(***************************************************************************)
(* Facts of finite sets the proofs of several components need: the maximal *)
(* elements of a set, the sum of the numbers a function holds.             *)
(***************************************************************************)
EXTENDS Sums, FiniteSetsExt, Sequences, TLAPS, FiniteSetTheorems, WellFoundedInduction

-----------------------------------------------------------------------------
(* Maximal elements *)

\* No element of a finite set is without a maximal one, whatever the strict order R.
LEMMA MaximalExists ==
  ASSUME NEW C, IsFiniteSet(C), C # {}, NEW R,
         \A c, d, e \in C : <<c, d>> \in R /\ <<d, e>> \in R => <<c, e>> \in R,
         \A c \in C : <<c, c>> \notin R
  PROVE  \E c \in C : \A d \in C : <<c, d>> \notin R
<1> DEFINE Above(c) == {d \in C : <<c, d>> \in R}
           Uppers == {Above(c) : c \in C}
<1>1. IsWellFoundedOn(StrictSubsetOrdering(C), FiniteSubsetsOf(C))
  BY FS_StrictSubsetOrderingWellFounded
<1>2. \A c \in C : Above(c) \in FiniteSubsetsOf(C)
  BY FS_Subset DEF FiniteSubsetsOf
<1>3. Uppers \subseteq FiniteSubsetsOf(C) /\ Uppers # {}
  <2> HIDE DEF Above
  <2> QED BY <1>2
<1>4. PICK U \in Uppers : \A V \in Uppers : <<V, U>> \notin StrictSubsetOrdering(C)
  <2> HIDE DEF Uppers
  <2> QED BY <1>1, <1>3, WFMin
<1>5. PICK c \in C : U = Above(c)
  BY <1>4
<1>6. \A d \in C : <<c, d>> \notin R
  <2> SUFFICES ASSUME NEW d \in C, <<c, d>> \in R PROVE FALSE
    OBVIOUS
  <2>1. Above(d) \subseteq Above(c) /\ d \in Above(c) /\ d \notin Above(d)
    OBVIOUS
  <2>2. Above(d) \in Uppers
    OBVIOUS
  <2>3. <<Above(d), Above(c)>> \in StrictSubsetOrdering(C)
    BY <2>1 DEF StrictSubsetOrdering
  <2> QED BY <1>4, <1>5, <2>2, <2>3
<1> QED BY <1>6

LEMMA MaxIn ==
  ASSUME NEW S, IsFiniteSet(S), S # {}, S \subseteq Int
  PROVE  Max(S) \in S /\ \A x \in S : x <= Max(S)
<1> DEFINE R == {p \in S \X S : p[2] > p[1]}
<1>1. \A c, d \in S : <<c, d>> \in R <=> d > c
  OBVIOUS
<1> HIDE DEF R
<1>2. \A c, d, e \in S : <<c, d>> \in R /\ <<d, e>> \in R => <<c, e>> \in R
  BY <1>1
<1>3. PICK c \in S : \A d \in S : <<c, d>> \notin R
  <2>1. \A c \in S : <<c, c>> \notin R
    BY <1>1
  <2> QED BY <1>2, <2>1, MaximalExists
<1>4. ASSUME NEW d \in S PROVE c >= d
  <2>1. c \in Int /\ d \in Int /\ ~(d > c)
    BY <1>1, <1>3
  <2> QED BY <2>1
<1>5. Max(S) \in S /\ \A d \in S : Max(S) >= d
  BY <1>4 DEF Max
<1> QED BY <1>5

LEMMA MinIn ==
  ASSUME NEW S, IsFiniteSet(S), S # {}, S \subseteq Int
  PROVE  Min(S) \in S /\ \A x \in S : Min(S) <= x
<1> DEFINE R == {p \in S \X S : p[2] < p[1]}
<1>1. \A c, d \in S : <<c, d>> \in R <=> d < c
  OBVIOUS
<1> HIDE DEF R
<1>2. \A c, d, e \in S : <<c, d>> \in R /\ <<d, e>> \in R => <<c, e>> \in R
  BY <1>1
<1>3. PICK c \in S : \A d \in S : <<c, d>> \notin R
  <2>1. \A c \in S : <<c, c>> \notin R
    BY <1>1
  <2> QED BY <1>2, <2>1, MaximalExists
<1>4. ASSUME NEW d \in S PROVE c <= d
  <2>1. c \in Int /\ d \in Int /\ ~(d < c)
    BY <1>1, <1>3
  <2> QED BY <2>1
<1>5. Min(S) \in S /\ \A d \in S : Min(S) <= d
  BY <1>4 DEF Min
<1> QED BY <1>5

LEMMA IndicesFinite ==
  ASSUME NEW D, NEW s \in Seq(D), NEW S, S \subseteq DOMAIN s
  PROVE  IsFiniteSet(S) /\ S \subseteq Int
<1>1. IsFiniteSet(1 .. Len(s)) /\ DOMAIN s = 1 .. Len(s)
  BY FS_Interval
<1> QED BY <1>1, FS_Subset
-----------------------------------------------------------------------------
(* Sums *)

LEMMA UnitIn ==
  ASSUME NEW S, NEW f \in [S -> Nat], NEW p
  PROVE  p \in Units(f) <=> \E x \in S : \E k \in 1 .. f[x] : p = <<x, k>>
<1>1. p \in Units(f) <=> \E x \in S : p \in {x} \X (1 .. f[x])
  BY DEF Units
<1>2. \A x \in S : p \in {x} \X (1 .. f[x]) <=> \E k \in 1 .. f[x] : p = <<x, k>>
  OBVIOUS
<1> QED BY <1>1, <1>2

\* A sum is a natural number.
LEMMA TotalType ==
  ASSUME NEW S, IsFiniteSet(S), NEW f \in [S -> Nat]
  PROVE  IsFiniteSet(Units(f)) /\ Total(f) \in Nat
<1> DEFINE g == [x \in S |-> {x} \X (1 .. f[x])]
           T == {g[x] : x \in S}
<1>1. g \in Surjection(S, T)
  BY DEF Surjection
<1>2. IsFiniteSet(T)
  <2> HIDE DEF T, g
  <2> QED BY <1>1, FS_Surjection
<1>3. \A x \in S : IsFiniteSet(g[x])
  <2> TAKE x \in S
  <2>1. f[x] \in Int /\ 1 \in Int
    OBVIOUS
  <2>2. IsFiniteSet({x}) /\ IsFiniteSet(1 .. f[x])
    BY <2>1, FS_Singleton, FS_Interval
  <2> QED BY <2>2, FS_Product
<1>4. IsFiniteSet(UNION T)
  <2> HIDE DEF g
  <2>1. \A t \in T : IsFiniteSet(t)
    BY <1>3
  <2> HIDE DEF T
  <2> QED BY <1>2, <2>1, FS_UNION
<1>5. UNION T = Units(f)
  <2>1. T = {{x} \X (1 .. f[x]) : x \in S}
    OBVIOUS
  <2>2. DOMAIN f = S
    OBVIOUS
  <2> HIDE DEF T
  <2> QED BY <2>1, <2>2 DEF Units
<1> QED BY <1>4, <1>5, FS_CardinalityType DEF Total

\* More keys and larger values make no smaller sum.
LEMMA TotalMono ==
  ASSUME NEW S, NEW T, IsFiniteSet(T), S \subseteq T, NEW f \in [S -> Nat], NEW g \in [T -> Nat],
         \A x \in S : f[x] <= g[x]
  PROVE  IsFiniteSet(S) /\ Total(f) <= Total(g) /\ Total(f) \in Nat /\ Total(g) \in Nat
<1>1. IsFiniteSet(S)
  BY FS_Subset
<1>2. ASSUME NEW p \in Units(f) PROVE p \in Units(g)
  <2>1. PICK x \in S : \E k \in 1 .. f[x] : p = <<x, k>>
    BY UnitIn
  <2>2. x \in T /\ f[x] \in Nat /\ g[x] \in Nat /\ f[x] <= g[x]
    OBVIOUS
  <2>3. \A k \in 1 .. f[x] : k \in 1 .. g[x]
    BY <2>2
  <2> QED BY <2>1, <2>2, <2>3, UnitIn
<1>3. Units(f) \subseteq Units(g)
  BY <1>2
<1> QED BY <1>1, <1>3, TotalType, FS_Subset DEF Total

\* One more key with a value that is not 0, or one larger value, makes a larger sum.
LEMMA TotalStrict ==
  ASSUME NEW S, NEW T, IsFiniteSet(T), S \subseteq T, NEW f \in [S -> Nat], NEW g \in [T -> Nat],
         \A x \in S : f[x] <= g[x], NEW y \in T, IF y \in S THEN f[y] < g[y] ELSE g[y] > 0
  PROVE  Total(f) < Total(g)
<1>1. Total(f) <= Total(g) /\ Total(f) \in Nat /\ Total(g) \in Nat /\ IsFiniteSet(Units(g))
  BY TotalMono, TotalType
<1>2. Units(f) \subseteq Units(g)
  <2> SUFFICES ASSUME NEW p \in Units(f) PROVE p \in Units(g)
    OBVIOUS
  <2>1. PICK x \in S : \E k \in 1 .. f[x] : p = <<x, k>>
    BY UnitIn
  <2>2. x \in T /\ f[x] \in Nat /\ g[x] \in Nat /\ f[x] <= g[x]
    OBVIOUS
  <2>3. \A k \in 1 .. f[x] : k \in 1 .. g[x]
    BY <2>2
  <2> QED BY <2>1, <2>2, <2>3, UnitIn
<1>3. g[y] \in 1 .. g[y]
  <2>1. g[y] \in Nat /\ (y \in S => f[y] \in Nat)
    OBVIOUS
  <2> QED BY <2>1
<1>4. <<y, g[y]>> \in Units(g)
  BY <1>3, UnitIn
<1>5. <<y, g[y]>> \notin Units(f)
  <2> SUFFICES ASSUME <<y, g[y]>> \in Units(f) PROVE FALSE
    OBVIOUS
  <2>1. PICK x \in S : \E k \in 1 .. f[x] : <<y, g[y]>> = <<x, k>>
    BY UnitIn
  <2>2. y \in S /\ g[y] \in 1 .. f[y]
    BY <2>1
  <2>3. f[y] \in Nat /\ g[y] \in Nat
    BY <2>2
  <2> QED BY <2>2, <2>3
<1>6. Total(f) # Total(g)
  BY <1>1, <1>2, <1>4, <1>5, FS_Subset DEF Total
<1> QED BY <1>1, <1>6
\* A union has no more elements than the sets it is made of, added up.
LEMMA UnionBound ==
  ASSUME NEW S, IsFiniteSet(S), NEW C, C \in [S -> SUBSET UNION {C[x] : x \in S}],
         \A x \in S : IsFiniteSet(C[x])
  PROVE  /\ IsFiniteSet(UNION {C[x] : x \in S})
         /\ Cardinality(UNION {C[x] : x \in S}) <= Total([x \in S |-> Cardinality(C[x])])
<1> DEFINE all == UNION {C[x] : x \in S}
           f == [x \in S |-> Cardinality(C[x])]
           at(y) == CHOOSE x \in S : y \in C[x]
           counts(x) == CHOOSE b : b \in Bijection(C[x], 1 .. Cardinality(C[x]))
           unit == [y \in all |-> <<at(y), counts(at(y))[y]>>]
<1>1. \A x \in S : Cardinality(C[x]) \in Nat
  BY FS_CardinalityType
<1>2. f \in [S -> Nat] /\ \A x \in S : f[x] = Cardinality(C[x])
  BY <1>1
<1>3. \A y \in all : at(y) \in S /\ y \in C[at(y)]
  OBVIOUS
<1>4. \A x \in S : counts(x) \in Bijection(C[x], 1 .. f[x])
  <2> TAKE x \in S
  <2>1. 1 \in Int /\ Cardinality(C[x]) \in Int /\ Cardinality(C[x]) = Cardinality(1 .. Cardinality(C[x]))
    BY <1>1, FS_Interval
  <2>2. IsFiniteSet(1 .. Cardinality(C[x]))
    BY <2>1, FS_Interval
  <2>3. ExistsBijection(C[x], 1 .. Cardinality(C[x]))
    BY <2>1, <2>2, FS_SameCardinalityBij
  <2> QED BY <1>2, <2>3 DEF ExistsBijection
<1> HIDE DEF f, at, counts
<1>5. \A y \in all : unit[y] \in Units(f)
  <2> TAKE y \in all
  <2>1. counts(at(y))[y] \in 1 .. f[at(y)]
    BY <1>3, <1>4 DEF Bijection, Injection
  <2>2. unit[y] = <<at(y), counts(at(y))[y]>>
    OBVIOUS
  <2> HIDE DEF unit
  <2> QED BY <1>2, <1>3, <2>1, <2>2, UnitIn
<1>6. \A y, z \in all : unit[y] = unit[z] => y = z
  <2> TAKE y, z \in all
  <2> HAVE unit[y] = unit[z]
  <2>1. at(y) = at(z) /\ counts(at(y))[y] = counts(at(z))[z]
    OBVIOUS
  <2>2. y \in C[at(y)] /\ z \in C[at(y)] /\ at(y) \in S
    BY <1>3, <2>1
  <2> QED BY <1>4, <2>1, <2>2 DEF Bijection, Injection, IsInjective
<1>7. unit \in Injection(all, Units(f))
  <2>1. unit \in [all -> Units(f)]
    BY <1>5
  <2> HIDE DEF unit, all
  <2> QED BY <1>6, <2>1 DEF Injection, IsInjective
<1>8. IsFiniteSet(Units(f))
  BY <1>2, TotalType
<1> HIDE DEF unit, all
<1>9. IsFiniteSet(all) /\ Cardinality(all) <= Cardinality(Units(f))
  BY <1>7, <1>8, FS_Injection
<1> QED BY <1>9 DEF all, f, Total
-----------------------------------------------------------------------------
(* What holds of 0 and of n + 1 when it holds of n; sequences made and ordered *)

\* Induction up to N, on a set instead of a predicate.
LEMMA SetInduction ==
  ASSUME NEW N \in Nat, NEW P, 0 \in P, \A n \in 0 .. N : n < N /\ n \in P => n + 1 \in P
  PROVE  0 .. N \subseteq P
<1> DEFINE rest == (0 .. N) \ P
<1> SUFFICES ASSUME rest # {} PROVE FALSE
  OBVIOUS
<1>1. IsFiniteSet(rest) /\ rest \subseteq Int
  <2>1. 0 \in Int /\ N \in Int
    OBVIOUS
  <2>2. IsFiniteSet(0 .. N)
    BY <2>1, FS_Interval
  <2> QED BY <2>2, FS_Subset
<1>2. Min(rest) \in rest /\ \A x \in rest : Min(rest) <= x
  <2> HIDE DEF rest
  <2> QED BY <1>1, MinIn
<1>3. PICK m : m = Min(rest)
  OBVIOUS
<1>4. m \in 0 .. N /\ m \notin P /\ m # 0 /\ \A x \in rest : m <= x
  BY <1>2, <1>3
<1>5. m - 1 \in 0 .. N /\ m - 1 < N /\ m - 1 + 1 = m /\ ~(m <= m - 1)
  BY <1>4
<1>6. m - 1 \in P
  BY <1>4, <1>5
<1> QED BY <1>4, <1>5, <1>6

\* f starts with base and goes from each value to the next as `next` says.
Iterated(f, N, base, next) == f[0] = base /\ \A n \in 1 .. N : f[n] = next[<<f[n - 1], n>>]

\* A function may be defined by its first value and the step from each to the next.
LEMMA Iterates ==
  ASSUME NEW N \in Nat, NEW A, NEW base \in A, NEW next \in [A \X (1 .. N) -> A]
  PROVE  \E f \in [0 .. N -> A] : Iterated(f, N, base, next)
<1> DEFINE Made(n, f) == Iterated(f, n, base, next)
           P == {n \in 0 .. N : \E f \in [0 .. n -> A] : Made(n, f)}
<1>1. 0 \in P
  <2>1. [n \in 0 .. 0 |-> base] \in [0 .. 0 -> A] /\ Made(0, [n \in 0 .. 0 |-> base])
    BY DEF Iterated
  <2>2. 0 \in 0 .. N
    OBVIOUS
  <2> HIDE DEF Made
  <2> QED BY <2>1, <2>2
<1>2. ASSUME NEW n \in 0 .. N, n < N, n \in P PROVE n + 1 \in P
  <2>1. PICK f \in [0 .. n -> A] : f[0] = base /\ \A k \in 1 .. n : f[k] = next[<<f[k - 1], k>>]
    BY <1>2 DEF Iterated
  <2> DEFINE g == [k \in 0 .. n + 1 |-> IF k = n + 1 THEN next[<<f[n], n + 1>>] ELSE f[k]]
  <2>2. n + 1 \in 1 .. N /\ n \in 0 .. n /\ f[n] \in A
    BY <1>2
  <2>3. next[<<f[n], n + 1>>] \in A
    BY <2>2
  <2>4. \A k \in 0 .. n + 1 : k = n + 1 \/ k \in 0 .. n
    OBVIOUS
  <2>5. g \in [0 .. n + 1 -> A]
    BY <2>3, <2>4
  <2>6. g[0] = base
    BY <2>1
  <2>7. \A k \in 1 .. n + 1 : g[k] = next[<<g[k - 1], k>>]
    <3> TAKE k \in 1 .. n + 1
    <3>1. CASE k = n + 1
      <4>1. k - 1 = n /\ k \in 0 .. n + 1 /\ n \in 0 .. n + 1 /\ n # n + 1
        BY <3>1
      <4> QED BY <3>1, <4>1
    <3>2. CASE k # n + 1
      <4>1. k \in 0 .. n + 1 /\ k - 1 \in 0 .. n + 1 /\ k - 1 # n + 1 /\ k \in 1 .. n
        BY <3>2
      <4> QED BY <2>1, <3>2, <4>1
    <3> QED BY <3>1, <3>2
  <2> HIDE DEF g
  <2>8. Made(n + 1, g)
    BY <2>6, <2>7 DEF Iterated
  <2> HIDE DEF Made
  <2> QED BY <2>2, <2>5, <2>8
<1>3. 0 .. N \subseteq P
  <2> HIDE DEF P
  <2> QED BY <1>1, <1>2, SetInduction
<1>4. N \in P
  BY <1>3
<1> QED BY <1>4

\* A finite set with a strict total order can be listed in that order.
LEMMA Enumerates ==
  ASSUME NEW D, IsFiniteSet(D), NEW R,
         \A c, d, e \in D : <<c, d>> \in R /\ <<d, e>> \in R => <<c, e>> \in R,
         \A c \in D : <<c, c>> \notin R,
         \A c, d \in D : c # d => <<c, d>> \in R \/ <<d, c>> \in R
  PROVE  /\ Cardinality(D) \in Nat
         /\ \E p \in Bijection(1 .. Cardinality(D), D) :
              \A i, j \in 1 .. Cardinality(D) : i < j => <<p[i], p[j]>> \in R
<1> DEFINE Under(d) == {c \in D : <<c, d>> \in R}
           N == Cardinality(D)
           rank == [d \in D |-> Cardinality(Under(d)) + 1]
<1>1. N \in Nat /\ IsFiniteSet(1 .. N) /\ Cardinality(1 .. N) = N
  <2>1. N \in Nat
    BY FS_CardinalityType
  <2>2. 1 \in Int /\ N \in Int
    BY <2>1
  <2> HIDE DEF N
  <2> QED BY <2>1, <2>2, FS_Interval
<1>2. \A d \in D : IsFiniteSet(Under(d)) /\ Cardinality(Under(d)) \in Nat
  BY FS_Subset, FS_CardinalityType
<1>3. \A c, d \in D : <<c, d>> \in R => rank[c] < rank[d]
  <2> TAKE c, d \in D
  <2> HAVE <<c, d>> \in R
  <2>1. Under(c) \subseteq Under(d) /\ c \in Under(d) /\ c \notin Under(c)
    OBVIOUS
  <2>2. Cardinality(Under(c)) <= Cardinality(Under(d)) /\ Cardinality(Under(c)) # Cardinality(Under(d))
    <3> HIDE DEF Under
    <3> QED BY <1>2, <2>1, FS_Subset
  <2>3. rank[c] = Cardinality(Under(c)) + 1 /\ rank[d] = Cardinality(Under(d)) + 1
    OBVIOUS
  <2> HIDE DEF Under, rank
  <2> QED BY <1>2, <2>2, <2>3
<1>4. \A d \in D : rank[d] \in 1 .. N
  <2> TAKE d \in D
  <2>1. Under(d) \subseteq D \ {d}
    OBVIOUS
  <2>2. IsFiniteSet(D \ {d}) /\ Cardinality(D \ {d}) = N - 1
    BY FS_RemoveElement
  <2>3. Cardinality(Under(d)) <= N - 1
    <3> HIDE DEF Under, N
    <3> QED BY <2>1, <2>2, FS_Subset
  <2>4. rank[d] = Cardinality(Under(d)) + 1
    OBVIOUS
  <2> HIDE DEF Under, N, rank
  <2> QED BY <1>1, <1>2, <2>3, <2>4
<1>5. rank \in [D -> 1 .. N]
  BY <1>4
<1> HIDE DEF rank
<1>6. \A c, d \in D : rank[c] = rank[d] => c = d
  <2> TAKE c, d \in D
  <2> HAVE rank[c] = rank[d]
  <2>1. rank[c] \in Nat /\ ~(rank[c] < rank[c])
    BY <1>1, <1>5
  <2>2. ~(rank[c] < rank[d]) /\ ~(rank[d] < rank[c])
    BY <2>1
  <2> QED BY <1>3, <2>2
<1>7. rank \in Injection(D, 1 .. N)
  BY <1>5, <1>6 DEF Injection, IsInjective
<1>8. rank \in Surjection(D, 1 .. N)
  BY <1>1, <1>7, FS_Injection DEF N
<1> HIDE DEF N
<1> DEFINE p == [i \in 1 .. N |-> CHOOSE d \in D : rank[d] = i]
<1>9. \A i \in 1 .. N : p[i] \in D /\ rank[p[i]] = i
  BY <1>8 DEF Surjection
<1>10. p \in [1 .. N -> D]
  BY <1>9
<1> HIDE DEF p
<1>11. p \in Injection(1 .. N, D)
  BY <1>9, <1>10 DEF Injection, IsInjective
<1>12. p \in Surjection(1 .. N, D)
  <2>1. \A d \in D : p[rank[d]] = d
    BY <1>5, <1>6, <1>9
  <2> QED BY <1>5, <1>10, <2>1 DEF Surjection
<1>13. \A i, j \in 1 .. N : i < j => <<p[i], p[j]>> \in R
  <2> TAKE i, j \in 1 .. N
  <2> HAVE i < j
  <2>1. p[i] \in D /\ p[j] \in D /\ rank[p[i]] = i /\ rank[p[j]] = j
    BY <1>9
  <2>2. ~(rank[p[j]] < rank[p[i]]) /\ p[i] # p[j]
    BY <1>1, <2>1
  <2> QED BY <1>3, <2>1, <2>2
<1> QED BY <1>1, <1>11, <1>12, <1>13 DEF Bijection, N
=============================================================================
