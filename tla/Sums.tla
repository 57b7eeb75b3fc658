-------------------------------- MODULE Sums --------------------------------
EXTENDS Integers, Functions, FiniteSetTheorems, WellFoundedInduction, TLAPS

LEMMA NatBySet ==
  ASSUME NEW T \in SUBSET Nat, 0 \in T, \A n \in T : n + 1 \in T
  PROVE  \A n \in Nat : n \in T
<1> DEFINE less == OpToRel(<, Nat)
<1>1. \A k, m \in Nat : <<k, m>> \in less <=> k < m
  BY DEF OpToRel
<1>2. IsWellFoundedOn(less, Nat)
  BY NatLessThanWellFounded
<1> HIDE DEF less
<1> SUFFICES ASSUME Nat \ T # {} PROVE FALSE
  OBVIOUS
<1>3. \E m \in Nat \ T : \A k \in Nat \ T : ~ (<<k, m>> \in less)
  <2>1. Nat \ T \subseteq Nat
    OBVIOUS
  <2> QED BY <1>2, <2>1, WFMin
<1>4. PICK m \in Nat \ T : \A k \in Nat \ T : ~ (k < m)
  BY <1>1, <1>3
<1>5. m # 0 /\ m - 1 \in Nat /\ m - 1 < m
  OBVIOUS
<1>6. m - 1 \in T
  BY <1>4, <1>5
<1> QED BY <1>5, <1>6

\* A set of naturals has a least element.
LEMMA LeastOfSet ==
  ASSUME NEW T \in SUBSET Nat, T # {}
  PROVE  LET least == CHOOSE x \in T : \A y \in T : x <= y
         IN  least \in T /\ \A y \in T : least <= y
<1> DEFINE above == {n \in Nat : \A m \in 0 .. n : m \notin T}
<1> SUFFICES \E x \in T : \A y \in T : x <= y
  OBVIOUS
<1> SUFFICES ASSUME \A x \in T : \E y \in T : y < x PROVE FALSE
  OBVIOUS
<1>1. 0 \in above
  <2>1. 0 \notin T
    OBVIOUS
  <2> QED BY <2>1
<1>2. \A n \in above : n + 1 \in above
  <2> SUFFICES ASSUME NEW n \in above PROVE n + 1 \in above
    OBVIOUS
  <2>1. n + 1 \notin T
    <3> SUFFICES ASSUME n + 1 \in T PROVE FALSE
      OBVIOUS
    <3>1. PICK y \in T : y < n + 1
      OBVIOUS
    <3> QED BY <3>1
  <2> QED BY <2>1
<1>3. above \in SUBSET Nat
  OBVIOUS
<1> HIDE DEF above
<1>4. \A n \in Nat : n \in above
  BY <1>1, <1>2, <1>3, NatBySet
<1>5. PICK x \in T : TRUE
  OBVIOUS
<1> QED BY <1>4, <1>5 DEF above

LEMMA SubsetsBySet ==
  ASSUME NEW S, IsFiniteSet(S), NEW Q \in SUBSET (SUBSET S),
         \A T \in SUBSET S : (\A U \in SUBSET T : U # T => U \in Q) => T \in Q
  PROVE  \A T \in SUBSET S : T \in Q
<1> DEFINE below == StrictSubsetOrdering(S)
           all == SUBSET S
           rest == (SUBSET S) \ Q
<1>1. \A T, U \in SUBSET S : <<U, T>> \in below <=> U \subseteq T /\ U # T
  BY DEF StrictSubsetOrdering
<1>2. IsWellFoundedOn(below, all)
  BY FS_StrictSubsetOrderingWellFounded, FS_FiniteSubsetsOfFinite
<1>3. rest \subseteq all
  OBVIOUS
<1> SUFFICES ASSUME rest # {} PROVE FALSE
  OBVIOUS
<1> HIDE DEF below, all, rest
<1>4. PICK T \in rest : \A U \in rest : ~ (<<U, T>> \in below)
  BY <1>2, <1>3, WFMin
<1>5. \A U \in SUBSET T : U # T => U \in Q
  BY <1>1, <1>4 DEF rest
<1> QED BY <1>4, <1>5 DEF rest

\* The function behind SumFunctionOnSet.
SumRule(f, g, s) == IF s = {} THEN 0 ELSE f[CHOOSE x \in s : TRUE] + g[s \ {CHOOSE x \in s : TRUE}]
SumTable(f, S) == CHOOSE g : g = [s \in SUBSET S |-> SumRule(f, g, s)]

LEMMA SumsAreTables ==
  ASSUME NEW f, NEW S
  PROVE  SumFunctionOnSet(f, S) = SumTable(f, S)[S]
BY DEF SumFunctionOnSet, FoldFunctionOnSet, MapThenFoldSet, SumTable, SumRule

LEMMA TableExists ==
  ASSUME NEW S, IsFiniteSet(S), NEW f, \A x \in S : f[x] \in Int
  PROVE  \A s \in SUBSET S : /\ SumTable(f, S)[s] = SumRule(f, SumTable(f, S), s)
                             /\ SumTable(f, S)[s] \in Int
<1> DEFINE upTo(n) == {s \in SUBSET S : Cardinality(s) <= n}
           Q == {n \in Nat : \E g \in [upTo(n) -> Int] : \A s \in upTo(n) : g[s] = SumRule(f, g, s)}
<1>1. \A s \in SUBSET S : /\ IsFiniteSet(s) /\ Cardinality(s) \in Nat
                          /\ (Cardinality(s) = 0) <=> (s = {})
                          /\ Cardinality(s) <= Cardinality(S)
  BY FS_Subset, FS_CardinalityType, FS_EmptySet
<1>2. ASSUME NEW s \in SUBSET S, s # {}
      PROVE  /\ s \ {CHOOSE x \in s : TRUE} \in SUBSET S
             /\ Cardinality(s \ {CHOOSE x \in s : TRUE}) = Cardinality(s) - 1
             /\ f[CHOOSE x \in s : TRUE] \in Int
  <2>1. (CHOOSE x \in s : TRUE) \in s
    BY <1>2
  <2>2. IsFiniteSet(s)
    BY <1>1
  <2> QED BY <2>1, <2>2, FS_RemoveElement
<1>3. 0 \in Q
  <2>1. upTo(0) = {{}}
    BY <1>1
  <2> DEFINE h == [s \in {{}} |-> 0]
  <2>2. h \in [{{}} -> Int] /\ h[{}] = 0 /\ SumRule(f, h, {}) = 0
    BY DEF SumRule
  <2> HIDE DEF h
  <2>3. h \in [upTo(0) -> Int] /\ \A s \in upTo(0) : h[s] = SumRule(f, h, s)
    BY <2>1, <2>2
  <2> HIDE DEF upTo
  <2> QED BY <2>3
<1>4. \A n \in Q : n + 1 \in Q
  <2> SUFFICES ASSUME NEW n \in Q PROVE n + 1 \in Q
    OBVIOUS
  <2>1. PICK g \in [upTo(n) -> Int] : \A s \in upTo(n) : g[s] = SumRule(f, g, s)
    OBVIOUS
  <2> DEFINE h == [s \in upTo(n + 1) |-> IF Cardinality(s) <= n THEN g[s] ELSE SumRule(f, g, s)]
  <2>2. ASSUME NEW s \in upTo(n + 1), s # {}
        PROVE  s \ {CHOOSE x \in s : TRUE} \in upTo(n)
    BY <1>1, <1>2, <2>2
  <2>3. \A s \in upTo(n) : s \in upTo(n + 1) /\ h[s] = g[s]
    BY <1>1
  <2>4. \A s \in upTo(n + 1) : SumRule(f, h, s) = SumRule(f, g, s) /\ SumRule(f, g, s) \in Int
    <3> SUFFICES ASSUME NEW s \in upTo(n + 1)
                 PROVE  SumRule(f, h, s) = SumRule(f, g, s) /\ SumRule(f, g, s) \in Int
      OBVIOUS
    <3>1. CASE s = {}
      BY <3>1 DEF SumRule
    <3>2. CASE s # {}
      <4> DEFINE r == s \ {CHOOSE x \in s : TRUE}
      <4>1. r \in upTo(n) /\ f[CHOOSE x \in s : TRUE] \in Int
        BY <3>2, <1>2, <2>2
      <4>2. h[r] = g[r] /\ g[r] \in Int
        BY <4>1, <2>1, <2>3
      <4> QED BY <3>2, <4>1, <4>2 DEF SumRule
    <3> QED BY <3>1, <3>2
  <2>5. h \in [upTo(n + 1) -> Int]
    BY <2>4, <1>1
  <2>6. ASSUME NEW s \in upTo(n + 1) PROVE h[s] = SumRule(f, h, s)
    <3>1. CASE Cardinality(s) <= n
      <4>1. s \in upTo(n)
        BY <3>1
      <4> QED BY <4>1, <2>1, <2>3, <2>4
    <3>2. CASE ~ (Cardinality(s) <= n)
      BY <3>2, <2>4
    <3> QED BY <3>1, <3>2
  <2> HIDE DEF h, upTo
  <2> QED BY <2>5, <2>6
<1>5. Cardinality(S) \in Q
  <2>1. Q \in SUBSET Nat
    OBVIOUS
  <2> HIDE DEF Q
  <2> QED BY <1>1, <1>3, <1>4, <2>1, NatBySet
<1>6. upTo(Cardinality(S)) = SUBSET S
  BY <1>1
<1>7. PICK g \in [SUBSET S -> Int] : \A s \in SUBSET S : g[s] = SumRule(f, g, s)
  BY <1>5, <1>6
<1>8. g = [s \in SUBSET S |-> SumRule(f, g, s)]
  BY <1>7
<1>9. SumTable(f, S) = [s \in SUBSET S |-> SumRule(f, SumTable(f, S), s)]
  BY <1>8 DEF SumTable
<1>10. \A s \in SUBSET S : SumTable(f, S)[s] \in Int
  <2> DEFINE t == SumTable(f, S)
             ints == {s \in SUBSET S : t[s] \in Int}
  <2>1. ASSUME NEW s \in SUBSET S, \A u \in SUBSET s : u # s => u \in ints
        PROVE  s \in ints
    <3>1. t[s] = SumRule(f, t, s)
      BY <1>9
    <3>2. CASE s = {}
      BY <3>1, <3>2 DEF SumRule
    <3>3. CASE s # {}
      <4> DEFINE r == s \ {CHOOSE x \in s : TRUE}
      <4>1. r \in SUBSET s /\ r # s /\ f[CHOOSE x \in s : TRUE] \in Int
        BY <3>3, <1>2
      <4>2. t[r] \in Int
        BY <2>1, <4>1
      <4> HIDE DEF t
      <4> QED BY <3>1, <3>3, <4>1, <4>2 DEF SumRule
    <3> QED BY <3>2, <3>3
  <2>2. ints \in SUBSET (SUBSET S)
    OBVIOUS
  <2>3. \A s \in SUBSET S : t[s] \in Int
    <3> HIDE DEF ints
    <3>1. \A s \in SUBSET S : s \in ints
      BY <2>1, <2>2, SubsetsBySet
    <3> QED BY <3>1 DEF ints
  <2> QED BY <2>3
<1>11. \A s \in SUBSET S : SumTable(f, S)[s] = SumRule(f, SumTable(f, S), s)
  BY <1>9
<1> QED BY <1>10, <1>11

\* A part of the set has the table of the whole.
LEMMA TablesAgree ==
  ASSUME NEW S, IsFiniteSet(S), NEW f, \A x \in S : f[x] \in Int, NEW U \in SUBSET S
  PROVE  SumFunctionOnSet(f, U) = SumTable(f, S)[U]
<1> DEFINE t == SumTable(f, S)
           v == SumTable(f, U)
           same == {s \in SUBSET U : v[s] = t[s]}
<1>1. IsFiniteSet(U)
  BY FS_Subset
<1>2. \A s \in SUBSET S : t[s] = SumRule(f, t, s)
  BY TableExists
<1>3. \A s \in SUBSET U : v[s] = SumRule(f, v, s)
  BY <1>1, TableExists
<1>4. ASSUME NEW s \in SUBSET U, \A u \in SUBSET s : u # s => u \in same
      PROVE  s \in same
  <2> HIDE DEF t, v
  <2>1. v[s] = SumRule(f, v, s) /\ t[s] = SumRule(f, t, s)
    BY <1>2, <1>3
  <2>2. CASE s = {}
    BY <2>1, <2>2 DEF SumRule
  <2>3. CASE s # {}
    <3> DEFINE r == s \ {CHOOSE x \in s : TRUE}
    <3>1. r \in SUBSET s /\ r # s
      BY <2>3
    <3>2. v[r] = t[r]
      BY <3>1, <1>4
    <3> QED BY <2>1, <2>3, <3>2 DEF SumRule
  <2> QED BY <2>2, <2>3
<1>5. same \in SUBSET (SUBSET U)
  OBVIOUS
<1> HIDE DEF same
<1>6. \A s \in SUBSET U : s \in same
  BY <1>1, <1>4, <1>5, SubsetsBySet
<1>7. v[U] = t[U]
  BY <1>6 DEF same
<1> QED BY <1>7, SumsAreTables

\* A sum is a number; that of nothing is zero; an element comes out of it.
LEMMA SumsOfParts ==
  ASSUME NEW S, IsFiniteSet(S), NEW f, \A x \in S : f[x] \in Int
  PROVE  /\ SumFunctionOnSet(f, {}) = 0
         /\ SumFunctionOnSet(f, S) \in Int
         /\ \A x \in S : SumFunctionOnSet(f, S) = f[x] + SumFunctionOnSet(f, S \ {x})
<1> DEFINE t == SumTable(f, S)
           good == {s \in SUBSET S : \A x \in s : t[s] = f[x] + t[s \ {x}]}
<1>1. /\ \A s \in SUBSET S : t[s] = SumRule(f, t, s)
      /\ \A s \in SUBSET S : t[s] \in Int
  BY TableExists
<1>2. \A s \in SUBSET S : SumFunctionOnSet(f, s) = t[s]
  BY TablesAgree
<1> HIDE DEF t
<1>3. t[{}] = 0
  BY <1>1 DEF SumRule
<1>4. ASSUME NEW s \in SUBSET S, \A u \in SUBSET s : u # s => u \in good
      PROVE  s \in good
  <2> SUFFICES ASSUME NEW x \in s PROVE t[s] = f[x] + t[s \ {x}]
    OBVIOUS
  <2> DEFINE c == CHOOSE y \in s : TRUE
  <2>1. c \in s /\ t[s] = f[c] + t[s \ {c}]
    BY <1>1 DEF SumRule
  <2> HIDE DEF c
  <2>2. CASE x = c
    BY <2>1, <2>2
  <2>3. CASE x # c
    <3>1. t[s \ {c}] = f[x] + t[(s \ {c}) \ {x}]
      <4>1. s \ {c} \in good
        BY <1>4, <2>1
      <4> QED BY <4>1, <2>3
    <3>2. t[s \ {x}] = f[c] + t[(s \ {x}) \ {c}]
      <4>1. s \ {x} \in good
        BY <1>4, <2>1
      <4> QED BY <4>1, <2>1, <2>3
    <3>3. (s \ {c}) \ {x} = (s \ {x}) \ {c}
      OBVIOUS
    <3> DEFINE a == t[(s \ {x}) \ {c}]
    <3>4. a \in Int /\ f[x] \in Int /\ f[c] \in Int
      BY <1>1, <2>1
    <3>5. t[s] = f[c] + (f[x] + a) /\ t[s \ {x}] = f[c] + a
      BY <2>1, <3>1, <3>2, <3>3
    <3> HIDE DEF a
    <3> QED BY <3>4, <3>5
  <2> QED BY <2>2, <2>3
<1>5. good \in SUBSET (SUBSET S)
  OBVIOUS
<1> HIDE DEF good
<1>6. S \in good
  BY <1>4, <1>5, SubsetsBySet
<1>7. \A x \in S : t[S] = f[x] + t[S \ {x}]
  BY <1>6 DEF good
<1> QED BY <1>1, <1>2, <1>3, <1>7

\* Sums grow with what is summed.
LEMMA SumsAreMonotone ==
  ASSUME NEW S, IsFiniteSet(S), NEW f, NEW g,
         \A x \in S : f[x] \in Int /\ g[x] \in Int /\ f[x] <= g[x]
  PROVE  SumFunctionOnSet(f, S) <= SumFunctionOnSet(g, S)
<1> DEFINE a(s) == SumFunctionOnSet(f, s)
           b(s) == SumFunctionOnSet(g, s)
           good == {s \in SUBSET S : a(s) <= b(s)}
<1>1. ASSUME NEW s \in SUBSET S
      PROVE  /\ a({}) = 0 /\ b({}) = 0
             /\ a(s) \in Int /\ b(s) \in Int
             /\ \A x \in s : a(s) = f[x] + a(s \ {x}) /\ b(s) = g[x] + b(s \ {x})
  <2>1. IsFiniteSet(s) /\ \A x \in s : f[x] \in Int /\ g[x] \in Int
    BY FS_Subset
  <2> QED BY <2>1, SumsOfParts
<1> HIDE DEF a, b
<1>2. ASSUME NEW s \in SUBSET S, \A u \in SUBSET s : u # s => u \in good
      PROVE  s \in good
  <2>1. CASE s = {}
    BY <1>1, <2>1
  <2>2. CASE s # {}
    <3>1. PICK x \in s : TRUE
      BY <2>2
    <3>2. a(s \ {x}) <= b(s \ {x})
      BY <1>2, <3>1
    <3>3. a(s \ {x}) \in Int /\ b(s \ {x}) \in Int
      BY <1>1
    <3>4. a(s) = f[x] + a(s \ {x}) /\ b(s) = g[x] + b(s \ {x})
      BY <1>1, <3>1
    <3>5. f[x] \in Int /\ g[x] \in Int /\ f[x] <= g[x]
      BY <3>1
    <3> QED BY <3>2, <3>3, <3>4, <3>5
  <2> QED BY <2>1, <2>2
<1>3. good \in SUBSET (SUBSET S)
  OBVIOUS
<1> HIDE DEF good
<1>4. S \in good
  BY <1>2, <1>3, SubsetsBySet
<1> QED BY <1>4 DEF good, a, b

\* What sums nothing but zeros is zero.
LEMMA SumsOfZeros ==
  ASSUME NEW S, IsFiniteSet(S), NEW f, \A x \in S : f[x] = 0
  PROVE  SumFunctionOnSet(f, S) = 0
<1> DEFINE good == {s \in SUBSET S : SumFunctionOnSet(f, s) = 0}
<1>1. ASSUME NEW s \in SUBSET S, \A u \in SUBSET s : u # s => u \in good
      PROVE  s \in good
  <2>1. IsFiniteSet(s) /\ \A x \in s : f[x] \in Int
    BY FS_Subset
  <2>2. CASE s = {}
    BY <2>1, <2>2, SumsOfParts
  <2>3. CASE s # {}
    <3>1. PICK x \in s : TRUE
      BY <2>3
    <3>2. s \ {x} \in good
      BY <1>1, <3>1
    <3>3. SumFunctionOnSet(f, s) = f[x] + SumFunctionOnSet(f, s \ {x})
      BY <2>1, <3>1, SumsOfParts
    <3> QED BY <3>2, <3>3
  <2> QED BY <2>2, <2>3
<1>2. good \in SUBSET (SUBSET S)
  OBVIOUS
<1> HIDE DEF good
<1>3. S \in good
  BY <1>1, <1>2, SubsetsBySet
<1> QED BY <1>3 DEF good

\* A part sums to no more than the whole, where nothing is negative.
LEMMA PartsSumToLess ==
  ASSUME NEW S, IsFiniteSet(S), NEW f, \A x \in S : f[x] \in Nat, NEW T \in SUBSET S
  PROVE  SumFunctionOnSet(f, T) <= SumFunctionOnSet(f, S)
<1> DEFINE a(s) == SumFunctionOnSet(f, s)
           good == {s \in SUBSET S : \A t \in SUBSET s : a(t) <= a(s)}
<1>1. ASSUME NEW s \in SUBSET S
      PROVE  a(s) \in Int /\ \A x \in s : a(s) = f[x] + a(s \ {x})
  <2>1. IsFiniteSet(s) /\ \A x \in s : f[x] \in Int
    BY FS_Subset
  <2> QED BY <2>1, SumsOfParts
<1> HIDE DEF a
<1>2. ASSUME NEW s \in SUBSET S, \A u \in SUBSET s : u # s => u \in good
      PROVE  s \in good
  <2> SUFFICES ASSUME NEW t \in SUBSET s, t # s PROVE a(t) <= a(s)
    BY <1>1
  <2>1. PICK x \in s : x \notin t
    OBVIOUS
  <2>2. s \ {x} \in good /\ t \in SUBSET (s \ {x})
    BY <1>2, <2>1
  <2>3. a(t) <= a(s \ {x}) /\ f[x] \in Nat
    BY <2>2
  <2>4. a(t) \in Int /\ a(s \ {x}) \in Int /\ a(s) = f[x] + a(s \ {x})
    BY <1>1, <2>1
  <2> QED BY <2>3, <2>4
<1>3. good \in SUBSET (SUBSET S)
  OBVIOUS
<1> HIDE DEF good
<1>4. S \in good
  BY <1>2, <1>3, SubsetsBySet
<1> QED BY <1>4 DEF good, a

\* A sum of differences with a factor taken out.
LEMMA SumsAreLinear ==
  ASSUME NEW S, IsFiniteSet(S), NEW f, NEW g, NEW h, NEW e \in Int,
         \A x \in S : f[x] \in Int /\ g[x] \in Int /\ h[x] = e * f[x] - g[x]
  PROVE  SumFunctionOnSet(h, S) = e * SumFunctionOnSet(f, S) - SumFunctionOnSet(g, S)
<1> DEFINE a(s) == SumFunctionOnSet(f, s)
           b(s) == SumFunctionOnSet(g, s)
           c(s) == SumFunctionOnSet(h, s)
           good == {s \in SUBSET S : c(s) = e * a(s) - b(s)}
<1>1. \A x \in S : h[x] \in Int
  OBVIOUS
<1>2. ASSUME NEW s \in SUBSET S
      PROVE  /\ a({}) = 0 /\ b({}) = 0 /\ c({}) = 0
             /\ a(s) \in Int /\ b(s) \in Int /\ c(s) \in Int
             /\ \A x \in s : /\ a(s) = f[x] + a(s \ {x}) /\ b(s) = g[x] + b(s \ {x})
                             /\ c(s) = h[x] + c(s \ {x})
  <2>1. IsFiniteSet(s) /\ \A x \in s : f[x] \in Int /\ g[x] \in Int /\ h[x] \in Int
    BY <1>1, FS_Subset
  <2> QED BY <2>1, SumsOfParts
<1> HIDE DEF a, b, c
<1>3. ASSUME NEW s \in SUBSET S, \A u \in SUBSET s : u # s => u \in good
      PROVE  s \in good
  <2>1. CASE s = {}
    BY <1>2, <2>1
  <2>2. CASE s # {}
    <3>1. PICK x \in s : TRUE
      BY <2>2
    <3> DEFINE r == s \ {x}
    <3>2. r \in SUBSET S /\ c(r) = e * a(r) - b(r)
      BY <1>3, <3>1
    <3>3. a(r) \in Int /\ b(r) \in Int
      BY <1>2, <3>2
    <3>4. a(s) = f[x] + a(r) /\ b(s) = g[x] + b(r) /\ c(s) = h[x] + c(r)
      BY <1>2, <3>1
    <3>5. f[x] \in Int /\ g[x] \in Int /\ h[x] = e * f[x] - g[x]
      BY <3>1
    <3> HIDE DEF r
    <3>6. e * (f[x] + a(r)) = e * f[x] + e * a(r)
      BY <3>3, <3>5
    <3>7. e * f[x] \in Int /\ e * a(r) \in Int
      BY <3>3, <3>5
    <3>8. c(s) = e * a(s) - b(s)
      BY <3>2, <3>3, <3>4, <3>5, <3>6, <3>7
    <3> QED BY <3>8
  <2> QED BY <2>1, <2>2
<1>4. good \in SUBSET (SUBSET S)
  OBVIOUS
<1> HIDE DEF good
<1>5. S \in good
  BY <1>3, <1>4, SubsetsBySet
<1> QED BY <1>5 DEF good, a, b, c
\* Sums of the same are the same.
LEMMA SumsAgree ==
  ASSUME NEW S, IsFiniteSet(S), NEW f, NEW g, \A x \in S : f[x] \in Int /\ g[x] = f[x]
  PROVE  SumFunctionOnSet(g, S) = SumFunctionOnSet(f, S)
<1>1. \A x \in S : g[x] \in Int /\ f[x] \in Int /\ f[x] <= g[x] /\ g[x] <= f[x]
  OBVIOUS
<1>2. SumFunctionOnSet(f, S) \in Int /\ SumFunctionOnSet(g, S) \in Int
  BY <1>1, SumsOfParts
<1>3. SumFunctionOnSet(f, S) <= SumFunctionOnSet(g, S)
  BY <1>1, SumsAreMonotone
<1>4. SumFunctionOnSet(g, S) <= SumFunctionOnSet(f, S)
  BY <1>1, SumsAreMonotone
<1> QED BY <1>2, <1>3, <1>4

\* What is added to one element is added to the sum.
LEMMA SumsShift ==
  ASSUME NEW S, IsFiniteSet(S), NEW f, NEW g, NEW x \in S, NEW d \in Int,
         \A y \in S : f[y] \in Int, g[x] = f[x] + d, \A y \in S \ {x} : g[y] = f[y]
  PROVE  SumFunctionOnSet(g, S) = SumFunctionOnSet(f, S) + d
<1> DEFINE R == S \ {x}
<1>1. IsFiniteSet(R) /\ \A y \in R : f[y] \in Int /\ g[y] = f[y]
  BY FS_Subset
<1>2. \A y \in S : g[y] \in Int
  OBVIOUS
<1>3. SumFunctionOnSet(f, S) = f[x] + SumFunctionOnSet(f, R)
  BY SumsOfParts
<1>4. SumFunctionOnSet(g, S) = g[x] + SumFunctionOnSet(g, R)
  BY <1>2, SumsOfParts
<1> HIDE DEF R
<1>5. SumFunctionOnSet(g, R) = SumFunctionOnSet(f, R) /\ SumFunctionOnSet(f, R) \in Int
  BY <1>1, SumsAgree, SumsOfParts
<1> QED BY <1>3, <1>4, <1>5

\* What is zero may be left out.
LEMMA SumsOfSupport ==
  ASSUME NEW S, IsFiniteSet(S), NEW f, \A x \in S : f[x] \in Int,
         NEW T \in SUBSET S, \A x \in S \ T : f[x] = 0
  PROVE  SumFunctionOnSet(f, S) = SumFunctionOnSet(f, T)
<1> DEFINE a(s) == SumFunctionOnSet(f, s)
           good == {s \in SUBSET S : a(s) = a(s \cap T)}
<1>1. ASSUME NEW s \in SUBSET S
      PROVE  a(s) \in Int /\ \A x \in s : a(s) = f[x] + a(s \ {x})
  <2>1. IsFiniteSet(s) /\ \A x \in s : f[x] \in Int
    BY FS_Subset
  <2> QED BY <2>1, SumsOfParts
<1> HIDE DEF a
<1>2. ASSUME NEW s \in SUBSET S, \A u \in SUBSET s : u # s => u \in good
      PROVE  s \in good
  <2> SUFFICES ASSUME NEW x \in s PROVE a(s) = a(s \cap T)
    <3>1. s = {} => s \cap T = s
      OBVIOUS
    <3> QED BY <3>1
  <2> DEFINE r == s \ {x}
  <2>1. a(s) = f[x] + a(r) /\ r \in SUBSET S /\ a(r) \in Int
    BY <1>1
  <2>2. a(r) = a(r \cap T)
    <3>1. r \in SUBSET s /\ r # s
      OBVIOUS
    <3> HIDE DEF r
    <3> QED BY <1>2, <3>1
  <2>3. CASE x \in T
    <3>1. (s \cap T) \ {x} = r \cap T /\ x \in s \cap T /\ s \cap T \in SUBSET S
      BY <2>3
    <3>2. a(s \cap T) = f[x] + a((s \cap T) \ {x})
      BY <1>1, <3>1
    <3> HIDE DEF r
    <3> QED BY <2>1, <2>2, <3>1, <3>2
  <2>4. CASE x \notin T
    <3>1. s \cap T = r \cap T /\ f[x] = 0
      BY <2>4
    <3>2. a(s) = a(r)
      BY <2>1, <3>1
    <3>3. a(s \cap T) = a(r \cap T)
      BY <3>1
    <3> QED BY <2>2, <3>2, <3>3
  <2> QED BY <2>3, <2>4
<1>3. good \in SUBSET (SUBSET S)
  OBVIOUS
<1>4. S \cap T = T
  OBVIOUS
<1> HIDE DEF good
<1>5. S \in good
  BY <1>2, <1>3, SubsetsBySet
<1> QED BY <1>4, <1>5 DEF good, a
=============================================================================
