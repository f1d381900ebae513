------------------------------ MODULE FoldTheorems -----------------------------
(***************************************************************************)
(* Facts about the sums of Functions and FiniteSetsExt and the joined      *)
(* sequences of SequencesExt, which the modules of the balancing, of the   *)
(* allocation, of the batches and of the workers use.  A sum's are proved  *)
(* by induction over a finite set, in the form that a set of subsets, to   *)
(* which every member with one more element belongs too, has them all.     *)
(***************************************************************************)
EXTENDS Integers, SequencesExt, FiniteSetTheorems, WellFoundedInduction, TLAPS

-----------------------------------------------------------------------------
(* Induction                                                                   *)

\* A set of numbers with 0, and with the successor of each of its members, has all.
LEMMA AllNumbers ==
  ASSUME NEW N \in SUBSET Nat, 0 \in N, \A n \in N : n + 1 \in N
  PROVE  N = Nat
<1> SUFFICES ASSUME Nat \ N # {} PROVE FALSE
  OBVIOUS
<1> DEFINE Less == {p \in Nat \X Nat : p[1] < p[2]}
<1>0. IsWellFoundedOn(Less, Nat)
  BY NatLessThanWellFounded, Zenon DEF OpToRel
<1>1. PICK m \in Nat \ N : \A n \in Nat \ N : <<n, m>> \notin Less
  <2>1. Nat \ N \subseteq Nat
    OBVIOUS
  <2> HIDE DEF Less
  <2> QED BY <1>0, <2>1, WFMin
<1>2. m - 1 \in N
  <2>1. m # 0 /\ m - 1 \in Nat
    OBVIOUS
  <2>2. <<m - 1, m>> \in Less
    BY <2>1
  <2> QED BY <1>1, <2>1, <2>2
<1>3. (m - 1) + 1 = m
  OBVIOUS
<1> QED BY <1>2, <1>3

\* A set that has every subset of a finite set of which it has all those with one
\* element less has all the subsets.
LEMMA AllSubsets ==
  ASSUME NEW S, IsFiniteSet(S), NEW Q,
         \A T \in SUBSET S : (\A x \in T : T \ {x} \in Q) => T \in Q
  PROVE  \A T \in SUBSET S : T \in Q
<1> DEFINE N == {n \in Nat : \A T \in SUBSET S : Cardinality(T) = n => T \in Q}
<1>1. \A T \in SUBSET S : IsFiniteSet(T) /\ Cardinality(T) \in Nat
  BY FS_Subset, FS_CardinalityType
<1>2. 0 \in N
  BY <1>1, FS_EmptySet
<1>3. ASSUME NEW n \in N PROVE n + 1 \in N
  <2> SUFFICES ASSUME NEW T \in SUBSET S, Cardinality(T) = n + 1 PROVE T \in Q
    OBVIOUS
  <2>1. ASSUME NEW x \in T PROVE T \ {x} \in Q
    <3>1. Cardinality(T \ {x}) = n
      BY <1>1, FS_RemoveElement
    <3> QED BY <3>1
  <2> QED BY <2>1
<1>4. N = Nat
  <2>1. N \in SUBSET Nat
    OBVIOUS
  <2> HIDE DEF N
  <2> QED BY <1>2, <1>3, <2>1, AllNumbers
<1> QED BY <1>1, <1>4

-----------------------------------------------------------------------------
(* The recursion of a sum                                                      *)

Pick(s) == CHOOSE x \in s : TRUE

SumsUp(g, f, S) ==
  g = [s \in SUBSET S |-> IF s = {} THEN 0 ELSE f[Pick(s)] + g[s \ {Pick(s)}]]

LEMMA SumIsChosen ==
  ASSUME NEW f, NEW S
  PROVE  SumFunctionOnSet(f, S) = (CHOOSE g : SumsUp(g, f, S))[S]
BY DEF SumFunctionOnSet, FoldFunctionOnSet, MapThenFoldSet, SumsUp, Pick

LEMMA SumExists ==
  ASSUME NEW S, IsFiniteSet(S), NEW f
  PROVE  \E g : SumsUp(g, f, S)
<1> DEFINE Upto(n) == {s \in SUBSET S : Cardinality(s) <= n}
           Up(g, n) == g = [s \in Upto(n) |->
                              IF s = {} THEN 0 ELSE f[Pick(s)] + g[s \ {Pick(s)}]]
           N == {n \in Nat : \E g : Up(g, n)}
<1>1. \A s \in SUBSET S : IsFiniteSet(s) /\ Cardinality(s) \in Nat
  BY FS_Subset, FS_CardinalityType
<1>2. \A s \in SUBSET S : s # {} =>
        /\ Pick(s) \in s /\ s \ {Pick(s)} \in SUBSET S
        /\ Cardinality(s \ {Pick(s)}) = Cardinality(s) - 1
  <2> SUFFICES ASSUME NEW s \in SUBSET S, s # {}
               PROVE  /\ Pick(s) \in s /\ s \ {Pick(s)} \in SUBSET S
                      /\ Cardinality(s \ {Pick(s)}) = Cardinality(s) - 1
    OBVIOUS
  <2>1. Pick(s) \in s
    BY DEF Pick
  <2> QED BY <1>1, <2>1, FS_RemoveElement
<1>3. 0 \in N
  <2> DEFINE g == [s \in Upto(0) |-> 0]
  <2>1. \A s \in Upto(0) : s = {}
    BY <1>1, FS_EmptySet
  <2>2. Up(g, 0)
    BY <2>1
  <2> QED BY <2>2
<1>4. ASSUME NEW n \in N PROVE n + 1 \in N
  <2>1. PICK g : Up(g, n)
    OBVIOUS
  <2> DEFINE h == [s \in Upto(n + 1) |->
                     IF s = {} THEN 0 ELSE f[Pick(s)] + g[s \ {Pick(s)}]]
  <2>2. \A s \in Upto(n) : s \in Upto(n + 1) /\ h[s] = g[s]
    <3>1. \A s \in Upto(n) : s \in Upto(n + 1)
      BY <1>1
    <3>2. \A s \in Upto(n + 1) : h[s] = IF s = {} THEN 0 ELSE f[Pick(s)] + g[s \ {Pick(s)}]
      OBVIOUS
    <3>3. \A s \in Upto(n) : g[s] = IF s = {} THEN 0 ELSE f[Pick(s)] + g[s \ {Pick(s)}]
      BY <2>1
    <3> HIDE DEF Upto, h
    <3> QED BY <3>1, <3>2, <3>3
  <2>3. \A s \in Upto(n + 1) : s # {} => s \ {Pick(s)} \in Upto(n)
    BY <1>1, <1>2
  <2>4. \A s \in Upto(n + 1) : h[s] = IF s = {} THEN 0 ELSE f[Pick(s)] + h[s \ {Pick(s)}]
    BY <2>2, <2>3
  <2>5. h = [s \in Upto(n + 1) |-> h[s]]
    OBVIOUS
  <2> HIDE DEF h, Upto
  <2>6. h = [s \in Upto(n + 1) |->
               IF s = {} THEN 0 ELSE f[Pick(s)] + h[s \ {Pick(s)}]]
    BY <2>4, <2>5
  <2>7. Up(h, n + 1)
    BY <2>6, Zenon
  <2> HIDE DEF Up
  <2>8. n + 1 \in Nat
    OBVIOUS
  <2> QED BY <2>7, <2>8
<1>5. N = Nat
  <2>1. N \in SUBSET Nat
    OBVIOUS
  <2> HIDE DEF N
  <2> QED BY <1>3, <1>4, <2>1, AllNumbers
<1>6. Cardinality(S) \in N
  BY <1>1, <1>5
<1>7. Upto(Cardinality(S)) = SUBSET S
  BY <1>1, FS_Subset
<1> QED BY <1>6, <1>7 DEF SumsUp
\* Two recursions over the same numbers agree where both are defined.
LEMMA SumsAgree ==
  ASSUME NEW S, IsFiniteSet(S), NEW T \in SUBSET S, NEW f, NEW e, NEW g, NEW h,
         SumsUp(g, f, S), SumsUp(h, e, T), \A x \in T : f[x] = e[x]
  PROVE  g[T] = h[T]
<1> DEFINE Q == {s \in SUBSET T : g[s] = h[s]}
<1>0. IsFiniteSet(T)
  BY FS_Subset
<1>1. \A s \in SUBSET T :
        /\ g[s] = IF s = {} THEN 0 ELSE f[Pick(s)] + g[s \ {Pick(s)}]
        /\ h[s] = IF s = {} THEN 0 ELSE e[Pick(s)] + h[s \ {Pick(s)}]
  BY DEF SumsUp
<1>2. ASSUME NEW s \in SUBSET T, \A x \in s : s \ {x} \in Q PROVE s \in Q
  <2>1. s # {} => Pick(s) \in s
    BY DEF Pick
  <2>2. s # {} => g[s \ {Pick(s)}] = h[s \ {Pick(s)}] /\ f[Pick(s)] = e[Pick(s)]
    BY <1>2, <2>1
  <2> QED BY <1>1, <2>2
<1> HIDE DEF Q
<1>3. \A s \in SUBSET T : s \in Q
  BY <1>0, <1>2, AllSubsets
<1> QED BY <1>3 DEF Q

-----------------------------------------------------------------------------
(* Sums of numbers                                                             *)

Sum(f, S) == SumFunctionOnSet(f, S)

LEMMA SumChosen ==
  ASSUME NEW S, IsFiniteSet(S), NEW f
  PROVE  \E g : SumsUp(g, f, S) /\ Sum(f, S) = g[S]
<1>1. \E g : SumsUp(g, f, S)
  BY SumExists
<1> DEFINE c == CHOOSE g : SumsUp(g, f, S)
<1>2. SumsUp(c, f, S)
  BY <1>1, Zenon
<1>3. Sum(f, S) = c[S]
  BY SumIsChosen, Zenon DEF Sum
<1> HIDE DEF c
<1> QED BY <1>2, <1>3

\* The sum depends on nothing but the values it adds up.
LEMMA SumSame ==
  ASSUME NEW S, IsFiniteSet(S), NEW f, NEW e, \A x \in S : f[x] = e[x]
  PROVE  Sum(f, S) = Sum(e, S)
<1>1. PICK g : SumsUp(g, f, S) /\ Sum(f, S) = g[S]
  BY SumChosen
<1>2. PICK h : SumsUp(h, e, S) /\ Sum(e, S) = h[S]
  BY SumChosen
<1>3. g[S] = h[S]
  <2>1. S \in SUBSET S
    OBVIOUS
  <2> QED BY <1>1, <1>2, <2>1, SumsAgree, SMTT(30)
<1> QED BY ONLY <1>1, <1>2, <1>3

\* The sum of nothing is 0, any other begins with one of the elements.
LEMMA SumPicks ==
  ASSUME NEW S, IsFiniteSet(S), NEW f
  PROVE  Sum(f, S) = IF S = {} THEN 0 ELSE f[Pick(S)] + Sum(f, S \ {Pick(S)})
<1> DEFINE T == S \ {Pick(S)}
<1>1. PICK g : SumsUp(g, f, S) /\ Sum(f, S) = g[S]
  BY SumChosen
<1>2. T \in SUBSET S /\ IsFiniteSet(T)
  BY FS_Subset
<1>3. PICK h : SumsUp(h, f, T) /\ Sum(f, T) = h[T]
  BY <1>2, SumChosen
<1>4. g[T] = h[T]
  BY <1>1, <1>2, <1>3, SumsAgree
<1>5. g[S] = IF S = {} THEN 0 ELSE f[Pick(S)] + g[T]
  BY <1>1 DEF SumsUp
<1> QED BY <1>1, <1>3, <1>4, <1>5

LEMMA SumOfNothing == \A f : Sum(f, {}) = 0
BY SumPicks, FS_EmptySet

\* The sum of integers is one, and any element may be taken out first.
LEMMA SumRemove ==
  ASSUME NEW S, IsFiniteSet(S), NEW f, \A x \in S : f[x] \in Int
  PROVE  /\ Sum(f, S) \in Int
         /\ \A x \in S : Sum(f, S) = f[x] + Sum(f, S \ {x}) /\ Sum(f, S \ {x}) \in Int
<1> DEFINE Q == {T \in SUBSET S : /\ Sum(f, T) \in Int
                                  /\ \A x \in T : /\ Sum(f, T) = f[x] + Sum(f, T \ {x})
                                                  /\ Sum(f, T \ {x}) \in Int}
<1>1. ASSUME NEW T \in SUBSET S, \A x \in T : T \ {x} \in Q PROVE T \in Q
  <2>0. IsFiniteSet(T) /\ (T # {} => Pick(T) \in T)
    BY FS_Subset DEF Pick
  <2>1. Sum(f, T) = IF T = {} THEN 0 ELSE f[Pick(T)] + Sum(f, T \ {Pick(T)})
    BY <2>0, SumPicks
  <2>2. Sum(f, T) \in Int
    BY <1>1, <2>0, <2>1
  <2>3. ASSUME NEW x \in T PROVE Sum(f, T) = f[x] + Sum(f, T \ {x})
    <3> DEFINE y == Pick(T)
               R == (T \ {y}) \ {x}
    <3>1. y \in T /\ Sum(f, T) = f[y] + Sum(f, T \ {y})
      BY <2>0, <2>1
    <3>2. CASE x = y
      BY <3>1, <3>2
    <3>3. CASE x # y
      <4>1. Sum(f, T \ {y}) = f[x] + Sum(f, R)
        BY <1>1, <3>1, <3>3
      <4>2. Sum(f, T \ {x}) = f[y] + Sum(f, R)
        <5>1. (T \ {x}) \ {y} = R /\ y \in T \ {x} /\ T \ {x} \in Q
          BY <1>1, <3>1, <3>3
        <5> QED BY <5>1
      <4>3. Sum(f, R) \in Int /\ f[x] \in Int /\ f[y] \in Int
        <5>1. T \ {y} \in Q /\ x \in T \ {y}
          BY <1>1, <3>1, <3>3
        <5>2. f[x] \in Int /\ f[y] \in Int
          BY <3>1
        <5> QED BY <5>1, <5>2
      <4> HIDE DEF y, R
      <4> QED BY <3>1, <4>1, <4>2, <4>3
    <3> QED BY <3>2, <3>3
  <2>4. \A x \in T : Sum(f, T \ {x}) \in Int
    BY <1>1
  <2> QED BY <2>2, <2>3, <2>4
<1> HIDE DEF Q
<1>2. \A T \in SUBSET S : T \in Q
  BY <1>1, AllSubsets
<1>3. S \in Q
  BY <1>2
<1> QED BY <1>3 DEF Q
\* Sums over sets without a common element add up.
LEMMA SumUnion ==
  ASSUME NEW S, IsFiniteSet(S), NEW T, IsFiniteSet(T), S \cap T = {},
         NEW f, \A x \in S \cup T : f[x] \in Int
  PROVE  Sum(f, S \cup T) = Sum(f, S) + Sum(f, T)
<1> DEFINE Q == {R \in SUBSET T : Sum(f, S \cup R) = Sum(f, S) + Sum(f, R)}
<1>0. Sum(f, S) \in Int /\ Sum(f, {}) = 0
  BY SumRemove, SumOfNothing
<1>1. ASSUME NEW R \in SUBSET T, \A x \in R : R \ {x} \in Q PROVE R \in Q
  <2>1. CASE R = {}
    <3>1. S \cup R = S
      BY <2>1
    <3> QED BY <1>0, <2>1, <3>1
  <2>2. CASE R # {}
    <3>1. PICK x \in R : TRUE
      BY <2>2
    <3>2. IsFiniteSet(R) /\ IsFiniteSet(S \cup R)
      BY FS_Subset, FS_Union
    <3>3. Sum(f, R) = f[x] + Sum(f, R \ {x}) /\ Sum(f, R \ {x}) \in Int
      BY <3>2, SumRemove
    <3>4. Sum(f, S \cup R) = f[x] + Sum(f, (S \cup R) \ {x})
      BY <3>2, SumRemove
    <3>5. (S \cup R) \ {x} = S \cup (R \ {x}) /\ f[x] \in Int
      OBVIOUS
    <3>6. Sum(f, (S \cup R) \ {x}) = Sum(f, S) + Sum(f, R \ {x})
      BY <1>1, <3>5
    <3>7. Sum(f, S \cup R) = Sum(f, S) + Sum(f, R)
      BY <1>0, <3>3, <3>4, <3>5, <3>6
    <3> QED BY <3>7
  <2> QED BY <2>1, <2>2
<1> HIDE DEF Q
<1>2. \A R \in SUBSET T : R \in Q
  BY <1>1, AllSubsets
<1>3. T \in Q
  BY <1>2
<1> QED BY <1>3 DEF Q

\* The sum of the sums of two functions.
LEMMA SumPlus ==
  ASSUME NEW S, IsFiniteSet(S), NEW f, NEW e, NEW h,
         \A x \in S : f[x] \in Int /\ e[x] \in Int /\ h[x] = f[x] + e[x]
  PROVE  Sum(h, S) = Sum(f, S) + Sum(e, S)
<1> DEFINE Q == {T \in SUBSET S : Sum(h, T) = Sum(f, T) + Sum(e, T)}
<1>1. ASSUME NEW T \in SUBSET S, \A x \in T : T \ {x} \in Q PROVE T \in Q
  <2>1. CASE T = {}
    BY <2>1, SumOfNothing, FS_EmptySet
  <2>2. CASE T # {}
    <3>1. PICK x \in T : TRUE
      BY <2>2
    <3>2. IsFiniteSet(T)
      BY FS_Subset
    <3>3. f[x] \in Int /\ e[x] \in Int /\ h[x] = f[x] + e[x]
      OBVIOUS
    <3>4. Sum(f, T) = f[x] + Sum(f, T \ {x}) /\ Sum(f, T \ {x}) \in Int
      BY <3>2, SumRemove
    <3>5. Sum(e, T) = e[x] + Sum(e, T \ {x}) /\ Sum(e, T \ {x}) \in Int
      BY <3>2, SumRemove
    <3>6. Sum(h, T) = h[x] + Sum(h, T \ {x})
      <4>1. \A y \in T : h[y] \in Int
        OBVIOUS
      <4> QED BY <3>2, <4>1, SumRemove
    <3>7. Sum(h, T \ {x}) = Sum(f, T \ {x}) + Sum(e, T \ {x})
      BY <1>1
    <3> QED BY <3>3, <3>4, <3>5, <3>6, <3>7
  <2> QED BY <2>1, <2>2
<1> HIDE DEF Q
<1>2. \A T \in SUBSET S : T \in Q
  BY <1>1, AllSubsets
<1>3. S \in Q
  BY <1>2
<1> QED BY <1>3 DEF Q

\* A common factor can be taken out.
LEMMA SumTimes ==
  ASSUME NEW S, IsFiniteSet(S), NEW c \in Int, NEW f, NEW h,
         \A x \in S : f[x] \in Int /\ h[x] = c * f[x]
  PROVE  Sum(h, S) = c * Sum(f, S)
<1> DEFINE Q == {T \in SUBSET S : Sum(h, T) = c * Sum(f, T)}
<1>1. ASSUME NEW T \in SUBSET S, \A x \in T : T \ {x} \in Q PROVE T \in Q
  <2>1. CASE T = {}
    BY <2>1, SumOfNothing, FS_EmptySet
  <2>2. CASE T # {}
    <3>1. PICK x \in T : TRUE
      BY <2>2
    <3>2. IsFiniteSet(T)
      BY FS_Subset
    <3>3. f[x] \in Int /\ h[x] = c * f[x]
      OBVIOUS
    <3>4. Sum(f, T) = f[x] + Sum(f, T \ {x}) /\ Sum(f, T \ {x}) \in Int
      BY <3>2, SumRemove
    <3>5. Sum(h, T) = h[x] + Sum(h, T \ {x})
      <4>1. \A y \in T : h[y] \in Int
        OBVIOUS
      <4> QED BY <3>2, <4>1, SumRemove
    <3>6. Sum(h, T \ {x}) = c * Sum(f, T \ {x})
      BY <1>1
    <3>7. \A a, b \in Int : c * (a + b) = c * a + c * b
      OBVIOUS
    <3> QED BY <3>3, <3>4, <3>5, <3>6, <3>7
  <2> QED BY <2>1, <2>2
<1> HIDE DEF Q
<1>2. \A T \in SUBSET S : T \in Q
  BY <1>1, AllSubsets
<1>3. S \in Q
  BY <1>2
<1> QED BY <1>3 DEF Q

\* A sum is at most a bound on its values times their number.
LEMMA SumAtMost ==
  ASSUME NEW S, IsFiniteSet(S), NEW c \in Int, NEW f,
         \A x \in S : f[x] \in Int /\ f[x] <= c
  PROVE  Sum(f, S) <= c * Cardinality(S)
<1> DEFINE Q == {T \in SUBSET S : Sum(f, T) <= c * Cardinality(T)}
<1>1. ASSUME NEW T \in SUBSET S, \A x \in T : T \ {x} \in Q PROVE T \in Q
  <2>0. IsFiniteSet(T) /\ Cardinality(T) \in Nat
    BY FS_Subset, FS_CardinalityType
  <2>1. CASE T = {}
    BY <2>1, SumOfNothing, FS_EmptySet
  <2>2. CASE T # {}
    <3>1. PICK x \in T : TRUE
      BY <2>2
    <3>2. f[x] \in Int /\ f[x] <= c
      OBVIOUS
    <3>3. Sum(f, T) = f[x] + Sum(f, T \ {x}) /\ Sum(f, T \ {x}) \in Int
      BY <2>0, SumRemove
    <3>4. Sum(f, T \ {x}) <= c * Cardinality(T \ {x})
      BY <1>1
    <3>5. Cardinality(T \ {x}) = Cardinality(T) - 1
      BY <2>0, FS_RemoveElement
    <3>6. \A a \in Int : c * (a - 1) = c * a - c /\ c * a \in Int
      OBVIOUS
    <3>7. Sum(f, T) <= c * Cardinality(T)
      BY <2>0, <3>2, <3>3, <3>4, <3>5, <3>6
    <3> QED BY <3>7
  <2> QED BY <2>1, <2>2
<1> HIDE DEF Q
<1>2. \A T \in SUBSET S : T \in Q
  BY <1>1, AllSubsets
<1>3. S \in Q
  BY <1>2
<1> QED BY <1>3 DEF Q

\* The sum of a constant.
LEMMA SumConstant ==
  ASSUME NEW S, IsFiniteSet(S), NEW c \in Int, NEW f, \A x \in S : f[x] = c
  PROVE  Sum(f, S) = c * Cardinality(S)
<1> DEFINE g == [x \in S |-> - c]
<1>1. Sum(f, S) \in Int /\ Cardinality(S) \in Nat
  BY SumRemove, FS_CardinalityType
<1>2. Sum(f, S) <= c * Cardinality(S)
  BY SumAtMost
<1>3. Sum(g, S) <= (- c) * Cardinality(S)
  <2>1. - c \in Int /\ \A x \in S : g[x] \in Int /\ g[x] <= - c
    OBVIOUS
  <2> HIDE DEF g
  <2> QED BY <2>1, SumAtMost
<1>4. Sum(g, S) = (-1) * Sum(f, S)
  <2>1. \A x \in S : f[x] \in Int /\ g[x] = (-1) * f[x]
    OBVIOUS
  <2> HIDE DEF g
  <2> QED BY <2>1, SumTimes
<1>5. \A n \in Nat : (- c) * n = - (c * n) /\ c * n \in Int
  OBVIOUS
<1> HIDE DEF g
<1> QED BY <1>1, <1>2, <1>3, <1>4, <1>5

\* A sum of naturals is one, and no less than any of them.
LEMMA SumOfNaturals ==
  ASSUME NEW S, IsFiniteSet(S), NEW f, \A x \in S : f[x] \in Nat
  PROVE  Sum(f, S) \in Nat /\ \A x \in S : f[x] <= Sum(f, S)
<1> DEFINE Q == {T \in SUBSET S : Sum(f, T) \in Nat}
<1>1. ASSUME NEW T \in SUBSET S, \A x \in T : T \ {x} \in Q PROVE T \in Q
  <2>1. CASE T = {}
    BY <2>1, SumOfNothing, FS_EmptySet
  <2>2. CASE T # {}
    <3>1. PICK x \in T : TRUE
      BY <2>2
    <3>2. Sum(f, T) = f[x] + Sum(f, T \ {x})
      <4>1. IsFiniteSet(T)
        BY FS_Subset
      <4>2. \A y \in T : f[y] \in Int
        OBVIOUS
      <4> QED BY ONLY <4>1, <4>2, SumRemove
    <3> QED BY <1>1, <3>2
  <2> QED BY <2>1, <2>2
<1> HIDE DEF Q
<1>2. \A T \in SUBSET S : T \in Q
  BY <1>1, AllSubsets
<1>3. ASSUME NEW T \in SUBSET S PROVE Sum(f, T) \in Nat
  BY <1>2 DEF Q
<1>4. ASSUME NEW x \in S PROVE f[x] <= Sum(f, S)
  <2>1. Sum(f, S) = f[x] + Sum(f, S \ {x})
    BY SumRemove
  <2>2. Sum(f, S \ {x}) \in Nat
    BY <1>3
  <2> QED BY <2>1, <2>2
<1> QED BY <1>3, <1>4

-----------------------------------------------------------------------------
(* Joined sequences                                                            *)

\* An entry of a sequence is in the set the sequence is over.
LEMMA EntryOfSeq ==
  ASSUME NEW S, NEW s \in Seq(S), NEW j \in DOMAIN s
  PROVE  s[j] \in S
OBVIOUS

\* The recursion by which FlattenSeq joins sequences.
Joins(g, c, n) == g = [i \in 1 .. n |-> IF i = 1 THEN c[i] ELSE g[i - 1] \o c[i]]

LEMMA FlattenIsJoin ==
  ASSUME NEW n \in Nat \ {0}, NEW c, Len(c) = n
  PROVE  \E g : Joins(g, c, n) /\ FlattenSeq(c) = g[n]
<1> DEFINE N == {m \in Nat : \E g : Joins(g, c, m)}
<1>1. 0 \in N
  <2> DEFINE g == [i \in 1 .. 0 |-> 0]
  <2>1. Joins(g, c, 0)
    BY DEF Joins
  <2> QED BY <2>1
<1>2. ASSUME NEW m \in N PROVE m + 1 \in N
  <2>1. PICK g : Joins(g, c, m)
    OBVIOUS
  <2> DEFINE h == [i \in 1 .. m + 1 |-> IF i = 1 THEN c[i] ELSE g[i - 1] \o c[i]]
  <2>2. \A i \in 1 .. m : g[i] = h[i]
    <3>1. \A i \in 1 .. m : g[i] = IF i = 1 THEN c[i] ELSE g[i - 1] \o c[i]
      BY <2>1 DEF Joins
    <3>2. \A i \in 1 .. m : i \in 1 .. m + 1
      OBVIOUS
    <3> QED BY <3>1, <3>2
  <2>3. \A i \in 1 .. m + 1 : h[i] = IF i = 1 THEN c[i] ELSE h[i - 1] \o c[i]
    <3>1. \A i \in 1 .. m + 1 : i # 1 => i - 1 \in 1 .. m
      OBVIOUS
    <3>2. \A i \in 1 .. m + 1 : h[i] = IF i = 1 THEN c[i] ELSE g[i - 1] \o c[i]
      OBVIOUS
    <3> HIDE DEF h
    <3> QED BY <2>2, <3>1, <3>2
  <2>4. h = [i \in 1 .. m + 1 |-> h[i]]
    OBVIOUS
  <2> HIDE DEF h
  <2>5. Joins(h, c, m + 1)
    BY <2>3, <2>4 DEF Joins
  <2>6. m + 1 \in Nat
    OBVIOUS
  <2> QED BY <2>5, <2>6
<1>3. N = Nat
  <2>1. N \in SUBSET Nat
    OBVIOUS
  <2> HIDE DEF N
  <2> QED BY <1>1, <1>2, <2>1, AllNumbers
<1>4. \E g : Joins(g, c, n)
  BY <1>3
<1> DEFINE f == CHOOSE g : Joins(g, c, n)
<1>5. Joins(f, c, n)
  BY <1>4, Zenon
<1>6. FlattenSeq(c) = f[n]
  BY DEF FlattenSeq, Joins
<1> HIDE DEF f
<1> QED BY <1>5, <1>6, Zenon

LEMMA ElementsOfJoin ==
  ASSUME NEW T, NEW u \in Seq(T), NEW v \in Seq(T)
  PROVE  /\ u \o v \in Seq(T) /\ Len(u \o v) = Len(u) + Len(v)
         /\ \A x \in 1 .. Len(u) + Len(v) :
              (u \o v)[x] = IF x <= Len(u) THEN u[x] ELSE v[x - Len(u)]
OBVIOUS

\* c is a sequence of n sequences over T, and off[i] the length of the first i together.
Offsets(off, c, n, T) ==
  /\ Len(c) = n /\ \A i \in 1 .. n : c[i] \in Seq(T)
  /\ \A i \in 0 .. n : off[i] \in Nat
  /\ off[0] = 0 /\ \A i \in 1 .. n : off[i] = off[i - 1] + Len(c[i])

\* s has the entries of c[i] from off[i - 1] on.
EntriesAt(s, off, c, n, T) ==
  /\ s \in Seq(T) /\ Len(s) = off[n]
  /\ \A i \in 1 .. n : \A j \in 1 .. Len(c[i]) : s[off[i - 1] + j] = c[i][j]

\* Where the entries of sequences are when these are joined.
LEMMA EntriesOfFlatten ==
  ASSUME NEW n \in Nat \ {0}, NEW T, NEW c, NEW off, Offsets(off, c, n, T)
  PROVE  EntriesAt(FlattenSeq(c), off, c, n, T)
<1>0. /\ Len(c) = n /\ \A i \in 1 .. n : c[i] \in Seq(T)
      /\ \A i \in 0 .. n : off[i] \in Nat
      /\ off[0] = 0 /\ \A i \in 1 .. n : off[i] = off[i - 1] + Len(c[i])
  BY DEF Offsets
<1>1. PICK g : Joins(g, c, n) /\ FlattenSeq(c) = g[n]
  BY <1>0, FlattenIsJoin
<1>2. \A i \in 1 .. n : g[i] = IF i = 1 THEN c[i] ELSE g[i - 1] \o c[i]
  BY <1>1 DEF Joins
<1>3. \A i \in 1 .. n : c[i] \in Seq(T) /\ Len(c[i]) \in Nat
  BY <1>0
<1> DEFINE P(i) == /\ g[i] \in Seq(T) /\ Len(g[i]) = off[i]
                   /\ \A k \in 1 .. i : /\ off[k - 1] + Len(c[k]) <= off[i]
                                        /\ \A j \in 1 .. Len(c[k]) : g[i][off[k - 1] + j] = c[k][j]
           N == {i \in Nat : i < n => P(i + 1)}
<1>4. P(1)
  <2>1. 1 \in 1 .. n /\ 1 - 1 = 0
    OBVIOUS
  <2>2. g[1] = c[1] /\ off[1] = Len(c[1])
    BY <1>0, <1>2, <1>3, <2>1
  <2>3. ASSUME NEW k \in 1 .. 1
        PROVE  /\ off[k - 1] + Len(c[k]) <= off[1]
               /\ \A j \in 1 .. Len(c[k]) : g[1][off[k - 1] + j] = c[k][j]
    <3>1. k = 1 /\ off[k - 1] = 0
      BY <1>0, <2>1
    <3>2. \A j \in 1 .. Len(c[1]) : 0 + j = j
      BY <1>3, <2>1
    <3> QED BY <1>3, <2>1, <2>2, <3>1, <3>2
  <2>4. g[1] \in Seq(T) /\ Len(g[1]) = off[1]
    BY <1>0, <1>3, <2>1, <2>2
  <2> QED BY ONLY <2>3, <2>4, Zenon DEF P
<1>5. ASSUME NEW i \in Nat \ {0}, NEW l \in Nat, l = i + 1, l <= n, P(i)
      PROVE  P(l)
  <2> DEFINE u == g[i]
             v == c[l]
  <2>1. l \in 1 .. n /\ l # 1 /\ l - 1 = i /\ i \in 1 .. n /\ i \in 0 .. n /\ l \in 0 .. n
    BY <1>5
  <2>2. u \in Seq(T) /\ Len(u) = off[i] /\ off[i] \in Nat
    BY <1>0, <1>5, <2>1
  <2>3. v \in Seq(T) /\ Len(v) \in Nat
    BY <1>3, <2>1
  <2>4. g[l] = u \o v
    BY <1>2, <2>1
  <2>5. off[l] = off[i] + Len(v)
    BY <1>0, <2>1
  <2>6. \A k \in 1 .. i : /\ off[k - 1] + Len(c[k]) <= off[i]
                          /\ \A j \in 1 .. Len(c[k]) : u[off[k - 1] + j] = c[k][j]
    BY <1>5
  <2> HIDE DEF P, N
  <2>7. \A j : v[j] = c[l][j]
    OBVIOUS
  <2>8. Len(v) = Len(c[l])
    OBVIOUS
  <2> HIDE DEF u, v
  <2>9. /\ u \o v \in Seq(T) /\ Len(u \o v) = Len(u) + Len(v)
        /\ \A x \in 1 .. Len(u) + Len(v) : (u \o v)[x] = IF x <= Len(u) THEN u[x] ELSE v[x - Len(u)]
    BY ONLY <2>2, <2>3, ElementsOfJoin
  <2>10. g[l] \in Seq(T) /\ Len(g[l]) = off[l]
    BY ONLY <2>2, <2>4, <2>5, <2>9
  <2>11. ASSUME NEW k \in 1 .. l
         PROVE  /\ off[k - 1] + Len(c[k]) <= off[l]
                /\ \A j \in 1 .. Len(c[k]) : g[l][off[k - 1] + j] = c[k][j]
    <3>1. k \in 1 .. n /\ k - 1 \in 0 .. n /\ off[k - 1] \in Nat /\ Len(c[k]) \in Nat
      <4>1. k \in 1 .. n /\ k - 1 \in 0 .. n
        BY <2>1
      <4> QED BY <1>0, <1>3, <4>1
    <3>2. CASE k = l
      <4>1. off[k - 1] + Len(c[k]) = off[l]
        BY <2>1, <2>5, <2>8, <3>2
      <4>2. ASSUME NEW j \in 1 .. Len(c[k]) PROVE g[l][off[k - 1] + j] = c[k][j]
        <5> DEFINE x == off[i] + j
        <5>1. j \in 1 .. Len(v)
          BY <2>8, <3>2
        <5>2. x \in 1 .. Len(u) + Len(v) /\ ~ (x <= Len(u)) /\ x - Len(u) = j
          <6>1. Len(u) = off[i] /\ off[i] \in Nat /\ Len(v) \in Nat
            BY <2>2, <2>3
          <6> QED BY ONLY <5>1, <6>1 DEF x
        <5>3. off[k - 1] + j = x
          BY <2>1, <3>2
        <5> HIDE DEF x
        <5>4. (u \o v)[x] = v[j]
          BY ONLY <2>9, <5>2
        <5> QED BY ONLY <2>4, <2>7, <3>2, <5>3, <5>4
      <4> QED BY <3>1, <4>1, <4>2
    <3>3. CASE k # l
      <4>1. k \in 1 .. i
        BY <2>1, <3>3
      <4>2. off[k - 1] + Len(c[k]) <= off[i]
        BY <2>6, <4>1
      <4>3. off[k - 1] + Len(c[k]) <= off[l]
        BY ONLY <2>2, <2>3, <2>5, <3>1, <4>2
      <4>4. ASSUME NEW j \in 1 .. Len(c[k]) PROVE g[l][off[k - 1] + j] = c[k][j]
        <5> DEFINE x == off[k - 1] + j
        <5>1. x \in 1 .. Len(u) + Len(v) /\ x <= Len(u)
          <6>1. Len(u) = off[i] /\ off[i] \in Nat /\ Len(v) \in Nat
            BY <2>2, <2>3
          <6>2. off[k - 1] \in Nat /\ Len(c[k]) \in Nat
            BY <3>1
          <6>3. \A a, b, d, e \in Nat : \A y \in 1 .. b :
                  a + b <= d => a + y \in 1 .. d + e /\ a + y <= d
            OBVIOUS
          <6>4. \A y \in 1 .. Len(c[k]) :
                  off[k - 1] + y \in 1 .. off[i] + Len(v) /\ off[k - 1] + y <= off[i]
            BY ONLY <4>2, <6>1, <6>2, <6>3
          <6> QED BY ONLY <6>1, <6>4, j \in 1 .. Len(c[k]) DEF x
        <5>2. u[x] = c[k][j]
          BY <2>6, <4>1
        <5> HIDE DEF x
        <5>3. (u \o v)[x] = u[x]
          BY ONLY <2>9, <5>1
        <5>4. g[l][x] = c[k][j]
          BY ONLY <2>4, <5>2, <5>3
        <5> QED BY <5>4 DEF x
      <4> QED BY <4>3, <4>4
    <3> QED BY <3>2, <3>3
  <2> QED BY ONLY <2>10, <2>11, Zenon DEF P
<1> HIDE DEF P
<1>6. N = Nat
  <2>1. N \in SUBSET Nat
    OBVIOUS
  <2>2. 0 \in N
    <3>1. 0 + 1 = 1
      OBVIOUS
    <3> QED BY <1>4, <3>1
  <2>3. ASSUME NEW i \in N PROVE i + 1 \in N
    <3>1. i \in Nat /\ i + 1 \in Nat \ {0} /\ (i + 1) + 1 \in Nat /\ (i < n => P(i + 1))
      OBVIOUS
    <3>2. i + 1 < n => i < n /\ (i + 1) + 1 <= n
      BY <3>1
    <3>3. i + 1 < n => P((i + 1) + 1)
      BY <1>5, <3>1, <3>2
    <3> QED BY <3>1, <3>3
  <2> HIDE DEF N
  <2> QED BY <2>1, <2>2, <2>3, AllNumbers
<1>7. P(n)
  <2>1. n - 1 \in Nat /\ n - 1 < n /\ (n - 1) + 1 = n
    OBVIOUS
  <2>2. \A i \in Nat : i < n => P(i + 1)
    BY <1>6
  <2> QED BY <2>1, <2>2
<1>8. EntriesAt(g[n], off, c, n, T)
  BY <1>7 DEF P, EntriesAt
<1> QED BY ONLY <1>1, <1>8

-----------------------------------------------------------------------------
(* Quotients                                                                   *)

\* Quotient and remainder of a number that is given by them.
LEMMA QuotientAndRemainder ==
  ASSUME NEW a \in Nat \ {0}, NEW q \in Nat, NEW s \in 0 .. a - 1, NEW r, r = a * q + s
  PROVE  r \div a = q /\ (r % a) = s
<1> DEFINE p == r \div a
           t == (r % a)
<1>1. r \in Nat /\ p \in Nat /\ t \in 0 .. a - 1 /\ r = a * p + t
  OBVIOUS
<1> HIDE DEF p, t
<1>2. ASSUME NEW x \in Nat, NEW y \in Nat, NEW u \in 0 .. a - 1, NEW v \in 0 .. a - 1, x < y
      PROVE  a * x + u # a * y + v
  <2>1. x + 1 \in Nat /\ x + 1 <= y
    BY ONLY x \in Nat, y \in Nat, x < y
  <2>2. a * (x + 1) <= a * y
    BY <2>1
  <2>3. a * (x + 1) = a * x + a
    OBVIOUS
  <2>4. a * x \in Nat /\ a * y \in Nat
    OBVIOUS
  <2> QED BY ONLY <2>2, <2>3, <2>4, a \in Nat \ {0}, u \in 0 .. a - 1, v \in 0 .. a - 1
<1>3. p = q
  <2>1. a * p + t = a * q + s
    BY <1>1
  <2>2. ~ (p < q)
    BY <1>1, <1>2, <2>1
  <2>3. ~ (q < p)
    BY <1>1, <1>2, <2>1
  <2> QED BY ONLY <1>1, <2>2, <2>3, q \in Nat
<1>4. t = s
  <2>1. a * q \in Nat /\ a * q + t = a * q + s
    BY <1>1, <1>3
  <2> QED BY ONLY <1>1, <2>1, s \in 0 .. a - 1, a \in Nat \ {0}
<1> QED BY <1>3, <1>4 DEF p, t

\* A number below a * b has a quotient by b below a.
LEMMA GroupInRange ==
  ASSUME NEW a \in Nat \ {0}, NEW b \in Nat \ {0}, NEW r \in 0 .. a * b - 1
  PROVE  r \div b \in 0 .. a - 1 /\ r % b \in Nat /\ r = b * (r \div b) + (r % b)
<1> DEFINE q == r \div b
<1>0. r \in Nat /\ a * b \in Nat /\ r < a * b
  <2>1. a * b \in Nat
    OBVIOUS
  <2> QED BY <2>1
<1>1. q \in Nat /\ r % b \in 0 .. b - 1
  BY <1>0
<1>2. r = b * q + (r % b)
  BY <1>0
<1> HIDE DEF q
<1>3. ~ (q >= a)
  <2> SUFFICES ASSUME q >= a PROVE FALSE
    OBVIOUS
  <2>1. PICK d \in Nat : q = a + d
    <3>1. q - a \in Nat /\ q = a + (q - a)
      BY <1>1
    <3> QED BY <3>1
  <2>2. b * q = b * a + b * d
    BY <1>1, <2>1
  <2>3. b * d \in Nat /\ b * a = a * b
    OBVIOUS
  <2>4. b * q \in Nat /\ b * q >= a * b
    BY <1>0, <2>2, <2>3
  <2>5. r >= b * q
    BY <1>0, <1>1, <1>2, <2>4
  <2> QED BY <1>0, <2>4, <2>5
<1> QED BY <1>1, <1>2, <1>3 DEF q

\* Dividing twice is dividing by the product.
LEMMA QuotientOfQuotient ==
  ASSUME NEW a \in Nat \ {0}, NEW b \in Nat \ {0}, NEW r \in Nat
  PROVE  (r \div a) \div b = r \div (a * b)
<1> DEFINE u == r \div a
           v == (r % a)
           p == u \div b
           s == (u % b)
<1>1. u \in Nat /\ v \in 0 .. a - 1 /\ r = a * u + v
  OBVIOUS
<1>2. p \in Nat /\ s \in 0 .. b - 1 /\ u = b * p + s
  <2> HIDE DEF u
  <2> QED BY <1>1
<1> HIDE DEF u, v, p, s
<1> DEFINE w == a * b
           x == a * s + v
<1>3. w \in Nat \ {0}
  OBVIOUS
<1>4. x \in 0 .. w - 1
  <2>1. a * s <= a * (b - 1) /\ a * (b - 1) = w - a /\ a * s \in Nat
    BY <1>2
  <2> QED BY <1>1, <1>3, <2>1
<1>5. r = w * p + x
  <2> DEFINE t == b * p
             y == a * t
             z == a * s
  <2>1. t \in Nat /\ u = t + s
    BY <1>2
  <2>2. w * p = y
    BY <1>2
  <2> HIDE DEF t
  <2>3. a * u = y + z /\ y \in Nat /\ z \in Nat
    BY <1>2, <2>1
  <2> QED BY <1>1, <2>2, <2>3
<1> HIDE DEF w, x
<1>6. r \div w = p
  BY <1>2, <1>3, <1>4, <1>5, QuotientAndRemainder
<1> QED BY <1>6 DEF w, p, u

-----------------------------------------------------------------------------
(* Numbers                                                                     *)

LEMMA OneTo ==
  ASSUME NEW n \in Nat
  PROVE  IsFiniteSet(1 .. n) /\ Cardinality(1 .. n) = n
BY FS_Interval

\* A set of numbers up to d, if not empty, has a largest one, which Max returns.
LEMMA LargestOf ==
  ASSUME NEW d \in Nat, NEW S \in SUBSET (0 .. d), S # {}
  PROVE  Max(S) \in S /\ \A y \in S : Max(S) >= y
<1> DEFINE Q == {T \in SUBSET S : T # {} => \E x \in T : \A y \in T : x >= y}
<1>1. IsFiniteSet(S)
  <2>1. IsFiniteSet(0 .. d)
    BY FS_Interval, 0 \in Int, d \in Int
  <2> QED BY <2>1, FS_Subset
<1>2. ASSUME NEW T \in SUBSET S, \A x \in T : T \ {x} \in Q PROVE T \in Q
  <2> SUFFICES ASSUME NEW a \in T PROVE \E x \in T : \A y \in T : x >= y
    OBVIOUS
  <2>0. T \ {a} \in Q /\ a \in 0 .. d
    BY <1>2
  <2>1. CASE T \ {a} = {}
    <3>1. \A y \in T : a >= y
      BY <2>0, <2>1
    <3> QED BY <3>1
  <2>2. CASE T \ {a} # {}
    <3>1. PICK z \in T \ {a} : \A y \in T \ {a} : z >= y
      BY <2>0, <2>2
    <3>2. \A y \in T : y \in Nat
      OBVIOUS
    <3>3. CASE z >= a
      BY <3>1, <3>3
    <3>4. CASE a > z
      <4>1. \A y \in T : a >= y
        BY <3>1, <3>2, <3>4
      <4> QED BY <4>1
    <3> QED BY <3>2, <3>3, <3>4
  <2> QED BY <2>1, <2>2
<1>3. S \in Q
  <2> HIDE DEF Q
  <2>1. \A T \in SUBSET S : T \in Q
    BY <1>1, <1>2, AllSubsets
  <2> QED BY <2>1
<1>4. \E x \in S : \A y \in S : x >= y
  BY <1>3
<1> QED BY <1>4 DEF Max
================================================================================
