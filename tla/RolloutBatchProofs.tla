--------------------------- MODULE RolloutBatchProofs ---------------------------
(***************************************************************************)
(* Proofs about RolloutBatch, for any number of prompts, any budgets and   *)
(* lengths and any settings that its assumption admits: the rows stay      *)
(* together, every rollout is in the batch once, the batch gets through,   *)
(* and every prompt counts once.  The last section is about PrimeReward,   *)
(* inside one of the calls of the reward manager.                          *)
(*                                                                         *)
(* First come sums, divisions and joined sequences; then what each step    *)
(* makes of the rows, as lemmas about the operators of the model; then the *)
(* inductive invariant IInv, one lemma per action, and the theorems.       *)
(* IInv says where every row comes from: the batch is a bijection between  *)
(* its places and the responses wanted (IsBatch), whatever its order, and  *)
(* each list beside it (reward, outputs) is in the batch's order.          *)
(***************************************************************************)
EXTENDS RolloutBatch, PrimeReward, FoldTheorems, FunctionTheorems

-----------------------------------------------------------------------------
(* Numbers                                                                     *)

LEMMA SizeOfInterval ==
  ASSUME NEW a \in Nat, NEW b \in Nat, a <= b
  PROVE  IsFiniteSet(a + 1 .. b) /\ Cardinality(a + 1 .. b) = b - a
<1>1. a + 1 \in Int /\ b \in Int
  OBVIOUS
<1>2. IsFiniteSet(a + 1 .. b) /\ Cardinality(a + 1 .. b) = IF a + 1 > b THEN 0 ELSE b - (a + 1) + 1
  BY <1>1, FS_Interval
<1> QED BY <1>2

\* A sequence without repetitions, as long as there are numbers up to n, has each.
LEMMA EveryOneArrives ==
  ASSUME NEW n \in Nat, NEW s \in Seq(1 .. n), IsInjective(s), Len(s) = n, NEW r \in 1 .. n
  PROVE  Contains(s, r)
<1>1. s \in [1 .. n -> 1 .. n]
  OBVIOUS
<1>2. s \in Injection(1 .. n, 1 .. n)
  BY <1>1 DEF Injection
<1>3. s \in Surjection(1 .. n, 1 .. n)
  BY <1>2, OneTo, FS_Injection
<1>4. \E i \in 1 .. n : s[i] = r
  BY <1>3 DEF Surjection
<1> QED BY <1>4 DEF Contains

\* One more arrives.
LEMMA OneMoreArrives ==
  ASSUME NEW n \in Nat, NEW s \in Seq(1 .. n), IsInjective(s), NEW r \in 1 .. n, ~ Contains(s, r)
  PROVE  /\ Append(s, r) \in Seq(1 .. n) /\ IsInjective(Append(s, r))
         /\ \A q : Contains(Append(s, r), q) <=> Contains(s, q) \/ q = r
<1>1. /\ Append(s, r) \in Seq(1 .. n) /\ Len(s) \in Nat /\ Len(Append(s, r)) = Len(s) + 1
      /\ \A i \in 1 .. Len(s) : Append(s, r)[i] = s[i]
      /\ Append(s, r)[Len(s) + 1] = r
  OBVIOUS
<1>2. \A i \in 1 .. Len(s) : s[i] # r
  BY DEF Contains
<1>3. IsInjective(Append(s, r))
  <2> SUFFICES ASSUME NEW i \in 1 .. Len(s) + 1, NEW j \in 1 .. Len(s) + 1,
                      Append(s, r)[i] = Append(s, r)[j]
               PROVE  i = j
    BY <1>1 DEF IsInjective
  <2>1. \A x \in 1 .. Len(s), y \in 1 .. Len(s) : s[x] = s[y] => x = y
    BY DEF IsInjective
  <2> QED BY <1>1, <1>2, <2>1
<1>4. \A q : Contains(Append(s, r), q) <=> Contains(s, q) \/ q = r
  BY <1>1 DEF Contains
<1> QED BY <1>1, <1>3, <1>4

-----------------------------------------------------------------------------
(* Places in joined sequences                                                  *)

LEMMA OffsetsGrow ==
  ASSUME NEW n \in Nat, NEW off, \A i \in 0 .. n : off[i] \in Nat,
         \A i \in 1 .. n : off[i - 1] <= off[i],
         NEW k \in 0 .. n, NEW i \in 0 .. k
  PROVE  off[i] <= off[k]
<1> DEFINE M == {m \in Nat : i + m <= n => off[i] <= off[i + m]}
<1>1. 0 \in M
  OBVIOUS
<1>2. ASSUME NEW m \in M PROVE m + 1 \in M
  <2>1. m \in Nat /\ m + 1 \in Nat /\ i + (m + 1) = (i + m) + 1 /\ i \in Nat
    OBVIOUS
  <2>2. CASE i + (m + 1) <= n
    <3>1. i + m \in 0 .. n /\ (i + m) + 1 \in 1 .. n /\ (i + m) + 1 \in 0 .. n
          /\ ((i + m) + 1) - 1 = i + m /\ i \in 0 .. n
      BY <2>1, <2>2
    <3>2. off[i] <= off[i + m] /\ off[i + m] <= off[(i + m) + 1]
      BY <2>1, <2>2, <3>1
    <3> QED BY <2>1, <3>1, <3>2
  <2> QED BY <2>1, <2>2
<1> HIDE DEF M
<1>3. M = Nat
  <2>1. M \in SUBSET Nat
    BY DEF M
  <2> QED BY <1>1, <1>2, <2>1, AllNumbers
<1>4. k - i \in M /\ i + (k - i) = k /\ k <= n
  BY <1>3
<1> QED BY <1>4 DEF M

\* Every place up to the last offset is in one of the parts.
LEMMA PlaceInPart ==
  ASSUME NEW n \in Nat, NEW off, \A i \in 0 .. n : off[i] \in Nat, off[0] = 0,
         NEW x \in 1 .. off[n]
  PROVE  \E i \in 1 .. n : off[i - 1] < x /\ x <= off[i]
<1> DEFINE M == {m \in Nat : m <= n /\ x <= off[m] => \E i \in 1 .. m : off[i - 1] < x /\ x <= off[i]}
<1>1. 0 \in M
  OBVIOUS
<1>2. ASSUME NEW m \in M PROVE m + 1 \in M
  <2>1. m \in Nat /\ m + 1 \in Nat
    OBVIOUS
  <2>2. CASE m + 1 <= n /\ x <= off[m + 1]
    <3>1. m \in 0 .. n /\ off[m] \in Nat /\ x \in Nat /\ (m + 1) - 1 = m /\ m + 1 \in 1 .. m + 1
      BY <2>1, <2>2
    <3>2. CASE x <= off[m]
      <4>1. PICK i \in 1 .. m : off[i - 1] < x /\ x <= off[i]
        BY <2>2, <3>1, <3>2
      <4>2. i \in 1 .. m + 1
        BY <2>1
      <4> QED BY <2>1, <4>1, <4>2
    <3>3. CASE off[m] < x
      <4>1. \E i \in 1 .. m + 1 : off[i - 1] < x /\ x <= off[i]
        BY <2>2, <3>1, <3>3
      <4> QED BY <2>1, <4>1
    <3> QED BY <3>1, <3>2, <3>3
  <2> QED BY <2>1, <2>2
<1> HIDE DEF M
<1>3. M = Nat
  <2>1. M \in SUBSET Nat
    BY DEF M
  <2> QED BY <1>1, <1>2, <2>1, AllNumbers
<1>4. n \in M
  BY <1>3
<1> QED BY <1>4 DEF M

-----------------------------------------------------------------------------
(* The order of partitions                                                     *)

Before(part, i) == {j \in DOMAIN part : part[j] < part[i] \/ (part[j] = part[i] /\ j < i)}

LEMMA BeforeType ==
  ASSUME NEW n \in Nat, NEW part \in [1 .. n -> Nat], NEW i \in 1 .. n
  PROVE  IsFiniteSet(Before(part, i)) /\ Cardinality(Before(part, i)) \in 0 .. n - 1
<1>1. Before(part, i) \in SUBSET (1 .. n \ {i})
  BY DEF Before
<1>2. IsFiniteSet(1 .. n \ {i}) /\ Cardinality(1 .. n \ {i}) = n - 1
  BY OneTo, FS_RemoveElement
<1> QED BY <1>1, <1>2, FS_Subset, FS_CardinalityType

LEMMA BeforeGrows ==
  ASSUME NEW n \in Nat, NEW part \in [1 .. n -> Nat], NEW i \in 1 .. n, NEW j \in Before(part, i)
  PROVE  Cardinality(Before(part, j)) < Cardinality(Before(part, i))
<1>1. j \in 1 .. n
  BY DEF Before
<1>2. Before(part, j) \in SUBSET Before(part, i)
  BY <1>1 DEF Before
<1>3. j \in Before(part, i) /\ j \notin Before(part, j)
  BY <1>1 DEF Before
<1>4. /\ IsFiniteSet(Before(part, i)) /\ Cardinality(Before(part, i)) \in Nat
      /\ Cardinality(Before(part, j)) \in Nat
  BY <1>1, BeforeType
<1>5. /\ Cardinality(Before(part, j)) <= Cardinality(Before(part, i))
      /\ Cardinality(Before(part, j)) # Cardinality(Before(part, i))
  BY <1>2, <1>3, <1>4, FS_Subset
<1> QED BY <1>4, <1>5

LEMMA ListedAt ==
  ASSUME NEW n \in Nat, NEW part \in [1 .. n -> Nat], NEW k \in 1 .. n
  PROVE  Listed(part)[k] \in 1 .. n /\ Cardinality(Before(part, Listed(part)[k])) = k - 1
<1> DEFINE f == [i \in 1 .. n |-> Cardinality(Before(part, i)) + 1]
<1>1. f \in [1 .. n -> 1 .. n]
  BY BeforeType
<1>2. ASSUME NEW i \in 1 .. n, NEW j \in 1 .. n, f[i] = f[j]
      PROVE  i = j
  <2>1. i \in Before(part, j) \/ j \in Before(part, i) \/ i = j
    BY DEF Before
  <2>2. Cardinality(Before(part, i)) \in Nat /\ Cardinality(Before(part, j)) \in Nat
    BY BeforeType
  <2>3. Cardinality(Before(part, i)) = Cardinality(Before(part, j))
    BY <1>2, <2>2
  <2> QED BY <2>1, <2>2, <2>3, BeforeGrows
<1>3. f \in Injection(1 .. n, 1 .. n)
  BY <1>1, <1>2 DEF Injection, IsInjective
<1>4. f \in Surjection(1 .. n, 1 .. n)
  BY <1>3, OneTo, FS_Injection
<1>5. PICK i \in 1 .. n : f[i] = k
  BY <1>4 DEF Surjection
<1>6. Cardinality(Before(part, i)) = k - 1
  <2>1. Cardinality(Before(part, i)) \in Nat
    BY BeforeType
  <2> QED BY <1>5, <2>1
<1>7. Listed(part)[k] = CHOOSE j \in 1 .. n : Cardinality(Before(part, j)) = k - 1
  BY DEF Listed, Before
<1> QED BY <1>6, <1>7

\* What Listed lists is every item once.
LEMMA ListedOnce ==
  ASSUME NEW n \in Nat, NEW part \in [1 .. n -> Nat]
  PROVE  Listed(part) \in Bijection(1 .. n, 1 .. n)
<1> DEFINE s == Listed(part)
<1>1. DOMAIN s = 1 .. n /\ s = [k \in 1 .. n |-> s[k]]
  <2> DEFINE e(k) == CHOOSE i \in DOMAIN part : Cardinality(Before(part, i)) = k - 1
  <2>1. Listed(part) = [k \in DOMAIN part |-> e(k)]
    BY DEF Listed, Before
  <2> HIDE DEF e
  <2> QED BY <2>1
<1>2. \A k \in 1 .. n : Listed(part)[k] \in 1 .. n /\ Cardinality(Before(part, Listed(part)[k])) = k - 1
  <2> HIDE DEF s
  <2> QED BY ListedAt
<1> HIDE DEF s
<1>3. s \in [1 .. n -> 1 .. n] /\ IsInjective(s)
  <2>0. \A k \in 1 .. n : s[k] \in 1 .. n /\ Cardinality(Before(part, s[k])) = k - 1
    BY <1>2 DEF s
  <2>1. s \in [1 .. n -> 1 .. n]
    BY <1>1, <2>0
  <2>2. \A k, l \in 1 .. n : s[k] = s[l] => k = l
    BY <2>0
  <2> QED BY <1>1, <2>1, <2>2 DEF IsInjective
<1>4. s \in Injection(1 .. n, 1 .. n)
  BY <1>3 DEF Injection
<1>5. s \in Surjection(1 .. n, 1 .. n)
  BY <1>4, OneTo, FS_Injection
<1> QED BY <1>4, <1>5 DEF s, Bijection

\* A single partition leaves the items in their order.
LEMMA ListedOfOne ==
  ASSUME NEW n \in Nat, NEW part \in [1 .. n -> 1 .. 1], NEW k \in 1 .. n
  PROVE  Listed(part)[k] = k
<1> DEFINE i == Listed(part)[k]
<1>1. part \in [1 .. n -> Nat]
  OBVIOUS
<1>2. i \in 1 .. n /\ Cardinality(Before(part, i)) = k - 1
  BY <1>1, ListedAt
<1> HIDE DEF i
<1>3. Before(part, i) = 1 .. i - 1
  BY <1>2 DEF Before
<1>4. Cardinality(1 .. i - 1) = i - 1
  BY <1>2, OneTo
<1> QED BY <1>2, <1>3, <1>4 DEF i

\* A set of all numbers up to n is listed in their order.
LEMMA InOrderOfAll ==
  ASSUME NEW n \in Nat, NEW S \in SUBSET (1 .. n), Cardinality(S) = n
  PROVE  S = 1 .. n /\ InOrder(S) = [k \in 1 .. n |-> k]
<1>1. S = 1 .. n
  BY OneTo, FS_Subset
<1>2. ASSUME NEW k \in 1 .. n
      PROVE  (CHOOSE i \in S : Cardinality({j \in S : j < i}) = k - 1) = k
  <2>1. ASSUME NEW i \in 1 .. n PROVE Cardinality({j \in S : j < i}) = i - 1
    <3>1. {j \in S : j < i} = 1 .. i - 1
      BY <1>1
    <3>2. i - 1 \in Nat
      OBVIOUS
    <3> QED BY <3>1, <3>2, OneTo
  <2> QED BY <1>1, <2>1
<1> QED BY <1>1, <1>2 DEF InOrder

-----------------------------------------------------------------------------
(* Sums                                                                        *)

LEMMA TotalIsSum == \A f : Total(f) = Sum(f, DOMAIN f)
BY DEF Total, Sum, SumFunction

LEMMA SumOfOne ==
  ASSUME NEW T, IsFiniteSet(T), NEW a \in T, NEW e, \A t \in T : e[t] = IF t = a THEN 1 ELSE 0
  PROVE  Sum(e, T) = 1
<1>1. \A t \in T : e[t] \in Int
  OBVIOUS
<1>2. Sum(e, T) = e[a] + Sum(e, T \ {a})
  BY <1>1, SumRemove
<1>3. IsFiniteSet(T \ {a}) /\ Cardinality(T \ {a}) \in Nat
  BY FS_Subset, FS_CardinalityType
<1>4. Sum(e, T \ {a}) = 0 * Cardinality(T \ {a})
  <2>1. 0 \in Int /\ \A t \in T \ {a} : e[t] = 0
    OBVIOUS
  <2> DEFINE R == T \ {a}
  <2>2. IsFiniteSet(R) /\ \A t \in R : e[t] = 0
    BY <1>3, <2>1
  <2> HIDE DEF R
  <2>3. Sum(e, R) = 0 * Cardinality(R)
    BY <2>1, <2>2, SumConstant
  <2> QED BY <2>3 DEF R
<1> QED BY <1>2, <1>3, <1>4

\* f[t] is how many elements of S the function g takes to t.
Fibres(f, S, T, g) ==
  /\ \A x \in S : g[x] \in T
  /\ \A t \in T : f[t] = Cardinality({x \in S : g[x] = t})

\* The sizes of the fibres of a function add up to the size of its domain.
LEMMA SumOfFibres ==
  ASSUME NEW S, IsFiniteSet(S), NEW T, IsFiniteSet(T), NEW g, NEW f, Fibres(f, S, T, g)
  PROVE  Sum(f, T) = Cardinality(S)
<1>f. /\ \A x \in S : g[x] \in T
      /\ \A t \in T : f[t] = Cardinality({x \in S : g[x] = t})
  BY DEF Fibres
<1> DEFINE In(R, t) == {x \in R : g[x] = t}
           fibres(R) == [t \in T |-> Cardinality(In(R, t))]
           Q == {R \in SUBSET S : Sum(fibres(R), T) = Cardinality(R)}
<1>1. ASSUME NEW R \in SUBSET S, \A x \in R : R \ {x} \in Q PROVE R \in Q
  <2>0. IsFiniteSet(R)
    BY FS_Subset
  <2>1. CASE R = {}
    <3>1. \A t \in T : fibres(R)[t] = 0
      BY <2>1, FS_EmptySet
    <3>2. 0 \in Int /\ Cardinality(T) \in Nat
      BY FS_CardinalityType
    <3>3. Sum(fibres(R), T) = 0 * Cardinality(T)
      <4> DEFINE h == fibres(R)
      <4>1. \A t \in T : h[t] = 0
        BY <3>1
      <4> HIDE DEF h
      <4>2. Sum(h, T) = 0 * Cardinality(T)
        BY <3>2, <4>1, SumConstant
      <4> QED BY <4>2 DEF h
    <3> QED BY <2>1, <3>2, <3>3, FS_EmptySet
  <2>2. CASE R # {}
    <3>1. PICK x \in R : TRUE
      BY <2>2
    <3> DEFINE U == R \ {x}
               e == [t \in T |-> IF t = g[x] THEN 1 ELSE 0]
               h == fibres(R)
               u == fibres(U)
    <3>2. Sum(u, T) = Cardinality(U) /\ U \in SUBSET S /\ IsFiniteSet(U)
      BY <1>1, <2>0, <3>1, FS_Subset
    <3>3. Cardinality(R) = Cardinality(U) + 1 /\ Cardinality(U) \in Nat
      BY <2>0, <3>1, <3>2, FS_RemoveElement, FS_CardinalityType
    <3>4. ASSUME NEW t \in T PROVE u[t] \in Int /\ e[t] \in Int /\ h[t] = u[t] + e[t]
      <4>1. IsFiniteSet(In(U, t)) /\ Cardinality(In(U, t)) \in Nat
        BY <3>2, FS_Subset, FS_CardinalityType
      <4>2. In(R, t) = IF t = g[x] THEN In(U, t) \cup {x} ELSE In(U, t)
        BY <3>1
      <4>3. x \notin In(U, t)
        OBVIOUS
      <4>4. Cardinality(In(U, t) \cup {x}) = Cardinality(In(U, t)) + 1
        BY <4>1, <4>3, FS_AddElement
      <4>5. Cardinality(In(R, t)) = Cardinality(In(U, t)) + e[t]
        BY <4>1, <4>2, <4>4
      <4>6. e[t] \in Int /\ h[t] = Cardinality(In(R, t)) /\ u[t] = Cardinality(In(U, t))
        OBVIOUS
      <4> HIDE DEF In, e, h, u
      <4> QED BY <4>1, <4>5, <4>6
    <3>5. Sum(e, T) = 1
      <4>1. g[x] \in T /\ \A t \in T : e[t] = IF t = g[x] THEN 1 ELSE 0
        BY <1>f, <3>1
      <4> HIDE DEF e
      <4> QED BY <4>1, SumOfOne
    <3> HIDE DEF e, h, u
    <3>6. Sum(h, T) = Sum(u, T) + Sum(e, T)
      BY <3>4, SumPlus
    <3>7. Sum(h, T) = Cardinality(R)
      BY <3>2, <3>3, <3>5, <3>6
    <3> QED BY <3>7 DEF h
  <2> QED BY <2>1, <2>2
<1> HIDE DEF Q
<1>2. \A R \in SUBSET S : R \in Q
  BY <1>1, AllSubsets
<1>3. Sum(fibres(S), T) = Cardinality(S)
  BY <1>2 DEF Q
<1>4. Sum(f, T) = Sum(fibres(S), T)
  <2> DEFINE h == fibres(S)
  <2>1. \A t \in T : f[t] = h[t]
    BY <1>f
  <2> HIDE DEF h
  <2>2. Sum(f, T) = Sum(h, T)
    BY <2>1, SumSame
  <2> QED BY <2>2 DEF h
<1> QED BY <1>3, <1>4

-----------------------------------------------------------------------------
(* Division                                                                    *)

\* What is missing to a multiple of w brings m to m over w, rounded up, times w.
LEMMA Missing ==
  ASSUME NEW w \in Nat \ {0}, NEW m \in Nat, NEW d, d = ((- m) % w)
  PROVE  d \in 0 .. w - 1 /\ m + d = w * ceildiv(m, w)
<1> DEFINE q == (- m) \div w
<1>1. d \in 0 .. w - 1 /\ q \in Int /\ - m = w * q + d
  OBVIOUS
<1>2. ceildiv(m, w) = - q
  BY DEF ceildiv
<1> HIDE DEF q
<1>3. m + d = w * (- q)
  <2> DEFINE p == w * q
             z == w * (- q)
  <2>1. z = - p /\ p \in Int /\ - m = p + d /\ d \in Int
    BY <1>1
  <2> HIDE DEF p, z
  <2>2. m + d = z
    BY <2>1
  <2> QED BY <2>2 DEF z
<1> QED BY <1>1, <1>2, <1>3

\* A multiple of w in w equal parts.
LEMMA EqualParts ==
  ASSUME NEW w \in Nat \ {0}, NEW m \in Nat, (m % w) = 0
  PROVE  m \div w \in Nat /\ m = w * (m \div w)
<1> DEFINE q == m \div w
<1>1. q \in Nat /\ m = w * q + (m % w)
  OBVIOUS
<1>2. w * q \in Nat
  BY <1>1
<1> QED BY <1>1, <1>2

\* The part r of w parts of d numbers each.
LEMMA PartInRange ==
  ASSUME NEW w \in Nat \ {0}, NEW d \in Nat, NEW r \in 1 .. w
  PROVE  /\ (r - 1) * d \in Nat /\ r * d \in Nat /\ r * d = (r - 1) * d + d
         /\ r * d <= w * d
<1>1. r - 1 \in Nat /\ r * d = (r - 1) * d + d /\ (r - 1) * d \in Nat
  OBVIOUS
<1>2. PICK k \in Nat : w = r + k
  <2>1. w - r \in Nat /\ w = r + (w - r)
    OBVIOUS
  <2> QED BY <2>1
<1>3. w * d = r * d + k * d /\ k * d \in Nat /\ r * d \in Nat
  BY <1>2
<1> QED BY <1>1, <1>3

\* A number up to w * d is in one of w parts of d numbers.
LEMMA PartOfNumber ==
  ASSUME NEW w \in Nat \ {0}, NEW d \in Nat, NEW x \in 1 .. w * d
  PROVE  \E r \in 1 .. w, i \in 1 .. d : x = (r - 1) * d + i
<1>1. d \in Nat \ {0}
  <2>1. d = 0 => w * d = 0
    OBVIOUS
  <2> QED BY <2>1
<1> DEFINE q == (x - 1) \div d
           t == ((x - 1) % d)
<1>2. x - 1 \in 0 .. w * d - 1 /\ x - 1 \in Nat
  <2>1. w * d \in Nat
    OBVIOUS
  <2> QED BY <2>1
<1>3. q \in 0 .. w - 1 /\ x - 1 = d * q + t
  <2> DEFINE y == x - 1
  <2>1. y \in 0 .. w * d - 1
    BY <1>2
  <2> HIDE DEF y
  <2>2. y \div d \in 0 .. w - 1 /\ y % d \in Nat /\ y = d * (y \div d) + (y % d)
    BY <1>1, <2>1, GroupInRange
  <2> QED BY <2>2 DEF y
<1>4. t \in 0 .. d - 1
  BY <1>1, <1>2
<1> HIDE DEF q, t
<1>5. q + 1 \in 1 .. w /\ t + 1 \in 1 .. d /\ (q + 1) - 1 = q /\ d * q = q * d
  BY <1>1, <1>3, <1>4
<1>6. q * d \in Nat
  BY <1>1, <1>3
<1>7. x = ((q + 1) - 1) * d + (t + 1)
  BY <1>1, <1>3, <1>4, <1>5, <1>6
<1> QED BY <1>5, <1>7

-----------------------------------------------------------------------------
(* Chunks, and joining sequences of one length                                 *)

\* s has n sequences of d entries each over T, those of c, one after the other.
EqualJoin(s, c, n, d, T) ==
  /\ s \in Seq(T) /\ Len(s) = n * d
  /\ \A i \in 1 .. n : \A j \in 1 .. d : s[(i - 1) * d + j] = c[i][j]

LEMMA JoinOfEqual ==
  ASSUME NEW n \in Nat \ {0}, NEW d \in Nat, NEW T, NEW c, Len(c) = n,
         \A i \in 1 .. n : c[i] \in Seq(T) /\ Len(c[i]) = d
  PROVE  EqualJoin(FlattenSeq(c), c, n, d, T)
<1> DEFINE off == [i \in 0 .. n |-> i * d]
           s == FlattenSeq(c)
<1>1. \A i \in 0 .. n : off[i] = i * d /\ i * d \in Nat
  OBVIOUS
<1>2. \A i \in 1 .. n : i * d = (i - 1) * d + d
  OBVIOUS
<1>3. Offsets(off, c, n, T)
  <2> HIDE DEF off
  <2>1. off[0] = 0
    <3>1. 0 \in 0 .. n /\ 0 * d = 0
      OBVIOUS
    <3> QED BY <1>1, <3>1
  <2>2. ASSUME NEW i \in 1 .. n PROVE off[i] = off[i - 1] + Len(c[i])
    <3>1. i \in 0 .. n /\ i - 1 \in 0 .. n
      OBVIOUS
    <3> QED BY <1>1, <1>2, <3>1
  <2>3. \A i \in 0 .. n : off[i] \in Nat
    BY <1>1
  <2> QED BY <2>1, <2>2, <2>3 DEF Offsets
<1> HIDE DEF off, s
<1>4. EntriesAt(FlattenSeq(c), off, c, n, T)
  BY <1>3, EntriesOfFlatten
<1>5. /\ s \in Seq(T) /\ Len(s) = off[n]
      /\ \A i \in 1 .. n : \A j \in 1 .. Len(c[i]) : s[off[i - 1] + j] = c[i][j]
  BY <1>4 DEF EntriesAt, s
<1>6. off[n] = n * d /\ \A i \in 1 .. n : off[i - 1] = (i - 1) * d
  <2>1. n \in 0 .. n /\ \A i \in 1 .. n : i - 1 \in 0 .. n
    OBVIOUS
  <2> QED BY <1>1, <2>1
<1>7. ASSUME NEW i \in 1 .. n, NEW j \in 1 .. d PROVE s[(i - 1) * d + j] = c[i][j]
  <2>1. j \in 1 .. Len(c[i])
    OBVIOUS
  <2>2. s[off[i - 1] + j] = c[i][j]
    BY <1>5, <2>1
  <2> QED BY <1>6, <2>2
<1> QED BY <1>5, <1>6, <1>7 DEF EqualJoin, s

\* The configuration of the run is one that the assumption admits.
LEMMA SettingType ==
  config \in Settings =>
    /\ World \in Nat \ {0} /\ Ranks = 1 .. World
    /\ config.n_gpus_per_node \in Nat \ {0} /\ config.nnodes \in Nat \ {0}
    /\ N \in Nat \ {0} /\ Pilots \in Nat
    /\ config.max_budget \in Nat /\ config.max_token_len \in Nat \ {0}
    /\ config.lens \in SUBSET (1 .. config.max_token_len)
    /\ config.balance_batch \in BOOLEAN /\ config.async \in BOOLEAN
    /\ config.manager \in {"naive", "batch", "dapo", "prime"}
    /\ config.dict_sources \in SUBSET Prompts
    /\ config.wrong \in {0, -1} /\ config.expected_len \in Nat
    /\ config.buffer_len \in Nat \ {0} /\ config.penalty_factor \in Nat
    /\ config.adv_estimator \in {"raft", "grpo", "rloo"}
    /\ config.gvm_reweight \in {"off", "auto", "inv_np", "inv_n"}
<1> SUFFICES ASSUME config \in Settings
             PROVE  /\ World \in Nat \ {0}
                    /\ config.n_gpus_per_node \in Nat \ {0} /\ config.nnodes \in Nat \ {0}
  BY RolloutAssumption DEF Ranks, N, Pilots, Prompts
<1>1. config.n_gpus_per_node \in Nat \ {0} /\ config.nnodes \in Nat \ {0}
  BY RolloutAssumption
<1>2. \A a, b \in Nat \ {0} : a * b \in Nat \ {0}
  OBVIOUS
<1> QED BY <1>1, <1>2 DEF World

LEMMA PromptsType ==
  /\ BatchSize \in Nat \ {0} /\ Prompts = 1 .. BatchSize
  /\ IsFiniteSet(Prompts) /\ Cardinality(Prompts) = BatchSize
<1>1. BatchSize \in Nat \ {0} /\ Prompts = 1 .. BatchSize
  BY RolloutAssumption DEF Prompts
<1> QED BY <1>1, OneTo

\* The chunk of rank r of a sequence of d entries per rank.
ChunkIs(u, s, r, d, T) ==
  /\ u \in Seq(T) /\ Len(u) = d
  /\ \A i \in 1 .. d : (r - 1) * d + i \in 1 .. Len(s) /\ u[i] = s[(r - 1) * d + i]

LEMMA ChunkEntries ==
  ASSUME config \in Settings, NEW T, NEW s \in Seq(T), NEW d \in Nat, Len(s) = World * d,
         NEW r \in Ranks
  PROVE  ChunkIs(Chunk(s, r), s, r, d, T)
<1>1. World \in Nat \ {0} /\ r \in 1 .. World
  BY SettingType
<1>2. Len(s) \div World = d
  <2> DEFINE w == World
             m == Len(s)
  <2>1. w \in Nat \ {0} /\ m = w * d + 0 /\ 0 \in 0 .. w - 1
    <3>1. w * d \in Nat
      BY <1>1
    <3> QED BY <1>1, <3>1
  <2> HIDE DEF w, m
  <2>2. m \div w = d
    BY <2>1, QuotientAndRemainder
  <2> QED BY <2>2 DEF w, m
<1> DEFINE a == (r - 1) * d
           b == r * d
           u == SubSeq(s, a + 1, b)
<1>3. Chunk(s, r) = u
  BY <1>2 DEF Chunk
<1>4. a \in Nat /\ b \in Nat /\ b = a + d /\ b <= Len(s)
  <2> DEFINE w == World
  <2>1. w \in Nat \ {0} /\ r \in 1 .. w /\ Len(s) = w * d
    BY <1>1
  <2> HIDE DEF w
  <2>2. (r - 1) * d \in Nat /\ r * d \in Nat /\ r * d = (r - 1) * d + d /\ r * d <= w * d
    BY <2>1, PartInRange
  <2> QED BY <2>1, <2>2
<1> HIDE DEF a, b
<1>5. u \in Seq(T) /\ Len(u) = d /\ \A i \in 1 .. d : u[i] = s[a + i]
  BY <1>4
<1>6. \A i \in 1 .. d : a + i \in 1 .. Len(s)
  BY <1>4
<1> QED BY <1>3, <1>5, <1>6 DEF ChunkIs, a

-----------------------------------------------------------------------------
(* The copies of the prompts                                                   *)

\* The entries of the first p prompts together.
UpTo(f, p) == Sum(f, 1 .. p)

LEMMA UpToShape ==
  ASSUME NEW f \in [Prompts -> Nat]
  PROVE  /\ \A p \in 0 .. BatchSize : UpTo(f, p) \in Nat
         /\ UpTo(f, 0) = 0 /\ UpTo(f, BatchSize) = Total(f)
         /\ \A p \in Prompts : UpTo(f, p) = UpTo(f, p - 1) + f[p] /\ p - 1 \in 0 .. BatchSize
                               /\ p \in 0 .. BatchSize
<1>1. BatchSize \in Nat \ {0} /\ Prompts = 1 .. BatchSize
  BY PromptsType
<1>2. ASSUME NEW p \in 0 .. BatchSize PROVE UpTo(f, p) \in Nat
  <2>1. IsFiniteSet(1 .. p) /\ \A x \in 1 .. p : f[x] \in Nat
    BY <1>1, OneTo
  <2> QED BY <2>1, SumOfNaturals DEF UpTo
<1>3. UpTo(f, 0) = 0
  <2>1. 1 .. 0 = {}
    OBVIOUS
  <2> QED BY <2>1, SumOfNothing DEF UpTo
<1>4. UpTo(f, BatchSize) = Total(f)
  BY <1>1, TotalIsSum DEF UpTo
<1>5. ASSUME NEW p \in Prompts PROVE UpTo(f, p) = UpTo(f, p - 1) + f[p]
  <2>1. IsFiniteSet(1 .. p) /\ \A x \in 1 .. p : f[x] \in Int
    BY <1>1, OneTo
  <2>2. p \in 1 .. p /\ (1 .. p) \ {p} = 1 .. p - 1
    BY <1>1
  <2>3. Sum(f, 1 .. p) = f[p] + Sum(f, 1 .. p - 1) /\ Sum(f, 1 .. p - 1) \in Int
    BY <2>1, <2>2, SumRemove
  <2>4. f[p] \in Nat
    OBVIOUS
  <2>5. Sum(f, 1 .. p) = Sum(f, 1 .. p - 1) + f[p]
    BY <2>3, <2>4
  <2> QED BY <2>5 DEF UpTo
<1> QED BY <1>1, <1>2, <1>3, <1>4, <1>5

\* s has the entries of c[p], as many as f[p], after those of the prompts before.
PartsAt(s, f, c, T) ==
  /\ s \in Seq(T) /\ Len(s) = Total(f)
  /\ \A p \in Prompts : \A j \in 1 .. f[p] : s[UpTo(f, p - 1) + j] = c[p][j]

\* The part of each prompt among joined sequences that are as long as f says.
LEMMA PartsOfPrompts ==
  ASSUME NEW f \in [Prompts -> Nat], NEW T, NEW c, Len(c) = BatchSize,
         \A p \in Prompts : c[p] \in Seq(T) /\ Len(c[p]) = f[p]
  PROVE  PartsAt(FlattenSeq(c), f, c, T)
<1> DEFINE off == [p \in 0 .. BatchSize |-> UpTo(f, p)]
           s == FlattenSeq(c)
<1>1. BatchSize \in Nat \ {0} /\ Prompts = 1 .. BatchSize
  BY PromptsType
<1>2. \A p \in 0 .. BatchSize : off[p] = UpTo(f, p)
  OBVIOUS
<1> HIDE DEF off, s
<1>0. /\ \A p \in 0 .. BatchSize : UpTo(f, p) \in Nat
      /\ UpTo(f, 0) = 0 /\ UpTo(f, BatchSize) = Total(f)
      /\ \A p \in Prompts : UpTo(f, p) = UpTo(f, p - 1) + f[p] /\ p - 1 \in 0 .. BatchSize
                            /\ p \in 0 .. BatchSize
  BY UpToShape
<1>3. Offsets(off, c, BatchSize, T)
  <2>1. \A p \in 0 .. BatchSize : off[p] \in Nat
    BY <1>0, <1>2
  <2>2. off[0] = 0
    BY <1>0, <1>1, <1>2
  <2>3. \A p \in 1 .. BatchSize : off[p] = off[p - 1] + Len(c[p])
    BY <1>0, <1>1, <1>2
  <2> QED BY <1>1, <2>1, <2>2, <2>3 DEF Offsets
<1>4. EntriesAt(FlattenSeq(c), off, c, BatchSize, T)
  BY <1>1, <1>3, EntriesOfFlatten
<1>5. /\ s \in Seq(T) /\ Len(s) = off[BatchSize]
      /\ \A p \in 1 .. BatchSize : \A j \in 1 .. Len(c[p]) : s[off[p - 1] + j] = c[p][j]
  BY <1>4 DEF EntriesAt, s
<1>6. off[BatchSize] = Total(f) /\ \A p \in Prompts : off[p - 1] = UpTo(f, p - 1)
  BY <1>0, <1>1, <1>2
<1>7. ASSUME NEW p \in Prompts, NEW j \in 1 .. f[p] PROVE s[UpTo(f, p - 1) + j] = c[p][j]
  <2>1. p \in 1 .. BatchSize /\ j \in 1 .. Len(c[p])
    BY <1>1
  <2>2. s[off[p - 1] + j] = c[p][j]
    BY <1>5, <2>1
  <2> QED BY <1>6, <2>2
<1> QED BY <1>5, <1>6, <1>7 DEF s, PartsAt

\* Every number up to the total is in the part of one prompt.
LEMMA PromptOfPlace ==
  ASSUME NEW f \in [Prompts -> Nat], NEW x \in 1 .. Total(f)
  PROVE  \E p \in Prompts : /\ UpTo(f, p - 1) < x /\ x <= UpTo(f, p)
                            /\ \A q \in Prompts : UpTo(f, q - 1) < x /\ x <= UpTo(f, q) => q = p
<1> DEFINE off == [p \in 0 .. BatchSize |-> UpTo(f, p)]
<1>1. BatchSize \in Nat \ {0} /\ Prompts = 1 .. BatchSize
  BY PromptsType
<1>2. \A p \in 0 .. BatchSize : off[p] = UpTo(f, p)
  OBVIOUS
<1> HIDE DEF off
<1>3. /\ \A p \in 0 .. BatchSize : off[p] \in Nat
      /\ off[0] = 0 /\ off[BatchSize] = Total(f)
  BY <1>1, <1>2, UpToShape
<1>4. \A p \in Prompts : /\ p \in 0 .. BatchSize /\ p - 1 \in 0 .. BatchSize
                         /\ off[p] = UpTo(f, p) /\ off[p - 1] = UpTo(f, p - 1)
                         /\ off[p - 1] <= off[p]
  <2> SUFFICES ASSUME NEW p \in Prompts
               PROVE  /\ p \in 0 .. BatchSize /\ p - 1 \in 0 .. BatchSize
                      /\ off[p] = UpTo(f, p) /\ off[p - 1] = UpTo(f, p - 1)
                      /\ off[p - 1] <= off[p]
    OBVIOUS
  <2>1. p \in 0 .. BatchSize /\ p - 1 \in 0 .. BatchSize /\ UpTo(f, p) = UpTo(f, p - 1) + f[p]
    BY UpToShape
  <2>2. f[p] \in Nat /\ off[p - 1] \in Nat
    BY <1>3, <2>1
  <2> QED BY <1>2, <2>1, <2>2
<1>5. PICK p \in 1 .. BatchSize : off[p - 1] < x /\ x <= off[p]
  <2>1. x \in 1 .. off[BatchSize]
    BY <1>3
  <2> QED BY <1>1, <1>3, <2>1, PlaceInPart
<1>6. ASSUME NEW k \in 0 .. BatchSize, NEW i \in 0 .. k PROVE off[i] <= off[k]
  <2>1. \A i_1 \in 1 .. BatchSize : off[i_1 - 1] <= off[i_1]
    BY <1>1, <1>4
  <2> QED BY <1>1, <1>3, <2>1, OffsetsGrow
<1>7. ASSUME NEW q \in Prompts, off[q - 1] < x, x <= off[q] PROVE q = p
  <2>1. /\ off[q] \in Nat /\ off[p] \in Nat /\ off[q - 1] \in Nat /\ off[p - 1] \in Nat
        /\ p \in Nat /\ q \in Nat
    BY <1>1, <1>3, <1>4
  <2>2. ~ (q < p)
    <3> SUFFICES ASSUME q < p PROVE FALSE
      OBVIOUS
    <3>1. p - 1 \in 0 .. BatchSize /\ q \in 0 .. p - 1
      BY <1>1, <2>1
    <3>2. off[q] <= off[p - 1]
      BY <1>6, <3>1
    <3> QED BY <1>5, <1>7, <2>1, <3>2
  <2>3. ~ (p < q)
    <3> SUFFICES ASSUME p < q PROVE FALSE
      OBVIOUS
    <3>1. q - 1 \in 0 .. BatchSize /\ p \in 0 .. q - 1
      BY <1>1, <2>1
    <3>2. off[p] <= off[q - 1]
      BY <1>6, <3>1
    <3> QED BY <1>5, <1>7, <2>1, <3>2
  <2> QED BY <2>1, <2>2, <2>3
<1>8. p \in Prompts /\ UpTo(f, p - 1) < x /\ x <= UpTo(f, p)
  BY <1>1, <1>4, <1>5
<1>9. \A q \in Prompts : UpTo(f, q - 1) < x /\ x <= UpTo(f, q) => q = p
  BY <1>4, <1>7
<1> QED BY <1>8, <1>9

\* The copies are in the order of the prompts.
LEMMA CopiesShape ==
  ASSUME sample_size \in [Prompts -> Nat]
  PROVE  /\ Copies \in Seq(Prompts) /\ Len(Copies) = Total(sample_size)
         /\ Total(sample_size) \in Nat
         /\ \A x \in 1 .. Total(sample_size) :
              /\ Copies[x] \in Prompts
              /\ \A p \in Prompts :
                   Copies[x] = p <=> UpTo(sample_size, p - 1) < x /\ x <= UpTo(sample_size, p)
<1> DEFINE c == [p \in Prompts |-> [j \in 1 .. sample_size[p] |-> p]]
           f == sample_size
<1>1. BatchSize \in Nat \ {0} /\ Prompts = 1 .. BatchSize
  BY PromptsType
<1>2. Len(c) = BatchSize /\ \A p \in Prompts : c[p] \in Seq(Prompts) /\ Len(c[p]) = sample_size[p]
  BY <1>1
<1>3. \A p \in Prompts : \A j \in 1 .. sample_size[p] : c[p][j] = p
  OBVIOUS
<1>4. Copies = FlattenSeq(c)
  BY DEF Copies
<1> HIDE DEF c
<1>5. /\ Copies \in Seq(Prompts) /\ Len(Copies) = Total(sample_size)
      /\ \A p \in Prompts : \A j \in 1 .. sample_size[p] : Copies[UpTo(sample_size, p - 1) + j] = p
  <2>1. PartsAt(FlattenSeq(c), sample_size, c, Prompts)
    BY <1>2, PartsOfPrompts
  <2> QED BY <1>3, <1>4, <2>1 DEF PartsAt
<1>6. Total(sample_size) \in Nat
  BY <1>5
<1>7. ASSUME NEW x \in 1 .. Total(f)
      PROVE  /\ Copies[x] \in Prompts
             /\ \A p \in Prompts : Copies[x] = p <=> UpTo(f, p - 1) < x /\ x <= UpTo(f, p)
  <2>1. PICK p \in Prompts :
          /\ UpTo(f, p - 1) < x /\ x <= UpTo(f, p)
          /\ \A q \in Prompts : UpTo(f, q - 1) < x /\ x <= UpTo(f, q) => q = p
    BY PromptOfPlace
  <2>2. UpTo(f, p - 1) \in Nat /\ UpTo(f, p) = UpTo(f, p - 1) + f[p] /\ f[p] \in Nat
    BY UpToShape
  <2>3. x - UpTo(f, p - 1) \in 1 .. f[p] /\ UpTo(f, p - 1) + (x - UpTo(f, p - 1)) = x
    BY <1>6, <2>1, <2>2
  <2>4. Copies[x] = p
    BY <1>5, <2>3
  <2> QED BY <2>1, <2>4
<1> QED BY <1>5, <1>6, <1>7

-----------------------------------------------------------------------------
(* What the ranks generate                                                     *)

\* The copy that response k answers, and the row of that response.
Owner(k) == Copies[((k - 1) \div N) + 1]
ResponseRow(k) == [prompts |-> Owner(k), response |-> [prompt |-> Owner(k), pilot |-> FALSE, no |-> k]]

\* The copies of each rank, and the responses to them.
Share == Total(sample_size) \div World
AnswersOf(r) == [i \in 1 .. N * Share |-> ResponseRow((r - 1) * (N * Share) + i)]

\* The padding has made the copies divisible among the ranks.
Sampled == sample_size \in [Prompts -> Nat] /\ (Total(sample_size) % World) = 0

LEMMA ShareType ==
  ASSUME config \in Settings, Sampled
  PROVE  /\ Share \in Nat /\ Total(sample_size) \in Nat /\ Total(sample_size) = World * Share
         /\ N * Share \in Nat /\ N * Total(sample_size) \in Nat
         /\ N * Total(sample_size) = World * (N * Share)
<1> DEFINE t == Total(sample_size)
           w == World
           d == Share
           n == N
<1>1. w \in Nat \ {0} /\ n \in Nat \ {0} /\ t \in Nat
  BY SettingType, CopiesShape DEF Sampled
<1>2. (t % w) = 0 /\ d = t \div w
  BY DEF Sampled, Share
<1> HIDE DEF t, w, d, n
<1>3. d \in Nat /\ t = w * d
  BY <1>1, <1>2, EqualParts
<1>4. n * d \in Nat /\ n * t \in Nat /\ n * t = w * (n * d)
  BY <1>1, <1>3
<1> QED BY <1>1, <1>3, <1>4 DEF t, w, d, n

\* The copy of a response, counted in a rank's chunk and in all copies.
LEMMA CopyOfResponse ==
  ASSUME NEW n \in Nat \ {0}, NEW d \in Nat, NEW q \in Nat, NEW i \in 1 .. n * d
  PROVE  /\ ((i - 1) \div n) + 1 \in 1 .. d
         /\ ((q * (n * d) + i) - 1) \div n = q * d + ((i - 1) \div n)
<1> DEFINE a == (i - 1) \div n
           t == ((i - 1) % n)
           y == i - 1
<1>0. d \in Nat \ {0}
  <2>1. d = 0 => n * d = 0
    OBVIOUS
  <2> QED BY <2>1
<1>1. y \in 0 .. d * n - 1 /\ y \in Nat
  <2>1. n * d = d * n /\ n * d \in Nat
    OBVIOUS
  <2> QED BY <2>1
<1>2. t \in 0 .. n - 1
  BY <1>1
<1>3. a \in 0 .. d - 1 /\ y = n * a + t
  <2> HIDE DEF y
  <2>1. y \div n \in 0 .. d - 1 /\ y % n \in Nat /\ y = n * (y \div n) + (y % n)
    BY <1>0, <1>1, GroupInRange
  <2> QED BY <2>1 DEF y
<1>4. q * d + a \in Nat /\ n * (q * d + a) = q * (n * d) + n * a /\ q * (n * d) \in Nat /\ n * a \in Nat
  <2> HIDE DEF a
  <2>1. q * d \in Nat /\ a \in Nat
    BY <1>3
  <2>2. n * (q * d + a) = n * (q * d) + n * a
    BY <1>3, <2>1
  <2>3. n * (q * d) = q * (n * d) /\ q * (n * d) \in Nat /\ n * a \in Nat
    BY <1>3
  <2> QED BY <2>1, <2>2, <2>3
<1> DEFINE z == (q * (n * d) + i) - 1
           b == q * d + a
<1>5. z = n * b + t
  <2> DEFINE u == q * (n * d)
             v == n * a
             x == n * (q * d + a)
  <2>1. u \in Nat /\ v \in Nat /\ x = u + v
    BY <1>4
  <2>2. z = (u + i) - 1 /\ i - 1 = v + t
    BY <1>3
  <2>3. n * b = x
    OBVIOUS
  <2> HIDE DEF u, v, x, z, b, t
  <2> QED BY <1>2, <2>1, <2>2, <2>3
<1>6. b \in Nat
  BY <1>4
<1> HIDE DEF z, b, t
<1>7. z \div n = b
  BY <1>2, <1>5, <1>6, QuotientAndRemainder
<1> QED BY <1>3, <1>7 DEF z, b

LEMMA RankAnswers ==
  ASSUME config \in Settings, Sampled, NEW r \in Ranks, NEW rows, rows = Chunk(Copies, r),
         NEW first, first = N * (r - 1) * Len(rows)
  PROVE  [i \in 1 .. N * Len(rows) |->
           LET p == rows[((i - 1) \div N) + 1]
           IN  [prompts |-> p, response |-> [prompt |-> p, pilot |-> FALSE, no |-> first + i]]]
         = AnswersOf(r)
<1> DEFINE n == N
           d == Share
           q == r - 1
<1>1. n \in Nat \ {0} /\ d \in Nat /\ q \in Nat /\ r \in Nat
  <2>1. n \in Nat \ {0} /\ World \in Nat \ {0} /\ Ranks = 1 .. World
    BY SettingType
  <2>2. d \in Nat
    BY ShareType
  <2> QED BY <2>1, <2>2
<1>2. Copies \in Seq(Prompts) /\ Len(Copies) = World * d
  BY CopiesShape, ShareType DEF Sampled
<1>3. Len(rows) = d /\ \A i \in 1 .. d : rows[i] = Copies[(r - 1) * d + i]
  <2> HIDE DEF d
  <2>1. ChunkIs(Chunk(Copies, r), Copies, r, d, Prompts)
    BY <1>1, <1>2, ChunkEntries
  <2> QED BY <2>1 DEF ChunkIs
<1> HIDE DEF n, d, q
<1>4. first = q * (n * d)
  <2>1. first = n * q * d
    BY <1>3 DEF n, q
  <2>2. n * q * d = q * (n * d)
    BY <1>1
  <2> QED BY <2>1, <2>2
<1>5. ASSUME NEW i \in 1 .. n * d
      PROVE  rows[((i - 1) \div n) + 1] = Owner(q * (n * d) + i)
  <2> DEFINE a == ((i - 1) \div n)
  <2>1. a + 1 \in 1 .. d /\ ((q * (n * d) + i) - 1) \div n = q * d + a
    BY <1>1, CopyOfResponse
  <2> HIDE DEF a
  <2>2. q * d \in Nat /\ a + 1 \in Nat /\ q * d + (a + 1) = (q * d + a) + 1
    <3>1. q * d \in Nat
      BY <1>1
    <3>2. a \in Int
      BY <2>1, <1>1 DEF a
    <3> QED BY <2>1, <3>1, <3>2
  <2>3. rows[a + 1] = Copies[q * d + (a + 1)]
    BY <1>3, <2>1 DEF q
  <2>4. Owner(q * (n * d) + i) = Copies[(((q * (n * d) + i) - 1) \div n) + 1]
    BY DEF Owner, n
  <2>5. rows[a + 1] = Owner(q * (n * d) + i)
    BY <2>1, <2>2, <2>3, <2>4
  <2> QED BY <2>5 DEF a
<1> DEFINE z == q * (n * d)
<1>6. [i \in 1 .. n * d |->
        LET p == rows[((i - 1) \div n) + 1]
        IN  [prompts |-> p, response |-> [prompt |-> p, pilot |-> FALSE, no |-> first + i]]]
      = [i \in 1 .. n * d |-> ResponseRow(z + i)]
  <2>1. \A i \in 1 .. n * d : rows[((i - 1) \div n) + 1] = Owner(z + i)
    BY <1>5
  <2> HIDE DEF z
  <2>2. first = z
    BY <1>4 DEF z
  <2> QED BY <2>1, <2>2 DEF ResponseRow
<1> QED BY <1>3, <1>6 DEF n, d, q, AnswersOf

\* A copy is behind a others iff its responses are behind theirs.
LEMMA BehindOthers ==
  ASSUME NEW n \in Nat \ {0}, NEW k \in Nat \ {0}, NEW a \in Nat
  PROVE  a < ((k - 1) \div n) + 1 <=> n * a < k
<1> DEFINE q == (k - 1) \div n
           t == ((k - 1) % n)
<1>1. q \in Nat /\ t \in 0 .. n - 1 /\ k - 1 = n * q + t
  OBVIOUS
<1> HIDE DEF q, t
<1>2. n * q \in Nat /\ n * a \in Nat
  BY <1>1
<1>3. ASSUME a <= q PROVE n * a <= n * q
  <2>1. PICK e \in Nat : q = a + e
    <3>1. q - a \in Nat /\ q = a + (q - a)
      BY <1>1, <1>3
    <3> QED BY <3>1
  <2>2. n * q = n * a + n * e /\ n * e \in Nat
    BY <2>1
  <2> QED BY <1>2, <2>2
<1>4. ASSUME q < a PROVE n * q + n <= n * a
  <2>1. PICK e \in Nat : a = q + 1 + e
    <3>1. a - q - 1 \in Nat /\ a = q + 1 + (a - q - 1)
      BY <1>1, <1>4
    <3> QED BY <3>1
  <2>2. n * a = n * q + n + n * e /\ n * e \in Nat
    BY <1>1, <2>1
  <2> QED BY <1>2, <2>2
<1>5. a < q + 1 <=> n * a < k
  <2>1. CASE a <= q
    <3>1. n * a <= n * q
      BY <1>3, <2>1
    <3> DEFINE x == n * a
               y == n * q
    <3>2. x \in Nat /\ y \in Nat /\ x <= y /\ k - 1 = y + t
      BY <1>1, <1>2, <3>1
    <3> HIDE DEF x, y
    <3>3. x < k
      BY <1>1, <3>2
    <3> QED BY <1>1, <2>1, <3>3 DEF x
  <2>2. CASE q < a
    <3>1. n * q + n <= n * a
      BY <1>4, <2>2
    <3> DEFINE x == n * a
               y == n * q
    <3>2. x \in Nat /\ y \in Nat /\ y + n <= x /\ k - 1 = y + t
      BY <1>1, <1>2, <3>1
    <3> HIDE DEF x, y
    <3>3. ~ (x < k)
      BY <1>1, <3>2
    <3> QED BY <1>1, <2>2, <3>3 DEF x
  <2> QED BY <1>1, <2>1, <2>2
<1> QED BY <1>5 DEF q

\* Which responses are to copies of a prompt.
LEMMA OwnerOf ==
  ASSUME config \in Settings, Sampled, NEW k \in 1 .. N * Total(sample_size)
  PROVE  /\ Owner(k) \in Prompts
         /\ \A p \in Prompts : Owner(k) = p <=> /\ N * UpTo(sample_size, p - 1) < k
                                                /\ k <= N * UpTo(sample_size, p)
<1> DEFINE n == N
           t == Total(sample_size)
           x == ((k - 1) \div n) + 1
<1>1. n \in Nat \ {0} /\ t \in Nat /\ k \in Nat \ {0} /\ k \in 1 .. n * t /\ n * t \in Nat
  <2>1. n \in Nat \ {0} /\ t \in Nat /\ n * t \in Nat
    BY SettingType, ShareType
  <2> HIDE DEF n, t
  <2>2. k \in 1 .. n * t
    BY DEF n, t
  <2> QED BY <2>1, <2>2
<1>2. x \in 1 .. t
  <2> HIDE DEF n, t
  <2>1. ((k - 1) \div n) + 1 \in 1 .. t
    BY <1>1, CopyOfResponse, 0 \in Nat
  <2> QED BY <2>1
<1>3. Owner(k) = Copies[x]
  BY DEF Owner
<1> HIDE DEF x, n
<1>4. /\ Copies[x] \in Prompts
      /\ \A p \in Prompts :
           Copies[x] = p <=> UpTo(sample_size, p - 1) < x /\ x <= UpTo(sample_size, p)
  BY <1>2, CopiesShape DEF Sampled
<1>5. ASSUME NEW p \in Prompts
      PROVE  Copies[x] = p <=> n * UpTo(sample_size, p - 1) < k /\ k <= n * UpTo(sample_size, p)
  <2> DEFINE a == UpTo(sample_size, p - 1)
             b == UpTo(sample_size, p)
  <2>1. a \in Nat /\ b \in Nat
    BY UpToShape DEF Sampled
  <2>2. Copies[x] = p <=> a < x /\ x <= b
    BY <1>4
  <2> HIDE DEF a, b
  <2>3. (a < x <=> n * a < k) /\ (b < x <=> n * b < k)
    BY <1>1, <2>1, BehindOthers DEF x
  <2>4. n * b \in Nat /\ k \in Nat /\ x \in Nat
    BY <1>1, <1>2, <2>1
  <2> QED BY <2>1, <2>2, <2>3, <2>4 DEF a, b
<1> QED BY <1>3, <1>4, <1>5 DEF n

LEMMA AnswerType ==
  ASSUME config \in Settings, Sampled, NEW k \in 1 .. N * Total(sample_size)
  PROVE  ResponseRow(k) \in [prompts : Prompts, response : Responses]
<1>1. Owner(k) \in Prompts /\ k \in Nat
  BY OwnerOf, ShareType
<1> QED BY <1>1 DEF ResponseRow, Responses

\* Joined by rank, the responses are in the order of the copies.
LEMMA AllAnswers ==
  ASSUME config \in Settings, Sampled, \A r \in Ranks : outputs[r] = AnswersOf(r)
  PROVE  /\ Len(Collected) = N * Total(sample_size)
         /\ \A k \in 1 .. N * Total(sample_size) : Collected[k] = ResponseRow(k)
<1> DEFINE w == World
           d == N * Share
           m == N * Total(sample_size)
           T == [prompts : Prompts, response : Responses]
           c == [r \in Ranks |-> outputs[r]]
<1>1. w \in Nat \ {0} /\ d \in Nat /\ m = w * d /\ Ranks = 1 .. w
  BY SettingType, ShareType
<1>2. \A r \in 1 .. w : c[r] = [i \in 1 .. d |-> ResponseRow((r - 1) * d + i)]
  BY <1>1 DEF AnswersOf
<1>3. Len(c) = w
  BY <1>1
<1>4. Collected = FlattenSeq(c)
  BY DEF Collected
<1>5. \A k \in 1 .. m : ResponseRow(k) \in T
  BY AnswerType
<1> HIDE DEF w, d, m, T, c
<1>6. ASSUME NEW r \in 1 .. w
      PROVE  c[r] \in Seq(T) /\ Len(c[r]) = d
  <2>1. (r - 1) * d \in Nat /\ r * d \in Nat /\ r * d = (r - 1) * d + d /\ r * d <= w * d
    BY <1>1, PartInRange
  <2> DEFINE a == (r - 1) * d
  <2>2. \A i \in 1 .. d : a + i \in 1 .. m
    <3> DEFINE b == r * d
               e == w * d
    <3>1. a \in Nat /\ b = a + d /\ b <= e /\ m = e
      BY <1>1, <2>1
    <3>2. b \in Nat /\ e \in Nat
      BY <1>1, <2>1
    <3> HIDE DEF a, b, e
    <3> QED BY <1>1, <3>1, <3>2
  <2>3. c[r] = [i \in 1 .. d |-> ResponseRow(a + i)]
    BY <1>2
  <2> HIDE DEF a
  <2>4. \A i \in 1 .. d : ResponseRow(a + i) \in T
    BY <1>5, <2>2
  <2>5. c[r] \in [1 .. d -> T]
    BY <2>3, <2>4
  <2> QED BY <1>1, <2>5
<1>7. EqualJoin(FlattenSeq(c), c, w, d, T)
  BY <1>1, <1>3, <1>6, JoinOfEqual
<1>8. /\ Len(Collected) = m
      /\ \A i \in 1 .. w : \A j \in 1 .. d : Collected[(i - 1) * d + j] = c[i][j]
  BY <1>1, <1>4, <1>7 DEF EqualJoin
<1>9. ASSUME NEW k \in 1 .. m PROVE Collected[k] = ResponseRow(k)
  <2>1. PICK r \in 1 .. w, i \in 1 .. d : k = (r - 1) * d + i
    BY <1>1, PartOfNumber
  <2>2. Collected[k] = c[r][i]
    BY <1>8, <2>1
  <2>3. c[r][i] = ResponseRow((r - 1) * d + i)
    BY <1>2
  <2> QED BY <2>1, <2>2, <2>3
<1> QED BY <1>8, <1>9 DEF m

-----------------------------------------------------------------------------
(* The rows the driver assembles                                               *)

\* The row of response k, and of pilot j of prompt p.
FreshRow(k) ==
  [meta |-> Owner(k), prompts |-> Owner(k),
   response |-> [prompt |-> Owner(k), pilot |-> FALSE, no |-> k]]
PilotRow(p, j) ==
  [meta |-> p, prompts |-> p, response |-> [prompt |-> p, pilot |-> TRUE, no |-> j]]

LEMMA FreshShape ==
  ASSUME config \in Settings, Sampled, \A r \in Ranks : outputs[r] = AnswersOf(r)
  PROVE  FreshRows = [k \in 1 .. N * Total(sample_size) |-> FreshRow(k)]
<1> DEFINE metas == Repeat(Copies)
           m == N * Total(sample_size)
<1>1. metas = [k \in 1 .. m |-> Owner(k)]
  BY CopiesShape DEF Repeat, Owner, Sampled
<1>2. \A k \in 1 .. m : Collected[k] = ResponseRow(k)
  BY AllAnswers
<1>3. FreshRows = [i \in DOMAIN metas |->
        [meta |-> metas[i], prompts |-> Collected[i].prompts, response |-> Collected[i].response]]
  BY DEF FreshRows
<1> HIDE DEF metas, m
<1> DEFINE row(i) ==
             [meta |-> metas[i], prompts |-> Collected[i].prompts, response |-> Collected[i].response]
<1>4. FreshRows = [k \in 1 .. m |-> FreshRow(k)]
  <2>1. ASSUME NEW k \in 1 .. m PROVE row(k) = FreshRow(k)
    <3>1. metas[k] = Owner(k)
      BY <1>1
    <3>2. Collected[k] = ResponseRow(k)
      BY <1>2
    <3>3. /\ ResponseRow(k).prompts = Owner(k)
          /\ ResponseRow(k).response = [prompt |-> Owner(k), pilot |-> FALSE, no |-> k]
      BY DEF ResponseRow
    <3> QED BY <3>1, <3>2, <3>3 DEF FreshRow
  <2>2. FreshRows = [i \in 1 .. m |-> row(i)]
    BY <1>1, <1>3
  <2> HIDE DEF row
  <2> QED BY <2>1, <2>2
<1> QED BY <1>4 DEF m

LEMMA SharesGrow ==
  ASSUME config \in Settings, Sampled, NEW p \in Prompts
  PROVE  /\ N * UpTo(sample_size, p - 1) \in Nat /\ N * UpTo(sample_size, p) \in Nat
         /\ N * UpTo(sample_size, p)
              = N * UpTo(sample_size, p - 1) + N * sample_size[p]
         /\ N * sample_size[p] \in Nat /\ (sample_size[p] > 0 <=> N * sample_size[p] > 0)
         /\ N * UpTo(sample_size, p) <= N * Total(sample_size)
<1> DEFINE a == UpTo(sample_size, p - 1)
           b == UpTo(sample_size, p)
           s == sample_size[p]
           t == Total(sample_size)
           n == N
<1>1. n \in Nat \ {0} /\ s \in Nat /\ t \in Nat
  BY SettingType, ShareType DEF Sampled
<1>2. a \in Nat /\ b \in Nat /\ b = a + s
  BY UpToShape DEF Sampled
<1>3. b <= t
  <2> DEFINE off == [q \in 0 .. BatchSize |-> UpTo(sample_size, q)]
  <2>1. /\ \A q \in 0 .. BatchSize : UpTo(sample_size, q) \in Nat
        /\ UpTo(sample_size, BatchSize) = t
        /\ \A q \in Prompts : UpTo(sample_size, q) = UpTo(sample_size, q - 1) + sample_size[q]
                              /\ q - 1 \in 0 .. BatchSize /\ q \in 0 .. BatchSize
    BY UpToShape DEF Sampled
  <2>2. BatchSize \in Nat /\ Prompts = 1 .. BatchSize /\ \A q \in Prompts : sample_size[q] \in Nat
    BY PromptsType DEF Sampled
  <2>3. \A q \in 0 .. BatchSize : off[q] = UpTo(sample_size, q)
    OBVIOUS
  <2> HIDE DEF off, a, b, t
  <2>4. \A q \in 0 .. BatchSize : off[q] \in Nat
    BY <2>1, <2>3
  <2>5. ASSUME NEW q \in 1 .. BatchSize PROVE off[q - 1] <= off[q]
    <3>1. q \in Prompts /\ q - 1 \in 0 .. BatchSize /\ q \in 0 .. BatchSize
      BY <2>1, <2>2
    <3>2. off[q] = off[q - 1] + sample_size[q] /\ off[q - 1] \in Nat /\ sample_size[q] \in Nat
      BY <2>1, <2>2, <2>3, <3>1
    <3> QED BY <3>2
  <2>6. BatchSize \in 0 .. BatchSize /\ p \in 0 .. BatchSize
    BY <2>2
  <2>7. off[p] <= off[BatchSize]
    BY <2>2, <2>4, <2>5, <2>6, OffsetsGrow
  <2> QED BY <2>1, <2>3, <2>6, <2>7 DEF b
<1>4. PICK e \in Nat : t = b + e
  <2>1. t - b \in Nat /\ t = b + (t - b)
    BY <1>1, <1>2, <1>3
  <2> QED BY <2>1
<1> HIDE DEF a, b, s, t, n
<1>5. /\ n * a \in Nat /\ n * b \in Nat /\ n * s \in Nat /\ n * b = n * a + n * s
  BY <1>1, <1>2
<1>6. n * t = n * b + n * e /\ n * e \in Nat
  BY <1>1, <1>2, <1>4
<1>7. s > 0 <=> n * s > 0
  <2>1. CASE s = 0
    BY <1>1, <2>1
  <2>2. CASE s # 0
    <3>1. n * s # 0
      BY <1>1, <2>2
    <3> QED BY <1>1, <1>5, <2>2, <3>1
  <2> QED BY <2>1, <2>2
<1>8. n * b <= n * t
  BY <1>5, <1>6
<1> QED BY <1>5, <1>7, <1>8 DEF a, b, s, t, n

\* The first of the rows of a prompt is the one of its first response.
LEMMA FirstRow ==
  ASSUME config \in Settings, Sampled, \A r \in Ranks : outputs[r] = AnswersOf(r), NEW p \in Prompts
  PROVE  /\ HasRow(p) <=> sample_size[p] > 0
         /\ HasRow(p) => first_row(p).meta = p /\ first_row(p).prompts = p
<1> DEFINE m == N * Total(sample_size)
           a == N * UpTo(sample_size, p - 1)
           b == N * UpTo(sample_size, p)
           s == N * sample_size[p]
           S == {i \in DOMAIN FreshRows : FreshRows[i].meta = p}
<1>1. FreshRows = [k \in 1 .. m |-> FreshRow(k)] /\ m \in Nat
  BY FreshShape, ShareType
<1>2. /\ a \in Nat /\ b \in Nat /\ b = a + s /\ s \in Nat /\ (sample_size[p] > 0 <=> s > 0)
      /\ b <= m
  BY SharesGrow
<1>3. \A k \in 1 .. m : Owner(k) = p <=> a < k /\ k <= b
  BY OwnerOf
<1> HIDE DEF m, a, b, s
<1>4. S = {k \in 1 .. m : a < k /\ k <= b}
  BY <1>1, <1>3 DEF FreshRow
<1>5. S = a + 1 .. b
  <2> DEFINE U == {k \in 1 .. m : a < k /\ k <= b}
  <2>1. ASSUME NEW k PROVE k \in U <=> k \in a + 1 .. b
    BY <1>1, <1>2
  <2>2. U = a + 1 .. b
    <3> HIDE DEF U
    <3> QED BY <2>1
  <2> QED BY <1>4, <2>2
<1>6. HasRow(p) <=> sample_size[p] > 0
  <2>1. HasRow(p) <=> S # {}
    BY DEF HasRow
  <2>2. S # {} <=> s > 0
    <3>1. a \in Nat /\ b \in Nat /\ s \in Nat /\ b = a + s
      BY <1>2
    <3>2. a + 1 .. b # {} <=> s > 0
      BY ONLY <3>1
    <3> QED BY <1>5, <3>2
  <2>3. sample_size[p] > 0 <=> s > 0
    BY <1>2
  <2> QED BY <2>1, <2>2, <2>3
<1>7. ASSUME HasRow(p) PROVE first_row(p).meta = p /\ first_row(p).prompts = p
  <2>1. S # {}
    BY <1>7 DEF HasRow
  <2>2. a + 1 \in S /\ \A k \in S : a + 1 <= k
    BY <1>2, <1>5, <2>1
  <2>3. Min(S) \in S
    BY <2>2 DEF Min
  <2>4. first_row(p) = FreshRows[Min(S)]
    BY DEF first_row
  <2>5. Min(S) \in 1 .. m /\ FreshRows[Min(S)].meta = p
    BY <1>1, <2>3
  <2> HIDE DEF S
  <2>6. FreshRows[Min(S)] = FreshRow(Min(S))
    BY <1>1, <2>5
  <2> QED BY <2>4, <2>5, <2>6 DEF FreshRow
<1> QED BY <1>6, <1>7

\* The pilots that are reused: those set aside for the prompts with a copy.
ReusedOf == [p \in Prompts |-> IF sample_size[p] > 0 THEN pilot_reuse[p] ELSE 0]

LEMMA PilotShape ==
  ASSUME config \in Settings, Sampled, pilot_reuse \in [Prompts -> Nat],
         \A r \in Ranks : outputs[r] = AnswersOf(r)
  PROVE  /\ ReusedOf \in [Prompts -> Nat] /\ Total(ReusedOf) \in Nat
         /\ Len(PilotRows) = Total(ReusedOf) /\ PilotRows \in Seq(Rows)
         /\ \A p \in Prompts : \A j \in 1 .. ReusedOf[p] :
              PilotRows[UpTo(ReusedOf, p - 1) + j] = PilotRow(p, j)
<1> DEFINE c == [p \in Prompts |->
                  IF HasRow(p)
                  THEN [j \in 1 .. pilot_reuse[p] |->
                         [meta |-> first_row(p).meta, prompts |-> first_row(p).prompts,
                          response |-> [prompt |-> p, pilot |-> TRUE, no |-> j]]]
                  ELSE <<>>]
<1>1. PilotRows = FlattenSeq(c)
  BY DEF PilotRows
<1>2. ReusedOf \in [Prompts -> Nat]
  BY DEF ReusedOf
<1>3. ASSUME NEW p \in Prompts
      PROVE  c[p] = [j \in 1 .. ReusedOf[p] |-> PilotRow(p, j)]
  <2>1. CASE HasRow(p)
    <3>1. first_row(p).meta = p /\ first_row(p).prompts = p /\ ReusedOf[p] = pilot_reuse[p]
      BY <2>1, FirstRow DEF ReusedOf
    <3> QED BY <2>1, <3>1 DEF PilotRow
  <2>2. CASE ~ HasRow(p)
    <3>1. ReusedOf[p] = 0
      BY <2>2, FirstRow DEF ReusedOf
    <3>2. c[p] = <<>> /\ 1 .. 0 = {}
      BY <2>2
    <3> HIDE DEF c
    <3>3. [j \in 1 .. 0 |-> PilotRow(p, j)] = <<>>
      OBVIOUS
    <3> QED BY <3>1, <3>2, <3>3
  <2> QED BY <2>1, <2>2
<1>4. Len(c) = BatchSize
  BY PromptsType
<1> HIDE DEF c
<1>5. ASSUME NEW p \in Prompts PROVE c[p] \in Seq(Rows) /\ Len(c[p]) = ReusedOf[p]
  <2>1. \A j \in 1 .. ReusedOf[p] : PilotRow(p, j) \in Rows
    BY DEF PilotRow, Rows, Responses
  <2>2. ReusedOf[p] \in Nat
    BY <1>2
  <2> DEFINE n == ReusedOf[p]
  <2>3. c[p] \in [1 .. n -> Rows] /\ n \in Nat
    BY <1>3, <2>1, <2>2
  <2> HIDE DEF n
  <2>4. c[p] \in Seq(Rows) /\ Len(c[p]) = n
    BY <2>3
  <2> QED BY <2>4 DEF n
<1>6. PartsAt(FlattenSeq(c), ReusedOf, c, Rows)
  BY <1>2, <1>4, <1>5, PartsOfPrompts
<1>7. /\ Len(PilotRows) = Total(ReusedOf) /\ PilotRows \in Seq(Rows)
      /\ \A p \in Prompts : \A j \in 1 .. ReusedOf[p] :
           PilotRows[UpTo(ReusedOf, p - 1) + j] = c[p][j]
  BY <1>1, <1>6 DEF PartsAt
<1>8. Total(ReusedOf) \in Nat
  BY <1>7
<1>9. ASSUME NEW p \in Prompts, NEW j \in 1 .. ReusedOf[p]
      PROVE  PilotRows[UpTo(ReusedOf, p - 1) + j] = PilotRow(p, j)
  BY <1>3, <1>7, ZenonT(40)
<1> QED BY <1>2, <1>7, <1>8, <1>9

\* Where each row of the pilots comes from.
LEMMA PilotAt ==
  ASSUME config \in Settings, Sampled, pilot_reuse \in [Prompts -> Nat],
         \A r \in Ranks : outputs[r] = AnswersOf(r), NEW y \in 1 .. Len(PilotRows)
  PROVE  \E p \in Prompts : \E j \in 1 .. ReusedOf[p] :
           y = UpTo(ReusedOf, p - 1) + j /\ PilotRows[y] = PilotRow(p, j)
<1>1. ReusedOf \in [Prompts -> Nat] /\ y \in 1 .. Total(ReusedOf) /\ y \in Nat
  BY PilotShape
<1>2. PICK p \in Prompts : UpTo(ReusedOf, p - 1) < y /\ y <= UpTo(ReusedOf, p)
  BY <1>1, PromptOfPlace
<1>3. UpTo(ReusedOf, p - 1) \in Nat /\ UpTo(ReusedOf, p) = UpTo(ReusedOf, p - 1) + ReusedOf[p]
      /\ ReusedOf[p] \in Nat
  BY <1>1, UpToShape
<1> DEFINE j == y - UpTo(ReusedOf, p - 1)
<1>4. j \in 1 .. ReusedOf[p] /\ y = UpTo(ReusedOf, p - 1) + j
  BY <1>1, <1>2, <1>3
<1> HIDE DEF j
<1>5. PilotRows[y] = PilotRow(p, j)
  BY <1>4, PilotShape
<1> QED BY <1>4, <1>5

\* The responses the batch has to have: N to each copy, numbered in the order of
\* the copies, and the reused pilots.
Wanted ==
  {w \in Responses :
     IF w.pilot THEN w.no \in 1 .. ReusedOf[w.prompt]
     ELSE N * UpTo(sample_size, w.prompt - 1) < w.no /\ w.no <= N * UpTo(sample_size, w.prompt)}

\* The column of responses.
ResponsesOf(b) == [i \in 1 .. Len(b) |-> b[i].response]

\* Rows that are of one prompt each, with every response wanted in one of them.
IsBatch(b) ==
  /\ Len(b) \in Nat /\ b = [i \in 1 .. Len(b) |-> b[i]]
  /\ \A i \in 1 .. Len(b) : b[i].meta = b[i].response.prompt /\ b[i].prompts = b[i].response.prompt
  /\ ResponsesOf(b) \in Bijection(1 .. Len(b), Wanted)

LEMMA FreshWanted ==
  ASSUME config \in Settings, Sampled, NEW k \in 1 .. N * Total(sample_size)
  PROVE  FreshRow(k).response \in Wanted /\ FreshRow(k) \in Rows
<1>1. Owner(k) \in Prompts /\ k \in Nat
  BY OwnerOf, ShareType
<1>2. N * UpTo(sample_size, Owner(k) - 1) < k /\ k <= N * UpTo(sample_size, Owner(k))
  BY <1>1, OwnerOf
<1> QED BY <1>1, <1>2 DEF FreshRow, Wanted, Responses, Rows

LEMMA WantedFresh ==
  ASSUME config \in Settings, Sampled, NEW w \in Wanted, ~ w.pilot
  PROVE  w.no \in 1 .. N * Total(sample_size) /\ FreshRow(w.no).response = w
<1> DEFINE p == w.prompt
           k == w.no
           a == N * UpTo(sample_size, p - 1)
           b == N * UpTo(sample_size, p)
           m == N * Total(sample_size)
<1>1. /\ w = [prompt |-> p, pilot |-> FALSE, no |-> k] /\ p \in Prompts /\ k \in Nat
      /\ a < k /\ k <= b
  BY DEF Wanted, Responses
<1>2. a \in Nat /\ b \in Nat /\ b <= m /\ m \in Nat
  BY <1>1, SharesGrow, ShareType
<1>3. k \in 1 .. m
  <2> HIDE DEF k, a, b, m
  <2> QED BY <1>1, <1>2
<1>4. Owner(k) = p
  BY <1>1, <1>3, OwnerOf
<1> QED BY <1>1, <1>3, <1>4 DEF FreshRow

LEMMA AssembledRows ==
  ASSUME config \in Settings, Sampled, pilot_reuse \in [Prompts -> Nat],
         \A r \in Ranks : outputs[r] = AnswersOf(r),
         NEW b, b = FreshRows \o PilotRows, NEW m, m = N * Total(sample_size)
  PROVE  /\ b \in Seq(Rows) /\ m \in Nat /\ Len(b) = m + Len(PilotRows) /\ Len(PilotRows) \in Nat
         /\ \A x \in 1 .. m : b[x] = FreshRow(x)
         /\ \A x \in 1 .. Len(b) : m < x =>
              x - m \in 1 .. Len(PilotRows) /\ b[x] = PilotRows[x - m]
<1> DEFINE u == FreshRows
           v == PilotRows
<1>1. m \in Nat /\ u = [k \in 1 .. m |-> FreshRow(k)]
  BY FreshShape, ShareType
<1>2. \A k \in 1 .. m : FreshRow(k) \in Rows
  BY FreshWanted
<1>3. v \in Seq(Rows) /\ b = u \o v
  BY PilotShape
<1> HIDE DEF u, v
<1>4. u \in Seq(Rows) /\ Len(u) = m
  <2>1. u \in [1 .. m -> Rows]
    BY <1>1, <1>2
  <2> QED BY ONLY <1>1, <2>1
<1>5. /\ b \in Seq(Rows) /\ Len(b) = m + Len(v) /\ Len(v) \in Nat
      /\ \A x \in 1 .. m + Len(v) : b[x] = IF x <= m THEN u[x] ELSE v[x - m]
  BY ONLY <1>3, <1>4, ElementsOfJoin
<1>6. \A x \in 1 .. m : x \in 1 .. m + Len(v) /\ b[x] = FreshRow(x)
  BY <1>1, <1>5
<1>7. \A x \in 1 .. m + Len(v) : m < x => x - m \in 1 .. Len(v) /\ b[x] = v[x - m]
  BY <1>1, <1>5
<1> QED BY <1>1, <1>5, <1>6, <1>7 DEF v

\* Assembled, the rows have every wanted response once.
LEMMA AssembledBatch ==
  ASSUME config \in Settings, Sampled, pilot_reuse \in [Prompts -> Nat],
         \A r \in Ranks : outputs[r] = AnswersOf(r)
  PROVE  /\ FreshRows \o PilotRows \in Seq(Rows) /\ IsBatch(FreshRows \o PilotRows)
         /\ Len(FreshRows \o PilotRows) = N * Total(sample_size) + Total(ReusedOf)
<1> DEFINE b == FreshRows \o PilotRows
           m == N * Total(sample_size)
           n == Len(PilotRows)
           f == ResponsesOf(b)
<1>1. /\ b \in Seq(Rows) /\ m \in Nat /\ Len(b) = m + n /\ n \in Nat
      /\ \A x \in 1 .. m : b[x] = FreshRow(x)
      /\ \A x \in 1 .. Len(b) : m < x => x - m \in 1 .. n /\ b[x] = PilotRows[x - m]
  BY AssembledRows
<1>2. \A x \in 1 .. Len(b) : f[x] = b[x].response
  BY DEF ResponsesOf
<1>r. ReusedOf \in [Prompts -> Nat] /\ \A p \in Prompts : UpTo(ReusedOf, p - 1) \in Nat
  BY PilotShape, UpToShape
<1>p. ASSUME NEW x \in 1 .. Len(b), m < x
      PROVE  \E p \in Prompts : \E j \in 1 .. ReusedOf[p] :
               x = m + (UpTo(ReusedOf, p - 1) + j) /\ b[x] = PilotRow(p, j)
  <2>1. x - m \in 1 .. n /\ b[x] = PilotRows[x - m]
    BY <1>1, <1>p
  <2>2. PICK p \in Prompts : \E j \in 1 .. ReusedOf[p] :
          x - m = UpTo(ReusedOf, p - 1) + j /\ PilotRows[x - m] = PilotRow(p, j)
    BY <2>1, PilotAt
  <2>3. PICK j \in 1 .. ReusedOf[p] :
          x - m = UpTo(ReusedOf, p - 1) + j /\ PilotRows[x - m] = PilotRow(p, j)
    BY <2>2
  <2>4. x = m + (UpTo(ReusedOf, p - 1) + j)
    <3>1. UpTo(ReusedOf, p - 1) \in Nat /\ j \in Nat /\ x \in Nat
      BY <1>1, <1>r
    <3> HIDE DEF m
    <3> QED BY <1>1, <2>3, <3>1
  <2> QED BY <2>1, <2>3, <2>4
<1> HIDE DEF m, n, b, f
<1>3. ASSUME NEW x \in 1 .. Len(b)
      PROVE  /\ b[x].meta = b[x].response.prompt /\ b[x].prompts = b[x].response.prompt
             /\ f[x] \in Wanted
             /\ x <= m => f[x].pilot = FALSE /\ f[x].no = x
             /\ m < x => /\ f[x].pilot = TRUE
                         /\ f[x].prompt \in Prompts /\ f[x].no \in Nat
                         /\ x = m + (UpTo(ReusedOf, f[x].prompt - 1) + f[x].no)
  <2>1. CASE x <= m
    <3>1. x \in 1 .. m /\ b[x] = FreshRow(x)
      BY <1>1, <2>1
    <3>2. FreshRow(x).response \in Wanted
      BY <3>1, FreshWanted DEF m
    <3>3. b[x].response = [prompt |-> Owner(x), pilot |-> FALSE, no |-> x]
          /\ b[x].meta = Owner(x) /\ b[x].prompts = Owner(x)
      BY <3>1 DEF FreshRow
    <3>4. f[x] = b[x].response
      BY <1>2
    <3>5. ~ (m < x)
      BY <1>1, <2>1
    <3> QED BY <3>1, <3>2, <3>3, <3>4, <3>5
  <2>2. CASE m < x
    <3>1. PICK p \in Prompts : \E j \in 1 .. ReusedOf[p] :
            x = m + (UpTo(ReusedOf, p - 1) + j) /\ b[x] = PilotRow(p, j)
      BY <1>p, <2>2
    <3>2. PICK j \in 1 .. ReusedOf[p] :
            x = m + (UpTo(ReusedOf, p - 1) + j) /\ b[x] = PilotRow(p, j)
      BY <3>1
    <3>3. j \in Nat
      BY <1>r
    <3>7. /\ b[x].response = [prompt |-> p, pilot |-> TRUE, no |-> j]
          /\ b[x].meta = p /\ b[x].prompts = p
      BY <3>2 DEF PilotRow
    <3>4. f[x] = [prompt |-> p, pilot |-> TRUE, no |-> j]
      BY <1>2, <3>7
    <3>5. f[x] \in Wanted
      BY <3>3, <3>4 DEF Wanted, Responses
    <3>6. ~ (x <= m)
      BY <1>1, <2>2
    <3> QED BY <3>2, <3>3, <3>4, <3>5, <3>6, <3>7
  <2>3. x <= m \/ m < x
    BY <1>1
  <2> QED BY <2>1, <2>2, <2>3
<1>4. f \in [1 .. Len(b) -> Wanted]
  <2>1. f = [x \in 1 .. Len(b) |-> b[x].response]
    BY DEF f, ResponsesOf
  <2> QED BY <1>2, <1>3, <2>1
<1>5. ASSUME NEW x \in 1 .. Len(b), NEW y \in 1 .. Len(b), f[x] = f[y] PROVE x = y
  <2>1. x <= m \/ m < x
    BY <1>1
  <2>2. y <= m \/ m < y
    BY <1>1
  <2>3. CASE x <= m
    <3>1. f[x].pilot = FALSE /\ f[x].no = x
      BY <1>3, <2>3
    <3>2. y <= m
      BY <1>3, <1>5, <2>2, <3>1
    <3>3. f[y].no = y
      BY <1>3, <3>2
    <3> QED BY <1>5, <3>1, <3>3
  <2>4. CASE m < x
    <3>1. f[x].pilot = TRUE /\ x = m + (UpTo(ReusedOf, f[x].prompt - 1) + f[x].no)
      BY <1>3, <2>4
    <3>2. m < y
      BY <1>3, <1>5, <2>2, <3>1
    <3>3. y = m + (UpTo(ReusedOf, f[y].prompt - 1) + f[y].no)
      BY <1>3, <3>2
    <3> QED BY <1>5, <3>1, <3>3
  <2> QED BY <2>1, <2>3, <2>4
<1>6. ASSUME NEW w \in Wanted PROVE \E x \in 1 .. Len(b) : f[x] = w
  <2>1. CASE ~ w.pilot
    <3>1. w.no \in 1 .. m /\ FreshRow(w.no).response = w
      BY <2>1, WantedFresh DEF m
    <3>2. w.no \in 1 .. Len(b) /\ f[w.no] = w
      BY <1>1, <1>2, <3>1
    <3> QED BY <3>2
  <2>2. CASE w.pilot
    <3> DEFINE p == w.prompt
               j == w.no
               y == UpTo(ReusedOf, p - 1) + j
    <3>1. w = [prompt |-> p, pilot |-> TRUE, no |-> j] /\ p \in Prompts /\ j \in 1 .. ReusedOf[p]
      BY <2>2 DEF Wanted, Responses
    <3>2. PilotRows[y] = PilotRow(p, j)
      BY <3>1, PilotShape
    <3>3. y \in 1 .. n
      <4>1. /\ UpTo(ReusedOf, p) = UpTo(ReusedOf, p - 1) + ReusedOf[p]
            /\ UpTo(ReusedOf, p - 1) \in Nat /\ ReusedOf[p] \in Nat
        BY <1>r, <3>1, UpToShape
      <4>2. UpTo(ReusedOf, p) <= n
        <5> DEFINE off == [q \in 0 .. BatchSize |-> UpTo(ReusedOf, q)]
        <5>1. /\ \A q \in 0 .. BatchSize : UpTo(ReusedOf, q) \in Nat
              /\ UpTo(ReusedOf, BatchSize) = Total(ReusedOf)
              /\ \A q \in Prompts : UpTo(ReusedOf, q) = UpTo(ReusedOf, q - 1) + ReusedOf[q]
                                    /\ q - 1 \in 0 .. BatchSize /\ q \in 0 .. BatchSize
          BY <1>r, UpToShape
        <5>2. BatchSize \in Nat /\ Prompts = 1 .. BatchSize /\ \A q \in Prompts : ReusedOf[q] \in Nat
          BY <1>r, PromptsType
        <5>3. \A q \in 0 .. BatchSize : off[q] = UpTo(ReusedOf, q)
          OBVIOUS
        <5> HIDE DEF off
        <5>4. \A q \in 0 .. BatchSize : off[q] \in Nat
          BY <5>1, <5>3
        <5>5. ASSUME NEW q \in 1 .. BatchSize PROVE off[q - 1] <= off[q]
          <6>1. q \in Prompts /\ q - 1 \in 0 .. BatchSize /\ q \in 0 .. BatchSize
            BY <5>1, <5>2
          <6>2. off[q] = off[q - 1] + ReusedOf[q] /\ off[q - 1] \in Nat /\ ReusedOf[q] \in Nat
            BY <5>1, <5>2, <5>3, <6>1
          <6> QED BY <6>2
        <5>6. BatchSize \in 0 .. BatchSize /\ p \in 0 .. BatchSize
          BY <3>1, <5>2
        <5>7. off[p] <= off[BatchSize]
          BY <5>2, <5>4, <5>5, <5>6, OffsetsGrow
        <5>8. n = Total(ReusedOf)
          BY PilotShape DEF n
        <5> QED BY <5>1, <5>3, <5>6, <5>7, <5>8
      <4> HIDE DEF p
      <4> QED BY <1>1, <3>1, <4>1, <4>2
    <3>4. m + y \in 1 .. Len(b) /\ m < m + y /\ (m + y) - m = y
      <4> HIDE DEF y
      <4> QED BY <1>1, <3>3
    <3>5. b[m + y] = PilotRow(p, j)
      BY <1>1, <3>2, <3>4
    <3>6. f[m + y] = w
      <4>1. PilotRow(p, j).response = [prompt |-> p, pilot |-> TRUE, no |-> j]
        BY DEF PilotRow
      <4>2. f[m + y] = b[m + y].response
        BY <1>2, <3>4
      <4> HIDE DEF p, j, y
      <4> QED BY <3>1, <3>5, <4>1, <4>2
    <3> QED BY <3>4, <3>6
  <2> QED BY <2>1, <2>2
<1>7. f \in Bijection(1 .. Len(b), Wanted)
  <2>1. IsInjective(f)
    BY <1>4, <1>5 DEF IsInjective
  <2>2. f \in Injection(1 .. Len(b), Wanted)
    BY <1>4, <2>1 DEF Injection
  <2>3. f \in Surjection(1 .. Len(b), Wanted)
    BY <1>4, <1>6 DEF Surjection
  <2> QED BY <2>2, <2>3 DEF Bijection
<1>8. Len(b) \in Nat /\ b = [i \in 1 .. Len(b) |-> b[i]]
  BY <1>1
<1>9. n = Total(ReusedOf)
  BY PilotShape DEF n
<1>10. IsBatch(b)
  BY <1>3, <1>7, <1>8 DEF IsBatch, f
<1> QED BY <1>1, <1>9, <1>10 DEF b, m

-----------------------------------------------------------------------------
(* The inductive invariant                                                     *)

\* What the rows of b and of c say of prompts and responses is the same.
SameRows(b, c) ==
  /\ Len(c) = Len(b)
  /\ \A i \in 1 .. Len(b) : /\ c[i].meta = b[i].meta /\ c[i].prompts = b[i].prompts
                            /\ c[i].response = b[i].response

\* A column of extra information is about the rows, if it is as long as they are;
\* it is if the data sources score alike.
ColumnOK(column, b) ==
  /\ Len(column) = Len(b) => column = ResponsesOf(b)
  /\ config.dict_sources \in {{}, Prompts} => Len(column) = Len(b)

\* s is what rank r returns of its d rows, from k micro batches.
LogProbs == [old_log_probs : Responses, entropys : Responses]
ScoredAs(s, b, r, d, k) ==
  /\ s \in Seq(LogProbs) /\ Len(s) = d
  /\ \A i \in 1 .. d : /\ s[i].old_log_probs = b[(r - 1) * d + i].response
                       /\ k = 1 => s[i].entropys = b[(r - 1) * d + i].response

\* Types, and that the ranks of a call return once each.
TypeInv ==
  /\ config \in Settings
  /\ budget \in [Prompts -> 0 .. config.max_budget] /\ len \in [Prompts -> config.lens]
  /\ pc \in {"budget", "generate", "assemble", "balance", "reward", "score", "union",
             "advantage", "trained", "failed"}
  /\ sample_size \in [Prompts -> Nat] /\ pilot_reuse \in [Prompts -> 0 .. Pilots]
  /\ outputs = [r \in Ranks |-> outputs[r]]
  /\ arrived \in Seq(Ranks) /\ IsInjective(arrived)
  /\ pc \in {"budget", "balance", "reward"} => arrived = <<>>
  /\ pc = "budget" => Total(budget) > 0

\* A rank that has returned has answered its chunk of the copies.
GenerateInv ==
  pc \in {"generate", "assemble"} =>
    /\ Sampled
    /\ \A r \in Ranks : Contains(arrived, r) \/ pc = "assemble" => outputs[r] = AnswersOf(r)

\* From the assembly on the rows have every response wanted once.
BatchInv ==
  Assembled => /\ Sampled /\ IsBatch(batch)
               /\ Len(batch) = N * Total(sample_size) + Total(ReusedOf)

\* The call of the manager is about the rows in their order: Balance is over when it
\* starts, and it is over when the advantages are computed.
RewardInv ==
  /\ reward = [at |-> reward.at, rows |-> reward.rows, scores |-> reward.scores,
               extra |-> reward.extra]
  /\ reward.at \in {"idle", "first", "second", "done", "raised"}
  /\ pc \in {"budget", "generate", "assemble", "balance"} => reward.at = "idle"
  /\ reward.at \in {"first", "second"} /\ pc # "failed" =>
       /\ pc \in {"reward", "score", "union", "advantage"}
       /\ ~ config.async => pc = "reward"
       /\ reward.rows = [i \in 1 .. Len(reward.rows) |-> reward.rows[i]]
       /\ SameRows(batch, reward.rows)
  /\ reward.at = "done" /\ pc # "failed" =>
       /\ Assembled
       /\ reward.scores = ResponsesOf(batch)
       /\ \A column \in reward.extra : ColumnOK(column, batch)

\* The rows are in chunks of one length, and a rank that has returned its scores has
\* returned those of its chunk, in the order of the chunk.
ScoreInv ==
  /\ pc \in {"reward", "score", "union", "advantage", "trained"} => (Len(batch) % World) = 0
  /\ pc \in {"score", "union"} =>
       \A r \in Ranks : Contains(arrived, r) \/ pc = "union" =>
         ScoredAs(outputs[r], batch, r, Len(batch) \div World, num_micro_batches)

\* The scores have joined their rows.
AdvantageInv ==
  pc \in {"advantage", "trained"} =>
    \A i \in 1 .. Len(batch) :
      /\ batch[i].old_log_probs = batch[i].response
      /\ num_micro_batches = 1 => batch[i].entropys = batch[i].response

\* The result of the manager has joined its rows.
TrainedInv ==
  pc = "trained" =>
    /\ reward.at = "done"
    /\ \A i \in 1 .. Len(batch) : /\ batch[i].token_level_scores.of = batch[i].response
                                  /\ batch[i].extra \in SUBSET {batch[i].response}

IInv ==
  /\ TypeInv /\ GenerateInv /\ BatchInv /\ RewardInv /\ ScoreInv /\ AdvantageInv /\ TrainedInv
  /\ BatchGetsThrough /\ EveryPromptCountsOnce

-----------------------------------------------------------------------------
(* Reordering the rows                                                         *)

\* Rows in another order are the same rows.
LEMMA Reordered ==
  ASSUME NEW b, IsBatch(b), NEW o \in Bijection(1 .. Len(b), 1 .. Len(b)),
         NEW c, c = [i \in 1 .. Len(b) |-> b[o[i]]]
  PROVE  IsBatch(c) /\ Len(c) = Len(b)
<1> DEFINE n == Len(b)
<1>1. n \in Nat /\ ResponsesOf(b) \in Bijection(1 .. n, Wanted)
  BY DEF IsBatch
<1>2. c \in Seq({b[i] : i \in 1 .. n}) /\ Len(c) = n /\ c = [i \in 1 .. n |-> c[i]]
  BY <1>1, \A i \in 1 .. n : o[i] \in 1 .. n DEF Bijection, Injection
<1>3. \A i \in 1 .. n : o[i] \in 1 .. n /\ c[i] = b[o[i]]
  BY DEF Bijection, Injection
<1>4. [i \in 1 .. n |-> ResponsesOf(b)[o[i]]] \in Bijection(1 .. n, Wanted)
  BY <1>1, Fun_BijTransitive
<1>5. ResponsesOf(c) = [i \in 1 .. n |-> ResponsesOf(b)[o[i]]]
  BY <1>2, <1>3 DEF ResponsesOf
<1>6. \A i \in 1 .. n : c[i].meta = c[i].response.prompt /\ c[i].prompts = c[i].response.prompt
  BY <1>3 DEF IsBatch
<1> QED BY <1>1, <1>2, <1>4, <1>5, <1>6 DEF IsBatch

\* Rows with the same prompts and responses are a batch too.
LEMMA SameBatch ==
  ASSUME NEW b, IsBatch(b), NEW c, SameRows(b, c), c = [i \in 1 .. Len(c) |-> c[i]]
  PROVE  IsBatch(c) /\ ResponsesOf(c) = ResponsesOf(b)
<1>1. ResponsesOf(c) = ResponsesOf(b)
  BY DEF SameRows, ResponsesOf
<1> QED BY <1>1 DEF SameRows, IsBatch

LEMMA SameRowsTwice ==
  ASSUME NEW b, NEW c, NEW d, SameRows(b, c), SameRows(b, d)
  PROVE  SameRows(d, c)
BY DEF SameRows

\* What does not change while the tables do not.
LEMMA TablesKept ==
  ASSUME UNCHANGED <<config, sample_size, pilot_reuse>>
  PROVE  /\ World' = World /\ Ranks' = Ranks /\ N' = N /\ Pilots' = Pilots
         /\ ReusedOf' = ReusedOf /\ Wanted' = Wanted /\ (Sampled' <=> Sampled)
         /\ Share' = Share
<1>1. World' = World /\ Ranks' = Ranks /\ N' = N /\ Pilots' = Pilots
  BY DEF World, Ranks, N, Pilots
<1>2. ReusedOf' = ReusedOf
  BY DEF ReusedOf
<1>3. Wanted' = Wanted
  BY <1>1, <1>2 DEF Wanted
<1> QED BY <1>1, <1>2, <1>3 DEF Sampled, Share

-----------------------------------------------------------------------------
(* The number of micro batches                                                 *)

LensOf(b, l, d, r) == [i \in 1 .. d |-> l[b[(r - 1) * d + i].response.prompt]]
Micro(b, l, c) ==
  Max({ceildiv(Total(LensOf(b, l, Len(b) \div (c.nnodes * c.n_gpus_per_node), r)), c.max_token_len)
       : r \in 1 .. c.nnodes * c.n_gpus_per_node})

\* Rows in equal chunks.
Divided(b) == Len(b) \in Nat /\ b = [i \in 1 .. Len(b) |-> b[i]] /\ (Len(b) % World) = 0

LEMMA DividedRows ==
  ASSUME config \in Settings, NEW b, Divided(b), NEW d, d = Len(b) \div World
  PROVE  /\ d \in Nat /\ Len(b) = World * d
         /\ \A r \in Ranks : ChunkIs(Chunk(b, r), b, r, d, {b[i] : i \in 1 .. Len(b)})
<1>1. World \in Nat \ {0}
  BY SettingType
<1>2. d \in Nat /\ Len(b) = World * d
  BY <1>1, EqualParts DEF Divided
<1>3. b \in Seq({b[i] : i \in 1 .. Len(b)})
  BY DEF Divided
<1> QED BY <1>2, <1>3, ChunkEntries

LEMMA ChunkLengths ==
  ASSUME config \in Settings, NEW b, Divided(b), NEW d, d = Len(b) \div World, NEW r \in Ranks
  PROVE  Lengths(Chunk(b, r)) = LensOf(b, len, d, r)
<1> DEFINE u == Chunk(b, r)
<1>1. ChunkIs(u, b, r, d, {b[i] : i \in 1 .. Len(b)})
  BY DividedRows
<1> HIDE DEF u
<1>2. DOMAIN u = 1 .. d /\ \A i \in 1 .. d : u[i] = b[(r - 1) * d + i]
  BY <1>1 DEF ChunkIs
<1>3. Lengths(u) = LensOf(b, len, d, r)
  BY <1>2 DEF Lengths, LensOf
<1> QED BY <1>3 DEF u

LEMMA MicroIs ==
  config \in Settings /\ Divided(batch) => num_micro_batches = Micro(batch, len, config)
<1> SUFFICES ASSUME config \in Settings, Divided(batch)
             PROVE  num_micro_batches = Micro(batch, len, config)
  OBVIOUS
<1> DEFINE d == Len(batch) \div World
<1>1. \A r \in Ranks : Lengths(Chunk(batch, r)) = LensOf(batch, len, d, r)
  BY ChunkLengths
<1>2. \A r \in Ranks :
        MicroBatches(r) = ceildiv(Total(LensOf(batch, len, d, r)), config.max_token_len)
  BY <1>1 DEF MicroBatches
<1>3. {MicroBatches(r) : r \in Ranks}
        = {ceildiv(Total(LensOf(batch, len, d, r)), config.max_token_len)
           : r \in 1 .. config.nnodes * config.n_gpus_per_node}
  BY <1>2 DEF Ranks, World
<1> QED BY <1>3 DEF num_micro_batches, Micro, World

LEMMA MicroIsNext ==
  (config \in Settings /\ Divided(batch) => num_micro_batches = Micro(batch, len, config))'
BY MicroIs, PTL

\* It depends on the responses of the rows alone.
LEMMA MicroSame ==
  ASSUME config \in Settings, NEW b, Divided(b), NEW c, SameRows(b, c)
  PROVE  Micro(c, len, config) = Micro(b, len, config)
<1> DEFINE d == Len(b) \div World
<1>1. d \in Nat /\ Len(b) = World * d /\ Len(c) = Len(b)
  BY DividedRows DEF SameRows
<1>2. World \in Nat \ {0} /\ Ranks = 1 .. World /\ World = config.nnodes * config.n_gpus_per_node
  BY SettingType DEF World
<1>3. ASSUME NEW r \in Ranks PROVE LensOf(c, len, d, r) = LensOf(b, len, d, r)
  <2>1. ASSUME NEW i \in 1 .. d PROVE (r - 1) * d + i \in 1 .. Len(b)
    <3>1. ChunkIs(Chunk(b, r), b, r, d, {b[j] : j \in 1 .. Len(b)})
      BY DividedRows
    <3> QED BY <3>1 DEF ChunkIs
  <2>2. ASSUME NEW i \in 1 .. d
        PROVE  c[(r - 1) * d + i].response = b[(r - 1) * d + i].response
    BY <2>1 DEF SameRows
  <2> HIDE DEF d
  <2> QED BY <2>2 DEF LensOf
<1> QED BY <1>1, <1>2, <1>3 DEF Micro

\* Rounded up, numbers of at most m each fit d times.
LEMMA CeilDivAtMost ==
  ASSUME NEW m \in Nat \ {0}, NEW d \in Nat, NEW s \in Nat, s <= m * d
  PROVE  ceildiv(s, m) \in 0 .. d
<1>1. (- s) \div m \in Int /\ ((- s) % m) \in 0 .. m - 1 /\ - s = m * ((- s) \div m) + ((- s) % m)
  OBVIOUS
<1> DEFINE q == (- s) \div m
<1>2. m * q <= 0 /\ m * q > - m * (d + 1)
  BY <1>1
<1>3. q <= 0 /\ q > - (d + 1)
  OBVIOUS
<1> QED BY <1>1, <1>3 DEF ceildiv

\* The rows are of prompts.
LEMMA BatchPrompts ==
  ASSUME NEW b, IsBatch(b)
  PROVE  Len(b) \in Nat /\ \A i \in 1 .. Len(b) : b[i].response \in Wanted /\ b[i].response \in Responses
                            /\ b[i].response.prompt \in Prompts
<1>1. ResponsesOf(b) \in [1 .. Len(b) -> Wanted] /\ Len(b) \in Nat
  BY DEF IsBatch, Bijection, Injection
<1>2. \A i \in 1 .. Len(b) : b[i].response \in Wanted
  BY <1>1 DEF ResponsesOf
<1>3. Wanted \in SUBSET Responses
  BY DEF Wanted
<1> QED BY <1>1, <1>2, <1>3 DEF Responses

\* No rank needs more micro batches than it has rows.
LEMMA MicroBatchesFit ==
  ASSUME config \in Settings, len \in [Prompts -> config.lens], NEW b, IsBatch(b), Divided(b)
  PROVE  Micro(b, len, config) \in 0 .. Len(b) \div World
<1> DEFINE d == Len(b) \div World
           count(r) == ceildiv(Total(LensOf(b, len, d, r)), config.max_token_len)
<1>1. d \in Nat /\ World \in Nat \ {0} /\ Ranks = 1 .. World /\ World = config.nnodes * config.n_gpus_per_node
      /\ config.max_token_len \in Nat \ {0} /\ config.lens \in SUBSET (1 .. config.max_token_len)
  BY DividedRows, SettingType DEF World
<1>2. ASSUME NEW r \in Ranks PROVE count(r) \in 0 .. d
  <2> DEFINE f == LensOf(b, len, d, r)
  <2>1. ASSUME NEW i \in 1 .. d PROVE f[i] \in 1 .. config.max_token_len
    <3>1. (r - 1) * d + i \in 1 .. Len(b)
      <4>1. ChunkIs(Chunk(b, r), b, r, d, {b[j] : j \in 1 .. Len(b)})
        BY DividedRows
      <4> QED BY <4>1 DEF ChunkIs
    <3>2. b[(r - 1) * d + i].response.prompt \in Prompts
      BY <3>1, BatchPrompts
    <3>3. f[i] = len[b[(r - 1) * d + i].response.prompt]
      BY DEF LensOf
    <3> QED BY <1>1, <3>2, <3>3
  <2>2. DOMAIN f = 1 .. d
    BY DEF LensOf
  <2> HIDE DEF f, d
  <2>3. IsFiniteSet(1 .. d) /\ Cardinality(1 .. d) = d
    BY <1>1, OneTo
  <2>4. \A i \in 1 .. d : f[i] \in Nat /\ f[i] \in Int /\ f[i] <= config.max_token_len
    BY <1>1, <2>1
  <2>5. Sum(f, 1 .. d) \in Nat
    BY <2>3, <2>4, SumOfNaturals
  <2>6. Sum(f, 1 .. d) <= config.max_token_len * d
    <3>1. config.max_token_len \in Int
      BY <1>1
    <3> QED BY <2>3, <2>4, <3>1, SumAtMost
  <2>7. Total(f) = Sum(f, 1 .. d)
    BY <2>2, TotalIsSum
  <2>8. ceildiv(Total(f), config.max_token_len) \in 0 .. d
    BY <1>1, <2>5, <2>6, <2>7, CeilDivAtMost
  <2> QED BY <2>8 DEF f
<1>3. {count(r) : r \in Ranks} \in SUBSET (0 .. d) /\ {count(r) : r \in Ranks} # {}
  <2> HIDE DEF count, d
  <2>1. 1 \in Ranks
    BY <1>1
  <2> QED BY <1>2, <2>1
<1>4. Micro(b, len, config) = Max({count(r) : r \in Ranks})
  BY <1>1 DEF Micro
<1>5. Max({count(r) : r \in Ranks}) \in 0 .. d
  <2> DEFINE S == {count(r) : r \in Ranks}
  <2> HIDE DEF count, d
  <2>1. S \in SUBSET (0 .. d) /\ S # {}
    BY <1>3
  <2> HIDE DEF S
  <2>2. Max(S) \in S
    BY <1>1, <2>1, LargestOf
  <2>3. Max(S) \in 0 .. d
    BY <2>1, <2>2
  <2> QED BY <2>3 DEF S
<1> QED BY <1>4, <1>5

\* What a rank returns of rows whose micro batches are part.
RankResult(rows, part) ==
  LET indices == Listed(part)
      scored == [j \in DOMAIN rows |-> rows[indices[j]].response]
  IN  [i \in DOMAIN rows |->
        [old_log_probs |-> Reverted(scored, indices)[i], entropys |-> scored[i]]]

\* Put back in the order of the rows, the log probabilities are those of the rows.
LEMMA Scored ==
  ASSUME config \in Settings, NEW b, IsBatch(b), Divided(b), NEW r \in Ranks,
         NEW d, d = Len(b) \div World, NEW k \in Nat, NEW part \in [1 .. d -> 1 .. k]
  PROVE  ScoredAs(RankResult(Chunk(b, r), part), b, r, d, k)
<1> DEFINE rows == Chunk(b, r)
           indices == Listed(part)
           scored == [j \in DOMAIN rows |-> rows[indices[j]].response]
           s == [i \in DOMAIN rows |->
                  [old_log_probs |-> Reverted(scored, indices)[i], entropys |-> scored[i]]]
<1>1. d \in Nat
  BY DividedRows
<1>2. DOMAIN rows = 1 .. d /\ \A i \in 1 .. d : (r - 1) * d + i \in 1 .. Len(b) /\ rows[i] = b[(r - 1) * d + i]
  <2>1. ChunkIs(Chunk(b, r), b, r, d, {b[i] : i \in 1 .. Len(b)})
    BY DividedRows
  <2> QED BY <2>1 DEF ChunkIs
<1>3. \A i \in 1 .. d : rows[i].response \in Responses
  BY <1>2, BatchPrompts, SMTT(40)
<1>4. part \in [1 .. d -> Nat]
  OBVIOUS
<1>5. indices \in Bijection(1 .. d, 1 .. d)
  BY <1>1, <1>4, ListedOnce
<1>6. /\ DOMAIN indices = 1 .. d /\ \A j \in 1 .. d : indices[j] \in 1 .. d
      /\ \A i \in 1 .. d : \E j \in 1 .. d : indices[j] = i
  BY <1>5 DEF Bijection, Injection, Surjection
<1>7. \A j \in 1 .. d : scored[j] = rows[indices[j]].response /\ scored[j] \in Responses
  BY <1>2, <1>3, <1>6
<1>8. ASSUME NEW i \in 1 .. d PROVE Reverted(scored, indices)[i] = rows[i].response
  <2> DEFINE j == CHOOSE x \in DOMAIN indices : indices[x] = i
  <2>1. j \in 1 .. d /\ indices[j] = i
    BY <1>6
  <2>2. Reverted(scored, indices)[i] = scored[j]
    BY <1>2 DEF Reverted
  <2> HIDE DEF j
  <2> QED BY <1>7, <2>1, <2>2
<1>9. ASSUME NEW i \in 1 .. d, k = 1 PROVE scored[i] = rows[i].response
  <2>1. indices[i] = i
    BY <1>1, <1>9, ListedOfOne
  <2> QED BY <1>7, <2>1
<1>10. s = [i \in 1 .. d |-> s[i]]
  BY <1>2
<1>11. ASSUME NEW i \in 1 .. d
       PROVE  /\ s[i] \in LogProbs /\ s[i].old_log_probs = b[(r - 1) * d + i].response
              /\ k = 1 => s[i].entropys = b[(r - 1) * d + i].response
  <2>1. s[i] = [old_log_probs |-> rows[i].response, entropys |-> scored[i]]
    BY <1>2, <1>8
  <2>2. rows[i].response \in Responses /\ scored[i] \in Responses
        /\ rows[i].response = b[(r - 1) * d + i].response
    BY <1>2, <1>3, <1>7
  <2>3. s[i] \in LogProbs
    <3>1. [old_log_probs |-> rows[i].response, entropys |-> scored[i]] \in LogProbs
      <4> HIDE DEF rows, scored
      <4> QED BY <2>2 DEF LogProbs
    <3> QED BY <2>1, <3>1
  <2>4. s[i].old_log_probs = rows[i].response /\ s[i].entropys = scored[i]
    <3> DEFINE t == [old_log_probs |-> rows[i].response, entropys |-> scored[i]]
    <3>1. t.old_log_probs = rows[i].response /\ t.entropys = scored[i]
      OBVIOUS
    <3>2. s[i] = t
      BY <2>1
    <3> HIDE DEF t
    <3> QED BY <3>1, <3>2
  <2>5. k = 1 => scored[i] = rows[i].response
    BY <1>9
  <2> QED BY <2>2, <2>3, <2>4, <2>5
<1>12. s \in Seq(LogProbs) /\ Len(s) = d
  <2>1. \A i \in 1 .. d : s[i] \in LogProbs
    BY <1>11
  <2> HIDE DEF s
  <2> QED BY ONLY <1>1, <1>10, <2>1
<1>13. ScoredAs(s, b, r, d, k)
  <2> HIDE DEF s
  <2> QED BY <1>11, <1>12 DEF ScoredAs
<1> QED BY <1>13 DEF RankResult

\* Joined, what the ranks return is of the rows in their order.
LEMMA AllScored ==
  ASSUME config \in Settings, NEW b, Divided(b), NEW d, d = Len(b) \div World, NEW k,
         outputs = [r \in Ranks |-> outputs[r]],
         \A r \in Ranks : ScoredAs(outputs[r], b, r, d, k)
  PROVE  \A x \in 1 .. Len(b) : /\ Collected[x].old_log_probs = b[x].response
                                /\ k = 1 => Collected[x].entropys = b[x].response
<1>1. d \in Nat /\ Len(b) = World * d /\ World \in Nat \ {0} /\ Ranks = 1 .. World
  BY DividedRows, SettingType
<1> DEFINE c == [r \in Ranks |-> outputs[r]]
<1>2. Len(c) = World /\ \A r \in 1 .. World : c[r] = outputs[r]
  BY <1>1
<1>3. \A r \in 1 .. World : c[r] \in Seq(LogProbs) /\ Len(c[r]) = d
  BY <1>1, <1>2 DEF ScoredAs
<1>4. Collected = FlattenSeq(c)
  BY DEF Collected
<1> HIDE DEF c
<1>5. EqualJoin(FlattenSeq(c), c, World, d, LogProbs)
  BY <1>1, <1>2, <1>3, JoinOfEqual
<1>6. \A r \in 1 .. World : \A i \in 1 .. d : Collected[(r - 1) * d + i] = outputs[r][i]
  <2> SUFFICES ASSUME NEW r \in 1 .. World, NEW i \in 1 .. d
               PROVE  Collected[(r - 1) * d + i] = outputs[r][i]
    OBVIOUS
  <2>1. FlattenSeq(c)[(r - 1) * d + i] = c[r][i]
    BY <1>5 DEF EqualJoin
  <2> QED BY <1>2, <1>4, <2>1
<1>7. ASSUME NEW x \in 1 .. Len(b)
      PROVE  /\ Collected[x].old_log_probs = b[x].response
             /\ k = 1 => Collected[x].entropys = b[x].response
  <2>1. \E r \in 1 .. World, i \in 1 .. d : x = (r - 1) * d + i
    BY <1>1, PartOfNumber
  <2>2. PICK r \in 1 .. World, i \in 1 .. d : x = (r - 1) * d + i
    BY <2>1
  <2>3. /\ outputs[r][i].old_log_probs = b[(r - 1) * d + i].response
        /\ k = 1 => outputs[r][i].entropys = b[(r - 1) * d + i].response
    BY <1>1 DEF ScoredAs
  <2>4. Collected[(r - 1) * d + i] = outputs[r][i]
    BY <1>6
  <2> QED BY <2>2, <2>3, <2>4
<1> QED BY <1>7

\* A list of the scores that are dicts is about the rows, if it is as long.
LEMMA DictColumnOK ==
  ASSUME config \in Settings, NEW b, IsBatch(b), NEW rows, SameRows(b, rows),
         rows = [i \in 1 .. Len(rows) |-> rows[i]], NEW column \in DictColumn(rows)
  PROVE  ColumnOK(column, b)
<1> DEFINE n == Len(b)
           S == {i \in DOMAIN rows : rows[i].meta \in config.dict_sources}
           c == [k \in DOMAIN InOrder(S) |-> rows[InOrder(S)[k]].response]
<1>1. n \in Nat /\ Len(rows) = n /\ DOMAIN rows = 1 .. n
  BY BatchPrompts DEF SameRows
<1>2. S # {} /\ column = c
  BY DEF DictColumn
<1>3. S \in SUBSET (1 .. n) /\ IsFiniteSet(S) /\ Cardinality(S) \in Nat
  <2>1. S \in SUBSET (1 .. n) /\ IsFiniteSet(1 .. n)
    BY <1>1, OneTo
  <2> HIDE DEF S
  <2> QED BY <2>1, FS_Subset, FS_CardinalityType
<1>4. DOMAIN InOrder(S) = 1 .. Cardinality(S)
  BY DEF InOrder
<1>5. Len(column) = Cardinality(S)
  <2> HIDE DEF S
  <2> QED BY <1>2, <1>3, <1>4
<1>6. ASSUME Len(column) = n PROVE column = ResponsesOf(b)
  <2>1. InOrder(S) = [k \in 1 .. n |-> k]
    <3> HIDE DEF S, n
    <3> QED BY <1>1, <1>3, <1>5, <1>6, InOrderOfAll
  <2>2. c = [k \in 1 .. n |-> rows[k].response]
    <3> HIDE DEF S
    <3> QED BY <2>1
  <2>3. \A k \in 1 .. n : rows[k].response = b[k].response
    BY <1>1 DEF SameRows
  <2> QED BY <1>2, <2>2, <2>3 DEF ResponsesOf
<1>7. ASSUME config.dict_sources \in {{}, Prompts} PROVE Len(column) = n
  <2>1. config.dict_sources = Prompts
    BY <1>2, <1>7
  <2>2. \A i \in 1 .. n : rows[i].meta \in Prompts
    <3> SUFFICES ASSUME NEW i \in 1 .. n PROVE rows[i].meta \in Prompts
      OBVIOUS
    <3>1. rows[i].meta = b[i].meta
      BY <1>1 DEF SameRows
    <3>2. b[i].meta = b[i].response.prompt
      BY DEF IsBatch
    <3>3. b[i].response.prompt \in Prompts
      BY BatchPrompts
    <3> QED BY <3>1, <3>2, <3>3
  <2>3. S = 1 .. n
    BY <1>1, <2>1, <2>2
  <2>4. Cardinality(1 .. n) = n
    BY <1>1, OneTo
  <2> QED BY <1>5, <2>3, <2>4
<1> QED BY <1>6, <1>7 DEF ColumnOK

-----------------------------------------------------------------------------
(* Spending the budgets                                                        *)

LEMMA SmallerOf ==
  ASSUME NEW a \in Int, NEW b \in Int
  PROVE  Min({a, b}) = IF a <= b THEN a ELSE b
<1>1. \E x \in {a, b} : \A y \in {a, b} : x <= y
  OBVIOUS
<1>2. Min({a, b}) \in {a, b} /\ \A y \in {a, b} : Min({a, b}) <= y
  BY <1>1 DEF Min
<1> QED BY <1>2

LEMMA LargerOf ==
  ASSUME NEW a \in Int, NEW b \in Int
  PROVE  Max({a, b}) = IF a >= b THEN a ELSE b
<1>1. \E x \in {a, b} : \A y \in {a, b} : x >= y
  OBVIOUS
<1>2. Max({a, b}) \in {a, b} /\ \A y \in {a, b} : Max({a, b}) >= y
  BY <1>1 DEF Max
<1> QED BY <1>2

BudgetTyped == config \in Settings /\ budget \in [Prompts -> 0 .. config.max_budget]

LEMMA ReusedType ==
  ASSUME BudgetTyped
  PROVE  /\ Reused \in [Prompts -> 0 .. Pilots] /\ Fresh \in [Prompts -> Nat]
         /\ Total(Reused) \in Nat /\ Total(Fresh) \in Nat
         /\ Pilots = 0 => Total(Fresh) = Total(budget) /\ Total(Reused) = 0
<1>1. Pilots \in Nat /\ config.max_budget \in Nat /\ IsFiniteSet(Prompts)
  BY SettingType, PromptsType DEF BudgetTyped
<1>2. ASSUME NEW p \in Prompts
      PROVE  /\ Reused[p] \in 0 .. Pilots /\ Fresh[p] \in Nat
             /\ Pilots = 0 => Fresh[p] = budget[p]
  <2>1. budget[p] \in Nat
    BY <1>1 DEF BudgetTyped
  <2>2. Min({budget[p], Pilots}) = IF budget[p] <= Pilots THEN budget[p] ELSE Pilots
    BY <1>1, <2>1, SmallerOf
  <2>3. Reused[p] = Min({budget[p], Pilots}) /\ Fresh[p] = budget[p] - Reused[p]
    BY DEF Reused, Fresh
  <2> QED BY <1>1, <2>1, <2>2, <2>3
<1>3. Reused \in [Prompts -> 0 .. Pilots]
  <2>1. Reused = [p \in Prompts |-> Reused[p]]
    BY DEF Reused
  <2> QED BY <1>2, <2>1
<1>4. Fresh \in [Prompts -> Nat]
  <2>1. Fresh = [p \in Prompts |-> Fresh[p]]
    BY DEF Fresh
  <2> QED BY <1>2, <2>1
<1>5. Total(Reused) \in Nat /\ Total(Fresh) \in Nat
  <2>1. /\ \A p \in Prompts : Reused[p] \in Nat /\ Fresh[p] \in Nat
    BY <1>1, <1>2
  <2>2. Sum(Reused, Prompts) \in Nat /\ Sum(Fresh, Prompts) \in Nat
    BY <1>1, <2>1, SumOfNaturals
  <2> QED BY <1>3, <1>4, <2>2, TotalIsSum
<1>6. ASSUME Pilots = 0 PROVE Total(Fresh) = Total(budget) /\ Total(Reused) = 0
  <2>1. \A p \in Prompts : Reused[p] = 0 /\ Fresh[p] = budget[p]
    BY <1>2, <1>6
  <2>2. Sum(Fresh, Prompts) = Sum(budget, Prompts)
    BY <1>1, <2>1, SumSame
  <2>3. Sum(Reused, Prompts) = 0
    <3>1. Sum(Reused, Prompts) = 0 * Cardinality(Prompts)
      BY <1>1, <2>1, SumConstant, 0 \in Int
    <3> QED BY <3>1, PromptsType
  <2>4. DOMAIN budget = Prompts /\ DOMAIN Fresh = Prompts /\ DOMAIN Reused = Prompts
    BY <1>3, <1>4 DEF BudgetTyped
  <2> QED BY <2>2, <2>3, <2>4, TotalIsSum
<1> QED BY <1>3, <1>4, <1>5, <1>6

LEMMA DeficitType ==
  ASSUME BudgetTyped
  PROVE  /\ deficit \in 0 .. config.n_gpus_per_node - 1 /\ config.n_gpus_per_node \in Nat \ {0}
         /\ Total(Fresh) + Total(Reused) + deficit
              = config.n_gpus_per_node * ceildiv(Total(Fresh) + Total(Reused), config.n_gpus_per_node)
<1>1. config.n_gpus_per_node \in Nat \ {0} /\ Total(Fresh) + Total(Reused) \in Nat
  BY SettingType, ReusedType DEF BudgetTyped
<1>2. deficit = ((- (Total(Fresh) + Total(Reused))) % config.n_gpus_per_node)
  BY DEF deficit
<1> QED BY <1>1, <1>2, Missing

\* The copies that are added are as many as are missing.
LEMMA PaddedTotal ==
  ASSUME BudgetTyped, NEW f \in [Prompts -> Nat], NEW order \in Orders(f)
  PROVE  /\ Padded(f, order) \in [Prompts -> Nat]
         /\ Total(Padded(f, order)) = Total(f) + deficit
<1> DEFINE S == 0 .. deficit - 1
           at(p) == CHOOSE i \in 1 .. BatchSize : order[i] = p
           g == [t \in S |-> order[(t % BatchSize) + 1]]
           e == [p \in Prompts |-> Cardinality({t \in S : g[t] = p})]
           h == Padded(f, order)
<1>1. /\ BatchSize \in Nat \ {0} /\ IsFiniteSet(Prompts) /\ deficit \in Nat
  BY PromptsType, DeficitType
<1>2. /\ \A i \in 1 .. BatchSize : order[i] \in Prompts
      /\ \A i, j \in 1 .. BatchSize : order[i] = order[j] => i = j
      /\ \A p \in Prompts : \E i \in 1 .. BatchSize : order[i] = p
  <2>1. order \in Bijection(1 .. BatchSize, Prompts)
    BY DEF Orders
  <2>2. order \in [1 .. BatchSize -> Prompts]
    BY <2>1 DEF Bijection, Injection
  <2>3. IsInjective(order)
    BY <2>1 DEF Bijection, Injection
  <2> QED BY <2>1, <2>2, <2>3 DEF Bijection, Surjection, IsInjective
<1>3. \A p \in Prompts : at(p) \in 1 .. BatchSize /\ order[at(p)] = p
  BY <1>2
<1>4. \A t \in S : (t % BatchSize) + 1 \in 1 .. BatchSize /\ g[t] = order[(t % BatchSize) + 1]
  BY <1>1
<1>5. \A t \in S : g[t] \in Prompts
  BY <1>2, <1>4
<1>6. ASSUME NEW p \in Prompts
      PROVE  {t \in S : (t % BatchSize) + 1 = at(p)} = {t \in S : g[t] = p}
  <2>1. at(p) \in 1 .. BatchSize /\ order[at(p)] = p
    BY <1>3
  <2> HIDE DEF at, g
  <2>2. ASSUME NEW t \in S PROVE (t % BatchSize) + 1 = at(p) <=> g[t] = p
    BY <1>2, <1>4, <2>1
  <2> QED BY <2>2
<1>7. IsFiniteSet(S) /\ Cardinality(S) = deficit
  BY <1>1, FS_Interval
<1>8. ASSUME NEW p \in Prompts PROVE h[p] = f[p] + e[p] /\ e[p] \in Nat
  <2>1. h[p] = f[p] + Cardinality({t \in S : (t % BatchSize) + 1 = at(p)})
    BY DEF Padded
  <2>2. e[p] = Cardinality({t \in S : g[t] = p})
    OBVIOUS
  <2>3. e[p] \in Nat
    <3> DEFINE U == {t \in S : g[t] = p}
    <3>1. U \in SUBSET S
      OBVIOUS
    <3> HIDE DEF U, S, g
    <3>2. Cardinality(U) \in Nat
      BY <1>7, <3>1, FS_Subset, FS_CardinalityType
    <3> QED BY <2>2, <3>2 DEF U
  <2> HIDE DEF h, e, at, g, S
  <2> QED BY <1>6, <2>1, <2>2, <2>3
<1>9. Sum(e, Prompts) = deficit
  <2>1. Fibres(e, S, Prompts, g)
    BY <1>5 DEF Fibres
  <2> HIDE DEF e, g, S
  <2>2. Sum(e, Prompts) = Cardinality(S)
    BY <1>1, <1>7, <2>1, SumOfFibres
  <2> QED BY <1>7, <2>2
<1>10. h = [p \in Prompts |-> h[p]]
  BY DEF Padded
<1> HIDE DEF h, e, S, g, at
<1>11. h \in [Prompts -> Nat]
  <2>1. \A p \in Prompts : h[p] \in Nat
    BY <1>8
  <2> QED BY <1>10, <2>1
<1>12. Sum(h, Prompts) = Sum(f, Prompts) + Sum(e, Prompts)
  <2>1. \A p \in Prompts : f[p] \in Int /\ e[p] \in Int /\ h[p] = f[p] + e[p]
    BY <1>8
  <2> QED BY <1>1, <2>1, SumPlus
<1>13. Total(h) = Sum(h, Prompts) /\ Total(f) = Sum(f, Prompts)
  BY <1>11, TotalIsSum
<1> QED BY <1>9, <1>11, <1>12, <1>13 DEF h

-----------------------------------------------------------------------------
(* Every rollout once                                                          *)

\* The rows with a prompt's generated responses, or with its pilots.
RowsWith(c, p, pilot) ==
  {i \in 1 .. Len(c) : c[i].response.prompt = p /\ c[i].response.pilot = pilot}

\* Of these the ones numbered from a + 1 to b are wanted.
WantedFrom(p, pilot, a, b) ==
  \A w \in Responses : w.prompt = p /\ w.pilot = pilot => (w \in Wanted <=> a < w.no /\ w.no <= b)

\* Then there are b - a such rows.
LEMMA RowsOfRange ==
  ASSUME NEW c, IsBatch(c), NEW p \in Prompts, NEW pilot \in BOOLEAN,
         NEW a \in Nat, NEW b \in Nat, a <= b, WantedFrom(p, pilot, a, b)
  PROVE  Cardinality(RowsWith(c, p, pilot)) = b - a
<1> DEFINE S == {i \in 1 .. Len(c) : c[i].response.prompt = p /\ c[i].response.pilot = pilot}
           g == [i \in S |-> c[i].response.no]
<1>1. Len(c) \in Nat /\ \A i \in 1 .. Len(c) : c[i].response \in Wanted /\ c[i].response \in Responses
  BY BatchPrompts
<1>2. /\ \A i, j \in 1 .. Len(c) : c[i].response = c[j].response => i = j
      /\ \A w \in Wanted : \E i \in 1 .. Len(c) : c[i].response = w
  <2>1. ResponsesOf(c) \in Bijection(1 .. Len(c), Wanted)
    BY DEF IsBatch
  <2>2. IsInjective(ResponsesOf(c)) /\ \A w \in Wanted : \E i \in 1 .. Len(c) : ResponsesOf(c)[i] = w
    BY <2>1 DEF Bijection, Injection, Surjection
  <2>3. DOMAIN ResponsesOf(c) = 1 .. Len(c)
        /\ \A i \in 1 .. Len(c) : ResponsesOf(c)[i] = c[i].response
    BY DEF ResponsesOf
  <2> QED BY <2>2, <2>3 DEF IsInjective
<1>3. IsFiniteSet(S)
  <2>1. S \in SUBSET (1 .. Len(c)) /\ IsFiniteSet(1 .. Len(c))
    BY <1>1, OneTo
  <2> HIDE DEF S
  <2> QED BY <2>1, FS_Subset
<1>4. \A i \in S : /\ c[i].response = [prompt |-> p, pilot |-> pilot, no |-> c[i].response.no]
                   /\ g[i] = c[i].response.no /\ g[i] \in a + 1 .. b
  <2> SUFFICES ASSUME NEW i \in S
               PROVE  /\ c[i].response = [prompt |-> p, pilot |-> pilot, no |-> c[i].response.no]
                      /\ c[i].response.no \in a + 1 .. b
    OBVIOUS
  <2> DEFINE w == c[i].response
  <2>1. w \in Wanted /\ w \in Responses /\ w.prompt = p /\ w.pilot = pilot
    BY <1>1
  <2> HIDE DEF w
  <2>2. a < w.no /\ w.no <= b
    BY <2>1 DEF WantedFrom
  <2>3. w.no \in Nat /\ w = [prompt |-> p, pilot |-> pilot, no |-> w.no]
    BY <2>1 DEF Responses
  <2>4. w.no \in a + 1 .. b
    BY <2>2, <2>3
  <2> QED BY <2>3, <2>4 DEF w
<1>5. g \in [S -> a + 1 .. b]
  BY <1>4
<1>6. ASSUME NEW i \in S, NEW j \in S, g[i] = g[j] PROVE i = j
  BY <1>2, <1>4, <1>6
<1>7. ASSUME NEW k \in a + 1 .. b PROVE \E i \in S : g[i] = k
  <2> DEFINE w == [prompt |-> p, pilot |-> pilot, no |-> k]
  <2>1. w \in Responses /\ w.prompt = p /\ w.pilot = pilot /\ w.no = k
    BY DEF Responses
  <2> HIDE DEF w
  <2>2. w \in Wanted
    <3>1. a < k /\ k <= b
      OBVIOUS
    <3> QED BY <2>1, <3>1 DEF WantedFrom
  <2>3. PICK i \in 1 .. Len(c) : c[i].response = w
    BY <1>2, <2>2
  <2>4. i \in S
    BY <2>1, <2>3
  <2>5. g[i] = k
    BY <2>1, <2>3, <2>4
  <2> QED BY <2>4, <2>5
<1>8. g \in Bijection(S, a + 1 .. b)
  BY <1>5, <1>6, <1>7, Fun_IsBij
<1>9. ExistsBijection(S, a + 1 .. b)
  BY <1>8 DEF ExistsBijection
<1>10. Cardinality(a + 1 .. b) = Cardinality(S)
  <2> HIDE DEF S
  <2> QED BY <1>3, <1>9, FS_Bijection
<1>11. Cardinality(a + 1 .. b) = b - a
  BY SizeOfInterval
<1> QED BY <1>10, <1>11 DEF RowsWith

\* A batch has the responses wanted of every prompt once each.
LEMMA EachOnce ==
  ASSUME config \in Settings, Sampled, pilot_reuse \in [Prompts -> Nat], IsBatch(batch)
  PROVE  EveryRolloutOnce
<1>1. IsInjective([i \in DOMAIN batch |-> batch[i].response]) /\ DOMAIN batch = 1 .. Len(batch)
  <2>1. DOMAIN batch = 1 .. Len(batch)
    BY DEF IsBatch
  <2>2. ResponsesOf(batch) \in Bijection(1 .. Len(batch), Wanted)
    BY DEF IsBatch
  <2>3. IsInjective(ResponsesOf(batch))
    BY <2>2 DEF Bijection, Injection
  <2> QED BY <2>1, <2>3 DEF ResponsesOf
<1>2. ASSUME NEW p \in Prompts
      PROVE  Cardinality(RowsWith(batch, p, FALSE)) = N * sample_size[p]
  <2> DEFINE a == N * UpTo(sample_size, p - 1)
             b == N * UpTo(sample_size, p)
  <2>1. a \in Nat /\ b \in Nat /\ b = a + N * sample_size[p] /\ N * sample_size[p] \in Nat
    BY SharesGrow
  <2>2. WantedFrom(p, FALSE, a, b)
    BY DEF Wanted, WantedFrom
  <2> HIDE DEF a, b
  <2>3. a <= b /\ b - a = N * sample_size[p]
    BY <2>1
  <2>4. PICK pilot \in BOOLEAN : pilot = FALSE
    OBVIOUS
  <2>5. WantedFrom(p, pilot, a, b)
    BY <2>2, <2>4
  <2>6. Cardinality(RowsWith(batch, p, pilot)) = b - a
    BY <2>1, <2>3, <2>5, RowsOfRange
  <2> QED BY <2>3, <2>4, <2>6
<1>3. ASSUME NEW p \in Prompts, sample_size[p] > 0
      PROVE  Cardinality(RowsWith(batch, p, TRUE)) = pilot_reuse[p]
  <2>1. ReusedOf[p] = pilot_reuse[p] /\ pilot_reuse[p] \in Nat
    BY <1>3 DEF ReusedOf
  <2>2. WantedFrom(p, TRUE, 0, pilot_reuse[p])
    <3> SUFFICES ASSUME NEW w \in Responses, w.prompt = p, w.pilot = TRUE
                 PROVE  w \in Wanted <=> 0 < w.no /\ w.no <= pilot_reuse[p]
      BY DEF WantedFrom
    <3>1. w \in Wanted <=> w.no \in 1 .. ReusedOf[w.prompt]
      BY DEF Wanted
    <3>2. w.no \in Nat
      BY DEF Responses
    <3> QED BY <2>1, <3>1, <3>2
  <2>3. PICK pilot \in BOOLEAN : pilot = TRUE
    OBVIOUS
  <2>4. WantedFrom(p, pilot, 0, pilot_reuse[p])
    BY <2>2, <2>3, Zenon
  <2>7. 0 <= pilot_reuse[p]
    BY <2>1
  <2>5. Cardinality(RowsWith(batch, p, pilot)) = pilot_reuse[p] - 0
    BY <2>1, <2>4, <2>7, RowsOfRange
  <2>6. Cardinality(RowsWith(batch, p, pilot)) = pilot_reuse[p]
    BY <2>1, <2>5
  <2> QED BY <2>3, <2>6
<1> QED BY <1>1, <1>2, <1>3 DEF EveryRolloutOnce, RowsWith

-----------------------------------------------------------------------------
(* One unit per prompt                                                         *)

\* Only the entries of a part count, if the others are zero.
LEMMA SumOfPart ==
  ASSUME NEW S, IsFiniteSet(S), NEW A \in SUBSET S, NEW f,
         \A x \in S : f[x] \in Int /\ (x \notin A => f[x] = 0)
  PROVE  Sum(f, S) = Sum(f, A)
<1>1. IsFiniteSet(A) /\ IsFiniteSet(S \ A) /\ Cardinality(S \ A) \in Nat
  BY FS_Subset, FS_CardinalityType
<1>2. Sum(f, S \ A) = 0 * Cardinality(S \ A)
  <2>1. \A x \in S \ A : f[x] = 0
    OBVIOUS
  <2> QED BY <1>1, <2>1, SumConstant, 0 \in Int
<1>3. Sum(f, A) \in Int
  <2>1. \A x \in A : f[x] \in Int
    OBVIOUS
  <2> QED BY <1>1, <2>1, SumRemove
<1>4. Sum(f, A \cup (S \ A)) = Sum(f, A) + Sum(f, S \ A)
  <2>1. \A x \in A \cup (S \ A) : f[x] \in Int
    OBVIOUS
  <2>2. A \cap (S \ A) = {}
    OBVIOUS
  <2> QED BY <1>1, <2>1, <2>2, SumUnion
<1>5. A \cup (S \ A) = S
  OBVIOUS
<1>6. Sum(f, S) = Sum(f, A) + Sum(f, S \ A)
  BY <1>4, <1>5, Zenon
<1> QED BY <1>1, <1>2, <1>3, <1>6

\* A score is at most a full point, and a positive one is that where nothing is taken off.
LEMMA ScoreType ==
  ASSUME config \in Settings, len \in [Prompts -> config.lens],
         NEW correct, NEW response \in Responses
  PROVE  /\ Score(correct, response) \in Int /\ Score(correct, response) <= config.buffer_len
         /\ Overlong(response.prompt) = 0 /\ Score(correct, response) > 0 =>
              Score(correct, response) = config.buffer_len
<1> DEFINE overlong == Overlong(response.prompt)
           penalty == config.penalty_factor * overlong
<1>1. config.lens \in SUBSET (1 .. config.max_token_len) /\ config.max_token_len \in Nat
      /\ config.expected_len \in Nat /\ config.wrong \in {0, -1}
      /\ config.buffer_len \in Nat \ {0} /\ config.penalty_factor \in Nat
  BY SettingType
<1>2. response.prompt \in Prompts
  BY DEF Responses
<1>3. len[response.prompt] - config.expected_len \in Int
  BY <1>1, <1>2
<1>4. overlong \in Nat
  BY <1>3, LargerOf, 0 \in Int DEF Overlong
<1>5. \/ Score(correct, response) = config.buffer_len * 1 - penalty
      \/ Score(correct, response) = config.buffer_len * config.wrong - penalty
  BY DEF Score
<1> HIDE DEF overlong
<1>6. penalty \in Nat /\ (overlong = 0 => penalty = 0)
  BY <1>1, <1>4
<1> HIDE DEF penalty
<1>7. /\ config.buffer_len * 1 = config.buffer_len
      /\ config.buffer_len * config.wrong \in Int /\ config.buffer_len * config.wrong <= 0
  BY <1>1
<1>8. /\ Score(correct, response) \in Int /\ Score(correct, response) <= config.buffer_len
      /\ penalty = 0 /\ Score(correct, response) > 0 => Score(correct, response) = config.buffer_len
  BY <1>1, <1>5, <1>6, <1>7
<1> QED BY <1>6, <1>8 DEF overlong

\* The rows of one prompt, with scores of at most a full point.
OnePrompt(rows, score) ==
  /\ IsFiniteSet(rows)
  /\ \A i \in rows : /\ Group(i) = rows
                     /\ score[i] \in Int /\ score[i] <= config.buffer_len

Accepted(rows, score) == {i \in rows : score[i] > 0}

\* RAFT's advantages are the accepted scores, and each is divided by a full point for
\* every accepted row: a sum between nothing and one, and one if all are full points.
LEMMA RaftCounts ==
  ASSUME config.adv_estimator = "raft", config.gvm_reweight = "auto",
         config.buffer_len \in Nat \ {0},
         NEW rows, NEW score, OnePrompt(rows, score),
         NEW num, \A i \in rows : num[i] = Advantage(score, i).num
  PROVE  /\ Accepted(rows, score) = {} => Sum(num, rows) = 0
         /\ Accepted(rows, score) # {} =>
              \A i \in rows :
                /\ Sum(num, rows) \in 1 .. Advantage(score, i).den * Weight(score, i)
                /\ (\A j \in Accepted(rows, score) : score[j] = config.buffer_len) =>
                     Sum(num, rows) = Advantage(score, i).den * Weight(score, i)
<1> DEFINE A == Accepted(rows, score)
           u == config.buffer_len
<1>1. A \in SUBSET rows /\ IsFiniteSet(A) /\ IsFiniteSet(rows) /\ Cardinality(A) \in Nat
  BY FS_Subset, FS_CardinalityType DEF Accepted, OnePrompt
<1>2. \A i \in rows : Advantage(score, i) = [num |-> Max({0, score[i]}), den |-> u]
  BY DEF Advantage, RaftAdvantage
<1>3. ASSUME NEW i \in rows
      PROVE  num[i] = (IF i \in A THEN score[i] ELSE 0) /\ num[i] \in Int /\ num[i] <= u
             /\ (i \in A => num[i] >= 1)
  <2>1. score[i] \in Int /\ score[i] <= u
    BY DEF OnePrompt
  <2>2. num[i] = Max({0, score[i]})
    BY <1>2
  <2>3. Max({0, score[i]}) = IF 0 >= score[i] THEN 0 ELSE score[i]
    BY <2>1, LargerOf, 0 \in Int
  <2>4. i \in A <=> score[i] > 0
    BY DEF Accepted
  <2> HIDE DEF A
  <2> QED BY <2>1, <2>2, <2>3, <2>4
<1>a. A = Accepted(rows, score)
  OBVIOUS
<1>4. Sum(num, rows) = Sum(num, A)
  <2> HIDE DEF A
  <2> QED BY <1>1, <1>3, SumOfPart
<1>5. Sum(num, A) <= u * Cardinality(A)
  <2>1. \A x \in A : num[x] \in Int /\ num[x] <= u
    BY <1>1, <1>3
  <2>2. u \in Int
    OBVIOUS
  <2> HIDE DEF A, u
  <2> QED BY <1>1, <2>1, <2>2, SumAtMost
<1>6. Sum(num, A) \in Nat /\ \A x \in A : num[x] <= Sum(num, A)
  <2>1. \A x \in A : num[x] \in Nat
    BY <1>1, <1>3
  <2> HIDE DEF A
  <2> QED BY <1>1, <2>1, SumOfNaturals
<1>7. ASSUME \A j \in A : score[j] = u PROVE Sum(num, A) = u * Cardinality(A)
  <2>1. \A x \in A : num[x] = u
    BY <1>1, <1>3, <1>7
  <2>2. u \in Int
    OBVIOUS
  <2> HIDE DEF A, u
  <2> QED BY <1>1, <2>1, <2>2, SumConstant
<1>8. ASSUME NEW i \in rows, A # {} PROVE Advantage(score, i).den * Weight(score, i) = u * Cardinality(A)
  <2>1. {j \in Group(i) : score[j] > 0} = A
    BY DEF OnePrompt, Accepted
  <2>2. Mode = "inv_np"
    BY DEF Mode
  <2>3. Cardinality(A) # 0
    <3> HIDE DEF A
    <3> QED BY <1>1, <1>8, FS_EmptySet
  <2>4. Weight(score, i) = Cardinality(A)
    <3> HIDE DEF A
    <3> QED BY <2>1, <2>2, <2>3 DEF Weight
  <2>5. Advantage(score, i).den = u
    <3>1. Advantage(score, i) = [num |-> Max({0, score[i]}), den |-> u]
      BY <1>2
    <3>2. [num |-> Max({0, score[i]}), den |-> u].den = u
      OBVIOUS
    <3> HIDE DEF A, u
    <3> QED BY <3>1, <3>2
  <2> HIDE DEF A, u
  <2> QED BY <2>4, <2>5
<1>9. A = {} => Sum(num, rows) = 0
  <2> HIDE DEF A
  <2> QED BY <1>4, SumOfNothing
<1>10. ASSUME NEW i \in rows, A # {}
       PROVE  /\ Sum(num, rows) \in 1 .. Advantage(score, i).den * Weight(score, i)
              /\ (\A j \in A : score[j] = u) =>
                   Sum(num, rows) = Advantage(score, i).den * Weight(score, i)
  <2>1. PICK x \in A : num[x] >= 1 /\ num[x] \in Int
    BY <1>1, <1>3, <1>10
  <2>2. num[x] <= Sum(num, A)
    BY <1>6
  <2>3. u * Cardinality(A) \in Int
    <3>1. u \in Int
      OBVIOUS
    <3> HIDE DEF A, u
    <3> QED BY <1>1, <3>1
  <2>4. Advantage(score, i).den * Weight(score, i) = u * Cardinality(A)
    BY <1>8, <1>10
  <2>5. (\A j \in A : score[j] = u) => Sum(num, A) = u * Cardinality(A)
    BY <1>7
  <2> DEFINE c == u * Cardinality(A)
  <2> HIDE DEF A, u, c
  <2>6. Sum(num, A) \in 1 .. c
    BY <1>5, <1>6, <2>1, <2>2, <2>3 DEF c
  <2> QED BY <1>4, <2>4, <2>5, <2>6 DEF c
<1> HIDE DEF A
<1> QED BY <1>a, <1>9, <1>10

\* Against the mean of a group, or of the others in it, advantages cancel.
LEMMA CentredCancel ==
  ASSUME config.adv_estimator \in {"grpo", "rloo"},
         NEW rows, NEW score, OnePrompt(rows, score), Cardinality(rows) > 1,
         NEW num, \A i \in rows : num[i] = Advantage(score, i).num
  PROVE  Sum(num, rows) = 0
<1> DEFINE n == Cardinality(rows)
           S == Sum(score, rows)
           f == [i \in rows |-> n * score[i]]
           e == [i \in rows |-> - S]
<1>1. IsFiniteSet(rows) /\ n \in Nat /\ n # 1 /\ \A i \in rows : score[i] \in Int
  BY FS_CardinalityType DEF OnePrompt
<1>2. S \in Int
  <2> HIDE DEF n
  <2> QED BY <1>1, SumRemove
<1>3. ASSUME NEW i \in rows PROVE num[i] = n * score[i] - S
  <2>1. Group(i) = rows
    BY DEF OnePrompt
  <2>2. \/ Advantage(score, i) = GrpoAdvantage(score, i)
        \/ Advantage(score, i) = RlooAdvantage(score, i)
    BY DEF Advantage
  <2>3. GrpoAdvantage(score, i).num = n * score[i] - S
    BY <1>1, <2>1 DEF GrpoAdvantage, Sum
  <2>4. RlooAdvantage(score, i).num = n * score[i] - S
    BY <1>1, <2>1 DEF RlooAdvantage, Sum
  <2> QED BY <2>2, <2>3, <2>4
<1> HIDE DEF n, S
<1>4. \A i \in rows : f[i] \in Int /\ f[i] = n * score[i] /\ e[i] = - S /\ - S \in Int
  BY <1>1, <1>2
<1>5. \A i \in rows : f[i] \in Int /\ e[i] \in Int /\ num[i] = f[i] + e[i]
  <2> SUFFICES ASSUME NEW i \in rows PROVE f[i] \in Int /\ e[i] \in Int /\ num[i] = f[i] + e[i]
    OBVIOUS
  <2>1. f[i] \in Int /\ f[i] = n * score[i] /\ e[i] = - S
    BY <1>4
  <2>2. num[i] = n * score[i] - S
    BY <1>3
  <2> HIDE DEF f, e
  <2> QED BY <1>2, <2>1, <2>2
<1> HIDE DEF f, e
<1>6. Sum(num, rows) = Sum(f, rows) + Sum(e, rows)
  BY <1>1, <1>5, SumPlus
<1>7. Sum(f, rows) = n * S
  <2>1. \A i \in rows : score[i] \in Int /\ f[i] = n * score[i]
    BY <1>1, <1>4
  <2>2. n \in Int
    BY <1>1
  <2> QED BY <1>1, <2>1, <2>2, SumTimes DEF S
<1>8. Sum(e, rows) = (- S) * n
  <2>1. \A i \in rows : e[i] = - S
    BY <1>4
  <2>2. - S \in Int
    BY <1>2
  <2>3. Sum(e, rows) = (- S) * Cardinality(rows)
    BY <1>1, <2>1, <2>2, SumConstant
  <2> QED BY <2>3 DEF n
<1>9. n * S + ((- S) * n) = 0
  BY <1>1, <1>2
<1> QED BY <1>6, <1>7, <1>8, <1>9

\* The weights divide by the number of rows.
LEMMA CentredWeights ==
  ASSUME config.adv_estimator \in {"grpo", "rloo"}, config.gvm_reweight = "auto",
         NEW rows, NEW score, OnePrompt(rows, score), NEW i \in rows
  PROVE  Weight(score, i) = Cardinality(rows)
<1>1. Mode = "inv_n" /\ Group(i) = rows
  BY DEF Mode, OnePrompt
<1> QED BY <1>1 DEF Weight

-----------------------------------------------------------------------------
(* The invariant holds initially                                               *)

LEMMA InvariantInit == Init => IInv
<1> SUFFICES ASSUME Init PROVE IInv
  OBVIOUS
<1>1. TypeInv
  <2>1. Pilots \in Nat
    BY SettingType DEF Init
  <2>2. sample_size \in [Prompts -> Nat] /\ pilot_reuse \in [Prompts -> 0 .. Pilots]
    BY <2>1 DEF Init
  <2>3. arrived \in Seq(Ranks) /\ IsInjective(arrived) /\ arrived = <<>>
    BY DEF Init, IsInjective
  <2>4. outputs = [r \in Ranks |-> outputs[r]]
    BY DEF Init
  <2> QED BY <2>2, <2>3, <2>4 DEF Init, TypeInv
<1>2. GenerateInv /\ BatchInv /\ ScoreInv /\ AdvantageInv /\ TrainedInv
  BY DEF Init, GenerateInv, BatchInv, ScoreInv, AdvantageInv, TrainedInv, Assembled
<1>3. RewardInv
  BY DEF Init, RewardInv
<1>4. BatchGetsThrough /\ EveryPromptCountsOnce
  BY DEF Init, BatchGetsThrough, EveryPromptCountsOnce
<1> QED BY <1>1, <1>2, <1>3, <1>4 DEF IInv

-----------------------------------------------------------------------------
(* What a step leaves alone                                                    *)

\* The number of micro batches of rows that do not change.
LEMMA MicroKept ==
  ASSUME UNCHANGED <<config, len, batch>>
  PROVE  num_micro_batches' = num_micro_batches
BY DEF num_micro_batches, MicroBatches, Lengths, Chunk, Ranks, World

LEMMA AnswersKept ==
  ASSUME UNCHANGED <<config, sample_size>>, NEW r
  PROVE  AnswersOf(r)' = AnswersOf(r)
BY DEF AnswersOf, ResponseRow, Owner, Copies, Share, N, World

\* The rows and what is said of them.
LEMMA BatchKept ==
  ASSUME UNCHANGED <<config, sample_size, pilot_reuse, batch>>
  PROVE  /\ (IsBatch(batch)' <=> IsBatch(batch))
         /\ ReusedOf' = ReusedOf /\ (Sampled' <=> Sampled) /\ (Divided(batch)' <=> Divided(batch))
<1>1. World' = World /\ Wanted' = Wanted /\ ReusedOf' = ReusedOf /\ (Sampled' <=> Sampled)
  BY TablesKept
<1>2. IsBatch(batch)' <=> IsBatch(batch)
  BY <1>1 DEF IsBatch
<1> QED BY <1>1, <1>2 DEF Divided

LEMMA PromptsCountKept ==
  ASSUME EveryPromptCountsOnce, UNCHANGED <<config, len, batch>>, pc' = "trained" => pc = "trained"
  PROVE  EveryPromptCountsOnce'
<1> SUFFICES ASSUME pc' = "trained", config'.gvm_reweight = "auto", NEW p \in Prompts'
             PROVE  CountsOnce(p)'
  BY DEF EveryPromptCountsOnce
<1>1. CountsOnce(p)
  BY DEF EveryPromptCountsOnce, Prompts
<1>2. Overlong(p)' = Overlong(p)
  BY DEF Overlong
<1>3. RowsOf(p)' = RowsOf(p) /\ (Solved(p)' <=> Solved(p))
      /\ WeightedSum(RowsOf(p))' = WeightedSum(RowsOf(p))
  BY DEF RowsOf, Solved, WeightedSum
<1> QED BY <1>1, <1>2, <1>3 DEF CountsOnce

\* What the budgets come to does not change, so a batch that gets on keeps to them.
LEMMA GetsThroughKept ==
  ASSUME BatchGetsThrough, UNCHANGED <<config, budget>>,
         Pilots = 0 /\ config.dict_sources \in {{}, Prompts} =>
           \/ error' \in {error, "reward"}
           \/ error' = "unequal chunks" /\ (RoundedUp % World) # 0
  PROVE  BatchGetsThrough'
<1>1. World' = World /\ Pilots' = Pilots /\ RoundedUp' = RoundedUp /\ Prompts' = Prompts
  BY DEF World, Pilots, RoundedUp, Prompts
<1> QED BY <1>1 DEF BatchGetsThrough

LEMMA InvariantStutter == IInv /\ UNCHANGED vars => IInv'
<1> SUFFICES ASSUME IInv, UNCHANGED vars PROVE IInv'
  OBVIOUS
<1>u. UNCHANGED <<config, budget, len, pc, sample_size, pilot_reuse, outputs, arrived, batch, reward, error>>
  BY DEF vars
<1>t. /\ World' = World /\ Ranks' = Ranks /\ Pilots' = Pilots /\ N' = N
      /\ ReusedOf' = ReusedOf /\ (Sampled' <=> Sampled) /\ (IsBatch(batch)' <=> IsBatch(batch))
      /\ num_micro_batches' = num_micro_batches
  BY <1>u, TablesKept, BatchKept, MicroKept
<1>1. TypeInv'
  BY <1>u, <1>t DEF IInv, TypeInv
<1>2. GenerateInv'
  <2>0. GenerateInv
    BY DEF IInv
  <2>1. ASSUME NEW r \in Ranks, pc \in {"generate", "assemble"}, Contains(arrived, r) \/ pc = "assemble"
        PROVE  outputs'[r] = AnswersOf(r)'
    <3>1. AnswersOf(r)' = AnswersOf(r)
      BY <1>u, AnswersKept
    <3> QED BY <1>u, <2>0, <2>1, <3>1 DEF GenerateInv
  <2>2. pc' \in {"generate", "assemble"} => Sampled'
    <3>1. pc \in {"generate", "assemble"} => Sampled
      BY <2>0 DEF GenerateInv
    <3>2. pc' = pc /\ (Sampled' <=> Sampled)
      BY <1>u, <1>t
    <3> QED BY <3>1, <3>2
  <2>3. pc' \in {"generate", "assemble"} =>
          \A r \in Ranks : Contains(arrived', r) \/ pc' = "assemble" => outputs'[r] = AnswersOf(r)'
    BY <1>u, <2>1
  <2> QED BY <1>t, <2>2, <2>3 DEF GenerateInv
<1>3. BatchInv'
  BY <1>u, <1>t DEF IInv, BatchInv, Assembled
<1>4. RewardInv'
  BY <1>u, <1>t DEF IInv, RewardInv, ColumnOK, Assembled
<1>5. ScoreInv' /\ AdvantageInv' /\ TrainedInv'
  BY <1>u, <1>t DEF IInv, ScoreInv, ScoredAs, AdvantageInv, TrainedInv
<1>6. BatchGetsThrough' /\ EveryPromptCountsOnce'
  BY <1>u, PromptsCountKept, GetsThroughKept DEF IInv
<1> QED BY <1>1, <1>2, <1>3, <1>4, <1>5, <1>6 DEF IInv

-----------------------------------------------------------------------------
(* Each action keeps it                                                        *)

LEMMA InvariantSpend == IInv /\ SpendBudgets => IInv'
<1> SUFFICES ASSUME IInv, SpendBudgets PROVE IInv'
  OBVIOUS
<1>u. /\ pc = "budget" /\ pilot_reuse' = Reused
      /\ UNCHANGED <<config, budget, len, outputs, arrived, batch, reward>>
  BY DEF SpendBudgets
<1>i. TypeInv /\ RewardInv /\ BatchGetsThrough /\ BudgetTyped
  BY DEF IInv, TypeInv, BudgetTyped
<1>w. /\ World' = World /\ Ranks' = Ranks /\ Pilots' = Pilots
      /\ World \in Nat \ {0} /\ Ranks = 1 .. World /\ Pilots \in Nat
  BY <1>u, <1>i, SettingType DEF World, Ranks, Pilots, BudgetTyped
<1>0. /\ Total(Fresh) \in Nat /\ Total(Reused) \in Nat /\ Fresh \in [Prompts -> Nat]
      /\ Reused \in [Prompts -> 0 .. Pilots]
      /\ Pilots = 0 => Total(Fresh) = Total(budget) /\ Total(Reused) = 0
  BY <1>i, ReusedType
<1>1. sample_size' \in [Prompts -> Nat]
  BY <1>i, <1>0, PaddedTotal DEF SpendBudgets
<1>2. ASSUME Pilots = 0
      PROVE  error' = error \/ (error' = "unequal chunks" /\ (RoundedUp % World) # 0)
  <2>1. Total(Fresh) = Total(budget) /\ Total(Fresh) > 0 /\ Total(Reused) = 0
    BY <1>0, <1>2, <1>i, <1>u DEF TypeInv
  <2>2. PICK order \in Orders(Fresh) : sample_size' = Padded(Fresh, order)
    BY <2>1 DEF SpendBudgets
  <2>3. Total(sample_size') = Total(Fresh) + deficit
    BY <1>i, <1>0, <2>2, PaddedTotal
  <2>4. /\ deficit \in Nat
        /\ Total(Fresh) + Total(Reused) + deficit
             = config.n_gpus_per_node * ceildiv(Total(Fresh) + Total(Reused), config.n_gpus_per_node)
    BY <1>i, DeficitType
  <2>5. Total(Fresh) + Total(Reused) = Total(budget) /\ Total(Fresh) + deficit = Total(budget) + deficit
    BY <1>0, <2>1
  <2>6. Total(sample_size') = RoundedUp
    BY <2>3, <2>4, <2>5 DEF RoundedUp
  <2>7. Total(sample_size') # 0
    BY <1>0, <2>1, <2>3, <2>4
  <2>8. (error' = "unequal chunks" /\ (Total(sample_size') % World) # 0) \/ error' = error
    BY <2>7 DEF SpendBudgets, Fail
  <2> QED BY <2>6, <2>8
<1>3. pc' \in {"generate", "failed"} /\ (pc' = "generate" => (Total(sample_size') % World) = 0)
  BY DEF SpendBudgets, Fail
<1>4. TypeInv'
  <2>1. pilot_reuse' \in [Prompts -> 0 .. Pilots]
    BY <1>u, <1>0
  <2>2. Prompts' = Prompts
    BY DEF Prompts
  <2> QED BY <1>u, <1>w, <1>i, <1>1, <1>3, <2>1, <2>2 DEF TypeInv
<1>5. GenerateInv'
  <2>1. \A r : ~ Contains(arrived, r)
    BY <1>u, <1>i DEF TypeInv, Contains
  <2>2. pc' = "generate" => Sampled'
    BY <1>w, <1>1, <1>3 DEF Sampled
  <2> QED BY <1>u, <1>3, <2>1, <2>2 DEF GenerateInv
<1>6. BatchInv' /\ ScoreInv' /\ AdvantageInv' /\ TrainedInv' /\ EveryPromptCountsOnce'
  BY <1>3 DEF BatchInv, ScoreInv, AdvantageInv, TrainedInv, EveryPromptCountsOnce, Assembled
<1>7. RewardInv'
  BY <1>u, <1>i, <1>3 DEF RewardInv
<1>8. BatchGetsThrough'
  BY <1>u, <1>w, <1>i, <1>2, GetsThroughKept
<1> QED BY <1>4, <1>5, <1>6, <1>7, <1>8 DEF IInv

LEMMA InvariantGenerate == ASSUME NEW r \in Ranks PROVE IInv /\ RankGenerates(r) => IInv'
<1> SUFFICES ASSUME IInv, RankGenerates(r) PROVE IInv'
  OBVIOUS
<1>u. /\ pc = "generate" /\ ~ Contains(arrived, r) /\ arrived' = Append(arrived, r)
      /\ pc' = (IF Len(arrived') = World THEN "assemble" ELSE pc)
      /\ UNCHANGED <<config, budget, len, sample_size, pilot_reuse, batch, reward, error>>
  BY DEF RankGenerates
<1>i. TypeInv /\ RewardInv /\ BatchGetsThrough /\ GenerateInv /\ Sampled /\ config \in Settings
  BY <1>u DEF IInv, TypeInv, GenerateInv
<1>w. /\ World' = World /\ Ranks' = Ranks /\ Pilots' = Pilots /\ (Sampled' <=> Sampled)
      /\ World \in Nat \ {0} /\ Ranks = 1 .. World
  BY <1>u, <1>i, SettingType, TablesKept
<1>p. pc' \in {"generate", "assemble"}
  BY <1>u
<1>1. outputs' = [outputs EXCEPT ![r] = AnswersOf(r)]
  <2> DEFINE rows == Chunk(Copies, r)
             first == N * (r - 1) * Len(rows)
             answers == [i \in 1 .. N * Len(rows) |->
                          LET p == rows[((i - 1) \div N) + 1]
                          IN  [prompts |-> p,
                               response |-> [prompt |-> p, pilot |-> FALSE, no |-> first + i]]]
  <2>1. outputs' = [outputs EXCEPT ![r] = answers]
    BY DEF RankGenerates
  <2>2. answers = AnswersOf(r)
    BY <1>i, RankAnswers
  <2> HIDE DEF answers
  <2> QED BY <2>1, <2>2
<1>2. /\ arrived' \in Seq(Ranks) /\ IsInjective(arrived')
      /\ \A q : Contains(arrived', q) <=> Contains(arrived, q) \/ q = r
  <2>1. arrived \in Seq(1 .. World) /\ IsInjective(arrived) /\ World \in Nat /\ r \in 1 .. World
    BY <1>i, <1>w DEF TypeInv
  <2>2. /\ Append(arrived, r) \in Seq(1 .. World) /\ IsInjective(Append(arrived, r))
        /\ \A q : Contains(Append(arrived, r), q) <=> Contains(arrived, q) \/ q = r
    BY <1>u, <2>1, OneMoreArrives
  <2> QED BY <1>u, <1>w, <2>2
<1>3. outputs' = [q \in Ranks |-> outputs'[q]]
      /\ \A q \in Ranks : outputs'[q] = IF q = r THEN AnswersOf(r) ELSE outputs[q]
  BY <1>1, <1>i DEF TypeInv
<1>4. TypeInv'
  <2>1. Prompts' = Prompts
    BY DEF Prompts
  <2> QED BY <1>u, <1>p, <1>w, <1>i, <1>2, <1>3, <2>1 DEF TypeInv
<1>5. GenerateInv'
  <2>1. ASSUME NEW q \in Ranks, Contains(arrived', q) \/ pc' = "assemble" PROVE outputs'[q] = AnswersOf(q)'
    <3>1. AnswersOf(q)' = AnswersOf(q)
      BY <1>u, AnswersKept
    <3>2. Contains(arrived', q)
      <4>1. CASE pc' = "assemble"
        <5>1. Len(arrived') = World
          BY <1>u, <4>1
        <5>2. arrived' \in Seq(1 .. World) /\ IsInjective(arrived') /\ World \in Nat /\ q \in 1 .. World
          BY <1>w, <1>2
        <5> QED BY <5>1, <5>2, EveryOneArrives
      <4> QED BY <2>1, <4>1
    <3>3. CASE q = r
      BY <1>3, <3>1, <3>3
    <3>4. CASE q # r
      <4>1. Contains(arrived, q)
        BY <1>2, <3>2, <3>4
      <4>2. outputs[q] = AnswersOf(q)
        BY <1>u, <1>i, <4>1 DEF GenerateInv
      <4> QED BY <1>3, <3>1, <3>4, <4>2
    <3> QED BY <3>3, <3>4
  <2> QED BY <1>w, <1>i, <2>1 DEF GenerateInv
<1>6. BatchInv' /\ ScoreInv' /\ AdvantageInv' /\ TrainedInv' /\ EveryPromptCountsOnce'
  BY <1>p DEF BatchInv, ScoreInv, AdvantageInv, TrainedInv, EveryPromptCountsOnce, Assembled
<1>7. RewardInv'
  BY <1>u, <1>i, <1>p DEF RewardInv
<1>8. BatchGetsThrough'
  BY <1>u, <1>w, <1>i, GetsThroughKept
<1> QED BY <1>4, <1>5, <1>6, <1>7, <1>8 DEF IInv

LEMMA InvariantAssemble == IInv /\ Assemble => IInv'
<1> SUFFICES ASSUME IInv, Assemble PROVE IInv'
  OBVIOUS
<1>u. /\ pc = "assemble" /\ pc' = "balance" /\ batch' = FreshRows \o PilotRows
      /\ outputs' = [r \in Ranks |-> <<>>] /\ arrived' = <<>>
      /\ UNCHANGED <<config, budget, len, sample_size, pilot_reuse, reward, error>>
  BY DEF Assemble
<1>i. TypeInv /\ RewardInv /\ BatchGetsThrough /\ Sampled /\ config \in Settings
      /\ \A r \in Ranks : outputs[r] = AnswersOf(r)
  BY <1>u DEF IInv, TypeInv, GenerateInv
<1>w. /\ World' = World /\ Ranks' = Ranks /\ Pilots' = Pilots /\ N' = N
      /\ (Sampled' <=> Sampled) /\ Wanted' = Wanted /\ ReusedOf' = ReusedOf
  BY <1>u, TablesKept
<1>1. IsBatch(FreshRows \o PilotRows)
      /\ Len(FreshRows \o PilotRows) = N * Total(sample_size) + Total(ReusedOf)
  <2>1. pilot_reuse \in [Prompts -> Nat]
    <3>1. Pilots \in Nat /\ pilot_reuse \in [Prompts -> 0 .. Pilots]
      BY <1>i, SettingType DEF TypeInv
    <3> QED BY <3>1
  <2> QED BY <1>i, <2>1, AssembledBatch
<1>2. IsBatch(batch)'
  BY <1>u, <1>w, <1>1 DEF IsBatch
<1>3. BatchInv'
  BY <1>u, <1>w, <1>i, <1>1, <1>2 DEF BatchInv
<1>4. TypeInv'
  <2>1. Prompts' = Prompts
    BY DEF Prompts
  <2>2. arrived' \in Seq(Ranks) /\ IsInjective(arrived')
    BY <1>u DEF IsInjective
  <2>3. outputs' = [r \in Ranks' |-> outputs'[r]]
    BY <1>u, <1>w
  <2> QED BY <1>u, <1>w, <1>i, <2>1, <2>2, <2>3 DEF TypeInv
<1>5. GenerateInv' /\ ScoreInv' /\ AdvantageInv' /\ TrainedInv' /\ EveryPromptCountsOnce'
  BY <1>u DEF GenerateInv, ScoreInv, AdvantageInv, TrainedInv, EveryPromptCountsOnce
<1>6. RewardInv'
  BY <1>u, <1>i DEF RewardInv
<1>7. BatchGetsThrough'
  BY <1>u, <1>w, <1>i, GetsThroughKept
<1> QED BY <1>3, <1>4, <1>5, <1>6, <1>7 DEF IInv

LEMMA InvariantBalance == IInv /\ Balance => IInv'
<1> SUFFICES ASSUME IInv, Balance PROVE IInv'
  OBVIOUS
<1>u. /\ pc = "balance" /\ pc' \in {"reward", "failed"}
      /\ UNCHANGED <<config, budget, len, sample_size, pilot_reuse, outputs, arrived, reward>>
  BY DEF Balance, Fail
<1>i. /\ TypeInv /\ RewardInv /\ BatchGetsThrough /\ BatchInv /\ Sampled /\ config \in Settings
      /\ IsBatch(batch) /\ Len(batch) = N * Total(sample_size) + Total(ReusedOf)
      /\ reward.at = "idle" /\ arrived = <<>>
  BY <1>u DEF IInv, TypeInv, BatchInv, Assembled, RewardInv
<1>w. /\ World' = World /\ Ranks' = Ranks /\ Pilots' = Pilots /\ N' = N
      /\ (Sampled' <=> Sampled) /\ Wanted' = Wanted /\ ReusedOf' = ReusedOf
  BY <1>u, TablesKept
<1>1. ASSUME Pilots = 0 PROVE (Len(batch) % World) = 0
  <2>1. Total(ReusedOf) = 0
    <3>1. \A p \in Prompts : ReusedOf[p] = 0
      BY <1>1, <1>i DEF TypeInv, ReusedOf
    <3>2. Sum(ReusedOf, Prompts) = 0 * Cardinality(Prompts)
      BY <3>1, PromptsType, SumConstant, 0 \in Int
    <3>3. DOMAIN ReusedOf = Prompts
      BY DEF ReusedOf
    <3> QED BY <3>2, <3>3, PromptsType, TotalIsSum
  <2>2. /\ N * Share \in Nat /\ N * Total(sample_size) = World * (N * Share)
        /\ World \in Nat \ {0}
    BY <1>i, ShareType, SettingType
  <2> DEFINE q == N * Share
  <2>3. Len(batch) = World * q + 0
    BY <1>i, <2>1, <2>2
  <2>4. q \in Nat /\ 0 \in 0 .. World - 1
    BY <2>2
  <2> HIDE DEF q
  <2> QED BY <2>2, <2>3, <2>4, QuotientAndRemainder
<1>2. ASSUME pc' = "reward" PROVE (Len(batch) % World) = 0 /\ error' = error
  BY <1>2 DEF Balance, Fail
<1>3. pc' = "reward" => IsBatch(batch)' /\ Len(batch') = Len(batch)
  <2> SUFFICES ASSUME pc' = "reward" PROVE IsBatch(batch)' /\ Len(batch') = Len(batch)
    OBVIOUS
  <2>1. CASE batch' = batch
    BY <1>u, <1>i, <2>1, BatchKept
  <2>2. ASSUME NEW part \in Partitions(Lengths(batch), World, TRUE),
               batch' = [i \in DOMAIN batch |-> batch[Listed(part)[i]]]
        PROVE  IsBatch(batch)' /\ Len(batch') = Len(batch)
    <3> DEFINE n == Len(batch)
               c == [i \in 1 .. n |-> batch[Listed(part)[i]]]
    <3>1. n \in Nat /\ DOMAIN batch = 1 .. n /\ World \in Nat
      BY <1>i, SettingType DEF IsBatch
    <3>2. part \in [1 .. n -> 1 .. World]
      BY <3>1 DEF Partitions, Lengths
    <3>3. part \in [1 .. n -> Nat]
      BY <3>1, <3>2
    <3>4. Listed(part) \in Bijection(1 .. n, 1 .. n)
      BY <3>1, <3>3, ListedOnce
    <3>5. IsBatch(c) /\ Len(c) = n
      BY <1>i, <3>4, Reordered
    <3>6. batch' = c
      BY <2>2, <3>1
    <3> HIDE DEF c
    <3>7. IsBatch(batch)'
      BY <1>w, <3>5, <3>6 DEF IsBatch
    <3> QED BY <3>5, <3>6, <3>7
  <2> QED BY <2>1, <2>2 DEF Balance, Fail
<1>4. BatchInv'
  <2>1. pc' = "failed" \/ pc' = "reward"
    BY <1>u
  <2>2. CASE pc' = "failed"
    BY <2>2 DEF BatchInv, Assembled
  <2>3. CASE pc' = "reward"
    BY <1>u, <1>w, <1>i, <1>3, <2>3 DEF BatchInv
  <2> QED BY <2>1, <2>2, <2>3
<1>5. TypeInv'
  <2>1. Prompts' = Prompts
    BY DEF Prompts
  <2> QED BY <1>u, <1>w, <1>i, <2>1 DEF TypeInv
<1>6. GenerateInv' /\ AdvantageInv' /\ TrainedInv' /\ EveryPromptCountsOnce'
  BY <1>u DEF GenerateInv, AdvantageInv, TrainedInv, EveryPromptCountsOnce
<1>7. ScoreInv'
  BY <1>u, <1>w, <1>2, <1>3 DEF ScoreInv
<1>8. RewardInv'
  BY <1>u, <1>i DEF RewardInv
<1>9. BatchGetsThrough'
  <2>1. pc' = "failed" => Pilots # 0
    BY <1>1 DEF Balance
  <2>2. pc' = "reward" => error' = error
    BY <1>2
  <2> QED BY <1>u, <1>w, <1>i, <2>1, <2>2, GetsThroughKept
<1> QED BY <1>4, <1>5, <1>6, <1>7, <1>8, <1>9 DEF IInv

\* The steps of the reward leave the rows alone, and what the ranks have scored.
LEMMA RewardFrame ==
  ASSUME IInv, pc \in {"reward", "score", "union", "advantage"},
         pc' = pc \/ (pc = "reward" /\ pc' = "score") \/ pc' = "failed",
         UNCHANGED <<config, budget, len, sample_size, pilot_reuse, outputs, arrived, batch>>
  PROVE  TypeInv' /\ GenerateInv' /\ BatchInv' /\ ScoreInv' /\ AdvantageInv' /\ TrainedInv'
         /\ EveryPromptCountsOnce'
<1>i. /\ TypeInv /\ BatchInv /\ ScoreInv /\ AdvantageInv /\ config \in Settings
      /\ Sampled /\ IsBatch(batch) /\ Len(batch) = N * Total(sample_size) + Total(ReusedOf)
  BY DEF IInv, TypeInv, BatchInv, Assembled
<1>p. pc' \in {"reward", "score", "union", "advantage", "failed"}
      /\ (pc' # "failed" => pc' = pc \/ (pc = "reward" /\ pc' = "score" /\ arrived = <<>>))
  BY <1>i DEF TypeInv
<1>w. /\ World' = World /\ Ranks' = Ranks /\ Pilots' = Pilots /\ N' = N
      /\ (Sampled' <=> Sampled) /\ (IsBatch(batch)' <=> IsBatch(batch))
      /\ ReusedOf' = ReusedOf /\ num_micro_batches' = num_micro_batches
  BY TablesKept, BatchKept, MicroKept
<1>1. BatchInv'
  BY <1>w, <1>i, <1>p DEF BatchInv
<1>2. TypeInv'
  <2>1. Prompts' = Prompts
    BY DEF Prompts
  <2> QED BY <1>w, <1>i, <1>p, <2>1 DEF TypeInv
<1>3. GenerateInv' /\ TrainedInv' /\ EveryPromptCountsOnce'
  BY <1>p DEF GenerateInv, TrainedInv, EveryPromptCountsOnce
<1>4. ScoreInv'
  <2>1. (Len(batch) % World) = 0
    BY <1>i DEF ScoreInv
  <2>2. arrived = <<>> => \A r : ~ Contains(arrived, r)
    BY DEF Contains
  <2> QED BY <1>w, <1>i, <1>p, <2>1, <2>2 DEF ScoreInv, ScoredAs
<1>5. AdvantageInv'
  BY <1>w, <1>i, <1>p DEF AdvantageInv
<1> QED BY <1>1, <1>2, <1>3, <1>4, <1>5

LEMMA InvariantStartReward == IInv /\ StartReward => IInv'
<1> SUFFICES ASSUME IInv, StartReward PROVE IInv'
  OBVIOUS
<1>u. /\ pc = "reward" /\ reward.at = "idle" /\ pc' = (IF config.async THEN "score" ELSE pc)
      /\ reward' = [reward EXCEPT !.at = "first", !.rows = batch]
      /\ UNCHANGED <<config, budget, len, sample_size, pilot_reuse, outputs, arrived, batch, error>>
  BY DEF StartReward
<1>i. RewardInv /\ BatchGetsThrough /\ IsBatch(batch)
  BY <1>u DEF IInv, BatchInv, Assembled
<1>p. pc' \in {"reward", "score"} /\ (~ config.async => pc' = "reward")
  BY <1>u
<1>1. TypeInv' /\ GenerateInv' /\ BatchInv' /\ ScoreInv' /\ AdvantageInv' /\ TrainedInv'
      /\ EveryPromptCountsOnce'
  BY <1>u, <1>p, RewardFrame
<1>2. RewardInv'
  <2>1. reward' = [at |-> "first", rows |-> batch, scores |-> reward.scores, extra |-> reward.extra]
    BY <1>u, <1>i DEF RewardInv
  <2>2. SameRows(batch, batch) /\ batch = [i \in 1 .. Len(batch) |-> batch[i]]
    BY <1>i DEF SameRows, IsBatch
  <2> QED BY <1>u, <1>p, <2>1, <2>2 DEF RewardInv
<1>3. BatchGetsThrough'
  BY <1>u, <1>i, GetsThroughKept
<1> QED BY <1>1, <1>2, <1>3 DEF IInv

\* What a manager returns is about the rows, in their order.
LEMMA RewardColumns ==
  ASSUME config \in Settings, NEW b, IsBatch(b), NEW rows, SameRows(b, rows),
         rows = [i \in 1 .. Len(rows) |-> rows[i]], NEW answer, answer = RewardFn(rows)
  PROVE  /\ answer.reward_tensor = ResponsesOf(b)
         /\ "reward_extra_info" \in DOMAIN answer =>
              \A column \in answer.reward_extra_info : ColumnOK(column, b)
<1>1. Responded(rows) = ResponsesOf(b)
  <2>1. DOMAIN rows = 1 .. Len(b) /\ \A i \in 1 .. Len(b) : rows[i].response = b[i].response
    BY DEF SameRows
  <2> QED BY <2>1 DEF Responded, ResponsesOf
<1>2. ColumnOK(ResponsesOf(b), b)
  <2>1. Len(ResponsesOf(b)) = Len(b)
    BY BatchPrompts DEF ResponsesOf
  <2> QED BY <2>1 DEF ColumnOK
<1>3. \A column \in DictColumn(rows) : ColumnOK(column, b)
  BY DictColumnOK
<1>4. config.manager \in {"naive", "batch", "dapo", "prime"}
  BY SettingType
<1>5. CASE config.manager \in {"naive", "batch"}
  <2>1. answer = [reward_tensor |-> ResponsesOf(b), reward_extra_info |-> DictColumn(rows)]
    BY <1>1, <1>5 DEF RewardFn, NaiveRewardManager, BatchRewardManager
  <2>2. answer.reward_tensor = ResponsesOf(b) /\ answer.reward_extra_info = DictColumn(rows)
    BY <2>1
  <2> QED BY <1>3, <2>2
<1>6. CASE config.manager = "dapo"
  <2>1. answer = [reward_tensor |-> ResponsesOf(b),
                  reward_extra_info |-> DictColumn(rows) \cup {ResponsesOf(b)}]
    BY <1>1, <1>6 DEF RewardFn, DAPORewardManager
  <2>2. answer.reward_tensor = ResponsesOf(b)
        /\ answer.reward_extra_info = DictColumn(rows) \cup {ResponsesOf(b)}
    BY <2>1
  <2> QED BY <1>2, <1>3, <2>2
<1>7. CASE config.manager = "prime"
  <2>1. answer = [reward_tensor |-> ResponsesOf(b)]
    BY <1>1, <1>7 DEF RewardFn, PrimeRewardManager
  <2>2. answer.reward_tensor = ResponsesOf(b) /\ DOMAIN answer = {"reward_tensor"}
    BY <2>1
  <2> QED BY <2>2
<1> QED BY <1>4, <1>5, <1>6, <1>7

LEMMA InvariantRewardReturns == IInv /\ RewardReturns => IInv'
<1> SUFFICES ASSUME IInv, RewardReturns PROVE IInv'
  OBVIOUS
<1>u. /\ reward.at \in {"first", "second"} /\ pc # "failed"
      /\ UNCHANGED <<config, budget, len, sample_size, pilot_reuse, outputs, arrived, batch, error>>
  BY DEF RewardReturns
<1>i. /\ RewardInv /\ BatchGetsThrough /\ config \in Settings
      /\ pc \in {"reward", "score", "union", "advantage"} /\ (~ config.async => pc = "reward")
      /\ SameRows(batch, reward.rows)
      /\ reward.rows = [i \in 1 .. Len(reward.rows) |-> reward.rows[i]]
  BY <1>u DEF IInv, RewardInv, TypeInv
<1>b. IsBatch(batch)
  BY <1>i DEF IInv, BatchInv, Assembled
<1> DEFINE answer == RewardFn(reward.rows)
           found == "reward_extra_info" \in DOMAIN answer
<1>r. /\ answer.reward_tensor = ResponsesOf(batch)
      /\ found => \A column \in answer.reward_extra_info : ColumnOK(column, batch)
  BY <1>i, <1>b, RewardColumns
<1>c. \/ reward' = [reward EXCEPT !.at = "second"] /\ UNCHANGED pc
      \/ /\ reward.at = "second" \/ found
         /\ reward' = [at |-> "done", rows |-> <<>>, scores |-> answer.reward_tensor,
                       extra |-> IF reward.at = "first" THEN answer.reward_extra_info ELSE {}]
         /\ pc' = IF config.async THEN pc ELSE "score"
  BY <1>u DEF RewardReturns
<1> HIDE DEF answer, found
<1>p. pc' = pc \/ (pc = "reward" /\ pc' = "score")
  BY <1>i, <1>c
<1>1. TypeInv' /\ GenerateInv' /\ BatchInv' /\ ScoreInv' /\ AdvantageInv' /\ TrainedInv'
      /\ EveryPromptCountsOnce'
  BY <1>u, <1>i, <1>p, RewardFrame
<1>2. RewardInv'
  <2>1. CASE reward' = [reward EXCEPT !.at = "second"] /\ UNCHANGED pc
    <3>1. reward' = [at |-> "second", rows |-> reward.rows, scores |-> reward.scores,
                     extra |-> reward.extra]
      BY <1>i, <2>1 DEF RewardInv
    <3> QED BY <1>u, <1>i, <2>1, <3>1 DEF RewardInv
  <2>2. ASSUME NEW extra, \A column \in extra : ColumnOK(column, batch),
               reward' = [at |-> "done", rows |-> <<>>, scores |-> ResponsesOf(batch), extra |-> extra]
        PROVE  RewardInv'
    <3>1. /\ reward'.at = "done" /\ reward'.scores = ResponsesOf(batch) /\ reward'.extra = extra
          /\ reward'.rows = <<>>
          /\ reward' = [at |-> reward'.at, rows |-> reward'.rows, scores |-> reward'.scores,
                        extra |-> reward'.extra]
      BY <2>2
    <3>2. ResponsesOf(batch)' = ResponsesOf(batch)
      BY <1>u DEF ResponsesOf
    <3>3. \A column \in reward'.extra : ColumnOK(column, batch)'
      BY <1>u, <2>2, <3>1 DEF ColumnOK, ResponsesOf, Prompts
    <3>4. pc' \in {"reward", "score", "union", "advantage"}
      BY <1>i, <1>p
    <3> QED BY <3>1, <3>2, <3>3, <3>4 DEF RewardInv, Assembled
  <2>3. CASE /\ reward.at = "second" \/ found
             /\ reward' = [at |-> "done", rows |-> <<>>, scores |-> answer.reward_tensor,
                           extra |-> IF reward.at = "first" THEN answer.reward_extra_info ELSE {}]
    <3> DEFINE extra == IF reward.at = "first" THEN answer.reward_extra_info ELSE {}
    <3>1. \A column \in extra : ColumnOK(column, batch)
      BY <1>r, <2>3
    <3>2. reward' = [at |-> "done", rows |-> <<>>, scores |-> ResponsesOf(batch), extra |-> extra]
      BY <1>r, <2>3
    <3> HIDE DEF extra
    <3> QED BY <2>2, <3>1, <3>2
  <2> QED BY <1>c, <2>1, <2>3
<1>3. BatchGetsThrough'
  BY <1>u, <1>i, GetsThroughKept
<1> QED BY <1>1, <1>2, <1>3 DEF IInv

LEMMA InvariantRewardRaises == IInv /\ RewardRaises => IInv'
<1> SUFFICES ASSUME IInv, RewardRaises PROVE IInv'
  OBVIOUS
<1>u. /\ reward.at \in {"first", "second"} /\ pc # "failed"
      /\ reward' = [reward EXCEPT !.at = IF reward.at = "first" THEN "second" ELSE "raised"]
      /\ \/ pc' = "failed" /\ error' = "reward"
         \/ UNCHANGED <<pc, error>>
      /\ UNCHANGED <<config, budget, len, sample_size, pilot_reuse, outputs, arrived, batch>>
  BY DEF RewardRaises, Fail
<1>i. RewardInv /\ BatchGetsThrough /\ pc \in {"reward", "score", "union", "advantage"}
  BY <1>u DEF IInv, RewardInv
<1>1. TypeInv' /\ GenerateInv' /\ BatchInv' /\ ScoreInv' /\ AdvantageInv' /\ TrainedInv'
      /\ EveryPromptCountsOnce'
  BY <1>u, <1>i, RewardFrame
<1>2. RewardInv'
  <2>1. reward' = [at |-> IF reward.at = "first" THEN "second" ELSE "raised", rows |-> reward.rows,
                   scores |-> reward.scores, extra |-> reward.extra]
    BY <1>u, <1>i DEF RewardInv
  <2> QED BY <1>u, <1>i, <2>1 DEF RewardInv, SameRows
<1>3. BatchGetsThrough'
  BY <1>u, <1>i, GetsThroughKept
<1> QED BY <1>1, <1>2, <1>3 DEF IInv

LEMMA InvariantScores == ASSUME NEW r \in Ranks PROVE IInv /\ RankScores(r) => IInv'
<1> SUFFICES ASSUME IInv, RankScores(r) PROVE IInv'
  OBVIOUS
<1>u. /\ pc = "score" /\ ~ Contains(arrived, r)
      /\ UNCHANGED <<config, budget, len, sample_size, pilot_reuse, batch, reward>>
  BY DEF RankScores
<1>i. /\ TypeInv /\ RewardInv /\ BatchGetsThrough /\ ScoreInv /\ Sampled /\ config \in Settings
      /\ IsBatch(batch) /\ Len(batch) = N * Total(sample_size) + Total(ReusedOf)
      /\ len \in [Prompts -> config.lens]
  BY <1>u DEF IInv, TypeInv, BatchInv, Assembled
<1> DEFINE d == Len(batch) \div World
           k == num_micro_batches
           rows == Chunk(batch, r)
<1>d. Divided(batch)
  BY <1>u, <1>i DEF ScoreInv, Divided, IsBatch
<1>w. /\ World' = World /\ Ranks' = Ranks /\ Pilots' = Pilots /\ N' = N /\ Prompts' = Prompts
      /\ (Sampled' <=> Sampled) /\ (IsBatch(batch)' <=> IsBatch(batch)) /\ ReusedOf' = ReusedOf
      /\ num_micro_batches' = k /\ World \in Nat \ {0} /\ Ranks = 1 .. World
  BY <1>u, <1>i, SettingType, TablesKept, BatchKept, MicroKept DEF Prompts
<1>1. k \in 0 .. d /\ d \in Nat
  <2>1. k = Micro(batch, len, config)
    BY <1>i, <1>d, MicroIs
  <2>2. Micro(batch, len, config) \in 0 .. d
    BY <1>i, <1>d, MicroBatchesFit
  <2>3. d \in Nat
    BY <1>i, <1>d, DividedRows
  <2> QED BY <2>1, <2>2, <2>3
<1>2. DOMAIN rows = 1 .. d /\ Len(rows) = d
  <2>1. ChunkIs(rows, batch, r, d, {batch[i] : i \in 1 .. Len(batch)})
    BY <1>i, <1>d, DividedRows
  <2> QED BY <2>1 DEF ChunkIs
<1>3. PICK part \in Partitions(Lengths(rows), k, FALSE) :
        LET indices == Listed(part)
            scored == [j \in DOMAIN rows |-> rows[indices[j]].response]
        IN  outputs' = [outputs EXCEPT ![r] =
              [i \in DOMAIN rows |-> [old_log_probs |-> Reverted(scored, indices)[i],
                                      entropys |-> scored[i]]]]
  <2>1. ~ (k > Len(rows))
    BY <1>1, <1>2
  <2> HIDE DEF k, rows
  <2> QED BY <2>1 DEF RankScores, k, rows
<1>4. /\ arrived' = Append(arrived, r)
      /\ pc' = (IF Len(arrived') = World THEN "union" ELSE pc) /\ UNCHANGED error
  <2>1. ~ (k > Len(rows))
    BY <1>1, <1>2
  <2> QED BY <2>1 DEF RankScores
<1>p. pc' \in {"score", "union"}
  BY <1>u, <1>4
<1>5. PICK s : outputs' = [outputs EXCEPT ![r] = s] /\ ScoredAs(s, batch, r, d, k)
  <2> DEFINE s == RankResult(rows, part)
  <2>1. outputs' = [outputs EXCEPT ![r] = s]
    BY <1>3 DEF RankResult
  <2>2. part \in [1 .. d -> 1 .. k] /\ k \in Nat
    BY <1>1, <1>2 DEF Partitions, Lengths
  <2>3. ScoredAs(s, batch, r, d, k)
    <3> HIDE DEF k
    <3>1. d = Len(batch) \div World
      OBVIOUS
    <3> HIDE DEF d
    <3> QED BY <1>i, <1>d, <2>2, <3>1, Scored
  <2> HIDE DEF s
  <2> QED BY <2>1, <2>3
<1>6. /\ arrived' \in Seq(Ranks) /\ IsInjective(arrived')
      /\ \A q : Contains(arrived', q) <=> Contains(arrived, q) \/ q = r
  <2>1. arrived \in Seq(1 .. World) /\ IsInjective(arrived) /\ World \in Nat /\ r \in 1 .. World
    BY <1>i, <1>w DEF TypeInv
  <2>2. /\ Append(arrived, r) \in Seq(1 .. World) /\ IsInjective(Append(arrived, r))
        /\ \A q : Contains(Append(arrived, r), q) <=> Contains(arrived, q) \/ q = r
    BY <1>u, <2>1, OneMoreArrives
  <2> QED BY <1>4, <1>w, <2>2
<1>7. outputs' = [q \in Ranks |-> outputs'[q]]
      /\ \A q \in Ranks : outputs'[q] = IF q = r THEN s ELSE outputs[q]
  BY <1>5, <1>i DEF TypeInv
<1> HIDE DEF d, k, rows
<1>8. TypeInv'
  BY <1>u, <1>p, <1>w, <1>i, <1>6, <1>7 DEF TypeInv
<1>9. ScoreInv'
  <2>1. ASSUME NEW q \in Ranks, Contains(arrived', q) \/ pc' = "union"
        PROVE  ScoredAs(outputs'[q], batch, q, d, k)
    <3>1. Contains(arrived', q)
      <4>1. CASE pc' = "union"
        <5>1. Len(arrived') = World
          BY <1>u, <1>4, <4>1
        <5>2. arrived' \in Seq(1 .. World) /\ IsInjective(arrived') /\ World \in Nat /\ q \in 1 .. World
          BY <1>w, <1>6
        <5> QED BY <5>1, <5>2, EveryOneArrives
      <4> QED BY <2>1, <4>1
    <3>2. CASE q = r
      BY <1>5, <1>7, <3>2
    <3>3. CASE q # r
      <4>1. Contains(arrived, q)
        BY <1>6, <3>1, <3>3
      <4>2. ScoredAs(outputs[q], batch, q, d, k)
        BY <1>u, <1>i, <4>1 DEF ScoreInv, d, k
      <4> QED BY <1>7, <3>3, <4>2
    <3> QED BY <3>2, <3>3
  <2>2. (Len(batch) % World) = 0
    BY <1>d DEF Divided
  <2>3. ASSUME NEW q \in Ranks, Contains(arrived', q) \/ pc' = "union"
        PROVE  ScoredAs(outputs'[q], batch', q, Len(batch') \div World', num_micro_batches')
    <3>1. ScoredAs(outputs'[q], batch, q, d, k)
      BY <2>1, <2>3
    <3> QED BY <1>u, <1>w, <3>1 DEF d
  <2> QED BY <1>u, <1>w, <2>2, <2>3 DEF ScoreInv, ScoredAs
<1>10. BatchInv'
  BY <1>u, <1>w, <1>i, <1>p DEF BatchInv
<1>11. GenerateInv' /\ AdvantageInv' /\ TrainedInv' /\ EveryPromptCountsOnce'
  BY <1>p DEF GenerateInv, AdvantageInv, TrainedInv, EveryPromptCountsOnce
<1>12. RewardInv'
  <2>1. reward.at \in {"first", "second"} => config.async
    BY <1>u, <1>i DEF RewardInv
  <2> QED BY <1>u, <1>w, <1>i, <1>p, <2>1 DEF RewardInv, SameRows, ColumnOK, ResponsesOf, Assembled
<1>13. BatchGetsThrough'
  BY <1>u, <1>w, <1>i, <1>4, GetsThroughKept
<1> QED BY <1>8, <1>9, <1>10, <1>11, <1>12, <1>13 DEF IInv

\* Steps that give the rows columns leave the rest of what is said of them.
LEMMA RowsKept ==
  ASSUME IInv, pc \in {"union", "advantage"}, pc' \in {"advantage", "trained"},
         UNCHANGED <<config, budget, len, sample_size, pilot_reuse>>,
         NEW b, batch' = b, SameRows(batch, b), b = [i \in 1 .. Len(b) |-> b[i]]
  PROVE  /\ BatchInv' /\ ResponsesOf(batch)' = ResponsesOf(batch)
         /\ (Len(batch') % World') = 0 /\ num_micro_batches' = num_micro_batches
         /\ (SameRows(batch, reward.rows) => SameRows(b, reward.rows))
<1>i. /\ config \in Settings /\ IsBatch(batch) /\ Sampled
      /\ Len(batch) = N * Total(sample_size) + Total(ReusedOf) /\ (Len(batch) % World) = 0
  BY DEF IInv, TypeInv, BatchInv, ScoreInv, Assembled
<1>w. /\ World' = World /\ N' = N /\ (Sampled' <=> Sampled) /\ Wanted' = Wanted /\ ReusedOf' = ReusedOf
  BY TablesKept
<1>1. IsBatch(b) /\ ResponsesOf(b) = ResponsesOf(batch) /\ Len(b) = Len(batch)
  BY <1>i, SameBatch DEF SameRows
<1>2. IsBatch(batch)'
  BY <1>w, <1>1 DEF IsBatch
<1>3. BatchInv'
  BY <1>w, <1>i, <1>1, <1>2 DEF BatchInv
<1>4. Divided(batch) /\ Divided(batch)'
  BY <1>w, <1>i, <1>1 DEF Divided, IsBatch
<1>5. num_micro_batches' = num_micro_batches
  <2>1. num_micro_batches = Micro(batch, len, config)
    BY <1>i, <1>4, MicroIs
  <2>2. num_micro_batches' = Micro(b, len, config)
    BY <1>i, <1>4, MicroIsNext
  <2>3. Micro(b, len, config) = Micro(batch, len, config)
    BY <1>i, <1>4, MicroSame
  <2> QED BY <2>1, <2>2, <2>3
<1>6. ResponsesOf(batch)' = ResponsesOf(batch)
  BY <1>1 DEF ResponsesOf
<1>7. SameRows(batch, reward.rows) => SameRows(b, reward.rows)
  BY SameRowsTwice
<1> QED BY <1>w, <1>i, <1>1, <1>3, <1>5, <1>6, <1>7

LEMMA InvariantUnion == IInv /\ Union => IInv'
<1> SUFFICES ASSUME IInv, Union PROVE IInv'
  OBVIOUS
<1> DEFINE b == [i \in DOMAIN batch |->
                  [meta |-> batch[i].meta, prompts |-> batch[i].prompts, response |-> batch[i].response,
                   old_log_probs |-> Collected[i].old_log_probs, entropys |-> Collected[i].entropys]]
<1>u. /\ pc = "union" /\ pc' = "advantage" /\ batch' = b
      /\ outputs' = [r \in Ranks |-> <<>>] /\ arrived' = <<>>
      /\ UNCHANGED <<config, budget, len, sample_size, pilot_reuse, reward, error>>
  BY DEF Union
<1>i. /\ TypeInv /\ RewardInv /\ BatchGetsThrough /\ ScoreInv /\ config \in Settings /\ IsBatch(batch)
  BY <1>u DEF IInv, TypeInv, BatchInv, Assembled
<1>w. /\ World' = World /\ Ranks' = Ranks /\ Pilots' = Pilots /\ Prompts' = Prompts
  BY <1>u, TablesKept DEF Prompts
<1>d. Divided(batch)
  BY <1>u, <1>i DEF ScoreInv, Divided, IsBatch
<1>1. /\ DOMAIN batch = 1 .. Len(batch) /\ Len(b) = Len(batch) /\ b = [i \in 1 .. Len(b) |-> b[i]]
      /\ \A i \in 1 .. Len(batch) : /\ b[i].meta = batch[i].meta /\ b[i].prompts = batch[i].prompts
                                    /\ b[i].response = batch[i].response
                                    /\ b[i].old_log_probs = Collected[i].old_log_probs
                                    /\ b[i].entropys = Collected[i].entropys
  BY <1>i DEF IsBatch
<1> HIDE DEF b
<1>2. \A i \in 1 .. Len(batch) : /\ Collected[i].old_log_probs = batch[i].response
                                 /\ num_micro_batches = 1 => Collected[i].entropys = batch[i].response
  <2> DEFINE d == Len(batch) \div World
  <2>1. \A r \in Ranks : ScoredAs(outputs[r], batch, r, d, num_micro_batches)
    BY <1>u, <1>i DEF ScoreInv
  <2>2. outputs = [r \in Ranks |-> outputs[r]]
    BY <1>i DEF TypeInv
  <2> QED BY <1>i, <1>d, <2>1, <2>2, AllScored
<1>3. SameRows(batch, b)
  BY <1>1 DEF SameRows
<1>4. /\ BatchInv' /\ ResponsesOf(batch)' = ResponsesOf(batch)
      /\ (Len(batch') % World') = 0 /\ num_micro_batches' = num_micro_batches
      /\ (SameRows(batch, reward.rows) => SameRows(b, reward.rows))
  BY <1>u, <1>1, <1>3, RowsKept
<1>5. TypeInv'
  <2>1. arrived' \in Seq(Ranks) /\ IsInjective(arrived')
    BY <1>u DEF IsInjective
  <2>2. outputs' = [r \in Ranks' |-> outputs'[r]]
    BY <1>u, <1>w
  <2> QED BY <1>u, <1>w, <1>i, <2>1, <2>2 DEF TypeInv
<1>6. ScoreInv'
  BY <1>u, <1>4 DEF ScoreInv
<1>7. AdvantageInv'
  BY <1>u, <1>1, <1>2, <1>4 DEF AdvantageInv
<1>8. GenerateInv' /\ TrainedInv' /\ EveryPromptCountsOnce'
  BY <1>u DEF GenerateInv, TrainedInv, EveryPromptCountsOnce
<1>9. RewardInv'
  <2>1. reward.at \in {"first", "second"} => config.async /\ SameRows(b, reward.rows)
    BY <1>u, <1>i, <1>4 DEF RewardInv
  <2>2. ASSUME NEW column, ColumnOK(column, batch) PROVE ColumnOK(column, batch)'
    BY <1>u, <1>w, <1>1, <1>4, <2>2 DEF ColumnOK
  <2> QED BY <1>u, <1>w, <1>i, <1>4, <2>1, <2>2 DEF RewardInv, Assembled
<1>10. BatchGetsThrough'
  BY <1>u, <1>w, <1>i, GetsThroughKept
<1> QED BY <1>4, <1>5, <1>6, <1>7, <1>8, <1>9, <1>10 DEF IInv

LEMMA InvariantAdvantage == IInv /\ ComputeAdvantage => IInv'
<1> SUFFICES ASSUME IInv, ComputeAdvantage PROVE IInv'
  OBVIOUS
<1>u. /\ pc = "advantage" /\ reward.at \in {"done", "raised"}
      /\ UNCHANGED <<config, budget, len, sample_size, pilot_reuse, outputs, arrived, reward>>
  BY DEF ComputeAdvantage
<1>i. /\ TypeInv /\ RewardInv /\ BatchGetsThrough /\ ScoreInv /\ AdvantageInv
      /\ config \in Settings /\ IsBatch(batch) /\ len \in [Prompts -> config.lens]
  BY <1>u DEF IInv, TypeInv, BatchInv, Assembled
<1>w. /\ World' = World /\ Ranks' = Ranks /\ Pilots' = Pilots /\ Prompts' = Prompts
  BY <1>u, TablesKept DEF Prompts
<1>c. ASSUME reward.at = "done"
      PROVE  reward.scores = ResponsesOf(batch) /\ \A column \in reward.extra : ColumnOK(column, batch)
  BY <1>u, <1>i, <1>c DEF RewardInv
<1>1. CASE pc' = "failed" /\ UNCHANGED batch /\ (\/ error' = "reward"
                                                \/ /\ error' = "column of other rows" /\ reward.at = "done"
                                                   /\ \E column \in reward.extra : Len(column) # Len(batch))
  <2>1. TypeInv'
    BY <1>u, <1>w, <1>i, <1>1 DEF TypeInv
  <2>2. GenerateInv' /\ BatchInv' /\ ScoreInv' /\ AdvantageInv' /\ TrainedInv' /\ EveryPromptCountsOnce'
    BY <1>1 DEF GenerateInv, BatchInv, ScoreInv, AdvantageInv, TrainedInv, EveryPromptCountsOnce,
                Assembled
  <2>3. RewardInv'
    BY <1>u, <1>i, <1>1 DEF RewardInv
  <2>4. BatchGetsThrough'
    <3>1. config.dict_sources \in {{}, Prompts} => error' = "reward"
      BY <1>1, <1>c DEF ColumnOK
    <3>2. BatchGetsThrough /\ UNCHANGED <<config, budget>>
      BY <1>u, <1>i
    <3> QED BY <3>1, <3>2, GetsThroughKept
  <2> QED BY <2>1, <2>2, <2>3, <2>4 DEF IInv
<1>2. ASSUME NEW correct, pc' = "trained", UNCHANGED error, reward.at = "done",
             NEW score, score = [i \in DOMAIN batch |-> Score(correct, reward.scores[i])],
             NEW b, batch' = b,
             b = [i \in DOMAIN batch |->
                   [meta |-> batch[i].meta, prompts |-> batch[i].prompts,
                    response |-> batch[i].response,
                    old_log_probs |-> batch[i].old_log_probs, entropys |-> batch[i].entropys,
                    token_level_scores |-> [of |-> reward.scores[i], value |-> score[i]],
                    extra |-> {column[i] : column \in reward.extra},
                    advantages |-> [num |-> Advantage(score, i).num,
                                    den |-> Advantage(score, i).den * Weight(score, i)],
                    weight |-> Weight(score, i)]],
             \A column \in reward.extra : Len(column) = Len(batch)
      PROVE  IInv'
  <2> DEFINE n == Len(batch)
  <2>1. /\ DOMAIN batch = 1 .. n /\ n \in Nat /\ Len(b) = n /\ b = [i \in 1 .. Len(b) |-> b[i]]
        /\ DOMAIN b = 1 .. n
    BY <1>2, <1>i DEF IsBatch
  <2>2. ASSUME NEW i \in 1 .. n
        PROVE  /\ b[i].meta = batch[i].meta /\ b[i].prompts = batch[i].prompts
               /\ b[i].response = batch[i].response
               /\ b[i].old_log_probs = batch[i].old_log_probs /\ b[i].entropys = batch[i].entropys
               /\ b[i].token_level_scores.of = reward.scores[i]
               /\ b[i].token_level_scores.value = score[i]
               /\ b[i].extra = {column[i] : column \in reward.extra}
               /\ b[i].advantages.num = Advantage(score, i).num
               /\ b[i].advantages.den = Advantage(score, i).den * Weight(score, i)
               /\ b[i].weight = Weight(score, i)
    BY <1>2, <2>1
  <2>3. SameRows(batch, b)
    BY <2>1, <2>2 DEF SameRows
  <2>4. reward.scores = ResponsesOf(batch) /\ \A column \in reward.extra : column = ResponsesOf(batch)
    BY <1>2, <1>c DEF ColumnOK
  <2>5. \A i \in 1 .. n : reward.scores[i] = batch[i].response
    BY <2>4 DEF ResponsesOf
  <2>6. ASSUME NEW i \in 1 .. n PROVE b[i].extra \in SUBSET {batch[i].response}
    <3>1. \A column \in reward.extra : column[i] = batch[i].response
      BY <2>4 DEF ResponsesOf
    <3> QED BY <2>2, <3>1
  <2>7. ASSUME NEW i \in 1 .. n
        PROVE  /\ score[i] \in Int /\ score[i] <= config.buffer_len
               /\ Overlong(batch[i].response.prompt) = 0 /\ score[i] > 0 => score[i] = config.buffer_len
    <3>1. batch[i].response \in Responses
      BY <1>i, BatchPrompts
    <3>2. score[i] = Score(correct, batch[i].response)
      BY <1>2, <2>1, <2>5
    <3> QED BY <1>i, <3>1, <3>2, ScoreType
  <2>8. /\ BatchInv' /\ ResponsesOf(batch)' = ResponsesOf(batch)
        /\ (Len(batch') % World') = 0 /\ num_micro_batches' = num_micro_batches
    BY <1>u, <1>2, <2>1, <2>3, RowsKept, ZenonT(40)
  <2>9. TypeInv'
    BY <1>u, <1>w, <1>i, <1>2 DEF TypeInv
  <2>10. GenerateInv' /\ ScoreInv'
    BY <1>2, <2>8 DEF GenerateInv, ScoreInv
  <2>11. AdvantageInv'
    <3>1. \A i \in 1 .. n : /\ batch[i].old_log_probs = batch[i].response
                            /\ num_micro_batches = 1 => batch[i].entropys = batch[i].response
      BY <1>u, <1>i DEF AdvantageInv
    <3> QED BY <1>2, <2>1, <2>2, <2>8, <3>1, ZenonT(40) DEF AdvantageInv
  <2>12. TrainedInv'
    <3>1. \A i \in 1 .. n : /\ b[i].token_level_scores.of = b[i].response
                            /\ b[i].extra \in SUBSET {b[i].response}
      BY <2>2, <2>5, <2>6
    <3>2. reward'.at = "done"
      BY <1>u, <1>2
    <3>3. batch' = b /\ Len(b) = n
      BY <1>2, <2>1
    <3> HIDE DEF n
    <3> QED BY <3>1, <3>2, <3>3 DEF TrainedInv
  <2>13. RewardInv'
    <3>1. ASSUME NEW column, ColumnOK(column, batch) PROVE ColumnOK(column, batch)'
      BY <1>u, <1>w, <1>2, <2>1, <2>8, <3>1 DEF ColumnOK
    <3> QED BY <1>u, <1>w, <1>i, <1>2, <2>8, <3>1 DEF RewardInv, Assembled
  <2>14. BatchGetsThrough'
    BY <1>u, <1>w, <1>i, <1>2, GetsThroughKept
  <2>15. ASSUME config.gvm_reweight = "auto", NEW p \in Prompts
         PROVE  LET rows == {i \in DOMAIN b : b[i].meta = p}
                    sum == SumFunctionOnSet([i \in rows |-> b[i].advantages.num], rows)
                    solved == \E i \in rows : b[i].token_level_scores.value > 0
                IN  IF config.adv_estimator = "raft"
                    THEN /\ ~ solved => sum = 0
                         /\ solved => \A i \in rows : sum \in 1 .. b[i].advantages.den
                         /\ solved /\ Overlong(p) = 0 => \A i \in rows : sum = b[i].advantages.den
                    ELSE /\ \A i \in rows : b[i].weight = Cardinality(rows)
                         /\ Cardinality(rows) > 1 => sum = 0
    <3> DEFINE rows == {i \in DOMAIN b : b[i].meta = p}
               num == [i \in rows |-> b[i].advantages.num]
               sum == SumFunctionOnSet(num, rows)
               solved == \E i \in rows : b[i].token_level_scores.value > 0
    <3>1. rows \in SUBSET (1 .. n) /\ \A i \in 1 .. n : i \in rows <=> batch[i].meta = p
      BY <2>1, <2>2
    <3>n. \A i \in rows : num[i] = b[i].advantages.num
      OBVIOUS
    <3>6. sum = Sum(num, rows)
      BY DEF Sum
    <3>9. solved <=> \E i \in rows : b[i].token_level_scores.value > 0
      OBVIOUS
    <3> HIDE DEF rows, num, sum, solved
    <3>2. IsFiniteSet(rows)
      BY <2>1, <3>1, OneTo, FS_Subset
    <3>3. ASSUME NEW i \in rows PROVE Group(i) = rows
      BY <2>1, <3>1 DEF Group
    <3>4. OnePrompt(rows, score)
      BY <2>7, <3>1, <3>2, <3>3 DEF OnePrompt
    <3>5. \A i \in rows : num[i] = Advantage(score, i).num
      BY <2>2, <3>1, <3>n
    <3>7. CASE config.adv_estimator = "raft"
      <4>0. config.buffer_len \in Nat \ {0}
        BY <1>i, SettingType
      <4>1. /\ Accepted(rows, score) = {} => Sum(num, rows) = 0
            /\ Accepted(rows, score) # {} =>
                 \A i \in rows :
                   /\ Sum(num, rows) \in 1 .. Advantage(score, i).den * Weight(score, i)
                   /\ (\A j \in Accepted(rows, score) : score[j] = config.buffer_len) =>
                        Sum(num, rows) = Advantage(score, i).den * Weight(score, i)
        BY <2>15, <3>4, <3>5, <3>7, <4>0, RaftCounts
      <4>2. solved <=> Accepted(rows, score) # {}
        BY <2>2, <3>1, <3>9, ZenonT(40) DEF Accepted
      <4>3. \A i \in rows : b[i].advantages.den = Advantage(score, i).den * Weight(score, i)
        BY <2>2, <3>1
      <4>5. Overlong(p) = 0 => \A j \in Accepted(rows, score) : score[j] = config.buffer_len
        <5> SUFFICES ASSUME Overlong(p) = 0, NEW j \in rows, score[j] > 0
                     PROVE  score[j] = config.buffer_len
          BY DEF Accepted
        <5>1. j \in 1 .. n /\ batch[j].meta = p
          BY <3>1
        <5>2. batch[j].response.prompt = p
          BY <1>i, <5>1 DEF IsBatch
        <5> QED BY <2>7, <5>1, <5>2
      <4>6. ~ solved => sum = 0
        BY <3>6, <4>1, <4>2
      <4>7. solved => \A i \in rows : sum \in 1 .. b[i].advantages.den
        BY <3>6, <4>1, <4>2, <4>3
      <4>8. solved /\ Overlong(p) = 0 => \A i \in rows : sum = b[i].advantages.den
        BY <3>6, <4>1, <4>2, <4>3, <4>5
      <4> QED BY <3>7, <4>6, <4>7, <4>8 DEF rows, num, sum, solved
    <3>8. CASE config.adv_estimator # "raft"
      <4>1. config.adv_estimator \in {"grpo", "rloo"}
        BY <1>i, <3>8, SettingType
      <4>2. Cardinality(rows) > 1 => sum = 0
        BY <3>4, <3>5, <3>6, <4>1, CentredCancel
      <4>3. \A i \in rows : b[i].weight = Cardinality(rows)
        <5> SUFFICES ASSUME NEW i \in rows PROVE b[i].weight = Cardinality(rows)
          OBVIOUS
        <5>1. b[i].weight = Weight(score, i)
          BY <2>2, <3>1
        <5>2. Weight(score, i) = Cardinality(rows)
          BY <2>15, <3>4, <4>1, CentredWeights
        <5> QED BY <5>1, <5>2
      <4> QED BY <3>8, <4>2, <4>3 DEF rows, num, sum, solved
    <3> QED BY <3>7, <3>8
  <2>16. EveryPromptCountsOnce'
    <3> SUFFICES ASSUME config'.gvm_reweight = "auto", NEW p \in Prompts'
                 PROVE  CountsOnce(p)'
      BY DEF EveryPromptCountsOnce
    <3>1. batch' = b /\ config' = config /\ p \in Prompts
      BY <1>u, <1>w, <1>2
    <3>2. Overlong(p)' = Overlong(p)
      BY <1>u DEF Overlong
    <3> QED BY <2>15, <3>1, <3>2 DEF CountsOnce, RowsOf, Solved, WeightedSum
  <2> QED BY <2>8, <2>9, <2>10, <2>11, <2>12, <2>13, <2>14, <2>16 DEF IInv
<1>3. CASE reward.at = "raised"
  <2>1. pc' = "failed" /\ error' = "reward" /\ UNCHANGED batch
    BY <1>3 DEF ComputeAdvantage, Fail
  <2> QED BY <1>1, <2>1
<1>4. CASE reward.at = "done"
  <2>1. CASE \E column \in reward.extra : Len(column) # Len(batch)
    <3>1. pc' = "failed" /\ error' = "column of other rows" /\ UNCHANGED batch
      BY <1>4, <2>1 DEF ComputeAdvantage, Fail
    <3> QED BY <1>1, <1>4, <2>1, <3>1
  <2>2. CASE ~ \E column \in reward.extra : Len(column) # Len(batch)
    <3>1. PICK correct \in SUBSET (Prompts \X {0, 1}) :
            LET score == [i \in DOMAIN batch |-> Score(correct, reward.scores[i])] IN
              batch' = [i \in DOMAIN batch |->
                [meta |-> batch[i].meta, prompts |-> batch[i].prompts,
                 response |-> batch[i].response,
                 old_log_probs |-> batch[i].old_log_probs, entropys |-> batch[i].entropys,
                 token_level_scores |-> [of |-> reward.scores[i], value |-> score[i]],
                 extra |-> {column[i] : column \in reward.extra},
                 advantages |-> [num |-> Advantage(score, i).num,
                                 den |-> Advantage(score, i).den * Weight(score, i)],
                 weight |-> Weight(score, i)]]
      BY <1>4, <2>2 DEF ComputeAdvantage
    <3>2. pc' = "trained" /\ UNCHANGED error
      BY <1>4, <2>2 DEF ComputeAdvantage
    <3>3. \A column \in reward.extra : Len(column) = Len(batch)
      BY <2>2
    <3> DEFINE score == [i \in DOMAIN batch |-> Score(correct, reward.scores[i])]
    <3>4. PICK s : s = score
      OBVIOUS
    <3> DEFINE b == [i \in DOMAIN batch |->
                [meta |-> batch[i].meta, prompts |-> batch[i].prompts,
                 response |-> batch[i].response,
                 old_log_probs |-> batch[i].old_log_probs, entropys |-> batch[i].entropys,
                 token_level_scores |-> [of |-> reward.scores[i], value |-> s[i]],
                 extra |-> {column[i] : column \in reward.extra},
                 advantages |-> [num |-> Advantage(s, i).num,
                                 den |-> Advantage(s, i).den * Weight(s, i)],
                 weight |-> Weight(s, i)]]
    <3>5. batch' = b
      BY <3>1, <3>4
    <3>6. PICK c : c = b
      OBVIOUS
    <3> HIDE DEF score
    <3> QED BY <1>2, <1>4, <3>2, <3>3, <3>4, <3>5, <3>6 DEF score
  <2> QED BY <2>1, <2>2
<1> QED BY <1>u, <1>3, <1>4

-----------------------------------------------------------------------------
(* The theorems                                                                *)
LEMMA InvariantStep == IInv /\ [Next]_vars => IInv'
<1> SUFFICES ASSUME IInv, [Next]_vars PROVE IInv'
  OBVIOUS
<1>1. ASSUME NEW r \in Ranks, RankGenerates(r) \/ RankScores(r) PROVE IInv'
  BY <1>1, InvariantGenerate, InvariantScores
<1> QED BY <1>1, InvariantSpend, InvariantAssemble, InvariantBalance, InvariantUnion,
           InvariantStartReward, InvariantRewardReturns, InvariantRewardRaises, InvariantAdvantage,
           InvariantStutter DEF Next

LEMMA Invariance == Spec => []IInv
BY InvariantInit, InvariantStep, PTL DEF Spec

\* The row the actor is trained on is about one rollout, whatever the manager, the
\* settings, the lengths and the order in which the ranks and the reward return:
\* meta_info, prompts, responses, log probabilities, scores and extra columns that
\* fit makes apart from each other, in lists of their own, agree on it.
THEOREM RowsOfOneRollout == Spec => []RowsStayTogether
<1>1. IInv => RowsStayTogether
  <2> SUFFICES ASSUME IInv, pc = "trained" PROVE RowsStayTogether
    BY DEF RowsStayTogether
  <2>1. AdvantageInv /\ TrainedInv /\ IsBatch(batch)
    BY DEF IInv, BatchInv, Assembled
  <2>2. DOMAIN batch = 1 .. Len(batch)
    BY <2>1 DEF IsBatch
  <2>3. ASSUME NEW i \in 1 .. Len(batch)
        PROVE  /\ batch[i].meta = batch[i].response.prompt /\ batch[i].prompts = batch[i].response.prompt
               /\ batch[i].old_log_probs = batch[i].response
               /\ num_micro_batches = 1 => batch[i].entropys = batch[i].response
               /\ batch[i].token_level_scores.of = batch[i].response
               /\ batch[i].extra \subseteq {batch[i].response}
    BY <2>1 DEF AdvantageInv, TrainedInv, IsBatch
  <2> QED BY <2>2, <2>3 DEF RowsStayTogether
<1> QED BY <1>1, Invariance, PTL

\* Padding, copying, chunking, joining with the pilots and balancing lose no rollout
\* and double none: every prompt has N rows per copy and the pilots set aside for it.
THEOREM RolloutsOnce == Spec => []EveryRolloutOnce
<1>1. IInv => EveryRolloutOnce
  <2> SUFFICES ASSUME IInv PROVE EveryRolloutOnce
    OBVIOUS
  <2>1. CASE ~ Assembled
    BY <2>1 DEF EveryRolloutOnce
  <2>2. CASE Assembled
    <3>1. Sampled /\ IsBatch(batch) /\ TypeInv
      BY <2>2 DEF IInv, BatchInv
    <3>2. config \in Settings /\ pilot_reuse \in [Prompts -> Nat]
      <4>1. config \in Settings /\ Pilots \in Nat /\ pilot_reuse \in [Prompts -> 0 .. Pilots]
        BY <3>1, SettingType DEF TypeInv
      <4> QED BY <4>1
    <3> QED BY <3>1, <3>2, EachOnce
  <2> QED BY <2>1, <2>2
<1> QED BY <1>1, Invariance, PTL

\* Without pilots the padding of the budgets is to the GPUs of a node.  If that can be
\* shared out among the ranks of all nodes, as it can on one, so can the rows of every
\* later call, and no rank has more micro batches than rows: fit raises only for a reward.
THEOREM GetsThrough == Spec => []BatchGetsThrough
<1>1. IInv => BatchGetsThrough
  BY DEF IInv
<1> QED BY <1>1, Invariance, PTL

\* gvm_reweight lets a prompt count once for every budget, every pattern of correct
\* responses and each estimator, the prompts' rows lying anywhere in the batch: as one
\* unit, or as less under RAFT where DAPO's penalty made its scores fractions.
THEOREM PromptsCountOnce == Spec => []EveryPromptCountsOnce
<1>1. IInv => EveryPromptCountsOnce
  BY DEF IInv
<1> QED BY <1>1, Invariance, PTL

-----------------------------------------------------------------------------
(* The PRIME manager: the inductive invariant of PrimeReward                   *)

\* The rows that have a result.
Done == {i \in Completions : result[i] # Waiting}

\* What a result says of its row.
ResultInv ==
  \A i \in Completions :
    /\ call[i] = "ended" => kind[i] # "hangs"
    /\ result[i] = i => kind[i] = "number"
    /\ result[i] = Dict => kind[i] = "dict"
    /\ result[i] = None => kind[i] = "raises" \/ deadline \/ broken

\* The scores are made of the results of all rows.
ScoresInv ==
  /\ stage # "gathering" => Done = Completions
  /\ stage = "returned" => scores = VerdictScores

PrimeInv == PrimeTypeOK /\ ResultInv /\ ScoresInv

-----------------------------------------------------------------------------
LEMMA CompletionsFinite == IsFiniteSet(Completions) /\ Cardinality(Completions) = NumRows
BY PrimeAssumption, FS_Interval DEF Completions

LEMMA ResultValues ==
  /\ None = 0 /\ Waiting = -1 /\ Dict = NumRows + 1 /\ NumRows \in Nat
  /\ None # Waiting /\ Dict # None /\ Dict # Waiting
  /\ \A i \in Completions : i \in Nat /\ i # None /\ i # Waiting /\ i # Dict
BY PrimeAssumption DEF None, Waiting, Dict, Completions

\* A coroutine that gets its result is counted among those that are done.
LEMMA OneMoreDone ==
  ASSUME PrimeTypeOK, NEW i \in Completions, NEW res \in {None, Dict, i}, GetResult(i, res),
         call' \in [Completions -> {"pending", "queued", "running", "ended", "dropped"}],
         UNCHANGED <<kind, deadline, broken, stage, scores>>
  PROVE  /\ PrimeTypeOK'
         /\ \A j \in Completions : result'[j] = IF j = i THEN res ELSE result[j]
<1>1. \A j \in Completions : result'[j] = IF j = i THEN res ELSE result[j]
  BY DEF GetResult, PrimeTypeOK
<1>2. result' \in [Completions -> {Waiting, None, Dict} \cup Completions]
  BY DEF GetResult, PrimeTypeOK
<1>3. {j \in Completions : result'[j] # Waiting} = Done \cup {i}
  BY <1>1, ResultValues DEF Done
<1>4. IsFiniteSet(Done) /\ i \notin Done
  BY CompletionsFinite, FS_Subset DEF Done, GetResult
<1>5. Cardinality(Done \cup {i}) = Cardinality(Done) + 1
  BY <1>4, FS_AddElement
<1>6. answered' \in Seq(Completions) /\ Len(answered') = Len(answered) + 1
  BY DEF GetResult, PrimeTypeOK
<1>7. Len(answered') = Cardinality({j \in Completions : result'[j] # Waiting})
  BY <1>3, <1>5, <1>6 DEF PrimeTypeOK, Done
<1> QED BY <1>1, <1>2, <1>6, <1>7 DEF PrimeTypeOK

\* gather returns when all rows are done, and not before.
LEMMA GatheredAll == PrimeTypeOK /\ AllDone => Done = Completions
<1> SUFFICES ASSUME PrimeTypeOK, AllDone PROVE Done = Completions
  OBVIOUS
<1>1. Done \in SUBSET Completions /\ Cardinality(Done) = NumRows
  BY DEF PrimeTypeOK, AllDone, Done
<1> QED BY <1>1, CompletionsFinite, FS_Subset

LEMMA VerdictsType ==
  PrimeTypeOK /\ Done = Completions => VerdictScores \in [Completions -> 0 .. NumRows]
<1> SUFFICES ASSUME PrimeTypeOK, Done = Completions, NEW i \in Completions,
                    ~ \E j \in Completions : result[j] = Dict
             PROVE  result[i] \in 0 .. NumRows
  BY ResultValues DEF VerdictScores, Results
<1>1. result[i] \in {None, i}
  BY DEF PrimeTypeOK, Done
<1> QED BY <1>1, ResultValues DEF Completions

LEMMA PrimeInvariantInit == PrimeInit => PrimeInv
<1> SUFFICES ASSUME PrimeInit PROVE PrimeInv
  OBVIOUS
<1>1. {i \in Completions : result[i] # Waiting} = {}
  BY DEF PrimeInit
<1>2. Len(<<>>) = Cardinality({})
  BY FS_EmptySet
<1>3. PrimeTypeOK
  <2>1. Len(answered) = Cardinality({i \in Completions : result[i] # Waiting})
    BY <1>1, <1>2 DEF PrimeInit
  <2>2. answered \in Seq(Completions)
    BY DEF PrimeInit
  <2> QED BY <2>1, <2>2 DEF PrimeInit, PrimeTypeOK
<1> QED BY <1>3, ResultValues DEF PrimeInit, PrimeInv, ResultInv, ScoresInv

LEMMA PrimeInvariantFrame == PrimeInv /\ UNCHANGED primeVars => PrimeInv'
BY DEF PrimeInv, PrimeTypeOK, ResultInv, ScoresInv, Done, VerdictScores, Results, primeVars

\* Steps of the pool.
LEMMA CallsMove ==
  ASSUME PrimeInv, UNCHANGED <<kind, result, deadline, answered, stage, scores>>,
         broken' \in BOOLEAN, broken => broken',
         call' \in [Completions -> {"pending", "queued", "running", "ended", "dropped"}],
         \A i \in Completions : call'[i] = "ended" => kind[i] # "hangs"
  PROVE  PrimeInv'
BY DEF PrimeInv, PrimeTypeOK, ResultInv, ScoresInv, Done, VerdictScores, Results

LEMMA PrimeInvariantStep == PrimeInv /\ [PrimeNext]_primeVars => PrimeInv'
<1> SUFFICES ASSUME PrimeInv, [PrimeNext]_primeVars PROVE PrimeInv'
  OBVIOUS
<1>0. PrimeTypeOK /\ ResultInv /\ ScoresInv
  BY DEF PrimeInv
<1>1. CASE Break
  BY <1>0, <1>1, CallsMove DEF Break, PrimeTypeOK, ResultInv
<1>2. CASE Deadline
  BY <1>0, <1>2 DEF Deadline, PrimeInv, PrimeTypeOK, ResultInv, ScoresInv, Done
<1>3. CASE Gather
  BY <1>0, <1>3, GatheredAll DEF Gather, PrimeInv, PrimeTypeOK, ResultInv, ScoresInv, Done
<1>4. CASE Close
  BY <1>0, <1>4, VerdictsType
  DEF Close, PrimeInv, PrimeTypeOK, ResultInv, ScoresInv, Done, VerdictScores, Results
<1>5. ASSUME NEW i \in Completions, HandOver(i) \/ Start(i) \/ End(i) PROVE PrimeInv'
  <2>1. PICK state \in {"queued", "running", "ended"} :
          Move(i, state) /\ (state = "ended" => kind[i] # "hangs")
    BY <1>5 DEF HandOver, Start, End
  <2> QED BY <1>0, <2>1, CallsMove DEF Move, PrimeTypeOK, ResultInv
<1>6. ASSUME NEW i \in Completions, Answer(i) PROVE PrimeInv'
  <2>1. Outcome(i) \in {None, Dict, i}
    BY DEF Outcome
  <2>2. /\ stage = "gathering" /\ UNCHANGED <<kind, call, deadline, broken, stage, scores>>
        /\ GetResult(i, Outcome(i))
    BY <1>6 DEF Answer
  <2>3. /\ PrimeTypeOK'
        /\ \A j \in Completions : result'[j] = IF j = i THEN Outcome(i) ELSE result[j]
    <3>1. call' \in [Completions -> {"pending", "queued", "running", "ended", "dropped"}]
      BY <1>0, <2>2 DEF PrimeTypeOK
    <3> QED BY <1>0, <2>1, <2>2, <3>1, OneMoreDone
  <2>4. ResultInv'
    BY <1>0, <1>6, <2>2, <2>3, ResultValues DEF ResultInv, Answer, Outcome, PrimeTypeOK, Kinds
  <2> QED BY <2>2, <2>3, <2>4 DEF PrimeInv, ScoresInv
<1>7. ASSUME NEW i \in Completions, TimeOut(i) PROVE PrimeInv'
  <2>1. /\ stage = "gathering" /\ deadline /\ call' = Cancelled(i)
        /\ UNCHANGED <<kind, deadline, broken, stage, scores>>
        /\ GetResult(i, None)
    BY <1>7 DEF TimeOut, Expired
  <2>2. /\ call' \in [Completions -> {"pending", "queued", "running", "ended", "dropped"}]
        /\ \A j \in Completions : call'[j] = "ended" => call[j] = "ended"
    BY <1>0, <2>1 DEF Cancelled, PrimeTypeOK
  <2>3. /\ PrimeTypeOK'
        /\ \A j \in Completions : result'[j] = IF j = i THEN None ELSE result[j]
    BY <1>0, <2>1, <2>2, OneMoreDone
  <2>4. ResultInv'
    BY <1>0, <2>1, <2>2, <2>3, ResultValues DEF ResultInv
  <2> QED BY <2>1, <2>3, <2>4 DEF PrimeInv, ScoresInv
<1>8. CASE UNCHANGED primeVars
  BY <1>8, PrimeInvariantFrame
<1> QED BY <1>1, <1>2, <1>3, <1>4, <1>5, <1>6, <1>7, <1>8 DEF PrimeNext

LEMMA PrimeInvariance == PrimeSpec => []PrimeInv
BY PrimeInvariantInit, PrimeInvariantStep, PTL DEF PrimeSpec

-----------------------------------------------------------------------------
(* The theorems about it                                                       *)

\* In whatever order calls end, timers run out and processes die, every row has one
\* result, which is its own or stands for none, and answered counts the results.
THEOREM PrimeTypeCorrect == PrimeSpec => []PrimeTypeOK
<1>1. PrimeInv => PrimeTypeOK
  BY DEF PrimeInv
<1> QED BY <1>1, PrimeInvariance, PTL

\* verify gives a row its own verdict or 0, and 0 only for one of the reasons the code has.
THEOREM OwnScores == PrimeSpec => []EachRowItsOwnScore
<1>1. PrimeInv => EachRowItsOwnScore
  <2> SUFFICES ASSUME PrimeInv, stage = "returned", NEW i \in Completions
               PROVE  \/ scores[i] = i /\ kind[i] = "number"
                      \/ scores[i] = 0 /\ (\/ kind[i] = "raises" \/ deadline \/ broken
                                           \/ \E j \in Completions : kind[j] = "dict")
    BY DEF EachRowItsOwnScore
  <2>1. scores = VerdictScores /\ result[i] \in {None, Dict, i}
    BY DEF PrimeInv, ScoresInv, PrimeTypeOK, Done
  <2>2. CASE \E j \in Completions : result[j] = Dict
    BY <2>1, <2>2 DEF VerdictScores, Results, PrimeInv, ResultInv
  <2>3. CASE ~ \E j \in Completions : result[j] = Dict
    BY <2>1, <2>3, ResultValues DEF VerdictScores, Results, PrimeInv, ResultInv
  <2> QED BY <2>2, <2>3
<1> QED BY <1>1, PrimeInvariance, PTL

===============================================================================
