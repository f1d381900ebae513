------------------------- MODULE SampleAllocationProofs ------------------------
(***************************************************************************)
(* Proofs about SampleAllocation, for every size of the dataset, number of *)
(* shards, budget and measurement.                                         *)
(***************************************************************************)
EXTENDS SampleAllocation, FoldTheorems

-----------------------------------------------------------------------------
(* float_to_int_preserve_sum                                                   *)

\* Rounding is off by half at most.
LEMMA RoundedClose ==
  ASSUME NEW x \in Nat, NEW d \in Nat \ {0}
  PROVE  /\ Rounded(x, d) \in Nat
         /\ 2 * (x - Rounded(x, d) * d) <= d
         /\ - d <= 2 * (x - Rounded(x, d) * d)
<1> DEFINE q == x \div d
           t == (x % d)
           p == (q % 2)
<1>1. q \in Nat /\ t \in 0 .. d - 1 /\ x = d * q + t
  OBVIOUS
<1>2. p \in {0, 1}
  BY <1>1
<1>3. Rounded(x, d) = IF 2 * t < d THEN q ELSE IF 2 * t > d THEN q + 1 ELSE q + p
  BY DEF Rounded
<1> HIDE DEF q, t, p
<1>4. q * d = d * q /\ (q + 1) * d = d * q + d /\ d * q \in Int
  BY <1>1
<1>5. CASE Rounded(x, d) = q /\ 2 * t <= d
  BY <1>1, <1>4, <1>5
<1>6. CASE Rounded(x, d) = q + 1 /\ 2 * t >= d
  BY <1>1, <1>4, <1>6
<1>7. (Rounded(x, d) = q /\ 2 * t <= d) \/ (Rounded(x, d) = q + 1 /\ 2 * t >= d)
  BY <1>1, <1>2, <1>3
<1> QED BY <1>5, <1>6, <1>7

\* If the residuals make up for m units, none above half of one, then the m
\* largest of them are positive: the rest could not make up for so much.
LEMMA LargestArePositive ==
  ASSUME NEW D, IsFiniteSet(D), NEW r, NEW d \in Nat \ {0}, NEW m \in Nat,
         \A x \in D : r[x] \in Int /\ 2 * r[x] <= d,
         Sum(r, D) = d * m, NEW S \in SUBSET D, Cardinality(S) = m,
         \A x \in S, y \in D \ S : r[x] >= r[y]
  PROVE  \A x \in S : r[x] > 0
<1> SUFFICES ASSUME NEW x \in S, r[x] <= 0 PROVE FALSE
  OBVIOUS
<1> DEFINE R == S \ {x}
           e == [y \in D |-> 2 * r[y]]
           U == D \ R
<1>1. IsFiniteSet(S) /\ IsFiniteSet(R) /\ IsFiniteSet(U)
  BY FS_Subset
<1>2. Cardinality(R) = m - 1 /\ m - 1 \in Nat
  <2>1. Cardinality(R) = Cardinality(S) - 1
    BY <1>1, FS_RemoveElement
  <2> QED BY <1>1, <2>1, FS_CardinalityType
<1>3. \A y \in D : e[y] \in Int /\ e[y] = 2 * r[y] /\ e[y] <= d
  OBVIOUS
<1>4. \A y \in U : e[y] <= 0
  OBVIOUS
<1> HIDE DEF e
<1>5. Sum(e, D) = 2 * Sum(r, D)
  <2>1. 2 \in Int /\ \A y \in D : r[y] \in Int /\ e[y] = 2 * r[y]
    BY <1>3
  <2> QED BY ONLY <2>1, IsFiniteSet(D), SumTimes
<1>6. Sum(e, D) = Sum(e, R) + Sum(e, U)
  <2>1. R \cup U = D /\ R \cap U = {}
    OBVIOUS
  <2>2. \A y \in R \cup U : e[y] \in Int
    BY <1>3
  <2> HIDE DEF R, U
  <2>3. Sum(e, R \cup U) = Sum(e, R) + Sum(e, U)
    BY <1>1, <2>1, <2>2, SumUnion
  <2> QED BY <2>1, <2>3
<1>7. Sum(e, R) <= d * Cardinality(R) /\ Sum(e, R) \in Int
  <2>1. \A y \in R : e[y] \in Int /\ e[y] <= d
    BY <1>3
  <2> HIDE DEF R
  <2>2. Sum(e, R) <= d * Cardinality(R)
    BY <1>1, <2>1, SumAtMost
  <2>3. Sum(e, R) \in Int
    BY <1>1, <2>1, SumRemove
  <2> QED BY <2>2, <2>3
<1>8. Sum(e, U) <= 0 /\ Sum(e, U) \in Int
  <2>1. \A y \in U : e[y] \in Int /\ e[y] <= 0
    BY <1>3, <1>4
  <2>2. Cardinality(U) \in Nat
    BY <1>1, FS_CardinalityType
  <2> HIDE DEF U
  <2>3. Sum(e, U) <= 0 * Cardinality(U)
    BY <1>1, <2>1, SumAtMost
  <2>4. Sum(e, U) \in Int
    BY <1>1, <2>1, SumRemove
  <2> QED BY <2>2, <2>3, <2>4
<1>9. d * (m - 1) = d * m - d /\ d * m \in Nat
  OBVIOUS
<1> HIDE DEF R, U
<1> QED BY ONLY <1>2, <1>5, <1>6, <1>7, <1>8, <1>9, Sum(r, D) = d * m, d \in Nat \ {0}

\* The same of the smallest of them.
LEMMA SmallestAreNegative ==
  ASSUME NEW D, IsFiniteSet(D), NEW r, NEW d \in Nat \ {0}, NEW m \in Nat,
         \A x \in D : r[x] \in Int /\ - d <= 2 * r[x],
         Sum(r, D) = - (d * m), NEW S \in SUBSET D, Cardinality(S) = m,
         \A x \in S, y \in D \ S : r[x] <= r[y]
  PROVE  \A x \in S : r[x] < 0
<1> DEFINE e == [x \in D |-> - r[x]]
<1>1. \A x \in D : e[x] = - r[x] /\ r[x] \in Int
  OBVIOUS
<1> HIDE DEF e
<1>2. \A x \in D : e[x] \in Int /\ 2 * e[x] <= d /\ e[x] = (-1) * r[x]
  BY <1>1
<1>3. Sum(e, D) = d * m
  <2>1. Sum(e, D) = (-1) * Sum(r, D)
    <3>1. \A x \in D : r[x] \in Int /\ e[x] = (-1) * r[x]
      BY <1>2
    <3> QED BY ONLY <3>1, -1 \in Int, IsFiniteSet(D), SumTimes, Zenon
  <2>2. d * m \in Int
    OBVIOUS
  <2> QED BY <2>1, <2>2
<1>4. \A x \in S, y \in D \ S : e[x] >= e[y]
  BY <1>1
<1>5. \A x \in S : e[x] > 0
  BY <1>2, <1>3, <1>4, LargestArePositive
<1> QED BY <1>1, <1>5

LEMMA TotalIsSum == \A f : Total(f) = Sum(f, DOMAIN f)
BY DEF Total, SumFunction, Sum

\* What float_to_int_preserve_sum returns adds up to N, and each number is its exact
\* value rounded down or up.
LEMMA WholeNumbersFit ==
  ASSUME NEW D, IsFiniteSet(D), NEW w \in [D -> Nat], NEW N \in Nat, Total(w) # 0,
         NEW s \in WholeNumbers(w, N)
  PROVE  /\ s \in [D -> Nat] /\ Total(s) = N
         /\ \A i \in D : /\ s[i] * Total(w) > w[i] * N - Total(w)
                         /\ s[i] * Total(w) < w[i] * N + Total(w)
<1> DEFINE d == Total(w)
           int == [i \in D |-> Rounded(w[i] * N, d)]
           error == N - Total(int)
           res == [i \in D |-> w[i] * N - int[i] * d]
           sign == IF error > 0 THEN 1 ELSE -1
           own(S) == [i \in D |-> IF i \in S THEN int[i] + sign ELSE int[i]]
<1>1. d = Sum(w, D) /\ d \in Nat \ {0}
  <2>1. d = Sum(w, D)
    BY TotalIsSum
  <2>2. \A i \in D : w[i] \in Nat
    OBVIOUS
  <2> QED BY <2>1, <2>2, SumOfNaturals
<1>2. \E S \in Corrected(res, error) : s = own(S)
  <2>1. DOMAIN w = D
    OBVIOUS
  <2>2. WholeNumbers(w, N) = {own(S) : S \in Corrected(res, error)}
    BY <2>1 DEF WholeNumbers
  <2> HIDE DEF own, res, error
  <2> QED BY <2>2
<1> HIDE DEF d
<1>3. \A i \in D : /\ w[i] * N \in Nat /\ int[i] \in Nat /\ int[i] * d \in Int
                   /\ res[i] = w[i] * N - int[i] * d
                   /\ 2 * res[i] <= d /\ - d <= 2 * res[i]
  <2> SUFFICES ASSUME NEW i \in D
               PROVE  /\ w[i] * N \in Nat /\ int[i] \in Nat /\ int[i] * d \in Int
                      /\ res[i] = w[i] * N - int[i] * d
                      /\ 2 * res[i] <= d /\ - d <= 2 * res[i]
    OBVIOUS
  <2>1. w[i] * N \in Nat
    OBVIOUS
  <2>2. /\ Rounded(w[i] * N, d) \in Nat
        /\ 2 * (w[i] * N - Rounded(w[i] * N, d) * d) <= d
        /\ - d <= 2 * (w[i] * N - Rounded(w[i] * N, d) * d)
    BY <1>1, <2>1, RoundedClose
  <2>3. int[i] = Rounded(w[i] * N, d) /\ res[i] = w[i] * N - Rounded(w[i] * N, d) * d
    OBVIOUS
  <2> QED BY <1>1, <2>1, <2>2, <2>3
<1>4. Total(int) = Sum(int, D) /\ Total(int) \in Nat /\ error \in Int /\ error = N - Sum(int, D)
  <2>1. DOMAIN int = D
    OBVIOUS
  <2>2. \A i \in D : int[i] \in Nat
    BY <1>3
  <2> HIDE DEF int
  <2>3. Total(int) = Sum(int, D)
    BY <2>1, TotalIsSum
  <2> QED BY <2>2, <2>3, SumOfNaturals
<1>5. DOMAIN res = D
  OBVIOUS
<1> HIDE DEF int, res
<1>6. \A i \in D : res[i] \in Int
  BY <1>3
<1>7. Sum(res, D) = d * error
  <2> DEFINE a == [i \in D |-> w[i] * N]
             b == [i \in D |-> int[i] * d]
  <2>1. \A i \in D : a[i] = N * w[i] /\ w[i] \in Int /\ N \in Int
    OBVIOUS
  <2>2. \A i \in D : b[i] = d * int[i] /\ int[i] \in Int /\ d \in Int
    BY <1>1, <1>3
  <2>3. \A i \in D : a[i] = res[i] + b[i] /\ b[i] \in Int
    BY <1>3
  <2> HIDE DEF a, b
  <2>4. Sum(a, D) = N * d
    BY <1>1, <2>1, SumTimes
  <2>5. Sum(b, D) = d * Sum(int, D)
    <3>1. d \in Int
      BY <1>1
    <3> QED BY <2>2, <3>1, SumTimes
  <2>6. Sum(a, D) = Sum(res, D) + Sum(b, D)
    BY <1>6, <2>3, SumPlus
  <2>7. Sum(res, D) \in Int /\ Sum(int, D) \in Int
    BY <1>4, <1>6, SumRemove
  <2>8. \A x \in Int : d * (N - x) = N * d - d * x /\ N * d \in Int /\ d * x \in Int
    BY <1>1
  <2>9. d * error = N * d - d * Sum(int, D) /\ N * d \in Int /\ d * Sum(int, D) \in Int
    BY <1>4, <2>7, <2>8
  <2> QED BY ONLY <2>4, <2>5, <2>6, <2>7, <2>9
<1>8. PICK S \in Corrected(res, error) : s = own(S)
  BY <1>2
<1> DEFINE m == IF error > 0 THEN error ELSE - error
<1> HIDE DEF error
<1>9. /\ S \in SUBSET D /\ Cardinality(S) = m /\ m \in Nat
      /\ \A i \in S, j \in D \ S :
           IF error > 0 THEN res[i] >= res[j] ELSE res[i] <= res[j]
  BY <1>4, <1>5 DEF Corrected, kSubset
<1>10. \A i \in S : IF error > 0 THEN res[i] > 0 ELSE res[i] < 0
  <2>1. CASE error > 0
    <3>1. \A i \in D : res[i] \in Int /\ 2 * res[i] <= d
      BY <1>3, <1>6
    <3>2. Sum(res, D) = d * m /\ \A i \in S, j \in D \ S : res[i] >= res[j]
      BY <1>7, <1>9, <2>1
    <3> HIDE DEF m
    <3>3. \A i \in S : res[i] > 0
      BY <1>1, <1>9, <3>1, <3>2, LargestArePositive
    <3> QED BY <2>1, <3>3
  <2>2. CASE ~ (error > 0)
    <3>1. \A i \in D : res[i] \in Int /\ - d <= 2 * res[i]
      BY <1>3, <1>6
    <3>2. Sum(res, D) = - (d * m)
      <4>1. m = - error /\ \A x \in Int : d * x = - (d * (- x))
        BY <1>1, <2>2
      <4> QED BY <1>4, <1>7, <4>1
    <3>3. \A i \in S, j \in D \ S : res[i] <= res[j]
      BY <1>9, <2>2
    <3> HIDE DEF m
    <3>4. \A i \in S : res[i] < 0
      BY <1>1, <1>9, <3>1, <3>2, <3>3, SmallestAreNegative
    <3> QED BY <2>2, <3>4
  <2> QED BY <2>1, <2>2
<1>11. \A i \in D : s[i] = IF i \in S THEN int[i] + sign ELSE int[i]
  BY <1>8
<1>12. \A x \in Int : (x + 1) * d = x * d + d /\ (x + (-1)) * d = x * d - d
  BY <1>1
<1>13. ASSUME NEW i \in D
       PROVE  /\ s[i] \in Nat
              /\ s[i] * d > w[i] * N - d
              /\ s[i] * d < w[i] * N + d
  <2>1. /\ w[i] * N \in Nat /\ int[i] \in Nat /\ int[i] * d \in Int
        /\ res[i] = w[i] * N - int[i] * d
        /\ 2 * res[i] <= d /\ - d <= 2 * res[i]
    BY <1>3
  <2>2. CASE i \notin S
    <3>1. s[i] = int[i]
      BY <1>11, <2>2
    <3> QED BY ONLY <1>1, <2>1, <3>1
  <2>3. CASE i \in S /\ error > 0
    <3>1. s[i] = int[i] + 1 /\ res[i] > 0
      BY <1>10, <1>11, <2>3
    <3>2. s[i] * d = int[i] * d + d
      BY <1>12, <2>1, <3>1
    <3> QED BY ONLY <1>1, <2>1, <3>1, <3>2
  <2>4. CASE i \in S /\ ~ (error > 0)
    <3>1. s[i] = int[i] + (-1) /\ res[i] < 0
      BY <1>10, <1>11, <2>4
    <3>2. s[i] * d = int[i] * d - d
      BY <1>12, <2>1, <3>1
    <3>3. int[i] # 0
      <4> SUFFICES ASSUME int[i] = 0 PROVE FALSE
        OBVIOUS
      <4>1. int[i] * d = 0
        BY <1>1
      <4> QED BY <2>1, <3>1, <4>1
    <3> QED BY ONLY <1>1, <2>1, <3>1, <3>2, <3>3
  <2> QED BY <2>2, <2>3, <2>4
<1>14. s \in [D -> Nat] /\ DOMAIN s = D
  <2>1. s = [i \in D |-> s[i]]
    BY <1>8
  <2> QED BY <1>13, <2>1
<1>15. Total(s) = N
  <2> DEFINE e == [i \in D |-> IF i \in S THEN sign ELSE 0]
  <2>1. sign \in Int /\ sign * m = error
    BY <1>4
  <2> HIDE DEF sign, m
  <2>2. \A i \in D : e[i] \in Int /\ int[i] \in Int /\ s[i] = int[i] + e[i]
    BY <1>3, <1>11, <2>1
  <2>3. (\A i \in S : e[i] = sign) /\ (\A i \in D \ S : e[i] = 0)
    BY <1>9
  <2> HIDE DEF e
  <2>4. Sum(s, D) = Sum(int, D) + Sum(e, D)
    BY <2>2, SumPlus
  <2>5. IsFiniteSet(S) /\ IsFiniteSet(D \ S)
    BY <1>9, FS_Subset
  <2>6. Sum(e, D) = Sum(e, S) + Sum(e, D \ S)
    <3> DEFINE R == D \ S
    <3>1. S \cup R = D /\ S \cap R = {} /\ \A i \in S \cup R : e[i] \in Int
      BY <1>9, <2>2
    <3>2. IsFiniteSet(R)
      BY <2>5
    <3> HIDE DEF R
    <3>3. Sum(e, S \cup R) = Sum(e, S) + Sum(e, R)
      BY <2>5, <3>1, <3>2, SumUnion
    <3> QED BY <3>1, <3>3 DEF R
  <2>7. Sum(e, S) = sign * m
    <3>1. Sum(e, S) = sign * Cardinality(S)
      BY <2>1, <2>3, <2>5, SumConstant
    <3> QED BY <1>9, <3>1
  <2>8. Sum(e, D \ S) = 0
    <3> DEFINE R == D \ S
    <3>1. IsFiniteSet(R) /\ \A i \in R : e[i] = 0
      BY <2>3, <2>5
    <3> HIDE DEF R
    <3>2. Sum(e, R) = 0 * Cardinality(R) /\ Cardinality(R) \in Nat
      BY <3>1, SumConstant, FS_CardinalityType
    <3> QED BY <3>2 DEF R
  <2>9. Sum(s, D) = Sum(int, D) + error
    BY <1>4, <2>1, <2>4, <2>6, <2>7, <2>8
  <2>10. Total(s) = Sum(s, D)
    BY <1>14, TotalIsSum
  <2> QED BY <1>4, <2>9, <2>10
<1> QED BY <1>13, <1>14, <1>15 DEF d

-----------------------------------------------------------------------------
(* The shards                                                                  *)

LEMMA ShardArithmetic ==
  ASSUME AllocationAssumption, data_size \in Nat
  PROVE  /\ World \in Nat \ {0} /\ one_num_share \in Nat
         /\ \A k \in Shards : /\ k \in Nat /\ one_num_share * k \in Nat
                              /\ one_num_share * k <= ShardEnd(k)
                              /\ ShardEnd(k) \in Nat /\ ShardEnd(k) <= data_size
                              /\ k # World - 1 => ShardEnd(k) = one_num_share * k + one_num_share
                              /\ k = World - 1 => ShardEnd(k) = data_size
         /\ \A h, k \in Shards : h < k => ShardEnd(h) <= one_num_share * k
<1> DEFINE b == one_num_share
<1>1. World \in Nat \ {0} /\ b \in Nat /\ b * World <= data_size /\ b * World \in Nat
  <2>1. World \in Nat \ {0}
    BY DEF AllocationAssumption
  <2>2. data_size \div World \in Nat /\ World * (data_size \div World) <= data_size
    BY <2>1
  <2>3. b = data_size \div World
    BY DEF one_num_share
  <2> HIDE DEF b
  <2>4. b * World = World * b /\ b * World \in Nat
    BY <2>1, <2>2, <2>3
  <2> QED BY <2>1, <2>2, <2>3, <2>4
<1>2. ASSUME NEW h \in Nat, NEW k \in Nat, h <= k PROVE b * h <= b * k
  <2> HIDE DEF b
  <2>1. k - h \in Nat /\ k = h + (k - h)
    BY <1>2
  <2>2. PICK e \in Nat : k = h + e
    BY <2>1
  <2>3. b * k = b * h + b * e /\ b * e \in Nat /\ b * h \in Nat
    BY <1>1, <2>2
  <2> QED BY <2>3
<1>3. \A k \in Shards : /\ k \in Nat /\ k <= World - 1
                        /\ ShardEnd(k) = IF k = World - 1 THEN data_size ELSE b * (k + 1)
  BY <1>1 DEF Shards, ShardEnd
<1> HIDE DEF b
<1>4. ASSUME NEW k \in Shards
      PROVE  /\ k \in Nat /\ b * k \in Nat /\ b * k <= b * World
             /\ b * (k + 1) = b * k + b /\ b * (k + 1) <= b * World
  <2>1. k \in Nat /\ k + 1 \in Nat /\ k <= World /\ k + 1 <= World
    BY <1>1, <1>3
  <2>2. b * k <= b * World /\ b * (k + 1) <= b * World
    BY <1>1, <1>2, <2>1
  <2> QED BY <1>1, <2>1, <2>2
<1>5. ASSUME NEW k \in Shards
      PROVE  /\ b * k <= ShardEnd(k)
             /\ ShardEnd(k) \in Nat /\ ShardEnd(k) <= data_size
             /\ k # World - 1 => ShardEnd(k) = b * k + b
             /\ k = World - 1 => ShardEnd(k) = data_size
  <2>1. CASE k = World - 1
    BY <1>1, <1>3, <1>4, <2>1
  <2>2. CASE k # World - 1
    <3>1. ShardEnd(k) = b * (k + 1)
      BY <1>3, <2>2
    <3> HIDE DEF ShardEnd
    <3> QED BY <1>1, <1>4, <2>2, <3>1
  <2> QED BY <2>1, <2>2
<1>6. ASSUME NEW h \in Shards, NEW k \in Shards, h < k PROVE ShardEnd(h) <= b * k
  <2>1. h # World - 1 /\ h + 1 <= k /\ h + 1 \in Nat /\ k \in Nat
    BY <1>1, <1>3, <1>6
  <2>2. ShardEnd(h) = b * (h + 1)
    BY <1>3, <2>1
  <2>3. b * (h + 1) <= b * k
    BY <1>2, <2>1
  <2> QED BY <2>2, <2>3
<1> QED BY <1>1, <1>4, <1>5, <1>6 DEF b

\* Every prompt is in one shard.
LEMMA ShardOfPrompt ==
  ASSUME AllocationAssumption, data_size \in Nat, NEW i \in Prompts
  PROVE  \E k \in Shards : \E j \in 1 .. ShardEnd(k) - one_num_share * k :
           i = one_num_share * k + j - 1
<1> DEFINE b == one_num_share
           q == i \div b
           t == (i % b)
           last == World - 1
<1>1. World \in Nat \ {0} /\ b \in Nat /\ i \in Nat /\ i < data_size
  BY ShardArithmetic DEF Prompts
<1>2. last \in Shards /\ b * last \in Nat /\ ShardEnd(last) = data_size
  <2>1. last \in Shards
    BY <1>1 DEF Shards
  <2> QED BY <2>1, ShardArithmetic
<1>3. CASE b * last <= i
  <2>1. i - b * last + 1 \in 1 .. ShardEnd(last) - b * last
    BY <1>1, <1>2, <1>3
  <2>2. i = b * last + (i - b * last + 1) - 1
    BY <1>1, <1>2
  <2> QED BY <1>2, <2>1, <2>2
<1>4. CASE i < b * last
  <2> HIDE DEF b
  <2>1. b # 0
    BY <1>1, <1>4
  <2>2. q \in Nat /\ t \in 0 .. b - 1 /\ i = b * q + t
    BY <1>1, <2>1
  <2> HIDE DEF q, t, last
  <2>3. q < last
    <3> SUFFICES ASSUME q >= last PROVE FALSE
      BY <1>1, <2>2 DEF last
    <3>1. last \in Nat /\ q - last \in Nat /\ q = last + (q - last)
      BY <1>1, <2>2 DEF last
    <3>2. PICK e \in Nat : q = last + e
      BY <3>1
    <3>3. b * q = b * last + b * e /\ b * e \in Nat /\ b * last \in Nat
      BY <1>1, <3>1, <3>2
    <3> QED BY <1>1, <1>4, <2>2, <3>3
  <2>4. q \in Shards /\ q # World - 1
    BY <1>1, <2>2, <2>3 DEF Shards, last
  <2>5. ShardEnd(q) = b * q + b /\ b * q \in Nat
    BY <2>4, ShardArithmetic DEF b
  <2>6. t + 1 \in 1 .. ShardEnd(q) - b * q /\ i = b * q + (t + 1) - 1
    BY <1>1, <2>2, <2>5
  <2> QED BY <2>4, <2>6 DEF b
<1> QED BY <1>1, <1>2, <1>3, <1>4

\* And in no other.
LEMMA ShardsApart ==
  ASSUME AllocationAssumption, data_size \in Nat,
         NEW h \in Shards, NEW i \in 1 .. ShardEnd(h) - one_num_share * h,
         NEW k \in Shards, NEW j \in 1 .. ShardEnd(k) - one_num_share * k,
         one_num_share * h + i = one_num_share * k + j
  PROVE  h = k /\ i = j
<1> DEFINE a == one_num_share * h
           b == one_num_share * k
<1>1. /\ a \in Nat /\ b \in Nat /\ ShardEnd(h) \in Nat /\ ShardEnd(k) \in Nat
      /\ h \in Nat /\ k \in Nat
      /\ h < k => ShardEnd(h) <= b
      /\ k < h => ShardEnd(k) <= a
  BY ShardArithmetic
<1>2. a + i = b + j /\ i \in 1 .. ShardEnd(h) - a /\ j \in 1 .. ShardEnd(k) - b
  OBVIOUS
<1>3. ~ (h < k) /\ ~ (k < h)
  <2> HIDE DEF a, b
  <2> QED BY ONLY <1>1, <1>2
<1>4. h = k
  BY <1>1, <1>3
<1> QED BY <1>1, <1>2, <1>4

-----------------------------------------------------------------------------
(* The joined files                                                            *)

\* The files of the shards, joined, have the entry of each prompt at its index.
LEMMA JoinedShards ==
  ASSUME AllocationAssumption, data_size \in Nat, NEW T, NEW files \in [Shards -> Seq(T)],
         \A k \in Shards : Len(files[k]) = ShardEnd(k) - one_num_share * k
  PROVE  /\ Joined(files) \in Seq(T) /\ Len(Joined(files)) = data_size
         /\ \A k \in Shards : \A j \in 1 .. ShardEnd(k) - one_num_share * k :
              Joined(files)[one_num_share * k + j] = files[k][j]
<1> DEFINE W == World
           b == one_num_share
           c == [k \in 1 .. W |-> files[k - 1]]
           off == [i \in 0 .. W |-> IF i = W THEN data_size ELSE b * i]
<1>1. W \in Nat \ {0} /\ b \in Nat /\ Shards = 0 .. W - 1
  BY ShardArithmetic DEF Shards
<1>2. Len(c) = W /\ \A k \in 1 .. W : c[k] = files[k - 1]
  BY <1>1
<1>3. \A k \in Shards : /\ k \in Nat /\ b * k \in Nat /\ b * k <= ShardEnd(k)
                        /\ ShardEnd(k) \in Nat
                        /\ k # W - 1 => ShardEnd(k) = b * k + b
                        /\ k = W - 1 => ShardEnd(k) = data_size
  BY ShardArithmetic DEF W
<1>4. \A i \in 0 .. W : off[i] = IF i = W THEN data_size ELSE b * i
  OBVIOUS
<1>5. \A k \in Shards : /\ files[k] \in Seq(T)
                        /\ Len(files[k]) = ShardEnd(k) - b * k
  OBVIOUS
<1>6. Joined(files) = FlattenSeq(c)
  BY DEF Joined
<1> HIDE DEF c, W, b, off
<1>7. ASSUME NEW k \in Shards
      PROVE  off[k] = b * k /\ off[k + 1] = ShardEnd(k)
  <2>1. k \in 0 .. W /\ k + 1 \in 0 .. W /\ k # W /\ (k + 1 = W <=> k = W - 1)
    BY <1>1
  <2>2. off[k] = b * k /\ off[k + 1] = IF k = W - 1 THEN data_size ELSE b * (k + 1)
    BY <1>4, <2>1
  <2>3. b * (k + 1) = b * k + b
    BY <1>1
  <2> QED BY <1>3, <2>2, <2>3
<1>8. Offsets(off, c, W, T)
  <2>1. ASSUME NEW i \in 0 .. W PROVE off[i] \in Nat
    <3>1. CASE i = W
      BY <1>4, <3>1
    <3>2. CASE i # W
      <4>1. i \in Shards
        BY <1>1, <3>2
      <4> QED BY <1>3, <1>7, <4>1
    <3> QED BY <3>1, <3>2
  <2>2. off[0] = 0
    BY <1>1, <1>4
  <2>3. ASSUME NEW i \in 1 .. W
        PROVE  c[i] \in Seq(T) /\ off[i] = off[i - 1] + Len(c[i])
    <3> DEFINE k == i - 1
    <3>1. k \in Shards /\ k + 1 = i /\ c[i] = files[k]
      BY <1>1, <1>2
    <3> HIDE DEF k
    <3>2. off[k] = b * k /\ off[i] = ShardEnd(k) /\ Len(c[i]) = ShardEnd(k) - b * k
      BY <1>5, <1>7, <3>1
    <3>3. off[i] = off[k] + Len(c[i])
      BY <1>3, <3>1, <3>2
    <3> QED BY <1>5, <3>1, <3>3 DEF k
  <2> QED BY <1>2, <2>1, <2>2, <2>3 DEF Offsets
<1>9. EntriesAt(FlattenSeq(c), off, c, W, T)
  BY <1>1, <1>8, EntriesOfFlatten
<1>10. Joined(files) \in Seq(T) /\ Len(Joined(files)) = data_size
  <2>1. off[W] = data_size
    BY <1>1, <1>4
  <2> QED BY <1>6, <1>9, <2>1 DEF EntriesAt
<1>11. ASSUME NEW k \in Shards, NEW j \in 1 .. ShardEnd(k) - b * k
       PROVE  Joined(files)[b * k + j] = files[k][j]
  <2>1. k + 1 \in 1 .. W /\ (k + 1) - 1 = k
    BY <1>1
  <2>2. c[k + 1] = files[k] /\ off[(k + 1) - 1] = b * k
    BY <1>2, <1>7, <2>1
  <2>3. j \in 1 .. Len(c[k + 1])
    BY <1>5, <2>2
  <2>4. FlattenSeq(c)[off[(k + 1) - 1] + j] = c[k + 1][j]
    BY <1>9, <2>1, <2>3 DEF EntriesAt
  <2> QED BY <1>6, <2>2, <2>4
<1> QED BY <1>10, <1>11 DEF b

-----------------------------------------------------------------------------
(* The inductive invariant                                                     *)

ShardsCollected ==
  \A k \in Shards :
    /\ Len(collected[k]) = ShardEnd(k) - one_num_share * k
    /\ \A j \in 1 .. ShardEnd(k) - one_num_share * k :
         collected[k][j].problem = one_num_share * k + j - 1

ShardsMeasured ==
  \A k \in Shards :
    /\ Len(accept_rates[k]) = ShardEnd(k) - one_num_share * k
    /\ Len(grads[k]) = ShardEnd(k) - one_num_share * k
    /\ \A j \in 1 .. ShardEnd(k) - one_num_share * k :
         accept_rates[k][j] = collected[k][j].correct

\* TypeOK without the trainer's pilots.
FilesType ==
  /\ data_size \in 1 .. MaxPrompts
  /\ cli \in [stage_2_samples : Budgets, filter_threshold : 0 .. Pilots, filter_insufficient : 0 .. 1]
  /\ pc \in {"sampling", "measuring", "allocating", "loading", "training", "raised"}
  /\ collected \in Files([problem : Prompts, correct : 0 .. Pilots])
  /\ accept_rates \in Files(0 .. Pilots)
  /\ grads \in Files(Nat)
  /\ sample_sizes \in Seq(Nat)

Inv ==
  /\ FilesType
  /\ pc # "sampling" => ShardsCollected
  /\ pc \notin {"sampling", "measuring"} => ShardsMeasured
  /\ Allocated => Total(shares) # 0 /\ sample_sizes \in WholeNumbers(shares, stage_2_samples)

PilotsInv ==
  /\ DOMAIN pilot_texts \subseteq Prompts /\ Range(pilot_texts) \subseteq Prompts
  /\ PilotsFollowThePrompt

LEMMA DataSizeType ==
  ASSUME AllocationAssumption, FilesType
  PROVE  data_size \in Nat /\ Prompts = 0 .. data_size - 1
BY DEF AllocationAssumption, FilesType, Prompts

\* The joined rates and norms, by the index of the prompt.
LEMMA JoinedByIndex ==
  ASSUME AllocationAssumption, FilesType, ShardsMeasured
  PROVE  /\ rates \in Seq(0 .. Pilots) /\ Len(rates) = data_size
         /\ all_grads \in Seq(Nat) /\ Len(all_grads) = data_size
         /\ \A k \in Shards : \A j \in 1 .. ShardEnd(k) - one_num_share * k :
              /\ rates[one_num_share * k + j] = collected[k][j].correct
              /\ all_grads[one_num_share * k + j] = grads[k][j]
<1>1. data_size \in Nat
  BY DataSizeType
<1>2. /\ accept_rates \in [Shards -> Seq(0 .. Pilots)]
      /\ \A k \in Shards : Len(accept_rates[k]) = ShardEnd(k) - one_num_share * k
  BY DEF FilesType, Files, ShardsMeasured
<1>3. /\ rates \in Seq(0 .. Pilots) /\ Len(rates) = data_size
      /\ \A k \in Shards : \A j \in 1 .. ShardEnd(k) - one_num_share * k :
           rates[one_num_share * k + j] = accept_rates[k][j]
  BY ONLY AllocationAssumption, <1>1, <1>2, JoinedShards DEF rates
<1>4. /\ grads \in [Shards -> Seq(Nat)]
      /\ \A k \in Shards : Len(grads[k]) = ShardEnd(k) - one_num_share * k
  BY DEF FilesType, Files, ShardsMeasured
<1>5. /\ all_grads \in Seq(Nat) /\ Len(all_grads) = data_size
      /\ \A k \in Shards : \A j \in 1 .. ShardEnd(k) - one_num_share * k :
           all_grads[one_num_share * k + j] = grads[k][j]
  BY ONLY AllocationAssumption, <1>1, <1>4, JoinedShards DEF all_grads
<1> QED BY <1>3, <1>5 DEF ShardsMeasured

LEMMA BudgetType ==
  ASSUME AllocationAssumption, FilesType, ShardsMeasured
  PROVE  /\ stage_2_samples \in Nat
         /\ stage_2_samples = Min({cli.stage_2_samples, data_size * Pilots})
<1>1. cli.stage_2_samples \in Nat /\ data_size \in Nat /\ Pilots \in Nat
  BY DataSizeType DEF AllocationAssumption, FilesType
<1>2. data_size * Pilots \in Nat
  BY <1>1
<1>3. stage_2_samples = Min({cli.stage_2_samples, data_size * Pilots})
  BY JoinedByIndex DEF stage_2_samples
<1>4. ASSUME NEW a \in Nat, NEW b \in Nat PROVE Min({a, b}) \in Nat
  <2>1. \E x \in {a, b} : \A y \in {a, b} : x <= y
    <3>1. CASE a <= b
      BY <3>1
    <3>2. CASE b <= a
      BY <3>2
    <3> QED BY <3>1, <3>2
  <2>2. Min({a, b}) \in {a, b}
    BY <2>1 DEF Min
  <2> QED BY <2>2
<1> QED BY <1>1, <1>2, <1>3, <1>4

LEMMA SharesType ==
  ASSUME AllocationAssumption, FilesType, ShardsMeasured
  PROVE  /\ shares \in [1 .. data_size -> Nat]
         /\ \A i \in 1 .. data_size :
              /\ rates[i] \in 0 .. Pilots /\ all_grads[i] \in Nat
              /\ \/ shares[i] = 0
                 \/ shares[i] = IF all_grads[i] = 0 \/ rates[i] = 0 THEN 0
                                ELSE all_grads[i] * Discount[rates[i]]
<1> DEFINE n == data_size
           w == Ratio(all_grads, rates)
<1>1. /\ \A i \in 1 .. n : rates[i] \in 0 .. Pilots /\ all_grads[i] \in Nat
      /\ DOMAIN all_grads = 1 .. n
  <2>1. /\ rates \in Seq(0 .. Pilots) /\ Len(rates) = n
        /\ all_grads \in Seq(Nat) /\ Len(all_grads) = n
    BY JoinedByIndex, Zenon
  <2>2. DOMAIN rates = 1 .. n /\ DOMAIN all_grads = 1 .. n
    BY ONLY <2>1
  <2> QED BY ONLY <2>1, <2>2, EntryOfSeq
<1>2. w = [i \in 1 .. n |-> IF all_grads[i] = 0 \/ rates[i] = 0 THEN 0
                              ELSE all_grads[i] * Discount[rates[i]]]
  BY <1>1 DEF Ratio
<1>3. \A i \in 1 .. n : w[i] \in Nat /\ w[i] = IF all_grads[i] = 0 \/ rates[i] = 0 THEN 0
                                               ELSE all_grads[i] * Discount[rates[i]]
  <2> SUFFICES ASSUME NEW i \in 1 .. n PROVE w[i] \in Nat
    BY <1>2
  <2>1. rates[i] # 0 => Discount[rates[i]] \in Nat
    BY <1>1 DEF AllocationAssumption
  <2>2. all_grads[i] \in Nat
    BY <1>1
  <2>3. w[i] = IF all_grads[i] = 0 \/ rates[i] = 0 THEN 0 ELSE all_grads[i] * Discount[rates[i]]
    BY <1>2
  <2> HIDE DEF w
  <2> QED BY <2>1, <2>2, <2>3
<1>4. DOMAIN w = 1 .. n
  BY <1>2
<1> HIDE DEF w
<1>5. /\ shares = [i \in 1 .. n |-> shares[i]]
      /\ \A i \in 1 .. n : shares[i] = 0 \/ shares[i] = w[i]
  BY <1>4 DEF shares, Filtered, w
<1> QED BY <1>1, <1>3, <1>5

LEMMA IndexesFinite ==
  ASSUME NEW n \in Nat
  PROVE  /\ IsFiniteSet(1 .. n) /\ Cardinality(1 .. n) = n
         /\ IsFiniteSet(0 .. n - 1) /\ Cardinality(0 .. n - 1) = n
<1>1. IsFiniteSet(1 .. n) /\ Cardinality(1 .. n) = IF 1 > n THEN 0 ELSE n - 1 + 1
  BY FS_Interval
<1>2. IsFiniteSet(0 .. n - 1) /\ Cardinality(0 .. n - 1) = IF 0 > n - 1 THEN 0 ELSE n - 1 - 0 + 1
  BY FS_Interval
<1> QED BY <1>1, <1>2

-----------------------------------------------------------------------------
(* The steps                                                                   *)

LEMMA CollectInv ==
  ASSUME AllocationAssumption, Inv, Collect
  PROVE  Inv'
<1> DEFINE b == one_num_share
           R == [problem : Prompts, correct : 0 .. Pilots]
<1>1. /\ pc = "sampling" /\ pc' = "measuring"
      /\ UNCHANGED <<data_size, cli, accept_rates, grads, sample_sizes, pilot_texts>>
      /\ FilesType
  BY DEF Collect, Inv
<1>2. PICK correct \in [Prompts -> 0 .. Pilots] :
        collected' = [k \in Shards |->
          [j \in DOMAIN ShardPrompts(k) |->
            [problem |-> ShardPrompts(k)[j], correct |-> correct[ShardPrompts(k)[j]]]]]
  BY DEF Collect
<1>3. data_size \in Nat /\ Prompts = 0 .. data_size - 1
  BY <1>1, DataSizeType
<1>4. ASSUME NEW k \in Shards
      PROVE  /\ collected'[k] \in Seq(R)
             /\ Len(collected'[k]) = ShardEnd(k) - b * k
             /\ \A j \in 1 .. ShardEnd(k) - b * k : collected'[k][j].problem = b * k + j - 1
  <2> DEFINE m == ShardEnd(k) - b * k
             p == [j \in 1 .. m |-> b * k + j - 1]
             s == [j \in 1 .. m |-> [problem |-> p[j], correct |-> correct[p[j]]]]
  <2>1. /\ b * k \in Nat /\ ShardEnd(k) \in Nat /\ b * k <= ShardEnd(k)
        /\ ShardEnd(k) <= data_size
    BY <1>3, ShardArithmetic
  <2>2. m \in Nat
    BY <2>1
  <2>3. ShardPrompts(k) = p
    BY DEF ShardPrompts
  <2>4. collected'[k] = s
    BY <1>2, <2>3
  <2>5. \A j \in 1 .. m : p[j] \in Prompts /\ p[j] = b * k + j - 1
    <3> HIDE DEF b
    <3> SUFFICES ASSUME NEW j \in 1 .. m PROVE p[j] \in Prompts /\ p[j] = b * k + j - 1
      OBVIOUS
    <3>1. j \in Int /\ 1 <= j /\ j <= ShardEnd(k) - b * k
      BY ONLY <2>1, j \in 1 .. m DEF m
    <3>2. b * k + j - 1 \in 0 .. data_size - 1
      BY ONLY <1>3, <2>1, <3>1
    <3> QED BY <3>2 DEF Prompts
  <2> HIDE DEF p, m
  <2>6. \A j \in 1 .. m : s[j] \in R /\ s[j].problem = p[j]
    BY <2>5
  <2>7. s \in [1 .. m -> R]
    BY <2>6
  <2> HIDE DEF s, R
  <2>8. s \in Seq(R) /\ Len(s) = m
    BY <2>2, <2>7
  <2> QED BY <2>4, <2>5, <2>6, <2>8 DEF m
<1>5. collected' \in Files(R)
  <2>1. collected' = [k \in Shards |-> collected'[k]]
    BY <1>2
  <2> HIDE DEF R
  <2> QED BY <1>4, <2>1 DEF Files
<1>6. /\ Prompts' = Prompts /\ one_num_share' = one_num_share
      /\ \A k \in Shards : ShardEnd(k)' = ShardEnd(k)
  BY <1>1 DEF Prompts, one_num_share, ShardEnd
<1>7. FilesType'
  BY <1>1, <1>5, <1>6 DEF FilesType
<1>8. ShardsCollected'
  BY <1>4, <1>6 DEF ShardsCollected
<1> QED BY <1>1, <1>7, <1>8 DEF Inv, Allocated

LEMMA MeasureInv ==
  ASSUME AllocationAssumption, Inv, Measure
  PROVE  Inv'
<1> DEFINE b == one_num_share
<1>1. /\ pc = "measuring" /\ pc' = "allocating"
      /\ UNCHANGED <<data_size, cli, collected, sample_sizes, pilot_texts>>
      /\ FilesType /\ ShardsCollected
      /\ accept_rates' = [k \in Shards |-> [j \in DOMAIN collected[k] |-> collected[k][j].correct]]
  BY DEF Measure, Inv
<1>2. PICK norm \in [Prompts -> Norms] :
        grads' = [k \in Shards |->
          [j \in DOMAIN collected[k] |->
            IF collected[k][j].correct = 0 THEN 0 ELSE norm[collected[k][j].problem]]]
  BY DEF Measure
<1>3. data_size \in Nat
  BY <1>1, DataSizeType
<1>4. ASSUME NEW k \in Shards
      PROVE  /\ accept_rates'[k] \in Seq(0 .. Pilots) /\ grads'[k] \in Seq(Nat)
             /\ Len(accept_rates'[k]) = ShardEnd(k) - b * k
             /\ Len(grads'[k]) = ShardEnd(k) - b * k
             /\ \A j \in 1 .. ShardEnd(k) - b * k : accept_rates'[k][j] = collected[k][j].correct
  <2> DEFINE m == ShardEnd(k) - b * k
             r == [j \in 1 .. m |-> collected[k][j].correct]
             g == [j \in 1 .. m |->
                    IF collected[k][j].correct = 0 THEN 0 ELSE norm[collected[k][j].problem]]
  <2>1. /\ collected[k] \in Seq([problem : Prompts, correct : 0 .. Pilots])
        /\ Len(collected[k]) = m
    BY <1>1 DEF FilesType, Files, ShardsCollected
  <2>2. m \in Nat /\ DOMAIN collected[k] = 1 .. m
    BY <2>1
  <2>3. accept_rates'[k] = r /\ grads'[k] = g
    BY <1>1, <1>2, <2>2
  <2> HIDE DEF m
  <2>4. \A j \in 1 .. m : collected[k][j].correct \in 0 .. Pilots /\ collected[k][j].problem \in Prompts
    <3> SUFFICES ASSUME NEW j \in 1 .. m
                 PROVE  collected[k][j].correct \in 0 .. Pilots /\ collected[k][j].problem \in Prompts
      OBVIOUS
    <3>1. collected[k][j] \in [problem : Prompts, correct : 0 .. Pilots]
      BY <2>1, <2>2, EntryOfSeq
    <3> QED BY <3>1
  <2>5. r \in [1 .. m -> 0 .. Pilots] /\ \A j \in 1 .. m : r[j] = collected[k][j].correct
    BY <2>4
  <2>6. g \in [1 .. m -> Nat]
    <3>1. \A x \in Prompts : norm[x] \in Nat
      BY DEF AllocationAssumption
    <3> QED BY <2>4, <3>1
  <2> HIDE DEF r, g
  <2>7. r \in Seq(0 .. Pilots) /\ Len(r) = m /\ g \in Seq(Nat) /\ Len(g) = m
    BY <2>2, <2>5, <2>6
  <2> QED BY <2>3, <2>5, <2>7 DEF m
<1>5. accept_rates' \in Files(0 .. Pilots) /\ grads' \in Files(Nat)
  BY <1>1, <1>2, <1>4 DEF Files
<1>6. /\ Prompts' = Prompts /\ one_num_share' = one_num_share
      /\ \A k \in Shards : ShardEnd(k)' = ShardEnd(k)
  BY <1>1 DEF Prompts, one_num_share, ShardEnd
<1>7. FilesType'
  BY <1>1, <1>5, <1>6 DEF FilesType
<1>8. ShardsCollected'
  BY <1>1, <1>6 DEF ShardsCollected
<1>9. ShardsMeasured'
  BY <1>1, <1>4, <1>6 DEF ShardsMeasured
<1> QED BY <1>1, <1>7, <1>8, <1>9 DEF Inv, Allocated

\* What depends on the shards' files and the arguments keeps its value while they do.
LEMMA SharesKept ==
  ASSUME UNCHANGED <<data_size, cli, collected, accept_rates, grads>>
  PROVE  /\ shares' = shares /\ stage_2_samples' = stage_2_samples
         /\ ShardsCollected => ShardsCollected'
         /\ ShardsMeasured => ShardsMeasured'
<1>1. shares' = shares /\ stage_2_samples' = stage_2_samples
  BY DEF shares, Filtered, Ratio, rates, all_grads, stage_2_samples
<1>2. ShardsCollected => ShardsCollected'
  BY DEF ShardsCollected, ShardEnd, one_num_share
<1>3. ShardsMeasured => ShardsMeasured'
  BY DEF ShardsMeasured, ShardEnd, one_num_share
<1> QED BY <1>1, <1>2, <1>3

LEMMA AllocateInv ==
  ASSUME AllocationAssumption, Inv, Allocate
  PROVE  Inv'
<1>1. /\ pc = "allocating" /\ FilesType /\ ShardsCollected /\ ShardsMeasured
      /\ UNCHANGED <<data_size, cli, collected, accept_rates, grads>>
  BY DEF Allocate, Inv
<1>2. \/ pc' = "raised" /\ sample_sizes' = sample_sizes
      \/ /\ pc' = "loading" /\ Total(shares) # 0
         /\ sample_sizes' \in WholeNumbers(shares, stage_2_samples)
  BY DEF Allocate
<1>3. sample_sizes' \in Seq(Nat)
  <2>1. CASE sample_sizes' = sample_sizes
    BY <1>1, <2>1 DEF FilesType
  <2>2. CASE Total(shares) # 0 /\ sample_sizes' \in WholeNumbers(shares, stage_2_samples)
    <3>1. data_size \in Nat /\ IsFiniteSet(1 .. data_size)
      BY <1>1, DataSizeType, IndexesFinite
    <3>2. shares \in [1 .. data_size -> Nat] /\ stage_2_samples \in Nat
      BY <1>1, SharesType, BudgetType
    <3>3. sample_sizes' \in [1 .. data_size -> Nat]
      BY <2>2, <3>1, <3>2, WholeNumbersFit
    <3> QED BY <3>1, <3>3
  <2> QED BY <1>2, <2>1, <2>2
<1>4. FilesType'
  BY <1>1, <1>2, <1>3 DEF FilesType, Prompts, Files
<1> QED BY <1>1, <1>2, <1>4, SharesKept DEF Inv, Allocated

LEMMA InitInv == AllocationAssumption /\ Init => Inv /\ PilotsInv
<1> SUFFICES ASSUME AllocationAssumption, Init PROVE Inv /\ PilotsInv
  OBVIOUS
<1>1. \A S : Unwritten \in Files(S)
  BY DEF Unwritten, Files
<1>2. FilesType
  BY <1>1 DEF Init, FilesType
<1>3. PilotsInv
  BY DEF Init, PilotsInv, PilotsFollowThePrompt, Range
<1> QED BY <1>2, <1>3 DEF Init, Inv, Allocated

LEMMA NextInv ==
  ASSUME AllocationAssumption, Inv, [Next]_vars
  PROVE  Inv'
<1>1. CASE Collect
  BY <1>1, CollectInv
<1>2. CASE Measure
  BY <1>2, MeasureInv
<1>3. CASE Allocate
  BY <1>3, AllocateInv
<1>4. CASE LoadPilots
  <2>1. /\ pc = "loading" /\ pc' = "training"
        /\ UNCHANGED <<data_size, cli, collected, accept_rates, grads, sample_sizes>>
    BY <1>4 DEF LoadPilots
  <2>2. FilesType'
    BY <2>1 DEF Inv, FilesType, Prompts, Files
  <2> QED BY <2>1, <2>2, SharesKept DEF Inv, Allocated
<1>5. CASE UNCHANGED vars
  <2>1. UNCHANGED <<data_size, cli, pc, collected, accept_rates, grads, sample_sizes>>
    BY <1>5 DEF vars
  <2>2. FilesType'
    BY <2>1 DEF Inv, FilesType, Prompts, Files
  <2> QED BY <2>1, <2>2, SharesKept DEF Inv, Allocated
<1> QED BY <1>1, <1>2, <1>3, <1>4, <1>5 DEF Next

LEMMA Invariance == Spec => []Inv
<1>1. Init => Inv
  BY AllocationAssumption, InitInv
<1>2. Inv /\ [Next]_vars => Inv'
  BY AllocationAssumption, NextInv
<1> QED BY <1>1, <1>2, PTL DEF Spec
-----------------------------------------------------------------------------
(* What was measured of a prompt                                               *)

LEMMA SumShift ==
  ASSUME NEW n \in Nat, NEW f, NEW e,
         \A i \in 0 .. n - 1 : f[i] = e[i + 1] /\ e[i + 1] \in Int
  PROVE  Sum(f, 0 .. n - 1) = Sum(e, 1 .. n)
<1> DEFINE N == {m \in Nat : m <= n => Sum(f, 0 .. m - 1) = Sum(e, 1 .. m)}
<1>1. 0 \in N
  <2>1. 0 .. 0 - 1 = {} /\ 1 .. 0 = {}
    OBVIOUS
  <2> QED BY <2>1, SumOfNothing
<1>2. ASSUME NEW m \in N PROVE m + 1 \in N
  <2>0. m \in Nat /\ m + 1 \in Nat /\ (m + 1) - 1 = m
    OBVIOUS
  <2> SUFFICES ASSUME m + 1 <= n PROVE Sum(f, 0 .. m) = Sum(e, 1 .. m + 1)
    BY <2>0
  <2>1. Sum(f, 0 .. m - 1) = Sum(e, 1 .. m)
    BY <2>0
  <2>2. IsFiniteSet(0 .. m) /\ IsFiniteSet(1 .. m + 1)
    <3>1. (m + 1) - 1 = m
      BY <2>0
    <3> QED BY <2>0, <3>1, IndexesFinite
  <2>3. /\ \A i \in 0 .. m : f[i] = e[i + 1] /\ f[i] \in Int
        /\ \A i \in 1 .. m + 1 : e[i] \in Int
    <3>1. \A i \in 0 .. m : i \in 0 .. n - 1
      BY <2>0
    <3>2. \A i \in 1 .. m + 1 : i - 1 \in 0 .. n - 1 /\ (i - 1) + 1 = i
      BY <2>0
    <3> QED BY <3>1, <3>2
  <2>4. Sum(f, 0 .. m) = f[m] + Sum(f, (0 .. m) \ {m})
    <3>1. m \in 0 .. m
      BY <2>0
    <3> QED BY <2>2, <2>3, <3>1, SumRemove
  <2>5. Sum(e, 1 .. m + 1) = e[m + 1] + Sum(e, (1 .. m + 1) \ {m + 1})
    <3>1. m + 1 \in 1 .. m + 1
      BY <2>0
    <3> QED BY <2>2, <2>3, <3>1, SumRemove
  <2>6. (0 .. m) \ {m} = 0 .. m - 1 /\ (1 .. m + 1) \ {m + 1} = 1 .. m
    BY <2>0
  <2>7. f[m] = e[m + 1]
    BY <2>0, <2>3
  <2> QED BY <2>1, <2>4, <2>5, <2>6, <2>7
<1>3. N = Nat
  <2>1. N \in SUBSET Nat
    OBVIOUS
  <2> HIDE DEF N
  <2> QED BY <1>1, <1>2, <2>1, AllNumbers
<1> QED BY <1>3

\* A problem is at one place of the shards' files.
LEMMA OneEntry ==
  ASSUME AllocationAssumption, FilesType, ShardsCollected, NEW i \in Prompts
  PROVE  \E k \in Shards : \E j \in 1 .. ShardEnd(k) - one_num_share * k :
           /\ i + 1 = one_num_share * k + j
           /\ collected[k][j].problem = i
           /\ \A h \in Shards : \A l \in DOMAIN collected[h] :
                collected[h][l].problem = i => h = k /\ l = j
<1>1. data_size \in Nat /\ i \in Nat
  BY DataSizeType
<1>2. PICK k \in Shards : \E j \in 1 .. ShardEnd(k) - one_num_share * k :
        i = one_num_share * k + j - 1
  BY <1>1, ShardOfPrompt
<1>3. PICK j \in 1 .. ShardEnd(k) - one_num_share * k : i = one_num_share * k + j - 1
  BY <1>2
<1>4. \A h \in Shards : one_num_share * h \in Nat /\ ShardEnd(h) \in Nat
  BY <1>1, ShardArithmetic
<1>5. \A h \in Shards : DOMAIN collected[h] = 1 .. ShardEnd(h) - one_num_share * h
  <2> SUFFICES ASSUME NEW h \in Shards
               PROVE  DOMAIN collected[h] = 1 .. ShardEnd(h) - one_num_share * h
    OBVIOUS
  <2>1. collected[h] \in Seq([problem : Prompts, correct : 0 .. Pilots])
    BY DEF FilesType, Files
  <2>2. Len(collected[h]) = ShardEnd(h) - one_num_share * h
    BY DEF ShardsCollected
  <2> QED BY <2>1, <2>2
<1>6. \A h \in Shards : \A l \in 1 .. ShardEnd(h) - one_num_share * h :
        collected[h][l].problem = one_num_share * h + l - 1
  BY DEF ShardsCollected
<1>7. ASSUME NEW h \in Shards, NEW l \in DOMAIN collected[h], collected[h][l].problem = i
      PROVE  h = k /\ l = j
  <2>1. l \in 1 .. ShardEnd(h) - one_num_share * h
    BY <1>5
  <2>2. one_num_share * h + l - 1 = one_num_share * k + j - 1
    BY <1>3, <1>6, <1>7, <2>1
  <2>3. one_num_share * h + l = one_num_share * k + j
    <3> DEFINE x == one_num_share * h
               y == one_num_share * k
    <3>1. x \in Int /\ y \in Int /\ j \in Int /\ l \in Int
      BY <1>4, <2>1
    <3>2. x + l - 1 = y + j - 1
      BY <2>2
    <3> HIDE DEF x, y
    <3>3. x + l = y + j
      BY ONLY <3>1, <3>2
    <3> QED BY <3>3 DEF x, y
  <2> QED BY <1>1, <2>1, <2>3, ShardsApart
<1>8. i + 1 = one_num_share * k + j
  BY <1>3, <1>4
<1> QED BY <1>3, <1>6, <1>7, <1>8

\* The share the definition finds by the problem is the one the allocation gave its index.
LEMMA ShareByIndex ==
  ASSUME AllocationAssumption, FilesType, ShardsCollected, ShardsMeasured, NEW i \in Prompts
  PROVE  Share(i) = shares[i + 1]
<1>1. PICK k \in Shards : \E j \in 1 .. ShardEnd(k) - one_num_share * k :
        /\ i + 1 = one_num_share * k + j
        /\ collected[k][j].problem = i
        /\ \A h \in Shards : \A l \in DOMAIN collected[h] :
             collected[h][l].problem = i => h = k /\ l = j
  BY OneEntry
<1>2. PICK j \in 1 .. ShardEnd(k) - one_num_share * k :
        /\ i + 1 = one_num_share * k + j
        /\ collected[k][j].problem = i
        /\ \A h \in Shards : \A l \in DOMAIN collected[h] :
             collected[h][l].problem = i => h = k /\ l = j
  BY <1>1
<1>3. j \in DOMAIN collected[k]
  <2>1. collected[k] \in Seq([problem : Prompts, correct : 0 .. Pilots])
    BY DEF FilesType, Files
  <2>2. Len(collected[k]) = ShardEnd(k) - one_num_share * k
    BY DEF ShardsCollected
  <2> QED BY <2>1, <2>2
<1>4. rates[i + 1] = collected[k][j].correct /\ all_grads[i + 1] = grads[k][j]
  BY <1>2, JoinedByIndex
<1>5. Record(i) = collected[k][j]
  <2> DEFINE All == UNION {Range(collected[h]) : h \in Shards}
  <2>1. collected[k][j] \in All
    BY <1>3 DEF Range
  <2>2. \A rec \in All : \E h \in Shards : \E l \in DOMAIN collected[h] : rec = collected[h][l]
    BY DEF Range
  <2> HIDE DEF All
  <2>3. \A rec \in All : rec.problem = i => rec = collected[k][j]
    BY <1>2, <2>2
  <2>4. \E rec \in All : rec.problem = i
    BY <1>2, <2>1
  <2> QED BY <2>3, <2>4 DEF Record, All
<1>6. Norm(i) = grads[k][j]
  <2> DEFINE h == CHOOSE h \in Shards : \E l \in DOMAIN collected[h] : collected[h][l].problem = i
  <2>1. h = k
    <3>1. \E x \in Shards : \E l \in DOMAIN collected[x] : collected[x][l].problem = i
      BY <1>2, <1>3
    <3>2. \A x \in Shards : (\E l \in DOMAIN collected[x] : collected[x][l].problem = i) => x = k
      BY <1>2
    <3> QED BY <3>1, <3>2
  <2> DEFINE l == CHOOSE l \in DOMAIN collected[k] : collected[k][l].problem = i
  <2>2. l = j
    <3>1. \E x \in DOMAIN collected[k] : collected[k][x].problem = i
      BY <1>2, <1>3
    <3>2. \A x \in DOMAIN collected[k] : collected[k][x].problem = i => x = j
      BY <1>2
    <3> QED BY <3>1, <3>2
  <2>3. Norm(i) = grads[h][CHOOSE x \in DOMAIN collected[h] : collected[h][x].problem = i]
    BY DEF Norm
  <2> HIDE DEF h
  <2>4. Norm(i) = grads[k][l]
    BY <2>1, <2>3
  <2> QED BY <2>2, <2>4
<1>7. Signal(i) = IF rates[i + 1] = 0 THEN 0 ELSE all_grads[i + 1] * Discount[rates[i + 1]]
  BY <1>4, <1>5, <1>6 DEF Signal
<1>8. i + 1 \in 1 .. data_size
  BY DataSizeType
<1>9. /\ rates[i + 1] \in 0 .. Pilots /\ all_grads[i + 1] \in Nat
      /\ \/ shares[i + 1] = 0
         \/ shares[i + 1] = IF all_grads[i + 1] = 0 \/ rates[i + 1] = 0 THEN 0
                            ELSE all_grads[i + 1] * Discount[rates[i + 1]]
  BY <1>8, SharesType
<1>10. shares[i + 1] # 0 => shares[i + 1] = Signal(i)
  BY <1>7, <1>9
<1> QED BY <1>10 DEF Share

LEMMA AllSharesAreTheTotal ==
  ASSUME AllocationAssumption, FilesType, ShardsCollected, ShardsMeasured
  PROVE  AllShares = Total(shares)
<1> DEFINE n == data_size
           f == [i \in Prompts |-> Share(i)]
<1>1. n \in Nat /\ Prompts = 0 .. n - 1
  BY DataSizeType
<1>2. shares \in [1 .. n -> Nat]
  BY SharesType
<1>3. \A i \in 0 .. n - 1 : f[i] = shares[i + 1] /\ shares[i + 1] \in Int
  <2> SUFFICES ASSUME NEW i \in 0 .. n - 1 PROVE f[i] = shares[i + 1] /\ shares[i + 1] \in Int
    OBVIOUS
  <2>1. i \in Prompts /\ i + 1 \in 1 .. n
    BY <1>1
  <2>2. Share(i) = shares[i + 1]
    BY <2>1, ShareByIndex
  <2>3. shares[i + 1] \in Nat
    BY <1>2, <2>1
  <2> QED BY <2>1, <2>2, <2>3
<1>4. DOMAIN f = 0 .. n - 1 /\ DOMAIN shares = 1 .. n
  BY <1>1, <1>2
<1>5. AllShares = Total(f)
  BY DEF AllShares
<1> HIDE DEF f, n
<1>6. Sum(f, 0 .. n - 1) = Sum(shares, 1 .. n)
  BY <1>1, <1>3, SumShift
<1> QED BY <1>4, <1>5, <1>6, TotalIsSum

-----------------------------------------------------------------------------
\* The budget file spends the budget of the E-step exactly, whatever the rounding
\* of the shares lost or won.
THEOREM TheBudgetIsSpent == Spec => []SpendsExactlyTheBudget
<1>1. Inv => SpendsExactlyTheBudget
  <2> SUFFICES ASSUME Inv, Allocated
               PROVE  Total(sample_sizes) = Min({cli.stage_2_samples, data_size * Pilots})
    BY DEF SpendsExactlyTheBudget
  <2>1. FilesType /\ ShardsMeasured
    BY DEF Inv, Allocated
  <2>2. data_size \in Nat /\ IsFiniteSet(1 .. data_size)
    BY <2>1, DataSizeType, IndexesFinite, AllocationAssumption
  <2>3. shares \in [1 .. data_size -> Nat]
    BY <2>1, SharesType, AllocationAssumption
  <2>4. /\ stage_2_samples \in Nat
        /\ stage_2_samples = Min({cli.stage_2_samples, data_size * Pilots})
    BY <2>1, BudgetType, AllocationAssumption
  <2>5. Total(shares) # 0 /\ sample_sizes \in WholeNumbers(shares, stage_2_samples)
    BY DEF Inv
  <2>6. Total(sample_sizes) = stage_2_samples
    BY <2>2, <2>3, <2>4, <2>5, WholeNumbersFit
  <2> QED BY <2>4, <2>6
<1> QED BY <1>1, Invariance, PTL

\* Every prompt has an entry at its own index, its own share rounded down or up: a
\* prompt with no share gets nothing.
THEOREM QuotaIsKept == Spec => []WithinQuota
<1>1. Inv => WithinQuota
  <2> SUFFICES ASSUME Inv, Allocated
               PROVE  /\ Len(sample_sizes) = data_size
                      /\ \A i \in Prompts :
                           /\ sample_sizes[i + 1] * AllShares > Share(i) * stage_2_samples - AllShares
                           /\ sample_sizes[i + 1] * AllShares < Share(i) * stage_2_samples + AllShares
    BY DEF WithinQuota
  <2>1. FilesType /\ ShardsCollected /\ ShardsMeasured
    BY DEF Inv, Allocated
  <2>2. data_size \in Nat /\ IsFiniteSet(1 .. data_size) /\ Prompts = 0 .. data_size - 1
    BY <2>1, DataSizeType, IndexesFinite, AllocationAssumption
  <2>3. shares \in [1 .. data_size -> Nat]
    BY <2>1, SharesType, AllocationAssumption
  <2>4. stage_2_samples \in Nat
    BY <2>1, BudgetType, AllocationAssumption
  <2>5. Total(shares) # 0 /\ sample_sizes \in WholeNumbers(shares, stage_2_samples)
    BY DEF Inv
  <2>6. /\ sample_sizes \in [1 .. data_size -> Nat]
        /\ \A i \in 1 .. data_size :
             /\ sample_sizes[i] * Total(shares) > shares[i] * stage_2_samples - Total(shares)
             /\ sample_sizes[i] * Total(shares) < shares[i] * stage_2_samples + Total(shares)
    BY <2>2, <2>3, <2>4, <2>5, WholeNumbersFit
  <2>7. Len(sample_sizes) = data_size
    BY <2>2, <2>6
  <2>8. ASSUME NEW i \in Prompts
        PROVE  /\ sample_sizes[i + 1] * AllShares > Share(i) * stage_2_samples - AllShares
               /\ sample_sizes[i + 1] * AllShares < Share(i) * stage_2_samples + AllShares
    <3>1. i + 1 \in 1 .. data_size
      BY <2>2
    <3>2. AllShares = Total(shares) /\ Share(i) = shares[i + 1]
      BY <2>1, AllSharesAreTheTotal, ShareByIndex, AllocationAssumption
    <3>3. /\ sample_sizes[i + 1] * Total(shares) > shares[i + 1] * stage_2_samples - Total(shares)
          /\ sample_sizes[i + 1] * Total(shares) < shares[i + 1] * stage_2_samples + Total(shares)
      BY <2>6, <3>1
    <3> QED BY ONLY <3>2, <3>3
  <2> QED BY <2>7, <2>8
<1> QED BY <1>1, Invariance, PTL

-----------------------------------------------------------------------------
(* The trainer's side                                                          *)

\* With at most ten shards the names of the files sort as their numbers do.
LEMMA FilesInOrder ==
  ASSUME AllocationAssumption, World <= 10, NEW r \in 1 .. World
  PROVE  SortedFiles[r] = r - 1
<1>1. World \in Nat \ {0} /\ Shards = 0 .. World - 1
  BY DEF AllocationAssumption, Shards
<1>2. ASSUME NEW k \in Shards
      PROVE  Cardinality({q \in Shards : NameOrder(q) < NameOrder(k)}) = k
  <2>1. \A q \in Shards : NameOrder(q) = 11 * q
    BY <1>1 DEF NameOrder
  <2>2. {q \in Shards : NameOrder(q) < NameOrder(k)} = 0 .. k - 1
    BY <1>1, <2>1
  <2>3. k \in Nat
    BY <1>1
  <2> QED BY <2>2, <2>3, IndexesFinite
<1>3. r - 1 \in Shards
  BY <1>1
<1>4. SortedFiles[r] = CHOOSE k \in Shards :
        Cardinality({q \in Shards : NameOrder(q) < NameOrder(k)}) = r - 1
  BY DEF SortedFiles
<1> QED BY <1>2, <1>3, <1>4

LEMMA OffsetOfFile ==
  ASSUME AllocationAssumption, World <= 10, FilesType, ShardsCollected, NEW r \in 1 .. World
  PROVE  Offset(r) = one_num_share * (r - 1)
<1> DEFINE f == [q \in 1 .. r - 1 |-> Len(collected[SortedFiles[q]])]
           b == one_num_share
<1>0. World \in Nat \ {0} /\ b \in Nat /\ data_size \in Nat /\ r - 1 \in Nat
  BY DataSizeType, ShardArithmetic
<1>1. \A q \in 1 .. r - 1 : f[q] = b
  <2> SUFFICES ASSUME NEW q \in 1 .. r - 1 PROVE Len(collected[SortedFiles[q]]) = b
    OBVIOUS
  <2>1. q \in 1 .. World /\ q - 1 \in Shards /\ q - 1 # World - 1
    BY <1>0 DEF Shards
  <2>2. SortedFiles[q] = q - 1
    BY <2>1, FilesInOrder
  <2>3. Len(collected[q - 1]) = ShardEnd(q - 1) - b * (q - 1)
    BY <2>1 DEF ShardsCollected
  <2>4. ShardEnd(q - 1) = b * (q - 1) + b /\ b * (q - 1) \in Nat
    BY <1>0, <2>1, ShardArithmetic
  <2> QED BY <1>0, <2>2, <2>3, <2>4
<1>2. Offset(r) = Sum(f, 1 .. r - 1)
  BY TotalIsSum DEF Offset
<1>3. IsFiniteSet(1 .. r - 1) /\ Cardinality(1 .. r - 1) = r - 1
  BY <1>0, IndexesFinite
<1> DEFINE Before == 1 .. r - 1
<1>5. b \in Int /\ IsFiniteSet(Before) /\ \A q \in Before : f[q] = b
  BY <1>0, <1>1, <1>3
<1> HIDE DEF f, b, Before
<1>6. Sum(f, Before) = b * Cardinality(Before)
  BY ONLY <1>5, SumConstant
<1>4. Sum(f, 1 .. r - 1) = b * Cardinality(1 .. r - 1)
  BY <1>6 DEF Before
<1> QED BY <1>2, <1>3, <1>4 DEF b

LEMMA PilotsLoaded ==
  ASSUME AllocationAssumption, World <= 10, Inv, LoadPilots
  PROVE  pilot_texts' = [i \in Prompts |-> i]
<1> DEFINE Entries == UNION {{<<r, j>> : j \in DOMAIN collected[SortedFiles[r]]} : r \in 1 .. World}
           Index(e) == Offset(e[1]) + e[2] - 1
           Problem(e) == collected[SortedFiles[e[1]]][e[2]].problem
           b == one_num_share
<1>1. /\ FilesType /\ ShardsCollected
      /\ pilot_texts' = [idx \in {Index(e) : e \in Entries} |->
                           Problem(CHOOSE x \in Entries : Index(x) = idx)]
  BY DEF LoadPilots, Inv
<1>2. World \in Nat \ {0} /\ data_size \in Nat /\ Prompts = 0 .. data_size - 1
  BY <1>1, DataSizeType, ShardArithmetic
<1>3. ASSUME NEW r \in 1 .. World
      PROVE  /\ r - 1 \in Shards /\ SortedFiles[r] = r - 1 /\ Offset(r) = b * (r - 1)
             /\ DOMAIN collected[r - 1] = 1 .. ShardEnd(r - 1) - b * (r - 1)
             /\ \A j \in DOMAIN collected[r - 1] : collected[r - 1][j].problem = b * (r - 1) + j - 1
  <2>1. r - 1 \in Shards
    BY <1>2 DEF Shards
  <2>2. SortedFiles[r] = r - 1 /\ Offset(r) = b * (r - 1)
    BY <1>1, FilesInOrder, OffsetOfFile
  <2>3. collected[r - 1] \in Seq([problem : Prompts, correct : 0 .. Pilots])
    BY <1>1, <2>1 DEF FilesType, Files
  <2>4. Len(collected[r - 1]) = ShardEnd(r - 1) - b * (r - 1)
    BY <1>1, <2>1 DEF ShardsCollected
  <2>5. DOMAIN collected[r - 1] = 1 .. ShardEnd(r - 1) - b * (r - 1)
    BY <2>3, <2>4
  <2>6. \A j \in 1 .. ShardEnd(r - 1) - b * (r - 1) :
          collected[r - 1][j].problem = b * (r - 1) + j - 1
    BY <1>1, <2>1 DEF ShardsCollected
  <2> QED BY <2>1, <2>2, <2>5, <2>6
<1>4. ASSUME NEW e \in Entries
      PROVE  Index(e) \in Prompts /\ Problem(e) = Index(e)
  <2>1. PICK r \in 1 .. World : \E j \in DOMAIN collected[r - 1] : e = <<r, j>>
    BY <1>3
  <2>2. PICK j \in DOMAIN collected[r - 1] : e = <<r, j>>
    BY <2>1
  <2>3. e[1] = r /\ e[2] = j
    BY <2>2
  <2>4. Index(e) = b * (r - 1) + j - 1
    BY <1>3, <2>3
  <2>5. Problem(e) = b * (r - 1) + j - 1
    BY <1>3, <2>2, <2>3
  <2>6. Problem(e) \in Prompts
    <3>1. collected[r - 1] \in Seq([problem : Prompts, correct : 0 .. Pilots])
      BY <1>1, <1>3 DEF FilesType, Files
    <3>2. collected[r - 1][j] \in [problem : Prompts, correct : 0 .. Pilots]
      BY <3>1, EntryOfSeq
    <3> QED BY <1>3, <2>3, <3>2
  <2> QED BY <2>4, <2>5, <2>6
<1>5. ASSUME NEW i \in Prompts
      PROVE  \E e \in Entries : Index(e) = i
  <2>1. PICK k \in Shards : \E j \in 1 .. ShardEnd(k) - b * k : i = b * k + j - 1
    BY <1>2, ShardOfPrompt
  <2>2. PICK j \in 1 .. ShardEnd(k) - b * k : i = b * k + j - 1
    BY <2>1
  <2>3. k + 1 \in 1 .. World /\ (k + 1) - 1 = k
    BY <1>2 DEF Shards
  <2> DEFINE e == <<k + 1, j>>
  <2>4. j \in DOMAIN collected[SortedFiles[k + 1]] /\ Offset(k + 1) = b * k
    BY <1>3, <2>3
  <2>5. e \in Entries
    BY <2>3, <2>4
  <2>6. Index(e) = i
    BY <2>2, <2>4
  <2> QED BY <2>5, <2>6
<1> HIDE DEF Entries, Index, Problem
<1>6. {Index(e) : e \in Entries} = Prompts
  BY <1>4, <1>5
<1>7. ASSUME NEW i \in Prompts
      PROVE  Problem(CHOOSE x \in Entries : Index(x) = i) = i
  <2> DEFINE x == CHOOSE x \in Entries : Index(x) = i
  <2>1. x \in Entries /\ Index(x) = i
    BY <1>5
  <2> HIDE DEF x
  <2>2. Problem(x) = i
    BY <1>4, <2>1
  <2> QED BY <2>2 DEF x
<1>8. pilot_texts' = [i \in Prompts |-> Problem(CHOOSE x \in Entries : Index(x) = i)]
  BY <1>1, <1>6
<1> QED BY <1>7, <1>8

LEMMA PilotsStep ==
  ASSUME AllocationAssumption, World <= 10, Inv, PilotsInv, [Next]_vars
  PROVE  PilotsInv'
<1>1. CASE LoadPilots
  <2>1. pilot_texts' = [i \in Prompts |-> i] /\ Prompts' = Prompts
    BY <1>1, PilotsLoaded DEF LoadPilots, Prompts
  <2> QED BY <2>1 DEF PilotsInv, PilotsFollowThePrompt, Range
<1>2. CASE Collect \/ Measure \/ Allocate \/ UNCHANGED vars
  <2>1. /\ UNCHANGED <<pilot_texts, data_size>>
        /\ pc' = "training" => pc = "training"
    BY <1>2 DEF Collect, Measure, Allocate, vars
  <2> QED BY <2>1 DEF PilotsInv, PilotsFollowThePrompt, Range, Prompts
<1> QED BY <1>1, <1>2 DEF Next

LEMMA PilotsInvariance ==
  ASSUME World <= 10
  PROVE  Spec => []PilotsInv
<1>1. Init => PilotsInv
  BY AllocationAssumption, InitInv
<1>2. Inv /\ PilotsInv /\ [Next]_vars => PilotsInv'
  BY AllocationAssumption, PilotsStep
<1> QED BY <1>1, <1>2, Invariance, PTL DEF Spec

\* With at most ten shards, as many as there are one-digit names, every prompt finds
\* its own pilots in the trainer, although the trainer sorts the files by name.
THEOREM PilotsAreTheirOwn ==
  ASSUME World <= 10
  PROVE  Spec => []PilotsFollowThePrompt
<1>1. PilotsInv => PilotsFollowThePrompt
  BY DEF PilotsInv
<1> QED BY <1>1, PilotsInvariance, PTL

\* With at most ten shards every file and index has its type.
THEOREM TypeCorrect ==
  ASSUME World <= 10
  PROVE  Spec => []TypeOK
<1>1. Inv /\ PilotsInv => TypeOK
  BY DEF Inv, FilesType, PilotsInv, TypeOK
<1> QED BY <1>1, Invariance, PilotsInvariance, PTL
====
