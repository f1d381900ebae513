-------------------------- MODULE ModelCallsProofs --------------------------
(***************************************************************************)
(* Proofs about ModelCalls, for every setting, number of ranks and rows    *)
(* that may be dealt, and about SeqlenBalance, the choice of micro batches *)
(* within it, for every list of sequence lengths and number of partitions. *)
(***************************************************************************)
EXTENDS ModelCalls, SeqlenBalance, FoldTheorems, FunctionTheorems

(***************************************************************************)
(* Part 1.  get_seqlen_balanced_partitions                                 *)
(***************************************************************************)

-----------------------------------------------------------------------------
(* The sorted list: every position of it is some item's place.             *)

\* The items that stand before item i in sorted_seqlen_list.
Before(i) ==
  {j \in Items : \/ seqlen_list[j] < seqlen_list[i]
                 \/ seqlen_list[j] = seqlen_list[i] /\ j < i}

LEMMA IntervalSize ==
  ASSUME NEW a \in Int, NEW n \in Nat
  PROVE  IsFiniteSet(a .. a + n - 1) /\ Cardinality(a .. a + n - 1) = n
<1>1. a + n - 1 \in Int
  OBVIOUS
<1>2. /\ IsFiniteSet(a .. a + n - 1)
      /\ Cardinality(a .. a + n - 1) =
           IF a > a + n - 1 THEN 0 ELSE (a + n - 1) - a + 1
  BY <1>1, FS_Interval
<1> QED BY <1>2

LEMMA ItemsType ==
  ASSUME BalanceAssumption, seqlen_list \in Inputs
  PROVE  /\ seqlen_list \in Seq(Nat)
         /\ Len(seqlen_list) \in Nat
         /\ Items = 1 .. Len(seqlen_list)
         /\ \A i \in Items : seqlen_list[i] \in Nat
         /\ IsFiniteSet(Items)
         /\ Cardinality(Items) = Len(seqlen_list)
<1>1. seqlen_list \in Seq(Nat)
  BY DEF BalanceAssumption
<1>2. /\ Len(seqlen_list) \in Nat
      /\ Items = 1 .. Len(seqlen_list)
      /\ \A i \in Items : seqlen_list[i] \in Nat
  BY <1>1 DEF Items
<1>3. IsFiniteSet(Items) /\ Cardinality(Items) = Len(seqlen_list)
  <2>1. 1 + Len(seqlen_list) - 1 = Len(seqlen_list)
    BY <1>2
  <2> QED BY <1>2, <2>1, IntervalSize
<1> QED BY <1>1, <1>2, <1>3

LEMMA PlaceType ==
  ASSUME BalanceAssumption, seqlen_list \in Inputs, NEW i \in Items
  PROVE  /\ IsFiniteSet(Before(i))
         /\ Place(i) = Cardinality(Before(i))
         /\ Place(i) \in 0 .. Len(seqlen_list) - 1
<1>1. IsFiniteSet(Before(i)) /\ Cardinality(Before(i)) \in Nat
  BY ItemsType, FS_Subset, FS_CardinalityType DEF Before
<1>2. Place(i) = Cardinality(Before(i))
  BY DEF Place, Before
<1>3. Before(i) \subseteq Items \ {i}
  BY ItemsType DEF Before
<1>4. /\ IsFiniteSet(Items \ {i})
      /\ Cardinality(Items \ {i}) = Len(seqlen_list) - 1
  BY ItemsType, FS_RemoveElement
<1>5. Cardinality(Before(i)) <= Len(seqlen_list) - 1
  BY <1>3, <1>4, FS_Subset
<1> QED BY <1>1, <1>2, <1>5, ItemsType

LEMMA PlaceIsOrdered ==
  ASSUME BalanceAssumption, seqlen_list \in Inputs,
         NEW i \in Items, NEW j \in Items, i \in Before(j)
  PROVE  Place(i) < Place(j)
<1>1. Before(i) \cup {i} \subseteq Before(j)
  BY ItemsType DEF Before
<1>2. i \notin Before(i)
  BY ItemsType DEF Before
<1>3. /\ IsFiniteSet(Before(i) \cup {i})
      /\ Cardinality(Before(i) \cup {i}) = Place(i) + 1
  BY <1>2, PlaceType, FS_AddElement
<1>4. Place(i) + 1 <= Place(j)
  BY <1>1, <1>3, PlaceType, FS_Subset
<1> QED BY <1>4, PlaceType

\* No two items have the same place.
LEMMA PlacesDiffer ==
  ASSUME BalanceAssumption, seqlen_list \in Inputs,
         NEW i \in Items, NEW j \in Items, Place(i) = Place(j)
  PROVE  i = j
<1>1. i \in Before(j) \/ j \in Before(i) \/ i = j
  BY ItemsType DEF Before
<1> QED BY <1>1, PlaceIsOrdered, PlaceType

\* The item at a position of the sorted list is the one whose place it is.
LEMMA ItemAtPlace ==
  ASSUME BalanceAssumption, seqlen_list \in Inputs,
         NEW q \in 0 .. Len(seqlen_list) - 1
  PROVE  ItemAt(q) \in Items /\ Place(ItemAt(q)) = q
<1> DEFINE n == Len(seqlen_list)
           f == [i \in Items |-> Place(i)]
<1>1. f \in [Items -> 0 .. n - 1]
  BY PlaceType
<1>2. ASSUME NEW i \in Items, NEW j \in Items, f[i] = f[j]
      PROVE  i = j
  BY <1>2, PlacesDiffer
<1>3. f \in Injection(Items, 0 .. n - 1)
  BY <1>1, <1>2 DEF Injection, IsInjective
<1>4. IsFiniteSet(0 .. n - 1) /\ Cardinality(0 .. n - 1) = n
  <2>1. n \in Nat /\ 0 \in Int
    BY ItemsType
  <2>2. IsFiniteSet(0 .. 0 + n - 1) /\ Cardinality(0 .. 0 + n - 1) = n
    BY ONLY <2>1, IntervalSize
  <2>3. 0 + n - 1 = n - 1
    BY ONLY <2>1
  <2> QED BY ONLY <2>2, <2>3
<1>5. f \in Surjection(Items, 0 .. n - 1)
  BY <1>3, <1>4, ItemsType, FS_Injection
<1>6. \E i \in Items : f[i] = q
  BY <1>5 DEF Surjection
<1>7. \E i \in Items : Place(i) = q
  BY <1>6
<1> QED BY <1>7 DEF ItemAt
-----------------------------------------------------------------------------
(* The states of the heap                                                      *)

\* A number below Len(seqlen_list) \div k groups is that of a whole group of k.
LEMMA GroupFits ==
  ASSUME NEW n \in Nat, NEW d \in Nat \ {0}, NEW g \in 0 .. n \div d - 1,
         NEW j \in 1 .. d
  PROVE  g * d + d - j \in 0 .. n - 1
<1>1. n \div d \in Nat /\ d * (n \div d) <= n
  OBVIOUS
<1>2. PICK e \in Nat : n \div d = g + 1 + e
  <2>1. n \div d - g - 1 \in Nat
    BY <1>1
  <2>2. n \div d = g + 1 + (n \div d - g - 1)
    BY <1>1
  <2> QED BY <2>1, <2>2
<1>3. d * (n \div d) = g * d + d + d * e
  BY <1>2
<1>4. d * e \in Nat /\ g * d \in Nat
  BY <1>2
<1> QED BY <1>1, <1>3, <1>4

\* Two positions are in the same place of the same group or differ.
LEMMA GroupsApart ==
  ASSUME NEW d \in Nat \ {0}, NEW g \in Nat, NEW h \in Nat,
         NEW i \in 1 .. d, NEW j \in 1 .. d,
         g * d + d - i = h * d + d - j
  PROVE  g = h /\ i = j
<1>1. ASSUME NEW a \in Nat, NEW b \in Nat, NEW x \in 1 .. d, NEW y \in 1 .. d,
             a < b
      PROVE  a * d + d - x # b * d + d - y
  <2>1. PICK e \in Nat : b = a + 1 + e
    <3>1. b - a - 1 \in Nat /\ b = a + 1 + (b - a - 1)
      BY <1>1
    <3> QED BY <3>1
  <2>2. b * d = a * d + d + e * d
    BY <2>1
  <2>3. e * d \in Nat /\ a * d \in Nat
    BY <2>1
  <2> QED BY <2>2, <2>3
<1>2. g = h
  BY <1>1
<1> QED BY <1>2

\* What holds of the states of the heap throughout the merging.
PairwiseApart ==
  \A s, t \in states_pq, i, j \in 1 .. k :
    s # t \/ i # j => s[i].items \cap t[j].items = {}

SumsDecrease ==
  \A s \in states_pq, i, j \in 1 .. k : i <= j => s[i].sum >= s[j].sum

Covered ==
  pc \in {"merging", "returned"} =>
    \A x \in Items : \E s \in states_pq, j \in 1 .. k : x \in s[j].items

SumsAreTheItems ==
  \A s \in states_pq, j \in 1 .. k : s[j].sum = Sum(seqlen_list, s[j].items)

BalanceInv ==
  /\ TypeOK
  /\ pc = "called" => states_pq = {}
  /\ SumsDecrease
  /\ WithinOneSequence
  /\ PairwiseApart
  /\ Covered
  /\ SumsAreTheItems
  /\ EvenStates

LEMMA SingleType ==
  ASSUME BalanceAssumption, seqlen_list \in Inputs, NEW i \in Items
  PROVE  /\ Single(i) \in ItemSets
         /\ Single(i).items = {i}
         /\ Single(i).sum = seqlen_list[i]
BY ItemsType DEF Single, ItemSets

LEMMA EqualStatesShape ==
  ASSUME BalanceAssumption, TypeOK, NEW s \in EqualStates
  PROVE  \E g \in 0 .. Len(seqlen_list) \div k - 1 :
           /\ s = [j \in 1 .. k |-> Single(ItemAt(g * k + k - j))]
           /\ \A j \in 1 .. k :
                /\ g * k + k - j \in 0 .. Len(seqlen_list) - 1
                /\ ItemAt(g * k + k - j) \in Items
                /\ Place(ItemAt(g * k + k - j)) = g * k + k - j
<1>1. seqlen_list \in Inputs /\ k \in Nat \ {0} /\ Len(seqlen_list) \in Nat
  BY ItemsType DEF TypeOK, BalanceAssumption
<1>2. PICK g \in 0 .. Len(seqlen_list) \div k - 1 :
        s = [j \in 1 .. k |-> Single(ItemAt(g * k + k - j))]
  BY DEF EqualStates
<1>3. \A j \in 1 .. k : g * k + k - j \in 0 .. Len(seqlen_list) - 1
  BY <1>1, GroupFits
<1> QED BY <1>1, <1>2, <1>3, ItemAtPlace

LEMMA FirstStatesType ==
  ASSUME BalanceAssumption, TypeOK
  PROVE  FirstStates \subseteq States
<1>1. seqlen_list \in Inputs /\ k \in Nat \ {0}
  BY DEF TypeOK, BalanceAssumption
<1>2. ASSUME NEW s \in EqualStates
      PROVE  s \in States
  <2>1. PICK g \in 0 .. Len(seqlen_list) \div k - 1 :
          /\ s = [j \in 1 .. k |-> Single(ItemAt(g * k + k - j))]
          /\ \A j \in 1 .. k : ItemAt(g * k + k - j) \in Items
    BY EqualStatesShape
  <2>2. \A j \in 1 .. k : Single(ItemAt(g * k + k - j)) \in ItemSets
    BY <1>1, <2>1, SingleType
  <2> QED BY <2>1, <2>2 DEF States
<1>3. ASSUME NEW s \in AnyStates
      PROVE  s \in States
  <2>1. Nothing \in ItemSets
    BY DEF Nothing, ItemSets
  <2> QED BY <1>1, <2>1, SingleType DEF AnyStates, States
<1> QED BY <1>2, <1>3 DEF FirstStates

\* Before the first merge every set holds at most one item.
LEMMA FirstStatesWithinOneSequence ==
  ASSUME BalanceAssumption, TypeOK, Accepted,
         NEW s \in FirstStates, NEW i \in 1 .. k, NEW j \in 1 .. k
  PROVE  \E x \in Items : s[i].sum - s[j].sum <= seqlen_list[x]
<1>1. seqlen_list \in Inputs /\ k \in Nat \ {0}
  BY DEF TypeOK, BalanceAssumption
<1>2. Items # {}
  BY <1>1, ItemsType DEF Accepted
<1>3. s[j].sum \in Nat
  BY <1>1, FirstStatesType DEF States, ItemSets
<1>4. (\E x \in Items : s[i].sum = seqlen_list[x]) \/ s[i].sum = 0
  <2>1. CASE s \in EqualStates
    <3>1. PICK g \in 0 .. Len(seqlen_list) \div k - 1 :
            /\ s = [l \in 1 .. k |-> Single(ItemAt(g * k + k - l))]
            /\ \A l \in 1 .. k : ItemAt(g * k + k - l) \in Items
      BY <2>1, EqualStatesShape
    <3>2. s[i].sum = seqlen_list[ItemAt(g * k + k - i)]
      BY <3>1 DEF Single
    <3> QED BY <3>1, <3>2
  <2>2. CASE s \in AnyStates
    BY <1>1, <2>2 DEF AnyStates, Single, Nothing
  <2> QED BY <2>1, <2>2 DEF FirstStates
<1> QED BY <1>1, <1>2, <1>3, <1>4, ItemsType

LEMMA FirstStatesApart ==
  ASSUME BalanceAssumption, TypeOK,
         NEW s \in FirstStates, NEW t \in FirstStates,
         NEW i \in 1 .. k, NEW j \in 1 .. k, s # t \/ i # j
  PROVE  s[i].items \cap t[j].items = {}
<1>1. seqlen_list \in Inputs /\ k \in Nat \ {0}
  BY DEF TypeOK, BalanceAssumption
<1>2. CASE s \in EqualStates /\ t \in EqualStates
  <2>1. PICK g \in 0 .. Len(seqlen_list) \div k - 1 :
          /\ s = [l \in 1 .. k |-> Single(ItemAt(g * k + k - l))]
          /\ \A l \in 1 .. k : Place(ItemAt(g * k + k - l)) = g * k + k - l
    BY <1>2, EqualStatesShape
  <2>2. PICK h \in 0 .. Len(seqlen_list) \div k - 1 :
          /\ t = [l \in 1 .. k |-> Single(ItemAt(h * k + k - l))]
          /\ \A l \in 1 .. k : Place(ItemAt(h * k + k - l)) = h * k + k - l
    BY <1>2, EqualStatesShape
  <2>3. /\ s[i].items = {ItemAt(g * k + k - i)}
        /\ t[j].items = {ItemAt(h * k + k - j)}
    BY <2>1, <2>2 DEF Single
  <2>4. g # h \/ i # j
    BY <2>1, <2>2
  <2>5. g \in Nat /\ h \in Nat
    BY <1>1, ItemsType
  <2>6. g * k + k - i # h * k + k - j
    BY ONLY <1>1, <2>4, <2>5, i \in 1 .. k, j \in 1 .. k, GroupsApart
  <2>7. ItemAt(g * k + k - i) # ItemAt(h * k + k - j)
    BY <2>1, <2>2, <2>6
  <2> QED BY <2>3, <2>7
<1>3. CASE s \in AnyStates /\ t \in AnyStates
  <2>1. PICK x \in Items : s = [l \in 1 .. k |-> IF l = 1 THEN Single(x) ELSE Nothing]
    BY <1>3 DEF AnyStates
  <2>2. PICK y \in Items : t = [l \in 1 .. k |-> IF l = 1 THEN Single(y) ELSE Nothing]
    BY <1>3 DEF AnyStates
  <2>3. s[i].items = IF i = 1 THEN {x} ELSE {}
    BY <2>1 DEF Single, Nothing
  <2>4. t[j].items = IF j = 1 THEN {y} ELSE {}
    BY <2>2 DEF Single, Nothing
  <2>5. i = 1 /\ j = 1 => x # y
    BY <2>1, <2>2
  <2> QED BY <2>3, <2>4, <2>5
<1> QED BY <1>2, <1>3 DEF FirstStates

\* Every position of the list is in one of the groups, when they divide it.
LEMMA GroupOf ==
  ASSUME NEW d \in Nat \ {0}, NEW n \in Nat, n % d = 0, NEW q \in 0 .. n - 1
  PROVE  /\ q \div d \in 0 .. n \div d - 1
         /\ d - (q % d) \in 1 .. d
         /\ (q \div d) * d + d - (d - (q % d)) = q
<1> DEFINE a == q \div d
           b == q % d
           u == n \div d
<1>1. a \in Nat /\ b \in 0 .. d - 1 /\ q = d * a + b
  OBVIOUS
<1>2. u \in Nat /\ n = d * u
  OBVIOUS
<1> HIDE DEF a, b, u
<1>3. a < u
  <2> SUFFICES ASSUME a >= u PROVE FALSE
    BY <1>1, <1>2
  <2>1. PICK e \in Nat : a = u + e
    <3>1. a - u \in Nat /\ a = u + (a - u)
      BY <1>1, <1>2
    <3> QED BY <3>1
  <2>2. d * a = d * u + d * e /\ d * e \in Nat /\ d * u \in Nat
    BY <1>2, <2>1
  <2> QED BY <1>1, <1>2, <2>2
<1>4. a * d = d * a
  BY <1>1
<1>5. a * d + d - (d - b) = q
  BY <1>1, <1>4
<1> QED BY <1>1, <1>2, <1>3, <1>5 DEF a, b, u

LEMMA FirstStatesCover ==
  ASSUME BalanceAssumption, TypeOK, Accepted, NEW x \in Items
  PROVE  \E s \in FirstStates, j \in 1 .. k : x \in s[j].items
<1>1. seqlen_list \in Inputs /\ k \in Nat \ {0}
  BY DEF TypeOK, BalanceAssumption
<1>2. CASE equal_size
  <2> DEFINE n == Len(seqlen_list)
             q == Place(x)
             g == q \div k
             j == k - (q % k)
             s == [l \in 1 .. k |-> Single(ItemAt(g * k + k - l))]
  <2>1. n \in Nat /\ n % k = 0 /\ q \in 0 .. n - 1
    BY <1>1, <1>2, ItemsType, PlaceType DEF Accepted
  <2>2. g \in 0 .. n \div k - 1 /\ j \in 1 .. k /\ g * k + k - j = q
    BY ONLY <1>1, <2>1, GroupOf
  <2>3. ItemAt(q) = x
    <3>1. ItemAt(q) \in Items /\ Place(ItemAt(q)) = q
      BY <1>1, <2>1, ItemAtPlace
    <3> QED BY <1>1, <3>1, PlacesDiffer
  <2> HIDE DEF g, j
  <2>4. s \in FirstStates
    BY <1>2, <2>2 DEF FirstStates, EqualStates
  <2>5. s[j].items = {x}
    BY <2>2, <2>3 DEF Single
  <2> QED BY <2>2, <2>4, <2>5
<1>3. CASE ~ equal_size
  <2> DEFINE s == [l \in 1 .. k |-> IF l = 1 THEN Single(x) ELSE Nothing]
  <2>1. s \in FirstStates
    BY <1>3 DEF FirstStates, AnyStates
  <2>2. 1 \in 1 .. k /\ s[1].items = {x}
    BY <1>1 DEF Single
  <2> QED BY <2>1, <2>2
<1> QED BY <1>2, <1>3

LEMMA SumOfOne ==
  ASSUME BalanceAssumption, seqlen_list \in Inputs, NEW i \in Items
  PROVE  Sum(seqlen_list, {i}) = seqlen_list[i]
<1>1. IsFiniteSet({i})
  BY FS_Singleton
<1>2. seqlen_list[i] \in Int
  BY ItemsType
<1>3. Sum(seqlen_list, {i}) = seqlen_list[i] + Sum(seqlen_list, {i} \ {i})
  BY <1>1, <1>2, SumRemove
<1>4. {i} \ {i} = {}
  OBVIOUS
<1>5. Sum(seqlen_list, {}) = 0
  BY SumOfNothing
<1> QED BY ONLY <1>2, <1>3, <1>4, <1>5

LEMMA FirstStatesSums ==
  ASSUME BalanceAssumption, TypeOK, NEW s \in FirstStates, NEW j \in 1 .. k
  PROVE  s[j].sum = Sum(seqlen_list, s[j].items)
<1>1. seqlen_list \in Inputs
  BY DEF TypeOK
<1>2. (\E x \in Items : s[j] = Single(x)) \/ s[j] = Nothing
  <2>1. CASE s \in EqualStates
    <3>1. PICK g \in 0 .. Len(seqlen_list) \div k - 1 :
            /\ s = [l \in 1 .. k |-> Single(ItemAt(g * k + k - l))]
            /\ \A l \in 1 .. k : ItemAt(g * k + k - l) \in Items
      BY <2>1, EqualStatesShape
    <3> QED BY <3>1
  <2>2. CASE s \in AnyStates
    BY <2>2 DEF AnyStates
  <2> QED BY <2>1, <2>2 DEF FirstStates
<1>3. \A x \in Items : Single(x).sum = Sum(seqlen_list, Single(x).items)
  BY <1>1, SumOfOne DEF Single
<1>4. Nothing.sum = Sum(seqlen_list, Nothing.items)
  BY SumOfNothing DEF Nothing
<1> QED BY <1>2, <1>3, <1>4

LEMMA FirstStatesEven ==
  ASSUME BalanceAssumption, TypeOK, equal_size,
         NEW s \in FirstStates, NEW i \in 1 .. k
  PROVE  Cardinality(s[i].items) = 1
<1>1. PICK g \in 0 .. Len(seqlen_list) \div k - 1 :
        s = [l \in 1 .. k |-> Single(ItemAt(g * k + k - l))]
  BY EqualStatesShape DEF FirstStates
<1>2. s[i].items = {ItemAt(g * k + k - i)}
  BY <1>1 DEF Single
<1> QED BY <1>2, FS_Singleton

-----------------------------------------------------------------------------
(* Merging                                                                     *)

\* A sorting of a state is a rearrangement by an injection.
LEMMA SortingShape ==
  ASSUME k \in Nat, NEW s, NEW m \in Sortings(s)
  PROVE  \E p \in [1 .. k -> 1 .. k] :
           /\ m = [i \in 1 .. k |-> s[p[i]]]
           /\ \A i, j \in 1 .. k : p[i] = p[j] => i = j
BY DEF Sortings, Injection, IsInjective

LEMMA MergedType ==
  ASSUME BalanceAssumption, TypeOK, NEW s \in States, NEW t \in States
  PROVE  /\ Merged(s, t) \in States
         /\ \A i \in 1 .. k :
              /\ k + 1 - i \in 1 .. k
              /\ Merged(s, t)[i].sum = s[i].sum + t[k + 1 - i].sum
              /\ Merged(s, t)[i].items = s[i].items \cup t[k + 1 - i].items
<1>1. k \in Nat \ {0}
  BY DEF TypeOK, BalanceAssumption
<1>2. \A i \in 1 .. k : k + 1 - i \in 1 .. k
  BY <1>1
<1>3. \A i \in 1 .. k : Join(s[i], t[k + 1 - i]) \in ItemSets
  <2>1. ASSUME NEW A \in ItemSets, NEW B \in ItemSets
        PROVE  Join(A, B) \in ItemSets
    BY DEF Join, ItemSets
  <2>2. \A i \in 1 .. k : s[i] \in ItemSets /\ t[k + 1 - i] \in ItemSets
    BY <1>2 DEF States
  <2> QED BY <2>1, <2>2
<1>4. \A i \in 1 .. k : Merged(s, t)[i] = Join(s[i], t[k + 1 - i])
  BY DEF Merged
<1>5. Merged(s, t) \in States
  BY ONLY <1>3 DEF Merged, States
<1>6. ASSUME NEW A, NEW B
      PROVE  Join(A, B).sum = A.sum + B.sum /\ Join(A, B).items = A.items \cup B.items
  BY DEF Join
<1> QED BY ONLY <1>2, <1>4, <1>5, <1>6

LEMMA FirstStatesDecrease ==
  ASSUME BalanceAssumption, TypeOK,
         NEW s \in FirstStates, NEW i \in 1 .. k, NEW j \in 1 .. k, i <= j
  PROVE  s[i].sum >= s[j].sum
<1>1. seqlen_list \in Inputs /\ k \in Nat \ {0}
  BY DEF TypeOK, BalanceAssumption
<1>2. CASE s \in EqualStates
  <2>1. PICK g \in 0 .. Len(seqlen_list) \div k - 1 :
          /\ s = [l \in 1 .. k |-> Single(ItemAt(g * k + k - l))]
          /\ \A l \in 1 .. k :
               /\ ItemAt(g * k + k - l) \in Items
               /\ Place(ItemAt(g * k + k - l)) = g * k + k - l
    BY <1>2, EqualStatesShape
  <2> DEFINE x == ItemAt(g * k + k - i)
             y == ItemAt(g * k + k - j)
  <2>2. s[i].sum = seqlen_list[x] /\ s[j].sum = seqlen_list[y]
    BY <2>1 DEF Single
  <2>3. Place(x) >= Place(y)
    <3>1. g * k \in Int
      BY <1>1
    <3>2. g * k + k - i >= g * k + k - j
      BY <1>1, <3>1
    <3> QED BY <2>1, <3>2
  <2>4. ~(Place(x) < Place(y))
    BY <1>1, <2>1, <2>3, PlaceType
  <2>5. x \notin Before(y)
    BY <1>1, <2>1, <2>4, PlaceIsOrdered
  <2> QED BY <1>1, <2>1, <2>2, <2>5, ItemsType DEF Before
<1>3. CASE s \in AnyStates
  <2>1. PICK x \in Items : s = [l \in 1 .. k |-> IF l = 1 THEN Single(x) ELSE Nothing]
    BY <1>3 DEF AnyStates
  <2>2. /\ s[i].sum = IF i = 1 THEN seqlen_list[x] ELSE 0
        /\ s[j].sum = IF j = 1 THEN seqlen_list[x] ELSE 0
    BY <2>1 DEF Single, Nothing
  <2> QED BY <1>1, <2>2, ItemsType
<1> QED BY <1>2, <1>3 DEF FirstStates

LEMMA InitBalance == BalanceAssumption /\ BalanceInit => BalanceInv
BY DEF BalanceInit, BalanceInv, TypeOK, SumsDecrease, WithinOneSequence, PairwiseApart, Covered,
       SumsAreTheItems, EvenStates

LEMMA BeginBalance ==
  ASSUME BalanceAssumption, BalanceInv, Begin
  PROVE  BalanceInv'
<1>1. /\ TypeOK /\ Accepted
      /\ states_pq' = FirstStates /\ pc' = "merging"
      /\ UNCHANGED <<seqlen_list, k, equal_size, partitions>>
  BY DEF BalanceInv, Begin, args
<1>2. Items' = Items
  BY <1>1 DEF Items
<1>3. States' = States
  BY <1>1, <1>2 DEF States, ItemSets
<1>4. TypeOK'
  BY <1>1, <1>2, <1>3, FirstStatesType DEF TypeOK
<1>5. SumsDecrease'
  BY <1>1, FirstStatesDecrease DEF SumsDecrease
<1>6. WithinOneSequence'
  BY <1>1, <1>2, FirstStatesWithinOneSequence DEF WithinOneSequence
<1>7. PairwiseApart'
  BY <1>1, FirstStatesApart DEF PairwiseApart
<1>8. EvenStates'
  BY <1>1, FirstStatesEven DEF EvenStates
<1>9. Covered'
  BY <1>1, <1>2, FirstStatesCover DEF Covered
<1>10. SumsAreTheItems'
  BY <1>1, FirstStatesSums DEF SumsAreTheItems
<1> QED BY <1>1, <1>4, <1>5, <1>6, <1>7, <1>8, <1>9, <1>10 DEF BalanceInv

\* The largest set of one state takes the smallest of the other: what the one
\* adds to a difference the other takes away.
LEMMA MergedWithinOneSequence ==
  ASSUME BalanceAssumption, BalanceInv, NEW s \in states_pq, NEW t \in states_pq,
         NEW a \in 1 .. k, NEW b \in 1 .. k
  PROVE  \E x \in Items :
           Merged(s, t)[a].sum - Merged(s, t)[b].sum <= seqlen_list[x]
<1>1. /\ seqlen_list \in Inputs /\ k \in Nat \ {0}
      /\ s \in States /\ t \in States
  BY DEF BalanceInv, TypeOK, BalanceAssumption
<1> DEFINE a2 == k + 1 - a
           b2 == k + 1 - b
<1>2. a2 \in 1 .. k /\ b2 \in 1 .. k
  BY <1>1
<1>3. /\ Merged(s, t)[a].sum = s[a].sum + t[a2].sum
      /\ Merged(s, t)[b].sum = s[b].sum + t[b2].sum
  BY <1>1, MergedType DEF BalanceInv
<1>4. /\ s[a].sum \in Nat /\ s[b].sum \in Nat
      /\ t[a2].sum \in Nat /\ t[b2].sum \in Nat
  BY <1>1, <1>2 DEF States, ItemSets
<1>5. CASE a <= b
  <2>1. b2 <= a2
    BY <1>1, <1>5
  <2>2. t[b2].sum >= t[a2].sum
    BY <1>2, <2>1 DEF BalanceInv, SumsDecrease
  <2>3. PICK x \in Items : s[a].sum - s[b].sum <= seqlen_list[x]
    BY DEF BalanceInv, WithinOneSequence
  <2>4. seqlen_list[x] \in Nat
    BY <1>1, ItemsType
  <2> QED BY ONLY <1>3, <1>4, <2>2, <2>3, <2>4
<1>6. CASE b <= a
  <2>1. s[b].sum >= s[a].sum
    BY <1>6 DEF BalanceInv, SumsDecrease
  <2>2. PICK x \in Items : t[a2].sum - t[b2].sum <= seqlen_list[x]
    BY <1>2 DEF BalanceInv, WithinOneSequence
  <2>3. seqlen_list[x] \in Nat
    BY <1>1, ItemsType
  <2> QED BY ONLY <1>3, <1>4, <2>1, <2>2, <2>3
<1> QED BY <1>1, <1>5, <1>6

LEMMA Mirror ==
  ASSUME NEW d \in Nat, NEW x \in 1 .. d, NEW y \in 1 .. d, x # y
  PROVE  d + 1 - x \in 1 .. d /\ d + 1 - y \in 1 .. d /\ d + 1 - x # d + 1 - y
OBVIOUS

LEMMA RearrangementIsOnto ==
  ASSUME NEW d \in Nat, NEW p \in [1 .. d -> 1 .. d],
         \A i, j \in 1 .. d : p[i] = p[j] => i = j
  PROVE  \A a \in 1 .. d : \E i \in 1 .. d : p[i] = a
<1>1. p \in Injection(1 .. d, 1 .. d)
  BY DEF Injection, IsInjective
<1>2. IsFiniteSet(1 .. d)
  <2>1. 1 + d - 1 = d
    OBVIOUS
  <2> QED BY <2>1, IntervalSize
<1>3. p \in Surjection(1 .. d, 1 .. d)
  BY <1>1, <1>2, FS_Injection
<1> QED BY <1>3 DEF Surjection

LEMMA MergeBalance ==
  ASSUME BalanceAssumption, BalanceInv, Merge
  PROVE  BalanceInv'
<1>0. PICK s \in states_pq : \E t \in states_pq \ {s} :
        \E m \in Sortings(Merged(s, t)) : states_pq' = (states_pq \ {s, t}) \cup {m}
  BY DEF Merge
<1>1. PICK t \in states_pq \ {s} :
        \E m \in Sortings(Merged(s, t)) : states_pq' = (states_pq \ {s, t}) \cup {m}
  BY <1>0
<1>2. PICK m \in Sortings(Merged(s, t)) : states_pq' = (states_pq \ {s, t}) \cup {m}
  BY <1>1
<1>3. /\ pc = "merging" /\ TypeOK
      /\ UNCHANGED <<seqlen_list, k, equal_size, pc, partitions>>
  BY DEF Merge, args, BalanceInv
<1>4. /\ seqlen_list \in Inputs /\ k \in Nat \ {0} /\ k \in Nat
      /\ s \in States /\ t \in States
  BY <1>1, <1>3 DEF TypeOK, BalanceAssumption
<1>5. Items' = Items /\ States' = States
  BY <1>3 DEF Items, States, ItemSets
<1>6. PICK p \in [1 .. k -> 1 .. k] :
        /\ m = [i \in 1 .. k |-> Merged(s, t)[p[i]]]
        /\ \A i, j \in 1 .. k : p[i] = p[j] => i = j
  <2>1. m \in Sortings(Merged(s, t))
    OBVIOUS
  <2> QED BY ONLY <1>4, <2>1, SortingShape
<1>7. /\ Merged(s, t) \in States
      /\ \A i \in 1 .. k : k + 1 - i \in 1 .. k
      /\ \A i \in 1 .. k : Merged(s, t)[i].sum = s[i].sum + t[k + 1 - i].sum
      /\ \A i \in 1 .. k :
           Merged(s, t)[i].items = s[i].items \cup t[k + 1 - i].items
  <2>1. /\ Merged(s, t) \in States
        /\ \A i \in 1 .. k :
             /\ k + 1 - i \in 1 .. k
             /\ Merged(s, t)[i].sum = s[i].sum + t[k + 1 - i].sum
             /\ Merged(s, t)[i].items = s[i].items \cup t[k + 1 - i].items
    BY ONLY BalanceAssumption, <1>3, <1>4, MergedType
  <2> QED BY ONLY <2>1
<1>8. m \in States
  BY <1>6, <1>7 DEF States
<1>9. \A i \in 1 .. k :
        m[i].items = s[p[i]].items \cup t[k + 1 - p[i]].items
  BY <1>6, <1>7
<1>10. TypeOK'
  BY <1>2, <1>3, <1>5, <1>8 DEF TypeOK
<1>11. SumsDecrease'
  <2>1. ASSUME NEW i \in 1 .. k, NEW j \in 1 .. k, i <= j
        PROVE  m[i].sum >= m[j].sum
    <3>1. m[i].sum \in Nat /\ m[j].sum \in Nat
      BY <1>8 DEF States, ItemSets
    <3>2. Decreasing(m)
      BY DEF Sortings
    <3>3. CASE i < j
      BY ONLY <3>1, <3>2, <3>3, i \in 1 .. k, j \in 1 .. k DEF Decreasing, AtLeast
    <3>4. CASE i = j
      BY ONLY <3>1, <3>4
    <3> QED BY <1>4, <2>1, <3>3, <3>4
  <2> QED BY <1>2, <1>3, <2>1 DEF SumsDecrease, BalanceInv
<1>12. WithinOneSequence'
  <2>1. \A i, j \in 1 .. k : \E x \in Items : m[i].sum - m[j].sum <= seqlen_list[x]
    BY <1>1, <1>6, MergedWithinOneSequence
  <2> QED BY <1>2, <1>3, <1>5, <2>1 DEF WithinOneSequence, BalanceInv
<1>13. PairwiseApart'
  <2>1. \A u, v \in states_pq, i, j \in 1 .. k :
          u # v \/ i # j => u[i].items \cap v[j].items = {}
    BY DEF BalanceInv, PairwiseApart
  <2>2. ASSUME NEW u \in states_pq \ {s, t}, NEW i \in 1 .. k, NEW j \in 1 .. k
        PROVE  m[i].items \cap u[j].items = {}
    <3>1. p[i] \in 1 .. k /\ k + 1 - p[i] \in 1 .. k
      BY <1>6, <1>7
    <3>2. /\ s[p[i]].items \cap u[j].items = {}
          /\ t[k + 1 - p[i]].items \cap u[j].items = {}
      BY <2>1, <3>1
    <3> QED BY <1>9, <3>2
  <2>3. ASSUME NEW i \in 1 .. k, NEW j \in 1 .. k, i # j
        PROVE  m[i].items \cap m[j].items = {}
    <3> DEFINE a == p[i]
               b == p[j]
    <3>1. a \in 1 .. k /\ b \in 1 .. k /\ a # b
      BY <1>6, <2>3
    <3>2. k + 1 - a \in 1 .. k /\ k + 1 - b \in 1 .. k /\ k + 1 - a # k + 1 - b
      BY ONLY <1>4, <3>1, Mirror
    <3>3. /\ s[a].items \cap s[b].items = {}
          /\ s[a].items \cap t[k + 1 - b].items = {}
          /\ t[k + 1 - a].items \cap s[b].items = {}
          /\ t[k + 1 - a].items \cap t[k + 1 - b].items = {}
      BY <1>1, <2>1, <3>1, <3>2
    <3> QED BY <1>9, <3>3
  <2> QED BY <1>2, <1>3, <2>1, <2>2, <2>3 DEF PairwiseApart
<1>14. EvenStates'
  <2>1. ASSUME equal_size, NEW i \in 1 .. k, NEW j \in 1 .. k
        PROVE  Cardinality(m[i].items) = Cardinality(m[j].items)
    <3>1. ASSUME NEW a \in 1 .. k
          PROVE  Cardinality(s[a].items \cup t[k + 1 - a].items)
                   = Cardinality(s[a].items) + Cardinality(t[k + 1 - a].items)
      <4>1. s[a].items \in SUBSET Items /\ t[k + 1 - a].items \in SUBSET Items
        BY <1>4, <1>7 DEF States, ItemSets
      <4>2. IsFiniteSet(s[a].items) /\ IsFiniteSet(t[k + 1 - a].items)
        BY <1>4, <4>1, ItemsType, FS_Subset
      <4>3. s[a].items \cap t[k + 1 - a].items = {}
        BY <1>1, <1>7 DEF BalanceInv, PairwiseApart
      <4>4. /\ Cardinality(s[a].items) \in Nat
            /\ Cardinality(t[k + 1 - a].items) \in Nat
        BY <4>2, FS_CardinalityType
      <4>5. Cardinality(s[a].items \cap t[k + 1 - a].items) = 0
        BY <4>3, FS_EmptySet
      <4>6. Cardinality(s[a].items \cup t[k + 1 - a].items) =
              Cardinality(s[a].items) + Cardinality(t[k + 1 - a].items)
                - Cardinality(s[a].items \cap t[k + 1 - a].items)
        BY ONLY <4>2, FS_Union
      <4> QED BY ONLY <4>4, <4>5, <4>6
    <3>2. \A a, b \in 1 .. k :
            /\ Cardinality(s[a].items) = Cardinality(s[b].items)
            /\ Cardinality(t[a].items) = Cardinality(t[b].items)
      BY <1>1, <2>1 DEF BalanceInv, EvenStates
    <3>3. p[i] \in 1 .. k /\ p[j] \in 1 .. k
      BY <1>6
    <3>4. k + 1 - p[i] \in 1 .. k /\ k + 1 - p[j] \in 1 .. k
      BY <1>7, <3>3
    <3>5. /\ Cardinality(m[i].items)
               = Cardinality(s[p[i]].items) + Cardinality(t[k + 1 - p[i]].items)
          /\ Cardinality(m[j].items)
               = Cardinality(s[p[j]].items) + Cardinality(t[k + 1 - p[j]].items)
      BY <1>9, <3>1, <3>3
    <3>6. /\ Cardinality(s[p[i]].items) = Cardinality(s[p[j]].items)
          /\ Cardinality(t[k + 1 - p[i]].items) = Cardinality(t[k + 1 - p[j]].items)
      BY ONLY <3>2, <3>3, <3>4
    <3> QED BY ONLY <3>5, <3>6
  <2> QED BY <1>2, <1>3, <2>1 DEF EvenStates, BalanceInv
<1>15. Covered'
  <2>1. \A a \in 1 .. k : \E i \in 1 .. k : p[i] = a
    BY ONLY <1>4, <1>6, RearrangementIsOnto
  <2>2. ASSUME NEW x \in Items, NEW u \in states_pq, NEW j \in 1 .. k, x \in u[j].items
        PROVE  \E v \in states_pq', i \in 1 .. k : x \in v[i].items
    <3>1. m \in states_pq'
      BY <1>2
    <3>2. CASE u = s
      <4>1. PICK i \in 1 .. k : p[i] = j
        BY <2>1
      <4>2. x \in m[i].items
        BY <1>9, <2>2, <3>2, <4>1
      <4> QED BY <3>1, <4>2
    <3>3. CASE u = t
      <4>1. k + 1 - j \in 1 .. k /\ k + 1 - (k + 1 - j) = j
        BY <1>4
      <4>2. PICK i \in 1 .. k : p[i] = k + 1 - j
        BY <2>1, <4>1
      <4>3. x \in m[i].items
        BY <1>9, <2>2, <3>3, <4>1, <4>2
      <4> QED BY <3>1, <4>3
    <3>4. CASE u \notin {s, t}
      <4>1. u \in states_pq'
        BY <1>2, <3>4
      <4> QED BY <2>2, <4>1
    <3> QED BY <3>2, <3>3, <3>4
  <2>3. \A x \in Items : \E u \in states_pq, j \in 1 .. k : x \in u[j].items
    BY <1>3 DEF BalanceInv, Covered
  <2> QED BY <1>3, <1>5, <2>2, <2>3 DEF Covered
<1>16. SumsAreTheItems'
  <2>1. \A a \in 1 .. k : Merged(s, t)[a].sum = s[a].sum + t[k + 1 - a].sum
    BY ONLY <1>7
  <2>2. ASSUME NEW a \in 1 .. k, NEW b \in 1 .. k
        PROVE  s[a].sum + t[b].sum = Sum(seqlen_list, s[a].items \cup t[b].items)
    <3>1. /\ s[a].sum = Sum(seqlen_list, s[a].items)
          /\ t[b].sum = Sum(seqlen_list, t[b].items)
      BY <1>1 DEF BalanceInv, SumsAreTheItems
    <3>2. s[a].items \in SUBSET Items /\ t[b].items \in SUBSET Items
      BY <1>4 DEF States, ItemSets
    <3>3. s[a].items \cap t[b].items = {}
      BY <1>1 DEF BalanceInv, PairwiseApart
    <3>4. /\ IsFiniteSet(s[a].items) /\ IsFiniteSet(t[b].items)
          /\ \A i \in s[a].items \cup t[b].items : seqlen_list[i] \in Int
      <4>1. IsFiniteSet(Items) /\ \A i \in Items : seqlen_list[i] \in Int
        BY <1>4, ItemsType
      <4> QED BY ONLY <3>2, <4>1, FS_Subset
    <3>5. Sum(seqlen_list, s[a].items \cup t[b].items)
            = Sum(seqlen_list, s[a].items) + Sum(seqlen_list, t[b].items)
      BY ONLY <3>3, <3>4, SumUnion
    <3> QED BY ONLY <3>1, <3>5
  <2>3. ASSUME NEW i \in 1 .. k PROVE m[i].sum = Sum(seqlen_list, m[i].items)
    <3>1. p[i] \in 1 .. k /\ k + 1 - p[i] \in 1 .. k
      BY <1>6, <1>7
    <3>2. m[i].sum = s[p[i]].sum + t[k + 1 - p[i]].sum
      BY <1>6, <2>1, <3>1
    <3> QED BY <1>9, <2>2, <3>1, <3>2
  <2>4. \A u \in states_pq', i \in 1 .. k : u[i].sum = Sum(seqlen_list, u[i].items)
    BY <1>2, <2>3 DEF BalanceInv, SumsAreTheItems
  <2> QED BY <1>3, <2>4 DEF SumsAreTheItems
<1> QED BY <1>3, <1>10, <1>11, <1>12, <1>13, <1>14, <1>15, <1>16 DEF BalanceInv

LEMMA UnchangedBalance ==
  ASSUME BalanceInv, UNCHANGED <<args, states_pq>>, TypeOK',
         pc' = "called" => pc = "called",
         pc' \in {"merging", "returned"} => pc \in {"merging", "returned"}
  PROVE  BalanceInv'
<1>1. UNCHANGED <<seqlen_list, k, equal_size, states_pq>>
  BY DEF args
<1>2. SumsDecrease' /\ WithinOneSequence' /\ PairwiseApart' /\ EvenStates'
  BY <1>1 DEF BalanceInv, SumsDecrease, WithinOneSequence, PairwiseApart, EvenStates, Items
<1>3. Covered' /\ SumsAreTheItems'
  BY <1>1 DEF BalanceInv, Covered, SumsAreTheItems, Items
<1> QED BY <1>1, <1>2, <1>3 DEF BalanceInv

LEMMA NextBalance ==
  ASSUME BalanceAssumption, BalanceInv, [BalanceNext]_balanceVars
  PROVE  BalanceInv'
<1>1. CASE Reject
  <2>1. TypeOK'
    BY <1>1 DEF Reject, BalanceInv, TypeOK, args, States, ItemSets, Items
  <2> QED BY <1>1, <2>1, UnchangedBalance DEF Reject
<1>2. CASE Begin
  BY <1>2, BeginBalance
<1>3. CASE Merge
  BY <1>3, MergeBalance
<1>4. CASE Finish
  <2>1. PICK s \in states_pq :
          IF Checked(s)
            THEN pc' = "returned" /\ partitions' = [i \in 1 .. k |-> s[i].items]
            ELSE pc' = "raised" /\ UNCHANGED partitions
    BY <1>4 DEF Finish
  <2>2. [i \in 1 .. k |-> s[i].items] \in [1 .. k -> SUBSET Items]
    BY DEF BalanceInv, TypeOK, States, ItemSets
  <2>3. UNCHANGED <<args, states_pq>> /\ pc = "merging"
    BY <1>4 DEF Finish
  <2>4. TypeOK'
    BY <2>1, <2>2, <2>3 DEF BalanceInv, TypeOK, args, States, ItemSets, Items
  <2> QED BY <2>1, <2>3, <2>4, UnchangedBalance
<1>5. CASE UNCHANGED balanceVars
  <2>1. TypeOK'
    BY <1>5 DEF BalanceInv, TypeOK, balanceVars, args, States, ItemSets, Items
  <2> QED BY <1>5, <2>1, UnchangedBalance DEF balanceVars
<1> QED BY <1>1, <1>2, <1>3, <1>4, <1>5 DEF BalanceNext

LEMMA BalanceHolds == BalanceSpec => []BalanceInv
<1>1. BalanceInit => BalanceInv
  BY BalanceAssumption, InitBalance
<1>2. BalanceInv /\ [BalanceNext]_balanceVars => BalanceInv'
  BY BalanceAssumption, NextBalance
<1> QED BY <1>1, <1>2, PTL DEF BalanceSpec

-----------------------------------------------------------------------------
\* The heap of karmarkar_karp holds states of k sets throughout.
THEOREM BalanceTypeCorrect == BalanceSpec => []TypeOK
<1>1. BalanceInv => TypeOK
  BY DEF BalanceInv
<1> QED BY <1>1, BalanceHolds, PTL

\* However many sequences there are, and however long, karmarkar_karp never
\* gives one partition more than the longest sequence over another.
THEOREM BalancedWithinOneSequence == BalanceSpec => []WithinOneSequence
<1>1. BalanceInv => WithinOneSequence
  BY DEF BalanceInv
<1> QED BY <1>1, BalanceHolds, PTL

\* No row of the batch is lost or doubled by the reordering, whatever the lengths,
\* and the sums that the merging goes by are those of the rows.
THEOREM RowsOnceEach == BalanceSpec => []EachItemOnce
<1>1. BalanceInv => EachItemOnce
  <2>0. \A S : TokensOf(S) = Sum(seqlen_list, S)
    BY DEF TokensOf, Sum, MapThenSumSet, SumFunctionOnSet, FoldFunctionOnSet
  <2> SUFFICES ASSUME BalanceInv, pc \in {"merging", "returned"}, NEW i \in Items
               PROVE  Cardinality({p \in states_pq \X (1 .. k) : i \in p[1][p[2]].items}) = 1
    BY <2>0 DEF BalanceInv, SumsAreTheItems, EachItemOnce
  <2>1. PICK s \in states_pq, j \in 1 .. k : i \in s[j].items
    BY DEF BalanceInv, Covered
  <2>2. ASSUME NEW t \in states_pq, NEW l \in 1 .. k, i \in t[l].items
        PROVE  t = s /\ l = j
    BY <2>1, <2>2 DEF BalanceInv, PairwiseApart
  <2>3. {p \in states_pq \X (1 .. k) : i \in p[1][p[2]].items} = {<<s, j>>}
    BY <2>1, <2>2
  <2> QED BY <2>3, FS_Singleton
<1> QED BY <1>1, BalanceHolds, PTL

\* With equal_size the partitions have equally many rows, which is what the
\* dispatch of the reordered batch to the ranks relies on.
THEOREM PartitionsEven == BalanceSpec => []EvenStates
<1>1. BalanceInv => EvenStates
  BY DEF BalanceInv
<1> QED BY <1>1, BalanceHolds, PTL

(***************************************************************************)
(* Part 2.  Calls of a worker group on a model                             *)
(***************************************************************************)

-----------------------------------------------------------------------------
(* Numbers                                                                     *)

\* A common factor of both numbers does not change their quotient.
LEMMA CommonFactor ==
  ASSUME NEW a \in Nat, NEW b \in Nat \ {0}, NEW f \in Nat \ {0}
  PROVE  (a * f) \div (b * f) = a \div b
<1> DEFINE p == a \div b
           t == (a % b)
<1>1. p \in Nat /\ t \in 0 .. b - 1 /\ a = b * p + t
  OBVIOUS
<1> HIDE DEF p, t
<1>2. b * f \in Nat \ {0} /\ a * f = (b * f) * p + t * f
  BY <1>1
<1>3. t * f \in 0 .. b * f - 1
  <2>1. b - t \in Nat \ {0}
    BY <1>1
  <2>2. (b - t) * f >= f
    <3>1. PICK e \in Nat : b - t = e + 1
      BY <2>1, b - t - 1 \in Nat
    <3>2. (e + 1) * f = e * f + f /\ e * f \in Nat
      OBVIOUS
    <3> QED BY <3>1, <3>2
  <2>3. (b - t) * f = b * f - t * f /\ t * f \in Nat
    BY <1>1
  <2> QED BY <1>2, <2>2, <2>3
<1>4. (a * f) \div (b * f) = p
  BY <1>1, <1>2, <1>3, QuotientAndRemainder
<1> QED BY <1>4 DEF p

\* A share of a share, given out to as many, is no more than the share.
LEMMA SharesFit ==
  ASSUME NEW u \in Nat, NEW a \in Nat \ {0}, NEW b \in Nat \ {0}
  PROVE  /\ u \div b \in Nat /\ u \div (a * b) \in Nat
         /\ a * (u \div (a * b)) <= u \div b
         /\ b * (u \div b) <= u
<1>1. (u \div b) \div a = u \div (b * a) /\ b * a = a * b
  BY QuotientOfQuotient
<1>2. u \div b \in Nat
  OBVIOUS
<1>3. ASSUME NEW x \in Nat, NEW y \in Nat \ {0} PROVE x \div y \in Nat /\ y * (x \div y) <= x
  OBVIOUS
<1> QED BY <1>1, <1>2, <1>3

\* A share is not nothing when there is one for each.
LEMMA ShareIsPositive ==
  ASSUME NEW u \in Nat, NEW b \in Nat \ {0}, b <= u
  PROVE  u \div b \in Nat /\ u \div b > 0
<1>1. u \div b \in Nat /\ u % b \in 0 .. b - 1 /\ u = b * (u \div b) + (u % b)
  OBVIOUS
<1>2. ASSUME u \div b = 0 PROVE FALSE
  <2>1. b * (u \div b) = 0
    BY <1>2
  <2> QED BY <1>1, <2>1
<1> QED BY <1>1, <1>2

\* The smaller factor makes the smaller product.
LEMMA Products ==
  ASSUME NEW a \in Nat, NEW b \in Nat, NEW f \in Nat, a <= b
  PROVE  a * f <= b * f /\ a * f \in Nat /\ b * f \in Nat
<1>1. PICK e \in Nat : b = a + e
  BY b - a \in Nat, b = a + (b - a)
<1>2. (a + e) * f = a * f + e * f /\ e * f \in Nat /\ a * f \in Nat
  OBVIOUS
<1> QED BY <1>1, <1>2

\* Rounded up, a quotient counts the pieces that what is divided is cut into.
LEMMA RoundedUp ==
  ASSUME NEW n \in Nat \ {0}, NEW a \in Nat \ {0}
  PROVE  LET q == (n + a - 1) \div a
         IN  q \in Nat \ {0} /\ (q - 1) * a < n /\ n <= q * a
<1> DEFINE x == n + a - 1
           q == x \div a
           t == (x % a)
<1>0. x \in Nat /\ x >= a
  OBVIOUS
<1>1. q \in Nat /\ t \in 0 .. a - 1 /\ x = a * q + t
  BY <1>0
<1>2. q > 0
  BY <1>0, ShareIsPositive
<1> HIDE DEF q, t
<1>3. (q - 1) * a = a * q - a /\ q * a = a * q /\ a * q \in Nat
  BY <1>1
<1>4. (q - 1) * a < n /\ n <= q * a
  BY <1>1, <1>3
<1> QED BY <1>1, <1>2, <1>4 DEF q

\* The numbers up to n in pieces of a: where a number is in them.
LEMMA PieceOf ==
  ASSUME NEW n \in Nat \ {0}, NEW a \in Nat \ {0}, NEW i \in 1 .. n
  PROVE  /\ (i - 1) \div a \in 0 .. ((n + a - 1) \div a) - 1
         /\ (i - 1) % a \in 0 .. a - 1
         /\ i = ((i - 1) \div a) * a + ((i - 1) % a) + 1
<1> DEFINE q == (n + a - 1) \div a
           p == (i - 1) \div a
           t == ((i - 1) % a)
<1>0. i - 1 \in Nat /\ i - 1 < n
  OBVIOUS
<1>1. p \in Nat /\ t \in 0 .. a - 1 /\ i - 1 = a * p + t
  BY <1>0
<1>2. q \in Nat \ {0} /\ n <= q * a
  BY RoundedUp
<1> HIDE DEF q, p, t
<1>3. p < q
  <2> SUFFICES ASSUME q <= p PROVE FALSE
    BY <1>1, <1>2
  <2>1. q * a <= p * a /\ p * a = a * p /\ q * a \in Nat /\ a * p \in Nat
    BY <1>1, <1>2, Products
  <2> QED BY <1>0, <1>1, <1>2, <2>1
<1>4. i = p * a + t + 1
  <2>1. p * a = a * p /\ a * p \in Nat
    BY <1>1
  <2> QED BY <1>1, <2>1
<1> QED BY <1>1, <1>2, <1>3, <1>4 DEF q, p, t

-----------------------------------------------------------------------------
(* A sequence in pieces of a size                                              *)

Pieces(s, size) == (Len(s) + size - 1) \div size

\* The pieces have the entries of s in their order, size of them each but the last.
Chopped(parts, s, size) ==
  /\ Len(parts) = Pieces(s, size)
  /\ \A j \in 1 .. Pieces(s, size) :
       /\ Len(parts[j]) \in 1 .. size
       /\ j * size <= Len(s) => Len(parts[j]) = size
       /\ \A x \in 1 .. Len(parts[j]) : /\ (j - 1) * size + x \in 1 .. Len(s)
                                        /\ parts[j][x] = s[(j - 1) * size + x]
  /\ \A y \in 1 .. Len(s) :
       /\ (y - 1) \div size + 1 \in 1 .. Pieces(s, size)
       /\ ((y - 1) % size) + 1 \in 1 .. Len(parts[(y - 1) \div size + 1])
       /\ y = ((y - 1) \div size) * size + ((y - 1) % size) + 1

LEMMA ChopShape ==
  ASSUME NEW T, NEW s \in Seq(T), s # <<>>, NEW size \in Nat \ {0}
  PROVE  /\ Pieces(s, size) \in Nat \ {0}
         /\ Chop(s, size) \in Seq(Seq(T))
         /\ Chopped(Chop(s, size), s, size)
<1> DEFINE n == Len(s)
           q == Pieces(s, size)
           end(j) == IF j * size < n THEN j * size ELSE n
           parts == Chop(s, size)
<1>0. n \in Nat \ {0}
  OBVIOUS
<1>1. q \in Nat \ {0} /\ (q - 1) * size < n /\ n <= q * size
  BY <1>0, RoundedUp DEF Pieces
<1>2. parts = [j \in 1 .. q |-> SubSeq(s, (j - 1) * size + 1, end(j))]
  BY DEF Chop, Pieces
<1> HIDE DEF q, parts
<1>3. ASSUME NEW j \in 1 .. q
      PROVE  /\ (j - 1) * size \in Nat /\ j * size = (j - 1) * size + size
             /\ (j - 1) * size < n /\ end(j) \in Nat
             /\ end(j) - (j - 1) * size \in 1 .. size /\ end(j) <= n
             /\ j * size <= n => end(j) - (j - 1) * size = size
  <2>1. (j - 1) * size \in Nat /\ j * size = (j - 1) * size + size /\ j * size \in Nat
    OBVIOUS
  <2>2. (j - 1) * size <= (q - 1) * size /\ (q - 1) * size \in Nat
    BY <1>1, Products
  <2> QED BY <1>0, <1>1, <2>1, <2>2
<1>4. ASSUME NEW j \in 1 .. q
      PROVE  /\ parts[j] \in Seq(T) /\ Len(parts[j]) = end(j) - (j - 1) * size
             /\ \A x \in 1 .. Len(parts[j]) : /\ (j - 1) * size + x \in 1 .. n
                                              /\ parts[j][x] = s[(j - 1) * size + x]
  <2> DEFINE a == (j - 1) * size
             b == end(j)
  <2>1. a \in Nat /\ b \in Nat /\ a < b /\ b <= n
    BY <1>0, <1>3
  <2>2. parts[j] = SubSeq(s, a + 1, b)
    BY <1>2
  <2> HIDE DEF a, b
  <2>3. SubSeq(s, a + 1, b) \in Seq(T) /\ Len(SubSeq(s, a + 1, b)) = b - a
    BY <2>1
  <2>4. \A x \in 1 .. b - a : a + x \in 1 .. n /\ SubSeq(s, a + 1, b)[x] = s[a + x]
    BY <2>1
  <2>5. parts[j] \in Seq(T) /\ Len(parts[j]) = b - a
    BY <2>2, <2>3
  <2>6. \A x \in 1 .. Len(parts[j]) : a + x \in 1 .. n /\ parts[j][x] = s[a + x]
    BY <2>2, <2>4, <2>5
  <2> QED BY <2>5, <2>6 DEF a, b
<1> HIDE DEF end
<1>5. parts \in Seq(Seq(T)) /\ Len(parts) = q
  <2>1. parts \in [1 .. q -> Seq(T)]
    <3>1. \A j \in 1 .. q : parts[j] \in Seq(T)
      BY <1>4
    <3> QED BY <1>2, <3>1
  <2> QED BY <1>1, <2>1
<1>6. ASSUME NEW y \in 1 .. n
      PROVE  /\ (y - 1) \div size + 1 \in 1 .. q
             /\ ((y - 1) % size) + 1 \in 1 .. Len(parts[(y - 1) \div size + 1])
             /\ y = ((y - 1) \div size) * size + ((y - 1) % size) + 1
  <2> DEFINE p == (y - 1) \div size
             t == ((y - 1) % size)
  <2>1. p \in 0 .. q - 1 /\ t \in 0 .. size - 1 /\ y = p * size + t + 1
    <3>1. q = (n + size - 1) \div size
      BY DEF q, Pieces
    <3> QED BY <1>0, <3>1, PieceOf
  <2> HIDE DEF p, t
  <2>2. p + 1 \in 1 .. q /\ (p + 1) - 1 = p
    BY <1>1, <2>1
  <2>3. Len(parts[p + 1]) = end(p + 1) - p * size
    BY <1>4, <2>2
  <2>4. p * size \in Nat /\ (p + 1) * size = p * size + size
    BY <2>1
  <2>5. end(p + 1) = IF (p + 1) * size < n THEN (p + 1) * size ELSE n
    BY DEF end
  <2>6. t + 1 \in 1 .. Len(parts[p + 1])
    BY <1>0, <2>1, <2>3, <2>4, <2>5
  <2> QED BY <2>1, <2>2, <2>6 DEF p, t
<1>7. ASSUME NEW j \in 1 .. q
      PROVE  Len(parts[j]) \in 1 .. size /\ (j * size <= n => Len(parts[j]) = size)
  BY <1>3, <1>4
<1>8. \A j \in 1 .. q :
        /\ Len(parts[j]) \in 1 .. size
        /\ j * size <= n => Len(parts[j]) = size
        /\ \A x \in 1 .. Len(parts[j]) : /\ (j - 1) * size + x \in 1 .. n
                                         /\ parts[j][x] = s[(j - 1) * size + x]
  BY <1>4, <1>7
<1>9. Chopped(parts, s, size)
  BY <1>5, <1>6, <1>8 DEF Chopped, q
<1> QED BY <1>1, <1>5, <1>9 DEF q, parts

\* Pieces hold each entry of a sequence without repetitions once.
LEMMA ChopsApart ==
  ASSUME NEW T, NEW s \in Seq(T), s # <<>>, IsInjective(s), NEW size \in Nat \ {0},
         NEW parts \in Seq(Seq(T)), Chopped(parts, s, size)
  PROVE  /\ \A p, r \in DOMAIN parts : p # r => ToSet(parts[p]) \cap ToSet(parts[r]) = {}
         /\ \A e \in ToSet(s) : \E p \in DOMAIN parts : e \in ToSet(parts[p])
         /\ \A p \in DOMAIN parts : ToSet(parts[p]) \subseteq ToSet(s)
<1>0. DOMAIN parts = 1 .. Pieces(s, size) /\ DOMAIN s = 1 .. Len(s)
  BY DEF Chopped
<1>1. ASSUME NEW p \in DOMAIN parts, NEW x \in DOMAIN parts[p]
      PROVE  /\ p \in Nat /\ x \in 1 .. size /\ (p - 1) * size + x \in 1 .. Len(s)
             /\ parts[p][x] = s[(p - 1) * size + x]
  <2>1. parts[p] \in Seq(T)
    BY EntryOfSeq
  <2>2. x \in 1 .. Len(parts[p])
    BY <2>1
  <2>3. p \in 1 .. Pieces(s, size)
    BY <1>0
  <2>4. /\ Len(parts[p]) \in 1 .. size
        /\ (p - 1) * size + x \in 1 .. Len(s) /\ parts[p][x] = s[(p - 1) * size + x]
    BY <2>2, <2>3 DEF Chopped
  <2>5. p \in Nat
    BY ONLY <2>3
  <2>6. x \in 1 .. size
    BY ONLY <2>2, <2>4, size \in Nat
  <2> QED BY <2>4, <2>5, <2>6
<1>2. ASSUME NEW p \in DOMAIN parts, NEW r \in DOMAIN parts, NEW x \in DOMAIN parts[p],
             NEW z \in DOMAIN parts[r], parts[p][x] = parts[r][z]
      PROVE  p = r
  <2>1. (p - 1) * size + x = (r - 1) * size + z
    BY <1>0, <1>1, <1>2 DEF IsInjective
  <2>2. p - 1 \in Nat /\ r - 1 \in Nat
    <3>1. p \in 1 .. Pieces(s, size) /\ r \in 1 .. Pieces(s, size)
      BY <1>0
    <3> QED BY ONLY <3>1
  <2>3. x - 1 \in 0 .. size - 1 /\ z - 1 \in 0 .. size - 1
    <3>1. x \in 1 .. size /\ z \in 1 .. size
      BY <1>1
    <3> QED BY ONLY <3>1, size \in Nat
  <2>4. (p - 1) * size = size * (p - 1) /\ (r - 1) * size = size * (r - 1)
        /\ size * (p - 1) \in Nat /\ size * (r - 1) \in Nat
    <3>1. ASSUME NEW a \in Nat PROVE a * size = size * a /\ size * a \in Nat
      BY ONLY a \in Nat, size \in Nat
    <3> QED BY ONLY <2>2, <3>1
  <2> DEFINE v == size * (p - 1) + (x - 1)
  <2>5. v = size * (r - 1) + (z - 1)
    <3>1. x \in Int /\ z \in Int
      <4>1. x \in 1 .. size /\ z \in 1 .. size
        BY <1>1
      <4> QED BY ONLY <4>1
    <3>2. size * (p - 1) + x = size * (r - 1) + z
      BY ONLY <2>1, <2>4
    <3>3. ASSUME NEW i \in Nat, NEW j \in Nat, i + x = j + z PROVE i + (x - 1) = j + (z - 1)
      BY ONLY <3>1, <3>3, i \in Nat, j \in Nat
    <3> QED BY ONLY <2>4, <3>2, <3>3
  <2>6. v \div size = p - 1 /\ v \div size = r - 1
    <3>1. v = size * (p - 1) + (x - 1)
      OBVIOUS
    <3> HIDE DEF v
    <3>2. v \div size = p - 1
      BY ONLY <2>2, <2>3, <3>1, size \in Nat \ {0}, QuotientAndRemainder
    <3>3. v \div size = r - 1
      BY ONLY <2>2, <2>3, <2>5, size \in Nat \ {0}, QuotientAndRemainder
    <3> QED BY <3>2, <3>3
  <2> QED BY ONLY <2>2, <2>6
<1>3. ASSUME NEW e \in ToSet(s) PROVE \E p \in DOMAIN parts : e \in ToSet(parts[p])
  <2>1. PICK y \in 1 .. Len(s) : e = s[y]
    BY <1>0 DEF ToSet
  <2> DEFINE p == (y - 1) \div size + 1
             x == ((y - 1) % size) + 1
  <2>2. p \in DOMAIN parts /\ x \in 1 .. Len(parts[p]) /\ y = (p - 1) * size + x
    <3>1. p \in 1 .. Pieces(s, size) /\ x \in 1 .. Len(parts[p])
          /\ y = ((y - 1) \div size) * size + ((y - 1) % size) + 1
      BY DEF Chopped
    <3>2. p - 1 = (y - 1) \div size /\ (y - 1) \div size \in Int /\ ((y - 1) % size) \in Int
      OBVIOUS
    <3>3. ((y - 1) \div size) * size \in Int
      BY <3>2
    <3> QED BY <1>0, <3>1, <3>2, <3>3
  <2> HIDE DEF p, x
  <2>3. parts[p] \in Seq(T)
    BY <2>2, EntryOfSeq
  <2>4. x \in DOMAIN parts[p]
    BY <2>2, <2>3
  <2>5. parts[p][x] = e
    BY <1>1, <2>1, <2>2, <2>4
  <2>6. e \in ToSet(parts[p])
    BY <2>4, <2>5 DEF ToSet
  <2> QED BY <2>2, <2>6
<1>4. ASSUME NEW p \in DOMAIN parts PROVE ToSet(parts[p]) \subseteq ToSet(s)
  BY <1>0, <1>1 DEF ToSet
<1>5. ASSUME NEW p \in DOMAIN parts, NEW r \in DOMAIN parts, p # r
      PROVE  ToSet(parts[p]) \cap ToSet(parts[r]) = {}
  BY <1>2, <1>5 DEF ToSet
<1> QED BY <1>3, <1>4, <1>5

-----------------------------------------------------------------------------
(* The rows that are dealt, and the setting they are dealt under               *)

RowCount == Len(rows[1])
Everything == [i \in 1 .. RowCount |-> i]

RowsAreDealt ==
  /\ Len(rows) \in Nat \ {0} /\ Ranks = 1 .. Len(rows) /\ 1 \in Ranks
  /\ IsFiniteSet(Ranks) /\ Cardinality(Ranks) = Len(rows)
  /\ RowCount \in Nat \ {0}
  /\ \A d \in Ranks :
       /\ rows[d] \in Seq(Rows) /\ Len(rows[d]) = RowCount /\ DOMAIN rows[d] = 1 .. RowCount
       /\ \A i \in 1 .. RowCount : rows[d][i] \in Rows /\ Seqlen(rows[d][i]) \in 1 .. Width

LEMMA DealtRows ==
  ASSUME ModelCallsAssumption, rows \in Batches
  PROVE  RowsAreDealt
<1>1. /\ rows \in Seq(Seq(Rows)) /\ rows # <<>>
      /\ \A d \in DOMAIN rows : rows[d] # <<>> /\ Len(rows[d]) = Len(rows[1])
      /\ \A d \in DOMAIN rows : \A i \in DOMAIN rows[d] : rows[d][i].first <= rows[d][i].last
  BY DEF ModelCallsAssumption
<1>2. Len(rows) \in Nat \ {0} /\ Ranks = 1 .. Len(rows) /\ 1 \in Ranks
  BY <1>1 DEF Ranks
<1>3. IsFiniteSet(Ranks) /\ Cardinality(Ranks) = Len(rows)
  BY <1>2, OneTo
<1>4. RowCount \in Nat \ {0}
  <2>1. rows[1] \in Seq(Rows) /\ rows[1] # <<>>
    BY <1>1, <1>2 DEF Ranks
  <2> QED BY <2>1 DEF RowCount
<1>5. ASSUME NEW d \in Ranks
      PROVE  /\ rows[d] \in Seq(Rows) /\ Len(rows[d]) = RowCount /\ DOMAIN rows[d] = 1 .. RowCount
             /\ \A i \in 1 .. RowCount : rows[d][i] \in Rows /\ Seqlen(rows[d][i]) \in 1 .. Width
  <2>1. rows[d] \in Seq(Rows) /\ Len(rows[d]) = RowCount
    BY <1>1, <1>2 DEF Ranks, RowCount
  <2>2. DOMAIN rows[d] = 1 .. RowCount
    BY <2>1
  <2>3. ASSUME NEW i \in 1 .. RowCount
        PROVE  rows[d][i] \in Rows /\ Seqlen(rows[d][i]) \in 1 .. Width
    <3>1. rows[d][i] \in Rows
      BY <2>1, <2>2
    <3>2. rows[d][i].first \in 1 .. Width /\ rows[d][i].last \in 1 .. Width
      BY <3>1 DEF Rows
    <3>3. rows[d][i].first <= rows[d][i].last
      BY <1>1, <2>2 DEF Ranks
    <3>4. Width \in Nat
      BY DEF ModelCallsAssumption
    <3>5. \A x, y \in 1 .. Width : x <= y => y - x + 1 \in 1 .. Width
      BY ONLY <3>4
    <3>6. Seqlen(rows[d][i]) = rows[d][i].last - rows[d][i].first + 1
      BY DEF Seqlen
    <3> QED BY ONLY <3>1, <3>2, <3>3, <3>5, <3>6
  <2> QED BY <2>1, <2>2, <2>3
<1> QED BY <1>2, <1>3, <1>4, <1>5 DEF RowsAreDealt

\* The setting is one that was accepted.
Accepts(s) ==
  /\ c = Normalised(s) /\ Len(rows) = DataParallel(s)
  /\ DriverAccepts(s) /\ (s.family = "fsdp" => FsdpAccepts(Normalised(s)))
Configured == \E s \in Settings : Accepts(s)

SettingIsSound ==
  /\ c.mini \in Nat /\ c.micro \in Nat /\ c.dynamic \in BOOLEAN
  /\ c.ranks \in Nat \ {0} /\ c.max_token_len \in Nat \ {0} /\ c.epochs \in Nat \ {0}
  /\ c.tp \in Nat \ {0} /\ c.cp \in Nat \ {0}
  /\ c.mini * Len(rows) <= Unit
  /\ ByFsdp => c.mini > 0
  /\ ByFsdp /\ ~c.dynamic => c.micro > 0 /\ c.mini % c.micro = 0
  /\ c.route = "packed" => ~ByFsdp

LEMMA SoundSetting ==
  ASSUME ModelCallsAssumption, rows \in Batches, Configured
  PROVE  SettingIsSound
<1> PICK s \in Settings : Accepts(s)
  BY DEF Configured
<1>0. RowsAreDealt
  BY DealtRows
<1>1. s \in SettingType /\ s.mini * s.n <= Unit /\ Unit \in Nat
      /\ (s.family = "fsdp" <=> s.route \in {"padded", "unpadded"})
  BY DEF ModelCallsAssumption
<1>2. /\ s.world \in Nat \ {0} /\ s.ranks \in Nat \ {0} /\ s.tp \in Nat \ {0} /\ s.cp \in Nat \ {0}
      /\ s.n \in Nat \ {0} /\ s.mini \in Nat \ {0} /\ s.micro \in Nat /\ s.micro_all \in Nat
      /\ s.dynamic \in BOOLEAN /\ s.max_token_len \in Nat \ {0} /\ s.epochs \in Nat \ {0}
  BY <1>1 DEF SettingType
<1> DEFINE dp == DataParallel(s)
<1>3. dp \in Nat \ {0} /\ dp = Len(rows)
  BY <1>0 DEF Accepts, RowsAreDealt
<1>4. c = [s EXCEPT !.mini = (s.mini * s.n) \div dp,
                    !.micro = IF s.micro_all = 0 THEN s.micro ELSE s.micro_all \div dp]
  BY DEF Accepts, Normalised
<1> HIDE DEF dp
<1>5. /\ c.mini = (s.mini * s.n) \div dp
      /\ c.micro = IF s.micro_all = 0 THEN s.micro ELSE s.micro_all \div dp
      /\ c.dynamic = s.dynamic /\ c.ranks = s.ranks /\ c.max_token_len = s.max_token_len
      /\ c.epochs = s.epochs /\ c.tp = s.tp /\ c.cp = s.cp /\ c.family = s.family /\ c.route = s.route
  BY <1>1, <1>4 DEF SettingType
<1>6. s.mini * s.n \in Nat
  BY <1>2, SMTT(30)
<1>7. c.mini \in Nat /\ c.micro \in Nat
  <2>1. \A x \in Nat : x \div dp \in Nat
    BY ONLY <1>3
  <2> QED BY <1>2, <1>5, <1>6, <2>1
<1>8. c.mini * Len(rows) <= Unit
  <2>1. ASSUME NEW x \in Nat PROVE (x \div dp) * dp <= x
    BY <1>3
  <2>2. c.mini * dp <= s.mini * s.n
    BY <1>5, <1>6, <2>1
  <2>3. c.mini * dp \in Nat
    BY <1>3, <1>7
  <2> QED BY <1>1, <1>3, <1>6, <2>2, <2>3
<1>9. ASSUME ByFsdp PROVE FsdpAccepts(c) /\ s.family = "fsdp"
  BY <1>5, <1>9 DEF ByFsdp, Accepts
<1>10. ByFsdp => c.mini > 0
  BY <1>9 DEF FsdpAccepts
<1>11. ASSUME ByFsdp, ~c.dynamic PROVE c.micro > 0 /\ c.mini % c.micro = 0
  <2>1. /\ (s.micro = 0) # (s.micro_all = 0)
        /\ s.micro_all = 0 \/ s.micro_all * s.ranks >= s.world
    BY <1>5, <1>11 DEF Accepts, DriverAccepts
  <2>2. CASE s.micro_all = 0
    <3>1. c.micro > 0
      BY <1>2, <1>5, <2>1, <2>2
    <3> QED BY <1>9, <1>11, <3>1 DEF FsdpAccepts
  <2>3. CASE s.micro_all # 0
    <3>1. dp = s.world \div s.ranks
      BY <1>9, <1>11 DEF dp, DataParallel
    <3>2. ASSUME NEW w \in Nat, NEW r \in Nat \ {0}, NEW m \in Nat, m * r >= w
          PROVE  w \div r <= m
      <4>1. w \div r \in Nat /\ r * (w \div r) <= w /\ m * r \in Nat
        BY ONLY w \in Nat, r \in Nat \ {0}, m \in Nat
      <4>2. PICK q \in Nat : q = w \div r
        BY <4>1
      <4>3. ASSUME m + 1 <= q PROVE FALSE
        <5>1. (m + 1) * r <= q * r /\ q * r \in Nat
          BY ONLY m + 1 \in Nat, <4>3, q \in Nat, r \in Nat, Products
        <5>2. (m + 1) * r = m * r + r /\ q * r = r * q
          BY ONLY m \in Nat, r \in Nat, q \in Nat
        <5> QED BY ONLY <3>2, <4>1, <4>2, <5>1, <5>2, w \in Nat, r \in Nat \ {0}
      <4>4. q <= m
        BY ONLY <4>3, q \in Nat, m \in Nat
      <4> QED BY ONLY <4>2, <4>4
    <3>3. s.micro_all * s.ranks >= s.world
      BY <2>1, <2>3
    <3>4. dp <= s.micro_all
      BY <1>2, <3>1, <3>2, <3>3
    <3>5. c.micro > 0
      BY <1>2, <1>3, <1>5, <2>3, <3>4, ShareIsPositive
    <3> QED BY <1>9, <1>11, <3>5 DEF FsdpAccepts
  <2> QED BY <2>2, <2>3
<1>12. c.route = "packed" => ~ByFsdp
  BY <1>1, <1>5 DEF ByFsdp
<1> QED BY <1>2, <1>5, <1>7, <1>8, <1>10, <1>11, <1>12 DEF SettingIsSound

-----------------------------------------------------------------------------
(* Pieces of context parallel ranks                                            *)

\* A row that is long enough fills the first pieces of all context parallel ranks.
LEMMA HalfOf ==
  ASSUME NEW B \in Nat \ {0}, NEW len \in Nat, len >= B
  PROVE  \E t \in Nat : len + PadSize(len, 2 * B) = (2 * B) * t /\ B * t <= len
<1> DEFINE A == 2 * B
           p == len \div A
           u == (len % A)
<1>1. A \in Nat \ {0} /\ A = B + B
  OBVIOUS
<1> HIDE DEF A
<1>2. p \in Nat /\ u \in 0 .. A - 1 /\ len = A * p + u
  BY <1>1
<1>3. PadSize(len, A) = ((A - u) % A)
  BY DEF PadSize, u
<1> HIDE DEF p, u
<1>4. A * p = B * p + B * p /\ B * p \in Nat /\ A * p \in Nat
  BY <1>1, <1>2
<1>5. CASE u = 0
  <2>1. (A - u) % A = 0
    <3>1. A = A * 1 + 0 /\ 0 \in 0 .. A - 1
      BY <1>1
    <3>2. (A % A) = 0
      BY <1>1, <3>1, QuotientAndRemainder
    <3>3. A - u = A
      BY <1>1, <1>5
    <3> QED BY <3>2, <3>3
  <2>2. len + PadSize(len, A) = A * p /\ B * p <= len
    BY <1>2, <1>3, <1>4, <1>5, <2>1
  <2> QED BY <1>2, <2>2 DEF A
<1>6. CASE u # 0
  <2>1. (A - u) % A = A - u
    <3>1. A - u = A * 0 + (A - u) /\ A - u \in 0 .. A - 1
      BY <1>1, <1>2, <1>6
    <3> QED BY <1>1, <3>1, QuotientAndRemainder
  <2>2. p + 1 \in Nat /\ A * (p + 1) = A * p + A /\ B * (p + 1) = B * p + B
    BY <1>1, <1>2
  <2>3. len + PadSize(len, A) = A * (p + 1)
    BY <1>1, <1>2, <1>3, <1>4, <2>1, <2>2
  <2>4. B * (p + 1) <= len
    <3>1. CASE p = 0
      <4>1. B * p = 0
        BY <3>1
      <4> QED BY <2>2, <4>1
    <3>2. CASE p # 0
      <4>1. B <= B * p
        <5>1. PICK e \in Nat : p = e + 1
          BY <1>2, <3>2, p - 1 \in Nat
        <5>2. B * p = B * e + B /\ B * e \in Nat
          BY <5>1
        <5> QED BY <5>2
      <4> QED BY <1>2, <1>4, <2>2, <4>1
    <3> QED BY <3>1, <3>2
  <2> QED BY <2>2, <2>3, <2>4 DEF A
<1> QED BY <1>5, <1>6

LEMMA FirstPieceIsFull ==
  ASSUME NEW s, s.tp \in Nat \ {0}, s.cp \in Nat \ {0}, s.cp > 1,
         NEW row, Seqlen(row) \in Nat, Seqlen(row) >= s.tp * s.cp, NEW r \in 1 .. s.cp
  PROVE  Cardinality(FirstPiece(s, row, r)) = Half(s, row)
<1> DEFINE B == s.tp * s.cp
           len == Seqlen(row)
<1>1. B \in Nat \ {0}
  OBVIOUS
<1>2. AlignSize(s) = 2 * B
  BY DEF AlignSize
<1>3. PICK t \in Nat : len + PadSize(len, 2 * B) = (2 * B) * t /\ B * t <= len
  <2> HIDE DEF B, len
  <2>1. len \in Nat /\ len >= B
    BY DEF len, B
  <2> QED BY <1>1, <2>1, HalfOf
<1> DEFINE H == s.tp * t
<1>4. H \in Nat
  OBVIOUS
<1>5. Half(s, row) = H
  <2>1. Padded(s, row) = (2 * B) * t
    BY <1>2, <1>3 DEF Padded
  <2>2. (2 * B) * t = s.cp * (2 * H) + 0 /\ 2 * H \in Nat /\ 0 \in 0 .. s.cp - 1
    OBVIOUS
  <2>3. Padded(s, row) \div s.cp = 2 * H
    <3> DEFINE h == 2 * H
    <3>1. h \in Nat /\ 0 \in 0 .. s.cp - 1 /\ Padded(s, row) = s.cp * h + 0
      BY <2>1, <2>2
    <3> HIDE DEF h
    <3>2. Padded(s, row) \div s.cp = h
      BY ONLY <3>1, s.cp \in Nat \ {0}, QuotientAndRemainder
    <3> QED BY <3>2 DEF h
  <2>4. (2 * H) \div 2 = H
    <3> HIDE DEF H
    <3> QED BY <1>4
  <2> QED BY <2>3, <2>4 DEF Half
<1>6. H * r <= len /\ H * r \in Nat
  <2>1. r <= s.cp /\ r \in Nat /\ s.cp \in Nat
    OBVIOUS
  <2>2. r * H <= s.cp * H /\ r * H \in Nat
    <3> HIDE DEF H
    <3> QED BY <1>4, <2>1, Products
  <2>3. s.cp * H = B * t /\ r * H = H * r
    OBVIOUS
  <2>4. B * t \in Nat
    BY <1>1
  <2> HIDE DEF B, H
  <2> QED BY <1>3, <2>2, <2>3, <2>4
<1>7. H * (r - 1) \in Nat /\ H * (r - 1) + H = H * r
  <2>1. r - 1 \in Nat /\ r \in Int
    OBVIOUS
  <2> HIDE DEF H
  <2> QED BY ONLY <1>4, <2>1
<1> HIDE DEF H, B, len
<1>8. FirstPiece(s, row, r) = H * (r - 1) .. H * r - 1
  <2>1. FirstPiece(s, row, r) = {j \in 0 .. len - 1 : j >= H * (r - 1) /\ j < H * r}
    BY <1>5 DEF FirstPiece, len
  <2>2. ASSUME NEW a \in Nat, NEW b \in Nat, b <= len
        PROVE  {j \in 0 .. len - 1 : j >= a /\ j < b} = a .. b - 1
    <3>1. len \in Nat
      BY DEF len
    <3> QED BY ONLY <2>2, <3>1, a \in Nat, b \in Nat
  <2> QED BY <1>6, <1>7, <2>1, <2>2
<1>9. Cardinality(H * (r - 1) .. H * r - 1) = H
  <2>1. ASSUME NEW a \in Nat, NEW h \in Nat PROVE Cardinality(a .. a + h - 1) = h
    <3>1. a \in Int /\ a + h - 1 \in Int
      OBVIOUS
    <3>2. Cardinality(a .. a + h - 1) = IF a > a + h - 1 THEN 0 ELSE (a + h - 1) - a + 1
      BY <3>1, FS_Interval
    <3> QED BY <3>2
  <2>2. Cardinality(H * (r - 1) .. H * (r - 1) + H - 1) = H
    BY <1>4, <1>7, <2>1
  <2>3. H * (r - 1) + H - 1 = H * r - 1
    <3>1. ASSUME NEW x \in Nat, NEW y \in Nat, x + H = y PROVE x + H - 1 = y - 1
      BY ONLY <1>4, <3>1, x \in Nat, y \in Nat
    <3> QED BY ONLY <1>6, <1>7, <3>1
  <2> QED BY <2>2, <2>3
<1> QED BY <1>5, <1>8, <1>9

\* Packing raises only for a row that is too short.
LEMMA PackFits ==
  ASSUME NEW s, s.tp \in Nat \ {0}, s.cp \in Nat \ {0}, NEW g,
         Len(g.rows) \in Nat, \A i \in 1 .. Len(g.rows) : Seqlen(g.rows[i]) \in Nat,
         PackRaises(s, g)
  PROVE  \E i \in 1 .. Len(g.rows) : Seqlen(g.rows[i]) < s.tp * s.cp
<1>1. PICK i \in 1 .. Len(g.rows), r \in 1 .. s.cp :
        s.cp > 1 /\ Cardinality(FirstPiece(s, g.rows[i], r)) # Half(s, g.rows[i])
  BY DEF PackRaises
<1>2. ~ (Seqlen(g.rows[i]) >= s.tp * s.cp)
  BY <1>1, FirstPieceIsFull
<1>3. s.tp * s.cp \in Nat /\ Seqlen(g.rows[i]) \in Nat
  OBVIOUS
<1>4. Seqlen(g.rows[i]) < s.tp * s.cp
  BY <1>2, <1>3
<1> QED BY <1>4

-----------------------------------------------------------------------------
(* The number of micro batches                                                 *)

\* Rounded up, numbers of at most m each fit as often as there are numbers.
LEMMA FitsRoundedUp ==
  ASSUME NEW m \in Nat \ {0}, NEW n \in Nat, NEW s \in Nat, s <= m * n
  PROVE  (s + m - 1) \div m \in 0 .. n
<1> DEFINE x == s + m - 1
           q == x \div m
<1>1. x \in Nat /\ q \in Nat /\ m * q <= x
  OBVIOUS
<1> HIDE DEF q
<1>2. ASSUME n + 1 <= q PROVE FALSE
  <2>1. (n + 1) * m <= q * m /\ q * m \in Nat
    BY ONLY <1>1, <1>2, n + 1 \in Nat, m \in Nat, Products
  <2>2. (n + 1) * m = m * n + m /\ q * m = m * q /\ m * n \in Nat
    BY ONLY <1>1, n \in Nat, m \in Nat
  <2> QED BY <1>1, <2>1, <2>2
<1>3. q <= n
  BY ONLY <1>1, <1>2, n \in Nat
<1> QED BY <1>1, <1>3 DEF q

\* If a row's tokens fit, the tokens of a mini batch fit in as many micro batches as
\* it has rows.
LEMMA NeedFits ==
  ASSUME RowsAreDealt, SettingIsSound, Width \in Nat, Width <= c.max_token_len * c.ranks,
         NEW d \in Ranks, NEW s \in Seq(1 .. RowCount), minis[d] # <<>>, Head(minis[d]) = s
  PROVE  Need(d) \in 0 .. Len(s)
<1> DEFINE max == c.max_token_len * c.ranks
           lens == [j \in DOMAIN s |-> Seqlen(rows[d][s[j]])]
<1>1. max \in Nat \ {0} /\ Width <= max
  BY SMTT(30) DEF SettingIsSound
<1> HIDE DEF max
<1>2. DOMAIN s = 1 .. Len(s) /\ Len(s) \in Nat /\ DOMAIN lens = DOMAIN s
  OBVIOUS
<1>3. \A j \in DOMAIN s : lens[j] \in Nat /\ lens[j] <= max
  <2>1. ASSUME NEW j \in DOMAIN s PROVE Seqlen(rows[d][s[j]]) \in 1 .. Width
    <3>1. s[j] \in 1 .. RowCount
      BY EntryOfSeq
    <3>2. \A i \in 1 .. RowCount : Seqlen(rows[d][i]) \in 1 .. Width
      BY DEF RowsAreDealt
    <3> QED BY <3>1, <3>2
  <2> QED BY <1>1, <2>1
<1>4. Tokens(d, s) = Sum(lens, DOMAIN s)
  BY <1>2 DEF Tokens, SumFunction, Sum
<1> HIDE DEF lens
<1>5. IsFiniteSet(DOMAIN s) /\ Cardinality(DOMAIN s) = Len(s)
  BY <1>2, OneTo
<1>6. Sum(lens, DOMAIN s) \in Nat
  BY <1>3, <1>5, SumOfNaturals
<1>7. Sum(lens, DOMAIN s) <= max * Len(s)
  <2>1. Sum(lens, DOMAIN s) <= max * Cardinality(DOMAIN s)
    <3>1. \A j \in DOMAIN s : lens[j] \in Int /\ lens[j] <= max
      BY <1>3
    <3>2. max \in Int
      BY <1>1
    <3> QED BY <1>5, <3>1, <3>2, SumAtMost
  <2> QED BY <1>5, <2>1
<1>8. Need(d) = (Tokens(d, s) + max - 1) \div max
  BY DEF Need, max
<1> QED BY <1>1, <1>2, <1>4, <1>6, <1>7, <1>8, FitsRoundedUp

LEMMA AgreedFits ==
  ASSUME RowsAreDealt, SettingIsSound, Width \in Nat, Width <= c.max_token_len * c.ranks,
         NEW s \in Seq(1 .. RowCount), \A d \in Ranks : minis[d] # <<>> /\ Head(minis[d]) = s
  PROVE  AgreedNumber \in 0 .. Len(s)
<1> DEFINE S == {Need(d) : d \in Ranks}
<1>1. \A d \in Ranks : Need(d) \in 0 .. Len(s)
  BY NeedFits
<1>2. S \in SUBSET (0 .. Len(s))
  BY <1>1
<1>3. S # {}
  BY DEF RowsAreDealt
<1>4. Len(s) \in Nat
  OBVIOUS
<1> HIDE DEF S
<1>5. Max(S) \in S
  BY <1>2, <1>3, <1>4, LargestOf
<1>6. AgreedNumber = Max(S)
  BY DEF AgreedNumber, S
<1> QED BY <1>2, <1>5, <1>6

-----------------------------------------------------------------------------
(* A mini batch in micro batches                                               *)

\* The numbers of a set in order are a sequence of them, each once.
LEMMA AscendingListsAll ==
  ASSUME NEW n \in Nat, NEW S \in SUBSET (1 .. n)
  PROVE  /\ Ascending(S) \in Seq(S) /\ Len(Ascending(S)) = Cardinality(S)
         /\ ToSet(Ascending(S)) = S
<1> DEFINE Lower(i) == {j \in S : j < i}
           size == Cardinality(S)
           f == [i \in S |-> Cardinality(Lower(i))]
           s == Ascending(S)
<1>1. IsFiniteSet(S) /\ size \in Nat
  BY OneTo, FS_Subset, FS_CardinalityType
<1>2. ASSUME NEW i \in S PROVE f[i] \in 0 .. size - 1 /\ IsFiniteSet(Lower(i))
  <2>1. Lower(i) \subseteq S \ {i}
    OBVIOUS
  <2>2. IsFiniteSet(S \ {i}) /\ Cardinality(S \ {i}) = size - 1
    BY <1>1, FS_RemoveElement
  <2>3. IsFiniteSet(Lower(i)) /\ Cardinality(Lower(i)) \in Nat /\ Cardinality(Lower(i)) <= size - 1
    BY <2>1, <2>2, FS_Subset, FS_CardinalityType
  <2> HIDE DEF Lower, size
  <2> QED BY <1>1, <2>3
<1>3. ASSUME NEW i \in S, NEW j \in S, i < j PROVE f[i] < f[j]
  <2>1. Lower(i) \cup {i} \subseteq Lower(j)
    <3>1. i \in Int /\ j \in Int
      OBVIOUS
    <3>2. ASSUME NEW x \in S, x < i PROVE x < j
      <4>1. x \in Int
        OBVIOUS
      <4> QED BY ONLY <1>3, <3>1, <3>2, <4>1
    <3> QED BY <1>3, <3>2
  <2>2. i \notin Lower(i)
    OBVIOUS
  <2>3. IsFiniteSet(Lower(i)) /\ IsFiniteSet(Lower(j))
    BY <1>2
  <2> HIDE DEF Lower, size
  <2>4. Cardinality(Lower(i) \cup {i}) = Cardinality(Lower(i)) + 1
    BY <2>2, <2>3, FS_AddElement
  <2>5. Cardinality(Lower(i)) + 1 <= Cardinality(Lower(j))
    BY <2>1, <2>3, <2>4, FS_Subset
  <2> QED BY <1>1, <1>2, <2>5
<1>4. ASSUME NEW i \in S, NEW j \in S, f[i] = f[j] PROVE i = j
  <2>1. f[i] \in Int /\ f[j] \in Int
    <3> HIDE DEF f, Lower
    <3> QED BY <1>2
  <2>2. ~ (i < j) /\ ~ (j < i)
    BY <1>3, <1>4, <2>1
  <2> QED BY <2>2
<1>5. \A q \in 0 .. size - 1 : \E i \in S : f[i] = q
  <2>1. f \in [S -> 0 .. size - 1]
    <3>1. \A i \in S : Cardinality(Lower(i)) \in 0 .. size - 1
      BY <1>2
    <3> HIDE DEF Lower, size
    <3> QED BY <3>1
  <2>2. f \in Injection(S, 0 .. size - 1)
    <3> HIDE DEF f, size
    <3> QED BY <1>4, <2>1 DEF Injection, IsInjective
  <2>3. IsFiniteSet(0 .. size - 1) /\ Cardinality(0 .. size - 1) = size
    <3> HIDE DEF size
    <3>1. 0 \in Int /\ size - 1 \in Int
      BY <1>1
    <3>2. /\ IsFiniteSet(0 .. size - 1)
          /\ Cardinality(0 .. size - 1) = IF 0 > size - 1 THEN 0 ELSE (size - 1) - 0 + 1
      BY <3>1, FS_Interval
    <3> QED BY <1>1, <3>2
  <2> HIDE DEF f
  <2>4. f \in Surjection(S, 0 .. size - 1)
    <3> HIDE DEF size
    <3>1. Cardinality(S) = Cardinality(0 .. size - 1)
      BY <2>3 DEF size
    <3> QED BY <1>1, <2>2, <2>3, <3>1, FS_Injection
  <2> QED BY <2>4 DEF Surjection
<1>6. s = [x \in 1 .. size |-> CHOOSE i \in S : Cardinality(Lower(i)) = x - 1]
  BY DEF Ascending
<1>7. ASSUME NEW x \in 1 .. size PROVE s[x] \in S /\ f[s[x]] = x - 1
  <2>1. x - 1 \in 0 .. size - 1
    <3> HIDE DEF size
    <3> QED BY <1>1
  <2>2. \E i \in S : Cardinality(Lower(i)) = x - 1
    BY <1>5, <2>1
  <2>3. s[x] = CHOOSE i \in S : Cardinality(Lower(i)) = x - 1
    <3> HIDE DEF Lower, size, s
    <3> QED BY <1>6
  <2> HIDE DEF Lower, size, s
  <2>4. s[x] \in S /\ Cardinality(Lower(s[x])) = x - 1
    BY <2>2, <2>3
  <2> QED BY <2>4
<1> HIDE DEF s, f, Lower, size
<1>8. s \in Seq(S) /\ Len(s) = size /\ DOMAIN s = 1 .. size
  <2>1. DOMAIN s = 1 .. size /\ \A x \in 1 .. size : s[x] \in S
    BY <1>6, <1>7
  <2>2. s \in [1 .. size -> S]
    BY <1>6, <2>1
  <2> QED BY <1>1, <2>1, <2>2
<1>9. ASSUME NEW i \in S PROVE i \in ToSet(s)
  <2>1. f[i] + 1 \in 1 .. size /\ (f[i] + 1) - 1 = f[i]
    BY <1>1, <1>2
  <2>2. s[f[i] + 1] \in S /\ f[s[f[i] + 1]] = f[i]
    BY <1>7, <2>1
  <2>3. s[f[i] + 1] = i
    BY <1>4, <2>2
  <2> QED BY <1>8, <2>1, <2>3 DEF ToSet
<1>10. ToSet(s) \subseteq S
  BY <1>7, <1>8 DEF ToSet
<1> QED BY <1>8, <1>9, <1>10 DEF s, size

\* The parts are not empty, have no entry in common, and have those of s between them.
Separates(parts, s) ==
  /\ \A p \in DOMAIN parts : parts[p] # <<>> /\ ToSet(parts[p]) \subseteq ToSet(s)
  /\ \A p, r \in DOMAIN parts : p # r => ToSet(parts[p]) \cap ToSet(parts[r]) = {}
  /\ \A e \in ToSet(s) : \E p \in DOMAIN parts : e \in ToSet(parts[p])

LEMMA PartitionsSeparate ==
  ASSUME NEW n \in Nat, NEW s \in Seq(1 .. n), NEW m \in Nat, NEW parts \in OrderedPartitions(s, m)
  PROVE  /\ parts \in Seq(Seq(1 .. n)) /\ Len(parts) = m
         /\ Separates(parts, s)
<1> DEFINE Of(g, p) == {i \in ToSet(s) : g[i] = p}
<1>1. PICK g \in Surjection(ToSet(s), 1 .. m) : parts = [p \in 1 .. m |-> Ascending(Of(g, p))]
  BY DEF OrderedPartitions
<1>2. ToSet(s) \in SUBSET (1 .. n)
  BY DEF ToSet
<1>3. ASSUME NEW p \in 1 .. m
      PROVE  /\ parts[p] \in Seq(1 .. n)
             /\ ToSet(parts[p]) = Of(g, p)
             /\ Of(g, p) # {}
  <2>1. Of(g, p) \in SUBSET (1 .. n)
    BY <1>2
  <2>2. parts[p] = Ascending(Of(g, p))
    BY <1>1
  <2>3. \E i \in ToSet(s) : g[i] = p
    BY DEF Surjection
  <2>4. Of(g, p) # {}
    BY <2>3
  <2> HIDE DEF Of
  <2>5. parts[p] \in Seq(Of(g, p)) /\ ToSet(parts[p]) = Of(g, p)
    BY <2>1, <2>2, AscendingListsAll
  <2>6. parts[p] \in Seq(1 .. n)
    BY <2>1, <2>5
  <2> QED BY <2>4, <2>5, <2>6
<1>4. DOMAIN parts = 1 .. m
  BY <1>1
<1>5. parts \in Seq(Seq(1 .. n)) /\ Len(parts) = m
  <2>1. \A p \in 1 .. m : parts[p] \in Seq(1 .. n)
    BY <1>3
  <2>2. parts \in [1 .. m -> Seq(1 .. n)]
    <3>1. parts = [p \in 1 .. m |-> parts[p]]
      BY <1>1
    <3> QED BY <2>1, <3>1
  <2> QED BY <1>4, <2>2
<1>6. ASSUME NEW p \in DOMAIN parts PROVE parts[p] # <<>> /\ ToSet(parts[p]) \subseteq ToSet(s)
  <2>1. ToSet(<<>>) = {}
    BY DEF ToSet
  <2> QED BY <1>3, <1>4, <2>1
<1>7. ASSUME NEW p \in DOMAIN parts, NEW r \in DOMAIN parts, p # r
      PROVE  ToSet(parts[p]) \cap ToSet(parts[r]) = {}
  <2>1. ToSet(parts[p]) = Of(g, p) /\ ToSet(parts[r]) = Of(g, r)
    BY <1>3, <1>4
  <2>2. Of(g, p) \cap Of(g, r) = {}
    BY <1>7
  <2> QED BY <2>1, <2>2
<1>8. ASSUME NEW e \in ToSet(s) PROVE \E p \in DOMAIN parts : e \in ToSet(parts[p])
  <2>1. g[e] \in 1 .. m
    BY DEF Surjection
  <2>2. e \in Of(g, g[e])
    OBVIOUS
  <2> QED BY <1>3, <1>4, <2>1, <2>2
<1> QED BY <1>5, <1>6, <1>7, <1>8 DEF Separates

LEMMA ChopSeparates ==
  ASSUME NEW n \in Nat, NEW s \in Seq(1 .. n), s # <<>>, IsInjective(s), NEW size \in Nat \ {0}
  PROVE  Separates(Chop(s, size), s)
<1> DEFINE parts == Chop(s, size)
<1>1. parts \in Seq(Seq(1 .. n)) /\ Chopped(parts, s, size)
  BY ChopShape
<1> HIDE DEF parts
<1>2. ASSUME NEW p \in DOMAIN parts PROVE parts[p] # <<>>
  <2>1. p \in 1 .. Pieces(s, size)
    BY <1>1 DEF Chopped
  <2>2. Len(parts[p]) \in 1 .. size
    BY <1>1, <2>1 DEF Chopped
  <2>3. Len(<<>>) = 0
    OBVIOUS
  <2> QED BY <2>2, <2>3
<1>3. /\ \A p, r \in DOMAIN parts : p # r => ToSet(parts[p]) \cap ToSet(parts[r]) = {}
      /\ \A e \in ToSet(s) : \E p \in DOMAIN parts : e \in ToSet(parts[p])
      /\ \A p \in DOMAIN parts : ToSet(parts[p]) \subseteq ToSet(s)
  BY <1>1, ChopsApart
<1>4. Separates(parts, s)
  BY <1>2, <1>3 DEF Separates
<1> QED BY <1>4 DEF parts

-----------------------------------------------------------------------------
(* Mini batches                                                                *)

\* How many mini batches an epoch has, and which one step t is about.
Number == Pieces(Everything, c.mini)
MiniAt(t) == Chop(Everything, c.mini)[((t - 1) % Number) + 1]
RowsAt(t) == {i \in 1 .. RowCount : (i - 1) \div c.mini = ((t - 1) % Number)}

LEMMA EverythingShape ==
  ASSUME RowsAreDealt
  PROVE  /\ Everything \in Seq(1 .. RowCount) /\ Len(Everything) = RowCount
         /\ Everything # <<>> /\ IsInjective(Everything)
         /\ ToSet(Everything) = 1 .. RowCount
<1>1. RowCount \in Nat \ {0}
  BY DEF RowsAreDealt
<1>2. Everything \in Seq(1 .. RowCount) /\ Len(Everything) = RowCount
  BY <1>1 DEF Everything
<1>3. Everything # <<>>
  BY <1>1, <1>2
<1>4. \A i \in 1 .. RowCount : Everything[i] = i
  BY DEF Everything
<1>5. DOMAIN Everything = 1 .. RowCount
  BY DEF Everything
<1> QED BY <1>2, <1>3, <1>4, <1>5 DEF IsInjective, ToSet

LEMMA MiniShape ==
  ASSUME RowsAreDealt, c.mini \in Nat \ {0}, NEW t \in Nat \ {0}
  PROVE  /\ Number \in Nat \ {0}
         /\ MiniAt(t) \in Seq(1 .. RowCount) /\ MiniAt(t) # <<>> /\ IsInjective(MiniAt(t))
         /\ Len(MiniAt(t)) \in 1 .. c.mini
         /\ RowCount % c.mini = 0 => Len(MiniAt(t)) = c.mini
         /\ ToSet(MiniAt(t)) = RowsAt(t)
<1> DEFINE m == c.mini
           parts == Chop(Everything, m)
           j == ((t - 1) % Number) + 1
           s == MiniAt(t)
<1>0. RowCount \in Nat \ {0} /\ m \in Nat \ {0}
  BY DEF RowsAreDealt
<1>1. Number \in Nat \ {0} /\ parts \in Seq(Seq(1 .. RowCount)) /\ Chopped(parts, Everything, m)
  BY EverythingShape, ChopShape DEF Number
<1>2. Number = (RowCount + m - 1) \div m
  BY EverythingShape DEF Number, Pieces
<1>3. j \in 1 .. Number /\ j - 1 = ((t - 1) % Number) /\ j - 1 \in Nat
  <2>1. t - 1 \in Nat
    OBVIOUS
  <2>2. ((t - 1) % Number) \in 0 .. Number - 1
    BY <1>1, <2>1
  <2> QED BY <1>1, <2>2
<1>4. s = parts[j] /\ Number = Pieces(Everything, m)
  BY DEF MiniAt, Number
<1> HIDE DEF m, parts, j, s
<1>5. DOMAIN parts = 1 .. Number
  BY <1>1, <1>4 DEF Chopped
<1>6. s \in Seq(1 .. RowCount)
  BY <1>1, <1>3, <1>4, <1>5, EntryOfSeq
<1>7. /\ Len(s) \in 1 .. m
      /\ j * m <= RowCount => Len(s) = m
      /\ \A x \in 1 .. Len(s) : (j - 1) * m + x \in 1 .. RowCount /\ s[x] = (j - 1) * m + x
  <2>1. /\ Len(s) \in 1 .. m
        /\ j * m <= Len(Everything) => Len(s) = m
        /\ \A x \in 1 .. Len(s) : /\ (j - 1) * m + x \in 1 .. Len(Everything)
                                  /\ s[x] = Everything[(j - 1) * m + x]
    BY <1>1, <1>3, <1>4 DEF Chopped
  <2>2. \A i \in 1 .. RowCount : Everything[i] = i
    BY DEF Everything
  <2> QED BY <2>1, <2>2, EverythingShape
<1>8. s # <<>> /\ DOMAIN s = 1 .. Len(s)
  <2>1. Len(<<>>) = 0
    OBVIOUS
  <2> QED BY <1>6, <1>7, <2>1
<1>9. (j - 1) * m \in Nat
  BY <1>0, <1>3
<1>10. IsInjective(s)
  <2>1. ASSUME NEW x \in 1 .. Len(s), NEW y \in 1 .. Len(s), s[x] = s[y] PROVE x = y
    <3>1. (j - 1) * m + x = (j - 1) * m + y
      BY <1>7, <2>1
    <3>2. x \in Int /\ y \in Int
      OBVIOUS
    <3> QED BY ONLY <1>9, <3>1, <3>2
  <2> QED BY <1>8, <2>1 DEF IsInjective
<1>11. ASSUME RowCount % m = 0 PROVE Len(s) = m
  <2> DEFINE e == RowCount \div m
  <2>1. e \in Nat /\ RowCount = m * e + 0
    BY <1>0, <1>11
  <2> HIDE DEF e
  <2>2. Number = e
    <3>1. m * e \in Nat /\ RowCount + m - 1 = m * e + (m - 1) /\ m - 1 \in 0 .. m - 1
      BY <1>0, <2>1
    <3>2. ASSUME NEW r, r = m * e + (m - 1) PROVE r \div m = e
      <4>1. PICK a : a = m
        OBVIOUS
      <4>2. a \in Nat \ {0} /\ a - 1 \in 0 .. a - 1 /\ r = a * e + (a - 1)
        BY ONLY <1>0, <3>2, <4>1
      <4> QED BY ONLY <2>1, <4>1, <4>2, QuotientAndRemainder
    <3> QED BY <1>2, <3>1, <3>2
  <2>3. j * m <= e * m /\ e * m = m * e
    <3>1. j \in Nat /\ j <= e
      BY <1>3, <2>1, <2>2
    <3> QED BY <1>0, <2>1, <3>1, Products
  <2>4. j * m <= RowCount
    BY <1>0, <2>1, <2>3
  <2> QED BY <1>7, <2>4
<1>12. ToSet(s) = RowsAt(t)
  <2>1. ASSUME NEW x \in 1 .. Len(s)
        PROVE  s[x] \in 1 .. RowCount /\ (s[x] - 1) \div m = j - 1
    <3>1. s[x] = (j - 1) * m + x /\ s[x] \in 1 .. RowCount
      BY <1>7
    <3>2. x - 1 \in 0 .. m - 1 /\ x \in Int
      <4>1. x \in 1 .. Len(s) /\ Len(s) \in 1 .. m
        BY <1>7
      <4> QED BY ONLY <1>0, <4>1
    <3>3. s[x] - 1 = m * (j - 1) + (x - 1)
      <4>1. (j - 1) * m = m * (j - 1)
        BY <1>0, <1>3
      <4>2. ASSUME NEW a \in Nat PROVE a + x - 1 = a + (x - 1)
        BY ONLY <3>2, a \in Nat
      <4>3. ((j - 1) * m + x) - 1 = (j - 1) * m + (x - 1)
        BY <1>9, <4>2
      <4> QED BY ONLY <3>1, <4>1, <4>3
    <3>4. s[x] - 1 \in Int
      BY <3>1
    <3>5. (s[x] - 1) \div m = j - 1
      <4> DEFINE v == s[x] - 1
                 u == x - 1
                 q == j - 1
      <4>1. v = m * q + u /\ u \in 0 .. m - 1 /\ q \in Nat
        BY <1>3, <3>2, <3>3
      <4> HIDE DEF v, u, q
      <4>2. v \div m = q
        BY ONLY <1>0, <4>1, QuotientAndRemainder
      <4> QED BY <4>2 DEF v, q
    <3> QED BY <3>1, <3>5
  <2>2. ASSUME NEW i \in 1 .. RowCount, (i - 1) \div m = j - 1 PROVE i \in ToSet(s)
    <3> DEFINE x == ((i - 1) % m) + 1
    <3>1. /\ (i - 1) \div m + 1 \in 1 .. Number
          /\ x \in 1 .. Len(parts[(i - 1) \div m + 1])
          /\ i = ((i - 1) \div m) * m + ((i - 1) % m) + 1
      BY <1>1, <1>4, EverythingShape DEF Chopped
    <3>2. (i - 1) \div m + 1 = j
      BY <1>3, <2>2
    <3>3. x \in 1 .. Len(s)
      BY <1>4, <3>1, <3>2
    <3>4. i = (j - 1) * m + x
      <4>1. ((i - 1) % m) \in Int
        BY <1>0
      <4>2. i = (j - 1) * m + ((i - 1) % m) + 1
        BY <2>2, <3>1
      <4>3. ASSUME NEW a \in Nat, NEW b \in Int PROVE a + b + 1 = a + (b + 1)
        OBVIOUS
      <4> QED BY <1>9, <4>1, <4>2, <4>3
    <3> HIDE DEF x
    <3>5. s[x] = i
      BY <1>7, <3>3, <3>4
    <3> QED BY <1>8, <3>3, <3>5 DEF ToSet
  <2>3. RowsAt(t) = {i \in 1 .. RowCount : (i - 1) \div m = j - 1}
    BY <1>3 DEF RowsAt, m
  <2> QED BY <1>8, <2>1, <2>2, <2>3 DEF ToSet
<1> QED BY <1>1, <1>6, <1>7, <1>8, <1>10, <1>11, <1>12 DEF s, m

LEMMA MiniBatchesShape ==
  ASSUME RowsAreDealt, c.mini \in Nat \ {0}, c.epochs \in Nat \ {0}, call \in Updates, NEW d \in Ranks
  PROVE  /\ MiniBatches(rows[d]) \in Seq(Seq(1 .. RowCount))
         /\ Len(MiniBatches(rows[d])) = c.epochs * Number
         /\ \A t \in 1 .. c.epochs * Number : MiniBatches(rows[d])[t] = MiniAt(t)
<1> DEFINE m == c.mini
           parts == Chop(Everything, m)
           n == c.epochs
           e == [i \in 1 .. n |-> parts]
           off == [i \in 0 .. n |-> i * Number]
           T == Seq(1 .. RowCount)
           s == FlattenSeq(e)
<1>1. Number \in Nat \ {0} /\ parts \in Seq(T) /\ Chopped(parts, Everything, m)
  BY EverythingShape, ChopShape DEF Number
<1>2. Len(parts) = Number
  BY <1>1 DEF Chopped, Number
<1>3. MiniBatches(rows[d]) = s
  BY DEF MiniBatches, Everything, RowsAreDealt
<1> HIDE DEF parts, m
<1>4. n \in Nat \ {0}
  OBVIOUS
<1>5. Offsets(off, e, n, T)
  <2>1. Len(e) = n /\ \A i \in 1 .. n : e[i] \in Seq(T) /\ Len(e[i]) = Number
    BY <1>1, <1>2, <1>4
  <2>2. \A i \in 0 .. n : off[i] \in Nat
    BY <1>1
  <2>3. off[0] = 0
    BY <1>1, <1>4
  <2>4. ASSUME NEW i \in 1 .. n PROVE off[i] = off[i - 1] + Len(e[i])
    <3>1. i \in 0 .. n /\ i - 1 \in 0 .. n
      BY <1>4
    <3>2. i * Number = (i - 1) * Number + Number
      BY <1>1, <3>1
    <3> QED BY <2>1, <3>1, <3>2
  <2> HIDE DEF off, e, T, n
  <2> QED BY <2>1, <2>2, <2>3, <2>4 DEF Offsets
<1>6. EntriesAt(s, off, e, n, T)
  <2> HIDE DEF off, e, T, n
  <2> QED BY <1>4, <1>5, EntriesOfFlatten
<1>7. s \in Seq(T) /\ Len(s) = n * Number
  <2>1. s \in Seq(T) /\ Len(s) = off[n]
    <3> HIDE DEF off, e, T, n, s
    <3> QED BY <1>6 DEF EntriesAt
  <2>2. off[n] = n * Number
    BY <1>4
  <2> HIDE DEF off, e, T, n, s
  <2> QED BY <2>1, <2>2
<1>8. ASSUME NEW t \in 1 .. n * Number PROVE s[t] = MiniAt(t)
  <2> DEFINE p == (t - 1) \div Number
             u == ((t - 1) % Number)
  <2>1. p \in 0 .. n - 1 /\ u \in Nat /\ t - 1 = Number * p + u /\ u \in 0 .. Number - 1
    <3>1. t - 1 \in 0 .. n * Number - 1 /\ t - 1 \in Nat
      <4>1. n * Number \in Nat
        BY <1>1, <1>4
      <4> QED BY ONLY <4>1, t \in 1 .. n * Number
    <3>2. p \in 0 .. n - 1 /\ u \in Nat /\ t - 1 = Number * p + u
      BY <1>1, <1>4, <3>1, GroupInRange
    <3>3. u \in 0 .. Number - 1
      BY <1>1, <3>1
    <3> QED BY <3>2, <3>3
  <2> HIDE DEF p, u
  <2>2. p + 1 \in 1 .. n /\ u + 1 \in 1 .. Number /\ (p + 1) - 1 = p /\ p \in 0 .. n
    BY <1>1, <1>4, <2>1
  <2>3. s[off[p] + (u + 1)] = e[p + 1][u + 1]
    <3>1. e[p + 1] = parts
      BY <2>2
    <3> HIDE DEF off, e, T, n, s
    <3>2. Len(e[p + 1]) = Number
      BY <1>2, <3>1
    <3>3. s[off[(p + 1) - 1] + (u + 1)] = e[p + 1][u + 1]
      BY <1>6, <2>2, <3>2 DEF EntriesAt
    <3> QED BY <2>2, <3>3
  <2>4. off[p] + (u + 1) = t
    <3>1. off[p] = p * Number
      BY <2>2
    <3>2. p * Number = Number * p /\ Number * p \in Nat
      BY <1>1, <2>1
    <3>3. ASSUME NEW a \in Nat, t - 1 = a + u PROVE a + (u + 1) = t
      BY ONLY <2>1, <3>3, a \in Nat, t \in 1 .. n * Number
    <3> QED BY <2>1, <3>1, <3>2, <3>3
  <2>5. e[p + 1][u + 1] = parts[u + 1]
    BY <2>2
  <2>6. MiniAt(t) = parts[u + 1]
    BY DEF MiniAt, parts, m, u
  <2> QED BY <2>3, <2>4, <2>5, <2>6
<1> QED BY <1>3, <1>7, <1>8

LEMMA OneMiniBatch ==
  ASSUME RowsAreDealt, call \notin Updates, NEW d \in Ranks
  PROVE  MiniBatches(rows[d]) = <<Everything>>
BY DEF MiniBatches, Everything, RowsAreDealt

-----------------------------------------------------------------------------
(* The inductive invariant                                                     *)

\* The mini batch that is next, or under way.
Mini == IF call \in Updates THEN MiniAt(Len(steps) + 1) ELSE Everything

\* The mini batches that are left are those from it on.
MinisLeft ==
  IF call \in Updates
  THEN /\ c.mini > 0 /\ (~ByFsdp => RowCount % c.mini = 0)
       /\ \A d \in Ranks : /\ minis[d] \in Seq(Seq(1 .. RowCount)) /\ minis[d] # <<>>
                           /\ Len(minis[d]) + Len(steps) = c.epochs * Number
                           /\ \A j \in DOMAIN minis[d] : minis[d][j] = MiniAt(Len(steps) + j)
  ELSE \A d \in Ranks : minis[d] = <<Everything>>

\* The micro batches that are left of it have no row in common, and one of a fixed size
\* is as large as that, or smaller when the mini batch is.
FixedSize(parts) ==
  /\ c.micro > 0 /\ c.mini % c.micro = 0
  /\ \A p \in DOMAIN parts : /\ Len(parts[p]) <= c.micro
                             /\ Len(Mini) = c.mini => Len(parts[p]) = c.micro

MicrosLeft(m) ==
  /\ m \in Seq(Seq(1 .. RowCount))
  /\ \A p \in DOMAIN m : m[p] # <<>> /\ ToSet(m[p]) \subseteq ToSet(Mini)
  /\ \A p, r \in DOMAIN m : p # r => ToSet(m[p]) \cap ToSet(m[r]) = {}
  /\ call \in Updates /\ ~Dynamic => FixedSize(m)

\* The weights g so far: the rows of the micro batches m that are left have none yet, the
\* others of the mini batch theirs.  Micro batches of a fixed size keep to their share.
Remaining(m) == {i \in 1 .. RowCount : \E p \in DOMAIN m : i \in ToSet(m[p])}
RowShare == Unit \div (c.mini * Len(rows))
RankShare == Unit \div Len(rows)
MicroShare == Unit \div ((c.mini \div c.micro) * Len(rows))

Weights(g, m) ==
  /\ \A i \in 1 .. RowCount :
       IF i \in ToSet(Mini) \ Remaining(m)
       THEN /\ g[i] > 0
            /\ Dynamic \/ Len(Mini) = c.mini => g[i] = RowShare
       ELSE g[i] = 0
  /\ ~Dynamic => Sum(g, 1 .. RowCount) + Len(m) * MicroShare <= RankShare

OnItsWay(d) ==
  \/ micros[d] = NotSplit
  \/ MicrosLeft(micros[d]) /\ (call \in Updates => Weights(grads[d], micros[d]))

\* What an optimizer step has to do with the rows.
StepIsEven(t) ==
  /\ TotalWeight(steps[t]) <= Unit
  /\ \A d \in Ranks :
       /\ Weighed(steps[t], d) = RowsAt(t)
       /\ Cardinality(RowsAt(t)) = c.mini =>
            \A i \in RowsAt(t) : steps[t][d][i] = Unit \div (c.mini * Cardinality(Ranks))

Gradients == [Ranks -> [1 .. RowCount -> Nat]]

Shapes ==
  /\ rows \in Batches /\ call \in Calls
  /\ at \in {"configure", "minis", "passes", "done", "raised", "refused"}
  /\ DOMAIN micros = Ranks
  /\ grads \in Gradients /\ steps \in Seq(Gradients)

Settled ==
  /\ at = "configure" => c \in Settings /\ Len(rows) = DataParallel(c)
  /\ at \in {"minis", "passes", "done", "raised"} => Configured
  /\ at \in {"configure", "minis", "refused"} => \A d \in Ranks : micros[d] = NotSplit
  /\ at \in {"configure", "minis", "refused"} \/ call \notin Updates => steps = <<>>

Passing ==
  at = "passes" =>
    /\ MinisLeft
    /\ \A d \in Ranks : OnItsWay(d)

StepsAreEven == \A t \in DOMAIN steps : steps[t] = Zero \/ StepIsEven(t)

CallsInv == Shapes /\ Settled /\ Passing /\ StepsAreEven /\ RaisesOnlyIfRowsDoNotFit
-----------------------------------------------------------------------------
(* The micro batches a rank may choose from are those of the algorithm         *)

\* What a returned result is: the item sets of the last state on the heap.
IsTheLast ==
  pc = "returned" =>
    \E s \in states_pq : Checked(s) /\ partitions = [j \in 1 .. k |-> s[j].items]

LEMMA LastIsReturned == BalanceSpec => []IsTheLast
<1>1. BalanceInit => IsTheLast
  BY DEF BalanceInit, IsTheLast
<1>2. IsTheLast /\ [BalanceNext]_balanceVars => IsTheLast'
  <2> SUFFICES ASSUME IsTheLast, [BalanceNext]_balanceVars, pc' = "returned" PROVE IsTheLast'
    BY DEF IsTheLast
  <2>1. CASE Finish
    <3>1. PICK s \in states_pq : /\ Checked(s) /\ partitions' = [j \in 1 .. k |-> s[j].items]
                                 /\ k' = k /\ equal_size' = equal_size
                                 /\ seqlen_list' = seqlen_list /\ states_pq' = states_pq
      BY <2>1 DEF Finish, args
    <3>2. Checked(s)'
      BY <3>1 DEF Checked, Items
    <3> QED BY <3>1, <3>2 DEF IsTheLast
  <2>2. CASE UNCHANGED balanceVars
    BY <2>2 DEF IsTheLast, balanceVars, args, Checked, Items
  <2>3. CASE Reject \/ Begin \/ Merge
    BY <2>3 DEF Reject, Begin, Merge
  <2> QED BY <2>1, <2>2, <2>3 DEF BalanceNext
<1> QED BY <1>1, <1>2, PTL DEF BalanceSpec

\* The rows of s as the returned partitions put them together, each in order.
AsReturned(s) == [p \in 1 .. k |-> Ascending({s[i] : i \in partitions[p]})]

ChoicesOffered ==
  pc = "returned" =>
    \A s : IsInjective(s) /\ DOMAIN s = Items => AsReturned(s) \in OrderedPartitions(s, k)

LEMMA ReturnedIsOffered ==
  ASSUME BalanceInv, IsTheLast, pc = "returned", NEW s, IsInjective(s), DOMAIN s = Items
  PROVE  AsReturned(s) \in OrderedPartitions(s, k)
<1> DEFINE Of(p) == {s[i] : i \in partitions[p]}
           Has(p, e) == e \in Of(p)
           f == [e \in ToSet(s) |-> CHOOSE p \in 1 .. k : Has(p, e)]
<1>1. PICK h \in states_pq : Checked(h) /\ partitions = [j \in 1 .. k |-> h[j].items]
  BY DEF IsTheLast
<1>2. /\ \A p \in 1 .. k : partitions[p] # {} /\ partitions[p] \subseteq Items
      /\ \A i \in Items : \E p \in 1 .. k : i \in partitions[p]
  BY <1>1 DEF Checked
<1>3. \A p, r \in 1 .. k : p # r => partitions[p] \cap partitions[r] = {}
  BY <1>1 DEF BalanceInv, PairwiseApart
<1>4. \A i, j \in Items : s[i] = s[j] => i = j
  BY DEF IsInjective
<1>5. ASSUME NEW p \in 1 .. k
      PROVE  Of(p) # {} /\ Of(p) \subseteq ToSet(s)
  BY <1>2 DEF ToSet
<1>6. ASSUME NEW p \in 1 .. k, NEW r \in 1 .. k, NEW e, Has(p, e), Has(r, e)
      PROVE  p = r
  <2>1. PICK i \in partitions[p], j \in partitions[r] : s[i] = e /\ s[j] = e
    BY <1>6
  <2>2. i \in Items /\ j \in Items
    BY <1>2
  <2>3. i = j
    BY <1>4, <2>1, <2>2
  <2> QED BY <1>3, <2>3
<1>7. ASSUME NEW e \in ToSet(s) PROVE f[e] \in 1 .. k /\ Has(f[e], e)
  <2>1. PICK i \in Items : e = s[i]
    BY DEF ToSet
  <2>2. \E p \in 1 .. k : Has(p, e)
    BY <1>2, <2>1
  <2>3. f[e] = CHOOSE p \in 1 .. k : Has(p, e)
    OBVIOUS
  <2> HIDE DEF f, Has
  <2> QED BY <2>2, <2>3
<1>8. ASSUME NEW p \in 1 .. k PROVE {e \in ToSet(s) : f[e] = p} = Of(p)
  <2>1. ASSUME NEW e \in ToSet(s) PROVE f[e] = p <=> Has(p, e)
    <3> HIDE DEF f, Has
    <3> QED BY <1>6, <1>7
  <2> HIDE DEF f
  <2> QED BY <1>5, <2>1
<1>9. f \in Surjection(ToSet(s), 1 .. k)
  <2>1. f \in [ToSet(s) -> 1 .. k]
    <3>1. \A e \in ToSet(s) : (CHOOSE p \in 1 .. k : Has(p, e)) \in 1 .. k
      BY <1>7
    <3> HIDE DEF Has
    <3> QED BY <3>1
  <2>2. ASSUME NEW p \in 1 .. k PROVE \E e \in ToSet(s) : f[e] = p
    <3> HIDE DEF f, Of
    <3>1. PICK e : e \in Of(p)
      BY <1>5
    <3> QED BY <1>8, <3>1
  <2> HIDE DEF f
  <2> QED BY <2>1, <2>2 DEF Surjection
<1>10. AsReturned(s) = [p \in 1 .. k |-> Ascending({e \in ToSet(s) : f[e] = p})]
  <2> HIDE DEF f
  <2> QED BY <1>8 DEF AsReturned
<1> HIDE DEF f
<1> QED BY <1>9, <1>10 DEF OrderedPartitions

\* Whatever partitions get_seqlen_balanced_partitions returns, of the rows of any mini
\* batch, each in order as _check_and_sort_partitions leaves it: they are among the choices
\* that a rank has in ModelCalls, so that what is proved there of them all is true of them.
THEOREM ReturnedPartitionsAreChoices == BalanceSpec => []ChoicesOffered
<1>1. BalanceInv /\ IsTheLast => ChoicesOffered
  BY ReturnedIsOffered DEF ChoicesOffered
<1> QED BY <1>1, BalanceHolds, LastIsReturned, PTL

-----------------------------------------------------------------------------
(* The setting, the mini batches and the end of a call                         *)

\* What the rows and the setting determine stays with them.
LEMMA SameSetting ==
  ASSUME c' = c, rows' = rows, call' = call
  PROVE  /\ Configured' = Configured /\ Ranks' = Ranks /\ RowCount' = RowCount
         /\ ByFsdp' = ByFsdp /\ Dynamic' = Dynamic /\ Zero' = Zero /\ Gradients' = Gradients
         /\ Everything' = Everything /\ Number' = Number
         /\ RowShare' = RowShare /\ RankShare' = RankShare /\ MicroShare' = MicroShare
         /\ \A t : MiniAt(t)' = MiniAt(t) /\ RowsAt(t)' = RowsAt(t)
<1>1. Ranks' = Ranks /\ RowCount' = RowCount /\ ByFsdp' = ByFsdp /\ Dynamic' = Dynamic
  BY DEF Ranks, RowCount, ByFsdp, Dynamic
<1>2. Configured' = Configured
  BY DEF Configured, Accepts
<1>3. Zero' = Zero /\ Gradients' = Gradients /\ Everything' = Everything
  BY <1>1 DEF Zero, Gradients, Everything
<1>4. Number' = Number
  BY <1>3 DEF Number, Pieces
<1>5. RowShare' = RowShare /\ RankShare' = RankShare /\ MicroShare' = MicroShare
  BY DEF RowShare, RankShare, MicroShare
<1>6. ASSUME NEW t PROVE MiniAt(t)' = MiniAt(t) /\ RowsAt(t)' = RowsAt(t)
  BY <1>1, <1>3, <1>4 DEF MiniAt, RowsAt, Chop
<1> QED BY <1>1, <1>2, <1>3, <1>4, <1>5, <1>6

LEMMA SameSteps ==
  ASSUME c' = c, rows' = rows, call' = call, steps' = steps, StepsAreEven
  PROVE  StepsAreEven' /\ Mini' = Mini
<1>1. Ranks' = Ranks /\ Zero' = Zero /\ \A t : MiniAt(t)' = MiniAt(t) /\ RowsAt(t)' = RowsAt(t)
  BY SameSetting
<1>2. Everything' = Everything
  BY SameSetting
<1>3. Mini' = Mini
  BY <1>1, <1>2 DEF Mini
<1>4. ASSUME NEW t PROVE StepIsEven(t)' = StepIsEven(t)
  <2>1. TotalWeight(steps[t])' = TotalWeight(steps[t])
    BY <1>1 DEF TotalWeight
  <2>2. RowsAt(t)' = RowsAt(t)
    BY <1>1
  <2>3. \A d : Weighed(steps[t], d)' = Weighed(steps[t], d)
    BY DEF Weighed
  <2> QED BY <1>1, <2>1, <2>2, <2>3 DEF StepIsEven
<1> QED BY <1>1, <1>3, <1>4 DEF StepsAreEven

\* An action that only ends the call, and leaves alone what the invariant is about.
LEMMA EndedInv ==
  ASSUME ModelCallsAssumption, CallsInv, c' = c, rows' = rows, call' = call,
         micros' = micros, grads' = grads, steps' = steps,
         at \in {"minis", "passes"}, at' \in {"done", "raised"}, RaisesOnlyIfRowsDoNotFit'
  PROVE  CallsInv'
<1>1. Ranks' = Ranks /\ Configured' = Configured /\ Gradients' = Gradients
  BY SameSetting
<1>2. StepsAreEven'
  BY SameSteps DEF CallsInv
<1>3. Shapes'
  BY <1>1 DEF CallsInv, Shapes
<1>4. Settled'
  BY <1>1 DEF CallsInv, Settled
<1>5. Passing'
  BY DEF Passing
<1> QED BY <1>2, <1>3, <1>4, <1>5 DEF CallsInv

LEMMA InitCalls == ModelCallsAssumption /\ Init => CallsInv
<1> SUFFICES ASSUME ModelCallsAssumption, Init PROVE CallsInv
  OBVIOUS
<1>1. rows \in Batches /\ DOMAIN rows = 1 .. DataParallel(c) /\ c \in Settings
  BY DEF Init
<1>2. RowsAreDealt
  BY <1>1, DealtRows
<1>3. call \in Calls
  BY DEF Init, Calls
<1>4. Zero \in Gradients
  BY <1>2 DEF Zero, Gradients, RowsAreDealt
<1>5. Shapes
  BY <1>1, <1>3, <1>4 DEF Init, Shapes
<1>6. Len(rows) = DataParallel(c)
  <2>1. 1 .. DataParallel(c) = 1 .. Len(rows) /\ Len(rows) \in Nat \ {0}
    BY <1>1, <1>2 DEF RowsAreDealt, Ranks
  <2>2. rows \in Seq(Seq(Rows))
    BY <1>1 DEF ModelCallsAssumption
  <2>3. DataParallel(c) \in Int
    <3>1. c \in SettingType
      BY <1>1 DEF ModelCallsAssumption
    <3>2. c.world \in Nat \ {0} /\ c.ranks \in Nat \ {0} /\ c.tp \in Nat \ {0}
          /\ c.cp \in Nat \ {0} /\ c.pp \in Nat \ {0}
      BY <3>1 DEF SettingType
    <3>3. c.tp * c.cp * c.pp \in Nat \ {0}
      <4>1. ASSUME NEW x \in Nat \ {0}, NEW y \in Nat \ {0} PROVE x * y \in Nat \ {0}
        OBVIOUS
      <4> QED BY <3>2, <4>1
    <3>4. \A x \in Nat \ {0} : c.world \div x \in Int
      BY <3>2
    <3> QED BY <3>2, <3>3, <3>4 DEF DataParallel
  <2>4. ASSUME NEW x \in Int, NEW y \in Nat \ {0}, 1 .. x = 1 .. y PROVE x = y
    <3>1. y \in 1 .. x
      BY <2>4
    <3>2. x \in 1 .. y
      BY <2>4, <3>1
    <3> QED BY <3>1, <3>2
  <2> QED BY <2>1, <2>3, <2>4
<1>7. Settled
  BY <1>1, <1>6 DEF Init, Settled
<1>8. Passing
  BY DEF Init, Passing
<1>9. StepsAreEven
  BY DEF Init, StepsAreEven
<1>10. RaisesOnlyIfRowsDoNotFit
  BY DEF Init, RaisesOnlyIfRowsDoNotFit
<1> QED BY <1>5, <1>7, <1>8, <1>9, <1>10 DEF CallsInv

LEMMA ConfigureInv == ModelCallsAssumption /\ CallsInv /\ Configure => CallsInv'
<1> SUFFICES ASSUME ModelCallsAssumption, CallsInv, Configure PROVE CallsInv'
  OBVIOUS
<1>1. /\ at = "configure" /\ c' = Normalised(c) /\ rows' = rows /\ call' = call
      /\ micros' = micros /\ grads' = grads /\ steps' = steps /\ at' \in {"minis", "refused"}
  BY DEF Configure
<1>2. c \in Settings /\ Len(rows) = DataParallel(c) /\ steps = <<>>
      /\ \A d \in Ranks : micros[d] = NotSplit
  BY <1>1 DEF CallsInv, Settled
<1>3. Ranks' = Ranks /\ Gradients' = Gradients
  BY <1>1 DEF Ranks, Gradients, RowCount
<1>4. Shapes'
  BY <1>1, <1>3 DEF CallsInv, Shapes
<1>5. at' = "minis" => Configured'
  <2> SUFFICES ASSUME at' = "minis" PROVE Configured'
    OBVIOUS
  <2>1. DriverAccepts(c) /\ (ByFsdp => FsdpAccepts(Normalised(c)))
    BY DEF Configure
  <2>2. PICK s : s = c
    OBVIOUS
  <2>3. /\ c' = Normalised(s) /\ Len(rows') = DataParallel(s) /\ DriverAccepts(s)
        /\ (s.family = "fsdp" => FsdpAccepts(Normalised(s))) /\ s \in Settings
    BY <1>1, <1>2, <2>1, <2>2 DEF ByFsdp
  <2> QED BY <2>3 DEF Configured, Accepts
<1>6. Settled'
  BY <1>1, <1>2, <1>3, <1>5 DEF Settled, NotSplit
<1>7. Passing' /\ RaisesOnlyIfRowsDoNotFit'
  BY <1>1 DEF Passing, RaisesOnlyIfRowsDoNotFit
<1>8. StepsAreEven'
  BY <1>1, <1>2 DEF StepsAreEven
<1> QED BY <1>4, <1>6, <1>7, <1>8 DEF CallsInv

LEMMA SplitMinisInv == ModelCallsAssumption /\ CallsInv /\ SplitMinis => CallsInv'
<1> SUFFICES ASSUME ModelCallsAssumption, CallsInv, SplitMinis PROVE CallsInv'
  OBVIOUS
<1>1. /\ at = "minis" /\ c' = c /\ rows' = rows /\ call' = call
      /\ micros' = micros /\ grads' = grads /\ steps' = steps
  BY DEF SplitMinis
<1>2. /\ rows \in Batches /\ Configured /\ steps = <<>> /\ \A d \in Ranks : micros[d] = NotSplit
  BY <1>1 DEF CallsInv, Shapes, Settled
<1>3. RowsAreDealt /\ SettingIsSound
  BY <1>2, DealtRows, SoundSetting
<1>4. CASE IteratorRaises
  <2>1. at' = "raised" /\ ~ByFsdp /\ call \in Updates
    BY <1>4 DEF SplitMinis, IteratorRaises
  <2>2. ~ByFsdp' /\ call' \notin {"log_prob", "values"}
    BY <1>1, <2>1 DEF ByFsdp, Updates
  <2>3. RaisesOnlyIfRowsDoNotFit'
    BY <2>2 DEF RaisesOnlyIfRowsDoNotFit
  <2> QED BY <1>1, <2>1, <2>3, EndedInv
<1>5. CASE ~IteratorRaises
  <2>1. at' = "passes" /\ minis' = [d \in Ranks |-> MiniBatches(rows[d])]
    BY <1>5 DEF SplitMinis
  <2>2. /\ Ranks' = Ranks /\ RowCount' = RowCount /\ Configured' = Configured
        /\ Gradients' = Gradients /\ ByFsdp' = ByFsdp /\ Everything' = Everything /\ Number' = Number
        /\ \A t : MiniAt(t)' = MiniAt(t)
    BY <1>1, SameSetting
  <2>3. Shapes' /\ Settled'
    BY <1>1, <1>2, <2>1, <2>2 DEF CallsInv, Shapes, Settled, NotSplit
  <2>4. StepsAreEven' /\ RaisesOnlyIfRowsDoNotFit'
    BY <1>1, <2>1, SameSteps DEF CallsInv, RaisesOnlyIfRowsDoNotFit
  <2>5. MinisLeft'
    <3>1. CASE call \in Updates
      <4>1. c.mini \in Nat \ {0} /\ (~ByFsdp => RowCount % c.mini = 0)
        <5>1. c.mini \in Nat /\ (ByFsdp => c.mini > 0)
          BY <1>3 DEF SettingIsSound
        <5>2. ASSUME ~ByFsdp PROVE c.mini # 0 /\ RowCount % c.mini = 0
          <6>1. ~ (c.mini # 0 => \E d \in Ranks : Len(rows[d]) % c.mini # 0)
            BY <1>5, <3>1, <5>2 DEF IteratorRaises
          <6>2. 1 \in Ranks
            BY <1>3 DEF RowsAreDealt
          <6> QED BY <6>1, <6>2 DEF RowCount
        <5> QED BY <5>1, <5>2
      <4>2. ASSUME NEW d \in Ranks
            PROVE  /\ minis'[d] \in Seq(Seq(1 .. RowCount)) /\ minis'[d] # <<>>
                   /\ Len(minis'[d]) + Len(steps) = c.epochs * Number
                   /\ \A j \in DOMAIN minis'[d] : minis'[d][j] = MiniAt(Len(steps) + j)
        <5>1. c.epochs \in Nat \ {0}
          BY <1>3 DEF SettingIsSound
        <5>2. Number \in Nat \ {0}
          BY <1>3, <4>1, MiniShape, 1 \in Nat \ {0}
        <5>3. minis'[d] = MiniBatches(rows[d])
          BY <2>1
        <5>4. /\ minis'[d] \in Seq(Seq(1 .. RowCount)) /\ Len(minis'[d]) = c.epochs * Number
              /\ \A t \in 1 .. c.epochs * Number : minis'[d][t] = MiniAt(t)
          BY <1>3, <3>1, <4>1, <5>1, <5>3, MiniBatchesShape
        <5>5. c.epochs * Number \in Nat \ {0}
          BY <5>1, <5>2
        <5>6. Len(steps) = 0 /\ Len(<<>>) = 0
          BY <1>2
        <5>7. DOMAIN minis'[d] = 1 .. c.epochs * Number
          BY <5>4
        <5>8. \A j \in 1 .. c.epochs * Number : 0 + j = j
          BY <5>5
        <5> QED BY <5>4, <5>5, <5>6, <5>7, <5>8
      <4> QED BY <1>1, <2>2, <3>1, <4>1, <4>2 DEF MinisLeft
    <3>2. CASE call \notin Updates
      <4>1. \A d \in Ranks : minis'[d] = <<Everything>>
        BY <1>3, <2>1, <3>2, OneMiniBatch
      <4> QED BY <1>1, <2>2, <3>2, <4>1 DEF MinisLeft, Updates
    <3> QED BY <3>1, <3>2
  <2>6. \A d \in Ranks' : OnItsWay(d)'
    BY <1>1, <1>2, <2>2 DEF OnItsWay, NotSplit
  <2>7. Passing'
    BY <2>5, <2>6 DEF Passing
  <2> QED BY <2>3, <2>4, <2>7 DEF CallsInv
<1> QED BY <1>4, <1>5

\* What a rank that is making passes knows of its mini batch.
UnderWay ==
  /\ RowsAreDealt /\ SettingIsSound /\ Configured
  /\ Len(steps) + 1 \in Nat \ {0}
  /\ Mini \in Seq(1 .. RowCount) /\ Mini # <<>> /\ IsInjective(Mini)
  /\ call \in Updates => /\ c.mini \in Nat \ {0} /\ Len(Mini) \in 1 .. c.mini
                         /\ ~ByFsdp => Len(Mini) = c.mini
                         /\ ToSet(Mini) = RowsAt(Len(steps) + 1)
  /\ call \notin Updates => Len(Mini) = RowCount
  /\ \A d \in Ranks : minis[d] # <<>> /\ Head(minis[d]) = Mini

LEMMA InPasses ==
  ASSUME ModelCallsAssumption, CallsInv, at = "passes"
  PROVE  UnderWay
<1>1. rows \in Batches /\ Configured /\ MinisLeft /\ steps \in Seq(Gradients)
  BY DEF CallsInv, Shapes, Settled, Passing
<1>2. RowsAreDealt /\ SettingIsSound
  BY <1>1, DealtRows, SoundSetting
<1>3. Len(steps) + 1 \in Nat \ {0}
  BY <1>1
<1>4. CASE call \in Updates
  <2> DEFINE t == Len(steps) + 1
  <2>1. c.mini > 0 /\ c.mini \in Nat /\ (~ByFsdp => RowCount % c.mini = 0)
    BY <1>1, <1>2, <1>4 DEF MinisLeft, SettingIsSound
  <2>2. Mini = MiniAt(t)
    BY <1>4 DEF Mini
  <2>3. c.mini \in Nat \ {0} /\ t \in Nat \ {0}
    BY <1>3, <2>1
  <2> HIDE DEF t
  <2>4. /\ Mini \in Seq(1 .. RowCount) /\ Mini # <<>> /\ IsInjective(Mini)
        /\ Len(Mini) \in 1 .. c.mini
        /\ RowCount % c.mini = 0 => Len(Mini) = c.mini
        /\ ToSet(Mini) = RowsAt(t)
    BY <1>2, <2>2, <2>3, MiniShape
  <2>5. ASSUME NEW d \in Ranks PROVE minis[d] # <<>> /\ Head(minis[d]) = Mini
    <3>1. /\ minis[d] \in Seq(Seq(1 .. RowCount)) /\ minis[d] # <<>>
          /\ \A j \in DOMAIN minis[d] : minis[d][j] = MiniAt(Len(steps) + j)
      BY <1>1, <1>4 DEF MinisLeft
    <3>2. 1 \in DOMAIN minis[d] /\ Head(minis[d]) = minis[d][1]
      BY <3>1
    <3> QED BY <2>2, <3>1, <3>2 DEF t
  <2> QED BY <1>1, <1>2, <1>3, <1>4, <2>1, <2>3, <2>4, <2>5 DEF UnderWay, t
<1>5. CASE call \notin Updates
  <2>1. Mini = Everything /\ \A d \in Ranks : minis[d] = <<Everything>>
    BY <1>1, <1>5 DEF Mini, MinisLeft
  <2>2. ASSUME NEW d \in Ranks PROVE minis[d] # <<>> /\ Head(minis[d]) = Mini
    BY <2>1
  <2> QED BY <1>1, <1>2, <1>3, <1>5, <2>1, <2>2, EverythingShape DEF UnderWay
<1> QED BY <1>4, <1>5

LEMMA SplitFailsInv == ModelCallsAssumption /\ CallsInv /\ SplitFails => CallsInv'
<1> SUFFICES ASSUME ModelCallsAssumption, CallsInv, SplitFails PROVE CallsInv'
  OBVIOUS
<1>1. PICK d \in Ranks : minis[d] # <<>> /\ micros[d] = NotSplit /\ SplitRaises(d)
  BY DEF SplitFails
<1>2. /\ at = "passes" /\ at' = "raised" /\ c' = c /\ rows' = rows /\ call' = call
      /\ micros' = micros /\ grads' = grads /\ steps' = steps
  BY DEF SplitFails
<1>3. UnderWay
  BY <1>2, InPasses
<1>4. CASE Dynamic
  <2>1. ByFsdp /\ c.dynamic
    BY <1>4 DEF Dynamic
  <2>2. c.max_token_len * c.ranks < Width
    <3> SUFFICES ASSUME ~ (c.max_token_len * c.ranks < Width) PROVE FALSE
      OBVIOUS
    <3>1. Width \in Nat
      BY DEF ModelCallsAssumption
    <3>2. c.max_token_len * c.ranks \in Nat
      BY <1>3 DEF UnderWay, SettingIsSound
    <3>3. Width <= c.max_token_len * c.ranks
      BY <3>1, <3>2
    <3>4. RowsAreDealt /\ SettingIsSound /\ Mini \in Seq(1 .. RowCount)
          /\ \A e \in Ranks : minis[e] # <<>> /\ Head(minis[e]) = Mini
      BY <1>3 DEF UnderWay
    <3>5. AgreedNumber \in 0 .. Len(Mini)
      BY <3>1, <3>3, <3>4, AgreedFits
    <3>6. AgreedNumber > Len(Mini)
      BY <1>1, <1>4, <3>4 DEF SplitRaises
    <3>7. Len(Mini) \in Nat
      BY <3>4
    <3> QED BY <3>5, <3>6, <3>7
  <2>3. RaisesOnlyIfRowsDoNotFit'
    BY <1>2, <2>1, <2>2 DEF RaisesOnlyIfRowsDoNotFit, ByFsdp, Dynamic
  <2> QED BY <1>2, <2>3, EndedInv
<1>5. CASE ~Dynamic
  <2>1. ~ByFsdp /\ (c.micro # 0 => Len(Mini) % c.micro # 0)
    BY <1>1, <1>3, <1>5 DEF SplitRaises, UnderWay
  <2>2. ASSUME call \in {"log_prob", "values"}
        PROVE  c.micro = 0 \/ Len(rows[d]) % c.micro # 0
    <3>1. call \notin Updates
      BY <2>2 DEF Updates
    <3>2. Len(Mini) = RowCount /\ Len(rows[d]) = RowCount
      BY <1>3, <3>1 DEF UnderWay, RowsAreDealt
    <3> QED BY <2>1, <3>2
  <2>3. Ranks' = Ranks /\ ~ByFsdp'
    BY <1>2, <2>1 DEF Ranks, ByFsdp
  <2>4. RaisesOnlyIfRowsDoNotFit'
    BY <1>2, <2>2, <2>3 DEF RaisesOnlyIfRowsDoNotFit
  <2> QED BY <1>2, <2>4, EndedInv
<1> QED BY <1>4, <1>5

LEMMA ReturnInv == ModelCallsAssumption /\ CallsInv /\ Return => CallsInv'
<1> SUFFICES ASSUME ModelCallsAssumption, CallsInv, Return PROVE CallsInv'
  OBVIOUS
<1>1. /\ at = "passes" /\ at' \in {"done", "raised"} /\ c' = c /\ rows' = rows /\ call' = call
      /\ micros' = micros /\ grads' = grads /\ steps' = steps
      /\ at' = "raised" => call = "score" /\ ~ByFsdp
  BY DEF Return, AllPassed
<1>2. RaisesOnlyIfRowsDoNotFit'
  BY <1>1 DEF RaisesOnlyIfRowsDoNotFit, ByFsdp
<1> QED BY <1>1, <1>2, EndedInv

\* A pass of packed rows raises for a row that is too short, which is one of the rank's.
LEMMA PassRaisesForARow ==
  ASSUME UnderWay, NEW d \in Ranks, MicrosLeft(micros[d]), micros[d] # <<>>, PassRaises(Micro(d)),
         call \in {"log_prob", "values"}
  PROVE  ~ByFsdp /\ \E i \in DOMAIN rows[d] : Seqlen(rows[d][i]) < c.tp * c.cp
<1> DEFINE s == Head(micros[d])
           some == Micro(d)
           g == Input(some)
<1>1. s \in Seq(1 .. RowCount)
  BY DEF MicrosLeft
<1>2. some = [x \in DOMAIN s |-> rows[d][s[x]]]
  BY DEF Micro
<1>3. g.rows = some
  BY DEF Input, Grid
<1>4. PackRaises(c, g) /\ ~ByFsdp /\ c.tp \in Nat \ {0} /\ c.cp \in Nat \ {0}
  BY DEF PassRaises, UnderWay, SettingIsSound
<1> HIDE DEF s, g, some
<1>5. DOMAIN s = 1 .. Len(s) /\ Len(s) \in Nat
  BY <1>1
<1>6. ASSUME NEW x \in 1 .. Len(s)
      PROVE  /\ s[x] \in 1 .. RowCount /\ s[x] \in DOMAIN rows[d]
             /\ some[x] = rows[d][s[x]] /\ Seqlen(some[x]) \in Nat
  <2>1. s[x] \in 1 .. RowCount
    BY <1>1, <1>5, EntryOfSeq
  <2>2. DOMAIN rows[d] = 1 .. RowCount /\ Seqlen(rows[d][s[x]]) \in 1 .. Width
    BY <2>1 DEF UnderWay, RowsAreDealt
  <2>3. some[x] = rows[d][s[x]]
    BY <1>2, <1>5
  <2> QED BY <2>1, <2>2, <2>3
<1>7. Len(some) = Len(s)
  <2>1. \A x \in 1 .. Len(s) : rows[d][s[x]] \in Rows
    BY <1>6 DEF UnderWay, RowsAreDealt
  <2> QED BY <1>2, <1>5, <2>1
<1>8. PICK x \in 1 .. Len(g.rows) : Seqlen(g.rows[x]) < c.tp * c.cp
  <2>1. Len(g.rows) \in Nat /\ \A x \in 1 .. Len(g.rows) : Seqlen(g.rows[x]) \in Nat
    BY <1>3, <1>5, <1>6, <1>7
  <2> QED BY <1>4, <2>1, PackFits
<1>9. Seqlen(rows[d][s[x]]) < c.tp * c.cp /\ s[x] \in DOMAIN rows[d]
  BY <1>3, <1>6, <1>7, <1>8
<1> QED BY <1>4, <1>9

-----------------------------------------------------------------------------
(* The split into micro batches                                                *)

\* What is said of micro batches and weights goes by the setting and the mini batch alone.
LEMMA SameMini ==
  ASSUME c' = c, rows' = rows, call' = call, steps' = steps, StepsAreEven, NEW m, NEW g
  PROVE  MicrosLeft(m)' = MicrosLeft(m) /\ Weights(g, m)' = Weights(g, m)
<1>1. /\ RowCount' = RowCount /\ Dynamic' = Dynamic
      /\ RowShare' = RowShare /\ RankShare' = RankShare /\ MicroShare' = MicroShare
  BY SameSetting
<1>2. Mini' = Mini
  BY SameSteps
<1>3. FixedSize(m)' = FixedSize(m)
  BY <1>2 DEF FixedSize
<1>4. Remaining(m)' = Remaining(m)
  BY <1>1 DEF Remaining
<1> QED BY <1>1, <1>2, <1>3, <1>4 DEF MicrosLeft, Weights

\* A step that leaves the mini batches alone keeps them, and the rest of the invariant.
LEMMA SameMinis ==
  ASSUME ModelCallsAssumption, CallsInv, at = "passes", at' = "passes",
         c' = c, rows' = rows, call' = call, steps' = steps, minis' = minis,
         DOMAIN micros' = Ranks, grads' \in Gradients,
         \A d \in Ranks : \/ micros'[d] = micros[d] /\ grads'[d] = grads[d]
                          \/ /\ MicrosLeft(micros'[d])
                             /\ call \in Updates => Weights(grads'[d], micros'[d])
  PROVE  CallsInv'
<1>1. /\ Ranks' = Ranks /\ Configured' = Configured /\ Gradients' = Gradients
      /\ RowCount' = RowCount /\ ByFsdp' = ByFsdp /\ Everything' = Everything /\ Number' = Number
      /\ \A t : MiniAt(t)' = MiniAt(t)
  BY SameSetting
<1>2. Shapes'
  BY <1>1 DEF CallsInv, Shapes
<1>3. Settled'
  BY <1>1 DEF CallsInv, Settled
<1>4. StepsAreEven' /\ RaisesOnlyIfRowsDoNotFit'
  BY SameSteps DEF CallsInv, RaisesOnlyIfRowsDoNotFit
<1>5. MinisLeft'
  BY <1>1 DEF CallsInv, Passing, MinisLeft
<1>6. ASSUME NEW d \in Ranks PROVE OnItsWay(d)'
  <2>1. PICK m, g : m = micros'[d] /\ g = grads'[d]
    OBVIOUS
  <2>2. m = NotSplit \/ (MicrosLeft(m) /\ (call \in Updates => Weights(g, m)))
    <3>1. CASE micros'[d] = micros[d] /\ grads'[d] = grads[d]
      <4>1. OnItsWay(d)
        BY DEF CallsInv, Passing
      <4>2. micros[d] = m /\ grads[d] = g
        BY <2>1, <3>1
      <4> QED BY <4>1, <4>2 DEF OnItsWay
    <3>2. CASE ~ (micros'[d] = micros[d] /\ grads'[d] = grads[d])
      <4>1. /\ MicrosLeft(micros'[d])
            /\ call \in Updates => Weights(grads'[d], micros'[d])
        BY <3>2
      <4> QED BY <2>1, <4>1
    <3> QED BY <3>1, <3>2
  <2>3. m = NotSplit' \/ (MicrosLeft(m)' /\ (call' \in Updates' => Weights(g, m)'))
    <3>1. MicrosLeft(m)' = MicrosLeft(m) /\ Weights(g, m)' = Weights(g, m)
      BY SameMini DEF CallsInv
    <3> QED BY <2>2, <3>1 DEF NotSplit, Updates
  <2>4. CASE m = NotSplit'
    BY <2>1, <2>4 DEF OnItsWay
  <2>5. CASE MicrosLeft(m)' /\ (call' \in Updates' => Weights(g, m)')
    <3>1. (MicrosLeft(micros[d]))'
      BY <2>1, <2>5 DEF MicrosLeft, FixedSize
    <3>2. (call \in Updates => Weights(grads[d], micros[d]))'
      BY <2>1, <2>5 DEF Weights, Remaining
    <3> QED BY <3>1, <3>2 DEF OnItsWay
  <2> QED BY <2>3, <2>4, <2>5
<1>7. \A d \in Ranks' : OnItsWay(d)'
  BY <1>1, <1>6
<1>8. Passing'
  BY <1>5, <1>7 DEF Passing
<1> QED BY <1>2, <1>3, <1>4, <1>8 DEF CallsInv

\* A mini batch is so many micro batches.
LEMMA MicrosOfAMini ==
  ASSUME NEW m \in Nat \ {0}, NEW f \in Nat \ {0}, m % f = 0
  PROVE  m \div f \in Nat \ {0} /\ m = (m \div f) * f
<1> DEFINE q == m \div f
<1>1. q \in Nat /\ m = f * q + 0
  OBVIOUS
<1> HIDE DEF q
<1>2. q # 0
  <2>1. ASSUME q = 0 PROVE FALSE
    <3>1. f * q = 0
      BY <2>1
    <3> QED BY <1>1, <3>1
  <2> QED BY <2>1
<1>3. f * q = q * f /\ f * q \in Nat
  BY <1>1
<1> QED BY <1>1, <1>2, <1>3 DEF q

\* The micro batches of a fixed size that a rank splits its mini batch into.
LEMMA FixedSplit ==
  ASSUME UnderWay, c.micro > 0, c.micro \in Nat, ByFsdp => c.mini % c.micro = 0,
         ~ByFsdp => Len(Mini) % c.micro = 0
  PROVE  /\ Chop(Mini, c.micro) \in Seq(Seq(1 .. RowCount))
         /\ Separates(Chop(Mini, c.micro), Mini)
         /\ call \in Updates => /\ FixedSize(Chop(Mini, c.micro))
                                /\ c.mini \div c.micro \in Nat \ {0}
                                /\ Len(Chop(Mini, c.micro)) <= c.mini \div c.micro
<1> DEFINE f == c.micro
           parts == Chop(Mini, f)
<1>0. f \in Nat \ {0} /\ RowCount \in Nat
  BY DEF UnderWay, RowsAreDealt
<1>1. Mini \in Seq(1 .. RowCount) /\ Mini # <<>> /\ IsInjective(Mini)
  BY DEF UnderWay
<1> HIDE DEF f
<1>2. parts \in Seq(Seq(1 .. RowCount)) /\ Chopped(parts, Mini, f)
  BY <1>0, <1>1, ChopShape
<1>3. Separates(parts, Mini)
  BY <1>0, <1>1, ChopSeparates
<1>4. ASSUME call \in Updates
      PROVE  FixedSize(parts) /\ c.mini \div f \in Nat \ {0} /\ Len(parts) <= c.mini \div f
  <2> DEFINE m == c.mini
             q == m \div f
  <2>1. m \in Nat \ {0} /\ Len(Mini) \in 1 .. m /\ m % f = 0
    BY <1>4 DEF UnderWay, f
  <2> HIDE DEF m
  <2>2. q \in Nat \ {0} /\ m = q * f
    BY <1>0, <2>1, MicrosOfAMini
  <2> HIDE DEF q, parts
  <2>3. Len(parts) = Pieces(Mini, f) /\ DOMAIN parts = 1 .. Pieces(Mini, f)
    BY <1>2 DEF Chopped
  <2>4. Pieces(Mini, f) \in 0 .. q
    <3>1. q * f = f * q
      BY <1>0, <2>2
    <3>2. Len(Mini) \in Nat /\ Len(Mini) <= f * q
      BY <2>1, <2>2, <3>1
    <3> QED BY <1>0, <2>2, <3>2, FitsRoundedUp DEF Pieces
  <2>5. ASSUME NEW p \in DOMAIN parts
        PROVE  Len(parts[p]) <= f /\ (Len(Mini) = m => Len(parts[p]) = f)
    <3>1. p \in 1 .. Pieces(Mini, f)
      BY <2>3
    <3>2. Len(parts[p]) \in 1 .. f /\ (p * f <= Len(Mini) => Len(parts[p]) = f)
      BY <1>2, <3>1 DEF Chopped
    <3>3. p * f <= q * f
      <4>1. p \in Nat /\ p <= q
        BY <2>2, <2>4, <3>1
      <4> QED BY <1>0, <2>2, <4>1, Products
    <3> QED BY <1>0, <2>2, <3>2, <3>3
  <2>6. FixedSize(parts)
    <3>1. c.micro > 0 /\ c.mini % c.micro = 0
      BY <2>1 DEF f, m
    <3> QED BY <2>5, <3>1 DEF FixedSize, f, m
  <2>7. Len(parts) <= q
    BY <2>2, <2>3, <2>4
  <2> QED BY <2>2, <2>6, <2>7 DEF q, m
<1> QED BY <1>2, <1>3, <1>4 DEF f

\* A rank that has split has all of its mini batch before it, with no weights yet.
LEMMA SplitStarts ==
  ASSUME UnderWay, NEW d \in Ranks, NEW parts,
         parts \in Seq(Seq(1 .. RowCount)), Separates(parts, Mini), ModelCallsAssumption,
         call \in Updates /\ ~Dynamic => /\ FixedSize(parts)
                                         /\ c.mini \div c.micro \in Nat \ {0}
                                         /\ Len(parts) <= c.mini \div c.micro
  PROVE  MicrosLeft(parts) /\ (call \in Updates => Weights(Zero[d], parts))
<1>1. MicrosLeft(parts)
  BY DEF MicrosLeft, Separates
<1>2. RowCount \in Nat \ {0} /\ DOMAIN rows[d] = 1 .. RowCount /\ Len(rows) \in Nat \ {0}
  BY DEF UnderWay, RowsAreDealt
<1>3. Zero[d] = [i \in 1 .. RowCount |-> 0]
  BY <1>2 DEF Zero
<1>4. ToSet(Mini) \ Remaining(parts) = {}
  <2>1. ASSUME NEW i \in ToSet(Mini) PROVE i \in Remaining(parts)
    <3>1. i \in 1 .. RowCount
      <4>1. Mini \in Seq(1 .. RowCount)
        BY DEF UnderWay
      <4>2. PICK x \in DOMAIN Mini : i = Mini[x]
        BY DEF ToSet
      <4>3. Mini[x] \in 1 .. RowCount
        <5>1. ASSUME NEW s \in Seq(1 .. RowCount), NEW y \in DOMAIN s PROVE s[y] \in 1 .. RowCount
          BY EntryOfSeq
        <5> QED BY <4>1, <4>2, <5>1
      <4> QED BY <4>2, <4>3
    <3> QED BY <3>1 DEF Separates, Remaining
  <2> QED BY <2>1
<1>5. ASSUME call \in Updates, ~Dynamic
      PROVE  Sum(Zero[d], 1 .. RowCount) + Len(parts) * MicroShare <= RankShare
  <2> DEFINE q == c.mini \div c.micro
             n == Len(rows)
  <2>1. Sum(Zero[d], 1 .. RowCount) = 0
    <3>1. IsFiniteSet(1 .. RowCount) /\ Cardinality(1 .. RowCount) = RowCount
      BY <1>2, OneTo
    <3>2. Sum(Zero[d], 1 .. RowCount) = 0 * Cardinality(1 .. RowCount)
      BY <1>3, <3>1, 0 \in Int, SumConstant
    <3> QED BY <1>2, <3>1, <3>2
  <2>2. Len(parts) <= q /\ q \in Nat \ {0} /\ n \in Nat \ {0} /\ Unit \in Nat /\ Len(parts) \in Nat
    BY <1>2, <1>5 DEF ModelCallsAssumption
  <2>3. MicroShare = Unit \div (q * n) /\ RankShare = Unit \div n
    BY DEF MicroShare, RankShare
  <2> HIDE DEF q, n
  <2>4. /\ RankShare \in Nat /\ MicroShare \in Nat
        /\ q * MicroShare <= RankShare
    BY <2>2, <2>3, SharesFit
  <2>5. Len(parts) * MicroShare <= q * MicroShare /\ Len(parts) * MicroShare \in Nat
        /\ q * MicroShare \in Nat
    BY <2>2, <2>4, Products
  <2> QED BY <2>1, <2>4, <2>5
<1>6. ASSUME call \in Updates PROVE Weights(Zero[d], parts)
  <2>1. \A i \in 1 .. RowCount : Zero[d][i] = 0
    BY <1>3
  <2> QED BY <1>4, <1>5, <1>6, <2>1 DEF Weights
<1> QED BY <1>1, <1>6

LEMMA SplitInv == ModelCallsAssumption /\ CallsInv /\ (\E d \in Ranks : Split(d)) => CallsInv'
<1> SUFFICES ASSUME ModelCallsAssumption, CallsInv, NEW d \in Ranks, Split(d) PROVE CallsInv'
  OBVIOUS
<1>1. /\ at = "passes" /\ at' = "passes" /\ c' = c /\ rows' = rows /\ call' = call
      /\ minis' = minis /\ steps' = steps /\ ~SplitRaises(d) /\ grads' = [grads EXCEPT ![d] = Zero[d]]
  BY DEF Split
<1>2. UnderWay
  BY <1>1, InPasses
<1>3. RowsAreDealt /\ SettingIsSound /\ Mini \in Seq(1 .. RowCount)
      /\ \A e \in Ranks : minis[e] # <<>> /\ Head(minis[e]) = Mini
  BY <1>2 DEF UnderWay
<1>4. PICK parts \in IF Dynamic THEN OrderedPartitions(Mini, AgreedNumber) ELSE {Chop(Mini, c.micro)} :
        micros' = [micros EXCEPT ![d] = parts]
  BY <1>3 DEF Split
<1>5. /\ parts \in Seq(Seq(1 .. RowCount)) /\ Separates(parts, Mini)
      /\ call \in Updates /\ ~Dynamic => /\ FixedSize(parts)
                                         /\ c.mini \div c.micro \in Nat \ {0}
                                         /\ Len(parts) <= c.mini \div c.micro
  <2>1. CASE Dynamic
    <3>1. ~ (c.max_token_len * c.ranks < Width)
      BY <1>1, <2>1 DEF SplitRaises
    <3>2. Width \in Nat /\ c.max_token_len * c.ranks \in Nat
      <4>1. Width \in Nat
        BY DEF ModelCallsAssumption
      <4>2. c.max_token_len \in Nat /\ c.ranks \in Nat
        BY <1>3 DEF SettingIsSound
      <4> QED BY <4>1, <4>2
    <3>3. Width <= c.max_token_len * c.ranks
      BY <3>1, <3>2
    <3>4. AgreedNumber \in Nat
      <4>1. AgreedNumber \in 0 .. Len(Mini)
        BY <1>3, <3>2, <3>3, AgreedFits
      <4> QED BY <4>1
    <3>5. parts \in OrderedPartitions(Mini, AgreedNumber) /\ RowCount \in Nat
      BY <1>3, <1>4, <2>1 DEF RowsAreDealt
    <3>6. parts \in Seq(Seq(1 .. RowCount)) /\ Separates(parts, Mini)
      BY <1>3, <3>4, <3>5, PartitionsSeparate
    <3> QED BY <2>1, <3>6
  <2>2. CASE ~Dynamic
    <3>1. parts = Chop(Mini, c.micro)
      BY <1>4, <2>2
    <3>2. c.micro \in Nat
      BY <1>3 DEF SettingIsSound
    <3>3. ASSUME ByFsdp PROVE c.micro > 0 /\ c.mini % c.micro = 0
      BY <1>3, <2>2, <3>3 DEF SettingIsSound, Dynamic
    <3>4. ASSUME ~ByFsdp PROVE c.micro > 0 /\ Len(Mini) % c.micro = 0
      <4>1. ~ (c.micro # 0 => Len(Mini) % c.micro # 0)
        BY <1>1, <1>3, <2>2, <3>4 DEF SplitRaises
      <4> QED BY <3>2, <4>1
    <3> QED BY <1>2, <3>1, <3>2, <3>3, <3>4, FixedSplit
  <2> QED BY <2>1, <2>2
<1>6. MicrosLeft(parts) /\ (call \in Updates => Weights(Zero[d], parts))
  BY <1>2, <1>5, SplitStarts
<1>7. DOMAIN micros = Ranks /\ grads \in Gradients
  BY DEF CallsInv, Shapes
<1>8. Zero[d] \in [1 .. RowCount -> Nat]
  BY <1>3 DEF Zero, RowsAreDealt
<1>9. DOMAIN micros' = Ranks /\ grads' \in Gradients
  BY <1>1, <1>4, <1>7, <1>8 DEF Gradients
<1>10. ASSUME NEW e \in Ranks
       PROVE  \/ micros'[e] = micros[e] /\ grads'[e] = grads[e]
              \/ /\ MicrosLeft(micros'[e])
                 /\ call \in Updates => Weights(grads'[e], micros'[e])
  <2>1. CASE e = d
    <3>1. micros'[e] = parts /\ grads'[e] = Zero[d]
      BY <1>1, <1>4, <1>7, <2>1 DEF Gradients
    <3> QED BY <1>6, <3>1
  <2>2. CASE e # d
    BY <1>1, <1>4, <1>7, <2>2 DEF Gradients
  <2> QED BY <2>1, <2>2
<1> QED BY <1>1, <1>9, <1>10, SameMinis

-----------------------------------------------------------------------------
(* A pass over the next micro batch                                            *)

LEMMA TailOfMicros ==
  ASSUME NEW m, MicrosLeft(m), m # <<>>, RowCount \in Nat
  PROVE  /\ Head(m) \in Seq(1 .. RowCount) /\ Head(m) # <<>> /\ Len(Head(m)) \in Nat \ {0}
         /\ ToSet(Head(m)) \subseteq Remaining(m) /\ ToSet(Head(m)) \subseteq ToSet(Mini)
         /\ ToSet(Head(m)) \in SUBSET (1 .. RowCount)
         /\ Remaining(Tail(m)) = Remaining(m) \ ToSet(Head(m))
         /\ MicrosLeft(Tail(m))
         /\ Len(m) \in Nat /\ Len(Tail(m)) = Len(m) - 1
         /\ call \in Updates /\ ~Dynamic => /\ Len(Head(m)) <= c.micro
                                            /\ Len(Mini) = c.mini => Len(Head(m)) = c.micro
<1> DEFINE s == Head(m)
           z == Tail(m)
           T == Seq(1 .. RowCount)
<1>1. /\ m \in Seq(T)
      /\ \A p \in DOMAIN m : m[p] # <<>> /\ ToSet(m[p]) \subseteq ToSet(Mini)
      /\ \A p, r \in DOMAIN m : p # r => ToSet(m[p]) \cap ToSet(m[r]) = {}
      /\ call \in Updates /\ ~Dynamic => FixedSize(m)
  BY DEF MicrosLeft
<1>2. s = m[1] /\ 1 \in DOMAIN m /\ s \in T /\ s # <<>>
  BY <1>1
<1>3. Len(s) \in Nat \ {0} /\ ToSet(s) \in SUBSET (1 .. RowCount)
  <2>1. Len(s) \in Nat \ {0}
    BY <1>2
  <2>2. \A x \in DOMAIN s : s[x] \in 1 .. RowCount
    BY <1>2, EntryOfSeq
  <2> QED BY <2>1, <2>2 DEF ToSet
<1>4. /\ z \in Seq(T) /\ Len(z) = Len(m) - 1 /\ Len(m) \in Nat
      /\ \A p \in DOMAIN z : p + 1 \in DOMAIN m /\ p + 1 # 1 /\ z[p] = m[p + 1]
  <2> HIDE DEF T
  <2>1. z \in Seq(T) /\ Len(z) = Len(m) - 1 /\ Len(m) \in Nat \ {0}
    BY <1>1
  <2>2. DOMAIN z = 1 .. Len(m) - 1 /\ DOMAIN m = 1 .. Len(m)
    BY <1>1, <2>1
  <2>3. ASSUME NEW p \in DOMAIN z PROVE p + 1 \in DOMAIN m /\ p + 1 # 1 /\ z[p] = m[p + 1]
    <3>1. p + 1 \in DOMAIN m /\ p + 1 # 1
      BY <2>1, <2>2
    <3>2. z[p] = m[p + 1]
      BY <1>1, <2>2
    <3> QED BY <3>1, <3>2
  <2> QED BY <2>1, <2>3
<1> HIDE DEF s, z, T
<1>5. ToSet(s) \subseteq Remaining(m)
  BY <1>2, <1>3 DEF Remaining
<1>6. \A p \in DOMAIN z : z[p] # <<>> /\ ToSet(z[p]) \subseteq ToSet(Mini)
  BY <1>1, <1>4
<1>7. ASSUME NEW p \in DOMAIN z, NEW r \in DOMAIN z, p # r PROVE ToSet(z[p]) \cap ToSet(z[r]) = {}
  <2>1. p \in Int /\ r \in Int
    BY <1>4
  <2>2. p + 1 # r + 1
    BY <1>7, <2>1
  <2> QED BY <1>1, <1>4, <2>2
<1>8. call \in Updates /\ ~Dynamic => FixedSize(z)
  BY <1>1, <1>4 DEF FixedSize
<1>9. MicrosLeft(z)
  BY <1>4, <1>6, <1>7, <1>8 DEF MicrosLeft, T
<1>10. Remaining(z) = Remaining(m) \ ToSet(s)
  <2>1. ASSUME NEW i \in Remaining(z) PROVE i \in Remaining(m) /\ i \notin ToSet(s)
    <3>1. PICK p \in DOMAIN z : i \in ToSet(z[p])
      BY DEF Remaining
    <3>2. p + 1 \in DOMAIN m /\ p + 1 # 1 /\ i \in ToSet(m[p + 1])
      BY <1>4, <3>1
    <3>3. ToSet(m[p + 1]) \cap ToSet(m[1]) = {}
      BY <1>1, <1>2, <3>2
    <3> QED BY <1>2, <3>2, <3>3 DEF Remaining
  <2>2. ASSUME NEW i \in Remaining(m), i \notin ToSet(s) PROVE i \in Remaining(z)
    <3>1. PICK p \in DOMAIN m : i \in ToSet(m[p])
      BY DEF Remaining
    <3>2. p # 1
      BY <1>2, <2>2, <3>1
    <3>3. p - 1 \in DOMAIN z /\ (p - 1) + 1 = p
      <4>1. DOMAIN m = 1 .. Len(m) /\ DOMAIN z = 1 .. Len(m) - 1
        BY <1>1, <1>4
      <4> QED BY <1>4, <3>2, <4>1
    <3>4. i \in ToSet(z[p - 1])
      BY <1>4, <3>1, <3>3
    <3> QED BY <3>3, <3>4 DEF Remaining
  <2> QED BY <2>1, <2>2
<1>11. call \in Updates /\ ~Dynamic => Len(s) <= c.micro /\ (Len(Mini) = c.mini => Len(s) = c.micro)
  BY <1>1, <1>2 DEF FixedSize
<1>12. ToSet(s) \subseteq ToSet(Mini)
  BY <1>1, <1>2
<1> QED BY <1>2, <1>3, <1>4, <1>5, <1>9, <1>10, <1>11, <1>12 DEF s, z, T

\* What a row of a micro batch of n weighs: the same whatever n when all of them are full
\* or their number goes by their tokens; never nothing, and together no more than the
\* share of a micro batch.
LEMMA WeightOfARow ==
  ASSUME ModelCallsAssumption, UnderWay, call \in Updates, NEW d \in Ranks, NEW n \in Nat \ {0},
         ~Dynamic => /\ c.micro > 0 /\ c.mini % c.micro = 0 /\ n <= c.micro
                     /\ Len(Mini) = c.mini => n = c.micro
  PROVE  /\ RowWeight(d, n) \in Nat /\ RowWeight(d, n) > 0
         /\ Dynamic \/ Len(Mini) = c.mini => RowWeight(d, n) = RowShare
         /\ ~Dynamic => n * RowWeight(d, n) <= MicroShare
<1> DEFINE m == c.mini
           f == c.micro
           q == m \div f
           N == Len(rows)
           k1 == c.ranks
           w == RowWeight(d, n)
<1>1. /\ m \in Nat \ {0} /\ f \in Nat /\ N \in Nat \ {0} /\ k1 \in Nat \ {0} /\ Unit \in Nat
      /\ Cardinality(Ranks) = N /\ m * N <= Unit /\ Head(minis[d]) = Mini
      /\ ~ByFsdp => Len(Mini) = m
  BY DEF UnderWay, RowsAreDealt, SettingIsSound, ModelCallsAssumption
<1>2. RowShare = Unit \div (m * N) /\ MicroShare = Unit \div (q * N)
  BY DEF RowShare, MicroShare
<1>3. CASE Dynamic
  <2>1. ByFsdp
    BY <1>3 DEF Dynamic
  <2>2. w = (Unit * k1 * n) \div (m * n * (N * k1))
    BY <1>1, <1>3, <2>1 DEF RowWeight, GradScaler, LossScale, MeanOver
  <2> HIDE DEF m, N, k1, w
  <2>3. Unit * k1 * n = Unit * (k1 * n) /\ m * n * (N * k1) = (m * N) * (k1 * n)
    BY <1>1
  <2>4. m * N \in Nat \ {0} /\ k1 * n \in Nat \ {0}
    BY <1>1
  <2>5. (Unit * (k1 * n)) \div ((m * N) * (k1 * n)) = Unit \div (m * N)
    <3> DEFINE x == m * N
               y == k1 * n
    <3>1. x \in Nat \ {0} /\ y \in Nat \ {0}
      BY <2>4
    <3> HIDE DEF x, y
    <3>2. (Unit * y) \div (x * y) = Unit \div x
      BY <1>1, <3>1, CommonFactor
    <3> QED BY <3>2 DEF x, y
  <2>6. w = RowShare
    BY <1>2, <2>2, <2>3, <2>5
  <2>7. RowShare \in Nat /\ RowShare > 0
    BY <1>1, <1>2, <2>4, ShareIsPositive
  <2> QED BY <1>3, <2>6, <2>7 DEF w
<1>4. CASE ~Dynamic
  <2>0. f \in Nat \ {0} /\ m % f = 0 /\ n <= f /\ (Len(Mini) = m => n = f)
    BY <1>1, <1>4
  <2>1. q \in Nat \ {0} /\ m = q * f
    <3> HIDE DEF m, f
    <3> QED BY <1>1, <2>0, MicrosOfAMini
  <2>2. w = Unit \div ((q * N) * n) /\ (q * N) * n = n * (q * N)
    <3>1. CASE ByFsdp
      <4>1. w = (Unit * k1 * 1) \div (q * n * (N * k1))
        BY <1>1, <1>4, <3>1 DEF RowWeight, GradScaler, LossScale, MeanOver
      <4> HIDE DEF m, N, k1, w, f, q
      <4>2. Unit * k1 * 1 = Unit * k1 /\ q * n * (N * k1) = ((q * N) * n) * k1
        BY <1>1, <2>1
      <4>3. (q * N) * n \in Nat \ {0} /\ (q * N) * n = n * (q * N)
        <5>1. \A x, y \in Nat \ {0} : x * y \in Nat \ {0} /\ x * y = y * x
          OBVIOUS
        <5> QED BY <1>1, <2>1, <5>1
      <4>4. (Unit * k1) \div (((q * N) * n) * k1) = Unit \div ((q * N) * n)
        <5> DEFINE x == (q * N) * n
        <5>1. x \in Nat \ {0}
          BY <4>3
        <5> HIDE DEF x
        <5>2. (Unit * k1) \div (x * k1) = Unit \div x
          BY <1>1, <5>1, CommonFactor
        <5> QED BY <5>2 DEF x
      <4> QED BY <4>1, <4>2, <4>3, <4>4
    <3>2. CASE ~ByFsdp
      <4>1. w = (Unit * 1 * 1) \div (q * n * (N * 1))
        BY <1>1, <1>4, <3>2 DEF RowWeight, GradScaler, LossScale, MeanOver
      <4> HIDE DEF m, N, k1, w, f, q
      <4>2. Unit * 1 * 1 = Unit /\ q * n * (N * 1) = (q * N) * n /\ (q * N) * n = n * (q * N)
        BY <1>1, <2>1
      <4> QED BY <4>1, <4>2
    <3> QED BY <3>1, <3>2
  <2> HIDE DEF m, N, k1, w, f, q
  <2>3. q * N \in Nat \ {0} /\ n * (q * N) \in Nat \ {0}
    <3>1. \A x, y \in Nat \ {0} : x * y \in Nat \ {0}
      OBVIOUS
    <3> QED BY <1>1, <2>1, <3>1
  <2>4. n * (q * N) <= Unit
    <3>1. n * (q * N) <= f * (q * N) /\ n * (q * N) \in Nat /\ f * (q * N) \in Nat
      <4> DEFINE x == q * N
      <4>1. x \in Nat
        BY <2>3
      <4> HIDE DEF x
      <4>2. n * x <= f * x /\ n * x \in Nat /\ f * x \in Nat
        BY <2>0, <4>1, Products
      <4> QED BY <4>2 DEF x
    <3>2. f * (q * N) = (q * f) * N
      BY <1>1, <2>0, <2>1
    <3>3. f * (q * N) = m * N
      BY <2>1, <3>2
    <3>4. n * (q * N) <= m * N /\ n * (q * N) \in Int /\ m * N \in Int
      BY <3>1, <3>3
    <3>5. \A a, b \in Int : a <= b /\ b <= Unit => a <= Unit
      BY <1>1
    <3> QED BY <1>1, <3>4, <3>5
  <2>5. w \in Nat /\ w > 0 /\ n * w <= MicroShare
    <3> DEFINE x == q * N
    <3>1. x \in Nat \ {0} /\ n * x \in Nat \ {0} /\ n * x <= Unit
      BY <2>3, <2>4
    <3>2. w = Unit \div (n * x) /\ MicroShare = Unit \div x
      BY <1>2, <2>2
    <3> HIDE DEF x
    <3>3. n * (Unit \div (n * x)) <= Unit \div x
      BY <1>1, <3>1, SharesFit
    <3>4. Unit \div (n * x) \in Nat /\ Unit \div (n * x) > 0
      <4> DEFINE y == n * x
      <4>1. y \in Nat \ {0} /\ y <= Unit
        BY <3>1
      <4> HIDE DEF y
      <4>2. Unit \div y \in Nat /\ Unit \div y > 0
        BY <1>1, <4>1, ShareIsPositive
      <4> QED BY <4>2 DEF y
    <3> QED BY <3>2, <3>3, <3>4
  <2>6. ASSUME Len(Mini) = m PROVE w = RowShare
    <3>1. (q * N) * n = m * N
      <4>1. n = f
        BY <2>0, <2>6
      <4> QED BY <1>1, <2>0, <2>1, <4>1
    <3> QED BY <1>2, <2>2, <3>1
  <2> QED BY <1>4, <2>5, <2>6 DEF w, m
<1> QED BY <1>3, <1>4

\* A sequence has at most as many different entries as entries.
LEMMA EntriesAtMost ==
  ASSUME NEW n \in Nat, NEW s \in Seq(1 .. n)
  PROVE  IsFiniteSet(ToSet(s)) /\ Cardinality(ToSet(s)) \in Nat /\ Cardinality(ToSet(s)) <= Len(s)
<1> DEFINE S == 1 .. Len(s)
<1>1. Len(s) \in Nat /\ DOMAIN s = S
  OBVIOUS
<1>2. IsFiniteSet(S) /\ Cardinality(S) = Len(s)
  BY <1>1, OneTo
<1>3. s \in [S -> ToSet(s)]
  BY <1>1 DEF ToSet
<1>4. \A e \in ToSet(s) : \E x \in S : s[x] = e
  BY <1>1 DEF ToSet
<1>5. s \in Surjection(S, ToSet(s))
  BY <1>3, <1>4 DEF Surjection
<1>6. IsFiniteSet(ToSet(s)) /\ Cardinality(ToSet(s)) <= Cardinality(S)
  BY <1>2, <1>5, FS_Surjection
<1> QED BY <1>2, <1>6, FS_CardinalityType

\* The weights with w more for the rows of s.
Weighing(g, s, w) == [i \in 1 .. RowCount |-> IF i \in ToSet(s) THEN g[i] + w ELSE g[i]]

LEMMA WeighingAdds ==
  ASSUME RowCount \in Nat, NEW g \in [1 .. RowCount -> Nat], NEW s \in Seq(1 .. RowCount), NEW w \in Nat,
         ToSet(s) \in SUBSET (1 .. RowCount)
  PROVE  /\ Weighing(g, s, w) \in [1 .. RowCount -> Nat]
         /\ Sum(Weighing(g, s, w), 1 .. RowCount) <= Sum(g, 1 .. RowCount) + Len(s) * w
         /\ Sum(g, 1 .. RowCount) \in Nat /\ Sum(Weighing(g, s, w), 1 .. RowCount) \in Nat
<1> DEFINE D == 1 .. RowCount
           S == ToSet(s)
           h == Weighing(g, s, w)
           e == [i \in D |-> IF i \in S THEN w ELSE 0]
<1>1. h \in [D -> Nat] /\ \A i \in D : h[i] = g[i] + e[i] /\ g[i] \in Nat /\ e[i] \in Nat
  BY DEF Weighing
<1>2. IsFiniteSet(D) /\ IsFiniteSet(S) /\ Cardinality(S) \in Nat /\ Cardinality(S) <= Len(s)
  BY OneTo, EntriesAtMost
<1>3. S \in SUBSET D
  OBVIOUS
<1>4. \A i \in S : e[i] = w
  OBVIOUS
<1>5. \A i \in D \ S : e[i] = 0
  OBVIOUS
<1> HIDE DEF D, S, e, h
<1>6. Sum(h, D) = Sum(g, D) + Sum(e, D)
  <2>1. \A i \in D : g[i] \in Int /\ e[i] \in Int /\ h[i] = g[i] + e[i]
    BY <1>1
  <2> QED BY <1>2, <2>1, SumPlus
<1>7. Sum(e, D) = w * Cardinality(S)
  <2>1. IsFiniteSet(D \ S) /\ S \cap (D \ S) = {} /\ D = S \cup (D \ S)
    BY <1>2, <1>3, FS_Subset
  <2>2. Sum(e, S) = w * Cardinality(S)
    BY <1>2, <1>4, w \in Int, SumConstant
  <2>3. Sum(e, D \ S) = 0 * Cardinality(D \ S)
    BY <1>5, <2>1, 0 \in Int, SumConstant
  <2>4. Cardinality(D \ S) \in Nat
    BY <2>1, FS_CardinalityType
  <2>5. \A i \in S \cup (D \ S) : e[i] \in Int
    BY <1>1, <2>1
  <2>6. Sum(e, S \cup (D \ S)) = Sum(e, S) + Sum(e, D \ S)
    BY <1>2, <2>1, <2>5, SumUnion
  <2>7. w * Cardinality(S) \in Nat
    BY <1>2
  <2>8. Sum(e, D \ S) = 0
    BY <2>3, <2>4
  <2>9. Sum(e, D) = w * Cardinality(S) + 0
    BY <2>1, <2>2, <2>6, <2>8
  <2> QED BY <2>7, <2>9
<1>8. Sum(g, D) \in Nat /\ Sum(h, D) \in Nat
  BY <1>1, <1>2, SumOfNaturals
<1>9. Cardinality(S) * w <= Len(s) * w /\ Cardinality(S) * w \in Nat /\ Len(s) * w \in Nat
  <2>1. Len(s) \in Nat
    OBVIOUS
  <2> QED BY <1>2, <2>1, Products
<1>10. w * Cardinality(S) = Cardinality(S) * w
  BY <1>2
<1>11. Sum(h, D) <= Sum(g, D) + Len(s) * w
  BY <1>6, <1>7, <1>8, <1>9, <1>10
<1> QED BY <1>1, <1>8, <1>11 DEF D, h

\* A pass gives the rows of the next micro batch their weight.
LEMMA WeightsAfterPass ==
  ASSUME ModelCallsAssumption, UnderWay, call \in Updates,
         NEW m, MicrosLeft(m), m # <<>>, NEW g \in [1 .. RowCount -> Nat], Weights(g, m),
         NEW w \in Nat, w > 0, Dynamic \/ Len(Mini) = c.mini => w = RowShare,
         ~Dynamic => Len(Head(m)) * w <= MicroShare
  PROVE  Weights(Weighing(g, Head(m), w), Tail(m))
<1> DEFINE s == Head(m)
           z == Tail(m)
           h == Weighing(g, s, w)
<1>1. RowCount \in Nat
  BY DEF UnderWay, RowsAreDealt
<1>2. /\ s \in Seq(1 .. RowCount) /\ Len(s) \in Nat
      /\ ToSet(s) \subseteq Remaining(m) /\ ToSet(s) \subseteq ToSet(Mini)
      /\ ToSet(s) \in SUBSET (1 .. RowCount)
      /\ Remaining(z) = Remaining(m) \ ToSet(s) /\ Len(m) \in Nat /\ Len(z) = Len(m) - 1
  BY <1>1, TailOfMicros
<1> HIDE DEF s, z
<1>3. /\ h \in [1 .. RowCount -> Nat]
      /\ Sum(h, 1 .. RowCount) <= Sum(g, 1 .. RowCount) + Len(s) * w
      /\ Sum(g, 1 .. RowCount) \in Nat /\ Sum(h, 1 .. RowCount) \in Nat
  BY <1>1, <1>2, WeighingAdds
<1>4. ASSUME NEW i \in 1 .. RowCount
      PROVE  IF i \in ToSet(Mini) \ Remaining(z)
             THEN h[i] > 0 /\ (Dynamic \/ Len(Mini) = c.mini => h[i] = RowShare)
             ELSE h[i] = 0
  <2>1. /\ h[i] = IF i \in ToSet(s) THEN g[i] + w ELSE g[i]
        /\ IF i \in ToSet(Mini) \ Remaining(m)
           THEN g[i] > 0 /\ (Dynamic \/ Len(Mini) = c.mini => g[i] = RowShare)
           ELSE g[i] = 0
    BY DEF Weighing, Weights
  <2>2. CASE i \in ToSet(s)
    <3>1. h[i] = w /\ i \in ToSet(Mini) \ Remaining(z)
      <4>1. g[i] = 0
        BY <1>2, <2>1, <2>2
      <4>2. h[i] = g[i] + w
        BY <2>1, <2>2
      <4>3. h[i] = w
        BY ONLY <4>1, <4>2, w \in Nat
      <4> QED BY <1>2, <2>2, <4>3
    <3> QED BY <3>1
  <2>3. CASE i \notin ToSet(s)
    <3>1. h[i] = g[i] /\ (i \in Remaining(z) <=> i \in Remaining(m))
      BY <1>2, <2>1, <2>3
    <3> QED BY <2>1, <3>1
  <2> QED BY <2>2, <2>3
<1>5. ASSUME ~Dynamic
      PROVE  Sum(h, 1 .. RowCount) + Len(z) * MicroShare <= RankShare
  <2>1. Sum(g, 1 .. RowCount) + Len(m) * MicroShare <= RankShare
    BY <1>5 DEF Weights
  <2>2. MicroShare \in Nat /\ RankShare \in Nat
    <3> DEFINE q == c.mini \div c.micro
               N == Len(rows)
    <3>1. q \in Nat \ {0} /\ N \in Nat \ {0} /\ Unit \in Nat
      <4>1. c.micro > 0 /\ c.mini % c.micro = 0 /\ c.micro \in Nat /\ c.mini \in Nat \ {0}
        BY <1>5 DEF MicrosLeft, FixedSize, UnderWay, SettingIsSound
      <4>2. q \in Nat \ {0}
        BY <4>1, MicrosOfAMini, SMTT(30)
      <4> QED BY <4>2 DEF UnderWay, RowsAreDealt, ModelCallsAssumption
    <3>2. MicroShare = Unit \div (q * N) /\ RankShare = Unit \div N
      BY DEF MicroShare, RankShare
    <3> HIDE DEF q, N
    <3> QED BY <3>1, <3>2, SharesFit
  <2>3. Len(s) * w <= MicroShare /\ Len(s) * w \in Nat
    BY <1>2, <1>5 DEF s
  <2>4. Len(m) * MicroShare = Len(z) * MicroShare + MicroShare /\ Len(z) * MicroShare \in Int
    <3>1. \A x, y \in Int : x * y = (x - 1) * y + y /\ (x - 1) * y \in Int
      OBVIOUS
    <3> QED BY <1>2, <2>2, <3>1
  <2> HIDE DEF h
  <2> QED BY <1>3, <2>1, <2>2, <2>3, <2>4, SMTT(30)
<1>6. Weights(h, z)
  BY <1>4, <1>5 DEF Weights
<1> QED BY <1>6 DEF h, s, z

LEMMA PassInv ==
  ASSUME ModelCallsAssumption, CallsInv, NEW D \in SUBSET Ranks, Pass(D)
  PROVE  CallsInv'
<1>1. /\ at = "passes" /\ c' = c /\ rows' = rows /\ call' = call /\ minis' = minis /\ steps' = steps
      /\ \A d \in D : micros[d] # NotSplit /\ micros[d] # <<>>
  BY DEF Pass
<1>2. UnderWay
  BY <1>1, InPasses
<1>3. RowsAreDealt /\ RowCount \in Nat
  BY <1>2 DEF UnderWay, RowsAreDealt
<1>4. \A d \in D : MicrosLeft(micros[d]) /\ (call \in Updates => Weights(grads[d], micros[d]))
  BY <1>1 DEF CallsInv, Passing, OnItsWay
<1>5. CASE \E d \in D : PassRaises(Micro(d))
  <2>1. PICK d \in D : PassRaises(Micro(d))
    BY <1>5
  <2>2. at' = "raised" /\ micros' = micros /\ grads' = grads
    BY <1>5 DEF Pass
  <2>3. ~ByFsdp
    BY <1>2, <2>1 DEF PassRaises, UnderWay, SettingIsSound
  <2>4. ASSUME call \in {"log_prob", "values"}
        PROVE  \E i \in DOMAIN rows[d] : Seqlen(rows[d][i]) < c.tp * c.cp
    BY <1>1, <1>2, <1>4, <2>1, <2>4, PassRaisesForARow
  <2>5. Ranks' = Ranks /\ ~ByFsdp'
    BY <1>1, <2>3 DEF Ranks, ByFsdp
  <2>6. RaisesOnlyIfRowsDoNotFit'
    BY <1>1, <2>4, <2>5 DEF RaisesOnlyIfRowsDoNotFit
  <2> QED BY <1>1, <2>2, <2>6, EndedInv
<1>6. CASE ~ \E d \in D : PassRaises(Micro(d))
  <2>1. /\ at' = "passes"
        /\ micros' = [d \in Ranks |-> IF d \in D THEN Tail(micros[d]) ELSE micros[d]]
        /\ grads' = [d \in Ranks |-> [i \in DOMAIN rows[d] |->
               IF d \in D /\ call \in Updates /\ i \in ToSet(Head(micros[d]))
               THEN grads[d][i] + RowWeight(d, Len(Head(micros[d]))) ELSE grads[d][i]]]
    BY <1>1, <1>6 DEF Pass
  <2>2. grads \in Gradients
    BY DEF CallsInv, Shapes
  <2>3. ASSUME NEW d \in Ranks, ~ (d \in D /\ call \in Updates) PROVE grads'[d] = grads[d]
    <3>1. DOMAIN rows[d] = 1 .. RowCount /\ grads[d] \in [1 .. RowCount -> Nat]
      BY <1>3, <2>2 DEF RowsAreDealt, Gradients
    <3>2. grads'[d] = [i \in 1 .. RowCount |-> grads[d][i]]
      BY <2>1, <2>3, <3>1
    <3> QED BY <3>1, <3>2
  <2>4. ASSUME NEW d \in D, call \in Updates
        PROVE  /\ grads'[d] \in [1 .. RowCount -> Nat]
               /\ Weights(grads'[d], Tail(micros[d]))
    <3> DEFINE m == micros[d]
               g == grads[d]
               s == Head(m)
               w == RowWeight(d, Len(s))
    <3>1. DOMAIN rows[d] = 1 .. RowCount /\ g \in [1 .. RowCount -> Nat] /\ d \in Ranks
      BY <1>3, <2>2 DEF RowsAreDealt, Gradients
    <3>2. grads'[d] = Weighing(g, s, w)
      BY <2>1, <2>4, <3>1 DEF Weighing
    <3>3. MicrosLeft(m) /\ m # <<>> /\ Weights(g, m)
      BY <1>1, <1>4, <2>4
    <3> HIDE DEF m, g
    <3>4. /\ s \in Seq(1 .. RowCount) /\ Len(s) \in Nat \ {0} /\ ToSet(s) \in SUBSET (1 .. RowCount)
          /\ ~Dynamic => Len(s) <= c.micro /\ (Len(Mini) = c.mini => Len(s) = c.micro)
      BY <1>3, <2>4, <3>3, TailOfMicros
    <3> HIDE DEF s
    <3>5. ~Dynamic => c.micro > 0 /\ c.mini % c.micro = 0
      BY <2>4, <3>3 DEF MicrosLeft, FixedSize
    <3>6. /\ w \in Nat /\ w > 0
          /\ Dynamic \/ Len(Mini) = c.mini => w = RowShare
          /\ ~Dynamic => Len(s) * w <= MicroShare
      BY <1>2, <2>4, <3>1, <3>4, <3>5, WeightOfARow
    <3> HIDE DEF w
    <3>7. Weighing(g, s, w) \in [1 .. RowCount -> Nat]
      BY <1>3, <3>1, <3>4, <3>6, WeighingAdds
    <3>8. Weights(Weighing(g, Head(m), w), Tail(m))
      BY <1>2, <2>4, <3>1, <3>3, <3>6, WeightsAfterPass DEF s
    <3> QED BY <3>2, <3>7, <3>8 DEF s, m
  <2>5. grads' \in Gradients
    <3>1. \A d \in Ranks : grads'[d] \in [1 .. RowCount -> Nat]
      BY <2>2, <2>3, <2>4 DEF Gradients
    <3>2. grads' = [d \in Ranks |-> grads'[d]]
      BY <2>1
    <3> QED BY <3>1, <3>2 DEF Gradients
  <2>6. DOMAIN micros' = Ranks
    BY <2>1
  <2>7. ASSUME NEW d \in Ranks
        PROVE  \/ micros'[d] = micros[d] /\ grads'[d] = grads[d]
               \/ /\ MicrosLeft(micros'[d])
                  /\ call \in Updates => Weights(grads'[d], micros'[d])
    <3>1. CASE d \in D
      <4>1. micros'[d] = Tail(micros[d])
        BY <2>1, <3>1
      <4>2. MicrosLeft(Tail(micros[d]))
        BY <1>1, <1>3, <1>4, <3>1, TailOfMicros
      <4> QED BY <2>4, <3>1, <4>1, <4>2
    <3>2. CASE d \notin D
      BY <2>1, <2>3, <3>2
    <3> QED BY <3>1, <3>2
  <2> QED BY <1>1, <2>1, <2>5, <2>6, <2>7, SameMinis
<1> QED BY <1>5, <1>6

LEMMA PassesInv == ModelCallsAssumption /\ CallsInv /\ (PassTogether \/ PassAlone) => CallsInv'
<1> SUFFICES ASSUME ModelCallsAssumption, CallsInv, PassTogether \/ PassAlone PROVE CallsInv'
  OBVIOUS
<1>1. \E D \in SUBSET Ranks : Pass(D)
  BY DEF PassTogether, PassAlone
<1> QED BY <1>1, PassInv

-----------------------------------------------------------------------------
(* The optimizer's step                                                        *)

\* What an optimizer step with the weights G has to do with the rows of step t.
EvenWeights(G, t) ==
  /\ TotalWeight(G) <= Unit
  /\ \A d \in Ranks :
       /\ Weighed(G, d) = RowsAt(t)
       /\ Cardinality(RowsAt(t)) = c.mini =>
            \A i \in RowsAt(t) : G[d][i] = Unit \div (c.mini * Cardinality(Ranks))

\* All weights of a rank's mini batch are at most its share.
LEMMA RankWeight ==
  ASSUME ModelCallsAssumption, UnderWay, call \in Updates,
         NEW g \in [1 .. RowCount -> Nat], MicrosLeft(<<>>), Weights(g, <<>>)
  PROVE  Sum(g, 1 .. RowCount) \in Nat /\ Sum(g, 1 .. RowCount) <= RankShare
<1> DEFINE D == 1 .. RowCount
           S == ToSet(Mini)
           m == c.mini
           N == Len(rows)
<1>1. /\ RowCount \in Nat /\ Mini \in Seq(D) /\ Len(Mini) \in 1 .. m /\ m \in Nat \ {0}
      /\ N \in Nat \ {0} /\ Unit \in Nat
  BY DEF UnderWay, RowsAreDealt, ModelCallsAssumption
<1>2. IsFiniteSet(D) /\ IsFiniteSet(S) /\ Cardinality(S) \in Nat /\ Cardinality(S) <= Len(Mini)
  BY <1>1, OneTo, EntriesAtMost
<1>3. Sum(g, D) \in Nat
  BY <1>2, SumOfNaturals
<1>4. CASE Dynamic
  <2>1. Remaining(<<>>) = {}
    BY DEF Remaining
  <2>2. \A i \in D : g[i] \in Nat /\ IF i \in S THEN g[i] = RowShare ELSE g[i] = 0
    BY <1>4, <2>1 DEF Weights
  <2>3. S \in SUBSET D
    <3>1. \A x \in DOMAIN Mini : Mini[x] \in D
      <4>1. ASSUME NEW s \in Seq(D), NEW x \in DOMAIN s PROVE s[x] \in D
        BY EntryOfSeq
      <4> QED BY <1>1, <4>1
    <3> QED BY <3>1 DEF ToSet
  <2>4. RowShare = Unit \div (m * N) /\ RankShare = Unit \div N
    BY DEF RowShare, RankShare
  <2> HIDE DEF D, S, m, N
  <2>5. RowShare \in Nat /\ RankShare \in Nat /\ m * RowShare <= RankShare
    BY <1>1, <2>4, SharesFit
  <2>6. IsFiniteSet(D \ S) /\ S \cap (D \ S) = {} /\ D = S \cup (D \ S) /\ Cardinality(D \ S) \in Nat
    BY <1>2, <2>3, FS_Subset, FS_CardinalityType
  <2>7. Sum(g, S) = RowShare * Cardinality(S)
    <3>1. \A i \in S : g[i] = RowShare
      BY <2>2, <2>3
    <3> QED BY <1>2, <2>5, <3>1, RowShare \in Int, SumConstant
  <2>8. Sum(g, D \ S) = 0
    <3>1. \A i \in D \ S : g[i] = 0
      BY <2>2
    <3>2. Sum(g, D \ S) = 0 * Cardinality(D \ S)
      BY <2>6, <3>1, 0 \in Int, SumConstant
    <3> QED BY <2>6, <3>2
  <2>9. Sum(g, D) = Sum(g, S) + Sum(g, D \ S)
    <3>1. \A i \in S \cup (D \ S) : g[i] \in Int
      BY <2>2, <2>6
    <3>2. Sum(g, S \cup (D \ S)) = Sum(g, S) + Sum(g, D \ S)
      BY <1>2, <2>6, <3>1, SumUnion
    <3> QED BY <2>6, <3>2
  <2>10. Cardinality(S) * RowShare <= m * RowShare /\ Cardinality(S) * RowShare \in Nat
         /\ m * RowShare \in Nat
    <3>1. Cardinality(S) <= m
      BY <1>1, <1>2
    <3> QED BY <1>1, <1>2, <2>5, <3>1, Products
  <2>11. RowShare * Cardinality(S) = Cardinality(S) * RowShare
    BY <1>2, <2>5
  <2>12. Sum(g, D) = Cardinality(S) * RowShare
    BY <2>7, <2>8, <2>9, <2>10, <2>11
  <2>13. Sum(g, D) <= RankShare
    BY <2>5, <2>10, <2>12
  <2> QED BY <1>3, <2>13 DEF D
<1>5. CASE ~Dynamic
  <2>1. Sum(g, D) + Len(<<>>) * MicroShare <= RankShare
    BY <1>5 DEF Weights
  <2>2. MicroShare \in Nat /\ RankShare \in Nat
    <3> DEFINE q == m \div c.micro
    <3>1. q \in Nat \ {0}
      <4>1. c.micro > 0 /\ m % c.micro = 0 /\ c.micro \in Nat
        BY <1>5 DEF MicrosLeft, FixedSize, UnderWay, SettingIsSound
      <4> QED BY <1>1, <4>1, MicrosOfAMini
    <3>2. MicroShare = Unit \div (q * N) /\ RankShare = Unit \div N
      BY DEF MicroShare, RankShare
    <3> HIDE DEF q, N
    <3> QED BY <1>1, <3>1, <3>2, SharesFit
  <2>3. Len(<<>>) * MicroShare = 0
    <3>1. Len(<<>>) = 0
      OBVIOUS
    <3> QED BY <2>2, <3>1
  <2> HIDE DEF D
  <2> QED BY <1>3, <2>1, <2>2, <2>3 DEF D
<1> QED BY <1>4, <1>5

LEMMA StepWeighsEvenly ==
  ASSUME ModelCallsAssumption, UnderWay, call \in Updates, NEW G \in Gradients,
         MicrosLeft(<<>>), \A d \in Ranks : Weights(G[d], <<>>)
  PROVE  EvenWeights(G, Len(steps) + 1)
<1> DEFINE t == Len(steps) + 1
           N == Len(rows)
           S == RowsAt(t)
           m == c.mini
<1>1. /\ RowCount \in Nat /\ Mini \in Seq(1 .. RowCount) /\ Len(Mini) \in 1 .. m /\ m \in Nat \ {0}
      /\ N \in Nat \ {0} /\ Unit \in Nat /\ IsFiniteSet(Ranks) /\ Cardinality(Ranks) = N
      /\ ToSet(Mini) = S
  BY DEF UnderWay, RowsAreDealt, ModelCallsAssumption
<1>2. \A d \in Ranks : G[d] \in [1 .. RowCount -> Nat]
  BY DEF Gradients
<1>3. TotalWeight(G) <= Unit
  <2> DEFINE all == [d \in Ranks |-> SumFunction(G[d])]
  <2>1. \A d \in Ranks : all[d] \in Nat /\ all[d] <= RankShare
    <3>1. ASSUME NEW d \in Ranks PROVE all[d] \in Nat /\ all[d] <= RankShare
      <4>1. Sum(G[d], 1 .. RowCount) \in Nat /\ Sum(G[d], 1 .. RowCount) <= RankShare
        BY <1>2, RankWeight
      <4>2. SumFunction(G[d]) = Sum(G[d], 1 .. RowCount)
        <5>1. DOMAIN G[d] = 1 .. RowCount
          BY <1>2
        <5> QED BY <5>1 DEF SumFunction, Sum
      <4> QED BY <4>1, <4>2
    <3> QED BY <3>1
  <2>2. TotalWeight(G) = Sum(all, Ranks)
    BY DEF TotalWeight, SumFunction, Sum
  <2>3. RankShare \in Nat /\ N * RankShare <= Unit
    <3>1. RankShare = Unit \div N
      BY DEF RankShare
    <3> HIDE DEF N
    <3> QED BY <1>1, <3>1, SharesFit, 1 \in Nat \ {0}
  <2> HIDE DEF all, N
  <2>4. Sum(all, Ranks) <= RankShare * Cardinality(Ranks)
    <3>1. \A d \in Ranks : all[d] \in Int /\ all[d] <= RankShare
      BY <2>1
    <3> QED BY <1>1, <2>3, <3>1, RankShare \in Int, SumAtMost
  <2>5. Sum(all, Ranks) \in Nat
    BY <1>1, <2>1, SumOfNaturals
  <2>6. RankShare * N = N * RankShare /\ N * RankShare \in Nat
    BY <1>1, <2>3
  <2> QED BY <1>1, <2>2, <2>3, <2>4, <2>5, <2>6
<1>4. ASSUME NEW d \in Ranks
      PROVE  /\ Weighed(G, d) = S
             /\ Cardinality(S) = m => \A i \in S : G[d][i] = Unit \div (m * Cardinality(Ranks))
  <2>1. Remaining(<<>>) = {}
    BY DEF Remaining
  <2>2. \A i \in 1 .. RowCount :
          IF i \in S THEN G[d][i] > 0 /\ (Len(Mini) = m => G[d][i] = RowShare)
          ELSE G[d][i] = 0
    BY <1>1, <2>1 DEF Weights
  <2>3. S \in SUBSET (1 .. RowCount)
    BY DEF RowsAt
  <2>4. DOMAIN G[d] = 1 .. RowCount
    BY <1>2
  <2> HIDE DEF S
  <2>5. Weighed(G, d) = S
    <3>1. \A i \in 1 .. RowCount : G[d][i] # 0 <=> i \in S
      <4>1. \A i \in 1 .. RowCount : G[d][i] \in Nat
        BY <1>2
      <4> QED BY <2>2, <4>1
    <3> QED BY <2>3, <2>4, <3>1 DEF Weighed
  <2>6. ASSUME Cardinality(S) = m, NEW i \in S PROVE G[d][i] = Unit \div (m * Cardinality(Ranks))
    <3>1. Cardinality(S) <= Len(Mini)
      BY <1>1, EntriesAtMost
    <3>2. Len(Mini) = m
      BY <1>1, <2>6, <3>1
    <3>3. G[d][i] = RowShare
      BY <2>2, <2>3, <3>2
    <3> QED BY <1>1, <3>3 DEF RowShare
  <2> QED BY <2>5, <2>6
<1> QED BY <1>3, <1>4 DEF EvenWeights

\* After a mini batch the next one follows, whatever its step was, if that weighs the rows
\* evenly or not at all.
LEMMA AfterMiniInv ==
  ASSUME ModelCallsAssumption, CallsInv, AllPassed, call \in Updates, AfterMini,
         grads' \in Gradients, NEW G \in Gradients, steps' = Append(steps, G),
         G = Zero \/ EvenWeights(G, Len(steps) + 1)
  PROVE  CallsInv'
<1>1. /\ at = "passes" /\ c' = c /\ rows' = rows /\ call' = call
      /\ minis' = [d \in Ranks |-> Tail(minis[d])] /\ micros' = [d \in Ranks |-> NotSplit]
      /\ at' = IF \A d \in Ranks : Len(minis[d]) = 1 THEN "done" ELSE "passes"
  BY DEF AllPassed, AfterMini
<1>2. /\ Ranks' = Ranks /\ Configured' = Configured /\ Gradients' = Gradients /\ Zero' = Zero
      /\ RowCount' = RowCount /\ ByFsdp' = ByFsdp /\ Everything' = Everything /\ Number' = Number
      /\ \A t : MiniAt(t)' = MiniAt(t) /\ RowsAt(t)' = RowsAt(t)
  BY <1>1, SameSetting
<1>3. steps \in Seq(Gradients) /\ Configured /\ MinisLeft /\ rows \in Batches
  BY <1>1 DEF CallsInv, Shapes, Settled, Passing
<1>4. steps' \in Seq(Gradients) /\ Len(steps') = Len(steps) + 1 /\ Len(steps) \in Nat
      /\ DOMAIN steps' = 1 .. Len(steps) + 1 /\ DOMAIN steps = 1 .. Len(steps)
  BY <1>3
<1>5. Shapes'
  BY <1>1, <1>2, <1>4 DEF CallsInv, Shapes
<1>6. Settled'
  BY <1>1, <1>2 DEF CallsInv, Settled, Updates
<1>7. RaisesOnlyIfRowsDoNotFit'
  BY <1>1 DEF RaisesOnlyIfRowsDoNotFit
<1>8. StepsAreEven'
  <2>1. ASSUME NEW t \in DOMAIN steps' PROVE (steps[t] = Zero \/ StepIsEven(t))'
    <3>1. PICK F : F = steps'[t]
      OBVIOUS
    <3>2. F = Zero \/ EvenWeights(F, t)
      <4>1. CASE t = Len(steps) + 1
        <5>1. F = G
          BY <1>3, <3>1, <4>1
        <5> QED BY <4>1, <5>1
      <4>2. CASE t # Len(steps) + 1
        <5>1. t \in DOMAIN steps /\ F = steps[t]
          BY <1>3, <1>4, <3>1, <4>2
        <5>2. steps[t] = Zero \/ StepIsEven(t)
          BY <5>1 DEF CallsInv, StepsAreEven
        <5> QED BY <5>1, <5>2 DEF StepIsEven, EvenWeights
      <4> QED BY <4>1, <4>2
    <3>3. F = Zero' \/ EvenWeights(F, t)'
      <4>1. EvenWeights(F, t)' = EvenWeights(F, t)
        BY <1>1, <1>2 DEF EvenWeights, TotalWeight, Weighed
      <4> QED BY <1>2, <3>2, <4>1
    <3>4. CASE F = Zero'
      BY <3>1, <3>4
    <3>5. CASE EvenWeights(F, t)'
      <4>1. StepIsEven(t)'
        BY <3>1, <3>5 DEF EvenWeights, StepIsEven, TotalWeight, Weighed
      <4> QED BY <4>1
    <3> QED BY <3>3, <3>4, <3>5
  <2> QED BY <2>1 DEF StepsAreEven
<1>9. ASSUME at' = "passes" PROVE MinisLeft'
  <2> DEFINE T == Seq(1 .. RowCount)
             all == c.epochs * Number
  <2>1. /\ c.mini > 0 /\ (~ByFsdp => RowCount % c.mini = 0)
        /\ \A d \in Ranks : /\ minis[d] \in Seq(T) /\ minis[d] # <<>>
                            /\ Len(minis[d]) + Len(steps) = all
                            /\ \A j \in DOMAIN minis[d] : minis[d][j] = MiniAt(Len(steps) + j)
    BY <1>3 DEF MinisLeft
  <2> HIDE DEF T, all
  <2>2. PICK e \in Ranks : Len(minis[e]) # 1
    BY <1>1, <1>9
  <2>3. ASSUME NEW d \in Ranks
        PROVE  /\ minis'[d] \in Seq(T) /\ minis'[d] # <<>>
               /\ Len(minis'[d]) + Len(steps') = all
               /\ \A j \in DOMAIN minis'[d] : minis'[d][j] = MiniAt(Len(steps') + j)
    <3>1. PICK s : s = minis[d]
      OBVIOUS
    <3>2. minis'[d] = Tail(s)
      BY <1>1, <3>1
    <3>3. /\ s \in Seq(T) /\ s # <<>> /\ Len(s) \in Nat \ {0} /\ Len(s) + Len(steps) = all
          /\ \A j \in 1 .. Len(s) : s[j] = MiniAt(Len(steps) + j)
      BY <2>1, <3>1
    <3>4. Len(s) # 1
      <4>1. Len(minis[e]) \in Nat /\ Len(minis[e]) + Len(steps) = all
        BY <2>1
      <4> QED BY <1>4, <2>2, <3>3, <4>1
    <3>5. /\ Tail(s) \in Seq(T) /\ Len(Tail(s)) = Len(s) - 1
          /\ DOMAIN Tail(s) = 1 .. Len(s) - 1
          /\ \A j \in 1 .. Len(s) - 1 : Tail(s)[j] = s[j + 1]
      BY <3>3
    <3>6. Tail(s) # <<>>
      <4>1. Len(<<>>) = 0
        OBVIOUS
      <4>2. Len(Tail(s)) # 0
        BY <3>3, <3>4, <3>5
      <4> QED BY <4>1, <4>2
    <3>7. Len(Tail(s)) + Len(steps') = all
      BY <1>4, <3>3, <3>5
    <3>8. ASSUME NEW j \in 1 .. Len(s) - 1 PROVE Tail(s)[j] = MiniAt(Len(steps') + j)
      <4>1. j + 1 \in 1 .. Len(s) /\ Len(steps) + (j + 1) = Len(steps') + j
        <5>1. j + 1 \in 1 .. Len(s)
          BY <3>3
        <5>2. ASSUME NEW n \in Nat PROVE n + (j + 1) = (n + 1) + j
          OBVIOUS
        <5> QED BY <1>4, <5>1, <5>2
      <4>2. s[j + 1] = MiniAt(Len(steps) + (j + 1))
        BY <3>3, <4>1
      <4> QED BY <3>5, <4>1, <4>2
    <3> QED BY <3>2, <3>5, <3>6, <3>7, <3>8
  <2>4. \A d \in Ranks :
          /\ minis'[d] \in Seq(Seq(1 .. RowCount)) /\ minis'[d] # <<>>
          /\ Len(minis'[d]) + Len(steps') = c.epochs * Number
          /\ \A j \in DOMAIN minis'[d] : minis'[d][j] = MiniAt(Len(steps') + j)
    BY <2>3 DEF T, all
  <2>5. \A d \in Ranks : \A j \in DOMAIN minis'[d] : minis'[d][j] = MiniAt(Len(steps) + j)'
    BY <1>2, <2>4
  <2>6. call' \in Updates' /\ c'.mini > 0 /\ (~ByFsdp' => RowCount' % c'.mini = 0)
    BY <1>1, <1>2, <2>1 DEF Updates
  <2> QED BY <1>1, <1>2, <2>4, <2>5, <2>6 DEF MinisLeft
<1>10. ASSUME at' = "passes" PROVE \A d \in Ranks' : OnItsWay(d)'
  BY <1>1, <1>2 DEF OnItsWay, NotSplit
<1>11. Passing'
  BY <1>9, <1>10 DEF Passing
<1> QED BY <1>5, <1>6, <1>7, <1>8, <1>11 DEF CallsInv

\* At the step the whole mini batch has had its pass.
LEMMA WeighedMini ==
  ASSUME ModelCallsAssumption, CallsInv, AllPassed, call \in Updates
  PROVE  /\ UnderWay /\ grads \in Gradients
         /\ MicrosLeft(<<>>) /\ \A d \in Ranks : Weights(grads[d], <<>>)
<1>1. at = "passes" /\ \A d \in Ranks : micros[d] = <<>>
  BY DEF AllPassed
<1>2. UnderWay
  BY <1>1, InPasses
<1>3. \A d \in Ranks : MicrosLeft(<<>>) /\ Weights(grads[d], <<>>)
  <2>1. <<>> # NotSplit
    BY DEF NotSplit
  <2>2. ASSUME NEW d \in Ranks PROVE MicrosLeft(<<>>) /\ Weights(grads[d], <<>>)
    <3>1. micros[d] = NotSplit \/ (MicrosLeft(micros[d]) /\ Weights(grads[d], micros[d]))
      BY <1>1 DEF CallsInv, Passing, OnItsWay
    <3>2. micros[d] = <<>>
      BY <1>1
    <3> QED BY <2>1, <3>1, <3>2
  <2> QED BY <2>2
<1>4. 1 \in Ranks
  BY <1>2 DEF UnderWay, RowsAreDealt
<1> QED BY <1>2, <1>3, <1>4 DEF CallsInv, Shapes

LEMMA OptimizerStepInv == ModelCallsAssumption /\ CallsInv /\ OptimizerStep => CallsInv'
<1> SUFFICES ASSUME ModelCallsAssumption, CallsInv, OptimizerStep PROVE CallsInv'
  OBVIOUS
<1>1. AllPassed /\ call \in Updates /\ steps' = Append(steps, grads) /\ AfterMini /\ grads' = grads
  BY DEF OptimizerStep
<1>2. UnderWay /\ grads \in Gradients /\ MicrosLeft(<<>>) /\ \A d \in Ranks : Weights(grads[d], <<>>)
  BY <1>1, WeighedMini
<1>3. EvenWeights(grads, Len(steps) + 1)
  BY <1>1, <1>2, StepWeighsEvenly
<1> QED BY <1>1, <1>2, <1>3, AfterMiniInv

LEMMA NotFiniteInv == ModelCallsAssumption /\ CallsInv /\ NotFinite => CallsInv'
<1> SUFFICES ASSUME ModelCallsAssumption, CallsInv, NotFinite PROVE CallsInv'
  OBVIOUS
<1>1. AllPassed /\ call \in Updates
  BY DEF NotFinite
<1>2. CASE ByFsdp
  <2>1. grads' = Zero /\ steps' = Append(steps, Zero) /\ AfterMini
    BY <1>2 DEF NotFinite
  <2>2. Zero \in Gradients
    <3>1. RowsAreDealt
      BY <1>1, WeighedMini DEF UnderWay
    <3> QED BY <3>1 DEF Zero, Gradients, RowsAreDealt
  <2> QED BY <1>1, <2>1, <2>2, AfterMiniInv
<1>3. CASE ~ByFsdp
  <2>1. /\ at = "passes" /\ at' = "raised" /\ c' = c /\ rows' = rows /\ call' = call
        /\ micros' = micros /\ grads' = grads /\ steps' = steps
    BY <1>1, <1>3 DEF NotFinite, AllPassed
  <2>2. RaisesOnlyIfRowsDoNotFit'
    BY <1>1, <1>3, <2>1 DEF RaisesOnlyIfRowsDoNotFit, ByFsdp, Updates
  <2> QED BY <2>1, <2>2, EndedInv
<1> QED BY <1>2, <1>3

LEMMA NextCalls == ModelCallsAssumption /\ CallsInv /\ [Next]_vars => CallsInv'
<1> SUFFICES ASSUME ModelCallsAssumption, CallsInv, [Next]_vars PROVE CallsInv'
  OBVIOUS
<1>1. CASE Configure
  BY <1>1, ConfigureInv
<1>2. CASE SplitMinis
  BY <1>2, SplitMinisInv
<1>3. CASE \E d \in Ranks : Split(d)
  BY <1>3, SplitInv
<1>4. CASE SplitFails
  BY <1>4, SplitFailsInv
<1>5. CASE PassTogether \/ PassAlone
  BY <1>5, PassesInv
<1>6. CASE OptimizerStep
  BY <1>6, OptimizerStepInv
<1>7. CASE NotFinite
  BY <1>7, NotFiniteInv
<1>8. CASE Return
  BY <1>8, ReturnInv
<1>9. CASE Ended \/ UNCHANGED vars
  <2>1. vars' = vars
    BY <1>9 DEF Ended
  <2>2. /\ c' = c /\ rows' = rows /\ call' = call /\ at' = at /\ minis' = minis
        /\ micros' = micros /\ grads' = grads /\ steps' = steps
    BY <2>1 DEF vars
  <2>3. CASE at = "passes"
    <3>1. DOMAIN micros = Ranks /\ grads \in Gradients
      BY DEF CallsInv, Shapes
    <3> QED BY <2>2, <2>3, <3>1, SameMinis
  <2>4. CASE at # "passes"
    <3>1. Ranks' = Ranks /\ Configured' = Configured /\ Gradients' = Gradients
      BY <2>2, SameSetting
    <3>2. StepsAreEven'
      BY <2>2, SameSteps DEF CallsInv
    <3>3. Shapes'
      BY <2>2, <3>1 DEF CallsInv, Shapes
    <3>4. Settled'
      BY <2>2, <3>1 DEF CallsInv, Settled, DataParallel, NotSplit, Updates
    <3>5. Passing'
      BY <2>2, <2>4 DEF Passing
    <3>6. RaisesOnlyIfRowsDoNotFit'
      BY <2>2 DEF CallsInv, RaisesOnlyIfRowsDoNotFit, ByFsdp, Ranks, Dynamic
    <3> QED BY <3>2, <3>3, <3>4, <3>5, <3>6 DEF CallsInv
  <2> QED BY <2>3, <2>4
<1> QED BY <1>1, <1>2, <1>3, <1>4, <1>5, <1>6, <1>7, <1>8, <1>9 DEF Next

-----------------------------------------------------------------------------
\* The setting stays one that was accepted, the mini batches that are left are those that
\* follow the steps that were made, and the weights those of the micro batches passed.
THEOREM CallsHold == Spec => []CallsInv
<1>1. Init => CallsInv
  BY InitCalls, ModelCallsAssumption
<1>2. CallsInv /\ [Next]_vars => CallsInv'
  BY NextCalls, ModelCallsAssumption
<1> QED BY <1>1, <1>2, PTL DEF Spec

\* Whatever the setting, the rows and their lengths: nothing that FSDP's checks of the
\* configuration let through makes a call raise, but a maximal number of tokens below the
\* width of the grid, and a computing call of Megatron raises only for rows that do not fit.
THEOREM RaisesOnlyForRows == Spec => []RaisesOnlyIfRowsDoNotFit
<1>1. CallsInv => RaisesOnlyIfRowsDoNotFit
  BY DEF CallsInv
<1> QED BY <1>1, CallsHold, PTL

LEMMA EvenStepsAreEven == ModelCallsAssumption /\ CallsInv => StepsWeighRowsEvenly
<1> SUFFICES ASSUME ModelCallsAssumption, CallsInv, NEW t \in DOMAIN steps, steps[t] # Zero
             PROVE  /\ TotalWeight(steps[t]) <= Unit
                    /\ \A d \in Ranks :
                         LET number == (Len(rows[d]) + c.mini - 1) \div c.mini
                             mini == {i \in DOMAIN rows[d] : (i - 1) \div c.mini = (t - 1) % number}
                         IN  /\ Weighed(steps[t], d) = mini
                             /\ Cardinality(mini) = c.mini =>
                                  \A i \in mini : steps[t][d][i] = Unit \div (c.mini * Cardinality(Ranks))
  BY DEF StepsWeighRowsEvenly
<1>1. StepIsEven(t)
  BY DEF CallsInv, StepsAreEven
<1>2. RowsAreDealt
  BY DealtRows DEF CallsInv, Shapes
<1>3. Number = (RowCount + c.mini - 1) \div c.mini
  BY <1>2, EverythingShape DEF Number, Pieces
<1>4. ASSUME NEW d \in Ranks
      PROVE  /\ DOMAIN rows[d] = 1 .. RowCount
             /\ (Len(rows[d]) + c.mini - 1) \div c.mini = Number
  BY <1>2, <1>3 DEF RowsAreDealt
<1>5. ASSUME NEW d \in Ranks
      PROVE  {i \in DOMAIN rows[d] : (i - 1) \div c.mini
                = ((t - 1) % ((Len(rows[d]) + c.mini - 1) \div c.mini))} = RowsAt(t)
  BY <1>4 DEF RowsAt
<1> QED BY <1>1, <1>5 DEF StepIsEven

\* Whatever the mini and micro batches, the number of ranks and the way the rows are split:
\* an optimizer step that is not skipped weighs exactly the rows of its mini batch, alike
\* when it is a whole one, and no more than 1 in all.
THEOREM StepsWeighAllRows == Spec => []StepsWeighRowsEvenly
<1>1. CallsInv => StepsWeighRowsEvenly
  BY EvenStepsAreEven, ModelCallsAssumption
<1> QED BY <1>1, CallsHold, PTL
=============================================================================
