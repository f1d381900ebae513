--------------------------- MODULE WorkerGroupProofs ---------------------------
(***************************************************************************)
(* Proofs about WorkerGroup, for any cluster, any layouts, any number of   *)
(* jobs and any patience of the driver.                                    *)
(***************************************************************************)
EXTENDS WorkerGroup, FoldTheorems, SequenceTheorems

-----------------------------------------------------------------------------
(* Sorting the placement groups.                                               *)

LEMMA NodesAreNumbers == \A n \in Nodes : n \in Nat
BY WorkerGroupAssumption

LEMMA GroupsFinite ==
  ASSUME NEW m \in Nat
  PROVE  IsFiniteSet(1 .. m) /\ Cardinality(1 .. m) = m
BY FS_Interval

LEMMA BeforeType ==
  ASSUME NEW m \in Nat, NEW p \in [1 .. m -> Nodes], NEW i \in 1 .. m
  PROVE  IsFiniteSet(Before(p, i)) /\ Cardinality(Before(p, i)) \in 0 .. m - 1
<1>1. Before(p, i) \in SUBSET (1 .. m \ {i})
  BY NodesAreNumbers DEF Before
<1>2. IsFiniteSet(1 .. m \ {i}) /\ Cardinality(1 .. m \ {i}) = m - 1
  BY GroupsFinite, FS_RemoveElement
<1> QED BY <1>1, <1>2, FS_Subset, FS_CardinalityType

LEMMA BeforeGrows ==
  ASSUME NEW m \in Nat, NEW p \in [1 .. m -> Nodes],
         NEW i \in 1 .. m, NEW j \in Before(p, i)
  PROVE  Cardinality(Before(p, j)) < Cardinality(Before(p, i))
<1>1. j \in 1 .. m
  BY DEF Before
<1>2. Before(p, j) \in SUBSET Before(p, i)
  BY <1>1, NodesAreNumbers DEF Before
<1>3. j \in Before(p, i) /\ j \notin Before(p, j)
  BY <1>1, NodesAreNumbers DEF Before
<1>4. Cardinality(Before(p, j)) # Cardinality(Before(p, i))
  BY <1>2, <1>3, BeforeType, FS_Subset
<1> QED BY <1>1, <1>2, <1>4, BeforeType, FS_Subset

\* Every place is taken by one group.
LEMMA SortedIsThere ==
  ASSUME NEW m \in Nat, NEW p \in [1 .. m -> Nodes], NEW k \in 1 .. m
  PROVE  SortedByIp(p)[k] \in 1 .. m /\ Cardinality(Before(p, SortedByIp(p)[k])) = k - 1
<1> DEFINE f == [i \in 1 .. m |-> Cardinality(Before(p, i)) + 1]
<1>1. f \in [1 .. m -> 1 .. m]
  BY BeforeType
<1>2. ASSUME NEW i \in 1 .. m, NEW j \in 1 .. m, f[i] = f[j]
      PROVE  i = j
  <2>1. i \in Before(p, j) \/ j \in Before(p, i) \/ i = j
    BY NodesAreNumbers DEF Before
  <2>2. Cardinality(Before(p, i)) = Cardinality(Before(p, j))
    BY <1>2, BeforeType
  <2> QED BY <2>1, <2>2, BeforeGrows, BeforeType
<1>3. f \in Injection(1 .. m, 1 .. m)
  BY <1>1, <1>2 DEF Injection, IsInjective
<1>4. f \in Surjection(1 .. m, 1 .. m)
  BY <1>3, GroupsFinite, FS_Injection
<1>5. PICK i \in 1 .. m : f[i] = k
  BY <1>4 DEF Surjection
<1>6. Cardinality(Before(p, i)) = k - 1
  BY <1>5, BeforeType
<1> QED BY <1>6 DEF SortedByIp

LEMMA SortedIsInjective ==
  ASSUME NEW m \in Nat, NEW p \in [1 .. m -> Nodes], NEW k \in 1 .. m, NEW l \in 1 .. m,
         SortedByIp(p)[k] = SortedByIp(p)[l]
  PROVE  k = l
BY SortedIsThere

\* The groups on the nodes up to n.
UpTo(p, n) == {i \in DOMAIN p : p[i] <= n}

LEMMA SameUpTo ==
  ASSUME NEW m \in Nat, NEW p \in [1 .. m -> Nodes], NEW q \in [1 .. m -> Nodes],
         SamePlacement(p, q), NEW n \in Nodes
  PROVE  Cardinality(UpTo(p, n)) = Cardinality(UpTo(q, n))
<1> DEFINE On(r, x) == {i \in 1 .. m : r[i] = x}
           b(x) == CHOOSE f : f \in Bijection(On(p, x), On(q, x))
           g == [i \in UpTo(p, n) |-> b(p[i])[i]]
<1>1. ASSUME NEW x \in Nodes PROVE b(x) \in Bijection(On(p, x), On(q, x))
  <2>1. IsFiniteSet(On(p, x)) /\ IsFiniteSet(On(q, x))
    BY GroupsFinite, FS_Subset
  <2>2. Cardinality(On(p, x)) = Cardinality(On(q, x))
    BY DEF SamePlacement
  <2> QED BY <2>1, <2>2, FS_SameCardinalityBij DEF ExistsBijection
<1>2. \A x \in Nodes :
        /\ \A i \in On(p, x) : b(x)[i] \in On(q, x)
        /\ \A i, j \in On(p, x) : b(x)[i] = b(x)[j] => i = j
        /\ \A j \in On(q, x) : \E i \in On(p, x) : b(x)[i] = j
  <2> HIDE DEF b
  <2> SUFFICES ASSUME NEW x \in Nodes
               PROVE  /\ \A i \in On(p, x) : b(x)[i] \in On(q, x)
                      /\ \A i, j \in On(p, x) : b(x)[i] = b(x)[j] => i = j
                      /\ \A j \in On(q, x) : \E i \in On(p, x) : b(x)[i] = j
    OBVIOUS
  <2>1. b(x) \in Bijection(On(p, x), On(q, x))
    BY <1>1
  <2> HIDE DEF On
  <2>2. b(x) \in [On(p, x) -> On(q, x)]
    BY <2>1, Zenon DEF Bijection, Injection
  <2>3. \A i, j \in On(p, x) : b(x)[i] = b(x)[j] => i = j
    BY <2>1 DEF Bijection, Injection, IsInjective
  <2>4. \A j \in On(q, x) : \E i \in On(p, x) : b(x)[i] = j
    BY <2>1, Zenon DEF Bijection, Surjection
  <2> QED BY <2>2, <2>3, <2>4
<1> HIDE DEF b
<1>3. \A i \in UpTo(p, n) : i \in On(p, p[i]) /\ p[i] \in Nodes /\ p[i] <= n
  BY DEF UpTo
<1>4. \A i \in UpTo(p, n) : g[i] \in UpTo(q, n) /\ q[g[i]] = p[i]
  BY <1>2, <1>3 DEF UpTo
<1>5. \A i, j \in UpTo(p, n) : g[i] = g[j] => i = j
  <2> SUFFICES ASSUME NEW i \in UpTo(p, n), NEW j \in UpTo(p, n), g[i] = g[j] PROVE i = j
    OBVIOUS
  <2>1. p[i] = p[j]
    BY <1>4
  <2> QED BY <1>2, <1>3, <2>1
<1>6. \A j \in UpTo(q, n) : \E i \in UpTo(p, n) : g[i] = j
  <2> SUFFICES ASSUME NEW j \in UpTo(q, n) PROVE \E i \in UpTo(p, n) : g[i] = j
    OBVIOUS
  <2>1. j \in On(q, q[j]) /\ q[j] \in Nodes /\ q[j] <= n
    BY DEF UpTo
  <2>2. PICK i \in On(p, q[j]) : b(q[j])[i] = j
    BY <1>2, <2>1
  <2>3. i \in UpTo(p, n) /\ p[i] = q[j]
    BY <2>1, <2>2 DEF UpTo
  <2> QED BY <2>2, <2>3
<1>7. g \in Bijection(UpTo(p, n), UpTo(q, n))
  BY <1>4, <1>5, <1>6 DEF Bijection, Injection, Surjection, IsInjective
<1>8. IsFiniteSet(UpTo(p, n))
  BY GroupsFinite, FS_Subset DEF UpTo
<1> QED BY <1>7, <1>8, FS_Bijection DEF ExistsBijection

\* The node at a place is decided by how many groups each node has.
LEMMA NotOnLaterNode ==
  ASSUME NEW m \in Nat, NEW p \in [1 .. m -> Nodes], NEW q \in [1 .. m -> Nodes],
         SamePlacement(p, q), NEW k \in 1 .. m
  PROVE  ~ (p[SortedByIp(p)[k]] < q[SortedByIp(q)[k]])
<1> DEFINE i == SortedByIp(p)[k]
           j == SortedByIp(q)[k]
<1>1. /\ i \in 1 .. m /\ Cardinality(Before(p, i)) = k - 1
      /\ j \in 1 .. m /\ Cardinality(Before(q, j)) = k - 1
  BY SortedIsThere
<1> HIDE DEF i, j
<1>2. SUFFICES ASSUME p[i] < q[j] PROVE FALSE
  BY DEF i, j
<1>3. p[i] \in Nodes /\ q[j] \in Nodes /\ p[i] \in Nat /\ q[j] \in Nat
  BY <1>1, NodesAreNumbers
<1>4. Cardinality(UpTo(p, p[i])) >= k
  <2>1. Before(p, i) \cup {i} \in SUBSET UpTo(p, p[i])
    <3>1. \A h \in 1 .. m : p[h] \in Nat
      BY NodesAreNumbers
    <3>2. \A h \in Before(p, i) : h \in 1 .. m /\ p[h] <= p[i]
      BY <1>3, <3>1 DEF Before
    <3> QED BY <1>1, <1>3, <3>2 DEF UpTo
  <2>2. Cardinality(Before(p, i) \cup {i}) = k
    <3>1. i \notin Before(p, i)
      BY <1>1, <1>3 DEF Before
    <3>2. IsFiniteSet(Before(p, i))
      BY <1>1, BeforeType
    <3>3. Cardinality(Before(p, i) \cup {i}) = Cardinality(Before(p, i)) + 1
      BY <3>1, <3>2, FS_AddElement
    <3> QED BY <1>1, <3>3
  <2>3. IsFiniteSet(UpTo(p, p[i]))
    BY GroupsFinite, FS_Subset DEF UpTo
  <2> QED BY <2>1, <2>2, <2>3, FS_Subset, FS_CardinalityType
<1>5. Cardinality(UpTo(q, p[i])) <= k - 1
  <2>1. UpTo(q, p[i]) \in SUBSET Before(q, j)
    BY <1>1, <1>2, <1>3, NodesAreNumbers DEF Before, UpTo
  <2> QED BY <1>1, <2>1, BeforeType, FS_Subset
<1>6. Cardinality(UpTo(p, p[i])) = Cardinality(UpTo(q, p[i]))
  BY <1>3, SameUpTo
<1>7. Cardinality(UpTo(q, p[i])) \in Nat
  BY GroupsFinite, FS_Subset, FS_CardinalityType DEF UpTo
<1> QED BY <1>4, <1>5, <1>6, <1>7

LEMMA SameNodeAtEveryPlace ==
  ASSUME NEW m \in Nat, NEW p \in [1 .. m -> Nodes], NEW q \in [1 .. m -> Nodes],
         SamePlacement(p, q), NEW k \in 1 .. m
  PROVE  p[SortedByIp(p)[k]] = q[SortedByIp(q)[k]]
<1>1. SamePlacement(q, p)
  BY DEF SamePlacement
<1>2. p[SortedByIp(p)[k]] \in Nat /\ q[SortedByIp(q)[k]] \in Nat
  BY SortedIsThere, NodesAreNumbers
<1>3. ~ (p[SortedByIp(p)[k]] < q[SortedByIp(q)[k]])
  BY NotOnLaterNode
<1>4. ~ (q[SortedByIp(q)[k]] < p[SortedByIp(p)[k]])
  BY <1>1, NotOnLaterNode
<1> QED BY ONLY <1>2, <1>3, <1>4

-----------------------------------------------------------------------------
(* The inductive invariant.                                                    *)

Addresses == [job : Nat, node : Nodes]

Workers == [rank : Nat, pg : Nat, node : Nodes, bundle : Nat, master : Addresses \cup {None}]

StartType ==
  /\ config \in Settings /\ job \in Nat
  /\ workers \in Seq(Workers)
  /\ centers \in SUBSET [prefix : Nat, address : Addresses]

\* The groups of a job, in the order in which Ray created them.
Groups == [1 .. config.nnodes -> Nodes]

\* The place among the sorted groups, and the bundle, of a rank.
GroupOf(r) == (r \div config.n_gpus_per_node) + 1
BundleOf(r) == r % config.n_gpus_per_node

PlacedInv ==
  /\ pc = "pool" => workers = <<>>
  /\ pc = "starting" \/ workers # <<>> => pgs \in Groups
  /\ Len(workers) <= World
  /\ \A i \in 1 .. Len(workers) :
       /\ workers[i].pg = SortedByIp(pgs)[GroupOf(i - 1)]
       /\ workers[i].node = pgs[workers[i].pg]
       /\ workers[i].bundle = BundleOf(i - 1)

HomeInv ==
  home # None =>
    /\ home.pgs \in Groups
    /\ \A r \in Ranks : home.node[r] = home.pgs[SortedByIp(home.pgs)[GroupOf(r)]]

\* Where the ranks of this job meet.
Address == [job |-> job, node |-> workers[1].node]

RendezvousInv ==
  /\ \A c \in centers :
       /\ c.prefix <= job
       /\ c.prefix = job => workers # <<>> /\ c.address = Address
  /\ workers = <<>> => master = None
  /\ pc = "waiting" => workers # <<>>
  /\ master \in {None, Address}
  /\ \A i \in 1 .. Len(workers) : workers[i].master \in {None, Address}

IInv == StartType /\ PlacedInv /\ HomeInv /\ RendezvousInv

-----------------------------------------------------------------------------
LEMMA SettingType ==
  config \in Settings =>
    /\ config.nnodes \in Nat \ {0} /\ config.n_gpus_per_node \in Nat \ {0}
    /\ World \in Nat
BY WorkerGroupAssumption DEF World

LEMMA RankInRange ==
  ASSUME config \in Settings, NEW r \in Ranks
  PROVE  /\ GroupOf(r) \in 1 .. config.nnodes /\ BundleOf(r) \in Nat
         /\ r = config.n_gpus_per_node * (GroupOf(r) - 1) + BundleOf(r)
<1> DEFINE a == config.nnodes
           b == config.n_gpus_per_node
<1>1. a \in Nat \ {0} /\ b \in Nat \ {0} /\ r \in 0 .. a * b - 1
  BY SettingType DEF Ranks, World
<1>2. r \div b \in 0 .. a - 1 /\ r % b \in Nat /\ r = b * (r \div b) + (r % b)
  BY <1>1, GroupInRange
<1>3. r \div b = GroupOf(r) - 1
  BY <1>2 DEF GroupOf
<1>4. GroupOf(r) \in 1 .. a
  BY <1>1, <1>2 DEF GroupOf
<1> QED BY <1>2, <1>3, <1>4 DEF BundleOf

LEMMA GroupThere ==
  ASSUME config \in Settings, NEW p \in Groups, NEW r \in Ranks
  PROVE  SortedByIp(p)[GroupOf(r)] \in 1 .. config.nnodes
BY SettingType, RankInRange, SortedIsThere DEF Groups

LEMMA InvariantInit == Init => IInv
BY SettingType DEF Init, IInv, StartType, PlacedInv, HomeInv, RendezvousInv

\* What the driver does once the workers meet, and polling, do not move them.
LEMMA WorkersStay ==
  ASSUME IInv, UNCHANGED <<config, job, pgs, workers, centers>>,
         pc' = "pool" => pc = "pool",
         pc' = "starting" => pc \in {"starting", "waiting"},
         pc' = "waiting" => pc = "waiting",
         pc = "waiting" \/ UNCHANGED master, master' \in {None, Address}
  PROVE  StartType' /\ PlacedInv' /\ RendezvousInv'
BY DEF IInv, StartType, PlacedInv, RendezvousInv, Address, Groups, World, GroupOf, BundleOf

LEMMA HomeStays ==
  HomeInv /\ UNCHANGED <<config, home>> => HomeInv'
BY DEF HomeInv, Groups, Ranks, World, GroupOf

LEMMA AddressType ==
  ASSUME StartType, workers # <<>>
  PROVE  /\ Len(workers) \in Nat \ {0} /\ workers[1] \in Workers /\ workers[1].node \in Nodes
         /\ job \in Nat /\ Address \in Addresses
<1>1. Len(workers) \in Nat \ {0} /\ workers[1] \in Workers /\ job \in Nat
  BY DEF StartType
<1>2. workers[1].node \in Nodes
  BY <1>1 DEF Workers
<1> QED BY <1>1, <1>2 DEF Address, Addresses

LEMMA WorkerRank ==
  ASSUME IInv, NEW i \in DOMAIN workers
  PROVE  /\ i \in 1 .. Len(workers) /\ i - 1 \in Ranks
         /\ workers # <<>> /\ config \in Settings
<1>1. i \in 1 .. Len(workers) /\ Len(workers) \in Nat /\ Len(workers) <= World
  BY DEF IInv, StartType, PlacedInv
<1>2. config \in Settings /\ World \in Nat
  BY SettingType DEF IInv, StartType
<1>3. workers # <<>>
  BY <1>1
<1> QED BY <1>1, <1>2, <1>3 DEF Ranks

\* One more worker, placed like the others, that knows the address or is the first.
LEMMA OneMoreWorker ==
  ASSUME IInv, StartWorker
  PROVE  StartType' /\ PlacedInv' /\ RendezvousInv'
<1> DEFINE r == Len(workers)
           g == SortedByIp(pgs)[GroupOf(r)]
           w == [rank |-> r, pg |-> g, node |-> pgs[g], bundle |-> BundleOf(r), master |-> master]
<1>1. /\ config \in Settings /\ pgs \in Groups /\ r \in Ranks /\ pc = "starting"
      /\ workers' = Append(workers, w)
      /\ UNCHANGED <<config, job, pgs, master, centers>>
      /\ pc' \in {"starting", "waiting"}
  BY SettingType DEF IInv, StartType, PlacedInv, StartWorker, GroupOf, BundleOf, Ranks
<1>2. g \in 1 .. config.nnodes /\ BundleOf(r) \in Nat /\ pgs[g] \in Nodes
  BY <1>1, GroupThere, RankInRange DEF Groups
<1>3. master \in Addresses \cup {None}
  BY AddressType DEF IInv, RendezvousInv
<1>4. w \in Workers
  BY <1>1, <1>2, <1>3, SettingType DEF Ranks, Workers
<1> HIDE DEF w
<1>5. /\ workers' \in Seq(Workers)
      /\ r \in Nat /\ Len(workers') = r + 1 /\ workers'[r + 1] = w /\ workers' # <<>>
      /\ \A i \in 1 .. r : workers'[i] = workers[i]
  BY <1>1, <1>4 DEF IInv, StartType
<1>6. w.pg = g /\ w.node = pgs[g] /\ w.bundle = BundleOf(r) /\ w.master = master
  BY DEF w
<1> HIDE DEF g
<1>7. StartType'
  BY <1>1, <1>5 DEF IInv, StartType
<1>8. PlacedInv'
  <2>1. Len(workers') <= World /\ World' = World /\ pgs' \in Groups'
    BY <1>1, <1>5, SettingType DEF Ranks, World, Groups
  <2>2. ASSUME NEW i \in 1 .. Len(workers')
        PROVE  /\ workers'[i].pg = SortedByIp(pgs)[GroupOf(i - 1)]
               /\ workers'[i].node = pgs[workers'[i].pg]
               /\ workers'[i].bundle = BundleOf(i - 1)
    <3>1. CASE i \in 1 .. r
      BY <1>5, <3>1 DEF IInv, PlacedInv
    <3>2. CASE i = r + 1
      <4>1. i - 1 = r
        BY <1>5, <3>2
      <4> QED BY <1>5, <1>6, <3>2, <4>1 DEF g
    <3> QED BY <1>5, <3>1, <3>2
  <2> QED BY <1>1, <1>5, <2>1, <2>2 DEF PlacedInv, GroupOf, BundleOf
<1>9. RendezvousInv'
  <2>1. CASE workers = <<>>
    <3>1. master = None /\ (\A c \in centers : c.prefix # job) /\ r = 0
      BY <2>1 DEF IInv, RendezvousInv
    <3>2. \A i \in 1 .. Len(workers') : workers'[i].master = None
      BY <1>5, <1>6, <3>1
    <3> QED BY <1>1, <1>5, <3>1, <3>2 DEF IInv, RendezvousInv
  <2>2. CASE workers # <<>>
    <3>1. r >= 1 /\ Address' = Address
      BY <1>1, <1>5, <2>2 DEF IInv, StartType, Address
    <3>2. ASSUME NEW i \in 1 .. Len(workers') PROVE workers'[i].master \in {None, Address}
      <4>1. CASE i \in 1 .. r
        BY <1>5, <4>1 DEF IInv, RendezvousInv
      <4>2. CASE i = r + 1
        BY <1>5, <1>6, <4>2 DEF IInv, RendezvousInv
      <4> QED BY <1>5, <4>1, <4>2
    <3> QED BY <1>1, <1>5, <2>2, <3>1, <3>2 DEF IInv, RendezvousInv
  <2> QED BY <2>1, <2>2
<1> QED BY <1>7, <1>8, <1>9

\* The center of this job is created with the address of its rank 0.
LEMMA RankZeroRegisters ==
  ASSUME IInv, Register
  PROVE  StartType' /\ PlacedInv' /\ RendezvousInv'
<1>1. /\ workers # <<>> /\ Len(workers) \in Nat \ {0} /\ workers[1].node \in Nodes /\ job \in Nat
      /\ UNCHANGED <<config, job, pc, pgs, master>>
      /\ centers' = centers \cup {[prefix |-> job, address |-> Address]}
      /\ workers' = [workers EXCEPT ![1].master = Address]
  <2>1. workers # <<>>
    BY DEF Register
  <2> QED BY <2>1, AddressType DEF IInv, Register, Prefix, Address
<1>2. Address \in Addresses
  BY <1>1, AddressType DEF IInv
<1>3. /\ workers' \in Seq(Workers)
      /\ Len(workers') = Len(workers)
      /\ \A i \in 1 .. Len(workers) :
           /\ workers'[i].pg = workers[i].pg /\ workers'[i].node = workers[i].node
           /\ workers'[i].bundle = workers[i].bundle
           /\ workers'[i].master = IF i = 1 THEN Address ELSE workers[i].master
  <2> DEFINE v == [workers[1] EXCEPT !.master = Address]
  <2>1. workers \in Seq(Workers) /\ workers[1] \in Workers
    BY <1>1, AddressType DEF IInv, StartType
  <2>2. v \in Workers /\ v.master = Address /\ v.pg = workers[1].pg /\ v.node = workers[1].node
        /\ v.bundle = workers[1].bundle
    BY <1>2, <2>1 DEF Workers
  <2>3. workers' = [workers EXCEPT ![1] = v]
    BY <1>1
  <2> HIDE DEF v
  <2>4. /\ workers' \in Seq(Workers) /\ Len(workers') = Len(workers)
        /\ \A i \in 1 .. Len(workers) : workers'[i] = IF i = 1 THEN v ELSE workers[i]
    BY <1>1, <2>1, <2>2, <2>3
  <2> QED BY <2>2, <2>4
<1>4. centers' \in SUBSET [prefix : Nat, address : Addresses]
  BY <1>1, <1>2 DEF IInv, StartType
<1>5. workers' # <<>> /\ Address' = Address
  BY <1>1, <1>3 DEF Address
<1>6. PlacedInv'
  BY <1>1, <1>3, <1>5 DEF IInv, PlacedInv, Groups, World, GroupOf, BundleOf
<1>7. RendezvousInv'
  BY <1>1, <1>3, <1>5 DEF IInv, RendezvousInv
<1> QED BY <1>1, <1>3, <1>4, <1>6, <1>7 DEF IInv, StartType

LEMMA InvariantStep == IInv /\ [Next]_vars => IInv'
<1> SUFFICES ASSUME IInv, [Next]_vars PROVE IInv'
  OBVIOUS
<1>1. CASE CreatePool
  <2>1. /\ pc = "pool" /\ workers = <<>> /\ UNCHANGED <<config, job, workers, master, centers, home>>
        /\ pc' = "starting" => pgs' \in Groups
        /\ pc' \in {"starting", "raised"}
    BY <1>1 DEF CreatePool, Placements, Groups, IInv, PlacedInv
  <2> QED BY <2>1, HomeStays
    DEF IInv, StartType, PlacedInv, RendezvousInv, Groups, World
<1>2. CASE StartWorker
  BY <1>2, OneMoreWorker, HomeStays DEF IInv, StartWorker
<1>3. CASE Register
  BY <1>3, RankZeroRegisters, HomeStays DEF IInv, Register
<1>4. CASE Poll
  <2>1. master' \in {None, Address}
    BY <1>4 DEF Poll, Centers, Prefix, IInv, RendezvousInv
  <2> QED BY <1>4, <2>1, WorkersStay, HomeStays DEF Poll, IInv
<1>5. CASE ComeUp
  <2>1. /\ UNCHANGED <<config, job, pgs, workers, master, centers>>
        /\ pc = "starting" /\ pc' = "idle" /\ Len(workers) = World
        /\ \/ home' = home
           \/ home' = [pgs |-> pgs, node |-> [r \in Ranks |-> workers[r + 1].node]]
    BY <1>5 DEF ComeUp
  <2>2. StartType' /\ PlacedInv' /\ RendezvousInv'
    BY <2>1, WorkersStay DEF IInv, RendezvousInv
  <2>3. CASE home' = home
    BY <2>1, <2>2, <2>3, HomeStays DEF IInv
  <2>4. CASE home' = [pgs |-> pgs, node |-> [r \in Ranks |-> workers[r + 1].node]]
    <3>1. pgs \in Groups
      BY <2>1 DEF IInv, PlacedInv
    <3>2. ASSUME NEW r \in Ranks
          PROVE  workers[r + 1].node = pgs[SortedByIp(pgs)[GroupOf(r)]]
      <4>1. r + 1 \in 1 .. Len(workers) /\ (r + 1) - 1 = r
        BY <2>1, SettingType DEF Ranks, IInv, StartType
      <4> QED BY <4>1 DEF IInv, PlacedInv
    <3>3. HomeInv'
      BY <2>1, <2>4, <3>1, <3>2 DEF HomeInv, Groups, Ranks, World, GroupOf
    <3> QED BY <2>2, <3>3 DEF IInv
  <2> QED BY <2>1, <2>3, <2>4
<1>6. ASSUME NEW r \in Ranks, Join(r) \/ Work(r) PROVE IInv'
  BY <1>6, WorkersStay, HomeStays DEF Join, Work, IInv, RendezvousInv
<1>7. ASSUME NEW kind \in {"compute", "generate", "validate"}, Dispatch(kind) PROVE IInv'
  <2>1. /\ UNCHANGED <<config, job, pgs, workers, master, centers, home>>
        /\ pc' \in {"calling", "raised"}
    BY <1>7 DEF Dispatch
  <2> QED BY <2>1, WorkersStay, HomeStays DEF IInv, RendezvousInv
<1>8. CASE Collect
  BY <1>8, WorkersStay, HomeStays DEF Collect, IInv, RendezvousInv
<1>9. CASE NextJob
  <2>1. /\ job' = job + 1 /\ pc' = "pool" /\ workers' = <<>> /\ master' = None
        /\ centers' \in {centers, {}} /\ UNCHANGED <<config, home>>
    BY <1>9 DEF NextJob, Fresh
  <2>2. StartType' /\ World' \in Nat
    BY <2>1, SettingType DEF IInv, StartType, World
  <2>3. \A c \in centers' : c.prefix < job'
    BY <2>1 DEF IInv, StartType, RendezvousInv
  <2>4. RendezvousInv'
    BY <2>1, <2>2, <2>3 DEF RendezvousInv, StartType
  <2> QED BY <2>1, <2>2, <2>4, HomeStays DEF IInv, PlacedInv
<1>10. CASE Finished \/ UNCHANGED vars
  BY <1>10, WorkersStay, HomeStays DEF Finished, vars, IInv, RendezvousInv
<1> QED BY <1>1, <1>2, <1>3, <1>4, <1>5, <1>6, <1>7, <1>8, <1>9, <1>10 DEF Next

LEMMA Invariant == Spec => []IInv
BY InvariantInit, InvariantStep, PTL DEF Spec

\* sort_placement_group_by_node_ip does what its comment promises: whatever order Ray
\* creates the groups in, and whoever is killed meanwhile, a job that is given as many
\* groups of each node gives every rank the node it had in the first job.
THEOREM RanksKeepTheirNodes == Spec => []RanksStayOnTheirNodes
<1>1. IInv => RanksStayOnTheirNodes
  <2> SUFFICES ASSUME IInv, home # None, SamePlacement(home.pgs, pgs), NEW i \in DOMAIN workers
               PROVE  workers[i].node = home.node[i - 1]
    BY DEF RanksStayOnTheirNodes
  <2>1. i \in 1 .. Len(workers) /\ i - 1 \in Ranks /\ workers # <<>>
    BY WorkerRank
  <2>2. config.nnodes \in Nat /\ GroupOf(i - 1) \in 1 .. config.nnodes
    BY <2>1, SettingType, RankInRange DEF IInv, StartType
  <2>3. workers[i].node = pgs[SortedByIp(pgs)[GroupOf(i - 1)]]
    BY <2>1 DEF IInv, PlacedInv
  <2>4. home.node[i - 1] = home.pgs[SortedByIp(home.pgs)[GroupOf(i - 1)]]
    BY <2>1 DEF IInv, HomeInv
  <2>5. pgs \in Groups /\ home.pgs \in Groups
    BY <2>1 DEF IInv, PlacedInv, HomeInv
  <2> QED BY <2>2, <2>3, <2>4, <2>5, SameNodeAtEveryPlace DEF Groups
<1> QED BY <1>1, Invariant, PTL

\* Register centers of killed jobs may linger; a job's ranks all meet at the address of
\* their own rank 0, each on a GPU of its own.
THEOREM RanksMeet == Spec => []OneRendezvous
<1>1. IInv => OneRendezvous
  <2> SUFFICES ASSUME IInv, NEW i \in DOMAIN workers, NEW j \in DOMAIN workers
               PROVE  /\ i # j => <<workers[i].pg, workers[i].bundle>> # <<workers[j].pg, workers[j].bundle>>
                      /\ workers[i].master # None => workers[i].master = Address
    BY DEF OneRendezvous, Address
  <2>1. /\ i \in 1 .. Len(workers) /\ j \in 1 .. Len(workers) /\ workers # <<>>
        /\ i - 1 \in Ranks /\ j - 1 \in Ranks /\ config \in Settings
    BY WorkerRank
  <2>2. workers[i].master # None => workers[i].master = Address
    BY <2>1 DEF IInv, RendezvousInv
  <2>3. ASSUME workers[i].pg = workers[j].pg, workers[i].bundle = workers[j].bundle
        PROVE  i = j
    <3>1. pgs \in Groups /\ config.nnodes \in Nat
      BY <2>1, SettingType DEF IInv, PlacedInv
    <3>2. SortedByIp(pgs)[GroupOf(i - 1)] = SortedByIp(pgs)[GroupOf(j - 1)]
      BY <2>1, <2>3 DEF IInv, PlacedInv
    <3>3. GroupOf(i - 1) = GroupOf(j - 1)
      BY <2>1, <3>1, <3>2, RankInRange, SortedIsInjective DEF Groups
    <3>4. BundleOf(i - 1) = BundleOf(j - 1)
      BY <2>1, <2>3 DEF IInv, PlacedInv
    <3>5. i - 1 = j - 1
      BY <2>1, <3>3, <3>4, RankInRange
    <3> QED BY <2>1, <3>5
  <2> QED BY <2>2, <2>3
<1> QED BY <1>1, Invariant, PTL

-----------------------------------------------------------------------------
(* Batches cut into chunks and joined again                                    *)

\* Of the n sequences of c those at pos[1], pos[2], ... have m entries, all others none.
Selected(c, n, pos, K, m, T) ==
  /\ c \in [1 .. n -> Seq(T)] /\ pos \in [1 .. K -> 1 .. n]
  /\ \A x, y \in 1 .. K : x < y => pos[x] < pos[y]
  /\ \A x \in 1 .. K : Len(c[pos[x]]) = m
  /\ \A i \in 1 .. n : (\A x \in 1 .. K : pos[x] # i) => Len(c[i]) = 0

\* s has the entries of the x-th of them after x - 1 times m others.
SelectedAt(s, c, pos, K, m, T) ==
  /\ s \in Seq(T) /\ Len(s) = m * K
  /\ \A x \in 1 .. K : \A j \in 1 .. m : s[m * (x - 1) + j] = c[pos[x]][j]

LEMMA FlattenSelected ==
  ASSUME NEW n \in Nat \ {0}, NEW K \in Nat, NEW m \in Nat, NEW T, NEW c, NEW pos,
         Selected(c, n, pos, K, m, T)
  PROVE  SelectedAt(FlattenSeq(c), c, pos, K, m, T)
<1> SUFFICES ASSUME c \in [1 .. n -> Seq(T)], pos \in [1 .. K -> 1 .. n],
                    \A x, y \in 1 .. K : x < y => pos[x] < pos[y],
                    \A x \in 1 .. K : Len(c[pos[x]]) = m,
                    \A i \in 1 .. n : (\A x \in 1 .. K : pos[x] # i) => Len(c[i]) = 0
             PROVE  SelectedAt(FlattenSeq(c), c, pos, K, m, T)
  BY DEF Selected
<1> DEFINE Upto(i) == {x \in 1 .. K : pos[x] <= i}
           off == [i \in 0 .. n |-> m * Cardinality(Upto(i))]
<1>1. \A i \in 0 .. n : IsFiniteSet(Upto(i)) /\ Cardinality(Upto(i)) \in Nat
  <2> SUFFICES ASSUME NEW i \in 0 .. n PROVE IsFiniteSet(Upto(i))
    BY FS_CardinalityType
  <2>1. IsFiniteSet(1 .. K)
    BY FS_Interval
  <2>2. Upto(i) \subseteq 1 .. K
    OBVIOUS
  <2> HIDE DEF Upto
  <2> QED BY <2>1, <2>2, FS_Subset
<1>2. off \in [0 .. n -> Nat]
  <2> HIDE DEF Upto
  <2> QED BY <1>1
<1>3. off[0] = 0
  <2>1. Upto(0) = {}
    OBVIOUS
  <2>2. 0 \in 0 .. n /\ m * 0 = 0
    OBVIOUS
  <2> HIDE DEF Upto
  <2>3. off[0] = m * Cardinality(Upto(0))
    BY <2>2
  <2>4. Cardinality(Upto(0)) = 0
    BY <2>1, FS_EmptySet
  <2> QED BY <2>2, <2>3, <2>4
<1>4. ASSUME NEW i \in 1 .. n PROVE off[i] = off[i - 1] + Len(c[i])
  <2>0. i - 1 \in 0 .. n /\ i \in 0 .. n
    OBVIOUS
  <2>1. CASE \A x \in 1 .. K : pos[x] # i
    <3>1. Upto(i) = Upto(i - 1)
      BY <2>1
    <3>2. Len(c[i]) = 0
      BY <2>1
    <3>3. off[i - 1] \in Nat /\ off[i] = off[i - 1]
      <4> HIDE DEF Upto
      <4> QED BY <1>1, <2>0, <3>1
    <3> HIDE DEF off
    <3> QED BY <3>2, <3>3
  <2>2. ASSUME NEW y \in 1 .. K, pos[y] = i PROVE off[i] = off[i - 1] + Len(c[i])
    <3>1. ASSUME NEW x \in 1 .. K, pos[x] = i PROVE x = y
      <4>1. ~ (x < y) /\ ~ (y < x)
        BY <2>2, <3>1
      <4> QED BY <4>1
    <3>2. Upto(i) = Upto(i - 1) \cup {y} /\ y \notin Upto(i - 1)
      BY <2>2, <3>1
    <3> HIDE DEF Upto
    <3>3. Cardinality(Upto(i)) = Cardinality(Upto(i - 1)) + 1
      BY <1>1, <2>0, <3>2, FS_AddElement
    <3>4. off[i] = m * (Cardinality(Upto(i - 1)) + 1) /\ off[i - 1] = m * Cardinality(Upto(i - 1))
      BY <2>0, <3>3
    <3>5. \A z \in Nat : m * (z + 1) = m * z + m
      OBVIOUS
    <3>6. Len(c[i]) = m
      BY <2>2
    <3> HIDE DEF off
    <3> QED BY <1>1, <2>0, <3>4, <3>5, <3>6
  <2> QED BY <2>1, <2>2
<1>5. ASSUME NEW x \in 1 .. K PROVE off[pos[x] - 1] = m * (x - 1)
  <2>1. pos[x] - 1 \in 0 .. n
    OBVIOUS
  <2>2. Upto(pos[x] - 1) = 1 .. x - 1
    <3>1. \A y \in 1 .. K : pos[y] \in 1 .. n /\ pos[x] \in 1 .. n
      OBVIOUS
    <3>2. \A y \in 1 .. K : y < x <=> pos[y] <= pos[x] - 1
      <4> SUFFICES ASSUME NEW y \in 1 .. K PROVE y < x <=> pos[y] <= pos[x] - 1
        OBVIOUS
      <4>1. CASE y < x
        BY <3>1, <4>1
      <4>2. CASE y = x
        BY <3>1, <4>2
      <4>3. CASE x < y
        BY <3>1, <4>3
      <4> QED BY <4>1, <4>2, <4>3
    <3> QED BY <3>2
  <2>3. Cardinality(1 .. x - 1) = x - 1
    <3>1. 1 \in Int /\ x - 1 \in Int /\ x >= 1
      OBVIOUS
    <3> QED BY <3>1, FS_Interval
  <2> HIDE DEF Upto
  <2> QED BY <2>1, <2>2, <2>3
<1>6. off[n] = m * K
  <2>1. Upto(n) = 1 .. K
    OBVIOUS
  <2>2. Cardinality(1 .. K) = K
    BY FS_Interval
  <2> HIDE DEF Upto
  <2> QED BY <2>1, <2>2
<1> HIDE DEF off
<1>7. /\ FlattenSeq(c) \in Seq(T) /\ Len(FlattenSeq(c)) = off[n]
      /\ \A i \in 1 .. n : \A j \in 1 .. Len(c[i]) : FlattenSeq(c)[off[i - 1] + j] = c[i][j]
  <2>1. Offsets(off, c, n, T)
    <3>1. Len(c) = n /\ \A i \in 1 .. n : c[i] \in Seq(T)
      OBVIOUS
    <3> QED BY <1>2, <1>3, <1>4, <3>1 DEF Offsets
  <2>2. EntriesAt(FlattenSeq(c), off, c, n, T)
    BY ONLY n \in Nat \ {0}, <2>1, EntriesOfFlatten
  <2> QED BY <2>2, Zenon DEF EntriesAt
<1>8. ASSUME NEW x \in 1 .. K, NEW j \in 1 .. m
      PROVE  FlattenSeq(c)[m * (x - 1) + j] = c[pos[x]][j]
  <2>1. pos[x] \in 1 .. n /\ j \in 1 .. Len(c[pos[x]])
    OBVIOUS
  <2>2. FlattenSeq(c)[off[pos[x] - 1] + j] = c[pos[x]][j]
    BY <1>7, <2>1
  <2> QED BY <1>5, <2>2
<1> QED BY <1>6, <1>7, <1>8 DEF SelectedAt

-----------------------------------------------------------------------------
(* The order of the ranks that answer                                       *)

\* A model's answer is taken from its first tensor and context rank on its last stage:
\* these ranks, in their order, are those of replicas 0, 1, ... .
LastStageRank(b, d, p, k) == b * (d * (p - 1) + k)
ComputeRanks(t, c, d, p, b, n) ==
  /\ \A k \in 0 .. d - 1 :
       /\ LastStageRank(b, d, p, k) \in 0 .. n - 1
       /\ (LastStageRank(b, d, p, k) % t) = 0 /\ ((LastStageRank(b, d, p, k) \div t) % c) = 0
       /\ ((LastStageRank(b, d, p, k) \div b) % d) = k
       /\ LastStageRank(b, d, p, k) \div (b * d) = p - 1
  /\ \A r \in 0 .. n - 1 :
       (r % t) = 0 /\ ((r \div t) % c) = 0 /\ r \div (b * d) = p - 1 =>
         \E k \in 0 .. d - 1 : r = LastStageRank(b, d, p, k)

LEMMA ComputeLayout ==
  ASSUME NEW t \in Nat \ {0}, NEW c \in Nat \ {0}, NEW d \in Nat \ {0}, NEW p \in Nat \ {0},
         NEW b, b = t * c
  PROVE  ComputeRanks(t, c, d, p, b, b * d * p)
<1> DEFINE z == d * (p - 1)
<1>1. b \in Nat \ {0} /\ z \in Nat /\ b * d \in Nat \ {0} /\ b * d * p \in Nat
  OBVIOUS
<1>2. b * z = b * d * (p - 1) /\ b * d * p = b * d * (p - 1) + b * d
  OBVIOUS
<1>3. ASSUME NEW k \in 0 .. d - 1
      PROVE  LET r == b * (z + k) IN
               /\ r \in 0 .. b * d * p - 1
               /\ (r % t) = 0 /\ ((r \div t) % c) = 0
               /\ ((r \div b) % d) = k /\ r \div (b * d) = p - 1
  <2> DEFINE v == z + k
             r == b * v
  <2>1. v \in Nat /\ r \in Nat /\ c * v \in Nat
    BY <1>1
  <2>2. b * k \in Nat /\ b * k <= b * d - b
    <3>1. b * k <= b * (d - 1) /\ b * (d - 1) = b * d - b
      BY <1>1
    <3> QED BY <1>1, <3>1
  <2>3. r = b * d * (p - 1) + b * k
    BY <1>1, <1>2
  <2>4. r \in 0 .. b * d * p - 1
    BY <1>1, <1>2, <2>1, <2>2, <2>3
  <2>5. r = t * (c * v) + 0
    BY <2>1
  <2>6. (r % t) = 0 /\ r \div t = c * v
    <3> HIDE DEF r, v
    <3>1. 0 \in 0 .. t - 1
      OBVIOUS
    <3> QED BY <2>1, <2>5, <3>1, QuotientAndRemainder
  <2>7. ((c * v) % c) = 0
    <3> HIDE DEF v
    <3>1. 0 \in 0 .. c - 1 /\ c * v = c * v + 0
      BY <2>1
    <3> QED BY <2>1, <3>1, QuotientAndRemainder
  <2>8. r \div b = v
    <3> HIDE DEF v
    <3>1. 0 \in 0 .. b - 1 /\ r = b * v + 0
      BY <1>1, <2>1
    <3> QED BY <1>1, <2>1, <3>1, QuotientAndRemainder
  <2>9. (v % d) = k
    <3>1. v = d * (p - 1) + k /\ p - 1 \in Nat
      OBVIOUS
    <3> HIDE DEF v
    <3> QED BY <3>1, QuotientAndRemainder
  <2>10. r \div (b * d) = p - 1
    <3> DEFINE w == b * d
               q == p - 1
               x == b * k
    <3>1. w \in Nat \ {0} /\ q \in Nat /\ x \in 0 .. w - 1
      BY <1>1, <2>2
    <3>2. r = w * q + x
      BY <2>3
    <3> HIDE DEF r, w, q, x
    <3>3. r \div w = q
      BY ONLY <3>1, <3>2, QuotientAndRemainder
    <3> QED BY <3>3 DEF w, q
  <2> HIDE DEF v
  <2> QED BY <2>4, <2>6, <2>7, <2>8, <2>9, <2>10 DEF v
<1>4. ASSUME NEW r \in 0 .. b * d * p - 1, (r % t) = 0, ((r \div t) % c) = 0, r \div (b * d) = p - 1
      PROVE  \E k \in 0 .. d - 1 : r = b * (z + k)
  <2> DEFINE u == r \div t
             v == u \div c
             s == (r % (b * d))
  <2>1. r \in Nat /\ u \in Nat /\ r = t * u
    BY <1>1, <1>4
  <2>2. v \in Nat /\ u = c * v
    <3> HIDE DEF u
    <3> QED BY <1>4, <2>1 DEF u
  <2>3. r = b * v
    <3> HIDE DEF u, v
    <3> QED BY <2>1, <2>2
  <2>4. s \in Nat /\ s < b * d /\ r = b * d * (p - 1) + s
    BY <1>1, <1>4, <2>1
  <2> HIDE DEF u, v, s
  <2>5. b * v = b * z + s
    BY <1>2, <2>3, <2>4
  <2>6. b * (v - z) = s
    <3>1. b * (v - z) = b * v - b * z
      BY <1>1, <2>2
    <3>2. b * z \in Int
      BY <1>1
    <3> QED BY <2>4, <2>5, <3>1, <3>2
  <2>7. v - z \in 0 .. d - 1
    <3>1. v - z \in Int
      BY <1>1, <2>2
    <3>2. ~ (v - z < 0)
      <4>1. v - z < 0 => b * (v - z) < 0
        BY <1>1, <3>1
      <4> QED BY <2>4, <2>6, <4>1
    <3>3. ~ (v - z >= d)
      <4>1. v - z >= d => b * (v - z) >= b * d
        BY <1>1, <3>1
      <4> QED BY <1>1, <2>4, <2>6, <4>1
    <3> QED BY <3>1, <3>2, <3>3
  <2>8. z + (v - z) = v
    BY <1>1, <2>2
  <2> QED BY <2>3, <2>7, <2>8
<1> QED BY <1>3, <1>4 DEF ComputeRanks, LastStageRank

\* The first tensor ranks are numbered as the chunks they are sent if only one of the
\* other sizes is more than one.
PpAsDpRanks(t, c, d, p, n) ==
  /\ \A u \in 0 .. d * p * c - 1 :
       /\ t * u \in 0 .. n - 1 /\ ((t * u) % t) = 0
       /\ ((((t * u) \div t) % c) * d + (((t * u) \div (t * c)) % d)) * p + (t * u) \div (t * c * d) = u
  /\ \A r \in 0 .. n - 1 :
       (r % t) = 0 => \E u \in 0 .. d * p * c - 1 : r = t * u

LEMMA PpAsDpLayout ==
  ASSUME NEW t \in Nat \ {0}, NEW c \in Nat \ {0}, NEW d \in Nat \ {0}, NEW p \in Nat \ {0},
         (p = 1 /\ c = 1) \/ (p = 1 /\ d = 1) \/ (c = 1 /\ d = 1)
  PROVE  PpAsDpRanks(t, c, d, p, t * c * d * p)
<1> DEFINE n == d * p * c
<1>1. n \in Nat \ {0} /\ t * c * d * p = t * n /\ t * n \in Nat
  OBVIOUS
<1>2. ASSUME NEW u \in 0 .. n - 1
      PROVE  LET r == t * u IN
               /\ r \in 0 .. t * c * d * p - 1 /\ (r % t) = 0
               /\ (((r \div t) % c) * d + ((r \div (t * c)) % d)) * p + r \div (t * c * d) = u
  <2> DEFINE r == t * u
  <2>1. u \in Nat /\ u <= n - 1 /\ r \in Nat
    BY <1>1
  <2>2. r \in 0 .. t * c * d * p - 1
    <3>1. t * u <= t * (n - 1) /\ t * (n - 1) = t * n - t
      BY <1>1, <2>1
    <3> QED BY <1>1, <2>1, <3>1
  <2>3. (r % t) = 0 /\ r \div t = u
    <3>1. 0 \in 0 .. t - 1 /\ r = t * u + 0
      BY <2>1
    <3> HIDE DEF r
    <3> QED BY <2>1, <3>1, QuotientAndRemainder
  <2>4. (u % n) = u
    <3>1. u = n * 0 + u /\ u \in 0 .. n - 1
      BY <1>1, <2>1
    <3> HIDE DEF n
    <3> QED BY ONLY <1>1, <2>1, <3>1, QuotientAndRemainder
  <2>5. r \div (t * n) = 0
    <3> DEFINE w == t * n
    <3>1. w \in Nat \ {0} /\ r = w * 0 + r /\ r \in 0 .. w - 1
      BY <1>1, <2>1, <2>2
    <3> HIDE DEF w, r
    <3>2. r \div w = 0
      BY ONLY <3>1, QuotientAndRemainder
    <3> QED BY <3>2 DEF w
  <2>6. \A x \in Nat : (x % 1) = 0 /\ x \div 1 = x
    OBVIOUS
  <2> HIDE DEF r
  <2>7. (((r \div t) % c) * d + ((r \div (t * c)) % d)) * p + r \div (t * c * d) = u
    <3>1. CASE p = 1 /\ c = 1
      <4>1. n = d /\ t * c = t /\ t * c * d = t * n
        BY <3>1
      <4>2. ((r \div t) % c) = 0 /\ ((r \div (t * c)) % d) = u /\ r \div (t * c * d) = 0
        BY <2>1, <2>3, <2>4, <2>5, <2>6, <3>1, <4>1
      <4> QED BY ONLY <2>1, <3>1, <4>2, d \in Nat \ {0}
    <3>2. CASE p = 1 /\ d = 1
      <4>1. n = c /\ t * c * d = t * n /\ r \div (t * c) \in Nat
        BY <2>1, <3>2
      <4>2. ((r \div t) % c) = u /\ ((r \div (t * c)) % d) = 0 /\ r \div (t * c * d) = 0
        BY <2>1, <2>3, <2>4, <2>5, <2>6, <3>2, <4>1
      <4> QED BY ONLY <2>1, <3>2, <4>2
    <3>3. CASE c = 1 /\ d = 1
      <4>1. t * c = t /\ t * c * d = t
        BY <3>3
      <4>2. ((r \div t) % c) = 0 /\ ((r \div (t * c)) % d) = 0 /\ r \div (t * c * d) = u
        BY <2>1, <2>3, <2>6, <3>3, <4>1
      <4> QED BY ONLY <2>1, <3>3, <4>2, p \in Nat \ {0}
    <3> QED BY <3>1, <3>2, <3>3
  <2> QED BY <2>2, <2>3, <2>7 DEF r
<1>3. ASSUME NEW r \in 0 .. t * n - 1, (r % t) = 0
      PROVE  \E u \in 0 .. n - 1 : r = t * u
  <2> DEFINE u == r \div t
  <2>1. u \in Nat /\ r = t * u
    BY <1>1, <1>3
  <2> HIDE DEF u
  <2>2. ~ (u >= n)
    <3>1. u >= n => t * u >= t * n
      BY <1>1, <2>1
    <3> HIDE DEF n
    <3> QED BY <1>1, <2>1, <3>1
  <2>3. u \in 0 .. n - 1
    BY <1>1, <2>1, <2>2
  <2> QED BY <2>1, <2>3
<1> QED BY <1>1, <1>2, <1>3 DEF PpAsDpRanks

Kinds == {"compute", "generate", "validate"}

\* pos lists the ranks, plus one, whose answers are taken, in increasing order, and the
\* x-th of them works on the x-th of K chunks.
InOrder(mode, pos, K) ==
  /\ pos \in [1 .. K -> 1 .. World]
  /\ \A x, y \in 1 .. K : x < y => pos[x] < pos[y]
  /\ \A x \in 1 .. K : Collects(mode, pos[x] - 1) /\ Arg(mode, pos[x] - 1) = x - 1
  /\ \A i \in 1 .. World : Collects(mode, i - 1) => \E x \in 1 .. K : pos[x] = i

LEMMA SizesType ==
  ASSUME config \in Settings
  PROVE  /\ config.tp \in Nat \ {0} /\ config.cp \in Nat \ {0}
         /\ config.dp \in Nat \ {0} /\ config.pp \in Nat \ {0}
         /\ config.tp * config.cp * config.dp * config.pp = World /\ World \in Nat \ {0}
         /\ config.nnodes \in Nat \ {0} /\ config.n_gpus_per_node \in Nat \ {0}
         /\ config.strategy = "fsdp" => config.tp = 1 /\ config.cp = 1 /\ config.pp = 1
         /\ config.strategy \in {"fsdp", "megatron"}
<1>1. /\ {config.tp, config.cp, config.dp, config.pp, config.nnodes, config.n_gpus_per_node} \subseteq Nat \ {0}
      /\ config.tp * config.cp * config.dp * config.pp = World
      /\ config.strategy = "fsdp" => config.tp = 1 /\ config.cp = 1 /\ config.pp = 1
      /\ config.strategy \in {"fsdp", "megatron"}
  BY WorkerGroupAssumption DEF World
<1>2. \A x \in {config.tp, config.cp, config.dp, config.pp, config.nnodes, config.n_gpus_per_node} : x \in Nat \ {0}
  BY <1>1
<1>3. World \in Nat \ {0}
  BY <1>2 DEF World
<1> QED BY <1>1, <1>2, <1>3

LEMMA FsdpInOrder ==
  ASSUME config \in Settings, config.strategy = "fsdp"
  PROVE  \E pos : InOrder("DP_COMPUTE_PROTO", pos, Chunks("DP_COMPUTE_PROTO"))
<1> DEFINE pos == [x \in 1 .. World |-> x]
<1>1. InOrder("DP_COMPUTE_PROTO", pos, World)
  BY SizesType DEF InOrder, Collects, Arg
<1> QED BY <1>1 DEF Chunks

LEMMA ComputeInOrder ==
  ASSUME config \in Settings
  PROVE  \E pos : InOrder("MEGATRON_COMPUTE_PROTO", pos, Chunks("MEGATRON_COMPUTE_PROTO"))
<1> DEFINE t == config.tp
           c == config.cp
           d == config.dp
           p == config.pp
           b == t * c
           m == "MEGATRON_COMPUTE_PROTO"
<1>1. /\ t \in Nat \ {0} /\ c \in Nat \ {0} /\ d \in Nat \ {0} /\ p \in Nat \ {0}
      /\ b * d * p = World /\ World \in Nat
  BY SizesType
<1>2. \A r : /\ Collects(m, r) <=> (r % t) = 0 /\ r \div (b * d) = p - 1 /\ ((r \div t) % c) = 0
             /\ Arg(m, r) = ((r \div b) % d)
  BY DEF Collects, Arg, CollectMegatronCompute, Tp, Pp, Cp, Dp
<1>3. Chunks(m) = d
  BY DEF Chunks
<1> DEFINE rank(k) == LastStageRank(b, d, p, k)
           pos == [x \in 1 .. d |-> rank(x - 1) + 1]
<1> HIDE DEF t, c, d, p, m
<1>4. /\ \A k \in 0 .. d - 1 :
           /\ rank(k) \in 0 .. World - 1
           /\ (rank(k) % t) = 0 /\ ((rank(k) \div t) % c) = 0
           /\ ((rank(k) \div b) % d) = k /\ rank(k) \div (b * d) = p - 1
      /\ \A r \in 0 .. World - 1 :
           (r % t) = 0 /\ ((r \div t) % c) = 0 /\ r \div (b * d) = p - 1 =>
             \E k \in 0 .. d - 1 : r = rank(k)
  <2>1. ComputeRanks(t, c, d, p, b, b * d * p)
    BY <1>1, ComputeLayout
  <2> QED BY <1>1, <2>1 DEF ComputeRanks
<1>5. \A k, l \in 0 .. d - 1 : k < l => rank(k) < rank(l)
  <2> SUFFICES ASSUME NEW k \in 0 .. d - 1, NEW l \in 0 .. d - 1, k < l PROVE rank(k) < rank(l)
    OBVIOUS
  <2> DEFINE z == d * (p - 1)
  <2>1. z \in Nat /\ b \in Nat \ {0} /\ k \in Nat /\ l \in Nat
    BY <1>1
  <2> HIDE DEF z, b
  <2>2. b * (z + k) < b * (z + l)
    BY <2>1
  <2> QED BY <2>2 DEF z, LastStageRank
<1>6. \A x \in 1 .. d : x - 1 \in 0 .. d - 1 /\ pos[x] = rank(x - 1) + 1
  BY <1>1
<1> HIDE DEF b, rank
<1>7. \A k \in 0 .. d - 1 : k + 1 \in 1 .. d /\ pos[k + 1] = rank(k) + 1
  BY <1>1
<1>8. \A x \in 1 .. d : pos[x] \in 1 .. World /\ pos[x] - 1 = rank(x - 1)
  BY <1>1, <1>4, <1>6
<1>9. pos \in [1 .. d -> 1 .. World]
  BY <1>8
<1> HIDE DEF pos
<1>10. \A x, y \in 1 .. d : x < y => pos[x] < pos[y]
  <2> SUFFICES ASSUME NEW x \in 1 .. d, NEW y \in 1 .. d, x < y PROVE pos[x] < pos[y]
    OBVIOUS
  <2>1. x - 1 \in 0 .. d - 1 /\ y - 1 \in 0 .. d - 1 /\ x - 1 < y - 1
    BY <1>6
  <2>2. rank(x - 1) < rank(y - 1)
    BY <1>5, <2>1
  <2>3. pos[x] - 1 < pos[y] - 1 /\ pos[x] \in Int /\ pos[y] \in Int
    BY <1>1, <2>2, <1>8
  <2> QED BY ONLY <2>3
<1>11. \A x \in 1 .. d : Collects(m, pos[x] - 1) /\ Arg(m, pos[x] - 1) = x - 1
  BY <1>2, <1>4, <1>6, <1>8
<1>12. ASSUME NEW i \in 1 .. World, Collects(m, i - 1) PROVE \E x \in 1 .. d : pos[x] = i
  <2>1. i - 1 \in 0 .. World - 1
    BY <1>1
  <2>2. PICK k \in 0 .. d - 1 : i - 1 = rank(k)
    BY <1>2, <1>4, <1>12, <2>1
  <2>3. k + 1 \in 1 .. d /\ pos[k + 1] = i
    BY <1>1, <1>7, <2>2
  <2> QED BY <2>3
<1>13. InOrder(m, pos, d)
  BY <1>9, <1>10, <1>11, <1>12 DEF InOrder
<1> QED BY <1>3, <1>13 DEF m

LEMMA PpAsDpInOrder ==
  ASSUME config \in Settings, ~ Stages
  PROVE  \E pos : InOrder("MEGATRON_PP_AS_DP_PROTO", pos, Chunks("MEGATRON_PP_AS_DP_PROTO"))
<1> DEFINE t == config.tp
           c == config.cp
           d == config.dp
           p == config.pp
           n == d * p * c
           m == "MEGATRON_PP_AS_DP_PROTO"
<1>1. /\ t \in Nat \ {0} /\ c \in Nat \ {0} /\ d \in Nat \ {0} /\ p \in Nat \ {0}
      /\ t * c * d * p = World /\ World \in Nat
  BY SizesType
<1>2. (p = 1 /\ c = 1) \/ (p = 1 /\ d = 1) \/ (c = 1 /\ d = 1)
  <2>1. ~ (p > 1 /\ d * c > 1) /\ ~ (c > 1 /\ d > 1)
    BY DEF Stages
  <2>2. CASE p = 1
    BY <1>1, <2>1, <2>2
  <2>3. CASE p # 1
    <3>1. ~ (d * c > 1)
      BY <1>1, <2>1, <2>3
    <3>2. c > 1 => d * c >= c
      BY <1>1
    <3>3. d > 1 => d * c >= d
      BY <1>1
    <3>4. d * c \in Nat
      BY <1>1
    <3> HIDE DEF t, c, d, p
    <3> QED BY ONLY <1>1, <3>1, <3>2, <3>3, <3>4
  <2> QED BY <2>2, <2>3
<1>3. \A r : /\ Collects(m, r) <=> (r % t) = 0
             /\ Arg(m, r) = (((r \div t) % c) * d + ((r \div (t * c)) % d)) * p + r \div (t * c * d)
  BY DEF Collects, Arg, CollectPpAsDp, PpAsDpArg, Tp, Pp, Cp, Dp
<1>4. Chunks(m) = n
  BY DEF Chunks
<1> DEFINE rank(u) == t * u
           pos == [x \in 1 .. n |-> rank(x - 1) + 1]
<1> HIDE DEF t, c, d, p, m
<1>5. /\ \A u \in 0 .. n - 1 :
           /\ rank(u) \in 0 .. World - 1 /\ (rank(u) % t) = 0
           /\ (((rank(u) \div t) % c) * d + ((rank(u) \div (t * c)) % d)) * p + rank(u) \div (t * c * d) = u
      /\ \A r \in 0 .. World - 1 :
           (r % t) = 0 => \E u \in 0 .. n - 1 : r = rank(u)
  <2>1. PpAsDpRanks(t, c, d, p, t * c * d * p)
    BY <1>1, <1>2, PpAsDpLayout
  <2> QED BY <1>1, <2>1 DEF PpAsDpRanks
<1>6. n \in Nat
  BY <1>1
<1> HIDE DEF n
<1>7. \A k, l \in 0 .. n - 1 : k < l => rank(k) < rank(l)
  <2> SUFFICES ASSUME NEW k \in 0 .. n - 1, NEW l \in 0 .. n - 1, k < l PROVE rank(k) < rank(l)
    OBVIOUS
  <2>1. t * k < t * l
    BY <1>1, <1>6
  <2> QED BY <2>1
<1>8. \A x \in 1 .. n : x - 1 \in 0 .. n - 1 /\ pos[x] = rank(x - 1) + 1
  BY <1>6
<1> HIDE DEF rank
<1>9. \A k \in 0 .. n - 1 : k + 1 \in 1 .. n /\ pos[k + 1] = rank(k) + 1
  BY <1>6
<1>10. \A x \in 1 .. n : pos[x] \in 1 .. World /\ pos[x] - 1 = rank(x - 1)
  BY <1>1, <1>5, <1>8
<1>11. pos \in [1 .. n -> 1 .. World]
  BY <1>10
<1> HIDE DEF pos
<1>12. \A x, y \in 1 .. n : x < y => pos[x] < pos[y]
  <2> SUFFICES ASSUME NEW x \in 1 .. n, NEW y \in 1 .. n, x < y PROVE pos[x] < pos[y]
    OBVIOUS
  <2>1. x - 1 \in 0 .. n - 1 /\ y - 1 \in 0 .. n - 1 /\ x - 1 < y - 1
    BY <1>6, <1>8
  <2>2. rank(x - 1) < rank(y - 1)
    BY <1>7, <2>1
  <2>3. pos[x] - 1 < pos[y] - 1 /\ pos[x] \in Int /\ pos[y] \in Int
    BY <1>1, <2>2, <1>10
  <2> QED BY ONLY <2>3
<1>13. \A x \in 1 .. n : Collects(m, pos[x] - 1) /\ Arg(m, pos[x] - 1) = x - 1
  BY <1>3, <1>5, <1>8, <1>10
<1>14. ASSUME NEW i \in 1 .. World, Collects(m, i - 1) PROVE \E x \in 1 .. n : pos[x] = i
  <2>1. i - 1 \in 0 .. World - 1
    BY <1>1
  <2>2. PICK k \in 0 .. n - 1 : i - 1 = rank(k)
    BY <1>3, <1>5, <1>14, <2>1
  <2>3. k + 1 \in 1 .. n /\ pos[k + 1] = i
    BY <1>1, <1>9, <2>2
  <2> QED BY <2>3
<1>15. InOrder(m, pos, n)
  BY <1>11, <1>12, <1>13, <1>14 DEF InOrder
<1> QED BY <1>4, <1>15 DEF m

\* Of every call whose order is promised, the answers that are taken are of the chunks in order.
LEMMA CollectedInOrder ==
  ASSUME config \in Settings, NEW kind \in Kinds, Stages => kind = "compute"
  PROVE  \E pos : InOrder(Mode(kind), pos, Chunks(Mode(kind)))
<1>1. CASE config.strategy = "fsdp"
  <2>1. Mode(kind) = "DP_COMPUTE_PROTO"
    BY <1>1 DEF Mode
  <2>2. \E pos : InOrder("DP_COMPUTE_PROTO", pos, Chunks("DP_COMPUTE_PROTO"))
    BY <1>1, FsdpInOrder
  <2> QED BY ONLY <2>1, <2>2
<1>2. CASE config.strategy # "fsdp" /\ kind = "compute"
  <2>1. Mode(kind) = "MEGATRON_COMPUTE_PROTO"
    BY <1>2, SizesType DEF Mode
  <2>2. \E pos : InOrder("MEGATRON_COMPUTE_PROTO", pos, Chunks("MEGATRON_COMPUTE_PROTO"))
    BY <1>2, ComputeInOrder
  <2> QED BY ONLY <2>1, <2>2
<1>3. CASE config.strategy # "fsdp" /\ kind # "compute"
  <2>1. Mode(kind) = "MEGATRON_PP_AS_DP_PROTO"
    BY <1>3, SizesType DEF Mode
  <2>2. \E pos : InOrder("MEGATRON_PP_AS_DP_PROTO", pos, Chunks("MEGATRON_PP_AS_DP_PROTO"))
    BY <1>3, PpAsDpInOrder
  <2> QED BY ONLY <2>1, <2>2
<1> QED BY <1>1, <1>2, <1>3

\* The ranks are a multiple of the chunks.
LEMMA ChunksDivide ==
  ASSUME config \in Settings, NEW kind \in Kinds
  PROVE  /\ Chunks(Mode(kind)) \in Nat \ {0}
         /\ \E q \in Nat \ {0} : World = Chunks(Mode(kind)) * q
<1> DEFINE t == config.tp
           c == config.cp
           d == config.dp
           p == config.pp
<1>1. /\ t \in Nat \ {0} /\ c \in Nat \ {0} /\ d \in Nat \ {0} /\ p \in Nat \ {0}
      /\ t * c * d * p = World /\ World \in Nat \ {0}
  BY SizesType
<1>2. Mode(kind) \in {"DP_COMPUTE_PROTO", "MEGATRON_COMPUTE_PROTO", "MEGATRON_PP_AS_DP_PROTO"}
  BY DEF Mode
<1>3. CASE Mode(kind) = "DP_COMPUTE_PROTO"
  <2>1. Chunks(Mode(kind)) = World /\ World = World * 1
    BY <1>1, <1>3 DEF Chunks
  <2> QED BY <1>1, <2>1
<1>4. CASE Mode(kind) = "MEGATRON_COMPUTE_PROTO"
  <2>1. Chunks(Mode(kind)) = d
    BY <1>4 DEF Chunks
  <2>2. World = d * (t * c * p) /\ t * c * p \in Nat \ {0}
    <3> HIDE DEF t, c, d, p
    <3> QED BY <1>1
  <2> QED BY <1>1, <2>1, <2>2
<1>5. CASE Mode(kind) = "MEGATRON_PP_AS_DP_PROTO"
  <2>1. Chunks(Mode(kind)) = d * p * c
    BY <1>5 DEF Chunks
  <2>2. World = (d * p * c) * t /\ d * p * c \in Nat \ {0}
    <3> HIDE DEF t, c, d, p
    <3> QED BY <1>1
  <2> QED BY <1>1, <2>1, <2>2
<1> QED BY <1>2, <1>3, <1>4, <1>5

-----------------------------------------------------------------------------
(* The batch of a call                                                      *)

\* The rows of a call, and the batch that is made of them.
Rows(n) == [i \in 1 .. n |-> i]
Batch(kind, n) == IF kind = "validate" THEN PadToDivisor(Rows(n)) ELSE Rows(n)

\* The batch b of n rows starts with them and is a multiple m of K in length.
Divisible(b, n, m, K) ==
  /\ b \in Seq(Nat) /\ Len(b) = m * K /\ n <= Len(b)
  /\ \A i \in 1 .. n : b[i] = i

LEMMA PaddedRows ==
  ASSUME NEW n \in Nat \ {0}, NEW w \in Nat \ {0}, World = w
  PROVE  \E m \in Nat : Divisible(PadToDivisor(Rows(n)), n, m, w)
<1> DEFINE x == (n % w)
           q == n \div w
           pad == PadSize(Rows(n))
           b == PadToDivisor(Rows(n))
<1>1. x \in 0 .. w - 1 /\ q \in Nat /\ n = w * q + x
  OBVIOUS
<1>2. Rows(n) \in Seq(Nat) /\ Len(Rows(n)) = n /\ \A i \in 1 .. n : Rows(n)[i] = i
  BY DEF Rows
<1>3. pad = ((w - x) % w)
  BY <1>2 DEF PadSize
<1>4. \A i \in Nat : (i % n) \in 0 .. n - 1
  OBVIOUS
<1> HIDE DEF x, q, pad
<1>5. pad \in Nat /\ \E m \in Nat : n + pad = m * w
  <2>1. CASE x = 0
    <3>1. (w % w) = 0
      <4>1. w = w * 1 + 0 /\ 0 \in 0 .. w - 1
        OBVIOUS
      <4> QED BY <4>1, QuotientAndRemainder
    <3>2. pad = 0
      BY <1>3, <2>1, <3>1
    <3>3. n + pad = q * w
      BY <1>1, <2>1, <3>2
    <3> QED BY <1>1, <3>2, <3>3
  <2>2. CASE x # 0
    <3>1. w - x \in 0 .. w - 1 /\ w - x \in Nat
      BY <1>1, <2>2
    <3>2. ((w - x) % w) = w - x
      <4>1. w - x = w * 0 + (w - x)
        BY <3>1
      <4> QED BY <3>1, <4>1, QuotientAndRemainder
    <3>3. pad = w - x
      BY <1>3, <3>2
    <3>4. (q + 1) * w = w * q + w /\ q + 1 \in Nat
      BY <1>1
    <3>5. n + pad = (q + 1) * w
      <4> DEFINE z == w * q
      <4>1. z \in Nat /\ n = z + x /\ (q + 1) * w = z + w
        BY <1>1, <3>4
      <4> HIDE DEF z
      <4> QED BY ONLY <1>1, <3>3, <4>1, w \in Nat \ {0}
    <3> QED BY <3>1, <3>3, <3>4, <3>5
  <2> QED BY <2>1, <2>2
<1> DEFINE t == [i \in 1 .. pad |-> Rows(n)[((i - 1) % n) + 1]]
<1>6. t \in Seq(Nat) /\ Len(t) = pad
  <2>1. ASSUME NEW i \in 1 .. pad PROVE Rows(n)[((i - 1) % n) + 1] \in Nat
    <3>1. i - 1 \in Nat
      BY <1>5
    <3>2. ((i - 1) % n) + 1 \in 1 .. n
      BY <1>4, <3>1
    <3> QED BY <1>2, <3>2
  <2> QED BY <1>5, <2>1
<1>7. b = Rows(n) \o t
  BY <1>2 DEF PadToDivisor, pad
<1> HIDE DEF t, b
<1>8. b \in Seq(Nat) /\ Len(b) = n + pad /\ \A i \in 1 .. n : b[i] = i
  <2> DEFINE r == Rows(n)
  <2>1. r \in Seq(Nat) /\ Len(r) = n /\ \A i \in 1 .. n : r[i] = i
    BY <1>2
  <2> HIDE DEF r
  <2>2. /\ r \o t \in Seq(Nat) /\ Len(r \o t) = n + pad
        /\ \A i \in 1 .. n + pad : (r \o t)[i] = IF i <= n THEN r[i] ELSE t[i - n]
    BY <1>6, <2>1, ElementsOfJoin
  <2>3. \A i \in 1 .. n : i \in 1 .. n + pad /\ i <= n
    BY <1>5
  <2>4. \A i \in 1 .. n : (r \o t)[i] = i
    BY <2>1, <2>2, <2>3
  <2> QED BY <1>7, <2>2, <2>4 DEF r
<1>9. n <= Len(b)
  BY <1>5, <1>8
<1>10. PICK m \in Nat : n + pad = m * w
  BY <1>5
<1>11. Divisible(b, n, m, w)
  BY <1>8, <1>9, <1>10 DEF Divisible
<1> QED BY <1>11 DEF b

\* A multiple is the divisor times the quotient.
LEMMA QuotientOfMultiple ==
  ASSUME NEW n \in Nat, NEW K \in Nat \ {0}, (n % K) = 0
  PROVE  \E m \in Nat : n = m * K
<1>1. n \div K \in Nat /\ n = K * (n \div K) + (n % K)
  OBVIOUS
<1> DEFINE m == n \div K
<1>2. m \in Nat /\ n = K * m
  BY <1>1
<1> HIDE DEF m
<1>3. n = m * K
  BY <1>2
<1> QED BY <1>2, <1>3

\* A batch has a row.
LEMMA SizePositive ==
  ASSUME config \in Settings, NEW kind \in Kinds, NEW n \in Sizes(kind)
  PROVE  n \in Nat \ {0}
<1>1. config.nnodes \in Nat \ {0} /\ config.n_gpus_per_node \in Nat \ {0} /\ ValSizes \subseteq Nat \ {0}
  BY SizesType, WorkerGroupAssumption
<1>2. CASE kind = "validate"
  BY <1>1, <1>2 DEF Sizes
<1>3. CASE kind # "validate"
  <2>1. PICK k \in 1 .. 2 * config.nnodes : n = k * config.n_gpus_per_node
    BY <1>3 DEF Sizes
  <2>2. k \in Nat \ {0}
    BY <1>1, <2>1
  <2>3. \A x, y \in Nat \ {0} : x * y \in Nat \ {0}
    OBVIOUS
  <2> QED BY <1>1, <2>1, <2>2, <2>3
<1> QED BY <1>2, <1>3

\* A padded batch, and one that goes round all ranks, can be cut into as many chunks as
\* its mode asks for.
LEMMA BatchDivides ==
  ASSUME config \in Settings, NEW kind \in Kinds, NEW n \in Sizes(kind),
         kind = "validate" \/ (n % World) = 0
  PROVE  \E m \in Nat : Divisible(Batch(kind, n), n, m, Chunks(Mode(kind)))
<1> DEFINE w == World
           K == Chunks(Mode(kind))
<1>1. w \in Nat \ {0} /\ K \in Nat \ {0}
  BY SizesType, ChunksDivide
<1>2. PICK q \in Nat \ {0} : w = K * q
  BY ChunksDivide
<1>3. n \in Nat \ {0}
  BY SizePositive
<1>4. PICK u \in Nat : Divisible(Batch(kind, n), n, u, w)
  <2>1. CASE kind = "validate"
    BY <1>1, <1>3, <2>1, PaddedRows DEF Batch
  <2>2. CASE kind # "validate"
    <3>1. PICK u \in Nat : n = u * w
      BY <1>1, <1>3, <2>2, QuotientOfMultiple
    <3>2. Divisible(Rows(n), n, u, w)
      BY <1>3, <3>1 DEF Divisible, Rows
    <3> QED BY <2>2, <3>2 DEF Batch
  <2> QED BY <2>1, <2>2
<1>5. u * w = (u * q) * K /\ u * q \in Nat
  <2> HIDE DEF w, K
  <2> QED BY <1>1, <1>2
<1>6. Divisible(Batch(kind, n), n, u * q, K)
  BY <1>4, <1>5 DEF Divisible
<1> QED BY <1>5, <1>6

\* So can one that is not refused.
LEMMA CutBatch ==
  ASSUME config \in Settings, NEW kind \in Kinds, NEW n \in Sizes(kind),
         (Len(Batch(kind, n)) % Chunks(Mode(kind))) = 0
  PROVE  /\ n \in Nat \ {0}
         /\ Chunks(Mode(kind)) \in Nat \ {0}
         /\ \E m \in Nat : Divisible(Batch(kind, n), n, m, Chunks(Mode(kind)))
<1> DEFINE K == Chunks(Mode(kind))
<1>1. K \in Nat \ {0} /\ n \in Nat \ {0}
  BY SizePositive, ChunksDivide
<1>2. CASE kind = "validate"
  BY <1>1, <1>2, BatchDivides
<1>3. CASE kind # "validate"
  <2>1. Batch(kind, n) = Rows(n) /\ Len(Rows(n)) = n
    BY <1>1, <1>3 DEF Batch, Rows
  <2>2. PICK m \in Nat : n = m * K
    BY <1>1, <2>1, QuotientOfMultiple
  <2>3. Divisible(Rows(n), n, m, K)
    BY <1>1, <2>2 DEF Divisible, Rows
  <2> QED BY <1>1, <2>1, <2>3
<1> QED BY <1>2, <1>3

LEMMA DivisibleLength ==
  ASSUME NEW b, NEW n, NEW m \in Nat, NEW K \in Nat \ {0}, Divisible(b, n, m, K)
  PROVE  (Len(b) % K) = 0 /\ Len(b) \div K = m
<1>1. Len(b) = K * m + 0 /\ 0 \in 0 .. K - 1
  BY DEF Divisible
<1> QED BY <1>1, QuotientAndRemainder

\* On one node every batch goes round all ranks.
LEMMA OneNodeDivides ==
  ASSUME config \in Settings, ~ (config.nnodes > 1), NEW kind \in Kinds, kind # "validate",
         NEW n \in Sizes(kind)
  PROVE  (n % World) = 0
<1>1. config.nnodes \in Nat \ {0} /\ config.n_gpus_per_node \in Nat \ {0}
  BY SizesType
<1>2. World = config.n_gpus_per_node
  BY <1>1 DEF World
<1>3. PICK k \in 1 .. 2 * config.nnodes : n = k * config.n_gpus_per_node
  BY DEF Sizes
<1>4. n = World * k + 0 /\ 0 \in 0 .. World - 1 /\ k \in Nat /\ n \in Nat
  BY <1>1, <1>2, <1>3
<1> QED BY <1>1, <1>2, <1>4, QuotientAndRemainder

\* Cut as its mode says, worked on by the ranks whose answers are taken, and joined, a batch is itself.
LEMMA ConcatInOrder ==
  ASSUME NEW mode, NEW K \in Nat \ {0}, NEW m \in Nat, NEW pos, InOrder(mode, pos, K),
         NEW n, NEW b, Divisible(b, n, m, K), World \in Nat \ {0}, NEW output,
         \A r \in Ranks : Collects(mode, r) => output[r] = Chunk(b, K, Arg(mode, r))
  PROVE  Concat(mode, output) = b
<1> DEFINE w == World
           c == [r \in 1 .. w |-> IF Collects(mode, r - 1) THEN output[r - 1] ELSE <<>>]
           C(r) == Collects(mode, r)
           A(r) == Arg(mode, r)
           part(x) == SubSeq(b, x * m + 1, (x + 1) * m)
<1>1. /\ pos \in [1 .. K -> 1 .. w]
      /\ \A x, y \in 1 .. K : x < y => pos[x] < pos[y]
      /\ \A x \in 1 .. K : C(pos[x] - 1) /\ A(pos[x] - 1) = x - 1
      /\ \A i \in 1 .. w : C(i - 1) => \E x \in 1 .. K : pos[x] = i
  BY DEF InOrder
<1>2. b \in Seq(Nat) /\ Len(b) = m * K /\ Len(b) \div K = m
  BY DivisibleLength DEF Divisible
<1>3. w \in Nat \ {0} /\ \A r \in 0 .. w - 1 : C(r) => output[r] = part(A(r))
  BY <1>2 DEF Ranks, Chunk
<1>4. Concat(mode, output) = FlattenSeq(c)
  BY DEF Concat
<1>0. c = [r \in 1 .. w |-> c[r]] /\ \A r \in 1 .. w : c[r] = IF C(r - 1) THEN output[r - 1] ELSE <<>>
  OBVIOUS
<1> HIDE DEF w, C, A, c
<1>5. ASSUME NEW x \in 0 .. K - 1
      PROVE  /\ part(x) \in Seq(Nat) /\ Len(part(x)) = m
             /\ \A j \in 1 .. m : part(x)[j] = b[m * x + j]
  <2> DEFINE f == m * x
             g == m * x + m
  <2>1. x * m + 1 = f + 1 /\ (x + 1) * m = g
    OBVIOUS
  <2>2. f \in Nat /\ g = f + m
    OBVIOUS
  <2>3. g <= m * K
    <3>1. m * (x + 1) <= m * K /\ m * (x + 1) = g
      OBVIOUS
    <3> QED BY <3>1
  <2> HIDE DEF f, g
  <2>4. \A i \in f + 1 .. g : b[i] \in Nat
    <3>1. \A i \in f + 1 .. g : i \in 1 .. Len(b)
      BY <1>2, <2>2, <2>3
    <3> QED BY <1>2, <3>1
  <2>5. f + 1 \in Int /\ g \in Int
    BY <2>2
  <2>6. /\ SubSeq(b, f + 1, g) \in Seq(Nat)
        /\ Len(SubSeq(b, f + 1, g)) = IF f + 1 <= g THEN g - (f + 1) + 1 ELSE 0
        /\ \A i \in 1 .. g - (f + 1) + 1 : SubSeq(b, f + 1, g)[i] = b[f + 1 + i - 1]
    BY ONLY <2>4, <2>5, SubSeqProperties
  <2>7. part(x) = SubSeq(b, f + 1, g)
    BY <2>1
  <2> HIDE DEF part
  <2>8. Len(part(x)) = m
    BY <2>2, <2>6, <2>7
  <2>9. \A j \in 1 .. m : j \in 1 .. g - (f + 1) + 1 /\ f + 1 + j - 1 = f + j
    BY <2>2
  <2>10. \A j \in 1 .. m : part(x)[j] = b[f + j]
    BY <2>6, <2>7, <2>9
  <2> QED BY <2>6, <2>7, <2>8, <2>10 DEF f
<1> HIDE DEF part
<1>6. \A x \in 1 .. K : /\ pos[x] \in 1 .. w /\ x - 1 \in 0 .. K - 1
                         /\ pos[x] - 1 \in 0 .. w - 1 /\ c[pos[x]] = part(x - 1)
  <2> SUFFICES ASSUME NEW x \in 1 .. K
               PROVE  /\ pos[x] \in 1 .. w /\ x - 1 \in 0 .. K - 1
                      /\ pos[x] - 1 \in 0 .. w - 1 /\ c[pos[x]] = part(x - 1)
    OBVIOUS
  <2>1. pos[x] \in 1 .. w /\ x - 1 \in 0 .. K - 1
    BY <1>1
  <2>2. pos[x] - 1 \in 0 .. w - 1
    BY <1>3, <2>1
  <2>3. c[pos[x]] = output[pos[x] - 1]
    BY <1>0, <1>1, <2>1
  <2>4. output[pos[x] - 1] = part(x - 1)
    BY <1>1, <1>3, <2>2
  <2> QED BY <2>1, <2>2, <2>3, <2>4
<1>7. \A i \in 1 .. w : (\A x \in 1 .. K : pos[x] # i) => c[i] = <<>>
  BY <1>0, <1>1
<1>8. c \in [1 .. w -> Seq(Nat)]
  <2>1. ASSUME NEW i \in 1 .. w PROVE c[i] \in Seq(Nat)
    <3>1. ASSUME NEW x \in 1 .. K, pos[x] = i PROVE c[i] \in Seq(Nat)
      BY <1>5, <1>6, <3>1
    <3>2. CASE \A x \in 1 .. K : pos[x] # i
      <4>1. c[i] = <<>>
        BY <1>7, <3>2
      <4> QED BY <4>1
    <3> QED BY <3>1, <3>2
  <2> QED BY <1>0, <2>1
<1>9. Selected(c, w, pos, K, m, Nat)
  <2>1. \A x \in 1 .. K : Len(c[pos[x]]) = m
    BY <1>5, <1>6
  <2>2. \A i \in 1 .. w : (\A x \in 1 .. K : pos[x] # i) => Len(c[i]) = 0
    BY <1>7
  <2> QED BY <1>1, <1>8, <2>1, <2>2 DEF Selected
<1> DEFINE s == FlattenSeq(c)
<1>10. SelectedAt(s, c, pos, K, m, Nat)
  BY <1>3, <1>9, FlattenSelected
<1> HIDE DEF s
<1>11. s \in Seq(Nat) /\ Len(s) = m * K
  BY <1>10 DEF SelectedAt
<1>12. ASSUME NEW x \in 1 .. K, NEW j \in 1 .. m
       PROVE  s[m * (x - 1) + j] = b[m * (x - 1) + j]
  <2>1. s[m * (x - 1) + j] = c[pos[x]][j]
    BY <1>10 DEF SelectedAt
  <2>2. part(x - 1)[j] = b[m * (x - 1) + j]
    BY <1>5, <1>6
  <2> QED BY <1>6, <2>1, <2>2
<1>13. ASSUME NEW y \in 1 .. Len(s) PROVE s[y] = b[y]
  <2> DEFINE r == y - 1
             x == (r \div m) + 1
             j == (r % m) + 1
  <2>1. m \in Nat \ {0} /\ r \in 0 .. K * m - 1
    <3>1. m * K = K * m /\ (m = 0 => m * K = 0) /\ m * K \in Nat
      OBVIOUS
    <3> QED BY <1>11, <3>1
  <2>2. r \div m \in 0 .. K - 1 /\ r = m * (r \div m) + (r % m) /\ (r % m) \in 0 .. m - 1
    <3>1. (r % m) \in 0 .. m - 1
      BY <2>1
    <3> HIDE DEF r
    <3> QED BY <2>1, <3>1, GroupInRange
  <2>3. x \in 1 .. K /\ j \in 1 .. m /\ x - 1 = r \div m
    <3> HIDE DEF r
    <3> QED BY <2>1, <2>2
  <2>4. y = m * (x - 1) + j
    <3> DEFINE z == m * (r \div m)
    <3>1. z \in Int /\ r = z + (r % m) /\ m * (x - 1) = z /\ (r % m) \in Int
      BY <2>1, <2>2, <2>3
    <3>2. y = r + 1 /\ y \in Int /\ j = (r % m) + 1
      BY <1>11
    <3> HIDE DEF z, x, j, r
    <3> QED BY ONLY <3>1, <3>2
  <2> HIDE DEF x, j
  <2> QED BY <1>12, <2>3, <2>4
<1>14. s = b
  BY <1>2, <1>11, <1>13, SeqEqual
<1> QED BY <1>4, <1>14 DEF s

-----------------------------------------------------------------------------
(* Calls                                                                       *)

\* The ranks that work on one batch are sent the same chunk of it.
LEMMA PartnersAgree ==
  ASSUME NEW kind \in Kinds, NEW r \in Ranks, NEW s \in Partners(Mode(kind), r)
  PROVE  s \in Ranks /\ Arg(Mode(kind), s) = Arg(Mode(kind), r)
<1>1. Mode(kind) \in {"DP_COMPUTE_PROTO", "MEGATRON_COMPUTE_PROTO", "MEGATRON_PP_AS_DP_PROTO"}
  BY DEF Mode
<1>2. CASE Mode(kind) = "DP_COMPUTE_PROTO"
  BY <1>2 DEF Partners, Arg
<1>3. CASE Mode(kind) = "MEGATRON_COMPUTE_PROTO"
  BY <1>3 DEF Partners, Arg
<1>4. CASE Mode(kind) = "MEGATRON_PP_AS_DP_PROTO"
  BY <1>4 DEF Partners, Arg, PpAsDpArg
<1> QED BY <1>1, <1>2, <1>3, <1>4

\* The call that runs: every worker has its chunk of the batch, and has answered with it or not yet.
CallOf(kind, n) ==
  /\ call = [kind |-> kind, rows |-> Rows(n), pad |-> Len(Batch(kind, n)) - n]
  /\ (Len(Batch(kind, n)) % Chunks(Mode(kind))) = 0
  /\ inbox = Sent(Mode(kind), Batch(kind, n))
  /\ outbox = [r \in Ranks |-> outbox[r]]
  /\ \A r \in Ranks : outbox[r] \in {None, inbox[r]}

CallInv ==
  /\ pc \in {"pool", "waiting", "starting"} => call = None
  /\ pc \in {"pool", "waiting", "starting", "raised"} => answer = None
  /\ pc = "raised" /\ call # None =>
       config.nnodes > 1 /\ call.kind # "validate" /\ (Len(call.rows) % World) # 0
  /\ pc = "calling" => \E kind \in Kinds : \E n \in Sizes(kind) : CallOf(kind, n)
  /\ Returned /\ (Stages => call.kind = "compute") => answer = call.rows

\* How a batch is made and cut depends on the setting alone.
LEMMA CutStays ==
  ASSUME NEW kind, NEW n, UNCHANGED config
  PROVE  /\ Ranks' = Ranks /\ Sizes(kind)' = Sizes(kind)
         /\ Rows(n)' = Rows(n) /\ Batch(kind, n)' = Batch(kind, n)
         /\ Chunks(Mode(kind))' = Chunks(Mode(kind)) /\ World' = World
         /\ Sent(Mode(kind), Batch(kind, n))' = Sent(Mode(kind), Batch(kind, n))
<1>1. Ranks' = Ranks /\ Sizes(kind)' = Sizes(kind) /\ Rows(n)' = Rows(n)
  BY DEF Ranks, World, Sizes, Rows
<1>2. Batch(kind, n)' = Batch(kind, n)
  BY DEF Batch, PadToDivisor, PadSize, Rows, World
<1>3. Sent(Mode(kind), Batch(kind, n))' = Sent(Mode(kind), Batch(kind, n))
  BY <1>2 DEF Sent, Mode, Chunks, Chunk, Arg, PpAsDpArg, Cp, Dp, Pp, Ranks, World
<1>4. Chunks(Mode(kind))' = Chunks(Mode(kind)) /\ World' = World
  BY DEF Mode, Chunks, World
<1> QED BY <1>1, <1>2, <1>3, <1>4

LEMMA CallStays ==
  ASSUME NEW kind, NEW n, CallOf(kind, n), UNCHANGED <<config, call, inbox, outbox>>
  PROVE  CallOf(kind, n)'
<1>1. UNCHANGED config
  OBVIOUS
<1> QED BY <1>1, CutStays DEF CallOf

\* A worker answers with the chunk that it was sent.
LEMMA WorkerAnswers ==
  ASSUME NEW kind \in Kinds, NEW n, CallOf(kind, n), NEW r \in Ranks, Work(r)
  PROVE  CallOf(kind, n)'
<1>1. /\ UNCHANGED <<config, call, inbox>>
      /\ outbox' = [outbox EXCEPT ![r] =
           IF \A s \in Partners(Mode(call.kind), r) : inbox[s] = inbox[r]
             THEN inbox[r] ELSE [i \in DOMAIN inbox[r] |-> None]]
  BY DEF Work
<1>2. \A s \in Partners(Mode(kind), r) : inbox[s] = inbox[r]
  BY PartnersAgree DEF CallOf, Sent
<1>3. outbox' = [outbox EXCEPT ![r] = inbox[r]]
  BY <1>1, <1>2 DEF CallOf
<1>4. outbox' = [s \in Ranks |-> outbox'[s]] /\ \A s \in Ranks : outbox'[s] \in {None, inbox[s]}
  BY <1>3 DEF CallOf
<1> QED BY <1>1, <1>4, CutStays DEF CallOf

\* What the driver puts together from all answers is what it had cut.
LEMMA AnswerIsTheRows ==
  ASSUME config \in Settings, NEW kind \in Kinds, NEW n \in Sizes(kind), CallOf(kind, n),
         Stages => kind = "compute", \A r \in Ranks : outbox[r] # None
  PROVE  Unpad(Concat(Mode(call.kind), outbox), call.pad) = call.rows
<1> DEFINE mode == Mode(kind)
           K == Chunks(mode)
           b == Batch(kind, n)
<1>1. n \in Nat \ {0} /\ K \in Nat \ {0} /\ World \in Nat \ {0}
  BY CutBatch, SizesType DEF CallOf
<1>2. PICK m \in Nat : Divisible(b, n, m, K)
  BY CutBatch DEF CallOf
<1>3. PICK pos : InOrder(mode, pos, K)
  BY CollectedInOrder
<1>4. call.kind = kind /\ call.rows = Rows(n) /\ call.pad = Len(b) - n
  BY DEF CallOf
<1>5. \A r \in Ranks : outbox[r] = Chunk(b, K, Arg(mode, r))
  BY DEF CallOf, Sent
<1> HIDE DEF mode, K, b
<1>6. Concat(mode, outbox) = b
  BY <1>1, <1>2, <1>3, <1>5, ConcatInOrder
<1>7. b \in Seq(Nat) /\ Len(b) \in Nat /\ n <= Len(b) /\ \A i \in 1 .. n : b[i] = i
  BY <1>2 DEF Divisible
<1>8. Len(b) - (Len(b) - n) = n
  BY <1>1, <1>7
<1>9. Unpad(b, call.pad) = SubSeq(b, 1, n)
  BY <1>4, <1>8 DEF Unpad
<1>10. /\ SubSeq(b, 1, n) \in Seq(Nat) /\ Len(SubSeq(b, 1, n)) = n
       /\ \A i \in 1 .. n : SubSeq(b, 1, n)[i] = b[i]
  <2>1. \A i \in 1 .. n : b[i] \in Nat
    BY <1>7
  <2>2. /\ SubSeq(b, 1, n) \in Seq(Nat)
        /\ Len(SubSeq(b, 1, n)) = IF 1 <= n THEN n - 1 + 1 ELSE 0
        /\ \A i \in 1 .. n - 1 + 1 : SubSeq(b, 1, n)[i] = b[1 + i - 1]
    BY <1>1, <2>1, SubSeqProperties
  <2>3. 1 <= n /\ n - 1 + 1 = n /\ \A i \in 1 .. n : 1 + i - 1 = i
    BY <1>1
  <2> QED BY <2>2, <2>3
<1>11. Rows(n) \in Seq(Nat) /\ Len(Rows(n)) = n /\ \A i \in 1 .. n : Rows(n)[i] = i
  BY <1>1 DEF Rows
<1>12. SubSeq(b, 1, n) = Rows(n)
  <2> DEFINE s == SubSeq(b, 1, n)
             t == Rows(n)
  <2>1. /\ s \in Seq(Nat) /\ t \in Seq(Nat) /\ Len(s) = Len(t)
        /\ \A i \in 1 .. Len(s) : s[i] = t[i]
    BY <1>7, <1>10, <1>11
  <2> HIDE DEF s, t
  <2>2. s = t
    BY <2>1, SeqEqual
  <2> QED BY <2>2 DEF s, t
<1> QED BY <1>4, <1>6, <1>9, <1>12 DEF mode

\* Every worker is sent its chunk, unless several nodes are asked for rows that do not
\* go round all ranks.
LEMMA CallStarts ==
  ASSUME config \in Settings, NEW kind \in Kinds, Dispatch(kind)
  PROVE  \/ pc' = "calling" /\ \E n \in Sizes(kind)' : CallOf(kind, n)'
         \/ /\ pc' = "raised" /\ answer' = None
            /\ config'.nnodes > 1 /\ call'.kind # "validate" /\ (Len(call'.rows) % World') # 0
<1>1. PICK n \in Sizes(kind) :
        /\ call' = [kind |-> kind, rows |-> Rows(n), pad |-> Len(Batch(kind, n)) - n]
        /\ IF Len(Batch(kind, n)) % Chunks(Mode(kind)) = 0
             THEN inbox' = Sent(Mode(kind), Batch(kind, n)) /\ pc' = "calling"
             ELSE pc' = "raised" /\ UNCHANGED inbox
  BY DEF Dispatch, Batch, Rows
<1>2. outbox' = [r \in Ranks |-> None] /\ UNCHANGED config /\ answer' = None
  BY DEF Dispatch
<1>3. CASE (Len(Batch(kind, n)) % Chunks(Mode(kind))) = 0
  <2>1. inbox' = Sent(Mode(kind), Batch(kind, n)) /\ pc' = "calling"
    BY <1>1, <1>3
  <2>2. CallOf(kind, n)'
    BY <1>1, <1>2, <1>3, <2>1, CutStays DEF CallOf
  <2> QED BY <1>2, <2>1, <2>2, CutStays
<1>4. CASE (Len(Batch(kind, n)) % Chunks(Mode(kind))) # 0
  <2>1. ~ (kind = "validate" \/ (n % World) = 0)
    <3>1. ASSUME kind = "validate" \/ (n % World) = 0
          PROVE  (Len(Batch(kind, n)) % Chunks(Mode(kind))) = 0
      <4>1. PICK m \in Nat : Divisible(Batch(kind, n), n, m, Chunks(Mode(kind)))
        BY <3>1, BatchDivides
      <4> QED BY <4>1, ChunksDivide, DivisibleLength
    <3> QED BY <1>4, <3>1
  <2>2. config.nnodes > 1
    BY <2>1, OneNodeDivides
  <2>3. call'.kind = kind /\ Len(call'.rows) = n
    BY <1>1, SizePositive DEF Rows
  <2>4. pc' = "raised"
    BY <1>1, <1>4
  <2>5. World' = World
    BY <1>2 DEF World
  <2> QED BY <1>2, <2>1, <2>2, <2>3, <2>4, <2>5
<1> QED BY <1>3, <1>4

LEMMA CallStep == config \in Settings /\ CallInv /\ [Next]_vars => CallInv'
<1> SUFFICES ASSUME config \in Settings, CallInv, [Next]_vars PROVE CallInv'
  OBVIOUS
<1>1. ASSUME UNCHANGED <<config, pc, call, inbox, outbox, answer>> PROVE CallInv'
  <2>1. pc = "calling" => \E kind \in Kinds : \E n \in Sizes(kind) : CallOf(kind, n)'
    BY <1>1, CallStays DEF CallInv
  <2>2. \A kind : Sizes(kind)' = Sizes(kind)
    BY <1>1 DEF Sizes, World
  <2>3. World' = World
    BY <1>1 DEF World
  <2> QED BY <1>1, <2>1, <2>2, <2>3 DEF CallInv, Returned, Stages
\* Coming up moves the driver among the places where nothing was called yet.
<1>2. ASSUME UNCHANGED <<call, answer>>, pc \in {"pool", "waiting", "starting"}, pc' # "calling"
      PROVE  CallInv'
  BY <1>2 DEF CallInv, Returned
<1>3. CASE CreatePool \/ StartWorker \/ Poll \/ ComeUp
  BY <1>1, <1>2, <1>3 DEF CreatePool, StartWorker, Poll, ComeUp
<1>4. CASE Register
  BY <1>1, <1>4 DEF Register
<1>5. ASSUME NEW r \in Ranks, Join(r) PROVE CallInv'
  BY <1>1, <1>5 DEF Join
<1>6. ASSUME NEW r \in Ranks, Work(r) PROVE CallInv'
  <2>1. pc = "calling" /\ pc' = "calling" /\ UNCHANGED config
    BY <1>6 DEF Work
  <2>2. PICK kind \in Kinds : \E n \in Sizes(kind) : CallOf(kind, n)
    BY <2>1 DEF CallInv
  <2>3. PICK n \in Sizes(kind) : CallOf(kind, n)
    BY <2>2
  <2>4. CallOf(kind, n)' /\ Sizes(kind)' = Sizes(kind)
    BY <1>6, <2>1, <2>3, WorkerAnswers DEF Sizes, World
  <2> QED BY <2>1, <2>3, <2>4 DEF CallInv, Returned
<1>7. ASSUME NEW kind \in Kinds, Dispatch(kind) PROVE CallInv'
  BY <1>7, CallStarts DEF CallInv, Returned
<1>8. CASE Collect
  <2>1. /\ pc = "calling" /\ pc' = "idle" /\ UNCHANGED <<config, call>>
        /\ \A r \in Ranks : outbox[r] # None
        /\ answer' = Unpad(Concat(Mode(call.kind), outbox), call.pad)
    BY <1>8 DEF Collect
  <2>2. PICK kind \in Kinds : \E n \in Sizes(kind) : CallOf(kind, n)
    BY <2>1 DEF CallInv
  <2>3. PICK n \in Sizes(kind) : CallOf(kind, n)
    BY <2>2
  <2>4. call.kind = kind
    BY <2>3 DEF CallOf
  <2>5. (Stages => call.kind = "compute") => answer' = call.rows
    BY <2>1, <2>3, <2>4, AnswerIsTheRows
  <2>6. Stages' = Stages
    BY <2>1 DEF Stages
  <2> QED BY <2>1, <2>5, <2>6 DEF CallInv, Returned
<1>9. CASE NextJob
  BY <1>9 DEF NextJob, Fresh, CallInv, Returned
<1>10. CASE Finished \/ UNCHANGED vars
  BY <1>1, <1>10 DEF Finished, vars
<1> QED BY <1>3, <1>4, <1>5, <1>6, <1>7, <1>8, <1>9, <1>10 DEF Next, Kinds

LEMMA CallsInvariant == Spec => []CallInv
<1>1. Init => CallInv
  BY DEF Init, CallInv, Returned
<1>2. IInv => config \in Settings
  BY DEF IInv, StartType
<1> QED BY <1>1, <1>2, CallStep, Invariant, PTL DEF Spec

\* A batch is refused only if it is for training, on several nodes, and no multiple of the
\* ranks; else what the driver gets back are the rows it gave, whatever the layout and in
\* whatever order the workers answer: dispatch and collect undo each other, for any sizes
\* of the groups, unless generation has stages.
THEOREM RowsReturn == Spec => []RowsComeBack
<1>1. CallInv => RowsComeBack
  BY DEF CallInv, RowsComeBack
<1> QED BY <1>1, CallsInvariant, PTL
=============================================================================
