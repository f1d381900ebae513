----------------------------- MODULE SeqlenBalance -----------------------------
(***************************************************************************)
(* get_seqlen_balanced_partitions: the largest differencing method of      *)
(* Karmarkar and Karp, that splits a batch into partitions of about the    *)
(* same number of tokens.  _balance_batch calls it with one partition of   *)
(* equal size per data parallel rank, rearrange_micro_batches with one     *)
(* partition of any size per micro batch.                                  *)
(*                                                                         *)
(* Items are positions in seqlen_list.  Where the code breaks a tie by the *)
(* indices of the items, the model takes either.  A definition whose name  *)
(* has an underscore and a capital after it is a wrong version of the one  *)
(* that follows it.                                                        *)
(***************************************************************************)
EXTENDS Integers, Sequences, FiniteSetsExt, Functions

CONSTANTS
  Inputs,        \* the values of seqlen_list to look at
  Partitions     \* the values of k_partitions

ASSUME BalanceAssumption ==
  /\ \A lens \in Inputs : lens \in Seq(Nat)
  /\ Partitions \subseteq Nat \ {0}

VARIABLES
  seqlen_list, k, equal_size,   \* the arguments
  states_pq,                    \* the heap: a set of states
  pc,
  partitions                    \* the result

args == <<seqlen_list, k, equal_size>>
balanceVars == <<args, states_pq, pc, partitions>>

Items == DOMAIN seqlen_list

\* A set of items with the sum of their lengths; a state is k of them.
Nothing == [sum |-> 0, items |-> {}]
Single(i) == [sum |-> seqlen_list[i], items |-> {i}]
Join(A, B) == [sum |-> A.sum + B.sum, items |-> A.items \cup B.items]

ItemSets == [sum : Nat, items : SUBSET Items]
States == [1 .. k -> ItemSets]

TypeOK ==
  /\ seqlen_list \in Inputs
  /\ k \in Partitions
  /\ equal_size \in BOOLEAN
  /\ states_pq \subseteq States
  /\ pc \in {"called", "merging", "returned", "raised"}
  /\ partitions \in {<<>>} \cup [1 .. k -> SUBSET Items]

-----------------------------------------------------------------------------
(* The orders of Set and State                                                 *)

\* Not Set.__lt__, up to ties.
AtLeast(A, B) ==
  \/ A.sum > B.sum
  \/ A.sum = B.sum /\ Cardinality(A.items) >= Cardinality(B.items)

Decreasing(s) == \A i, j \in 1 .. k : i < j => AtLeast(s[i], s[j])

\* "sets should always be decreasing order": the ways to sort the sets of s.
Sortings(s) ==
  {t \in {[i \in 1 .. k |-> s[p[i]]] : p \in Injection(1 .. k, 1 .. k)} : Decreasing(t)}

spread(s) == s[1].sum - s[k].sum

\* State.__lt__: the heap pops the largest spread first, then the largest set.
PoppedFirst(s, heap) ==
  \A t \in heap :
    \/ spread(s) > spread(t)
    \/ spread(s) = spread(t) /\ AtLeast(s[1], t[1])

-----------------------------------------------------------------------------
\* The position of an item in sorted_seqlen_list, from 0.
Place(i) ==
  Cardinality({j \in Items : \/ seqlen_list[j] < seqlen_list[i]
                             \/ seqlen_list[j] = seqlen_list[i] /\ j < i})
ItemAt(q) == CHOOSE i \in Items : Place(i) = q

\* Equal sizes: one state per k items that follow each other in the order.
EqualStates_DropLast ==
  {[j \in 1 .. k |-> Single(ItemAt(g * k + k - j))] : g \in 0 .. (Len(seqlen_list) - 1) \div k - 1}
EqualStates ==
  {[j \in 1 .. k |-> Single(ItemAt(g * k + k - j))] : g \in 0 .. Len(seqlen_list) \div k - 1}

\* Any sizes: one state per item.
AnyStates == {[j \in 1 .. k |-> IF j = 1 THEN Single(i) ELSE Nothing] : i \in Items}

FirstStates_IgnoreEqualSize == AnyStates
FirstStates == IF equal_size THEN EqualStates ELSE AnyStates

\* State.merge: the largest set takes the other's smallest.
Merged_LargestWithLargest(s, t) == [i \in 1 .. k |-> Join(s[i], t[i])]
Merged(s, t) == [i \in 1 .. k |-> Join(s[i], t[k + 1 - i])]

Accepted ==
  /\ Len(seqlen_list) >= k
  /\ equal_size => Len(seqlen_list) % k = 0

BalanceInit ==
  /\ seqlen_list \in Inputs /\ k \in Partitions /\ equal_size \in BOOLEAN
  /\ states_pq = {} /\ pc = "called" /\ partitions = <<>>

Reject ==
  /\ pc = "called" /\ ~Accepted
  /\ pc' = "raised"
  /\ UNCHANGED <<args, states_pq, partitions>>

Begin ==
  /\ pc = "called" /\ Accepted
  /\ pc' = "merging"
  /\ states_pq' = FirstStates
  /\ UNCHANGED <<args, partitions>>

\* One round of the loop: pop two states, push their merge.
Merge ==
  /\ pc = "merging"
  /\ \E s \in states_pq :
       /\ PoppedFirst(s, states_pq)
       /\ \E t \in states_pq \ {s} :
            /\ PoppedFirst(t, states_pq \ {s})
            /\ \E m \in Sortings(Merged(s, t)) :
                 states_pq' = (states_pq \ {s, t}) \cup {m}
  /\ UNCHANGED <<args, pc, partitions>>

\* The assertions of karmarkar_karp and _check_and_sort_partitions.
Checked(s) ==
  /\ equal_size => \A i \in 1 .. k : Cardinality(s[i].items) * k = Len(seqlen_list)
  /\ \A i \in 1 .. k : s[i].items # {}
  /\ UNION {s[i].items : i \in 1 .. k} = Items

Finish ==
  /\ pc = "merging"
  /\ \E s \in states_pq :
       /\ states_pq = {s}
       /\ IF Checked(s)
            THEN pc' = "returned" /\ partitions' = [i \in 1 .. k |-> s[i].items]
            ELSE pc' = "raised" /\ UNCHANGED partitions
  /\ UNCHANGED <<args, states_pq>>

BalanceNext == Reject \/ Begin \/ Merge \/ Finish

BalanceSpec == BalanceInit /\ [][BalanceNext]_balanceVars

-----------------------------------------------------------------------------
(* Safety *)

TokensOf(S) == MapThenSumSet(LAMBDA i : seqlen_list[i], S)

\* No item is lost or doubled while states are merged, and the sums the order of
\* the merging goes by are the items' own: the rows of a batch come out of the
\* reordering once each.
EachItemOnce ==
  pc \in {"merging", "returned"} =>
    /\ \A i \in Items :
         Cardinality({p \in states_pq \X (1 .. k) : i \in p[1][p[2]].items}) = 1
    /\ \A s \in states_pq, j \in 1 .. k : s[j].sum = TokensOf(s[j].items)

\* With equal_size every state splits its items evenly, at every moment of the
\* merging.
EvenStates ==
  equal_size =>
    \A s \in states_pq, i, j \in 1 .. k :
      Cardinality(s[i].items) = Cardinality(s[j].items)

\* Two partitions differ by at most the longest sequence: balancing costs no
\* rank more than one sequence.
WithinOneSequence ==
  \A s \in states_pq, i, j \in 1 .. k :
    \E x \in Items : s[i].sum - s[j].sum <= seqlen_list[x]
===============================================================================
