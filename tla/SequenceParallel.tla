-------------------------- MODULE SequenceParallel --------------------------
(***************************************************************************)
(* A forward pass of the actor, the critic or the reward model under FSDP   *)
(* over one micro batch (dp_actor.py, dp_critic.py, fsdp_workers.py), with  *)
(* or without removal of the padding, over the ranks of a Ulysses sequence  *)
(* parallel group (utils/ulysses.py, models/transformers/monkey_patch.py).  *)
(*                                                                          *)
(* What a token's number is, is abstracted to where it came from: every     *)
(* attention head of a layer records the key head it read and the tokens,   *)
(* with their rotary positions, that it saw.  A number is right when it     *)
(* came from the token's own prefix through every head in its place, and    *)
(* was compared with the token that follows.                                *)
(*                                                                          *)
(* A grid is [width, rows]; a row [id, first, last] has its real tokens in  *)
(* the columns first..last, prompts padded on the left and responses on the *)
(* right.  A token is <<id, column>>.  A setting c has c.ranks (sequence    *)
(* parallel ranks), c.heads, c.kv (query and key heads) and c.layers.       *)
(***************************************************************************)
EXTENDS Integers, Sequences, FiniteSets, SequencesExt, Folds

CONSTANT ResponseLength     \* columns of the responses in a grid
ASSUME ResponseLengthAssumption == ResponseLength \in Nat \ {0}

NoToken == <<0, 0>>         \* what padding is filled with

Real(row) == row.first .. row.last
Seqlen(row) == row.last - row.first + 1

(***************************************************************************)
(* unpad_input and pad_input: the real cells of a grid, row by row, and a   *)
(* grid filled from as many values.  A cell holds a set: {} is the zero.    *)
(***************************************************************************)
Indices(g) ==
  FlattenSeq([i \in 1..Len(g.rows) |->
    [k \in 1..Seqlen(g.rows[i]) |-> <<i, g.rows[i].first + k - 1>>]])

Unpad(g) ==
  [k \in DOMAIN Indices(g) |->
     LET cell == Indices(g)[k]  row == g.rows[cell[1]]
     IN  [token |-> <<row.id, cell[2]>>, pos |-> cell[2] - row.first, sees |-> {}, mix |-> <<>>]]

PadInput(g, values) ==
  [i \in 1..Len(g.rows) |-> [col \in 1..g.width |->
     {values[k] : k \in {n \in DOMAIN Indices(g) : Indices(g)[n] = <<i, col>>}}]]

\* torch.roll by -1: the label of each token is the one that follows it.
Rolled(s) == Tail(s) \o <<Head(s)>>

(***************************************************************************)
(* Equal parts of a sequence, one per rank.                                 *)
(***************************************************************************)
Parts(s, ranks) ==
  LET size == Len(s) \div ranks
  IN  [r \in 1..ranks |-> SubSeq(s, (r - 1) * size + 1, r * size)]

PadSize(n, ranks) == (ranks - (n % ranks)) % ranks

\* Padding has positions of its own from zero, so it attends to nothing real.
PadAndSlice(x, ranks) ==
  Parts(x \o [j \in 1..PadSize(Len(x), ranks) |->
                [token |-> NoToken, pos |-> j - 1, sees |-> {}, mix |-> <<>>]], ranks)

PadAndSliceLabels(labels, ranks) ==
  Parts(labels \o [j \in 1..PadSize(Len(labels), ranks) |-> NoToken], ranks)

GatherAndUnpad(locals, padding) ==
  LET x == FlattenSeq(locals) IN SubSeq(x, 1, Len(x) - padding)

(***************************************************************************)
(* Attention.  Without a mask, a sequence is cut where the position is zero *)
(* (unless positions never fall, when it is one piece) and attention is     *)
(* causal in each piece; query head a of a rank reads key head a \div g,    *)
(* g query heads to a key head.                                             *)
(***************************************************************************)
HeadsOf(n) == [h \in 1..n |-> h - 1]

Piece(x, t) ==
  LET falls == \E u \in 2..Len(x) : x[u].pos < x[u - 1].pos
      starts == {u \in 1..t : u = 1 \/ (falls /\ x[u].pos = 0)}
  IN  {u \in 1..t : \A s \in starts : u >= s}

Seen(x, keys) == UNION {x[u].sees \cup {<<x[u].token, x[u].pos>>} : u \in keys}

Attend(queries, keys, seen) ==
  [a \in DOMAIN queries |->
     [head |-> queries[a], key |-> keys[((a - 1) \div (Len(queries) \div Len(keys))) + 1],
      sees |-> seen]]

RepeatKv_Stacked(keys, n) == [b \in 1..(Len(keys) * n) |-> keys[((b - 1) % Len(keys)) + 1]]
RepeatKv(keys, n) == [b \in 1..(Len(keys) * n) |-> keys[((b - 1) \div n) + 1]]

SpPatchApplies(c) ==
  c.heads % c.ranks = 0 /\ (c.kv % c.ranks = 0 \/ c.ranks % c.kv = 0)

\* The all-to-all before attention: each rank gets its share of the heads for the whole
\* sequence; the key heads are repeated first when there are fewer of them than ranks.
GatherSeqScatterHeads(heads, ranks) == Parts(heads, ranks)

Repeats(c) == IF c.ranks \div c.kv > 1 THEN c.ranks \div c.kv ELSE 1

\* The all-to-all after it: each rank gets its part of the sequence, the heads of the
\* ranks side by side, which the output projection takes to be in the model's order.
GatherHeadsScatterSeq(parts, ranks) ==
  Parts([t \in DOMAIN parts[1] |-> FlattenSeq([r \in 1..ranks |-> parts[r][t]])], ranks)

UlyssesAttention(c, locals) ==
  LET x == FlattenSeq(locals)
      queries == GatherSeqScatterHeads(HeadsOf(c.heads), c.ranks)
      keys == GatherSeqScatterHeads(RepeatKv(HeadsOf(c.kv), Repeats(c)), c.ranks)
  IN  GatherHeadsScatterSeq(
        [r \in 1..c.ranks |-> [t \in DOMAIN x |-> Attend(queries[r], keys[r], Seen(x, Piece(x, t)))]], c.ranks)

\* What a layer leaves in the residual stream of a token.
Residual(entry, mix) ==
  [entry EXCEPT !.mix = mix, !.sees = UNION {m.sees : m \in ToSet(mix)}]

UlyssesLayer(c, locals) ==
  LET attention == UlyssesAttention(c, locals)
  IN  [r \in 1..c.ranks |-> [t \in DOMAIN locals[r] |-> Residual(locals[r][t], attention[r][t])]]

Model(c, layer(_, _), x) == FoldLeft(LAMBDA y, l : layer(c, y), x, [l \in 1..c.layers |-> l])

(***************************************************************************)
(* The pass.  A number is [mix, label]: what it was computed from, and the  *)
(* token whose log probability it is.                                       *)
(***************************************************************************)
Numbers(x, labels) == [k \in DOMAIN x |-> [mix |-> x[k].mix, label |-> labels[k]]]

WithoutPadding(c, g) ==
  LET x == Unpad(g)
      labels == Rolled([k \in DOMAIN x |-> x[k].token])
      local == Model(c, UlyssesLayer, PadAndSlice(x, c.ranks))
      local_labels == PadAndSliceLabels(labels, c.ranks)
      numbers == [r \in 1..c.ranks |-> Numbers(local[r], local_labels[r])]
  IN  PadInput(g, GatherAndUnpad(numbers, PadSize(Len(x), c.ranks)))

\* With padding, a mask lets a token see the real ones up to it; positions start at the
\* first real one.  The label of a column is the next one's token.
MaskedLayer(c, x) ==
  [t \in DOMAIN x |->
     Residual(x[t], Attend(HeadsOf(c.heads), HeadsOf(c.kv),
                           Seen(x, {u \in 1..t : x[u].token # NoToken})))]

WithPadding(c, g) ==
  [i \in 1..Len(g.rows) |->
     LET row == g.rows[i]
         token(col) == IF col \in Real(row) THEN <<row.id, col>> ELSE NoToken
         x == Model(c, MaskedLayer, [col \in 1..g.width |->
                [token |-> token(col), pos |-> IF col < row.first THEN 0 ELSE col - row.first,
                 sees |-> {}, mix |-> <<>>]])
     IN  [col \in 1..g.width |-> {[mix |-> x[col].mix, label |-> token(col + 1)]}]]

Forward(c, g) == IF c.route = "padded" THEN WithPadding(c, g) ELSE WithoutPadding(c, g)

\* The numbers of the response: response token j follows column width - R + j - 1.
ResponsePart(g, grid) ==
  [i \in 1..Len(g.rows) |-> [j \in 1..ResponseLength |-> grid[i][g.width - ResponseLength + j - 1]]]

\* The score of a row is the number of its last real token.
LastNumbers(g, grid) ==
  [i \in 1..Len(g.rows) |->
     LET place(col) == IF col \in Real(g.rows[i]) THEN col - g.rows[i].first ELSE 0
     IN  grid[i][CHOOSE col \in 1..g.width :
                   /\ \A other \in 1..g.width : place(other) <= place(col)
                   /\ \A other \in 1..(col - 1) : place(other) < place(col)]]

(***************************************************************************)
(* What the numbers should be, said without ranks.                          *)
(***************************************************************************)
OwnNumber(c, row, col) ==
  [mix |-> [h \in 1..c.heads |->
              [head |-> h - 1, key |-> (h - 1) \div (c.heads \div c.kv),
               sees |-> {<<<<row.id, k>>, k - row.first>> : k \in row.first .. col}]],
   label |-> <<row.id, col + 1>>]
=============================================================================
