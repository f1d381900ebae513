-------------------------- MODULE MegatronForward --------------------------
(***************************************************************************)
(* A forward pass over one micro batch under Megatron, in two ways:         *)
(*                                                                          *)
(* "packed": the models of Megatron core, which the workers use.  Rows lose *)
(*    their padding, are padded to a multiple of the ranks and are dealt to *)
(*    the context parallel ranks (models/mcore/util.py); the model itself   *)
(*    and its attention over such pieces are Transformer Engine's.          *)
(* "rmpad": the repository's own Llama and Qwen2 (models/llama and models/qwen2), whose *)
(*    layers gather and scatter the sequence over the tensor parallel ranks *)
(*    and whose layers are dealt to pipeline stages and virtual chunks.     *)
(*                                                                          *)
(* Tokens, numbers and grids are those of SequenceParallel.  A setting c    *)
(* has c.tp, c.cp, c.pp, c.vpp (ranks and chunks), c.sequence_parallel,     *)
(* c.heads, c.kv and c.layers.                                              *)
(***************************************************************************)
EXTENDS SequenceParallel

(***************************************************************************)
(* The repository's own models.                                             *)
(***************************************************************************)
RmpadAccepts(c) == c.heads % c.tp = 0 /\ c.kv % c.tp = 0 /\ c.layers % (c.pp * c.vpp) = 0

PadToSequenceParallel(c, x) ==
  IF c.sequence_parallel
  THEN x \o [j \in 1..PadSize(Len(x), c.tp) |->
               [token |-> NoToken, pos |-> 0, sees |-> {}, mix |-> <<>>]]
  ELSE x

\* scatter_to_sequence_parallel_region and the gather before a column parallel product:
\* without sequence parallelism every rank has the whole sequence.
Scatter(c, x) == IF c.sequence_parallel THEN Parts(x, c.tp) ELSE [r \in 1..c.tp |-> x]
Gathered(c, locals) == IF c.sequence_parallel THEN FlattenSeq(locals) ELSE locals[1]

\* cu_seqlens: how many tokens come before each row, and after the last one.
CuSeqlens(g) ==
  [i \in 1..(Len(g.rows) + 1) |->
     FoldLeft(LAMBDA sum, row : sum + Seqlen(row), 0, SubSeq(g.rows, 1, i - 1))]

RowAt(cu, t) == CHOOSE i \in 1..(Len(cu) - 1) : cu[i] < t /\ t <= cu[i + 1]

\* Rotary positions and causal attention go by cu_seqlens.
VarlenSeen(x, cu, t) ==
  UNION {x[u].sees \cup {<<x[u].token, u - 1 - cu[RowAt(cu, t)]>>} : u \in (cu[RowAt(cu, t)] + 1)..t}

\* The attention of a tensor parallel rank: the padding of the sequence is cut off first
\* and put back (as zeros) afterwards.
RmpadAttention(c, cu, r, gathered) ==
  LET total == cu[Len(cu)]
      x == SubSeq(gathered, 1, total)
  IN  [t \in DOMAIN gathered |->
         IF t > total THEN <<>>
         ELSE Attend(Parts(HeadsOf(c.heads), c.tp)[r], Parts(HeadsOf(c.kv), c.tp)[r],
                     VarlenSeen(x, cu, t))]

\* The output projection is row parallel: the heads of the ranks are summed, each in its
\* place, and the sum is scattered over the sequence again.
RmpadLayer(c, cu, locals) ==
  LET gathered == Gathered(c, locals)
      parts == [r \in 1..c.tp |-> RmpadAttention(c, cu, r, gathered)]
      mix == Scatter(c, [t \in DOMAIN gathered |-> FlattenSeq([r \in 1..c.tp |-> parts[r][t]])])
  IN  [r \in 1..c.tp |-> [t \in DOMAIN locals[r] |-> Residual(locals[r][t], mix[r][t])]]

\* The layers of virtual chunk v on stage p, and the order a micro batch meets them in.
StageLayers(c, p, v) ==
  LET chunk == c.layers \div (c.pp * c.vpp)
      offset == (v - 1) * (c.layers \div c.vpp) + (p - 1) * chunk
  IN  [l \in 1..chunk |-> l + offset]

\* A stage applies its layers to what the stage before it sent (set_input_tensor).  The
\* layers a token went through are kept beside it.
Stage(c, cu, p, v, input) ==
  FoldLeft(LAMBDA h, l : [locals |-> RmpadLayer(c, cu, h.locals), layers |-> Append(h.layers, l)],
           input, StageLayers(c, p, v))

Pipeline(c, cu, locals) ==
  LET order == [k \in 1..(c.pp * c.vpp) |-> <<((k - 1) % c.pp) + 1, ((k - 1) \div c.pp) + 1>>]
  IN  FoldLeft(LAMBDA h, at : Stage(c, cu, at[1], at[2], h),
               [locals |-> locals, layers |-> <<>>], order)

\* The head gathers the sequence (a value head after it, a vocabulary head before it) and
\* the padding for sequence parallelism goes before the grid is filled again.  The loss
\* function takes the responses as labels.
RmpadInput(c, g) == Scatter(c, PadToSequenceParallel(c, Unpad(g)))
RmpadOutput(g, gathered) == SubSeq(gathered, 1, CuSeqlens(g)[Len(g.rows) + 1])

Rmpad(c, g) ==
  LET out == Pipeline(c, CuSeqlens(g), RmpadInput(c, g))
      x == RmpadOutput(g, Gathered(c, out.locals))
      labels == [k \in DOMAIN x |-> <<x[k].token[1], x[k].token[2] + 1>>]
  IN  IF out.layers = [l \in 1..c.layers |-> l] THEN PadInput(g, Numbers(x, labels))
      ELSE PadInput(g, [k \in DOMAIN x |-> [mix |-> <<>>, label |-> labels[k]]])

(***************************************************************************)
(* Packed sequences of Megatron core.                                       *)
(***************************************************************************)
AlignSize(c) == IF c.cp > 1 THEN c.tp * c.cp * 2 ELSE c.tp
Padded(c, row) == Seqlen(row) + PadSize(Seqlen(row), AlignSize(c))
Half(c, row) == (Padded(c, row) \div c.cp) \div 2

\* The places, from 0, in its row of the tokens that context parallel rank r holds: the
\* r-th and the r-th last of 2 * cp equal pieces.
Places(c, row, r) ==
  IF c.cp = 1 THEN [u \in 1..Padded(c, row) |-> u - 1]
  ELSE LET half == Half(c, row)
       IN  [u \in 1..(2 * half) |->
              IF u <= half THEN half * (r - 1) + u - 1 ELSE Padded(c, row) - half * r + u - half - 1]

\* The first piece is assigned whole: a shorter piece of the row fits only if it is one
\* token, which then fills it.  Of the second piece, what the row has.
FirstPiece(c, row, r) ==
  {k \in 0..(Seqlen(row) - 1) : k >= Half(c, row) * (r - 1) /\ k < Half(c, row) * r}

PackRaises(c, g) ==
  c.cp > 1 /\ \E i \in 1..Len(g.rows), r \in 1..c.cp :
                Cardinality(FirstPiece(c, g.rows[i], r)) \notin {1, Half(c, g.rows[i])}

PackedRow(c, row, r) ==
  LET places == Places(c, row, r)
      only == FirstPiece(c, row, r)
      source(u) == IF c.cp > 1 /\ u <= Half(c, row) /\ Cardinality(only) = 1
                   THEN CHOOSE k \in only : TRUE
                   ELSE places[u]
  IN  [u \in DOMAIN places |->
         [token |-> IF source(u) < Seqlen(row) THEN <<row.id, row.first + source(u)>> ELSE NoToken,
          pos |-> places[u], sees |-> {}, mix |-> <<>>]]

Preprocess(c, g) ==
  [r \in 1..c.cp |-> [i \in 1..Len(g.rows) |-> PackedRow(c, g.rows[i], r)]]

\* External: attention over a row in pieces, by the places Transformer Engine gives them.
PackedLayer(c, packed) ==
  [r \in 1..c.cp |-> [i \in DOMAIN packed[r] |-> [u \in DOMAIN packed[r][i] |->
     LET row == FlattenSeq([s \in 1..c.cp |-> packed[s][i]])
         t == packed[r][i][u]
     IN  Residual(t, Attend(HeadsOf(c.heads), HeadsOf(c.kv),
                            Seen(row, {k \in DOMAIN row : row[k].pos <= t.pos})))]]]

\* The pieces of the ranks are put back in the order of the row and its padding is dropped.
PutBack(c, row, packed, i) ==
  LET half == Half(c, row)
      at(place) ==
        IF c.cp = 1 THEN packed[1][i][place + 1]
        ELSE LET piece == place \div half
                 r == IF piece < c.cp THEN piece + 1 ELSE 2 * c.cp - piece
             IN  packed[r][i][(place % half) + (IF piece < c.cp THEN 0 ELSE half) + 1]
  IN  [k \in 1..Seqlen(row) |-> at(k - 1)]

Packed(c, g) ==
  LET packed == Model(c, PackedLayer, Preprocess(c, g))
      x == FlattenSeq([i \in 1..Len(g.rows) |-> PutBack(c, g.rows[i], packed, i)])
      labels == [k \in DOMAIN x |-> <<g.rows[Indices(g)[k][1]].id, Indices(g)[k][2] + 1>>]
  IN  PadInput(g, Numbers(x, labels))

MegatronPass(c, g) == IF c.route = "packed" THEN Packed(c, g) ELSE Rmpad(c, g)
=============================================================================
