---------------------------- MODULE MCModelCalls ----------------------------
(***************************************************************************)
(* ModelCalls on one or two data parallel ranks with two to four rows each, *)
(* prompts of up to three tokens and responses of up to two.                *)
(***************************************************************************)
EXTENDS ModelCalls

Fsdp(route, ranks, world, heads, kv, mini, micro, dynamic) ==
  [family |-> "fsdp", route |-> route, world |-> world, ranks |-> ranks,
   tp |-> 1, cp |-> 1, pp |-> 1, vpp |-> 1, sequence_parallel |-> FALSE,
   heads |-> heads, kv |-> kv, layers |-> 2, train_batch |-> 4, n |-> 1, mini |-> mini,
   micro |-> micro, micro_all |-> 0, dynamic |-> dynamic, max_token_len |-> 6, epochs |-> 1,
   switch_template |-> FALSE]

Megatron(route, tp, cp, world, micro) ==
  [Fsdp(route, 1, world, 4, 2, 4, micro, FALSE) EXCEPT
     !.family = "megatron", !.tp = tp, !.cp = cp, !.sequence_parallel = (tp > 1)]

MCSettings ==
  { Fsdp("padded", 1, 2, 4, 2, 4, 1, FALSE),
    [Fsdp("padded", 1, 2, 4, 2, 4, 0, FALSE) EXCEPT !.micro_all = 4],
    [Fsdp("padded", 1, 2, 4, 4, 4, 0, TRUE) EXCEPT !.switch_template = TRUE],
    [Fsdp("unpadded", 1, 2, 4, 2, 4, 2, FALSE) EXCEPT !.epochs = 2],
    Fsdp("unpadded", 1, 2, 4, 1, 4, 0, TRUE),
    [Fsdp("unpadded", 1, 2, 4, 1, 2, 0, TRUE) EXCEPT !.max_token_len = 5],
    Fsdp("unpadded", 2, 4, 4, 2, 4, 2, FALSE),
    [Fsdp("unpadded", 2, 2, 4, 4, 3, 0, TRUE) EXCEPT !.max_token_len = 3, !.epochs = 2],
    Fsdp("unpadded", 4, 4, 4, 2, 2, 1, FALSE),
    [Fsdp("unpadded", 3, 3, 3, 2, 2, 1, FALSE) EXCEPT !.train_batch = 6],
    [Fsdp("padded", 1, 2, 4, 2, 4, 0, TRUE) EXCEPT !.max_token_len = 4],
    Megatron("packed", 2, 1, 4, 2),
    [Megatron("packed", 1, 1, 2, 0) EXCEPT !.dynamic = TRUE, !.mini = 1],
    Megatron("packed", 1, 2, 4, 1),
    Megatron("packed", 2, 2, 4, 2),
    [Megatron("rmpad", 2, 1, 4, 2) EXCEPT !.layers = 4, !.pp = 2, !.vpp = 2],
    [Megatron("rmpad", 2, 1, 2, 1) EXCEPT !.sequence_parallel = FALSE] }

Row(id, first, last) == [id |-> id, first |-> first, last |-> last]

One == <<Row(1, 2, 4), Row(2, 1, 5), Row(3, 3, 5)>>
Two == <<Row(4, 3, 4), Row(5, 2, 5), Row(6, 1, 4)>>
Few == <<Row(1, 1, 5), Row(2, 3, 4)>>
Many == <<Row(1, 3, 4), Row(2, 2, 5), Row(3, 2, 4), Row(4, 3, 5)>>

MCBatches == { <<One>>, <<Few>>, <<Many>>, <<One, Two>>, <<Few, <<Row(3, 1, 4), Row(4, 1, 5)>>>> }
=============================================================================
