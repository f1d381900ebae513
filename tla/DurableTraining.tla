--------------------------- MODULE DurableTraining ---------------------------
(***************************************************************************)
(* What checkpointing promises a training run: the weights are the result  *)
(* of updates on the batches in order, each at most once; a crash forgets  *)
(* the updates since the last one made durable and nothing else; training  *)
(* goes on from there.  An update is a pair of the attempt that made it    *)
(* and the batch it was made on.                                           *)
(***************************************************************************)
EXTENDS Integers, Sequences

CONSTANTS MaxBatch, Attempts   \* batches at most; processes started

VARIABLES
  batches,   \* the batches there is something to train on
  phase, mem, durable

dvars == <<batches, phase, mem, durable>>

DInit ==
  /\ batches \subseteq 1 .. MaxBatch
  /\ phase = "down" /\ mem = <<>> /\ durable = <<>>

Start ==
  /\ phase = "down" /\ phase' = "running"
  /\ mem' = durable
  /\ UNCHANGED <<batches, durable>>

\* The next batch is the first of those that were not trained on yet.
IsNext(b) ==
  /\ b \in batches
  /\ \A k \in 1 .. Len(mem) : mem[k][2] < b
  /\ \A c \in batches : c < b => \E k \in 1 .. Len(mem) : mem[k][2] = c

\* Training only ends when every batch was trained on.
Covered(w) == \A b \in batches : \E k \in 1 .. Len(w) : w[k][2] = b

\* The last update may end the training at once, without a save.
Update ==
  /\ phase = "running"
  /\ \E b \in batches, a \in Attempts : IsNext(b) /\ mem' = Append(mem, <<a, b>>)
  /\ phase' = "running" \/ (phase' = "done" /\ Covered(mem'))
  /\ UNCHANGED <<batches, durable>>

Persist ==
  /\ phase = "running"
  /\ durable' = mem
  /\ UNCHANGED <<batches, phase, mem>>

Crash ==
  /\ phase = "running" /\ phase' = "down"
  /\ mem' = <<>>
  /\ UNCHANGED <<batches, durable>>

Finish ==
  /\ phase = "running" /\ phase' = "done"
  /\ Covered(mem)
  /\ UNCHANGED <<batches, mem, durable>>

DNext == Start \/ Update \/ Persist \/ Crash \/ Finish

DurableSpec == DInit /\ [][DNext]_dvars
===============================================================================
