----------------------------- MODULE WorkerGroup -----------------------------
(***************************************************************************)
(* The workers of a job: how the trainer starts one on every GPU that Ray  *)
(* gives it, how they find each other, and how a batch is cut, sent to     *)
(* them and put together from their answers. A job may be killed at any    *)
(* moment, and another be started on the same cluster.                     *)
(*                                                                         *)
(* All roles of a job share one pool and one process per GPU, as           *)
(* TaskRunner maps them; what the calls compute is the subject of other    *)
(* modules, here it only matters which rows a worker is given.             *)
(***************************************************************************)
EXTENDS Integers, Sequences, SequencesExt, Functions, FiniteSets

CONSTANTS
  Settings,   \* backend and parallel sizes of a job, nnodes, n_gpus_per_node
  Nodes,      \* the nodes of the cluster, numbered in the order of their addresses
  Gpus,       \* the GPUs of each
  Polls,      \* polls before ray_wait_register_center_timeout is over
  MaxJobs,    \* how many jobs are started
  MaxCalls,   \* how many calls each makes
  ValSizes,   \* the sizes that validation batches may have
  None        \* nothing yet: no address, call, rows or answer

ASSUME WorkerGroupAssumption ==
  /\ Nodes \subseteq Nat /\ IsFiniteSet(Nodes) /\ Gpus \in [Nodes -> Nat]
  /\ Polls \in Nat \ {0} /\ MaxJobs \in Nat /\ MaxCalls \in Nat /\ ValSizes \subseteq Nat \ {0}
  /\ \A c \in Settings :
       /\ {c.tp, c.cp, c.dp, c.pp, c.nnodes, c.n_gpus_per_node} \subseteq Nat \ {0}
       /\ c.tp * c.cp * c.dp * c.pp = c.nnodes * c.n_gpus_per_node
       /\ c.strategy = "fsdp" => c.tp = 1 /\ c.cp = 1 /\ c.pp = 1
       /\ c.strategy \in {"fsdp", "megatron"}

VARIABLES
  config,     \* the setting of every job of this run
  job,        \* the number of the job
  pc,         \* where its driver is
  pgs,        \* the node of each placement group
  workers,    \* the workers started, by rank
  master,     \* the address that rank 0 gave the driver
  waited,     \* polls for it so far
  centers,    \* the register centers that exist
  joined,     \* the ranks that entered init_process_group
  calls,      \* the number of calls made
  call,       \* the call that is running: its kind, its rows, how many were added to pad it
  inbox,      \* the rows each worker was given
  outbox,     \* the answer of each worker
  answer,     \* what the last call returned to the driver
  home        \* the node of each rank in the first job that came up, and its placement

vars == <<config, job, pc, pgs, workers, master, waited, centers, joined, calls, call, inbox, outbox, answer, home>>

World == config.nnodes * config.n_gpus_per_node
Ranks == 0 .. World - 1

-----------------------------------------------------------------------------
(* Starting the workers                                                        *)

\* _check_resource_available: a node for every entry of the pool, with the GPUs it asks for.
Available == Cardinality({n \in Nodes : Gpus[n] >= config.n_gpus_per_node}) >= config.nnodes

\* Ray puts all bundles of a placement group on one node and spreads groups as it likes.
Placements ==
  {p \in [1 .. config.nnodes -> Nodes] :
     \A n \in Nodes : Cardinality({i \in DOMAIN p : p[i] = n}) * config.n_gpus_per_node <= Gpus[n]}

\* Every group of workers has a prefix of random letters, taken as different every time.
Prefix_Fixed == 0
Prefix == job

Centers(prefix) == {c \in centers : c.prefix = prefix}

\* sort_placement_group_by_node_ip; Python's sort keeps the order of equal keys.
Before(p, i) == {j \in DOMAIN p : p[j] < p[i] \/ (p[j] = p[i] /\ j < i)}
SortedByIp_AsCreated(p) == [k \in DOMAIN p |-> k]
SortedByIp(p) == [k \in DOMAIN p |-> CHOOSE i \in DOMAIN p : Cardinality(Before(p, i)) = k - 1]

CreatePool ==
  /\ pc = "pool"
  /\ IF Available
       THEN pgs' \in Placements /\ pc' = "starting"
       ELSE pgs' = pgs /\ pc' = "raised"
  /\ UNCHANGED <<config, job, workers, master, waited, centers, joined, calls, call, inbox, outbox, answer, home>>

StartWorker ==
  /\ pc = "starting" /\ Len(workers) < World
  /\ LET rank == Len(workers)
         pg == SortedByIp(pgs)[(rank \div config.n_gpus_per_node) + 1]
     IN  /\ workers' = Append(workers, [rank |-> rank, pg |-> pg, node |-> pgs[pg],
                                        bundle |-> rank % config.n_gpus_per_node, master |-> master])
         /\ pc' = IF rank = 0 THEN "waiting" ELSE pc
  /\ UNCHANGED <<config, job, pgs, master, waited, centers, joined, calls, call, inbox, outbox, answer, home>>

\* Rank 0 takes a free port of its node and creates the register center before its
\* constructor goes on to wait for the other ranks.
Register ==
  /\ Len(workers) > 0 /\ workers[1].master = None
  /\ LET address == [job |-> job, node |-> workers[1].node]
     IN  /\ centers' = centers \cup {[prefix |-> Prefix, address |-> address]}
         /\ workers' = [workers EXCEPT ![1].master = address]
  /\ UNCHANGED <<config, job, pc, pgs, master, waited, joined, calls, call, inbox, outbox, answer, home>>

\* The driver polls until the center is there or its patience is over.
Poll ==
  /\ pc = "waiting"
  /\ \/ /\ Centers(Prefix) = {} /\ waited < Polls
        /\ waited' = waited + 1 /\ UNCHANGED <<pc, master>>
     \/ /\ Centers(Prefix) = {} /\ waited = Polls
        /\ pc' = "raised" /\ UNCHANGED <<waited, master>>
     \/ \E c \in Centers(Prefix) : master' = c.address /\ pc' = "starting" /\ UNCHANGED waited
  /\ UNCHANGED <<config, job, pgs, workers, centers, joined, calls, call, inbox, outbox, answer, home>>

\* A worker waits in init_process_group at the address it was given.
Join(r) ==
  /\ r < Len(workers) /\ workers[r + 1].master # None /\ r \notin joined
  /\ joined' = joined \cup {r}
  /\ UNCHANGED <<config, job, pc, pgs, workers, master, waited, centers, calls, call, inbox, outbox, answer, home>>

\* Once all ranks met at one address the process group exists and init_model returns.
ComeUp ==
  /\ pc = "starting" /\ Len(workers) = World
  /\ joined = Ranks /\ \A r \in Ranks : workers[r + 1].master = workers[1].master
  /\ pc' = "idle"
  /\ home' = IF home = None THEN [pgs |-> pgs, node |-> [r \in Ranks |-> workers[r + 1].node]] ELSE home
  /\ UNCHANGED <<config, job, pgs, workers, master, waited, centers, joined, calls, call, inbox, outbox, answer>>

-----------------------------------------------------------------------------
(* The coordinates of a rank, asked of rank and worker when the group is made  *)

Tp(r) == r % config.tp
Cp(r) == (r \div config.tp) % config.cp
Dp(r) == (r \div (config.tp * config.cp)) % config.dp
Pp(r) == r \div (config.tp * config.cp * config.dp)

-----------------------------------------------------------------------------
(* Batches                                                                     *)

\* pad_dataproto_to_divisor: rows from the first on, again and again.
PadSize(rows) == (World - (Len(rows) % World)) % World
PadToDivisor(rows) == rows \o [i \in 1 .. PadSize(rows) |-> rows[((i - 1) % Len(rows)) + 1]]
Unpad(rows, pad) == SubSeq(rows, 1, Len(rows) - pad)

\* DataProto.chunk: the i-th of equal chunks, from 0.
Chunk(rows, chunks, i) ==
  LET n == Len(rows) \div chunks IN SubSeq(rows, i * n + 1, (i + 1) * n)

\* The dispatch mode that a method is registered with.
Mode(kind) ==
  CASE config.strategy = "fsdp" -> "DP_COMPUTE_PROTO"
    [] config.strategy = "megatron" /\ kind = "compute" -> "MEGATRON_COMPUTE_PROTO"
    [] OTHER -> "MEGATRON_PP_AS_DP_PROTO"

Chunks(mode) ==
  CASE mode = "DP_COMPUTE_PROTO" -> World
    [] mode = "MEGATRON_COMPUTE_PROTO" -> config.dp
    [] mode = "MEGATRON_PP_AS_DP_PROTO" -> config.dp * config.pp * config.cp

\* The number of the chunk that a rank is sent.
PpAsDpArg(r) == (Cp(r) * config.dp + Dp(r)) * config.pp + Pp(r)
Arg(mode, r) ==
  CASE mode = "DP_COMPUTE_PROTO" -> r
    [] mode = "MEGATRON_COMPUTE_PROTO" -> Dp(r)
    [] mode = "MEGATRON_PP_AS_DP_PROTO" -> PpAsDpArg(r)

\* The ranks whose answers are taken, in the order of their ranks.
CollectMegatronCompute_EveryContext(r) == Tp(r) = 0 /\ Pp(r) = config.pp - 1
CollectMegatronCompute(r) == Tp(r) = 0 /\ Pp(r) = config.pp - 1 /\ Cp(r) = 0
CollectPpAsDp(r) == Tp(r) = 0
Collects(mode, r) ==
  CASE mode = "DP_COMPUTE_PROTO" -> TRUE
    [] mode = "MEGATRON_COMPUTE_PROTO" -> CollectMegatronCompute(r)
    [] mode = "MEGATRON_PP_AS_DP_PROTO" -> CollectPpAsDp(r)
Concat(mode, output) ==
  FlattenSeq([r \in 1 .. World |-> IF Collects(mode, r - 1) THEN output[r - 1] ELSE <<>>])

\* The ranks that work on one and the same batch: the tensor, context and pipeline
\* ranks of a model, the tensor ranks of a generation.
Partners(mode, r) ==
  {s \in Ranks : CASE mode = "DP_COMPUTE_PROTO" -> s = r
                   [] mode = "MEGATRON_COMPUTE_PROTO" -> Dp(s) = Dp(r)
                   [] mode = "MEGATRON_PP_AS_DP_PROTO" -> Dp(s) = Dp(r) /\ Pp(s) = Pp(r) /\ Cp(s) = Cp(r)}

-----------------------------------------------------------------------------
(* Calls                                                                       *)

\* execute_all_async: each worker gets the entry of the list at its rank.
Sent(mode, batch) == [r \in Ranks |-> Chunk(batch, Chunks(mode), Arg(mode, r))]

\* The trainer makes a training batch a multiple of the GPUs of a node, whatever the
\* number of nodes; a validation batch has any size.
Sizes(kind) ==
  IF kind = "validate" THEN ValSizes ELSE {k * config.n_gpus_per_node : k \in 1 .. 2 * config.nnodes}

Dispatch(kind) ==
  /\ pc = "idle" /\ calls < MaxCalls
  /\ \E n \in Sizes(kind) :
       LET rows == [i \in 1 .. n |-> i]
           batch == IF kind = "validate" THEN PadToDivisor(rows) ELSE rows
       IN  /\ call' = [kind |-> kind, rows |-> rows, pad |-> Len(batch) - n]
           /\ IF Len(batch) % Chunks(Mode(kind)) = 0
                THEN /\ inbox' = Sent(Mode(kind), batch)
                     /\ pc' = "calling"
                ELSE pc' = "raised" /\ UNCHANGED inbox
  /\ calls' = calls + 1 /\ answer' = None /\ outbox' = [r \in Ranks |-> None]
  /\ UNCHANGED <<config, job, pgs, workers, master, waited, centers, joined, home>>

\* Workers answer when they are done, in any order. One whose partners work on other
\* rows computes nothing of use.
Work(r) ==
  /\ pc = "calling" /\ outbox[r] = None
  /\ outbox' = [outbox EXCEPT ![r] =
       IF \A s \in Partners(Mode(call.kind), r) : inbox[s] = inbox[r]
         THEN inbox[r] ELSE [i \in DOMAIN inbox[r] |-> None]]
  /\ UNCHANGED <<config, job, pc, pgs, workers, master, waited, centers, joined, calls, call, inbox, answer, home>>

\* ray.get waits for all answers and keeps their places.
Collect ==
  /\ pc = "calling" /\ \A r \in Ranks : outbox[r] # None
  /\ answer' = Unpad(Concat(Mode(call.kind), outbox), call.pad)
  /\ pc' = "idle"
  /\ UNCHANGED <<config, job, pgs, workers, master, waited, centers, joined, calls, call, inbox, outbox, home>>

-----------------------------------------------------------------------------
(* Jobs                                                                        *)

Fresh ==
  /\ pc' = "pool" /\ pgs' = <<>> /\ workers' = <<>> /\ master' = None /\ waited' = 0 /\ joined' = {}
  /\ calls' = 0 /\ call' = None /\ inbox' = None /\ outbox' = None /\ answer' = None

\* A job ends, or is killed, or its driver raised; Ray may take a while to remove the
\* named actors of a job that is gone.
NextJob ==
  /\ job < MaxJobs
  /\ job' = job + 1
  /\ Fresh
  /\ centers' \in {centers, {}}
  /\ UNCHANGED <<config, home>>

Finished == job = MaxJobs /\ (pc = "raised" \/ (pc = "idle" /\ calls = MaxCalls)) /\ UNCHANGED vars

Init ==
  /\ config \in Settings
  /\ job = 1 /\ pc = "pool" /\ pgs = <<>> /\ workers = <<>> /\ master = None /\ waited = 0
  /\ centers = {} /\ joined = {} /\ calls = 0
  /\ call = None /\ inbox = None /\ outbox = None /\ answer = None /\ home = None

Next ==
  \/ CreatePool \/ StartWorker \/ Register \/ Poll \/ ComeUp
  \/ \E r \in Ranks : Join(r) \/ Work(r)
  \/ \E kind \in {"compute", "generate", "validate"} : Dispatch(kind)
  \/ Collect \/ NextJob \/ Finished

Spec == Init /\ [][Next]_vars

-----------------------------------------------------------------------------
(* Properties                                                                  *)

\* Ranks load the shards that they saved on their node, so a job that is given as
\* many groups of each node as the first one must give every rank its node again
\* (sort_placement_group_by_node_ip: "RANK should be consistent across nodes in
\* multiple ray jobs").
SamePlacement(p, q) ==
  \A n \in Nodes : Cardinality({i \in DOMAIN p : p[i] = n}) = Cardinality({i \in DOMAIN q : q[i] = n})
RanksStayOnTheirNodes ==
  home # None /\ SamePlacement(home.pgs, pgs) =>
    \A i \in DOMAIN workers : workers[i].node = home.node[i - 1]

\* Each worker has a GPU of its own and is sent to the address of its own job's rank
\* 0, whatever register centers of jobs before are still there.
OneRendezvous ==
  \A i, j \in DOMAIN workers :
    /\ i # j => <<workers[i].pg, workers[i].bundle>> # <<workers[j].pg, workers[j].bundle>>
    /\ workers[i].master # None => workers[i].master = [job |-> job, node |-> workers[1].node]

\* A call returns the rows it was given, each once and in their order, computed by
\* ranks that agree on them. Generation under Megatron with several stages, or several
\* context ranks of several replicas, is excepted; there it is known to fail
\* (GenerationKeepsTheOrder). Only a job of several nodes may have a batch refused, if
\* that is for training and does not go round all its ranks: on one node the alignment
\* to n_gpus_per_node is to all ranks, and a validation batch is padded to them.
Returned == pc = "idle" /\ answer # None
Stages == (config.pp > 1 /\ config.dp * config.cp > 1) \/ (config.cp > 1 /\ config.dp > 1)
RowsComeBack ==
  /\ pc = "raised" /\ call # None =>
       config.nnodes > 1 /\ call.kind # "validate" /\ Len(call.rows) % World # 0
  /\ Returned /\ (Stages => call.kind = "compute") => answer = call.rows

\* "a batch of data "ABCDEFGH" should be dispatched and collected in below order":
\* generation returns the rows in their order on every layout.
GenerationKeepsTheOrder == Returned /\ call.kind = "generate" => answer = call.rows
=============================================================================
