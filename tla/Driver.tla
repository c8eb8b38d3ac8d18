------------------------------- MODULE Driver -------------------------------
(***************************************************************************)
(* One run of `getp` (src/src/getp/eval.cpp, run.cpp): read the requests,  *)
(* choose the expert group and the rows per GPU, upload the model with one *)
(* thread per device, allocate the extension buffers, deal the requests    *)
(* out to one decoding thread per device, join, write the answers, free.   *)
(* What a decoding thread does inside is GenerateLoop; here it makes its   *)
(* first call of getp_forward_120b up to the first barrier in one step and *)
(* answers its rows in another.  The model fields, devices, requests and   *)
(* batches are small; the literals 8 and 2 of the code are kept.           *)
(***************************************************************************)
EXTENDS Integers, FiniteSets, Functions

CONSTANTS
  Workloads,   \* records: devices, big (n_experts = 128), experts, fixed
               \* (GETP_BATCH, 0 unset), count (first line), lines (prompts), steps, files,
               \* staging (devices that a move may find room for its staging on)
  Default120b, Default20b,   \* the literals 768 and 1536
  Cap120b, Cap20b,           \* GETP_BATCH_CAP_120B, GETP_BATCH_CAP_20B
  SeqLen                     \* config.seq_len

ASSUME DriverAssumption ==
  /\ {Default120b, Default20b, Cap120b, Cap20b} \subseteq Nat \ {0}
  /\ SeqLen \in Nat
  /\ \A w \in Workloads : /\ w.devices \in Nat \ {0}
                          /\ {w.big, w.files} \subseteq BOOLEAN
                          /\ {w.experts, w.fixed, w.count, w.lines, w.steps} \subseteq Nat
                          /\ w.staging \subseteq Nat

VARIABLES
  workload,    \* the machine, the checkpoint and the input file: chosen once
  pc,          \* where the main thread stands
  heap,        \* allocated blocks, <<device, field, owner>>; Host is the host's own memory,
               \* and the owner tells apart what is allocated again for each chunk or replica
  stray,       \* some free was of a block that was not allocated
  running,     \* devices whose thread (upload or decoding) has not ended
  begun,       \* devices whose decoding thread stands at, or is past, its first barrier
  published,   \* the chunk whose thread's buffers g_rr_idx[d], g_ag_send[d], ... lead to
  idx,         \* first request of the current chunk
  answered,    \* how many rows have written each request's answer
  num_token_out, total

vars == <<workload, pc, heap, stray, running, begun, published, idx, answered, num_token_out, total>>
decoding == <<begun, published, idx, answered, num_token_out, total>>

Host == -1
Null == -1
Devices == 0 .. workload.devices - 1
Requests == 0 .. workload.count - 1

(***************************************************************************)
(* The configuration warm_up and inference compute                         *)
(***************************************************************************)
EXPERT_PARALLELISM == IF workload.big THEN workload.devices ELSE 2
Cap == IF workload.big THEN Cap120b ELSE Cap20b

\* The input count sets the rows when no GETP_BATCH is given and the devices divide it.
FollowsInput == workload.fixed = 0 /\ workload.count > 0 /\ workload.count % workload.devices = 0
InputRows == workload.count \div workload.devices

\* Mutant: the fixed default, whatever the input.
BatchFixed == IF workload.fixed > 0 THEN workload.fixed
              ELSE IF workload.big THEN Default120b ELSE Default20b
BATCH_SIZE == IF FollowsInput THEN InputRows
              ELSE IF workload.fixed > 0 THEN workload.fixed
              ELSE IF workload.big THEN Default120b ELSE Default20b

Refused == \/ FollowsInput /\ InputRows > Cap
           \/ workload.devices % EXPERT_PARALLELISM # 0

ExpertsPerDevice == workload.experts \div EXPERT_PARALLELISM
\* Mutant: counted from the device's number and not from its rank in the group.
ExpertStartGlobal(d) == ExpertsPerDevice * d
ExpertStart(d) == ExpertsPerDevice * (d % EXPERT_PARALLELISM)
ExpertEnd(d) == ExpertsPerDevice * ((d % EXPERT_PARALLELISM) + 1)

NParallel == workload.devices \div EXPERT_PARALLELISM
PerModel == workload.count \div NParallel
Leaders == {d \in Devices : d % EXPERT_PARALLELISM = 0}
RequestStart(d) == (d \div EXPERT_PARALLELISM) * PerModel
\* The last line of the loop compares a device number with a number of replicas.
RequestEnd(d) == IF d = NParallel - 1 THEN workload.count
                 ELSE ((d \div EXPERT_PARALLELISM) + 1) * PerModel
Chunk == EXPERT_PARALLELISM * BATCH_SIZE
Group(d) == {q \in Devices : q \div EXPERT_PARALLELISM = d \div EXPERT_PARALLELISM}
LayoutHolds == \A d \in Leaders : (RequestEnd(d) - RequestStart(d)) % Chunk = 0

RequestsPerModel == RequestEnd(0) - RequestStart(0)
Is120bPath == EXPERT_PARALLELISM = 8
\* The asserts of Model_20b::distribute_requests; the 120b path has none and loops instead.
OneBatchEach == NParallel * RequestsPerModel = workload.count /\ RequestsPerModel = Chunk

Steps == IF workload.steps = 0 \/ workload.steps > SeqLen THEN SeqLen ELSE workload.steps

\* The requests of device d's rows: inputs_seq and outputs_tokens, offset by i * BATCH_SIZE.
\* Mutant: every rank of a group is given the first rank's rows.
RowsOfLeader(d) ==
  {idx + (d \div EXPERT_PARALLELISM) * RequestsPerModel + b : b \in 0 .. BATCH_SIZE - 1}
Rows(d) ==
  {idx + (d \div EXPERT_PARALLELISM) * RequestsPerModel + (d % EXPERT_PARALLELISM) * BATCH_SIZE + b :
     b \in 0 .. BATCH_SIZE - 1}

\* What a request's row adds to nums_token_out: any weight that tells the requests apart.
TokensOf(q) == q + 1

(***************************************************************************)
(* The memory each part allocates and frees                                *)
(***************************************************************************)
WeightBlocks == {"dev_data", "dev_linear_bf16", "dev_experts"}
RunStateBlocks == {"x", "t", "tb", "tb2", "router_score", "topk_v", "topk_i", "mlp1_out",
                   "gate", "up", "e_agg", "q", "key_cache", "value_cache"}
StreamBlocks == {"memory_stream", "compute_stream", "h2d_stream", "d2h_stream"}
TransformerBlocks == WeightBlocks \union RunStateBlocks \union StreamBlocks

GroupBlocks == IF EXPERT_PARALLELISM > 1
               THEN {"ext_t_bf16", "ext_topk_i", "ext_topk_v", "ext_router_score", "ext_t",
                     "ext_e_agg", "ext_e_agg2", "peer_e_agg"}
               ELSE {}
ExtBlocks == {"mask_on", "local_ids", "local_wts", "n_local", "e_counts", "e_offsets", "e_dev",
              "w_dev", "pair_pos", "z_partial", "blk_counts", "blk_offsets", "a_in",
              "gate_up_bf16", "pre_qkv_bf16", "attn_o_bf16", "allreduce_tmp"} \union GroupBlocks

\* The pointers ext_free_all tests and frees.  Mutant: the field declared apart is forgotten.
FreedWithoutT == {"mask_on", "local_ids", "local_wts", "n_local", "e_counts", "e_offsets", "e_dev",
                  "w_dev", "pair_pos", "z_partial", "ext_topk_i", "ext_topk_v", "ext_router_score",
                  "ext_t", "ext_e_agg", "ext_e_agg2", "peer_e_agg", "blk_counts", "blk_offsets",
                  "a_in", "gate_up_bf16", "pre_qkv_bf16", "attn_o_bf16", "allreduce_tmp"}
ExtFreed == {"mask_on", "local_ids", "local_wts", "n_local", "e_counts", "e_offsets", "e_dev",
             "w_dev", "pair_pos", "z_partial", "ext_topk_i", "ext_topk_v", "ext_router_score",
             "ext_t", "ext_e_agg", "ext_e_agg2", "peer_e_agg", "blk_counts", "blk_offsets", "a_in",
             "gate_up_bf16", "pre_qkv_bf16", "attn_o_bf16", "ext_t_bf16", "allreduce_tmp"}

\* What getp_forward_120b allocates on its first call in a thread, keeps in pointers of that
\* thread and never frees: up to its first barrier, and behind it.
PeerBlocks == {"ag_send", "rr_idx", "rr_cnt", "g_ev_ag", "g_ev_eagg", "g_ev_eagg_first"}
RowListBlocks == PeerBlocks \union
                 {"rs_elo", "rs_ehi", "rs_rank", "rs_idx", "rs_cnt", "rs_hcnt", "rr_rank",
                  "ag_recv", "ag_ridx", "copy_streams"}
FirstBlocks == {"event_rmsnorm", "event_router_topk", "events_e_agg", "events_pull"}
                 \union (IF EXPERT_PARALLELISM > 2 THEN RowListBlocks ELSE {})
LastBlocks == {"pairs", "xb"} \union (IF EXPERT_PARALLELISM > 2 THEN {"xp_order"} ELSE {})
ThreadBlocks == FirstBlocks \union LastBlocks

\* What it allocates once per device and process.
DeviceBlocks == (IF EXPERT_PARALLELISM <= 2 THEN {"g_ev_sync"} ELSE {})
                  \union (IF EXPERT_PARALLELISM >= 2 THEN {"g_eplb_relabel", "g_eplb_acc"} ELSE {})

On(ds, blocks) == ds \X blocks \X {0}
OfThread(ds, blocks) == ds \X blocks \X {idx}

\* new Barrier for each replica; the 120b path has its Barrier on the stack.
SyncPoints == IF Is120bPath THEN {} ELSE {Host} \X {"sync_point"} \X (0 .. NParallel - 1)

Staging(ds) == On(ds, {"g_eplb_stage"})
\* The staging a device may end a chunk with: its moves keep it, allocate it, or free it for a
\* larger one and find no room.
StagingAfter(d) == IF EXPERT_PARALLELISM >= 2 /\ d \in workload.staging
                     THEN SUBSET Staging({d}) ELSE {{}}

(***************************************************************************)
(* The main thread                                                         *)
(***************************************************************************)
Init ==
  /\ workload \in Workloads
  /\ pc = "getp"
  /\ heap = {} /\ stray = FALSE
  /\ running = {} /\ begun = {} /\ idx = 0
  /\ published = [d \in Devices |-> Null]
  /\ answered = [q \in Requests |-> 0]
  /\ num_token_out = [d \in Devices |-> 0] /\ total = 0

Goto(label) == pc' = label
Stop == Goto("failed") /\ UNCHANGED <<workload, heap, stray, running, decoding>>

\* read_inputfile: the buffers of all requests; lines that are missing stay blank.
ReadInput ==
  /\ pc = "getp"
  /\ \/ /\ ~workload.files
        /\ Stop
     \/ /\ workload.files
        /\ heap' = heap \union On({Host}, {"str_reqs", "tok_gens"})
        /\ Goto("warm_up")
        /\ UNCHANGED <<workload, stray, running, decoding>>

WarmUp ==
  /\ pc = "warm_up"
  /\ \/ Refused /\ Stop
     \/ /\ ~Refused
        /\ heap' = heap \union On({Host}, {"dev_transformers", "workers"})
                        \union On(Devices, {"DeviceTransformer"})
        /\ running' = Devices
        /\ Goto("upload")
        /\ UNCHANGED <<workload, stray, decoding>>

\* upload_transformer, on a thread of its own.
Upload(d) ==
  /\ pc = "upload" /\ d \in running
  /\ heap' = heap \union On({d}, TransformerBlocks)
  /\ running' = running \ {d}
  /\ UNCHANGED <<workload, pc, stray, decoding>>

\* The uploads are joined, then ext_create, ext_alloc_device for each device, cgCreate.
Allocate ==
  /\ pc = "upload" /\ running = {}
  /\ heap' = heap \union On({Host}, {"g_ext"}) \union On(Devices, ExtBlocks \union {"comm"})
  /\ Goto("inference")
  /\ UNCHANGED <<workload, stray, running, decoding>>

\* inference up to the threads: the asserts of the layout, then those of the path taken.
Inference ==
  /\ pc = "inference"
  /\ \/ /\ ~(LayoutHolds /\ (Is120bPath \/ OneBatchEach))
        /\ Stop
     \/ /\ LayoutHolds /\ (Is120bPath \/ OneBatchEach)
        /\ heap' = heap \union SyncPoints
        /\ IF idx < RequestsPerModel THEN running' = Devices /\ Goto("generate")
                                     ELSE running' = {} /\ Goto("write")
        /\ UNCHANGED <<workload, stray, decoding>>

\* coop_getp_generate on device d, up to the first barrier in getp_forward_120b: a blank prompt
\* or too few steps end the process.  The thread is new, and so are its buffers; those of the
\* device are there from the chunk before.
Begin(d) ==
  /\ pc = "generate" /\ d \in running \ begun
  /\ \/ /\ (\E q \in Rows(d) : q >= workload.lines) \/ Steps < 2
        /\ Stop
     \/ /\ \A q \in Rows(d) : q < workload.lines
        /\ Steps >= 2
        /\ begun' = begun \union {d}
        /\ heap' = heap \union On({d}, DeviceBlocks \union {"pinned_tokens"})
                        \union OfThread({d}, FirstBlocks)
        /\ published' = IF EXPERT_PARALLELISM > 2 THEN [published EXCEPT ![d] = idx] ELSE published
        /\ UNCHANGED <<workload, pc, stray, running, idx, answered, num_token_out, total>>

\* The rest of it, once the ranks of the replica have met.  What the thread allocated stays.
Generate(d) ==
  /\ pc = "generate" /\ d \in running
  /\ Group(d) \subseteq begun
  /\ answered' = [q \in Requests |-> answered[q] + (IF q \in Rows(d) THEN 1 ELSE 0)]
  /\ num_token_out' = [num_token_out EXCEPT ![d] = SumFunction([q \in Rows(d) |-> TokensOf(q)])]
  /\ \E staging \in StagingAfter(d) :
       heap' = (heap \ (Staging({d}) \union On({d}, {"pinned_tokens"})))
                 \union staging \union OfThread({d}, LastBlocks)
  /\ stray' = (stray \/ ~(On({d}, {"pinned_tokens"}) \subseteq heap))
  /\ running' = running \ {d}
  /\ UNCHANGED <<workload, pc, begun, published, idx, total>>

\* The threads are joined and their counts summed; the 120b path goes on to the next chunk.
Join ==
  /\ pc = "generate" /\ running = {}
  /\ total' = total + SumFunction(num_token_out)
  /\ idx' = idx + Chunk
  /\ begun' = {}
  /\ IF Is120bPath /\ idx' < RequestsPerModel THEN running' = Devices /\ UNCHANGED pc
                                              ELSE running' = {} /\ Goto("write")
  /\ UNCHANGED <<workload, heap, stray, published, answered, num_token_out>>

WriteOutput ==
  /\ pc = "write"
  /\ Goto("finish")
  /\ UNCHANGED <<workload, heap, stray, running, decoding>>

\* finish: free() of the objects (no destructor runs), the extensions whose pointer is not
\* null, the tables, the group.  ext_create clears all pointers and nobody else touches them:
\* not null are those that ext_alloc_device set, whatever became of their blocks.
Finish ==
  /\ pc = "finish"
  /\ LET freed == On(Devices, {"DeviceTransformer", "comm"})
                  \union On(Devices, ExtFreed \intersect ExtBlocks)
                  \union On({Host}, {"g_ext", "dev_transformers"})
     IN heap' = heap \ freed /\ stray' = (stray \/ ~(freed \subseteq heap))
  /\ Goto("done")
  /\ UNCHANGED <<workload, running, decoding>>

Main == ReadInput \/ WarmUp \/ Allocate \/ Inference \/ Join \/ WriteOutput \/ Finish
Ended == pc \in {"done", "failed"} /\ UNCHANGED vars
Next == Main \/ (\E d \in Devices : Upload(d) \/ Begin(d) \/ Generate(d)) \/ Ended

\* The operating system runs every thread that can run.
MAXIMUM_GPU == 8
Fairness == /\ WF_vars(Main)
            /\ \A d \in 0 .. MAXIMUM_GPU - 1 : WF_vars(Upload(d) \/ Begin(d) \/ Generate(d))
Spec == Init /\ [][Next]_vars /\ Fairness

(***************************************************************************)
(* Properties                                                              *)
(***************************************************************************)
\* When the answers are written every request was answered by exactly one row, so that
\* write_outputfile finds a sentinel in every slot, and the tokens counted are those of all
\* requests, once each (eval.cpp:82-90, run.cpp:330-360 and 516-544).
ServedOnce ==
  /\ \A q \in Requests : answered[q] <= 1
  /\ pc \in {"write", "finish", "done"} =>
       /\ \A q \in Requests : answered[q] = 1
       /\ total = SumFunction([q \in Requests |-> TokensOf(q)])

\* While the ranks decode, each replica holds every expert on exactly one device, except the
\* last n_experts % EXPERT_PARALLELISM, which no device of any replica holds (run.cpp:115-123).
ExpertsCovered ==
  pc = "generate" =>
    \A leader \in Leaders, e \in 0 .. workload.experts - 1 :
      Cardinality({d \in leader .. leader + EXPERT_PARALLELISM - 1 :
                     ExpertStart(d) <= e /\ e < ExpertEnd(d)})
        = (IF e < workload.experts - (workload.experts % EXPERT_PARALLELISM) THEN 1 ELSE 0)

\* The chunks that have been decoded.
Decoded == {k \in 0 .. idx - 1 : k % Chunk = 0}

\* What a run leaves to the operating system: what the DeviceTransformers pointed to, workers and
\* requests (cleanup and free_requests are commented out, run.cpp:152-168), the barriers of the
\* replicas, and what getp_forward_120b keeps, some of it once more for each chunk.
Left == On(Devices, TransformerBlocks)
          \union On({Host}, {"workers", "str_reqs", "tok_gens"})
          \union SyncPoints
          \union (IF idx = 0 THEN {} ELSE On(Devices, DeviceBlocks))
          \union Devices \X ThreadBlocks \X Decoded

\* A rank reads its peers' buffers: while any rank decodes, every device has all of its blocks,
\* and the pointers that a rank went by to reach its peers led to the buffers of their current
\* threads, not of a chunk before (forward.hip:7415-7440, 7829).  Nothing is freed that is not
\* allocated, and a finished run has given back all but Left and the staging of the moves, so
\* that only the number of chunks makes what is left grow.
MemoryHeld ==
  /\ ~stray
  /\ pc = "generate" =>
       /\ On(Devices, TransformerBlocks \union ExtBlocks) \subseteq heap
       /\ EXPERT_PARALLELISM > 2 =>
            \A d \in Devices \ running : \A q \in Group(d) :
              /\ published[q] = idx
              /\ {q} \X PeerBlocks \X {published[q]} \subseteq heap
  /\ pc = "done" => heap \ Staging(Devices) = Left

\* docs/PARALLELISM.md:138-156: on eight GPUs any multiple of eight up to eight times the cap
\* is accepted, and with the rows fixed the count that they make up.
Documented ==
  /\ workload.files /\ workload.lines = workload.count /\ workload.count > 0
  /\ workload.steps # 1 /\ workload.devices = 8
  /\ \/ workload.fixed = 0 /\ workload.count % 8 = 0 /\ workload.count <= 8 * Cap
     \/ workload.fixed > 0 /\ workload.count = 8 * workload.fixed

\* A documented workload is answered to the end; any other run ends as well.
WorkloadsThatFitFinish == <>(pc = "done" \/ (pc = "failed" /\ ~Documented))
=============================================================================
