# Specifications of the gpt-oss inference engine

TLA+ models of the parts of this repository where steps of several actors meet,
or where an index, a bound or an order is easy to get wrong and hard to test, and of
the sequential code around them; TLC configurations that check them; and TLAPS
proofs, for all sizes, about the barrier, the decoding loop and what it writes, the
exchange between GPUs, the key/value cache, the placement of experts, the routing to
them, the tiled kernels, the choice of the token, and the CPU reference.

Paths are written from the directory that holds `src/` (the repository) and
`tla/`: the engine's sources are `src/src/...`, its headers `src/include/...`.
`run.cpp` means `src/src/getp/run.cpp` unless it says otherwise, `forward.hip`
is `src/src/hip/forward.hip`.  Documents are cited as `docs/...`, for
`src/docs/...`.

    tlc -workers 2 -config MCBarrier.cfg Barrier      # one of the runs below
    tlapm HostProofs.tla                              # proofs: each module named *Proofs, NumberLemmas

`PROJECT.json` lists the components, the runs with their properties, the source
lines each definition stands for, the hazards of the code, and for each property
of each run a seeded fault that it catches.

Contents: [the system](#the-system) - [components](#components) -
[modules](#modules) - [runs](#runs) - [fairness](#fairness) -
[proofs](#proofs) - [abstractions](#what-the-models-leave-out) -
[observations](#observations) - [plan](#plan)

## The system

The program decodes batches of prompts with the gpt-oss 20B and 120B models on
AMD GPUs.  It is one process.  A *replica* of the model is spread over
`EXPERT_PARALLELISM` GPUs (two for the 20B model, all of them for the 120B
model): each GPU has all of attention, a share of the experts of every layer,
and `BATCH_SIZE` rows, a row being one request in progress.

- The main thread cuts the requests into chunks and starts one host thread per
  GPU and chunk (`distribute_requests`).
- A host thread tokenises its prompts and then calls `getp_forward_120b` once
  per position.  All threads of a replica do so in lockstep: they meet at a spin
  barrier (`src/include/barrier.hpp`) twice per layer and once per step.
- Inside the forward pass a thread only *enqueues* kernels, event records and
  event waits on the streams of its GPU.  The GPUs run at their own pace and
  read each other's memory.  Events order the streams; the barrier makes sure
  that an event has been recorded before a peer waits for it.
- Each layer exchanges data between the GPUs twice: the activations of the rows
  whose experts are elsewhere go out (the "all-gather"), and the partial sums of
  the experts come back (the "reduce-scatter").
- From time to time the ranks move experts between GPUs to even out the load
  (EPLB), at the start of a step, with the barrier and nothing else between them.
- Around all this the main thread reads the requests, chooses group and batch
  sizes, uploads the weights with one thread per GPU, joins the decoding threads,
  writes the answers and frees what it frees (`eval.cpp`, `run.cpp`).
- `src/src/run.cpp` also has a CPU implementation for one request at a time, with
  its attention heads in parallel: the reference for outputs, and the home of
  `chat`.  Tokenizer and sampler are plain functions.
- Inside a GPU, hundreds of blocks build row lists, place (row, expert) pairs,
  multiply tiles and race for the maximum of a row through atomics.

What makes this hard to test is that none of it fails loudly.  A missing wait
yields the activations of the layer before, a wrong slot the key of another
request, a different order of atomics another rounding; the output is fluent
text in all cases.  The history in the comments and docs is of such faults found
by comparing the outputs of two runs.

## Components

| Component | State | Operations | Meets the others through | What makes it correct | Modelled |
|---|---|---|---|---|---|
| Barrier (`barrier.hpp`) | `count`, `phase` | `wait()` | every host thread of a replica | nobody returns from its k-th wait before all have entered their k-th; everybody returns | yes, and proved |
| Batched decoding (`run.cpp`, `eval.cpp`) | chunk, `thread_states`, `pos`, `epos`, `mask`, the arena `tok_gens`, token counts | tokenise, loop test, forward, advance rows, early exit, join | the barrier; the shared arena and array | all threads leave at the same step; each request decodes as if alone | yes (one replica), and proved |
| Exchange between GPUs (`forward.hip`) | streams, events, `ext_t_bf16`, top-k tables, row lists, `e_agg` | launch, record, wait, drain, barrier | streams of one GPU and memory of the others | no kernel overwrites what another reads; each read finds its own layer's data; no cycle of waits | yes: two builds for a pair, two for more GPUs; the default ones proved to be in order |
| Expert placement, EPLB (`forward.hip`) | counters, label tables, weight slots, staging buffer, votes | count, publish, plan, vote, stage, install, relabel | the barrier; the counters, votes and weights of all ranks | a label always names the slot with that expert's weights; none is lost; ranks agree; the load gets no worse | yes, and proved |
| MoE routing (`forward.hip`) | row lists, buckets, pair positions, `e_agg`, residual | build lists, pull, place, multiply, gather, reduce | top-k tables and packed rows of the peers | both ends derive the same lists; each pair has one place and one block; sums are reproducible | yes, and proved, for more than two GPUs; a pair's unpacked path through the exchange only |
| GEMM and attention pipelines (`forward.hip`) | register sets, LDS, accumulators of a block's waves | load, store, sync, multiply | `__syncthreads` | every multiply reads its own tile, each exactly once | yes, and proved |
| Logits and argmax (`forward.hip`) | `smax`, `sidx` of a block, packed `pairs` | block maximum by CAS, index by `atomicMin`, `atomicMax` of the pair | all column blocks of a row | the token depends on the logits only and is near the maximum | yes, and proved |
| KV cache and window (`forward.hip`, `transformer.cpp`) | rings of two sizes in one allocation | write a position, read a window | chunks, rows and layers share the allocation | attention reads its own window; all addresses are inside | yes, and proved |
| Row kernels (`forward.hip`) | one block's candidates | the router's top-k; rmsnorm, RoPE, embedding, SwiGLU | its picks go to MoE routing | k different experts near the top, the same for any block size | the top-k; the others are arithmetic of one row |
| Driver (`eval.cpp`, `run.cpp`) | group, rows, heap, threads, `idx`, answers, counts | `read_inputfile`, `warm_up`, `inference`, `finish` | starts the above | every request is answered once; every expert has an owner; no rank reads a peer's block that is gone or of another chunk; nothing is freed that was not allocated, and it is known what stays | yes, and proved |
| Device memory and weights (`transformer.cpp`, `state_ext.cpp`) | three buffers per device, the allocations | upload, allocate, free | the checkpoint; the experts of a rank | each weight is where the kernels look for it | layout and lifetimes, and proved |
| CPU reference (`src/src/run.cpp`) | KV cache, scores of all heads, position | forward, generate, chat | - | a head weighs its own window; prompts are fed whole; the best experts are mixed | loops, attention and expert mixing, and proved; not the arithmetic |
| Sampler (`src/src/run.cpp`) | none | greedy, multinomial, top-p | - | top-p is the smallest nucleus | yes, and top-p proved |
| Tokenizer (`tokenizer.cpp`, `decode.cpp`) | vocabulary | read, encode, decode | - | text round-trips; merges go by rank; buffers hold | yes |
| Collectives (`collectives.cpp`) | a group | `cgCreate`, `cgDestroy`; the rest is dead code (docs/PARALLELISM.md:165-183) | the driver | freed as it was made | its life in `Driver` |
| Python tools and tests | - | - | - | - | no: offline |

Hard behaviours: interleaving of host threads, streams, blocks and waves; the
order of event records and waits; reuse of events, buffers and rings; stale data
left in buffers that are never cleared; one rank failing to allocate; counters
and sizes at their limits.  `PROJECT.json` lists them one by one under
`hazards`, each at its line.

## Modules

Arrows read "is used by"; `>>` is a refinement.

    Barrier >> Rendezvous --> GenerateLoop >> Decode << Reference --> MCReference
                          |        \-> MCGenerateLoop
                          \-> Streams --> Exchange --> XPull, CopyExchange --> MCXPull
                          |                       \-> K2Pull, CopyPull    --> MCPair
                          \-> Eplb <-- EplbPlan
    EplbPlan, Tokenizer, Sampler, RouterTopK, Weights --> MCAlgorithms
    NumberLemmas --> GenerateLoopProofs, MoeRoutingProofs
                       (each extends the module it is named after)
                     AlgorithmProofs (extends Eplb and MCAlgorithms)
                     HostProofs (extends Barrier and Driver)
                     ExchangeProofs (extends XPull and K2Pull)
                     KernelProofs (extends LogitsArgmax and Workgroup)
                     AttentionProofs (extends Reference and KvCache)
    MoeRouting --> MCMoeRouting         Tiles --> Workgroup
    LogitsArgmax --> MCLogitsArgmax     KvCache --> MCKvCache
    Driver --> MCDriver

`Rendezvous` is the contract between the barrier and its users.  `Barrier`
models `wait()` load by load and is shown to implement it; `GenerateLoop`,
`Streams` and `Eplb` take the barrier as two actions, `Arrive` and `Leave`, of
an `INSTANCE` of `Rendezvous`.  So the models of the users need not repeat the
spinning, and the result for the barrier carries over to them.

Definitions introduced by "Mutant:" (or "a changed ...") are seeded faults.
They take no part in any specification; each shows that a property of a run
would notice a plausible mistake in the code.

**Barrier.**  One action per atomic operation of `wait()`: `LoadPhase`,
`FetchAddCount`, then `ResetCount` and `AdvancePhase` for the last arriver or
`SpinExit` for the others.  The first load of `phase` is relaxed: the model lets
it return any value not older than the newest one the thread has seen (`seen`),
as the C++ memory model does.  `phase` is counted without bound and compared
modulo `PhaseWidth`, as the wrapping `int` is.

**Rendezvous.**  `passed[t]` and the set `inside`: a thread may leave its k-th
wait once all threads have entered theirs.

**GenerateLoop.**  The main thread's chunks (`Join`) and the loop of
`coop_getp_generate` per host thread: `Encode` (and `exit` on an empty prompt),
`LoopTest`, `ForwardArrive`/`ForwardLeave` (the forward pass reduced to its
barrier crossings and one token per row), `Advance` (the whole body: positions,
prompt tokens, the arena cell, `<|return|>`, the entry of `thread_states`),
`SyncArrive`/`SyncLeave`, `Scan` (one entry of `thread_states` at a time, which is
plain shared memory), `Finish` (sentinels and token counts).  `tokGens` is the
flat arena with slots of `steps + 1` cells, so that a write outside a slot lands
in a neighbour, as it does in the program.  Prompts have no stop tokens, since the
encoder never merges bytes into a special token (`get_merge_rank`).

**Decode.**  What the loop promises for a request by itself: its output grows
token by token up to a stop token or the budget and is then closed for good.
The refinement mapping reads output and sentinel out of the arena.

**Streams.**  A small model of the HIP runtime: a host thread per device runs a
program of instructions (kernel, record, wait, drain, barrier), streams execute
their entries in order and concurrently with everything else.  A wait refers to
the record that is latest when the *call* is made, and to nothing if there is
none; that is why the code needs the host barrier.  A kernel takes two steps, so
that kernels overlap, and its reads must hold for its whole duration.  Each
place of memory holds the number of the layer that wrote it.

**Exchange, XPull, CopyExchange, K2Pull, CopyPull.**  The programs of
`getp_forward_120b`, as sequences of instructions in the order of the code.  More than
two GPUs read their peers' memory by kernels (`GETP_XPULL`, the default) or
pull by peer copies on streams of their own, behind a drain on the way out and
behind events on the way back (`GETP_XPULL=0` with `GETP_EVAGG` and
`GETP_GPSLICE`).  A pair uses kernels that read the partner (`GETP_K2PULL`) or
copies on `memory_stream`.  Which places a kernel reads and writes is read off
its arguments.

**EplbPlan, Eplb.**  `EplbPlan` has `eplb_plan` (swaps of an expert between the
heaviest and the lightest rank) and the new labels as pure operators.  `Eplb` is
the protocol: `BeginStep`, `Publish`, `Vote` (the plan, and a staging buffer that may
fail to be allocated), `Decide`, `Stage` and `Install` expert by expert, `Relabel`,
`Clear`, `Compute`, with the barrier between them.  The state is what the code
keeps by label: weight slots, tables, counters.

**MoeRouting.**  The stages of one layer's experts on each rank: `BuildLists`
(`getp_rowskip_build_all_kernel`, the scan over lanes with a running base),
`Pull`, `Place` (counts, offsets, blocks and the `atomicAdd` positions, in any
order), `Gather`, `Reduce`.  A product is the triple of row, expert and place in
the top-k, so a sum is the sequence of its addends in order: two sums are equal
when they would round alike.  Buffers start with `Stale`.

**Tiles, Workgroup.**  `Tiles` writes the k loops of the ten tiled kernels as
programs for waves, from four pipelines: what each step of the loop loads to register
sets, which LDS slot it multiplies, what it stores.  `Workgroup` runs one kernel with the
waves in any order that the `__syncthreads` leave open; a wave's place in the
program is one of the stretches between them (load, multiply, sync, store, last sync), and
a multiply reads the parts of a tile one at a time.  The k range of a split of the
router GEMM is in `Tiles` too.

**LogitsArgmax.**  The grid with its swizzled groups, the CAS loop on the block's
maximum, the smallest near index by `atomicMin`, and the packed `atomicMax` over
the blocks of a row, with sign-and-magnitude numbers for floats.

**RouterTopK.**  The tree in which a block picks k experts of a row.  Scores are
integers, the tolerance is the code's relative one, and -INFINITY follows the
rules of IEEE comparison: the threshold next to it is infinite, a difference of
two is NaN.

**KvCache.**  Addresses of the rings (offsets of even and odd layers, padding,
scales), a write by the qkv kernel, the window and tiles of flash attention, and
the next chunk starting on what the last one left.  A vector is known by the
chunk, layer, position, row and head it was computed from.

**Driver.**  One run of `getp`, with the main thread's steps in order (`ReadInput`,
`WarmUp`, `Allocate`, `Inference`, `Join`, `WriteOutput`, `Finish`) and a thread per
device that uploads and later decodes.  A decoding thread takes two steps here, `Begin` up to
the first barrier of its first forward pass and `Generate` for the rest, which it can take only
once its whole group has begun; what happens between is `GenerateLoop`'s and `Streams`' matter.
The refusals and asserts are guards that end in "failed".  The literals 8 and 2 that the code
compares with are the code's; rows, caps and counts are small.

`heap` is a set of blocks `<<device, field, owner>>`, so that an upload or a free that misses one
shows.  It holds what is allocated once per run (`On`), the barriers of the replicas
(`SyncPoints`), and what `getp_forward_120b` allocates on its first call: for good and once per
device (`DeviceBlocks`: the events of the sync points, the tables of EPLB), or once per thread,
in `static thread_local` pointers (`ThreadBlocks`: the row lists, send and receive buffers,
events, copy streams, the pairs and bf16 rows of the logits).  The 120B path starts new threads for
every chunk, so these blocks have the chunk's first request as their owner and come once more with
each chunk.  `published[d]` is the chunk whose buffers the process-wide pointers `g_rr_idx[d]`,
`g_rr_cnt[d]`, `g_ag_send[d]` lead to; a thread sets them before its first barrier.  Of the staging
of EPLB's moves only its presence is kept: a move may allocate it, keep it, or free it and find no
room (`StagingAfter`).  `finish` frees by pointers, and the pointers of the extensions are those that
`ext_alloc_device` set.  Blocks that are freed in the step that allocates them (the token array
of a step, the partial sums of split-K) are left out.

**Weights.**  The order and sizes of the tensors in the checkpoint and in the three
device buffers, every copy of `upload_weights`, and the addresses the kernels
read.

**Reference.**  `generate` and `chat`, and `forward` with one thread per attention
head over the one score buffer: `ScoreHead`, `SinkHead`, `SoftmaxHead`, `SumHead`, in
any order between the heads.  Keys and values are records of what they were
computed from.  `generate` is shown to decode like `Decode`, the specification the
batched loop implements as well.

**Sampler, Tokenizer.**  Pure operators.  A probability is a weight out of `One`, and
`qsort` may leave equals in any order.  Texts are sequences of bytes.

**MCAlgorithms.**  The pure modules together: a state is an input of one of
them, and the invariants compare the results with reference definitions.

**NumberLemmas and the modules named *Proofs.**  See [Proofs](#proofs).

## Runs

Each "pass" is an exhaustive search of the instance.  State counts are of
distinct states.

| Run | Configuration | Instance | States | Checks | Shows |
|---|---|---|---|---|---|
| barrier | `Barrier`, `MCBarrier.cfg` | 4 threads, 4 waits, 2 phase values | 889 | `TypeOK`, `SpinnerNotOvertaken`, `ImplementsRendezvous`, `EveryoneReturns` | reuse is safe although the load is relaxed and `phase` has only two values |
| generate_loop | `MCGenerateLoop`, `MCGenerateLoop.cfg` | 2 threads; 2 chunks of 1 row each with prompts of 0, 1, 2, 4 tokens and budgets 1 and 3; 1 chunk of 2 rows each with budget 4 | 328,447 | `TypeOK`, `LeaveTogether`, `OutputsWellFormed`, `CountMatchesOutput`, `FrozenWhileRead`, `ImplementsDecode`, `Terminates` | no thread is left behind in a barrier; arena and counts are right; the unlocked array is never written while it is read; every request decodes as if it were alone |
| xpull | `MCXPull`, `MCXPull.cfg` | 3 GPUs; 2 steps of 3 layers; 2 layers in a row with one event per direction and one `e_agg` buffer; a layer of the copying build and the next up to its partial sums | 359,527 | `Ordered`, `WaitsMatch`, deadlock | the default exchange over steps, with every event recorded a second time; layers stay ordered even without the 128 event slots and the second buffer; copies on two streams per GPU are ordered by a drain, events and barriers |
| pair | `MCPair`, `MCPair.cfg` | 2 GPUs, 3 layers, 2 steps, both builds | 406,314 | `Ordered`, `Completes` | both exchanges of a pair; the copies are ordered through the partner only; no cycle of barriers, drains and waits stops them |
| eplb | `Eplb`, `MCEplb.cfg` | 2 ranks of 2 slots, 2 layers, moves at steps 40 and 140, window 32 | 1,270,736 | `RightExperts`, `NoExpertLost`, `MovesPrepared` | two moves in a row, the second from permuted labels, with and without room |
| moe_routing | `MCMoeRouting`, `MCMoeRouting.cfg` | 3 ranks, 2 rows and 2 experts each, up to 3 live rows, 4 top-k choices, 1 lane, blocks of 2 | 380,550 | `ListsAgree`, `PairsPlacedOnce`, `SumsReproducible` | packed rows are found on the other side; sums do not depend on atomics |
| tiles | `Workgroup`, `MCTiles.cfg` | 3 waves, up to 5 tiles, k up to 360, up to 8 splits | 24,909 | `SumsEachTileOnce`, `SplitsCoverK` | no store overtakes a slow wave, in any of the kernels |
| argmax | `MCLogitsArgmax`, `MCLogitsArgmax.cfg` | up to 3 rows and 2 column blocks of 2 waves | 664,673 | `ArgmaxReproducible` | the token does not depend on timing, and is the one the docs describe |
| kv_cache | `MCKvCache`, `MCKvCache.cfg` | 2 rows, 2 heads, 1-3 layers, windows 0, 2, 3, `seq_len` 1, 4, 6, 5 positions, 2 chunks | 78,893 | `ReadsOwnWindow`, `InsideAllocation` | rings are read right after wrapping around and after a chunk |
| driver | `MCDriver`, `MCDriver.cfg` | 640 workloads: 1, 2, 4, 6, 8 devices, both checkpoints, 8 or 9 experts, `GETP_BATCH` set or not, 0 to 24 requests, a missing prompt, a missing file, budgets 0 and 1, staging of a move on one device or none | 66,619 | `ServedOnce`, `ExpertsCovered`, `MemoryHeld`, `WorkloadsThatFitFinish` | what the asserts let through is answered once each; no rank goes by a pointer of the chunk before; what a run never frees is known and grows with the chunks only; the documented workloads are answered |
| reference | `MCReference`, `MCReference.cfg` | 2 layers; 2 heads of 1 group over 4 positions and 4 heads of 2 groups over 3; prompts of 0 to 3 tokens; `generate` and `chat` | 145,557 | `HeadsAttendOwnWindow`, `PromptsFedWhole`, `ImplementsDecode` | the parallel heads do not disturb one another before the last position; both loops feed what they should |
| algorithms | `MCAlgorithms`, `MCAlgorithms.cfg` | every load of 9 labels; every vocabulary of 3 bytes and 3 merges with every text of up to 4 bytes; every distribution of 6 over up to 4 tokens; every row of up to 5 scores; models of up to 2 layers and 4 experts | 26,912 | `PlanSound`, `EncodingFaithful`, `EncodesByRank`, `NucleusIsSmallest`, `MixtureIsTopK`, `RouterPicksTop`, `UploadFaithful` | the pure algorithms agree with their definitions |

### Bounds, and why they are enough

- *Barrier.*  Threads differ only in whether they are last, a spinner of this
  phase or a spinner of the one before; four threads have all of these at once,
  two in one role.  A `phase` of two values is the narrowest that can work, and
  any wider one is easier.  The theorems below are for all sizes.
- *Sizes that are proved.*  For the default exchanges, EPLB, routing, the tiled kernels,
  argmax, the KV cache, the reference and the driver, too, the bounds
  only say on which instance TLC looked before the proof; the invariants named
  under [Proofs](#proofs) hold for all.
- *Decoding.*  Two threads with a difference in progress are all that early exit
  needs; a prompt longer than the budget (4 tokens against 3) reaches the
  neighbour's slot, and a prompt of 0 the `exit`.  A second chunk starts with the
  arena, counts and barrier as the first leaves them.  `ForwardWaits` is 1: the
  waits of a forward pass are alike to the loop, and the exchange models have
  all of them.
- *Exchange.*  Three GPUs is the smallest replica in which a peer can be waited
  for by one and not yet by another.  Two steps record each event again; two
  layers in a row put the next layer's writes against this layer's reads; three
  layers use an alternating buffer again.  Run xpull checks `HostFirstSpec`, in which
  streams wait until the host threads can get no further.  That loses nothing: a
  host step only appends to a queue and looks at no stream, a drain excepted, so
  it can be taken before the stream steps in front of it.  Run pair checks the
  full interleaving, and the theorems about the default programs are about it as well.
- *EPLB.*  The schedule is the build's (40, 100, 32), not a scaled one.  Two
  slots and two layers are enough to swap and to have a layer that is moved
  while another is not.  `TileChoices = {0, 1}` gives both "swap" and "leave
  alone"; the plan itself is checked on three ranks in algorithms.
- *Routing.*  One lane makes the list builder take two passes for two rows, the
  case in which the running base matters.  The top-k choices give a rank with
  both experts of a row, with one and with none, and an expert with three pairs,
  whose second block is not full.
- *Pipelines.*  Five tiles pass every branch of the unrolled loops (prologue,
  odd and even ends); three waves have one ahead, one behind and one between
  two barriers.  2880 elements in 7 splits, the case in the code's comment, has
  the same shape as the small ranges checked.
- *Argmax.*  The values contain a chain in which neighbours are near and the ends
  are not (4, 5, 6), the case in which comparing with a tolerance is not
  transitive.  Grids with several rows *and* several column blocks are only
  checked in these small shapes.
- *KV cache.*  Rings of one to three slots, shorter than a tile and than a chunk;
  odd numbers of layers, for which the halves of the allocation differ.
- *Driver.*  The device counts are one for each case of the group size: no group
  (1), a pair, a 120B group that is not 8 (2, 4, 6), pairs that do not share the
  rows evenly, and 8, the count the documents are about.  Nine experts leave a
  remainder (with `GETP_BATCH` set).  Counts reach past the caps, which are 2 and 3 here, and with one
  row per GPU 24 requests make three chunks on eight devices, so that per-thread blocks pile up and
  published pointers change twice.
- *Reference.*  Two layers are an even (windowed) and an odd (full) one.  Three
  tokens stand for the vocabulary: an ordinary one, token 2, which ends a turn of
  `chat`, and a stop token.  `-n 0` runs to the last position, `-n 2` stops early.
- *Algorithms.*  Texts of four bytes hold two merges side by side, a merge of a
  merge, and a run of digits longer than three.  The scores 10, 11 and 12, with
  a tolerance of a tenth, are a chain whose ends are not near; five of them
  make a tree of three stages with idle threads.

Deadlock is checked in every run but `pair`: a state without a successor is an error unless
it is the end of the program (`Terminated`, `Finished`, `Done`, `Retired`), which
stutters.  In `pair` the check is off because `Completes` says more: under
`FairSpec` a cycle of waits violates `Completes`, such as the one of a rank that skips the barriers
of a layer and a partner that waits in them.

## Fairness

Fairness is used for four properties only: `EveryoneReturns`, `Terminates`,
`Completes` and `WorkloadsThatFitFinish`.

- *Host threads* (`WF` of each thread's actions).  They are pinned to cores of
  their own and yield while they spin (`run.cpp:196-199`, `barrier.hpp`), so a thread that can
  take a step does.  Strong fairness is not needed: a spinner whose phase has moved
  stays enabled.
- *The exchange* (`WF` of `Next` as a whole, in `Streams`).  As long as a host thread or a
  stream can go on, one of them does: the hardware queues run what is at their head, and the threads
  are those above.  No fairness among them is assumed, and none is needed, since their programs have
  no loops.
- *The main thread* (`WF` of `Join`, in `Driver` of `Main`) and, in `Driver`, the thread
  of each device: they block only in `join`, and the operating system runs what
  can run.

`Reference` needs none: its properties are about safety.  Neither a fair choice
of tokens nor of prompts is assumed: `Terminates` holds for
rows that never see a stop token, because of the budget.

## Proofs

The first part of `HostProofs.tla` proves five theorems for any finite non-empty set of
threads, any number of waits and any width of `phase` of at least two values
(`BarrierAssumption`; the build has 2^32, and two GPUs or more):

| Theorem | Says |
|---|---|
| `TypeCorrect` | `BarrierSpec => []TypeOK` |
| `LastIsAlone` | the thread that finds itself last is the only one that does, and all others are held in the spin loop |
| `SpinnersKeepUp` | `BarrierSpec => []SpinnerNotOvertaken`: `phase` is never two ahead of a waiter, so it cannot wrap around onto the waiter's value |
| `NobodyLeavesEarly` | nobody returns from its k-th wait before all have entered their k-th |
| `Refinement` | `BarrierSpec => ImplementsRendezvous`: every step of `wait()` is a step of the abstract rendezvous or a stutter |

None of the invariants is inductive, for none says what `count` is.  `BarrierInv` adds
that (`CountInv`): `count` is the number of threads held in the spin loop of the
current phase, except between the last arrival and the increment of `phase`,
where it is `NThreads` and then 0.  For this it needs to know which spinners belong to
the current phase (`PhaseInv`): a thread outside the spin loop has seen the
current phase, although its load was relaxed, since the value its last wait
returned with is a lower bound for the next load; and a spinner is at most one
behind.  The step that matters is `FetchAddCount` at `count = NThreads - 1`: the held
threads are then all but one (lemma `AllButOne`), so everybody is in, and no one
else can be last.  The refinement follows from `BarrierInv` step by step: only
`FetchAddCount` can be `Arrive`, only `AdvancePhase` and `SpinExit` are `Leave`.

`BarrierInv` itself is built from `TypeOK`, `OneLast` and the two parts above, and was
checked on small instances before it was proved.

`GenerateLoopProofs.tla` first proves three theorems about the control of the decoding loop, for any
number of GPUs, rows, chunks and waits inside a forward pass, any prompts, any
budget and any tokens that come back (`LoopAssumption`: at least one thread and
one wait per pass, and requests that fill whole chunks):

| Theorem | Says |
|---|---|
| `ThreadsInStep` | `Spec => []IInv`, the invariant below |
| `ThreadsLeaveTogether` | `Spec => []LeaveTogether`: once a thread is out of the loop, no other is in a forward pass or short of the last wait |
| `ReadersSeeNoWrite` | `Spec => FrozenWhileRead`: no entry of `thread_states` is written while any thread reads the array, which takes no lock |

Neither property is inductive: both depend on how far apart the threads can be,
which nothing in them bounds.  `IInv` counts waits.  A step of the loop is
`Cycle = ForwardWaits + 1` of them, and where a thread stands settles how many
it has passed (`Place`: `pos * Cycle` between two steps, one less before the last
wait of a step, and so on).  The barrier says that nobody has passed a wait that
another has not entered (`Together`, in the terms of `Rendezvous` alone).  From
these two follow the lemmas the rest stands on:

- `Neighbours`: whoever is between two steps holds all others at the same
  position, at worst before the first wait of the next forward pass or still
  inside the last wait of this one;
- `StepDecided`: when a forward pass is over, nobody is scanning any more, and nobody
  is between two steps except at position 0.  As only the end of a forward
  pass and a join write `thread_states`, `ReadersSeeNoWrite` follows.

That the threads agree to leave (`LeaveTogether` is a part of `IInv`) needs three facts about `thread_states` besides:
what a thread has read as zero is still zero (`ScannedZero`); if one thread goes on
while another has yet to scan, an entry is set (`GoesOn`); if one has stopped before
the budget, none is (`Stopped`).  With them a thread that finishes its scan knows that
no other has gone on, and one that sees a set entry that no other has stopped; the
lemma `MoveBetween` shows that this is all a move between two steps has to
establish.  There is one lemma per action, and `NextIInv` puts them together.

All invariants used were checked on small instances, for two and three threads,
before they were proved.

### What the loop writes

The second part of `GenerateLoopProofs.tla`, for the same range of sizes and any prompts, among
them ones longer than the budget:

| Theorem | Says |
|---|---|
| `Slots` | `Spec => []DataInv`, the invariant below |
| `TypeCorrect` | `Spec => []TypeOK` |
| `OutputsTheorem` | `Spec => []OutputsWellFormed`: a completed slot is tokens up to the first stop token or the budget, the sentinel, and zeros |
| `CountTheorem` | `Spec => []CountMatchesOutput`: the throughput figure counts the tokens in the slots |
| `DecodesAlone` | `Spec => ImplementsDecode`: every request decodes as if it were alone |

`OutputsWellFormed` and `CountMatchesOutput` are about completed requests and say
nothing of those on the way there.  `DataInv` does, for three kinds of requests:
completed ones are well formed, waiting ones have an empty slot, and a row of the
current chunk has as many tokens in its slot as its `epos` says, the last of them a
stop token exactly if the row is masked (`SlotInv`).  `RowInv` ties `epos` and `mask`
to the position of the thread, and `ThreadInv` has a thread stop only at the budget or
with no row live, which is where the first part is needed.

That a write changes the slot it should and no other is arithmetic:

- `RowsDealt`, `RequestsDealt`: the threads share out the rows, and the chunks share out
  the requests, each to one; `SlotsApart`: the slots of the arena do not overlap.  Two
  numberings with one radix agree only on the same pair (`SamePair` of `NumberLemmas`).
- `AdvanceSlots`: a forward step writes one cell for each generating row, the one
  behind its last token.
- `RowEnds`, `FinishSlots`: at the end a row's sentinel lands behind its last token.  A
  prompt longer than the budget has it land in front of the slot, `steps - nPrompt`
  cells from its start, which may be another request's slot.  All
  theorems here are about the slots that this does not happen to (`Alone`), and not
  only about runs without such prompts; `CountMatchesOutput` is about those
  runs.

For the count, a thread's sum over its rows and the main thread's sum over the
threads are taken over to sums over requests (`ChunkTotal`, by `SumOfParts` and
`SumRenamed`), and a join adds the chunk's to the rest (`SumUnion`).

The refinement follows from `DataInv` before and after a step.  A forward step is
`Extend` for the requests of the generating rows (`AdvanceExtends`): their slots held `n`
tokens, none a stop token, and hold `n + 1`.  The end of a thread is `Close`
for those of its rows (`FinishCloses`): the budget is used up or the last token is
a stop token.  All else is `Keep` (`StepKeeps`), `exit` in the middle of a
step included.  Requests are independent in `Decode`, so one step of the loop may
extend any number of them.

`DataInv` was checked on the 328,447 states of the run before it was proved.

### A whole run

The second part of `HostProofs.tla`, for any workloads: any number of devices from one on, any number of requests,
prompts, experts and steps, any defaults and caps of the batch (`DriverAssumption`: they are
positive, and `getp` cannot run without a device):

| Theorem | Says |
|---|---|
| `Invariant` | `Spec => []IInv`, below |
| `Served` | `Spec => []ServedOnce`: each request is answered by one row, and its tokens are counted once |
| `Experts` | `Spec => []ExpertsCovered`: each expert has one owner in a replica, but for the last `n_experts % EXPERT_PARALLELISM` |
| `Memory` | `Spec => []MemoryHeld`: all blocks are there while a rank decodes, its peers' pointers are those of their current threads, only what is allocated is freed, and a finished run leaves exactly `Left` and the staging of moves |

`Layout` draws the conclusions from the refusals and asserts, and these are all that is known of a
workload that reaches the threads: on the 120B path there is one replica, whose requests are a
multiple of what its eight devices take at a time; otherwise each replica has just one
batch.  The comparison of a device number with a number of replicas (`run.cpp:568`) does
no harm on either path, since only device 0's end of the range is used once the asserts have held.
It follows that the rows of device `d` begin at `idx + d * BATCH_SIZE`, whatever its replica
and rank (`RowsAre`), that the devices share a round out without gap or overlap (`RowsDealt`),
and that their counts add up to its tokens (`RoundSum`).  `ServeInv` says which requests are
answered: those before `idx`, and those of the devices that are done.  `ChunkInv` adds that the
round fits in what is left, for which `idx` has to be a multiple of `Chunk` where the 120B
path loops.  `PublishInv` says that a rank that is done has met its whole group, all of which had
published by then.  `HeapInv` lists the blocks at each point but for the staging, which comes and goes:
the fixed ones (`Base`), those of the chunks before (`Earlier`), those the current
threads will leave (`Current`) and those they will give back (`InUse`).  A join turns `Current` into a
part of `Earlier`, since by then every device has begun, by `PublishInv`, and the start of the chunk has been
added to `Decoded` (`DecodedNext`).  `BlockNames` compares what `ext_alloc_device` makes with
the pointers `ext_free_all` tests, and `FinishFrees` draws `Left` from it.

`IInv` was checked on the 66,619 states of the run before it was proved.

### The exchange between GPUs

`ExchangeProofs.tla`, about the full interleaving of host threads and streams (`Spec` of
module `Streams`):

| Theorem | Says |
|---|---|
| `LockstepOrdered` | any program that has a plan in `Lockstep` is `Ordered` and has `WaitsMatch`, in every behaviour |
| `XPullOrdered` | the default exchange of more than two GPUs is, for any number of ranks, layers, steps, event slots and `e_agg` buffers |
| `K2PullOrdered` | the default exchange of a pair is, for any number of layers and steps and any even number of event slots |

The assumptions are those of the instances: the devices are the ranks, and the
program's events and places are among the model's (`XPullSetting`, `K2PullSetting`).  An even
`GETP_SYNC_SLOTS` is what the code has (128, `forward.hip:7131`, of which a layer takes
the slots 2l and 2l + 1, modulo that number); with an odd one, an event could serve two
sync points in a row.

The proof separates what makes an order from what the programs are.  A *plan* is a
program in which each instruction has a segment and a number of barriers before it; a
record begins a segment.  `Lockstep` says that

- a wait of a segment is for the records that begin the same segment on the other ranks,
  with a barrier between the record and the wait, and another one before the
  record after the next (`Meets`); an event is not recorded again before that one
  (`EventsDiffer`);
- a kernel comes after waits for all other ranks (`KernelsWait`), and kernels of the same
  segment have no place in common that one of them writes (`Disjoint`);
- what a kernel reads is written by its own layer, in an earlier segment or before it
  on its rank, and not by another layer until later (`Supplied`).

The invariant `Inv` puts these into the machine.  The host threads are at most one barrier
apart (`BarrierInv`), so when a wait is called the newest record of its event is the one it is
meant for: the record has been issued, and the one after the next has not (`WaitRefers`, whence
`WaitInv`).  The stream runs in program order (`QueueOrder`), events fire when
all in front of them is done (`FiredInv`), and so a kernel that runs has all
earlier segments of all ranks behind it (`MetInv`).  Two kernels that run at once are then in the same
segment, and do not touch the same places; and a place holds the layer of the last
of its writers that are done (`ContentInv`), which for what a kernel reads is its own.
`Ordered` itself knows nothing of segments or barriers, and is far from inductive.

The programs come second.  `Layered` is their common shape: layer after layer, each of
two halves with a record, a barrier, waits and kernels; the first layer of the run and
the last of a step have a drain and a barrier more.  Every such program is in lockstep
(`LayeredLockstep`), where the arithmetic is: place numbers and segments of a
layer, events that come round after `Slots` layers.  `XPullLayered` and
`K2PullLayered` then show the shape of the two programs, by taking `FlattenSeq` apart block by
block (`FlattenIs`, `BlocksLayered`).

### The key/value cache

The second part of `AttentionProofs.tla`, for any number of layers, rows, heads and chunks, any window,
`seq_len`, padding and tile (`CacheAssumption`: what is counted is at least one):

| Theorem | Says |
|---|---|
| `AllocationTheorem` | `Spec => []InsideAllocation`: all addresses written are in the allocation, in front of the scales |
| `WindowTheorem` | `Spec => []ReadsOwnWindow`: attention sums exactly the vectors of its window, of its own chunk, layer, row and head, each once and in order |

The first half is a map of the allocation.  `AddressUnique` shows that no two
(layer, slot, row, head) share an address: within a layer because rows and heads are
numbered without a gap and the padding keeps rings apart, between layers because
the base of a layer is what the even and odd layers before it take.
`AddressInside` has the last of them end at `Vectors`, which is computed elsewhere
in the code and by another formula.  The second half is `RingInv`: of the
positions of this chunk that a ring has been given, it holds the last `Cap` ones,
whatever else is in it; `Count` says how many these are at each point of a
step.  A window is never longer than the ring it is read from, so what it reads is
there, although nothing clears the cache between chunks.

### Expert placement

`AlgorithmProofs.tla`, for any number of ranks, slots, layers, moves and steps, any tile counts
and any failures of the staging buffer (`EplbAssumption`; `Window <= At`, the first
move is not before its window):

| Theorem | Says |
|---|---|
| `OwnersBalanced` | whatever the tiles cost, the greedy plan leaves each rank as many labels as it has slots |
| `NewLabelsPermute` | new labels are a permutation of the labels, each in a slot of its new owner |
| `PlansSound` | `AlgSpec => []PlanSound`: whatever the loads, no rank ends up with more than the heaviest had, at most `MaxMoves` labels move, at most half of them to one rank |
| `PlacementTheorem` | `Spec => []RightExperts`: a rank that computes finds each expert under its label |
| `ExpertsTheorem` | `Spec => []NoExpertLost`: at any moment of a move every expert is in a slot, or staged by a rank that moves that layer |
| `PreparationTheorem` | `Window <= Period` implies `Spec => []MovesPrepared`: all ranks plan alike, from `Window` counted steps, within the room voted for |

The plan comes first: a swap keeps the ranks balanced (`SwapBalanced`), and
balanced ranks receive as many labels as they give up, so the i-th incoming label
can take the i-th vacated slot (`Matching`), which makes a permutation.  A swap takes
load from the heaviest rank and gives it to the lightest, which it leaves below
that heaviest (`SwapChosen`, `SwapLoads`), so the peak never rises
(`StepImproved`); `OwnersReached` is the rule for what holds after all turns of the
greedy.  Then the barrier.  `SyncInv` numbers the stretches between two waits and says that a rank is
at most one wait ahead of another, which then is inside that wait.  Lemmas such
as `Publishing`, `Planning`, `Reading` and `Overwriting` read off what the others can
be doing while a rank reads tiles, reads a peer's slots, or overwrites its own.
With them the ranks plan alike (`PlanInv`) and decide alike (`AgreeInv`), and
`PlaceInv` follows the experts through a move.  It names the placement `was`
before the move and says of each slot, label and staged expert where it stands
between `was` and the new placement.

The hypothesis of `PreparationTheorem` is needed: where counting windows overlap
(`Window > Period`), a rank clears its counters while the next window has begun.  The
build has 40, 100 and 32 (`forward.hip:7173-7180`); the macros can be
overridden, and nothing in the code checks them.  The other theorems do without it.
(A period of 0, which moves once, is outside the model: `EplbAssumption`.)

### The weights on a device

`AlgorithmProofs.tla`, for a model of any sizes and a device with any range of experts
(`AlgorithmsAssumption`: sizes are natural numbers):

| Theorem | Says |
|---|---|
| `WeightsUploaded` | `AlgSpec => []UploadFaithful`: each weight a kernel reads is inside the buffer, was copied there once, and is that weight of the checkpoint |

Sums of sizes are kept opaque: of where a tensor starts only `Segments` is
used, that in a buffer no tensor reaches into the next.  Inside a tensor there are three
ways of copying, and for each a lemma that says what is where: row by row to the wider
pitch of `w_o` (`OutputCells`), a slice of the experts from every layer (`ExpertCells`),
and in one piece (`OtherCells`).  What is read at an address was
copied for the tensor that owns it, and within the tensor the row and the column,
or the layer and the place in the slice, can be told from the offset (`SamePair`).

### The choices of the CPU reference

`AlgorithmProofs.tla`, for any number of tokens and experts, any distribution and any
scores (`AlgorithmsAssumption`: these are numbers):

| Theorem | Says |
|---|---|
| `NucleusSmallest` | `AlgSpec => []NucleusIsSmallest`: from `topp = 1 / n` on, what `sample_topp` may return are the tokens of the smallest sets of the most likely ones that exceed `topp` |
| `ExpertsMixed` | `AlgSpec => []MixtureIsTopK`: a token's mixture has `k` different experts that no other outscores, each with its own score, in ascending order |

Top-p has two directions.  A token that is sampled was kept, and those before
it in the sorted list do not exceed `topp`; everything more likely than it is before it,
so it is in the nucleus (`SampleInNucleus`).  For the other direction the crop comes first
(`NucleusKept`).  The tokens no more likely than one of the nucleus make up `1 - topp` or
more.  If there is a more likely one, these are at most `n - 1`, so each of the nucleus
has `(1 - topp) / (n - 1)`; a most likely one has `1 / n` at least, and this is where
`topp >= 1 / n` is needed.
A token of the nucleus comes first among its equals in some sorted order
(`OrderFor`, which also shows that there is a sorted order at all), and the interval
of the running sum it then owns, scaled to what is kept, holds a coin (`CoinFor`).
The mixture is the sorted list read through `Ascending` (`Mixed`); that `k` different
places of the list are `k` different experts is what makes the weight found for an
expert its own.

### Routing

`MoeRoutingProofs.tla`, for any number of ranks above two, any rows, experts, lanes
and rows of a block, and any choices of the router (`RoutingAssumption`: some choice, all
of the same length):

| Theorem | Says |
|---|---|
| `ListsTheorem` | `Spec => []ListsAgree`: the list of rows that the receiver derives from the pulled top-k is the one of the sender |
| `PlacesTheorem` | `Spec => []PairsPlacedOnce`: the pairs of a rank fill their places without a gap, and one block of the grid multiplies each, with the weights of its expert |
| `SumsTheorem` | `Spec => []SumsReproducible`: the residual of a row gets the products of its experts, each once, of this layer, in an order its top-k and its owner fix |

The invariant `IInv` says that what a stage has written is, once it is over, a
function of the top-k alone.  The one exception are the places of the pairs, which
the atomics hand out in any order: of these it keeps that they are in the bucket
of the pair's expert and differ, which is all that the sums need, since a
sum looks a place up by its pair.  `WaitInv` says that
nobody has pulled before all have built their lists, so what is pulled is a peer's own
slice of this layer; the reduction waits for all to have gathered.  The lemmas are about the kernels: a list built in passes of `Lanes` rows
with a running base is the ascending list (`Compacted`); the scan over experts makes
buckets that do not meet (`ScanIs`, `OneBucket`); the blocks the host launches
from an upper bound are enough (`GridSuffices`), and a place is in exactly one of them,
whose expert is the one found by walking the block counts (`BlockOfPlace`).

### The token

`KernelProofs.tla`, for any number of rows, blocks and waves, any vocabulary that
fits the packed index, any logits and any tolerance (`ArgmaxAssumption`; the logits
have to be in the range of the packed value):

| Theorem | Says |
|---|---|
| `Invariant` | `Spec => []IInv`, below |
| `TokenTheorem` | `Spec => []ArgmaxReproducible`: the token of a row is the one its logits determine, in whatever order blocks, waves and swaps run |

`IInv` follows a block between its barriers.  Up to the first, `smax` is the best of
some wave, and no smaller than what any wave compares with or has already put
there; after it, it is the maximum of the block, and `sidx` the first near column of
those waves that have looked.  The pair of a row is the largest of the pairs of the
blocks that are done.  The rest is about values: packed pairs are ordered by logit
first and then by the smaller index (`Packing`), the blocks of the swizzled grid
meet every tile of every row once (`GridCovers`), waves cut a tile up without a gap
(`WavesCover`), and so the largest pair is that of the row (`TokenOfRow`).

### The tiled kernels

`KernelProofs.tla` too, for any number of waves, of tiles of the k range and of groups
of 8 in a split range (`TilesAssumption`):

| Theorem | Says |
|---|---|
| `EachTileOnce` | `BlockSpec => []SumsEachTileOnce`: in every kernel that a launcher starts, each wave multiplies every part of every tile once and in order, and loads nothing past the end of k |
| `SplitsShareK` | `BlockSpec => []SplitsCoverK`: each element of k belongs to one split |

The proof is in two parts.  The first is about the programs alone: `Pipeline` says that
a program's loads and stores are in range, and that the slot which step t + 1 multiplies
is stored in step t from a register set that holds tile t + 1 by then, loaded in the
same step or in the one before and not since.  Each of the four pipelines has it
(`OneTileAhead`, `TwoAheadPipeline`, `PrefetchPipeline`), the two-ahead one for an even
number of tiles, which is why the launchers refuse an odd one (`Pipelined`).  The second part is
about waves.  `Together` says that all of them are in one region, the stretch between two
barriers, and in the same step; `TileInv` adds what a wave has stored and loaded there: while
one wave reads, every wave's part of that slot is the tile of the step (`LdsInv`); the
set to be stored next holds the next tile, or is about to be loaded with it
(`RegInv`); the accumulator has the products of the steps so far (`AccInv`).  `SumsEachTileOnce`
alone says nothing of the LDS, so it is not inductive.  `SplitsShareK` needs a split to be a
whole number of groups (`SplitChunkGroups`) and is arithmetic from there
(`SplitReadsItsRange`, `OneSplit`).

### The CPU reference

The first part of `AttentionProofs.tla`, for any number of layers, heads, groups and positions, any window, any prompts
and vocabulary, any `-n` and any tokens sampled (`ReferenceAssumption`: sizes are at least one,
the heads divide evenly over the groups as `run.cpp:537` takes for granted, and prompts hold no
stop token, which the tokenizer does not return, `tokenizer.cpp:160`):

| Theorem | Says |
|---|---|
| `ReferenceInductive` | `Spec => []IInv`, below |
| `HeadsAttend` | `Spec => []HeadsAttendOwnWindow`: at every position but the last, each head weighs its own window of its own group, with its own sink, in whatever order the heads run |
| `PromptsFed` | `Spec => []PromptsFedWhole`: prompts are fed whole, in order, before what is sampled; a turn of `chat` begins behind a token 2 |
| `ReferenceRefinesDecode` | `Spec => ImplementsDecode`: `generate` decodes as module `Decode` promises, like each request of the batched loop |

The attention is about two arrays without walls.  `Addresses` shows that the layers, positions and
groups have addresses of their own in the flat cache, so `CacheInv` can say what each place holds
once it is written.  `AttRows` does the same for the rows of `att`: a head uses the `pos + 1` cells of
its scores and one more for the sink, which is inside its row of `SeqLen` cells as long as
`pos < SeqLen - 1`.  `HeadInv` follows each head through its four steps under that
condition: whatever another head writes meanwhile is outside the row (`HeadFrame`).  At the last
position the sink of a head is the first score of the next one; there the property, and
`HeadInv`, claim nothing (see [Observations](#observations)).

`PromptsFedWhole` speaks of all tokens fed so far, and is not inductive: that the next
one will be right depends on indices the loops keep.  `Due(p, k)` is the token due at position `p` of
turn `k`, `FedInv` says that each token fed was the one due, and `GenerateInv` and `ChatInv` say
how the loop's `token`, `next`, `user_idx` and `user_turn` relate to the history, so that the
token fed next is the one due there.  In `generate` the prompt is fed by forcing what
would have been sampled, and a stop token among what is drawn leaves the loop
(`GenerateInvNext`).  In `chat` a turn may end while its prompt is still being fed, which is
why `PromptsFedWhole` allows a prompt that holds a token 2 to be cut short (`ChatInvNext`).

The refinement maps `generate` to one request of `Decode`: a sample at the end of the prompt or
behind it is `Extend`, leaving the loop is `Close`, and forcing, the forward pass and all of `chat`
leave the request alone (`ReferenceSimulation`).

The parts of `IInv` were checked on the 145,557 states of the run before they were proved.

### Numbers

`NumberLemmas.tla` has what these share.  The prover cannot instantiate an induction rule whose
hypothesis is a formula (`NEW P(_)`), so induction is stated over a *set* of
numbers, the ones a formula holds of (`Induction`, from `<` being well founded;
`SizeInduction` for finite sets).  From it come products and remainders, largest
and smallest elements, functions defined by recursion (`Recursion`) and sums over
finite sets: one element at a time (`SumStep`), of two disjoint sets (`SumUnion`), of a set cut into
parts (`SumOfParts`), and under another numbering (`SumRenamed`).  `MoeRouting` takes its sums in order by such
a function (`InOrder`) rather than by an operator of the community modules, to be
within its reach.

The inductive invariants were checked on small instances before they were
proved: that of `MoeRouting` on 380,550 states, that of `LogitsArgmax` on 192,981,
that of `Workgroup` on 24,909.

### Only model-checked

- *Liveness*: `EveryoneReturns`, `Terminates`, `Completes` and `WorkloadsThatFitFinish`.
  The prover handles neither fairness nor `ENABLED`.
- *The copying exchanges* (`CopyExchange`, `CopyPull`): `Ordered` and `WaitsMatch` are proved for
  the default programs only.  The copies go through streams of their own and are
  ordered by drains in between, so they are not in the lockstep that the proof
  is about.
- *The other algorithms of `MCAlgorithms`*: `EncodingFaithful`, `EncodesByRank`
  and `RouterPicksTop`.  The encoder and the
  router's tree fold operators over sequences, and what a fold computes for any
  input takes an induction over data.

## What the models leave out

- *Memory below the coherent view.*  A read sees the last write that events,
  barriers and stream order put before it.  That the copy engine writes behind a
  GPU's L2, so that a kernel may find older lines although the order was right
  (`forward.hip:7276-7284`), is outside: in the model both builds of a pair
  are correct, in hardware only the kernel reads are.
- *Failing HIP calls*, other than the allocation of the EPLB staging buffer: the
  models take them to succeed.
- *Older switches of the exchange* (`GETP_EVAGG=0`, `GETP_AGSKIP=0`,
  `GETP_DEVSYNC=0`), which add drains to what is modelled, and the unpacked
  routing of a pair, of which only the exchange is modelled.
- *Host arrays of the exchange.*  The row counts `g_ag_cnt` are written between a
  drain and a barrier and are taken to be there.
- *Arithmetic.*  Sums are sequences of addends; rounding, quantisation, softmax,
  norms, RoPE and SwiGLU are left out, NaN and -0 do not occur.
- *Sizes in bytes.*  Requests and blocks are numbered or named, so an `int` product
  such as `num_reqs * max_token_len * (max_seq_len + 1)` (`eval.cpp:22`) is not
  computed, and lines are taken to fit the buffer of a request.  A first line of 0
  comes with no prompts.
- *Paths, formats and timing* of the driver, and the exporters in Python.
- *The collectives themselves*: nothing calls them
  (docs/PARALLELISM.md:165-183).
- *The layers of a step in `Eplb`* are one action between two barriers, which is
  what `RightExperts` needs; how they use the barrier is `Exchange`'s matter.
- *Replicas side by side.*  They share only the arena, in disjoint slots:
  `Driver` deals the slots out, `GenerateLoop` decodes those of one replica.
- *The top-k in `MoeRouting`* is an input.  `RouterTopK` says which it can be.

## Observations

Points met while modelling that a maintainer may want to know.  None is a
failed check.

- In the model of the default exchange a single event per direction and a
  single `e_agg` buffer are enough (the build "margins" of run xpull): a rank's
  next gather comes after the barrier and the "ag" events of the next layer, which
  its peers record after their `xpull_rs_kernel`.  The same holds for the copying
  exchange: the gather of layer L+1 comes after sync point 1 of that layer, where
  all compute streams, with the adds of layer L in them, have been drained
  (`CopyExchange` with `AggBuffers = 1` and `Slots = 1` passes as well; it is not one of the
  runs).  docs/SERVING.md:606-611 says that nothing forbids the overlap, and
  docs/PARALLELISM.md:700-725 that the second buffer is what orders it.  By the
  order of the code it is margin (`XPullOrdered` holds with one slot and one buffer
  for any number of ranks and layers), and worth its memory given the caches the models
  leave out, where the measured difference may come from.
- A prompt longer than the budget puts its sentinel in front of its own slot,
  in the slot of the request before (docs/SERVING.md:782-785 says so).
  `OutputsWellFormed` excludes just the slots hit by one, `CountMatchesOutput` and
  `ImplementsDecode` the budgets it can happen with.
- On odd layers "full" attention is a window of `seq_len / 2`
  (docs/SERVING.md:340-355); `ReadsOwnWindow` states that window.
- The tolerance of the router's top-k (`forward.hip:4063-4147`) is not
  transitive.  The tree is fixed, so the choice is reproducible, but an expert
  kept may be one tolerance per stage below the best one; `RouterPicksTop` bounds
  it by that, and has the exact top-k where no two different scores are near.
  The argmax avoids this: nearness is used once, against the maximum.
- The CPU reference stores the attention sink at `att[pos + 1]`
  (`src/src/run.cpp:624`) in a buffer of `n_attn_heads * seq_len` scores.  At
  `pos = seq_len - 1`, reached with `-n 0` or `-n` of the sequence length, that is
  the first score of the next head, whose thread may be running, and for the
  last head the cell after the buffer.  `HeadsAttendOwnWindow` leaves this one
  position out; with it, the run finds the violation in a few steps.
  docs/MODEL.md:41 describes the sink without this limit.
- `chat` ends a turn when it feeds token 2 (`src/src/run.cpp:1094`), an ordinary
  token: a prompt that holds one is cut there, which `PromptsFedWhole` allows for.
  docs/MODEL.md:278 calls `chat` unmaintained.
- `generate` tests `pos < steps` where the batched loops test `pos + 1 < steps`
  (`src/src/run.cpp:962`, `run.cpp:431`): for the same `-n` it forwards one token
  more.  The refinement of `Decode` by `Reference` has the budget `steps + 1`.
- Top-p crops values below `(1 - topp) / (n - 1)` first.  With `topp` below `1 / n`
  that can be all of them, and `sample_topp` then indexes an empty list;
  `NucleusIsSmallest` is stated from `1 / n` on.
- Two strings of the vocabulary with the form `<0xHH>` are decoded as a byte.  A text
  never encodes to one, since its pieces do not mix digits with other characters
  (`EncodingFaithful`).
- `if (EXPERT_PARALLELISM == 8)` chooses the path of the decoding, not the
  checkpoint (docs/PARALLELISM.md:117-137), and the leader that gets the remainder
  of the requests is found by comparing a device number with the number of
  replicas (`run.cpp:568`).  The asserts after it stop every run in which this
  would lose requests (`ServedOnce`).
- With a group size that does not divide `n_experts` the last ones have no owner
  (`run.cpp:115`), and no check refuses it; `ExpertsCovered` states just that.
- `finish` frees the device objects without running their destructors: the weights,
  run state and streams of each device, the workers and the request buffers are
  left to the operating system (`run.cpp:152-168`).  So are the barriers of the 20B
  path, made with `new` and never deleted (`run.cpp:324-328`), and all that
  `getp_forward_120b` allocates on its first call: events (`forward.hip:7143`, `7365-7372`,
  `7420-7438`), row lists and send and receive buffers (`7388-7413`), pinned counts (`7407`),
  copy streams (`7473-7478`), the tables of EPLB (`7498-7511`) and its staging (`7558-7566`),
  the buffers of the logits (`6946-6966`) and the peer order (`8200`).  Those in
  `static thread_local` pointers are allocated anew by the threads of every chunk of the
  120B path (`run.cpp:516-530`), so that what is left grows with the chunks.  `Left` in
  `MemoryHeld` lists them.

## Plan

Done: all of the above.  Left to model: the unpacked routing of a pair, as a
variant of `MoeRouting`.  Left to prove: the order of the copying exchanges, for which a plan would
need segments per stream.
