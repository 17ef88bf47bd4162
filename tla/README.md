# Verification of infer_train

This directory is a TLA+ development of *infer_train*, an LLM inference library
written in Rust: models of the parts whose correctness depends on order,
sharing and bookkeeping, TLC configurations that check them on small
instances, and proofs, checked by TLAPS, that hold for every instance.
`PROJECT.json` maps each definition to the lines it was translated from.

Contents: [1 the system](#1-the-system), [2 the modules](#2-the-modules),
[3 the runs](#3-the-runs), [4 bounds](#4-bounds-and-why-they-are-enough),
[5 fairness](#5-fairness), [6 proofs](#6-proofs),
[7 disagreements found](#7-disagreements-between-the-code-and-what-it-says),
[8 what the models leave out](#8-what-the-models-leave-out),
[9 plan](#9-plan).

## 1 The system

A request travels through the system like this:

    client / server.rs / generate()
        |  text -> BpeTokenizer -> tokens, max_tokens
        v
    ContinuousBatcher or RequestExecutor        who runs next, with which KV cache
        |  one token at a time
        v
    forward, forward_pooled (llama.rs)          all layers; K and V cells written
        |            \                          at seq_len, then advance()
        |             \--- gemv_batch_with_barrier --- SpinBarrier   (threads)
        |             |--- claimed and chunked loops                 (threads)
        |              \-- tiled products (prompts)                  (threads)
        v
    InferenceContext: pipeline of GPU passes over KVCacheGPU
        |
    DAG builder -> execution_order -> DAG executor -> Metal GPU
                                     (barriers, memory ranges, registry)

Each component, its state, its operations, how it meets the others, and what
makes it correct:

| component | state | operations | meets | correct when |
|---|---|---|---|---|
| **SpinBarrier** (`cpu/thread_pool.rs`) | atomics `counter`, `passed`; `n_threads` | `wait`, `reset` | called by the pool's threads and by scoped threads of `llama.rs` | nobody leaves the k-th wait before everybody has entered it; everybody leaves; reusable at once, although `passed` wraps |
| **ThreadPool** (`cpu/thread_pool.rs`) | slot `Mutex<Option<WorkItem>>`, `Condvar`, atomics `work_ready`, `stop`, a SpinBarrier | `parallel`, the worker loop, `drop` | closures of the caller | the call returns, after the closure has been run; drop joins the workers |
| **Row-parallel loops** (`model/llama.rs`, `dag/cpu_executor.rs`, `cpu/thread_pool.rs`) | outputs written through raw pointers; an atomic counter or a SpinBarrier | one loop per scoped thread, divided by stride, by claims or in chunks | SpinBarrier | each row has one writer, an output is complete before the next is begun, all rows are written |
| **RequestContext** (`inference/request.rs`) | state, prompt index, generated tokens | `new`, `advance_prompt`, `add_generated_token`, questions | owned by the batcher or by the executor's caller | prefill, then decode, then complete, within `max_tokens` |
| **ContinuousBatcher** (`inference/batcher.rs`) | maps `requests`, `kv_caches`; lists `running`, `waiting`, `completed` | `add_request`, `remove_request`, `step`, `run_all`, `clear_completed` | RequestContext, the KV cache, the forward pass | no request lost, duplicated or rerun; each cache holds its own request's tokens; capacity respected; the more urgent first; serviceable requests complete |
| **RequestExecutor** (`inference/request_executor.rs`) | a pool of work buffers | `step`, `run` | RequestContext, forward pass | `run` returns with `max_tokens` tokens |
| **KV cache and CPU forward pass** (`inference/kv_cache.rs`, `forward`, `forward_pooled` of `model/llama.rs`) | cells per layer and position, `seq_len` | `set_k`/`set_v`, `advance`, `clear`; the layer loop and its early returns | read by attention | below `seq_len` every layer holds exactly the tokens processed, in order; only a full cache panics |
| **DAG graph and builder** (`dag/graph.rs`, `dag/builder.rs`, `dag/optimizer.rs`) | nodes, `in_degree`, `dependents`, `entry_points` | `add_node`, `execution_order`, `build_model_dag` | executor | the order is topological and complete; the edges cover the data flow |
| **DAG executor and memory ranges** (`dag/executor.rs`, `dag/memory_ranges.rs`) | tensor registry, ready batches, ranges read and written since the last barrier, one concurrent command encoder | `forward_dag_async`, `execute_node` | builder, Metal GPU | no kernel starts before its inputs are written; a pass that is committed is whole; every pass ends |
| **InferenceContext, GPU pipeline** (`inference.rs`) | passes in flight, logits held, the buffer of RoPE positions | `forward_gpu_batched`, `forward_gpu_native`, `forward_prefill_batch` | KVCacheGPU, DAG executor, Metal queue | answers come once and in order; a pass attends to its own conversation; its kernels wait for what they read; a call returns |
| **KVCacheGPU** (`inference/kv_cache_gpu.rs`) | cells per layer, head and position; `seq_len` | `set_k`, `set_v`, `advance`, `reset_seq_len`, `clear` | host and GPU write it at the same time | as the CPU cache, and for every pass in flight |
| **BufferManager and pools** (`buffer/`) | registry, device caches, free lists, pins | `get_or_load`, `register`, `pin`, `evict` | weights, work buffers; clients keep handles | a buffer has one owner and keeps its contents |
| **Tiled quantised products** (`quant/matmul/tiled.rs`) | a workspace for each thread: unpacked blocks, an accumulator | the loops over tiles, whole or divided among threads | tiled path of `forward_pooled` | each sum has each block's product once, made of that block and nothing left over; each cell is stored once |
| **Tokenizer** (`tokenize.rs`) | linked list of pieces, heap of pairs, some outdated | `bpe_encode_optimized` | the prompt | the result is that of the greedy merge |
| ForwardBufferPool (`inference/`) | buffers of one pass | – | GPU forward pass | nothing goes from one pass to another |
| GPU buffer caches, CPU pools (`inference/buffer_cache.rs`, `inference/cpu_memory_pool.rs`, `memory/scratch.rs`) | free lists by size | get, put | executors | what is taken is put back |
| HTTP server (`server.rs`) | the loaded model | chat and completion handlers | forward pass, its own KV cache | generation stops within the cache |
| Other executors (`cpu/graph_executor.rs`, `orchestrator/`, ...) | none between calls | fixed sequences of kernels | kernels | the order of the calls |
| Loading and scheduling (`model/gguf/`, ...) | none | parsing, pure functions | – | the values computed |
| Kernels and quantisation (`ops/`, `quant/`) | none | arithmetic | – | numerical accuracy |
| Platform, profiling, native, tools, benches | none | probes, experiments | – | – |

The rows in bold are modelled, six of them in part: the CPU forward pass, the
DAG graph and its executor, the GPU pipeline, the tiled products and the
tokenizer (section 8 says what is left out). The behaviour that is hard to get
right, and hard to test:

* **interleavings**: threads in the barrier, late workers of the pool, kernels
  the GPU runs in parallel inside one encoder, raw writes of scoped threads;
* **two sides of a queue**: passes in flight on the GPU while the host changes
  the cache, its length and the positions they use;
* **atomicity**: `work_ready` tested under a mutex and set outside it;
* **protocols of several calls**: a request removed while it waits, an id that
  is in three collections, a buffer evicted while a client holds it;
* **stale state**: heap entries for pairs that are gone, sums left in an
  accumulator, logits of a conversation that has ended;
* **partial failure**: a layer that returns `None` after earlier layers have
  written their cells; a node that fails while the dispatcher goes on;
* **boundaries**: `passed` wraps, the cache is full, `max_tokens` is zero, a
  prompt is empty or as long as the tiled threshold, a tile is not full;
* **termination**: `run_all`, `run`, the ready-batch loop, the spin loops, the
  wait for a command buffer.

`PROJECT.json` lists each hazard at its line with the properties aimed at it.

## 2 The modules

    SpinBarrier ------ SpinBarrierRounds ...refines... Rendezvous
        |                    |
        |                    \---- ScopedRows -- MCScopedRows, ScopedRows_proofs
        \---- ThreadPool -- ThreadPool_proofs
    Request ---------- ContinuousBatcher ...refines... RequestLifecycle
        |                    |     \---- ContinuousBatcher_proofs
        |                    \---- MCBatcher
        \------------- RequestExecutor -- MCRequestExecutor
    KvForward -------- MCKvForward --\
                                      \-- MCCpuForward;  CpuForward_proofs
    TiledMatmul ------ MCTiledMatmul /
    ComputeDag, ExecutionOrder --------- DagDispatch -- MCDagDispatch
                                             \---- DagDispatch_proofs
    GpuDecode -------- MCGpuDecode, GpuDecode_proofs
    BufferManager ---- MCBufferManager, BufferManager_proofs
    BpeTokenizer ...refines... GreedyMerge;  MCBpeTokenizer, BpeTokenizer_proofs

**SpinBarrier** has the fields of the struct and one action per atomic access
of `wait()`: the early return of a single thread (`WaitSolo`), the load of
`passed` into the local `n_passed` (`LoadPassed`, local `seen`), the
`fetch_add` that tells the last arriver from the others (`Arrive`), the store
of zero (`ZeroCounter`), the publication (`Publish`) and the exit of the spin
loop (`SpinExit`). `reset()` is its two stores. The field `n_threads` is
modelled as the set `team` of the threads that share the barrier. The module
has no Next of its own: its users compose its actions with theirs.

**SpinBarrierRounds** is a fixed team that does nothing but wait, with history
variables that count the waits `entered`, `left` and the episodes `released`.
**Rendezvous** is what a barrier promises: a thread leaves its k-th wait once
everybody has entered the k-th. `ImplementsRendezvous` is the refinement, with
liveness; the history variables are the refinement mapping.

**ThreadPool** composes the barrier with the slot, the mutex, the condition
variable (a set of sleepers, notifications that reach only those already
asleep, spurious wakeups) and the two flags. `pc` is where each thread is:
the worker loop (lock, test, sleep, take, run, barrier, again), `parallel()`
(reset, fill the slot, set, notify, run its part, barrier, clear) and `drop()`.
One thread calls the pool, a call at a time. `took`, `done`, `returned` and `clean`
are histories the properties read.

**ScopedRows** runs the loops of the threads of a scope, for each of the four
ways in which the code divides the rows of an output among them (`split`):
by stride, with the barrier except after the last product; by claims of
`chunk_size` rows from a shared counter; and in contiguous chunks, by
`parallel_chunks` and by `parallel_work_stealing`, which chunks too. The module
extends SpinBarrierRounds and takes its actions, so the steps in the barrier are
the real ones. Where the code opens a scope for each output, `NextScope` joins the threads and opens the
next. `written` records who wrote each row.

**Request** is the record of a request and the operators that are its methods;
it is the vocabulary of the next two modules.

**ContinuousBatcher**: one action for each public operation, and `step()` cut
where another decision is taken: schedule (`BeginStep`, `Admit`, `EndSchedule`),
one action for each running id (`Prefill`, `Decode`, `ForwardFails`,
`ForwardOverruns`), and the completion sweep (`EndStep`). The unwraps that can
fail (`AdmitUnknown`) and the write past the cache (`ForwardOverruns`) lead to
the state `panicked`. The sampled token is any token of the vocabulary. The
maps are functions from ids with a value `Absent`.

**RequestLifecycle** is what a client may rely on, without lists and caches:
requests are started, no more than a batch at a time and in no promised order,
given tokens up to their budget, and completed when they have them all.
The batcher implements it: `phase`, `budget` and `got` in ContinuousBatcher are
the mapping.

**RequestExecutor** follows `run()` on one request: the prefill loop that drops
the sampled token, the `?` of `step()` before the forward pass, the decode
loop, and the pool of work buffers a failed step shrinks.

**KvForward**: a call chooses the token-wise or the tiled path by the length of
the slice; each layer stores a cell, may fail, or overruns the cache; then the
cache advances. A cell of the model is the token whose K and V it holds.
`history`, `tiled` and `failed` are histories.

**ComputeDag** builds, as `build_model_dag` does, the DAG of a model from the
kind of attention of each layer: nodes with their dependencies and the kernels
they encode (inputs, weights, output). **ExecutionOrder** adds the nodes one by one
(`AddNode`) and runs the sort: a node popped from the stack (`PopNode`), then
one dependent at a time (`FreeDependent`). **DagDispatch** is
`forward_dag_async` on the result: in sequential mode it follows
`execution_order`, with dependency dispatch it computes batches of ready nodes
with its own copy of `in_degree`; each kernel is compared with the memory
ranges of the epoch, and a barrier begins a new epoch (`EncodeKernel`); a node
whose weight or input is missing fails and, with dependency dispatch, is
ignored (`NodeFails`, `IgnoreFailure`); the pass is committed if the output
tensor exists. The GPU (`Start`, `Finish`, modelled from how the code uses Metal) may start any
encoded kernel once all the kernels of earlier epochs have finished.
`BuilderAssumption` names what the executor takes for granted of a DAG
(`HasOneWriter`, `ReadsAreOrdered`, `NothingIsIdle`); section 6 says why.

**GpuDecode** has two actors. The host runs one call at a time: a decode call
that first takes the logits of the oldest pass of a full pipeline (`WaitOldest`;
`pending_cbs` holds the newest first), then encodes and commits a pass at
`seq_len` (`Submit`), or fails to (`SubmitFails`); a prompt that waits for its
pass (`CallPrompt`, `PromptDone`); `clear`; and `forward_prefill_batch`, layer by
layer on the host (`BatchWrite`, `BatchAttend`, `BatchFails`). The GPU
runs the committed passes one after the other, on the cache as it is then: for each
layer RoPE and the KV update (`Update`) and attention (`Attend`). Within a pass
they are `InOrder` if it is a prompt, which has a serial encoder, or with
dependency dispatch, whose barriers DagDispatch shows to be enough. In a token decoded
with sequential dispatch, the default, they run in any order, and the update may
write what is not yet `Computed`. A cell is `head * max_seq + position`, as in the kernels,
so a write past the end of a head lands in the next one. A pass records what it
found: the rows of K it attended to (`seen`) and the positions it rotated by
(`turned`), the latter read from the one buffer all passes share. `spoiled`,
`wiped` and `overtaken` name the conversations and passes for which the host
has changed what a pass in flight was about to use.

**BufferManager** is one action for each operation, as each runs under one
lock: the registry, a cache and a pool for each device, pins. What interleaves
is the clients, who keep handles (`refs`), write through them and drop them.
`data` is whose data a buffer holds; a write through a handle whose id has since
been evicted is `Outdated`.

**TiledMatmul** has one thread for a whole product, or one for each chunk of
rows, each with a workspace. `ClearAcc`, `Sum` (unpack a microtile's blocks,
multiply, add) and `StoreTile` are the bodies of the loops over tiles; `TileRows`,
`UnpackRows`, `AccStride` and `RowsOutside` are where the narrow and standard
paths of Q4_K, Q5_K and Q6_K differ. A slot of the workspace holds the call and the number
of the block it was filled from, or what it held if `BlockFor` has none for it; `rest` has
the blocks that left bits in the half of a slot that Q4_K and Q5_K do not write
(`UnpackedRest`). The table of block sums needs no variable: sum i of slot s is cell
`s * MICRO + i`, and `SumCell` is where the microkernel reads. A cell of the accumulator is
the sequence of the products added to it, each with the blocks it was computed from (`Blocks`).

**BpeTokenizer** is the loop of `bpe_encode_optimized`: pop the best entry, then
discard it, push it again with its present rank, or merge and push the pairs
that arise. **GreedyMerge** is the definition of byte-pair encoding: merge the
leftmost pair of least rank until there is none. `ImplementsGreedyMerge` is the
refinement, with the liveness of the loop; the list of living pieces is the mapping.

## 3 The runs

Runs that pass:

| run | what it shows |
|---|---|
| `thread_pool` | What the pool does guarantee: `CleanCallIsJoined`, a call begun while all workers are parked returns only after its closure was run; a closure never has two takers (in `PoolInv`, the invariant of the proof); `SleepingPoolAnswers`, when all the workers really sleep, a call or a drop gets an answer. |
| `scoped_rows` | For each of the four splits: `WrittenOnce`, `PhasesAreSeparate` (nobody writes a row of an output before the one before it is complete), `EveryRowIsComputed` (the function returns, with every row written once). `ScopedInv` is the invariant of the proof. Of the barrier in which the threads wait: `NobodyLeavesEarly`, no thread returns from its k-th wait before all have entered theirs, though fast threads re-enter while slow ones still spin; `EveryoneIsReleased`, every wait returns; `ImplementsRendezvous`, the code implements the abstract barrier, fairness included; and `BarrierInv`, the invariant of its proof. |
| `batcher` | Three requests, a batch of two, all client operations in any order. `EachRequestInOnePlace`: none is lost or in two lists. `CachesAreIsolated`: a cache holds the tokens its own request was fed. `PanicNeedsMisuse`: only the removal of a waiting request or a budget of zero panics. `ImplementsRequestLifecycle`: the batcher is a correct implementation of the life cycle, by which no request gets more tokens than it asked for and a completed one stays as it is. `EveryRequestCompletes`, for the requests that can be served. |
| `cpu_forward` | The cache under the forward pass. `CacheHoldsHistory`: after any mixture of calls, failures half way and clears, the prefix every layer's attention reads is exactly the tokens processed. `PrefixIsImmutable`: no path rewrites a cell below `seq_len`. `KvInv`, the invariant of the proof, adds that the layers agree when the cache advances and that only a full cache panics. The tiled products. `SumsAreWhole`: where the accumulator is cleared with the stride it is used with, a stored sum has one product for each block and none of another tile or call, and each product is made of its own block where all are unpacked together: of all its weights for Q6_K, of the half that is unpacked for Q4_K and Q5_K. It says nothing of the block sums. `StoredOnce`: no cell is stored twice, and none is left out when a product is over. `TiledInv` is the invariant of the proof. `EveryCellIsStored`: all cells of a product are stored once, by one thread, unless a narrow chunk is larger than the accumulator and panics. |
| `dag_dispatch` | `OrderIsTopological`, `OrderIsComplete` for the real DAGs. `DataIsReady`: with dependency dispatch no kernel starts on data that is not written, whatever the GPU overlaps. `PassInv`, the invariant of the proof: although failures are ignored, a pass with a hole is never committed (`CommittedPassIsWhole`). `EveryPassEnds`: committed and finished by the GPU if the model is complete, failed if a weight is missing or a layer (MLA) is one the executor does not support. |
| `gpu_decode` | With dependency dispatch. `AnswersInOrder`: no answer is lost, given twice or out of order, and none is read before its pass has completed. `PassesSeeTheirConversation`: whatever is in flight when the cache is cleared or replaced, a pass that the host left undisturbed attends to its own conversation in every layer and head. `StaleAnswersAreFew`: at most `pipeline_depth` answers of a conversation belong to an earlier one. `RotatedAsEncoded`: the shared buffer of positions still says what it said, unless a prompt was encoded meanwhile. `EveryCallReturns`. `GpuInv` is the inductive invariant that the first four follow from; that it holds with sequential dispatch too, but for the contents of the cache, is proved (section 6). |
| `buffer_manager` | `BufferInv`: no buffer is in two caches, or in a cache and a pool; a host buffer is never handed out while held; the registry agrees with the caches. `WrittenDataIsKept`: what was written for an id stays until it is evicted, unless a GPU buffer is written through a handle from before an eviction. |
| `bpe_tokenizer` | `ImplementsGreedyMerge`: the heap with its outdated entries always yields the merge the definition asks for, and the loop ends. `MergeInv`, the invariant of the proof, is what this rests on: the links lead past nothing alive (`LinksLeadOn`), and each pair that can be merged is in the heap under its present rank (`HeapCoversPairs`). |

Runs that exhibit a disagreement (section 7): `kv_forward_tiled`,
`request_executor`, `batcher_priority` and `tiled_block_sums`. Each checks one
property, worded after a comment of the code, and TLC finds the behaviour of
the code that breaks it.

Every property of a passing run has a mutant in `PROJECT.json`: a definition
changed as a plausible bug would change the code (a guard dropped, an order
swapped, a reset forgotten) with which TLC finds the property violated. The
mutated forms stand beside the definitions they replace.

`CHECK_DEADLOCK FALSE` is set where the system may really stop: a pool that was
dropped, a batcher or cache that panicked or a client with nothing left to
submit, a pass, a product or a text that is done, clients at the bound of what
they may feed. ThreadPool needs it for one more reason: the lost wakeup of
section 7 stops the whole pool. ScopedRows keeps the deadlock check: `Return`
is the only place to rest.

## 4 Bounds, and why they are enough

| run | instance | why |
|---|---|---|
| `thread_pool` | every team out of 1 caller and 2 workers, 2 calls and a drop, 1 spurious wakeup, `Wrap` = 4 | two calls are what a late worker needs to meet the next call's `reset()`; two workers compete for one item; a single-thread pool takes the early path; the proof removes the bounds |
| `scoped_rows` | 1 to 3 threads, outputs of 4, 1, 3 and 2 rows, claims of 2, `Wrap` = 2 | more rows than threads, fewer, as many; a claim and a chunk that are cut off, and empty ones; with three waits `passed` comes back to a value a slow spinner may still compare with, and a thread re-enters twice; the proofs remove the bounds, and let threads share a barrier without any rows |
| `batcher` | 3 ids, batch of 2, vocabulary of 2, four kinds of submission | one request always waits; the submissions are an ordinary one, an empty prompt, a budget of zero, and one with a token outside the vocabulary; two priorities |
| `cpu_forward` | the cache: 2 layers, 5 positions, slices of 1, 2 and 3 tokens, one with an unknown token, tiled threshold 3. The products: tiles of 4 with microtiles of 2, 1 or 2 threads, 2 calls in a row of 8 shapes. One or the other | two layers can disagree; five positions are filled by several calls; the slices take both paths. Rows, inputs and blocks that fill their tile, or not, or need two; a full tile of rows divided among threads; a second call finds the workspace of the first. They share no variable; the proofs remove the bounds |
| `batcher_priority` | 2 ids, batch of 1, as above otherwise | the second request has to wait for the first |
| `kv_forward_tiled` | capacity 12 | room for two tiled calls: nothing but the count goes wrong |
| `dag_dispatch` | one layer of each kind (separate, fused, MLA) and two layers of two kinds; whole, or any one optional weight missing | two layers show the edges between layers; each missing weight is another point of failure; the proofs remove the bounds, on the layers too; the module evaluates what they assume on all sequences of up to three layers |
| `gpu_decode` | 2 layers, 2 heads, 3 positions, pipeline of 2, 4 tokens, prompts of 2, 2 conversations, layer 1 with CPU projections | a pass stands between its kernels while the host acts; a head is overrun into the next; the pipeline fills, and is left from one conversation to the next; one layer waits for the queue and one does not; the proof removes the bounds |
| `buffer_manager` | 2 ids, 2 buffers on each device, 2 handles | two ids compete for a buffer, and a handle outlives the eviction of its id while the buffer has a new owner; the proof removes the bound |
| `tiled_block_sums` | the products of `cpu_forward` | the first product shows it |
| `bpe_tokenizer` | all tables of up to 3 of 6 merges, all texts of up to 6 characters out of 2 | merges of merges, overlapping pairs (aaa), ties of rank, entries outdated by a merge on either side |
| `request_executor` | a prompt of 2, a budget of 2, 4 buffers in the pool | an ordinary request |

`Wrap` stands for 2^64: `passed` is taken modulo `Wrap`, and the barrier is
proved for every `Wrap` of at least 2. Symmetry over ids and buffers is used
in `buffer_manager` alone, which checks only safety; the others finish without
it, and most check liveness, for which it is not sound.

In `dag_dispatch` the models whose pass is committed are checked with
dependency dispatch; sequential dispatch, which separates no kernels (section
7), runs the models that fail.

## 5 Fairness

* **ScopedRows, TiledMatmul.** Weak fairness of each thread: scoped threads run
  to the end of their closure. In ScopedRows also of the caller, who opens the
  next scope; in TiledMatmul nobody has to call. `EveryoneIsReleased` owes nothing to the
  loops: it speaks of waits that the whole team has entered.
* **ThreadPool.** Weak fairness of each worker's and of the caller's steps once
  a call has begun. No fairness for beginning a call or a drop, nor for
  spurious wakeups, so nothing is rescued by one.
* **Batcher.** Weak fairness of the next step of `step()` and of beginning the
  next one: the loop of `run_all`, which calls `step()` while there is work. The forward
  pass fails exactly for a token without an embedding, in the states where the
  code's lookup does.
* **RequestExecutor.** Weak fairness of `run()`: one sequential thread.
* **DagDispatch.** Weak fairness of the executor, a sequential loop, and of the
  GPU, which executes what was committed.

* **GpuDecode.** Weak fairness of the GPU, which runs what was committed, and of
  the host inside a call. No fairness for beginning a call: `EveryCallReturns`
  owes nothing to later calls.
* **BpeTokenizer.** Weak fairness of the loop: one sequential function.
* **BufferManager.** None: its properties are safety.

## 6 Proofs

All proofs hold for every value of the constants under the ASSUMEs of the
modules, which TLC evaluates in the runs.

**ScopedRows_proofs, the barrier.** Assumed: a finite set of threads, `Wrap >= 2`.
`BarrierInv` is inductive: besides the types it says in which `Places` the
threads may be relative to the episode (a thread is in the current episode, or
has not yet noticed the release of the previous one: nobody is further away) and
that `counter` counts those who have arrived (`Counting`), except between the
store of zero and the publication. `BarrierInvariantHolds` proves it of the
specification; `BarrierIsSafe` deduces `NobodyLeavesEarly`;
`BarrierRefinesRendezvous` maps each step to a step of Rendezvous or a stutter.
The point of the argument is that two episodes in sight differ by one, so two
values of `passed` tell them apart.

**ScopedRows_proofs, the loops.** Assumed: a thread, an output and a claim of at least one
row, `Wrap >= 2`. `ScopedInv` says of each row whose it is. By stride or in
chunks a row has an `Owner` by arithmetic alone (`NextResidue`, `ResidueGap`:
steps of `num_threads` meet each row of a residue and no other; `RoundedUp`,
`ChunkOwner`: chunks rounded up cover the rows and do not overlap), and `written` is
what the owner is `Past`. Claimed rows are taken by one thread, or written once
(`TakenApart`, `WrittenIfComputed`). From it (`ScopedInvariantHolds`):
`NoRowIsWrittenTwice`. For `OutputsAreInOrder` the theorems about SpinBarrier are
used: the threads' waits are a behaviour of
SpinBarrierRounds (`BarrierRuns`), hence nobody is more than one product ahead, and
who is behind stands in the barrier (`Paced`).

**ContinuousBatcher_proofs.** Assumed: finitely many ids. `BatchInv` is the
conjunction of what the parts of the state say about each other: an id is in
one of the lists exactly when its state says so, the queue holds known ids
unless one was removed while waiting, each cache has its request's capacity
and holds its history, a request has fed as many positions as it has
advanced, tokens stay within the budget, and a panic needs misuse.
None of the public invariants is inductive alone: that the cache does not
overrun needs the count of the tokens fed, which needs the state of the request, which
needs the place it is in. From it: `BatcherTypeCorrect`,
`RequestsArePartitioned`, `CachesStayIsolated`, `OnlyMisusePanics`,
`BudgetIsKept`, and the action property `CompletionIsFinal`.
`BatcherImplementsLifecycle` maps each action to a step of RequestLifecycle or a
stutter: admission to `Start` (the lists are apart, so the head of the queue is
waiting and the batch has room for it), a token to `Give`, the sweep to `Complete` (`FinishedIsFull`: a
request that says it is finished has generated its budget), removals to `Withdraw`.

**CpuForward_proofs, the cache.** `KvInv` adds to the public invariants where the call is:
layers below the loop variable hold the token in progress at `seq_len`, all hold the
history below it. From it: `KvTypeCorrect`, `AttentionSeesHistory`,
`LayersAlwaysAgree`, `NoEarlyPanic`, and `PrefixNeverRewritten`.

**CpuForward_proofs, the tiled products.** Assumed: the sizes are positive, the
longest read of blocks times a microtile fits in a tile, the short read is no longer
than the long one (`SizesAssumption`), and a product has a row, an input and a block
(`ShapeAssumption`). `SumsAreWhole` is about what was stored;
`TiledInv` adds what will be: where the loops of each thread are (`InTile`: at
multiples of the tile and the microtile), that the inputs unpacked for the first microtile
are still there for the others (`InputsStay`), that row i of the accumulator has the blocks
before `k0`, or those read with them if its microtile has had its turn
(`SumsInProgress`), and that the cells stored are those of the tiles `Before` this one, each
once (`StoredSoFar`). Rows, inputs and blocks find their places by quotients and
remainders, so the lemmas are about these (`FromIs` says what a product is made of,
`SumsHaveSlots` that the table of block sums is not left): a cell of a table is its row and its
column (`CellOf`, `RowAndColumn`), multiples of n are n apart (`ResidueGap`,
`NextMultiple`), what is read has its slots (`SlotOf`), each slot its block (`UnpackedAt`),
chunks are apart (`ChunksApart`) and cover the rows (`RowsCovered`), and
the tiles of a chunk follow each other (`NextTileFollows`). From it
(`TiledInvariantHolds`): `SumsStayWhole`, `CellsAreStoredOnce`. `InTile` also says that a
panic needs a narrow product too tall for the accumulator.

`SumsAreWhole` does not say that a product uses the block sums of its input and, for Q4_K
and Q5_K, all the weights of its block: it does not (section 7). The attempt to prove it
showed that it had been stated too strongly in another way: it took the
weights to be unpacked together whenever they fit in one tile, but a product of as many
rows as a tile is divided among threads, and then they are not (section 7). The
shape that shows it is now one of the run's.

**ThreadPool_proofs.** Assumed: a finite set of threads, `Wrap >= 2`. The pool
as a whole does not keep its promise (section 7), so the invariant
distinguishes clean calls, those begun with every worker parked. `Places` and
`Closures` hold in all calls: who is at the barrier, when the flags may be
set, and that a closure is in the slot, or was taken by one worker that runs it
or has run it. Before a clean call sets `work_ready` nobody is near the barrier
(`Fresh`); from then on it is in its first episode since `reset()`
(`FirstEpisode`): `passed` is 0, everybody inside has seen 0, and `counter`
counts those who have arrived. So the release needs the whole team, the
caller has run the closure, a worker has taken and finished it, and
the call is joined whatever the workers do afterwards. Proved:
`PoolInvariantHolds`, `CleanCallsAreJoined`, `ClosuresAreTakenOnce`.

**DagDispatch_proofs.** First the sort, for every DAG whose nodes depend on nodes
before them (`DagsAssumption`): `in_degree` of a node is the number of its
dependencies not yet handled, a node is listed or queued exactly when that
number is zero, and listed after its dependencies (`SortInvariantHolds`).
`SortIsTopological` is a part of it. `SortIsComplete` takes the smallest node
missing when the stack is empty: all it depends on is listed, so its count is
zero, so it is listed. Each step of the executor is a step of the sort or leaves
it alone (`DispatchKeepsOrder`), so this holds throughout a pass
(`DispatchOrderIsTopological`).

Then the pass, for both dispatch modes and any missing weights. `PassInv` says that
a batch is what the degrees allow (`Batches`), that the encoder holds exactly
the kernels of the nodes executed and of the current one before its loop
variable (`Encoded`), that a bound tensor has a producer that succeeded
(`Bound`), and that what a kernel reads was written in an earlier epoch, or was
tracked since the last barrier (`Epochs`). Neither `DataIsReady` nor
`CommittedPassIsWhole` holds of every DAG: they rest on what the builder makes. The K
and V buffers are not looked up in the registry, and the edges that order
their readers help only if the writer has not failed. What is assumed instead
of the builder's text is `BuilderAssumption`: each tensor and each target has one writer
(`HasOneWriter`); a buffer that is read is looked up, written before in the
node, or written by a dependency that succeeds whenever the reader does
(`ReadsAreOrdered`); and each kernel has a successor that needs it, up to the
exit (`NothingIsIdle`). "Succeeds whenever" is `Implies`, a condition on the
graph: the query, the key and the value of a layer go back to one
norm. From this (`PassInvariantHolds`): `DataIsReadyAlways`.

The assumption is stated of the constant `Dags`, and TLC evaluates it for the
DAGs of the run. `BuilderServesExecutor` proves it, with the order of `IsDag`, of the
DAG of every sequence of layers of the three kinds; so nothing is left to
assume. `LayersAre` gives the recursion over the layers its meaning, by the least number
of layers for which there would be no such function, and `LayersFollow` by the least
number for which they would not stand in a row; `BuilderLayout` then says where each
layer begins and `LayerNodes` what its nodes are. From there each property is one of
single nodes. `Producer` computes from a tensor the node that writes it, and each node
writes only tensors that lead back to it (`NodesAreLocal`), so none has two
writers (`BuilderHasOneWriter`). Attention is the one reader of a buffer that it
does not look up, and if its query exists then so did the norm, hence the key and
the value, or the layer has no projections and the query never exists
(`CacheIsUpdated`, `NoQuery`: `BuilderOrdersReads`). From RoPE on every node is looked up by a
later one or, for the cache, followed by attention (`LayersAreServed`:
`BuilderIdlesNothing`). `BuilderKeepsAssumptions` of MCDagDispatch has TLC
evaluate the same for all forty sequences of up to three layers.

**BufferManager_proofs.** Assumed: `None` and `Outdated` are none of the ids and
buffers. `BufferInv` is inductive as it stands, since it says for every buffer
who may have it: `BuffersStayApart`; `WrittenDataStays` is a part of it. That
written data stays needs that caches are apart from each other and from the
pools, and on the host that nobody holds what is handed out.

**GpuDecode_proofs.** First the layout of the cache: a cell belongs to one head
and position (`CellsApart`), a token written in its place changes no other
(`StoredInPlace`), attention over cells that hold a sequence sees it
(`RowsOfHeld`). What a layer holds is claimed for dependency dispatch only, as
`PassesSeeTheirConversation` is; the other parts hold whatever the order of the kernels in a
pass. None of the properties is inductive alone, since the passes in
flight write long after the host has gone on. `GpuInv` adds what each will find:
a layer holds what the next pass that runs it expects, and each pass in flight,
if undisturbed, leaves behind what the one after it expects, or that one begins
a conversation, and between the KV update of a layer and its attention the layer
holds the pass's own conversation (`CellsInPlace`); a pass keeps the positions it was encoded with
because all decode passes are encoded with the same one (`PositionsInPlace`);
the layers that `forward_prefill_batch` has written hold the prompt and nothing
is in flight (`BatchInPlace`); and when a conversation begins, only what the
pipeline holds is of an earlier one (`TurnOver`). From it (`GpuInvariantHolds`):
`AnswersStayInOrder`, `PassesStayApart`, `StaleAnswersStayFew`, `PositionsStay`,
`PromptsStayApart`.

**BpeTokenizer_proofs.** Assumed: the ranks of a table are numbers, no two pairs
have one (`TableAssumption`; the map is built from the numbered list of merges),
and a text is a sequence (`TextAssumption`). `HeapCoversPairs` alone is not
inductive: a merge needs to know that the piece it takes over is the next
living one, and the walk at the end that the links of pieces that are gone lead on
too (`LinksLeadOn`). With these `MergeInv` is (`MergeInvariantHolds`): an entry that
is discarded says nothing about a pair that can be merged, one whose rank has
changed is pushed again, and a merge makes two new pairs at most, which it pushes.

`MergesAreGreedy` is the safety part of the refinement of GreedyMerge, step by
step. The abstract list is the living positions in order, so the lemmas number the
elements of a finite set of integers (`RanksCount`, `PlacesAre`), find that the
neighbour by link has the next number (`NextRank`, `NextPlace`), and what becomes
of the numbers when one is taken out (`PlacesWithout`). As each pair of neighbours
that can be merged has an entry (`Neighbours`), the least entry that tells the
truth is the leftmost pair of the best rank (`MergeIsBest`). The result is that of a
walk along the links, a recursive function of the position; `RestIs` shows what it
yields from each position by taking the last at which it would yield something else.

**Checked by TLC only.**

* Liveness, all of it, and the liveness part of the refinements: it needs fairness
  and ENABLED, which the prover does not treat.
* RequestExecutor: its one property is one the code does not have.

## 7 Disagreements between the code and what it says

Four have a run:

1. `kv_forward_tiled` (`llama.rs:2588`). The tiled prefill advances the cache
   in the layer loop: `seq_len` ends `n_layers` times too large, and each layer
   finds its prompt at another offset.
2. `request_executor` (`request_executor.rs:135`). `run()` never returns on an
   ordinary request: after the prefill there is no generated token for
   `step()` to start from, it returns `None` before the forward pass, and the
   loop ignores that.
3. `batcher_priority` (`batcher.rs:72`). The queue documented as "sorted by priority"
   (line 33) is first come, first served. RequestQueue of `request.rs` does insert by
   priority, but nothing uses it.
4. `tiled_block_sums` (`quant/matmul/tiled.rs:278`). The block sums of an input are
   unpacked to `slab * 16 + row * num_k * 16 + i` (229, 242) and read at
   `(slab * 16 + i) * bs_stride + row` with a stride of 256 or 16, by the microkernels of
   Q4_K and Q5_K. Even for a single input of one block all but the first are left over
   from an earlier tile or call, or zero. Q6_K reads a sum and does not use it.

The others were met while modelling. The passing runs state what holds in spite
of them, and the models have the behaviour:

5. `dag/executor.rs:264`. The comments here and at 249 rely on Metal's implicit
   synchronisation, but the encoder is created concurrent in both modes (505) and
   sequential dispatch, the default, inserts no barrier: nothing makes a kernel wait for
   what it reads, nor attention for the KV update of its own token. DagDispatch and GpuDecode
   have both modes; `DataIsReady` and `PassesSeeTheirConversation` speak of dependency
   dispatch. Line 515 calls that mode "disabled by default due to correctness issues" and
   does not name them; in the order of its kernels the model finds none.
6. `quant/matmul/tiled.rs:172`, `:798`. "Load 32 bytes from qs" loads 16: half of the
   weights of a Q4_K or Q5_K block are not unpacked, and the microkernel takes what an
   earlier block left in their place, or zero (`UnpackedRest`). That all the weights of a
   product are its block's is asserted of Q6_K only.
7. `thread_pool.rs:159`. The pool is announced with "barrier sync", yet
   `parallel()` can return before its closure has been run: a worker that leaves
   the barrier before `work_ready` is cleared enters it again, and the next
   call's `reset()` finds it there. `CleanCallIsJoined` speaks of parked workers.
8. `thread_pool.rs:153`. `parallel()` can hang: `work_ready` is set and notified
   outside the mutex, between a worker's test and its wait, so the notification is
   lost. `drop()` has the same shape. `SleepingPoolAnswers` speaks of sleeping workers.
9. `thread_pool.rs:7` promises work stealing; the division is static.
10. `batcher.rs:180`. A decode step feeds the last generated token or the begin
    token if there is none, and the tokens sampled while the prompt is fed are
    reported but not kept: generation starts from the begin token.
11. `inference.rs`, `forward_gpu_batched`: the comment says that the first call waits
    synchronously; it returns `None`, as do all calls until the pipeline is full,
    and `tools/generate.rs` takes that for a failure. After a new prompt the
    first answers belong to the conversation before (`StaleAnswersAreFew`).
12. `dag/executor.rs:491`. The position RoPE rotates by is a field that is
    never set: every decoded token is rotated by position 0. A prompt is not.
13. `quant/matmul/tiled.rs:210`. The unpacking takes the blocks of a row to be
    the length of the whole slice divided by the rows unpacked now, so that unless
    all rows are unpacked together it reads blocks of other rows, or none and
    leaves the slot as it was. So do the threads of a product of 256 rows, which fit in a
    tile, but of which each thread unpacks its own. `SumsAreWhole` asserts the blocks only
    where all are unpacked together.
14. `quant/matmul/tiled.rs`, `clear_acc`: it clears the first `tile_m * tile_n`
    cells, while the standard paths of Q5_K and Q6_K, and of Q4_K in a chunk,
    use a stride of `TILE_ROWS`: when the inputs do not fill a tile, sums of the
    tile before remain. `SumsAreWhole` excludes these paths then.
15. A narrow chunk whose rows times inputs exceed the accumulator panics
    (`EveryCellIsStored`). The result is stored by weight rows where callers read
    it by tokens.
16. `quant/matmul/tiled.rs:191`. The fifth bits of Q5_K are `qh_val >> j` of a byte for j up
    to 31: a debug build panics at 8, a release build shifts by j modulo 8 and takes the bits of four
    bytes of the 32. The model is of the release build.
17. `gemv_batch_with_barrier` skips a product whose type it does not know and
    leaves its rows unwritten; ScopedRows models the types it knows.
18. `buffer/ref.rs:19` calls writing through a shared buffer safe "because BufferManager
    ensures exclusive access through &mut self"; the handles are clones that outlive the
    call, and two of them for one id, or one from before an eviction, write to the same bytes.
    `WrittenDataIsKept` names the second.

## 8 What the models leave out

Abstractions inside the models:

* Memory is sequentially consistent. The spin load of the barrier is Relaxed in
  the code; what a weakly ordered machine adds is not modelled.
* Ids of requests are unique (an id is submitted once); the reuse of an id is planned.
* Work buffers are left out of the batcher, where each iteration returns its
  own, and kept in RequestExecutor, where a failed step drops one.
* `current_chunk` of the pool is written and never read. The pool has one caller,
  although `parallel(&self)` would let several threads share it: nothing in the
  repository calls it, and two calls at once would share one slot and one barrier.
* Tokens and cells carry an identity, not numbers: attention, projections and
  sampling are "any result".
* Dependencies of a node are a set: the builder never names one twice. Weights
  are read-only, so they are named for the lookup and not for the ranges. Each tensor
  has a buffer of its own and ranges are whole buffers. DagDispatch runs one
  pass; several in flight are GpuDecode's, where a pass is a sequence of layers.
* Metal is external: in a concurrent encoder kernels of one epoch run in any order and
  overlap, a barrier separates epochs, a serial encoder runs its kernels in order, and a
  queue runs its command buffers one after the other.
* GpuDecode takes RoPE and the KV update of a layer as one step, also when they are not kept
  in order; a row that was not computed before the update is then one of unknown contents.
* GpuDecode leaves out the buffers of a pass, taken from a pool made for that
  pass, the CPU and MQA fallbacks, which begin every call with a fresh cache, and
  the synchronous path for a single token, which is `Submit` and a wait.
* BufferManager registers a buffer of its own under each id: a client that
  registered one buffer under two ids would share it, which no code does. It
  has one size class, and a pool gives its buffers in any order; `transfer` and
  `prefetch` do nothing in the code.
* TiledMatmul leaves out how the weights and scales of a block are decoded and the
  arithmetic of the microkernels. The scales of a block (`src0_d`, `src0_scales`, ...) have cells
  that belong to its slot one to one, so they are not told apart from it; only where the
  unpacking of a slot was skipped may its scale be of another block than its weights, and
  of those nothing is claimed. The table of block sums is modelled (section 7).
* BpeTokenizer begins with the characters of one pre-token: the regular
  expressions that split a text, the map from bytes to characters and the lookup of
  ids are not modelled.

Components not modelled, or in part, and why:

* *KV cache*: the MLA path and the quantised caches repeat the bookkeeping with
  other cells. *DAG*: the fusion rewrites are disabled in `optimize()`, and
  `build_layer_dag` is used by benches only. *DAG executor*: the CPU fallback of
  FlashAttention, which ends the encoder, and MoE nodes.
* *InferenceContext*: its construction, and `generate()`, a loop over the CPU pass.
* *ForwardBufferPool, GPU buffer caches, CPU pools*: lists that one sequential
  caller takes from and puts back to.
* *HTTP server*: a handler with a cache of its own around the forward pass; the
  rest is I/O of the web framework.
* *Other executors*: sequential calls of kernels without state between calls.
* *Loading and scheduling; kernels; platform, tools, benches*: pure functions,
  numerical code and probes, whose correctness is a matter of values, not of order.

Most of the repository's lines are of the last kind: Metal and NEON kernels
for some thirty quantisation formats and their wrappers, tables of constants,
readers of model files, and drivers that call kernels in a fixed order. A model of these
would repeat their text, or abstract away all they do. What they share with
other code (which rows a thread writes, which cells a pass writes, which buffer
holds what) is modelled where it can go wrong; so the map covers a small share of the
lines, and most of the state that outlives a call.

## 9 Plan

Done, in this order: the barrier with its refinement; the pool and
the row-parallel loops; requests, the batcher, the life
cycle it implements and the request executor; the KV cache under the forward pass;
the DAG, its sort and its dispatch; the GPU pipeline
with its cache; the buffer manager; the tiled products; the tokenizer. The
proofs of all but the request executor.

To extend the model: two passes in flight in DagDispatch; the reuse of request
ids, and RequestQueue and RequestScratchPool of `inference/request.rs`; the
graph executor of the CPU.
