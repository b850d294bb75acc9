# CacheFlow: a TLA+ verification project

CacheFlow is an LLM serving engine: a paged KV-cache, a continuous-batching
scheduler, a batched decode engine with CUDA kernels, and a profiler, driven by
benchmark programs. These modules model it, TLC checks them on small instances,
and TLAPS proves the safety of its allocators, prefix cache, scheduler, serving
loop, cache kernels and trace writer for every size. `PROJECT.json` maps every definition to the lines
it models and lists components, runs, findings, hazards, mutants and theorems.

## The system and its parts

| Part | Source | State | Modelled by |
|---|---|---|---|
| Block manager | `kv_cache/block_manager` | reference counts, two LIFO free lists, sequence -> blocks | `BlockManager`, `BlockPool`, `BlockClients` |
| Prefix cache | `kv_cache/prefix_cache` | trie of block-aligned prefixes, LRU clock | `PrefixCache`, `PrefixClients` |
| Scheduler | `scheduler/scheduler`, `scheduler/request.h` | waiting, running and swapped queues; status, tokens and block table of each sequence | `Scheduler` |
| Batch manager | `scheduler/batch_manager` | the current batch | `ServingLoop` |
| Decode engine | `decode/batch_decode` | token statistics | `ServingLoop`, `ProfiledLoop`, `KvLayout`, `PagedAttention`, `Sampling` |
| Drivers | `benchmarks/bench_*.cpp` | the loop that calls all of them | `ServingLoop`, `ProfiledLoop`, `PrefixClients` |
| Memory pool | `kv_cache/memory_pool` | a stack of free pointers | `MemoryPool`, `KvLayout` |
| Profiler, metrics | `profiler/profiler`, `profiler/metrics.h` | request records, running statistics, histogram | `Metrics`, `Profiler`, `ProfiledLoop` |
| Trace writer | `profiler/trace` | an event buffer and a file | `TraceWriter`, `ProfiledLoop` |
| Cache kernels | `cuda/kv_cache_kernels.cu`, `cuda/memory_utils.cu` | device memory | `CacheKernels` |
| Attention kernels | `cuda/paged_attention.cu` | shared memory, partial results | `Softmax`, `PagedAttention` |

A driver repeats `schedule`, `build_batch`, `step`, `update_after_decode` and
`free_finished_requests`. The scheduler takes blocks for each position to be
computed, preempts the last running group when it cannot, and hands out raw
pointers to the groups it scheduled. The batch manager reads block tables and
appends tokens through those pointers without a lock. `add_request` and
`abort_request` may be called from other threads. The prefix cache pins blocks
of the block manager with reference counts of its own. The decode engine turns
block tables into addresses in the pool's memory, runs attention there and
samples a token for each entry of the batch; the profiler and the trace writer
watch it.

## Modules

`BlockManager` has one action per public operation, since each holds
`BlockManager::mu_` throughout. `free_blocks` takes a step per entry; `freeing`
stands for the mutex it holds meanwhile. A block is `<<device, index>>`, free
lists are sequences whose last element is the back of the vector.
`compute_fragmentation` is an operator.

`BlockClients` adds the callers, under the contract "give back only what you
took". `pins` counts references taken with `increment_ref`. `BlockPool` is the
abstract specification: a block has at most one holder and some pins, and a
block in use is never handed out. `BlockClients` implements it (`RefinesPool`)
with `holder` computed from the sequence map; a sequence inside `free_blocks`
already holds nothing.

`PrefixCache` models the trie at block boundaries, the only nodes that carry
state. `last_access` becomes the order `newer`: `newer[p]` are the nodes
accessed after `p`. `insert` and `evict_lru` take
one step per call into the block manager, because the block manager's lock is
free in between; `inserting` and `evicting` are the rest of the call that holds
the cache's lock. `PrefixClients` adds sequences that allocate, insert, release
and free, and a thread that looks up and evicts. Its `content` records which
prefix was last written to a block, its `held` which references the cache has.

`Scheduler` models `schedule()` as the code runs it: one step per iteration of
its loops, with at most one call to the block manager in each. `pc` is the
place of the thread that holds `Scheduler::mu_`, and `"unlocked"` when nobody
does. `it`, `left`, `budget_tokens` and `budget_seqs` are the code's locals.
`config` is the `SchedulerConfig` it was built with, chosen in `Init` and never
changed. A group has one sequence: the only constructor that fills `sequences`
builds one.

`ServingLoop` adds the engine thread (`phase`), the batch manager's loops and
the clients. A batch entry is `<<sequence, position>>` and the token sampled
for an entry is that entry, so a token shows where it was sampled.
`update_after_decode` tests `is_finished` and writes in two steps, because an
abort may come between.

`TraceWriter` is the event buffer and the file, a sequence of records with or
without a comma before them; each operation holds the writer's mutex once.
`Metrics` has the running statistics, the histogram and the throughput counters
as functions on records. Numbers are exact: means are kept in units of
`1/Scale`, where `Scale` is divisible by every sample count up to `MaxSamples`.
`Profiler` has one action per recording operation. `ProfiledLoop` composes
them with `ServingLoop` as `run_throughput_bench` does, with the engine's calls
inside `step`, the driver's after it, and a second thread that uses the trace
writer. `samples`, `tracked` and `lost` are history: step times, requests
started since the last reset, and discarded outputs.

`MemoryPool` is the slab allocator with its clients; a pointer is an offset.
`KvLayout` puts keys and values on its memory as `prepare_kv_cache_inputs`
does, and gives the addresses that `reshape_and_cache` writes and attention
reads. `CacheKernels` unrolls each thread of a launch into the copies it makes,
and interleaves the threads one copy at a time.

`Softmax` has the arithmetic of attention and sampling: `exp(x)` stands as
`2^x`, in units of `2^-Bits`. What the code needs of `exp` (sums become
products, far below zero it vanishes) is kept, and results are exact
fractions. `PagedAttention` runs V1 or V2 for one sequence and head: a warp's
loop takes a step per position, and `barriers` counts the `__syncthreads` a
warp has reached. An output is the weight of every position, so that no value
vectors are needed. The batch's longest context (`max_ctx`) chooses the kernel
and the grid. `Sampling` is `sample` for one entry, with every order a sort may
leave equal elements in and every outcome of the draw.

`MCBlockClients`, `MCPrefixClients`, `MCServingLoop`, `MCProfiledLoop` and
`MCDevice` give the constants values; `MCDevice` also puts the pool, the
kernels, attention and sampling side by side, one use at a time, as the engine
issues them. Definitions marked "Mutant" change one definition in the way a
plausible bug would; they are used only to show that a property can fail.

## Runs

Passing:

| Run | Instance | Shows |
|---|---|---|
| `block_contract` | 3 GPU blocks, 1 CPU block, 2 sequences, 2 pins a block | free lists hold exactly the unreferenced blocks, counts are the references held, no block is recorded twice, fragmentation statistics agree with the counts, the abstract pool is implemented |
| `prefix_cache` | 3 blocks, prompts `ab` and `ac`, one `evict_lru` call of any size | references stay exact while sequences run between the steps of `insert` and `evict_lru`; eviction takes the least recently used released nodes; cached prefixes have no holes; a block the cache holds still has the contents of its prefix |
| `serving` | 3 requests, 4 GPU and 4 CPU blocks of 1 token, aborts; FCFS with RECOMPUTE, PRIORITY with batches of 2 tokens, SHORTEST_REMAINING with SWAP | under RECOMPUTE: running sequences have blocks of their own, no block is lost or freed twice, slots of a step belong to its entries, FCFS keeps the order of arrival, and with FCFS the driver stops only when all is done. In every configuration: running tables are on the GPU, budgets never wrap and bound the batch, output pointers stay alive, a request is in one queue, PRIORITY admits by priority, a revived aborted request starts from nothing |
| `ample_memory` | 8 blocks, batches of 2 tokens, fair engine, aborts | every request finishes |
| `telemetry` | the throughput benchmark with 3 requests, 2 at a time, a preemption, a trace buffer of 4 | the trace of two threads is complete and well formed; statistics and percentiles are those of the steps taken, whatever their times; each request is served once, also across a reset, and gives one TTFT sample as long as no output is discarded; recomputation is counted as prefill |
| `device` | 3 pool blocks; blocks of 4 elements and 3 threads; contexts up to 5 with 2 warps of 2 lanes; 3 tokens | no pointer is handed out twice; kernels stay in bounds and move exactly the blocks named, to where attention reads them; V1 and the CPU path are softmax attention, and V2's partitions have the maxima and weights of their positions and sums in the right proportion to be merged, for every order of the warps; sampling stays inside top-k and top-p |

Violations, each a disagreement between code and documentation or tests:

| Run | What happens |
|---|---|
| `swap_shared` | SWAP preemption calls `free_block` on blocks that stay recorded under the victim; they are freed again later, and two running sequences end up with one GPU block |
| `recompute_livelock` | two requests that fit one at a time preempt each other for ever |
| `prefill_tokens` | after a prompt of two tokens, a sequence receives the token sampled for its first position instead of its last; the sequences after it in a batch are given tokens of earlier entries in the same way |
| `prefix_stale` | an evicted node still names its block, which lookup returns after it was overwritten |
| `attention_shared` | V1 indexes a shared array of `NUM_THREADS` (128) scores by the position in the context, and is launched for contexts up to 8192 |
| `attention_merge` | V2's reduce kernel multiplies outputs that were never normalised by their sums once more, so the merged output is not the softmax over the context |

Further disagreements have no run of their own. `free_block` followed by
`free_blocks`, as in `test_basic_alloc_free`, lists a block twice. CPU blocks
are not returned at swap-in. The preempted group is the last admitted one,
where `README.md:171` says the one of lowest priority. Inserting a prefix that
is already cached takes no reference, but its release drops one, so a prefix in
use may be evicted. A second call of `evict_lru` drops the reference of an
evicted node again, for the reason `prefix_stale` shows; `prefix_cache` is
therefore bounded to one. An abort between `build_batch` and
`update_after_decode` shifts the tokens of the later sequences in the batch by
one. Under SWAP the driver stops with requests pending when a `schedule()` only
swaps in, because `is_empty` looks at the scheduled groups alone. It does so
under RECOMPUTE too, with PRIORITY or SHORTEST_REMAINING, when the first running
group gets no block and the victim is sorted behind a waiting request that does
not fit into the blocks it gave back: `schedule()` returns nothing and the drivers leave
their loops (`bench_throughput.cpp:75`). `StopsOnlyWhenDone` is therefore stated
for FCFS, where the victim is first in line.

V2 stores `WARP_SIZE` times a partition's exp sum, where the comment at
`paged_attention.cu:174-175` says the exp sum: every lane already has the whole
`local_sum` when `warp_reduce_sum` (`paged_attention.cu:271`) adds it up over the
lanes. The factor is the same in all partitions, which `PartitionsMergeable`
shows, so the reduce kernel's quotient is not affected by it; a reader of
`exp_sums` would be. After a RECOMPUTE preemption `output_len()` is 1 a second
time, and the driver (`bench_throughput.cpp:83`) records another first token:
`record_first_token` does not test `got_first_token`, so the request adds a
second TTFT sample and its TPOT interval starts anew. `README.md:11` speaks of
the time to first token, `tests/test_profiler.cpp:101` asserts one sample for a
request, and `batch_manager.cpp:70` takes a group's first token once.
`TtftOnce` therefore asks for exactly one sample only while nothing was
discarded. `copy_on_write` of a block with one reference records it under the
new sequence too, without removing it from the one that has it: the
`free_blocks` of either then frees a block of the other. The contract of
`BlockClients` excludes the call, but `test_cow_single_ref`
(`tests/test_block_manager.cpp:88-90`) makes it and asserts that the same block
comes back; it frees nothing afterwards.

## Bounds

- `MaxPins`, `MaxEvictCalls` and `MinNodeRefs` cap what callers may repeat: two
  pins tell shared from unshared twice over; one eviction is where the cache's
  accounting still holds; a node's count is only compared with zero, so one
  step below it suffices.
- Three requests with outputs of three and two tokens on four blocks of one
  token exhaust the pool in the middle of decoding, so that every preemption,
  including that of a finished group that waits for cleanup, occurs. Four
  requests are needed only for `swap_shared`.
- In `telemetry`, two concurrent requests do not fit together, so one is
  preempted and recomputed. A trace buffer of four fills and is flushed inside
  a step. Step times fall into each bin, on a boundary and above the
  histogram's maximum. `MaxSamples` bounds the steps, `MaxResets` the resets.
- In `device`, four elements and three threads leave a partly used thread
  block; tables are not in order; mappings include a block copied to two places
  and one that stays. Contexts 1 to 5 with blocks of two and partitions of four
  include a warp without positions, a partly filled block, a partition with one
  block, and a sequence shorter than the longest of its batch, whose last
  thread block returns at once. `V1Limit` is 4, so that both kernels run;
  contexts of the passing run fit V1's shared array. Scores differ by up to 3
  and logits by up to 4 doublings: larger, equal and smaller ones arrive in
  every order.

Every action of every module is taken in a passing run.

## Fairness

`FairSpec` assumes weak fairness of the engine thread, including a `free_blocks`
it or a client has entered: the operating system schedules the thread, and
every loop in it is bounded. Clients need not submit or abort. The liveness
result of `ample_memory` and the loop of `recompute_livelock` use it.

## Proofs

Every theorem holds for all values of the constants that satisfy the `ASSUME`s
of the module that declares them; TLC evaluates those in the runs. Types of
constants apart, they say: a block size, a thread count and a flush threshold
are positive; prompts are not empty; prefixes of a path are paths; the pool was
created with `block_bytes` per block and `block_size` is at most
`KV_BLOCK_SIZE`; a block table names no block twice. Two theorems have a
hypothesis of their own (`Fits`, `evict_calls <= 1`), explained below.

| Module | Proves | Invariants |
|---|---|---|
| `BlockManagerProofs` | what each operation does to lists and records (lemmas only) | |
| `BlockClientsProofs` | block manager, refinement of the abstract pool | `Accounting` |
| `DeviceProofs` | memory pool, layout, cache kernels; trace writer | `PoolInv`, `KernelInv`, `TraceInv` |
| `PrefixClientsProofs` | prefix cache | `Types`, `TrieInv`, `RefsInv` |
| `ServingLoopProofs` | queues and their order, types, block tables, records | `QueueInv`, `OrderInv`, `MemInv`, `OwnInv` |
| `ServingOwnersProofs` | restarts, exclusive tables | `DoneInv`, `RoomInv` |
| `ServingWorkProofs` | batch limits | `WorkInv` |
| `ServingProofs` | slots of a batch, end of the loop | `SlotInv`, `StopInv` |

An invariant's step has a lemma for each action that can disturb it, over lemmas
on the operators (appending, popping, erasing, sorting, mixed-radix addresses).

**Block manager.** `TypeCorrect`, `FreeListsExact`, `RefCountsExact` and
`RecordsDisjoint` hold under the contract of `BlockClients!Spec`. Their
conjunction `Accounting` is inductive; none is alone: popping a block is safe
because the free list holds only unreferenced blocks; that stays true because a
count reaches zero only with the last reference; counts match references
because a popped block is recorded nowhere; and one `free_blocks` entry drops
one reference because no block is recorded twice. `ImplementsPool`: every step
is a step of `BlockPool` or a stutter. A block is recorded under at most one
sequence, so the `CHOOSE` of the refinement mapping has one candidate;
`free_blocks` gives up all its blocks when it is entered, and the iterations of
its loop stutter.

**Pool and layout.** `PoolIsExact` and `PoolTypes` need that different blocks
have different pointers; `RoundTrip` is `test_block_id_conversion` for every
block. `LayoutInjective`, `LayoutInside` and `WriteReadAgree` rest on the
uniqueness of quotient and remainder, one digit of the address at a time.

**Cache kernels.** `InBoundsAlways` and `KernelsExactAlways` hold for every
geometry, thread count, interleaving and mapping under the callers' contract
(`Disjoint`). The copies of a launch are `Independent`: none writes what
another reads, and two that write one cell write the same. Then any order has
one result, which `KernelInv` states halfway through: an intended copy is done
or still on some thread's list, its cell holds the old or the new contents, and
other cells are untouched. Each kernel owes that its threads together make
exactly the intended copies (`CopyCarries`, `CompactCarries`, `SwapCarries`,
`MemsetCarries`, `ReshapeCarries`), which is about grids, strides and addresses.

**Trace writer.** Which event comes next needs the file and the buffer together
to be the events added so far, and whether it has a comma needs `first_event` to
say that the file is empty; hence the conjunction `TraceInv`.

**Prefix cache.** `PrefixClosedAlways` needs that what `insert` has still to go
through comes after the nodes above it (`InsertsWhole`), `EvictsOldestAlways`
that what `evict_lru` has still to go through is older than every other
released node the cache holds (`EvictLine`). Both hold for any number of calls.
`CacheRefsExactAlways` and `HeldExactAlways` hold until `evict_lru` is called a
second time, for the reason `prefix_stale` shows. There, `insert` may take a
reference because the block still belongs to the inserting sequence
(`InsertsOwned`), whose blocks hold the prefixes of its prompt in order
(`Filled`); `evict_lru` may drop one because every node it goes through is held.

**Queues.** `QueueInv` ties the loop's place to the scheduler's, a request's
status to its queue and each cursor to an element; it gives `OneQueueAlways`
and `ScheduledAliveAlways`. `OrderInv` adds that `schedule_prefills` works on a
sorted queue (`AdmissionByPriorityAlways`) and that FCFS with recomputation
keeps `running_` ahead of `waiting_` in order of arrival (`FcfsOrderAlways`).

**Block tables.** `MemInv`: wherever `schedule()` allocates, the free list and
the budgets it checked are still large enough (`Inner`, `Budgets`), so that no
table gets an `INVALID_BLOCK` and all are long enough for the next step. It
gives `TypesAlways` and `RunningOnGpuAlways`, in both preemption modes.

**Records.** With RECOMPUTE, `OwnInv` has the block manager's accounting with
the scheduler as its client: only running or just finished sequences have
blocks recorded (`NoBlockLostAlways`).

**Restarts and exclusive tables.** `DoneInv` says what a finished and what an
unstarted request look like; `AbortedOnlyRestartsAlways` needs it because
`schedule_prefills` tests no status. `TablesExclusiveAlways` needs that a
running sequence's table lists exactly its records. `preempt` may move a
finished victim with a stale table to `waiting_`, and were it admitted this
would fail: `RoomInv` shows that after such a preemption nothing can be
admitted until `free_finished_requests` has destroyed it.

**Limits.** `WithinBudgetAlways`: a prefill is charged its prompt and a decode
one token in `schedule()`, but what the batch holds for a group is decided
later, by whether it has output tokens. `WorkInv` shows that a running sequence
without output tokens is one charged in this very pass, because
`update_after_decode` never runs out of tokens for an unfinished group.

**Slots.** `SlotsOwnedAlways`: from `schedule()` to the step, the tables of the
scheduled sequences cover their positions and are disjoint from each other and
from every record of another sequence, even when an abort frees them, since
nobody allocates before the step.

**End of the loop.** `StopsOnlyWhenDoneAlways`: with FCFS and RECOMPUTE, when
each prompt fits the pool and the token budget alone (`Fits`; without it the
queue's head blocks for ever), `schedule()` returns nothing only when all is
done. Either nothing runs and every block is free, or the victim is first in
line and the blocks it gave back suffice to admit it again.

Only model-checked:

- liveness (`AllFinish`), which is beyond the prover;
- `FragmentationExact`, `LatencyExact`, `PercentilesExact`, `TtftOnce`,
  `WorkAccounted`, `AttentionExact`, `PartitionsMergeable` and
  `SampleInSupport`:
  what a scan, a fold or a sum over data computes for every input needs an
  induction the prover does not do;
- `ServedExact`, which is about `ProfiledLoop`, the composition of the profiler
  with the serving loop: no invariant of that composition has been proved.

## Not modelled

- Floating-point rounding and range, and the `1e-8` added to denominators.
  `sample` subtracts the logit of the first token, which is not the largest one
  unless top-k sorted them; overflow of `exp` is outside exact arithmetic.
- Lanes of one warp are assumed to run in lockstep. V1 lets all lanes read and
  overwrite a weight without `__syncwarp`, which the model cannot distinguish.
- The query: the engine passes none, so scores are inputs. The CPU path
  multiplies keys with themselves and discards its result; only the weights it
  computes are checked. Its return when there is no cache memory and its skip of
  positions past the end of the block table are left out: tables cover the
  context, as `SlotsOwned` shows for the scheduler's.
- The launchers' choice of a template instance: V1 is launched only for a head
  dimension of 128 or 64 and blocks of 16, V2 only for 128 and 16
  (`paged_attention.cu:344-356`, `372`). For any other model nothing is launched
  (for V2, only the reduce kernel), and the output stays as it was; the models
  are for a supported one.
- The token `sample` falls back on when rounding keeps the running sum below the
  draw: in exact arithmetic some token reaches it.
- No code launches the cache kernels. That the pairs of a mapping do not
  overlap (`Disjoint`) and that the block size passed is that of the layout are
  taken as the caller's contract.
- The statistics of the prefix cache, padding and utilisation estimates, timing,
  logs, CSV output, the text of trace events, argument parsing, CUDA runtime
  wrappers, plotting scripts and the web site.
- The swap lists in the scheduler's output, because nothing executes them.
- Prompts and requests larger than the pool or the budget, empty prompts,
  reused request ids, and groups of several sequences, which no constructor
  builds.
