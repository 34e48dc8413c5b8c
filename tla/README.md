# TLA+ models of gozlib's pooled allocator and its clients

This directory holds the formal models of `bignacio/gozlib` (`src/zwrapper`).
They are TLA+ modules, TLC configurations, and TLAPS proofs.
`PROJECT.json` lists the components, runs, mutants, source map, findings,
hazards and theorems in machine-readable form.

## 1. The system

gozlib is a C wrapper around zlib that Go code calls through cgo.
Its own engineering is mostly the memory pool that zlib and the wrapper
allocate from (`dyn_mem_pool.h`).

| Component | Source | State | Operations |
|---|---|---|---|
| MemNode / data block | `dyn_mem_pool.h` 22-26, 71-126 | `next`, `data`, `pool`; a hidden prefix before `data` points back to the node | `alloc_poolable_mem`, `free_poolable_mem`, `get_memnode_in_data` |
| MemPool (one block size) | `dyn_mem_pool.h` 33-243 | `head` of an intrusive free list, `mem_size`, and `num_allocs` / `num_available` when built with `TRACK_POOL_USAGE` | `alloc_mem_pool`, `pool_mem_acquire` (Treiber pop, or a fresh malloc when the list is empty), `pool_mem_return` (Treiber push), `pool_mem_free_all`, `free_mem_pool` |
| Size classes | `dyn_mem_pool.h` 252-262, 284, 313-320 | none (pure) | `find_multipool_index_for_size`, class size `1 << (9 + i)` |
| MultiPool | `dyn_mem_pool.h` 268-341 | 14 pools of 512 B ... 4 MiB | `multipool_create`, `multipool_mem_acquire`, `multipool_free` |
| Global multipool | `dyn_mem_pool.h` 347-374, `gozlib.c` 22-48 | `_global_multipool`, plus three single pools for `ZStreamState`, `z_stream` and `GoZLibTransformer` | created by an ELF constructor and freed by a destructor; `pool_alloc`, `pool_free` |
| One-shot (de)compression | `gozlib.c` 79-150 | a stack `z_stream` | `compress_buffer`, `uncompress_buffer_any` and their error-code mapping |
| Streaming (de)compression | `gozlib.c` 152-302 | `z_stream` plus two pooled work buffers | `compress_stream`, `compress_to_outstream`, `uncompress_stream_any`, `uncompress_to_outstream(_step)`, all driven by the input and output handler callbacks |
| Transformers | `gozlib.c` 304-384 | a `GoZLibTransformer` holding four pooled blocks | acquire, release and reset |
| Go glue | `gozlib_interop.h` | none | forwards to the functions above |

How they interact:
- zlib allocates through `zlib_custom_alloc`, and so does the wrapper through `pool_alloc`.
  Both go to the global multipool, which picks a size class and pops a block from that class's MemPool.
- Every free goes through `pool_mem_return`, which finds the owning pool through the block's hidden back-reference.
- Go calls all of this from many goroutines at once, so each MemPool's free-list head is shared mutable state.
  It is updated only by compare-and-swap, with no lock.

What is hard:
- The lock-free free list. Pop and push are CAS loops over separate atomic loads and stores.
  The CAS is weak (it may fail spuriously), and it compares a bare pointer, so it is exposed to ABA.
- The usage counters are updated in their own atomic step after the CAS.
- Teardown (`pool_mem_free_all`) is not thread-safe, and nothing enforces its quiescence precondition.
- Several allocations in a row may fail part way:
  - a node without its data buffer;
  - one class of a multipool;
  - a work buffer that is later freed as NULL.
- Boundary arithmetic: `size - 1` wraps at zero, every class boundary is an off-by-one risk, and `pool_alloc` casts `size_t` to `uint32_t`.
- The streaming loops depend on callbacks and on zlib's return codes.

What makes each component correct:
- **MemPool.** A block is never issued to two callers, and no block is lost: each is held, on the list, or freed at teardown.
  The list stays acyclic, so teardown terminates.
  When the pool is quiescent, the counters agree with the list.
- **Size classes.** The smallest class that holds the request serves it, and zero or oversize requests are rejected.
- **MultiPool.** A served block is at least as large as the request, and a returned block goes back to its own class.
- **Streams.** Every pooled buffer is returned exactly once, handler and zlib errors reach `error_code`, and the loops terminate.

## 2. Modules, in the order of the plan

| # | Module | Models | Status |
|---|---|---|---|
| 1 | `MemPool` | one MemPool used by `Threads` concurrently: every atomic access of both CAS loops is a step, with malloc failures, counters and teardown | done |
| 1 | `MC_MemPool` | TLC instance; symmetry on threads and nodes | done |
| 1 | `MemPool_proofs` | TLAPS: `TypeCorrect` | done |
| 2 | `SizeClass`, `MC_SizeClass` | `find_multipool_index_for_size` against a reference (`IndexMatchesReference`, checked in the `multipool` run) | done |
| 3 | `PoolStack` | abstract promise of one pool: an atomic LIFO stack of free blocks. `MemPool` implements it through `INSTANCE PoolStack WITH free <- FreeSeq, held <- [t |-> Owned(t)]` (property `ImplementsPoolStack`, checked by both passing `MemPool` runs). Each size class of `MultiPool` implements it too (`ClassesImplementPoolStack`, checked and proved) | done |
| 3 | `PoolStack_proofs` | TLAPS: `PoolStackCorrect` | done |
| 4 | `MultiPool`, `MC_MultiPool` | per-class pools with `PoolStack`'s atomic semantics (concurrency already covered by 1), `multipool_create` with per-class allocation failure, acquire by `SizeClass`, return through the back-reference, `multipool_free`, the global multipool, and `pool_alloc`'s `size_t` cast | done |
| 4 | `MultiPool_proofs` | TLAPS: `RoutingCorrect`, `MultiPoolTypeCorrect`, `MultiPoolAccounting` (no double issue, no lost block), `NoLostBlockHolds`, `FreeListsHomogeneousHolds`, `ClassesRefinePoolStack` | done |
| 4 | `SeqLemmas` | TLAPS: sequence lemmas for the free-list proofs | done |
| 5 | `GozlibStream`, `MC_GozlibStream` | `compress_stream` / `uncompress_stream_any` and their inner loops. zlib's codes and the handlers' results are nondeterministic inputs; the work buffers' `pool_alloc` results are inputs too | done |
| 5 | `GozlibStream_proofs` | TLAPS: `ErrorCodeCorrect`, `NoCallAfterFailureCorrect`, `StreamTypeCorrect`, `BuffersReleasedOnceHolds` | done |
| 6 | `ZlibCodes` | zlib's return codes and gozlib's own (`gozlib.h` 11-13) | done |
| 6 | `GozlibBuffer` | one call of `compress_buffer` or `uncompress_buffer_any`: init, one `deflate`/`inflate` with `Z_FINISH`, and the result and error mapping, checked against what `test_direct.c` asserts | done |
| 6 | `GozlibBuffer_proofs` | TLAPS: `OneShotResultsCorrect`, `BufferTypeCorrect` | done |
| 7 | `Transformer`, `MC_Transformer` | acquire, reset, release, compress and uncompress steps of transformers over the four pools, with the `go_transformer_*` glue of `gozlib_interop.h` | done |
| 7 | `Transformer_proofs` | TLAPS: `TransformerInvariant`, `TransformerTypeCorrect`, `BlocksAccountedHolds`, `FreeStreamsEndedHolds` | done |

Not proved, and why (details in section 8): the refinement of `MemPool` to `PoolStack`. Its mapping goes through the recursive `Walk`, and with two threads and two nodes ABA breaks it.

## 3. `MemPool`: state and actions

Variables and the code they stand for:

| Variable | Code |
|---|---|
| `head` | `pool->head` |
| `next[n]` | `n->next` |
| `allocated` | the nodes `alloc_poolable_mem` returned |
| `freed` | the nodes `free_poolable_mem` released |
| `destroyed` | `free_mem_pool` has run |
| `num_allocs`, `num_available` | the `TRACK_POOL_USAGE` counters, modulo `2^CounterBits` |
| `pc[t]`, `previous_head[t]`, `new_head[t]` | thread `t`'s position and the locals of its CAS loop |
| `held[t]` | the blocks thread `t`'s caller holds |

A node stands for the `MemNode` together with its data buffer.
The buffer's contents are abstracted away.

Actions and code lines:

| Action | Code |
|---|---|
| `AcqLoadHead` | `pool_mem_acquire` 211-213: call entry and loop head, an atomic load of `head` |
| `AcqAllocOk` / `AcqAllocFail` | `pool_mem_try_alloc_data` → `alloc_poolable_mem` 86-108, either malloc failing |
| `AcqLoadNext` | 216: the atomic load of `previous_head->next` |
| `AcqCAS` | 217: weak CAS; it fails either because `head` moved or spuriously |
| `AcqTrack` | 218-219: `track_pool_usage_memnode_unavailable`, then the block is returned |
| `RetBegin` | `pool_mem_return` 229-233: `get_memnode_in_data`, `node->pool` |
| `RetLoadHead`, `RetStoreNext`, `RetCAS`, `RetTrack` | 236, 237, 238, 239 |
| `FreeMemPool` | `free_mem_pool` → `pool_mem_free_all` 155-177 |
| `Finished` | the stop after teardown |

`FreeMemPool` is one step because the function is documented as not
thread-safe. Its guard `Quiescent` is the caller's precondition (spec section 5).
`Finished` keeps the stop after teardown from reading as a deadlock, so
deadlock is checked in every run.

## 4. `MultiPool`: state and actions

| Variable | Code |
|---|---|
| `global` | `_global_multipool`: `"unset"` before the ELF constructor, `"null"` if `multipool_create`'s malloc failed, `"live"`, `"freed"` after the destructor |
| `table[c]` | `multipool->pools[c] != NULL` |
| `free[c]` | class `c`'s free list, head first |
| `owner[n]` | `n->pool`, as a class |
| `allocated`, `freed` | nodes made by `alloc_poolable_mem` and released at teardown |
| `held[t]` | the blocks thread `t` holds, each with the request that got it |
| `fault` | the NULL dereference the process died of, if any |

| Action | Code |
|---|---|
| `Create` | `create_mem_pools` → `global_multipool_create` → `multipool_create` 279-291: the multipool malloc, then `alloc_mem_pool` per class, each of which may fail (`FailableClasses`) |
| `PoolAlloc` | `pool_alloc` → `global_multipool_mem_acquire((uint32_t)size)` → `multipool_mem_acquire` 329-341, with `AcquireNullPool`, `ReuseBlock`, `FreshBlock` for `pool_mem_acquire` on the chosen class. With a NULL multipool, the asserts at 364 and 330 fail. Under NDEBUG, an index past the table returns NULL first (336), and an index within it reads through NULL (338). Both outcomes are steps of the model |
| `PoolFree` | `pool_free` → `pool_mem_return` through `node->pool` |
| `FreeAll`, `ReleaseAll` | `free_mem_pools` → `global_multipool_free` → `multipool_free` 298-305 |
| `Stopped` | the process has torn the pools down, or died |

A `size_t` request is a record of its two 32-bit words, so the cast in `pool_alloc` is modelled by what it does: it keeps the low word.
The asserts are taken as compiled out (`NDEBUG`): with them, the NULL cases abort instead of dereferencing, which is the same failure to return a null result.

## 5. `GozlibStream`: state and actions

One call of `compress_stream` (both `zlib_` and `gzip_` entry points) or `uncompress_stream_any`.
zlib and the two handlers are the environment:
- The input handler returns `InputChunks` non-empty chunks, then 0.
- Each zlib call says how much of the work output buffer it filled (`"none"`, `"part"`, `"full"`).
- Its return code is restricted to what zlib documents for that outcome. Examples: `Z_STREAM_END` from `deflate(Z_FINISH)` unless the buffer filled; `Z_STREAM_ERROR` for a NULL buffer; `Z_STREAM_END` with no output once inflate is done; `Z_NEED_DICT` on every call when the header asks for a dictionary.
- `endAt` and `badAt` say where the compressed input ends (0 = truncated) and from which chunk it is invalid.
- `failure` records, independently of the code's own tests, the first failure zlib or a handler reported.

| Action | Code |
|---|---|
| `InitStream` | `deflateInit2` / `inflateInit2` and the early return |
| `AllocBuffers` | the two unchecked `pool_alloc` calls |
| `ReadInput` | `input_handler`, the `do_compress` / `while (zs.avail_in > 0)` tests |
| `CompressStep` | one iteration of `compress_to_outstream` 152-175 (deflate, output handler, `avail_out > 0`) |
| `CompressAfter` | `compress_stream` 198-204 |
| `UncompressStep` | one `uncompress_to_outstream_step` 229-255 inside `uncompress_to_outstream`'s `HAS_MORE_DATA` loop |
| `UncompressAfter` | `uncompress_stream_any` 280-292 |
| `ReleaseBuffers` | `deflateEnd`/`inflateEnd` and both `pool_free` calls |

Fairness: `WF_svars(Next)`. The call is one thread running sequential code, and every state but the returned ones enables exactly one action.
`MaxFull` bounds how many zlib calls in a row fill the output buffer. It stands for zlib's finite pending output, and is the only reason the inner loops end.

## 5a. `GozlibBuffer`: state and actions

One call of `compress_buffer` (behind `zlib_compress_buffer` and `gzip_compress_buffer`) or of `uncompress_buffer_any`.
Bytes are abstracted to lengths:
- `output_len` is the caller's capacity;
- `need` is the length of the complete compressed output;
- for decompression, `kind` says what the input is (`"valid"`, `"truncated"`, `"corrupt"` after some output, `"dict"`), `size` how much output its readable part gives, and `input_len` its length.

`DeflateResults` and `InflateResults` are every result zlib's documentation allows for that input, as code, `total_out` and `avail_in`.

| Action | Code |
|---|---|
| `CompressBuffer` | `compress_buffer` 79-113: `deflateInit2` (failure: `InitFails`), one `deflate(Z_FINISH)`, `CompressResult`, `deflateEnd` |
| `UncompressBuffer` | `uncompress_buffer_any` 115-150: `inflateInit2`, one `inflate(Z_FINISH)`, `UncompressResult`, `inflateEnd` |
| `Returned` | the stop after the call |

## 5b. `Transformer`: state and actions

A `GoZLibTransformer` is four pooled blocks: the struct itself from `_gozlib_transformer_pool`, a `z_stream` from `_z_stream_pool`, a `ZStreamState` from `_zstreamstate_pool` and a work buffer from the global multipool.
Go code on any number of goroutines acquires, resets, releases and drives them through `gozlib_interop.h`.
Each pool is a LIFO free list with `PoolStack`'s atomic semantics; its concurrency is `MemPool`'s subject.
An empty list means a fresh malloc, whose memory is uninitialised.

| Variable | Code |
|---|---|
| `free[p]` | pool `p`'s free list, head first |
| `allocated`, `owner[n]` | the blocks malloc returned, and `n->pool` |
| `zsmem[z]` | `zs->state` of `z_stream` block `z`: `"garbage"` in fresh memory, `"live"` after a successful init, `"ended"` (`Z_NULL`) after `deflateEnd`/`inflateEnd` |
| `tr[h]` | the four block pointers of the transformer handle `h` holds, or `None` |
| `fault` | the crash or undefined behaviour the process met, if any: `"null_deref"`, `"null_free"`, `"uninit_state"` |

| Action | Code |
|---|---|
| `Acquire` | `acquire_zlib_transformer` and its siblings → `acquire_transformer` 304-341: the four `pool_mem_acquire`/`pool_alloc` calls in the code's order, then `deflateInit2`/`inflateInit2` (`InitEffect`), whose failure is only reported |
| `Reset` | `reset_*_transformer` 378-384: `deflateReset`/`inflateReset` |
| `Release` | `release_*_transformer` 368-376: `deflateEnd`/`inflateEnd`, then `pool_release_transformer` 322-333 returning zs, state, work and the struct |
| `Compress`, `UncompressStep` | `go_transformer_compress` and `go_transformer_uncompress_step` of `gozlib_interop.h`, with `ZlibCallFault` for what the zlib call meets |
| `Crashed` | the stop after a fault |

zlib leaves `zs->state` untouched when `deflateInit2`/`inflateInit2` fail with `Z_STREAM_ERROR`, `Z_VERSION_ERROR` or a first `Z_MEM_ERROR`.
A recycled `z_stream` has `Z_NULL` there, so the later End is harmless; a fresh one has garbage, which `deflateStateCheck` dereferences.

## 5c. `MemPool` liveness

`FairSpec` adds to `Spec`:
- weak fairness of each thread's steps inside a call (`ThreadStep`), since a running thread is scheduled;
- strong fairness of a successful CAS (`CASSucceeds`), since a weak CAS may fail spuriously on every try, and WF alone would allow that forever.

`LockFree` says that calls keep completing, or every thread is eventually out of a call.
It is a lock-freedom property, not wait-freedom: one thread may starve while others complete.
It is checked without symmetry, as TLC requires for liveness.

## 6. Runs

| Run | Config | Bounds | Result |
|---|---|---|---|
| `mempool_sequential` | `MemPool_seq.cfg` | 1 thread, 3 nodes | pass: `TypeOK`, `NoDoubleIssue`, `NoLostBlock`, `FreeListAcyclic`, `CounterMatchesFreeList`, `ImplementsPoolStack` |
| `mempool_race_one_node` | `MemPool_race.cfg` | 3 threads, 1 node, `FairSpec` | pass: `NoDoubleIssue`, `NoLostBlock`, `CounterMatchesFreeList`, `ImplementsPoolStack`, `LockFree` |
| `mempool_aba` | `MemPool_aba.cfg` | 2 threads, 2 nodes | **violation** of `NoDoubleIssue` |
| `multipool` | `MultiPool.cfg` | 2 threads, 3 nodes, sizes 0, 512, 513, 4 MiB, 4 MiB + 1, multipool and class-1 creation may fail; 147 sizes for the class choice | pass: `MTypeOK`, `ServedBlockFits`, `ServedFromItsClass`, `FreeListsHomogeneous`, `MNoDoubleIssue`, `MNoLostBlock`, `IndexMatchesReference`, `ClassesImplementPoolStack` |
| `multipool_size_truncation` | `MultiPool_trunc.cfg` | one request of `2^32 + 512` bytes | **violation** of `ServedBlockFits` |
| `stream` | `GozlibStream.cfg` | both calls, 3 chunks, `MaxFull = 2`, init and output-handler failures, every end and invalid chunk | pass: `GTypeOK`, `BuffersReleasedOnce`, `ErrorCodeFaithful`, `NoCallAfterFailure`, `Terminates` |
| `stream_truncated_input` | `GozlibStream_trunc.cfg` | input that never reaches its end | **violation** of `TruncationReported` |
| `stream_null_work_buffer` | `GozlibStream_null.cfg` | `pool_alloc` may return NULL | **violation** of `NoNullBuffer` |
| `buffer` | `GozlibBuffer.cfg` | both calls, every length up to 3, init failures | pass: `BTypeOK`, `CompressFaithful`, `UncompressSuccessComplete`, `SmallOutputHint` |
| `buffer_invalid` | `GozlibBuffer_invalid.cfg` | decompression, lengths up to 2 | **violation** of `InvalidInputReturnsZero` |
| `transformer` | `Transformer.cfg` | 2 handles, 2 blocks per pool, init failures `Z_MEM_ERROR` and `Z_STREAM_ERROR`, malloc and `pool_alloc` may fail; symmetry on handles and on each pool's blocks | pass: `TTypeOK`, `BlocksAccounted`, `FreeStreamsEnded` |
| `transformer_uninit_state` | `Transformer_uninit.cfg` | a bad level (`Z_STREAM_ERROR`) on a fresh `z_stream` | **violation** of `NoUninitializedStateRead` |

`IndexMatchesReference` is stated over the live multipool: whenever `_global_multipool` is live, every one of the 147 request sizes is routed to the reference class.

Why the bounds are what they are:
- **One thread, three nodes.** Three nodes give a list of length three.
  That covers growth from an empty list, LIFO reuse, malloc failure with nodes both free and held, and teardown with a block still held.
- **Three threads, one node.** This covers competing pops on the same head, pushes racing pops, spurious failures and retries.
- **Two threads, two nodes.** This is the smallest instance with ABA.
  Here the code's correctness properties do not hold, which is the finding below.
  With two threads and three nodes, TLC also finds a lost block (`NoLostBlock`).
  So no passing run combines more than one thread with more than one node.
- `CounterBits = 8` stands for the code's 32-bit counters.
  TLC's integers cannot hold `2^32`, and a wrap at 256 behaves the same as one at `2^32`.
- **Request sizes.** They are every value within 2 of each power of two up to `2^30`, plus `2^31 - 1`.
  That is every class boundary and the zero wrap.
- **MultiPool.** Three nodes and two threads let a block be reused across two classes (512 and 513 bytes), returned and reissued.
  The sizes 0 and 4 MiB + 1 are rejected; 4 MiB is the last class.
  Concurrency inside one pool is left to `MemPool`.
- **Streams.** Three chunks let the stream end before, in, or after the last chunk.
  `MaxFull = 2` exercises the inner loops' repetition.
- **One-shot.** Lengths up to 3 give an output that fits, one that is one byte short, and one of zero capacity, for every input kind.
- **Transformers.** Two handles and two blocks per pool let a released block be reused by the other handle, both fresh and recycled `z_stream`s be initialised, and a release interleave with an acquire.
  The passing run reaches the faults too (NULL blocks, garbage state); its properties are stated for the states without a fault, or hold whatever the fault.

Liveness is checked for the streams (`Terminates`) and for `MemPool` (`LockFree`, section 5c).

Every property of a passing run has a mutant, a plausible slip in the code under which TLC finds the property violated.
They are listed in `PROJECT.json` and defined in the modules as `...NoNullCheck`, `...PlainStore`, `...NoRetry` and so on.

## 7. Findings

1. **ABA double issue** (`dyn_mem_pool.h:216-217`). Thread A loads `head = n1` and `n1->next = n2`.
   Thread B pops `n1` and `n2`, then pushes `n1` back.
   A's CAS still sees `head = n1`, succeeds, and installs `n2`, which B holds.
   The next pop issues `n2` a second time.
   With three nodes a block can also be lost, and a block pushed while it is on the list forms a cycle.
   A cycle would make `pool_mem_free_all` double-free.
   Spec section 9 already names the weakness; the run shows it breaks the spec's own no-double-issue property.
   Since Go calls in from many threads, two concurrent streams can end up sharing a zlib window buffer.
2. **`size_t` truncation** (`gozlib.c:43`). `pool_alloc` casts its size to `uint32_t`.
   A request of `2^32 + 512` bytes is served a 512-byte block, where spec section 8 demands failure.
3. **Truncated stream accepted** (`gozlib.c:288`). `uncompress_to_outstream_step` never returns `Z_STREAM_END`, so the end-of-stream test in `uncompress_stream_any` is dead.
   A compressed input that is cut short returns `Z_OK`.
4. **Unchecked work buffers** (`gozlib.c:187-188`, `274-275`). A work buffer capacity of 0 or above 4 MiB makes `pool_alloc` return NULL.
   That NULL reaches the input handler, and then `pool_free`.
   The transformers have the same gap (`gozlib.c:312-317`): a NULL work buffer is given to zlib and later to `pool_free`.
5. **One-shot Data error length** (`gozlib.c:143`). `uncompress_buffer_any` returns `zs.total_out` on `Z_DATA_ERROR`.
   Input corrupt after some output, such as a bad gzip trailer, returns the bytes already written.
   `test_direct.c:138` and the comment at line 142 say invalid data returns 0.
6. **Uninitialised `zs->state`** (`gozlib.c:369`). A fresh `z_stream` block is uninitialised.
   When `deflateInit2` fails with a bad level, the transformer is still returned.
   Its release then calls `deflateEnd` on a garbage state pointer, which is undefined behaviour.

Two hazards met while modelling are no longer separate runs, and are recorded as hazards in `PROJECT.json`:
- `num_available` briefly wraps below zero between a push's CAS and its increment;
- a class whose `alloc_mem_pool` failed leaves a NULL entry that the next acquire of that class dereferences.

## 8. Proofs

- `MemPool_proofs!TypeCorrect`: `Spec => []TypeOK` for every thread set, node set and counter width.
  `TypeOK` includes pointer safety: `head`, every `next` of an allocated node, and the CAS-loop locals all point to allocated nodes.
  A thread past the NULL test always has a non-NULL `previous_head`.
  This is why the unsynchronised `previous_head->next` read at line 216 never touches anything but a `MemNode`.
  The reason is that nodes are freed only at teardown.
  `TypeOK` is inductive as stated, and the proof has one step per action.
- The assumption `2 ^ CounterBits \in Nat \ {0}` is stated with the constants, because the provers cannot derive it without induction.
- `MultiPool_proofs!RoutingCorrect`: `Spec => [](ServedFromItsClass /\ FreeListsHomogeneous)`. It holds for every thread set, node set, request set and size-class configuration. `MultiPool_proofs!MultiPoolTypeCorrect` proves `Spec => []MTypeOK` from the same invariant.
  - Neither property is inductive alone. The inductive invariant is `RoutingInv == MTypeOK /\ HeldOwned /\ FreeListsHomogeneous /\ ServedFromItsClass`. TLC also checks it as an invariant of the `multipool` instance.
  - `HeldOwned` says every held block is a node malloc returned, with an owner in `Classes`. It is needed in two places:
    - `pool_mem_return` pushes a block onto `free[owner[b.node]]`, and the proof must know that this index is a class;
    - `FreshBlock` updates `owner` at a fresh node, and the proof must know that no held or free node is that node, so their owners are unchanged.
  - The guard of `multipool_mem_acquire`'s index check is written as membership in `Classes = 0 .. EntryCount-1`. For the natural number `FindIndex` returns, that is the same as `< EntryCount`. Written this way, the proof needs nothing about the recursive `BitLength`.
  - Lemmas on `Head`, `Tail` and `<<x>> \o s` (SMT) carry membership in a free list across pops and pushes.
- `GozlibStream_proofs`: three theorems that hold for every number of input chunks and every set of results of zlib, `pool_alloc` and the handlers, null work buffers included.
  - `ErrorCodeCorrect`: `Spec => []ErrorCodeFaithful`.
  - `NoCallAfterFailureCorrect`: `Spec => NoCallAfterFailure`.
  - `StreamTypeCorrect`: `Spec => []GTypeOK`.
  - The inductive invariant `SInv` relates `pc` to the recorded failure:
    - inside the loops, nothing has failed and `*error_code` is `Z_OK`;
    - just after an inner function returns, the failure is that function's code when the code is negative, and `Z_OK` otherwise;
    - from the release on, `*error_code` is the failure.
  - `BuffersSet` is also needed: from `pool_alloc` on, both buffers hold its result, so the pointers passed to `pool_free` are among its results.
  - The Boolean conjuncts of the type invariant are proved with Zenon, in steps of their own, because the SMT backend does not prove membership in `BOOLEAN`.

- `GozlibBuffer_proofs!OneShotResultsCorrect`: `BSpec => [](CompressFaithful /\ UncompressSuccessComplete /\ SmallOutputHint)` for every length bound and set of init codes.
  - The inductive invariant `IInv` adds a typing core and `Untouched` (before the call, the outputs are at their initial values).
  - Lemma `StoppedShape` says every result of `Stopped` either ends within the capacity with the given code, or is `Z_BUF_ERROR` at the capacity with input left.
  - Lemma `InflateShape` lifts this to `InflateResults`, per input kind: success only for a complete stream that fits, input left whenever a complete stream does not fit.

- `MultiPool_proofs!MultiPoolAccounting`: `Spec => [](MNoDoubleIssue /\ MNoLostBlock)` for every thread set, node set and size-class configuration. `NoLostBlockHolds` and `FreeListsHomogeneousHolds` restate its two halves and `RoutingCorrect`'s second half as theorems of their own.
  - The inductive invariant is `AccountingInv == RoutingInv /\ FreeListsInjective /\ FreedOnlyAtTeardown /\ MNoDoubleIssue /\ MNoLostBlock`. TLC checked it on the `multipool` instance before the proof.
  - `FreeListsInjective` (no free list holds a node twice) is needed for the pop: without it, the head that `multipool_mem_acquire` hands out could still be on the tail, and the block would then be both held and free.
  - `FreedOnlyAtTeardown` (nothing is released while the pool is live) lets the live-pool actions ignore `freed`.
  - One lemma per action: a reuse from a free list, a fresh block, a return, the teardown, and the steps that change nothing the invariant reads.
- `SeqLemmas`: the sequence facts the free-list proofs share. They cover the elements of `Tail(s)` and of `<<x>> \o s`, and when injectivity carries over. `TailSplit` and `ConsSplit` are proved from the indexing facts, not by a single SMT call, which fails on these set equalities.
- `Transformer_proofs`: `TransformerTypeCorrect` (`[]TTypeOK`), `BlocksAccountedHolds` (`[]BlocksAccounted`) and `FreeStreamsEndedHolds` (`[]FreeStreamsEnded`). They hold for every number of handles, every set of block addresses per pool, every set of init results, and whether or not malloc and `pool_alloc` may return NULL.
  - None of the three is inductive alone. The inductive invariant is `TInv == TTypeOK /\ Shape /\ Accounted /\ FreeStreamsEnded`. TLC checked it on the `transformer` instance before the proof.
    - `Shape` gives the types that `TTypeOK` leaves implicit.
    - `Accounted` holds while the process runs. It says:
      - every free list is injective;
      - no free block is held;
      - no two fields of live transformers share a block;
      - `allocated` is the held blocks together with the free ones.
  - `BlocksAccounted` follows from `Accounted`: every allocated block has exactly one place (`PlacesSingleton`), and a singleton has cardinality 1.
  - `FreeStreamsEnded` needs `Accounted` too. An acquire that pops a z_stream changes `zs->state` of the popped block only, and injectivity keeps that block off the remaining free list.
  - The lemmas follow the actions:
    - `AcquireTInv` splits `pool_alloc_transformer` into what the four `pool_mem_acquire` calls do to the pools (`AcquireSplit`, `AcquirePools`, summarised as `PoolsAfter`), then the NULL z_stream case (`AcquireNoStream`) and the live case (`AcquireLive`).
    - `ReleaseTInv` has one case per place where `pool_release_transformer` stops: a NULL ZStreamState, a NULL work buffer, or all four blocks given back.
    - `CallTInv` covers reset, compress and uncompress, which only decide whether the process dies.
  - While writing this proof, `Places` was found to read differently to TLC and to the prover. SANY parses `UNION {...} \cup {...}` as `(UNION {...}) \cup {...}`, tlapm as `UNION ({...} \cup {...})`. The parentheses are now explicit, with the meaning TLC always checked.

- `GozlibBuffer_proofs`: `BufferTypeCorrect` (`BSpec => []BTypeOK`) follows from `IInv`, whose typing core covers every conjunct of `BTypeOK`.
- `GozlibStream_proofs!BuffersReleasedOnceHolds`: `Spec => []BuffersReleasedOnce` under the hypothesis `NoNullAlloc` ("null" is not among `pool_alloc`'s results).
  - The hypothesis is needed: the `stream_null_work_buffer` run shows that with a NULL work buffer, the code passes NULL to zlib (finding 6). The theorem says the release is right on every path whenever the allocations succeed.
  - The inductive invariant `ReleaseInv` ties `released` and both buffers to `pc`:
    - before `pool_alloc`, nothing is set or released;
    - from `pool_alloc` up to the release, both buffers are blocks and nothing is released;
    - after the release, or after a crash, either both buffers are unset and nothing was released, or both were released, in order.
  - TLC checked `ReleaseInv` on the `stream` instance before the proof.
- `PoolStack_proofs!PoolStackCorrect`: `PSpec => []PInv` for every thread set and node set. `PInv` is the contract's own invariant: the free stack has no duplicates, no block is held by two threads or while free or freed, every allocated block is free, freed or held, and nothing is freed before teardown. It is inductive as stated. The push and the pop rest on `SeqLemmas` (`TailSplit`, `ConsSplit`).
- `MultiPool_proofs!ClassesRefinePoolStack`: `Spec => ClassesImplementPoolStack`. Every size class `c` implements `PoolStack` step by step, under this mapping:
  - `free` maps to `free[c]`;
  - `allocated` maps to the nodes malloc returned whose owner is `c`;
  - `freed` maps to the freed nodes of `c`;
  - `destroyed` maps to `global = "freed"`;
  - each thread's held set maps to the nodes of its held blocks owned by `c`.
  - Each action gets a lemma:
    - a reuse from class `c` is `c`'s `AcquireReuse`;
    - a fresh block of class `c` is `AcquireFresh`;
    - a return is `Release` of the block's owner;
    - `multipool_free` is `Destroy` for every class;
    - every step is a stutter for the classes it does not touch.
  - `multipool_create` is a stutter for every class, even though it changes `global`: it allocates nothing, and `"live"` and `"null"` both map to `destroyed = FALSE`.
  - `AccountingInv` supplies what the steps need:
    - homogeneity: a reused node belongs to the class it was popped from;
    - `HeldOwned`: a returned block's owner is a class;
    - no double issue: a fresh node is in no class's image.
  - The mutant for this property appends a returned block at the tail of its list. That breaks the LIFO order, which the set-based invariants of MultiPool do not see.

What stays with TLC only:
- Liveness (`LockFree`, `Terminates`): TLAPS has no support for `ENABLED` and fairness here.
- `IndexMatchesReference` and `ServedBlockFits`: both need what the recursive `BitLength` computes for every size.
- `MemPool`'s `NoDoubleIssue`, `NoLostBlock`, `FreeListAcyclic`, `CounterMatchesFreeList` and `ImplementsPoolStack`: they are stated through the recursive `Walk`.
- Anything about `Walk` / `FreeSet`, and the size-class function for all inputs: they are recursive functions, and induction over them is out of the provers' reach.
- The invariants that ABA breaks. They hold only in the bounded instances above, so they cannot be theorems.

## 9. Not modelled

- zlib itself. Its results are inputs of the models.
- The creation and teardown of the three single pools of `create_mem_pools` (`ZStreamState`, `z_stream`, `GoZLibTransformer`). Their use is modelled in `Transformer`; their unchecked NULL at creation is the same hazard as `multipool_create`'s.
- `zlib_custom_alloc`'s `nmembers * msize` in `unsigned int`.
- The Go side.
- The test programs. Their assertions serve as the expected behaviour.
- Memory contents (the round-trip property of spec section 8). A block is an identity, and its bytes are not modelled.
