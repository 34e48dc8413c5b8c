----------------------------- MODULE Transformer -----------------------------
(***************************************************************************)
(* The transformers of gozlib.c: a GoZLibTransformer is four pooled       *)
(* blocks (the struct itself from _gozlib_transformer_pool, a z_stream     *)
(* from _z_stream_pool, a ZStreamState from _zstreamstate_pool and a work  *)
(* buffer from the global multipool) and a deflate or inflate stream       *)
(* initialised in the z_stream.  Go code on any number of goroutines       *)
(* acquires, resets and releases them.                                     *)
(*                                                                         *)
(* Each pool is a LIFO free list with MemPool's atomic-stack semantics     *)
(* (PoolStack); an empty list means a fresh malloc, whose memory is        *)
(* uninitialised.  zlib is the environment: what the init call returns,    *)
(* and what each call does to the z_stream's internal state pointer        *)
(* (zs->state): uninitialised in fresh memory, live after a successful     *)
(* init, Z_NULL after deflateEnd / inflateEnd.  The work buffer's size     *)
(* class is abstracted to whether pool_alloc can serve it.                 *)
(***************************************************************************)
EXTENDS ZlibCodes, Integers, Sequences, FiniteSets

CONSTANTS
    Handles,        \* the transformers Go code holds at once
    TransformerNodes, \* addresses malloc can return for each pool's blocks
    ZStreamNodes,
    StateNodes,
    WorkNodes,
    NULL,           \* the null pointer
    InitCodes,      \* what deflateInit2 / inflateInit2 may return
    MallocMayFail,  \* whether a fresh pool block may fail to be allocated
    WorkMayBeNull   \* whether pool_alloc(work_buffer_cap) may return NULL

\* The addresses of each pool's blocks.
PoolNodes == [transformer |-> TransformerNodes, zstream |-> ZStreamNodes,
              state |-> StateNodes, work |-> WorkNodes]

Nodes == TransformerNodes \cup ZStreamNodes \cup StateNodes \cup WorkNodes

ASSUME TransformerAssumption ==
    /\ NULL \notin Nodes
    /\ IsFiniteSet(Nodes) /\ IsFiniteSet(Handles)
    /\ \A p, q \in DOMAIN PoolNodes :
          /\ Cardinality(PoolNodes[p]) >= Cardinality(Handles)
          /\ p # q => PoolNodes[p] \cap PoolNodes[q] = {}
    /\ Z_OK \in InitCodes
    /\ InitCodes \subseteq {Z_OK, Z_MEM_ERROR, Z_STREAM_ERROR, Z_VERSION_ERROR}
    /\ MallocMayFail \in BOOLEAN /\ WorkMayBeNull \in BOOLEAN

\* The four pools; "work" is the multipool class of work_buffer_cap.
Pools == {"transformer", "zstream", "state", "work"}

\* What a z_stream block's state pointer is.
ZsStates == {"garbage", "live", "ended"}

None == [self |-> NULL]

VARIABLES
    free,       \* the free list of each pool
    allocated,  \* the blocks malloc has returned
    owner,      \* node->pool: the pool each block belongs to
    zsmem,      \* zs->state of every z_stream block
    tr,         \* the transformer each handle holds, or None
    fault       \* how the process died, or "none"

tvars == <<free, allocated, owner, zsmem, tr, fault>>

Init ==
    /\ free = [p \in Pools |-> <<>>]
    /\ allocated = {}
    /\ owner = [n \in Nodes |-> "none"]
    /\ zsmem = [n \in Nodes |-> "garbage"]
    /\ tr = [h \in Handles |-> None]
    /\ fault = "none"

(***************************************************************************)
(* pool_mem_acquire: the head of the free list, or a fresh block, or NULL  *)
(* when that malloc fails.                                                 *)
(***************************************************************************)
Fresh(p) ==
    (PoolNodes[p] \ allocated)
      \cup (IF MallocMayFail THEN {NULL} ELSE {})

Avail(p) ==
    IF free[p] # <<>> THEN {Head(free[p])} ELSE Fresh(p)

\* The free list after the acquire that returned n.
AfterPop(p, n) ==
    IF n # NULL /\ free[p] # <<>> THEN Tail(free[p]) ELSE free[p]

\* pool_alloc(work_buffer_cap): NULL also when the size has no class.
AvailWork(p) ==
    Avail(p) \cup (IF WorkMayBeNull THEN {NULL} ELSE {})

\* What deflateInit2 / inflateInit2 leaves in zs->state: a failure before
\* the state is allocated leaves it as it was; a later allocation failure
\* ends the half-built state (Z_NULL).
InitEffect(code, st) ==
    IF code = Z_OK THEN {"live"}
    ELSE IF code = Z_MEM_ERROR THEN {st, "ended"}
    ELSE {st}

\* deflateEnd / inflateEnd (and deflateReset / inflateReset) read
\* zs->state; on an uninitialised pointer that is undefined behaviour.
ReadsGarbage(z) == zsmem[z] = "garbage"

(***************************************************************************)
(* pool_alloc_transformer takes its four blocks in this order: the struct, *)
(* the work buffer (pool_alloc), the ZStreamState and the z_stream.        *)
(***************************************************************************)
\* A faulty variant: the z_stream taken from the ZStreamState pool.
FieldPoolsZsFromState == <<"transformer", "work", "state", "state">>

FieldPools == <<"transformer", "work", "state", "zstream">>

\* pool_mem_return: push the block onto the pool its back-reference names.
ReturnTo(fl, n) == [fl EXCEPT ![owner[n]] = <<n>> \o @]

\* A faulty variant of the next operator: pool_release_zstream_state is
\* never called, so the ZStreamState block is never given back.
PoolReleaseTransformerKeepState(t) ==
    LET f1 == ReturnTo(free, t.zs)
    IN  IF t.work = NULL THEN [free |-> f1, fault |-> "null_free"]
        ELSE [free |-> ReturnTo(ReturnTo(f1, t.work), t.self), fault |-> "none"]

\* pool_release_transformer: the z_stream, the ZStreamState, the work
\* buffer and the struct, in that order; pool_mem_return asserts its
\* argument is not NULL, so a NULL ZStreamState or work buffer kills the
\* process there, after the blocks before it were given back.
PoolReleaseTransformer(t) ==
    LET f1 == ReturnTo(free, t.zs)
    IN  IF t.state = NULL THEN [free |-> f1, fault |-> "null_free"]
        ELSE LET f2 == ReturnTo(f1, t.state)
             IN  IF t.work = NULL THEN [free |-> f2, fault |-> "null_free"]
                 ELSE [free |-> ReturnTo(ReturnTo(f2, t.work), t.self),
                       fault |-> "none"]

\* A faulty variant of the next operator: the deflateEnd / inflateEnd call
\* left out.
EndStreamSkipped(z) == zsmem

\* deflateEnd / inflateEnd: the zlib state is freed and zs->state set to
\* Z_NULL (a second end finds Z_NULL and returns Z_STREAM_ERROR).
EndStream(z) == [zsmem EXCEPT ![z] = "ended"]

-----------------------------------------------------------------------------

(***************************************************************************)
(* acquire_gzip_compression_transformer, acquire_zlib_compression_        *)
(* transformer and acquire_uncompression_transformer: pool_alloc_         *)
(* transformer, then the init call, whose failure is only reported in     *)
(* *error_code: the transformer is returned either way.  None of the four *)
(* allocations is checked: a NULL struct is written through at once (line *)
(* 313), a NULL z_stream in init_default_zstream (line 317); a NULL        *)
(* ZStreamState or work buffer is stored.                                  *)
(***************************************************************************)
Acquire(h) ==
    /\ tr[h] = None
    /\ fault = "none"
    /\ \E self \in Avail(FieldPools[1]) :
       IF self = NULL
       THEN /\ fault' = "null_deref"
            /\ UNCHANGED <<free, allocated, owner, zsmem, tr>>
       ELSE
       \E w \in AvailWork(FieldPools[2]), st \in Avail(FieldPools[3]),
          z \in Avail(FieldPools[4]), code \in InitCodes :
          LET picks == <<self, w, st, z>>
              isFresh(i) == picks[i] # NULL /\ picks[i] \notin allocated
          IN
          /\ \A i, j \in 1 .. 4 : i # j /\ picks[i] # NULL => picks[i] # picks[j]
          /\ free' = [p \in Pools |->
                        IF free[p] # <<>> /\ \E i \in 1 .. 4 :
                                               FieldPools[i] = p /\ picks[i] # NULL
                        THEN Tail(free[p]) ELSE free[p]]
          /\ allocated' = allocated \cup ({self, w, st, z} \ {NULL})
          /\ owner' = [n \in Nodes |->
                         IF \E i \in 1 .. 4 : isFresh(i) /\ picks[i] = n
                         THEN FieldPools[CHOOSE i \in 1 .. 4 : picks[i] = n]
                         ELSE owner[n]]
          /\ IF z = NULL
             THEN /\ fault' = "null_deref"
                  /\ UNCHANGED <<zsmem, tr>>
             ELSE /\ zsmem' \in {[zsmem EXCEPT ![z] = s] :
                                   s \in InitEffect(code, IF z \in allocated
                                                          THEN zsmem[z]
                                                          ELSE "garbage")}
                  /\ tr' = [tr EXCEPT ![h] = [self |-> self, zs |-> z,
                                              state |-> st, work |-> w]]
                  /\ UNCHANGED fault

\* reset_compression_transformer / reset_uncompression_transformer:
\* deflateReset / inflateReset, which read zs->state.
Reset(h) ==
    /\ tr[h] # None
    /\ fault = "none"
    /\ IF ReadsGarbage(tr[h].zs) THEN fault' = "uninit_state"
       ELSE UNCHANGED fault
    /\ UNCHANGED <<free, allocated, owner, zsmem, tr>>

\* release_compression_transformer / release_uncompression_transformer:
\* deflateEnd / inflateEnd, then pool_release_transformer.
Release(h) ==
    /\ tr[h] # None
    /\ fault = "none"
    /\ IF ReadsGarbage(tr[h].zs)
       THEN /\ fault' = "uninit_state"
            /\ UNCHANGED <<free, zsmem, tr>>
       ELSE LET r == PoolReleaseTransformer(tr[h])
            IN  /\ zsmem' = EndStream(tr[h].zs)
                /\ free' = r.free
                /\ fault' = r.fault
                /\ tr' = IF r.fault = "none" THEN [tr EXCEPT ![h] = None] ELSE tr
    /\ UNCHANGED <<allocated, owner>>

(***************************************************************************)
(* The calls Go makes on a held transformer (gozlib_interop.h).  deflate / *)
(* inflate read zs->state first: a Z_NULL state gives Z_STREAM_ERROR, and  *)
(* so does a NULL work buffer (deflate's output, inflate's input through   *)
(* go_assign_uncompress_input).  Otherwise, when the call produced output, *)
(* go_stream_data_output_handler reads state->data_handler.  Whether a     *)
(* call produces output is zlib's choice (Z_NO_FLUSH may buffer).          *)
(***************************************************************************)
ZlibCallFault(t, wrote) ==
    CASE ReadsGarbage(t.zs)                       -> "uninit_state"
      [] zsmem[t.zs] = "ended" \/ t.work = NULL   -> "none"
      [] wrote /\ t.state = NULL                  -> "null_deref"
      [] OTHER                                    -> "none"

\* go_transformer_compress_to_outstream: compress_to_outstream into the
\* work buffer.
Compress(h) ==
    /\ tr[h] # None
    /\ fault = "none"
    /\ \E wrote \in BOOLEAN : fault' = ZlibCallFault(tr[h], wrote)
    /\ UNCHANGED <<free, allocated, owner, zsmem, tr>>

\* go_uncompress_to_outstream_step: uncompress_to_outstream_step from the
\* work buffer into Go's output buffer.
UncompressStep(h) ==
    /\ tr[h] # None
    /\ fault = "none"
    /\ \E wrote \in BOOLEAN : fault' = ZlibCallFault(tr[h], wrote)
    /\ UNCHANGED <<free, allocated, owner, zsmem, tr>>

\* The process has died.
Crashed ==
    /\ fault # "none"
    /\ UNCHANGED tvars

Next ==
    \/ \E h \in Handles : \/ Acquire(h) \/ Reset(h) \/ Release(h)
                         \/ Compress(h) \/ UncompressStep(h)
    \/ Crashed

TSpec == Init /\ [][Next]_tvars

-----------------------------------------------------------------------------

\* The blocks of a pool.
PoolBlocks(p) == {n \in allocated : owner[n] = p}

Held == {h \in Handles : tr[h] # None}

\* Every handle's blocks come from the pools their fields name, and every
\* free list holds blocks of its own pool.
TTypeOK ==
    /\ \A p \in Pools : free[p] \in Seq(PoolBlocks(p))
    /\ \A h \in Held :
          /\ tr[h].self \in PoolBlocks("transformer")
          /\ tr[h].zs \in PoolBlocks("zstream")
          /\ tr[h].state \in PoolBlocks("state") \cup {NULL}
          /\ tr[h].work \in PoolBlocks("work") \cup {NULL}
    /\ zsmem \in [Nodes -> ZsStates]
    /\ fault \in {"none", "null_deref", "null_free", "uninit_state"}

\* Where a block is: a position in a free list or a field of a handle.
Places(n) ==
    (UNION {{<<p, i>> : i \in {j \in 1 .. Len(free[p]) : free[p][j] = n}} : p \in Pools})
    \cup {hf \in Held \X {"self", "zs", "state", "work"} : tr[hf[1]][hf[2]] = n}

\* While the process runs, every block malloc returned is in exactly one
\* place: in one free list once, or in one field of one live transformer.
\* No block is shared by two transformers, none is leaked by a release.
BlocksAccounted ==
    fault = "none" => \A n \in allocated : Cardinality(Places(n)) = 1

\* Every z_stream waiting in its pool has had its zlib state ended, so no
\* acquire reuses a block whose deflate / inflate state is still allocated.
FreeStreamsEnded ==
    \A i \in 1 .. Len(free["zstream"]) : zsmem[free["zstream"][i]] = "ended"

\* release_*_transformer and reset_*_transformer never read an
\* uninitialised zs->state.
NoUninitializedStateRead == fault # "uninit_state"

=============================================================================
