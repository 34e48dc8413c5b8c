------------------------------ MODULE PoolStack ------------------------------
(***************************************************************************)
(* What one MemPool of dyn_mem_pool.h promises its callers, with every     *)
(* call atomic: the free blocks form a stack whose top is handed out by    *)
(* pool_mem_acquire and onto which pool_mem_return pushes; an acquire that *)
(* finds no free block allocates a fresh one; free_mem_pool releases every *)
(* free block.  MemPool is shown to implement this specification.          *)
(***************************************************************************)
EXTENDS Sequences, Functions

CONSTANTS Threads, Nodes

VARIABLES
    free,       \* the free blocks, most recently returned first
    allocated,  \* every block the pool has created
    freed,      \* the blocks teardown released
    destroyed,  \* the pool has been torn down
    held        \* the blocks each thread holds

pvars == <<free, allocated, freed, destroyed, held>>

PInit ==
    /\ free = <<>>
    /\ allocated = {}
    /\ freed = {}
    /\ destroyed = FALSE
    /\ held = [t \in Threads |-> {}]

\* pool_mem_acquire served from the free list: the top block.
AcquireReuse(t) ==
    /\ ~destroyed
    /\ free # <<>>
    /\ held' = [held EXCEPT ![t] = @ \cup {Head(free)}]
    /\ free' = Tail(free)
    /\ UNCHANGED <<allocated, freed, destroyed>>

\* pool_mem_acquire allocating a fresh block.  Under concurrency the list
\* may have been refilled since the acquire saw it empty, so growth is not
\* conditional on the list being empty now.
AcquireFresh(t) ==
    /\ ~destroyed
    /\ \E n \in Nodes \ allocated :
          /\ allocated' = allocated \cup {n}
          /\ held' = [held EXCEPT ![t] = @ \cup {n}]
    /\ UNCHANGED <<free, freed, destroyed>>

\* pool_mem_return: the block becomes the top of the stack.
Release(t, n) ==
    /\ ~destroyed
    /\ n \in held[t]
    /\ free' = <<n>> \o free
    /\ held' = [held EXCEPT ![t] = @ \ {n}]
    /\ UNCHANGED <<allocated, freed, destroyed>>

\* free_mem_pool: every free block is released.
Destroy ==
    /\ ~destroyed
    /\ freed' = Range(free)
    /\ free' = <<>>
    /\ destroyed' = TRUE
    /\ UNCHANGED <<allocated, held>>

PNext ==
    \/ \E t \in Threads :
          \/ AcquireReuse(t)
          \/ AcquireFresh(t)
          \/ \E n \in Nodes : Release(t, n)
    \/ Destroy

PSpec == PInit /\ [][PNext]_pvars

-----------------------------------------------------------------------------

PTypeOK ==
    /\ free \in Seq(allocated)
    /\ allocated \subseteq Nodes
    /\ freed \subseteq allocated
    /\ destroyed \in BOOLEAN
    /\ held \in [Threads -> SUBSET allocated]

\* The stack never holds a block twice.
FreeDistinct ==
    \A i, j \in 1 .. Len(free) : i # j => free[i] # free[j]

\* A block is held by at most one thread, and a held block is neither free
\* nor freed.
PNoDoubleIssue ==
    /\ \A t, u \in Threads : t # u => held[t] \cap held[u] = {}
    /\ \A t \in Threads : held[t] \cap (Range(free) \cup freed) = {}

\* Every block the pool created is held, free, or freed by teardown.
PNoLostBlock ==
    allocated = Range(free) \cup freed \cup UNION {held[t] : t \in Threads}

\* Before teardown nothing is freed; after it nothing is free.
PTeardown ==
    IF destroyed THEN free = <<>> ELSE freed = {}

PInv == PTypeOK /\ FreeDistinct /\ PNoDoubleIssue /\ PNoLostBlock /\ PTeardown

=============================================================================
