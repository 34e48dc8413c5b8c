------------------------------ MODULE MultiPool ------------------------------
(***************************************************************************)
(* The global multipool of dyn_mem_pool.h as gozlib.c uses it: the ELF     *)
(* constructor create_mem_pools builds it with global_multipool_create /   *)
(* multipool_create, pool_alloc acquires through                          *)
(* global_multipool_mem_acquire / multipool_mem_acquire, pool_free returns *)
(* through pool_mem_return, and the destructor free_mem_pools tears it     *)
(* down with global_multipool_free / multipool_free.                       *)
(*                                                                         *)
(* Each class's MemPool is taken with the atomic semantics of PoolStack    *)
(* (its free blocks a stack); the interleavings inside one pool are the    *)
(* subject of MemPool.  This module is about which pool serves a request,  *)
(* which pool a block goes back to, and what a failed allocation during    *)
(* construction leads to.  The asserts are taken as compiled out (NDEBUG), *)
(* so a NULL pointer they would catch is dereferenced instead.             *)
(***************************************************************************)
EXTENDS SizeClass, Integers, Sequences, FiniteSets

CONSTANTS
    Threads,        \* threads calling pool_alloc / pool_free
    Nodes,          \* addresses malloc can return for MemNodes
    Requests,       \* size_t arguments of pool_alloc, as [hi, lo] 32-bit words
    CreateMayFail,  \* whether the malloc of the MultiPool itself may fail
    FailableClasses \* the classes whose alloc_mem_pool may fail

Classes == 0 .. EntryCount - 1

ASSUME MultiPoolAssumption ==
    /\ IsFiniteSet(Nodes)
    /\ Requests \subseteq [hi : Nat, lo : Nat]
    /\ CreateMayFail \in BOOLEAN
    /\ FailableClasses \subseteq Classes

NoClass == -1

VARIABLES
    global,     \* _global_multipool: "unset", "null", "live" or "freed"
    table,      \* multipool->pools[i]: TRUE when alloc_mem_pool succeeded
    free,       \* the free list of each class's pool, head first
    owner,      \* node->pool, as the class of the pool that made the node
    allocated,  \* nodes alloc_poolable_mem has created
    freed,      \* nodes free_poolable_mem has released
    held,       \* blocks each caller holds, with the request that got them
    fault       \* "none", or the NULL dereference the process died of

mvars == <<global, table, free, owner, allocated, freed, held, fault>>

Block == [node : Nodes, req : Requests]

Live == global = "live" /\ fault = "none"

\* pool_alloc's (uint32_t)size: the low word of the size_t.
AsUint32(r) == r.lo

\* A block of class c holds a request of size_t value r.
Fits(c, r) == r.hi = 0 /\ r.lo <= ClassSize(c)

Init ==
    /\ global = "unset"
    /\ table = [c \in Classes |-> FALSE]
    /\ free = [c \in Classes |-> <<>>]
    /\ owner = [n \in Nodes |-> NoClass]
    /\ allocated = {}
    /\ freed = {}
    /\ held = [t \in Threads |-> {}]
    /\ fault = "none"

\* Faulty variant for the mutation runs: multipool_create's loop stopping
\* one class short, so the last entry of the table is never written.
CreateShortLoop ==
    /\ global = "unset"
    /\ global' = "live"
    /\ table' = [c \in 0 .. EntryCount - 2 |-> TRUE]
    /\ UNCHANGED <<free, owner, allocated, freed, held, fault>>

(***************************************************************************)
(* create_mem_pools -> global_multipool_create -> multipool_create.  If    *)
(* the MultiPool malloc fails, _global_multipool is NULL; if alloc_mem_pool *)
(* fails for a class, its entry is NULL and construction goes on.          *)
(***************************************************************************)
Create ==
    /\ global = "unset"
    /\ \/ /\ CreateMayFail
          /\ global' = "null"
          /\ UNCHANGED table
       \/ /\ global' = "live"
          /\ \E failed \in SUBSET FailableClasses :
                table' = [c \in Classes |-> c \notin failed]
    /\ UNCHANGED <<free, owner, allocated, freed, held, fault>>

(***************************************************************************)
(* Faulty variants of the operations below, each a plausible slip in the   *)
(* C code; the mutation runs substitute one for its original.              *)
(***************************************************************************)
\* The pop that forgets to advance the head: the block stays free.
ReuseBlockNoPop(t, r, c) ==
    /\ table[c]
    /\ free[c] # <<>>
    /\ held' = [held EXCEPT ![t] = @ \cup {[node |-> Head(free[c]), req |-> r]}]
    /\ UNCHANGED <<global, table, free, owner, allocated, freed, fault>>

\* A fresh node whose back-reference is left at the first pool.
FreshBlockWrongPool(t, r, c) ==
    /\ table[c]
    /\ free[c] = <<>>
    /\ \E n \in Nodes \ allocated :
          /\ allocated' = allocated \cup {n}
          /\ owner' = [owner EXCEPT ![n] = 0]
          /\ held' = [held EXCEPT ![t] = @ \cup {[node |-> n, req |-> r]}]
    /\ UNCHANGED <<global, table, free, freed, fault>>

\* The return pushing onto the list of the class its size maps to, read
\* from a size the caller does not pass: the first class.
ReturnToFirstPool(t, b) ==
    /\ Live
    /\ b \in held[t]
    /\ held' = [held EXCEPT ![t] = @ \ {b}]
    /\ free' = [free EXCEPT ![0] = <<b.node>> \o @]
    /\ UNCHANGED <<global, table, owner, allocated, freed, fault>>

\* The return appending the block at the end of its pool's list instead of
\* pushing it on top: the pool is no longer most-recently-returned first.
ReturnToListTail(t, b) ==
    /\ Live
    /\ b \in held[t]
    /\ held' = [held EXCEPT ![t] = @ \ {b}]
    /\ free' = [free EXCEPT ![owner[b.node]] = Append(@, b.node)]
    /\ UNCHANGED <<global, table, owner, allocated, freed, fault>>

\* multipool_free's loop stopping one class short of MULTIPOOL_ENTRY_COUNT.
ReleaseAllSkipLast ==
    /\ global = "live"
    /\ \A c \in Classes : table[c]
    /\ freed' = {n \in Nodes : \E c \in Classes \ {EntryCount - 1} :
                                  \E i \in 1 .. Len(free[c]) : free[c][i] = n}
    /\ free' = [c \in Classes |-> <<>>]
    /\ global' = "freed"
    /\ UNCHANGED <<table, owner, allocated, held, fault>>

-----------------------------------------------------------------------------

(***************************************************************************)
(* pool_mem_acquire on the pool of class c, with the MemPool taken as      *)
(* atomic: a NULL pool is dereferenced, a non-empty list gives its head,   *)
(* an empty one a fresh node whose back-reference names this pool.  A      *)
(* malloc failure returns NULL and changes nothing.                        *)
(***************************************************************************)
AcquireNullPool(c) ==
    /\ ~table[c]
    /\ fault' = "null_pool"
    /\ UNCHANGED <<global, table, free, owner, allocated, freed, held>>

ReuseBlock(t, r, c) ==
    /\ table[c]
    /\ free[c] # <<>>
    /\ held' = [held EXCEPT ![t] = @ \cup {[node |-> Head(free[c]), req |-> r]}]
    /\ free' = [free EXCEPT ![c] = Tail(@)]
    /\ UNCHANGED <<global, table, owner, allocated, freed, fault>>

FreshBlock(t, r, c) ==
    /\ table[c]
    /\ free[c] = <<>>
    /\ \E n \in Nodes \ allocated :
          /\ allocated' = allocated \cup {n}
          /\ owner' = [owner EXCEPT ![n] = c]
          /\ held' = [held EXCEPT ![t] = @ \cup {[node |-> n, req |-> r]}]
    /\ UNCHANGED <<global, table, free, freed, fault>>

(***************************************************************************)
(* pool_alloc(size): global_multipool_mem_acquire((uint32_t)size).  A NULL *)
(* multipool fails the assert at 364 or 330, or, built with NDEBUG, is     *)
(* read at 338 for an index within the table; an index past the table (the *)
(* unsigned index is not in 0 .. MULTIPOOL_ENTRY_COUNT - 1) returns NULL   *)
(* at 336 and changes nothing, which an NDEBUG build reaches with a NULL   *)
(* multipool too; otherwise the class's pool serves the request.           *)
(***************************************************************************)
PoolAlloc(t, r) ==
    /\ fault = "none"
    /\ LET c == FindIndex(AsUint32(r)) IN
       \/ /\ global = "null"
          /\ fault' = "null_multipool"
          /\ UNCHANGED <<global, table, free, owner, allocated, freed, held>>
       \/ /\ global \in {"null", "live"}
          /\ c \notin Classes
          /\ UNCHANGED mvars
       \/ /\ global = "live"
          /\ c \in Classes
          /\ \/ AcquireNullPool(c)
             \/ ReuseBlock(t, r, c)
             \/ FreshBlock(t, r, c)

\* pool_free(data) -> pool_mem_return: the block goes back to the pool its
\* hidden back-reference names, whatever size it was requested for.
PoolFree(t, b) ==
    /\ Live
    /\ b \in held[t]
    /\ held' = [held EXCEPT ![t] = @ \ {b}]
    /\ free' = [free EXCEPT ![owner[b.node]] = <<b.node>> \o @]
    /\ UNCHANGED <<global, table, owner, allocated, freed, fault>>

(***************************************************************************)
(* free_mem_pools -> global_multipool_free -> multipool_free: each entry   *)
(* goes to free_mem_pool, which dereferences a NULL entry; otherwise every *)
(* free node of every class is released.  A NULL multipool is itself       *)
(* dereferenced.                                                           *)
(***************************************************************************)
ReleaseAll ==
    /\ global = "live"
    /\ \A c \in Classes : table[c]
    /\ freed' = {n \in Nodes : \E c \in Classes :
                                  \E i \in 1 .. Len(free[c]) : free[c][i] = n}
    /\ free' = [c \in Classes |-> <<>>]
    /\ global' = "freed"
    /\ UNCHANGED <<table, owner, allocated, held, fault>>

FreeAll ==
    /\ fault = "none"
    /\ \/ /\ global = "null"
          /\ fault' = "null_multipool"
          /\ UNCHANGED <<global, table, free, owner, allocated, freed, held>>
       \/ /\ global = "live"
          /\ \E c \in Classes : ~table[c]
          /\ fault' = "null_pool"
          /\ UNCHANGED <<global, table, free, owner, allocated, freed, held>>
       \/ ReleaseAll

\* The process has finished with the pools, or died.
Stopped ==
    /\ global = "freed" \/ fault # "none"
    /\ UNCHANGED mvars

Next ==
    \/ Create
    \/ \E t \in Threads :
          \/ \E r \in Requests : PoolAlloc(t, r)
          \/ \E b \in Block : PoolFree(t, b)
    \/ FreeAll
    \/ Stopped

Spec == Init /\ [][Next]_mvars

-----------------------------------------------------------------------------

HeldNodes == {b.node : b \in UNION {held[t] : t \in Threads}}

FreeNodes(c) == {free[c][i] : i \in 1 .. Len(free[c])}

MTypeOK ==
    /\ global \in {"unset", "null", "live", "freed"}
    /\ table \in [Classes -> BOOLEAN]
    /\ free \in [Classes -> Seq(allocated)]
    /\ owner \in [Nodes -> Classes \cup {NoClass}]
    /\ allocated \subseteq Nodes
    /\ freed \subseteq allocated
    /\ held \in [Threads -> SUBSET Block]
    /\ fault \in {"none", "null_multipool", "null_pool"}

\* pool_alloc never hands out a block smaller than the size it was asked
\* for (spec section 8: out-of-range requests fail, never a truncated or
\* wrong-size buffer).
ServedBlockFits ==
    \A t \in Threads : \A b \in held[t] : Fits(owner[b.node], b.req)

\* Every block a caller holds belongs to the class
\* find_multipool_index_for_size picks for its request, even after it has
\* been returned and reissued: pool_mem_return puts it back in its own pool.
ServedFromItsClass ==
    \A t \in Threads : \A b \in held[t] :
        owner[b.node] = FindIndex(AsUint32(b.req))

\* The free list of a class holds only blocks that class made.
FreeListsHomogeneous ==
    \A c \in Classes : \A n \in FreeNodes(c) : owner[n] = c

\* No block is issued twice, and every block is held, free in its pool, or
\* released by the destructor.
MNoDoubleIssue ==
    /\ \A t, u \in Threads : \A b \in held[t], d \in held[u] :
          b.node = d.node => t = u /\ b = d
    /\ \A c, d \in Classes : c # d => FreeNodes(c) \cap FreeNodes(d) = {}
    /\ \A c \in Classes : FreeNodes(c) \cap HeldNodes = {}

MNoLostBlock ==
    allocated = HeldNodes \cup freed \cup UNION {FreeNodes(c) : c \in Classes}


-----------------------------------------------------------------------------

(***************************************************************************)
(* Refinement: each class's pool, as pool_alloc, pool_free and the         *)
(* destructor use it, implements PoolStack.  The abstract pool of class c  *)
(* has the nodes whose back-reference names c, its free list, the blocks   *)
(* callers hold from it (the requests forgotten), and is destroyed when    *)
(* the multipool is.  A step on another class is a stutter of this one.    *)
(***************************************************************************)
ClassNodes(c) == {n \in allocated : owner[n] = c}

ClassPool(c) == INSTANCE PoolStack WITH
    free <- free[c],
    allocated <- ClassNodes(c),
    freed <- freed \cap ClassNodes(c),
    destroyed <- global = "freed",
    held <- [t \in Threads |-> {b.node : b \in held[t]} \cap ClassNodes(c)]

\* Every class of the multipool behaves as the atomic LIFO pool: a block
\* comes back to the pool that made it and to no other, is reissued from
\* that pool's top, and teardown releases exactly that pool's free blocks.
\* (\A c : ClassPool(c)!PSpec, with the box taken outside the quantifier.)
ClassesImplementPoolStack ==
    /\ \A c \in Classes : ClassPool(c)!PInit
    /\ [][\A c \in Classes : [ClassPool(c)!PNext]_(ClassPool(c)!pvars)]_mvars

=============================================================================
