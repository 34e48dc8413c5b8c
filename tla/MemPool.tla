------------------------------- MODULE MemPool -------------------------------
(***************************************************************************)
(* One fixed-size memory pool of dyn_mem_pool.h (struct MemPool): an       *)
(* intrusive singly linked free list of MemNodes whose head is updated     *)
(* with a weak compare-and-swap (a Treiber stack), used concurrently by a  *)
(* set of threads that acquire blocks (pool_mem_acquire), return them      *)
(* (pool_mem_return) and, once quiescent, tear the pool down               *)
(* (free_mem_pool / pool_mem_free_all).                                    *)
(*                                                                         *)
(* Every atomic memory access of the two CAS loops is its own step, so the *)
(* model contains every interleaving the hardware can produce, including   *)
(* the one in which a node is popped and pushed back between another      *)
(* thread's load of head->next and its compare-and-swap (ABA).             *)
(*                                                                         *)
(* Data is abstracted away: a node stands for the MemNode and the data     *)
(* buffer whose hidden prefix points back at it (get_memnode_in_data).     *)
(* The TRACK_POOL_USAGE counters are modelled as unsigned integers of      *)
(* CounterBits bits.                                                       *)
(***************************************************************************)
EXTENDS Naturals, FiniteSets

CONSTANTS
    Threads,      \* the threads calling into the pool
    Nodes,        \* the addresses malloc can hand out for MemNodes
    NULL,         \* the null pointer
    CounterBits   \* width of num_allocs / num_available (32 in the code)

\* (The last conjunct is arithmetic the provers cannot derive without
\* induction on CounterBits; TLC evaluates it.)
ASSUME ConstantsAssumption ==
    /\ NULL \notin Nodes
    /\ IsFiniteSet(Nodes)
    /\ CounterBits \in Nat \ {0}
    /\ 2 ^ CounterBits \in Nat \ {0}

VARIABLES
    head,           \* pool->head
    next,           \* node->next, for every node address
    allocated,      \* nodes alloc_poolable_mem has created so far
    freed,          \* nodes free_poolable_mem has released
    destroyed,      \* free_mem_pool has run
    num_allocs,     \* pool->num_allocs
    num_available,  \* pool->num_available
    pc,             \* where each thread is in its current call
    previous_head,  \* the local previous_head of either CAS loop
    new_head,       \* the local new_head of either CAS loop
    held            \* the data blocks each thread's caller holds

vars == <<head, next, allocated, freed, destroyed, num_allocs, num_available,
          pc, previous_head, new_head, held>>

CounterModulus == 2 ^ CounterBits

MaxNodes == Cardinality(Nodes)

Ptr == Nodes \cup {NULL}

PC == {"idle",
       "acq_load", "acq_alloc", "acq_next", "acq_cas", "acq_track",
       "ret_load", "ret_store", "ret_cas", "ret_track"}

(***************************************************************************)
(* The free list as the code walks it: Walk[k] is the node reached from    *)
(* head after following k next links.                                      *)
(***************************************************************************)
Walk[k \in 0 .. MaxNodes] ==
    IF k = 0 THEN head
    ELSE IF Walk[k - 1] = NULL THEN NULL ELSE next[Walk[k - 1]]

FreeSet == {n \in Nodes : \E k \in 0 .. MaxNodes : Walk[k] = n}

\* The number of nodes on the free list (its length when it is acyclic).
FreeLen == Cardinality(FreeSet)

\* The blocks that belong to thread t: held by its caller, popped by its
\* CAS and about to be returned, or being pushed back and not yet published.
Owned(t) ==
    held[t]
    \cup (IF pc[t] = "acq_track" THEN {previous_head[t]} ELSE {})
    \cup (IF pc[t] \in {"ret_load", "ret_store", "ret_cas"}
            THEN {new_head[t]} ELSE {})

\* The blocks the pool is responsible for: its free list, and after
\* teardown the blocks pool_mem_free_all released.
Pooled == IF destroyed THEN freed ELSE FreeSet

Quiescent == \A t \in Threads : pc[t] = "idle"

-----------------------------------------------------------------------------

Init ==
    /\ head = NULL
    /\ next = [n \in Nodes |-> NULL]
    /\ allocated = {}
    /\ freed = {}
    /\ destroyed = FALSE
    /\ num_allocs = 0
    /\ num_available = 0
    /\ pc = [t \in Threads |-> "idle"]
    /\ previous_head = [t \in Threads |-> NULL]
    /\ new_head = [t \in Threads |-> NULL]
    /\ held = [t \in Threads |-> {}]

(***************************************************************************)
(* Faulty variants of the operations below, each a plausible slip in the   *)
(* C code; the mutation runs substitute one for its original and expect a  *)
(* property to fail.                                                       *)
(***************************************************************************)
\* The NULL test of line 212 dropped: the pop path runs on an empty list.
AcqLoadHeadNoNullCheck(t) ==
    /\ ~destroyed
    /\ pc[t] \in {"idle", "acq_load"}
    /\ previous_head' = [previous_head EXCEPT ![t] = head]
    /\ pc' = [pc EXCEPT ![t] = "acq_next"]
    /\ UNCHANGED <<head, next, allocated, freed, destroyed, num_allocs,
                   num_available, new_head, held>>

\* pool_mem_acquire waiting for a block to be returned instead of
\* allocating one when the free list is empty.
AcqLoadHeadSpinWhenEmpty(t) ==
    /\ ~destroyed
    /\ pc[t] \in {"idle", "acq_load"}
    /\ previous_head' = [previous_head EXCEPT ![t] = head]
    /\ pc' = [pc EXCEPT ![t] = IF head = NULL THEN "acq_load" ELSE "acq_next"]
    /\ UNCHANGED <<head, next, allocated, freed, destroyed, num_allocs,
                   num_available, new_head, held>>

\* free(node) dropped when the data malloc fails: the node leaks.
AcqAllocFailLeak(t) ==
    /\ pc[t] = "acq_alloc"
    /\ \/ allocated' = allocated
       \/ \E n \in Nodes \ allocated : allocated' = allocated \cup {n}
    /\ pc' = [pc EXCEPT ![t] = "idle"]
    /\ UNCHANGED <<head, next, freed, destroyed, num_allocs,
                   num_available, previous_head, new_head, held>>

\* The CAS given previous_head as the desired value: head is not advanced.
AcqCASKeepHead(t) ==
    /\ pc[t] = "acq_cas"
    /\ \/ /\ head = previous_head[t]
          /\ pc' = [pc EXCEPT ![t] = "acq_track"]
       \/ pc' = [pc EXCEPT ![t] = "acq_load"]
    /\ UNCHANGED <<head, next, allocated, freed, destroyed, num_allocs,
                   num_available, previous_head, new_head, held>>

\* The CAS replaced by a plain store of new_head.
AcqCASPlainStore(t) ==
    /\ pc[t] = "acq_cas"
    /\ head' = new_head[t]
    /\ pc' = [pc EXCEPT ![t] = "acq_track"]
    /\ UNCHANGED <<next, allocated, freed, destroyed, num_allocs,
                   num_available, previous_head, new_head, held>>

\* The pop path calling track_pool_usage_returned instead.
AcqTrackWrongCounter(t) ==
    /\ pc[t] = "acq_track"
    /\ num_available' = (num_available + 1) % CounterModulus
    /\ held' = [held EXCEPT ![t] = @ \cup {previous_head[t]}]
    /\ pc' = [pc EXCEPT ![t] = "idle"]
    /\ UNCHANGED <<head, next, allocated, freed, destroyed, num_allocs,
                   previous_head, new_head>>

\* The push without its retry loop: a failed CAS returns and drops the node.
RetCASNoRetry(t) ==
    /\ pc[t] = "ret_cas"
    /\ \/ /\ head = previous_head[t]
          /\ head' = new_head[t]
          /\ pc' = [pc EXCEPT ![t] = "ret_track"]
       \/ /\ pc' = [pc EXCEPT ![t] = "idle"]
          /\ UNCHANGED head
    /\ UNCHANGED <<next, allocated, freed, destroyed, num_allocs,
                   num_available, previous_head, new_head, held>>

\* pool_mem_free_all starting its walk at head->next: the head leaks.
FreeMemPoolSkipHead ==
    /\ ~destroyed
    /\ Quiescent
    /\ freed' = FreeSet \ {head}
    /\ head' = NULL
    /\ num_available' = (num_available - FreeLen) % CounterModulus
    /\ destroyed' = TRUE
    /\ UNCHANGED <<next, allocated, num_allocs, pc, previous_head, new_head,
                   held>>

\* pool_mem_free_all without track_pool_usage_memnode_unavailable.
FreeMemPoolNoTrack ==
    /\ ~destroyed
    /\ Quiescent
    /\ freed' = FreeSet
    /\ head' = NULL
    /\ destroyed' = TRUE
    /\ UNCHANGED <<next, allocated, num_allocs, num_available, pc,
                   previous_head, new_head, held>>

(***************************************************************************)
(* pool_mem_acquire.  Entry and every retry start at the atomic load of    *)
(* pool->head; a NULL head sends the thread to the allocation path.        *)
(***************************************************************************)
AcqLoadHead(t) ==
    /\ ~destroyed
    /\ pc[t] \in {"idle", "acq_load"}
    /\ previous_head' = [previous_head EXCEPT ![t] = head]
    /\ pc' = [pc EXCEPT ![t] = IF head = NULL THEN "acq_alloc" ELSE "acq_next"]
    /\ UNCHANGED <<head, next, allocated, freed, destroyed, num_allocs,
                   num_available, new_head, held>>

\* pool_mem_try_alloc_data / alloc_poolable_mem succeeding: a fresh node
\* with next = NULL, counted by track_pool_usage_allocs and handed to the
\* caller without touching the free list.
AcqAllocOk(t) ==
    /\ pc[t] = "acq_alloc"
    /\ \E n \in Nodes \ allocated :
          /\ allocated' = allocated \cup {n}
          /\ next' = [next EXCEPT ![n] = NULL]
          /\ held' = [held EXCEPT ![t] = @ \cup {n}]
    /\ num_allocs' = (num_allocs + 1) % CounterModulus
    /\ pc' = [pc EXCEPT ![t] = "idle"]
    /\ UNCHANGED <<head, freed, destroyed, num_available, previous_head,
                   new_head>>

\* Either malloc of alloc_poolable_mem failing: the node is freed again if
\* only the data malloc failed, and the caller receives NULL.
AcqAllocFail(t) ==
    /\ pc[t] = "acq_alloc"
    /\ pc' = [pc EXCEPT ![t] = "idle"]
    /\ UNCHANGED <<head, next, allocated, freed, destroyed, num_allocs,
                   num_available, previous_head, new_head, held>>

\* new_head = previous_head->next, an atomic load of a node another thread
\* may have popped meanwhile.
AcqLoadNext(t) ==
    /\ pc[t] = "acq_next"
    /\ new_head' = [new_head EXCEPT ![t] = next[previous_head[t]]]
    /\ pc' = [pc EXCEPT ![t] = "acq_cas"]
    /\ UNCHANGED <<head, next, allocated, freed, destroyed, num_allocs,
                   num_available, previous_head, held>>

\* The weak compare-and-swap of head from previous_head to new_head; being
\* weak it may fail even when head still equals previous_head.
AcqCAS(t) ==
    /\ pc[t] = "acq_cas"
    /\ \/ /\ head = previous_head[t]
          /\ head' = new_head[t]
          /\ pc' = [pc EXCEPT ![t] = "acq_track"]
       \/ /\ pc' = [pc EXCEPT ![t] = "acq_load"]
          /\ UNCHANGED head
    /\ UNCHANGED <<next, allocated, freed, destroyed, num_allocs,
                   num_available, previous_head, new_head, held>>

\* track_pool_usage_memnode_unavailable, then previous_head->data is
\* returned to the caller.
AcqTrack(t) ==
    /\ pc[t] = "acq_track"
    /\ num_available' = (num_available - 1) % CounterModulus
    /\ held' = [held EXCEPT ![t] = @ \cup {previous_head[t]}]
    /\ pc' = [pc EXCEPT ![t] = "idle"]
    /\ UNCHANGED <<head, next, allocated, freed, destroyed, num_allocs,
                   previous_head, new_head>>

(***************************************************************************)
(* pool_mem_return(data): the node is found through the hidden prefix and *)
(* its pool through node->pool; then the push loop runs.                   *)
(***************************************************************************)
RetBegin(t, n) ==
    /\ ~destroyed
    /\ pc[t] = "idle"
    /\ n \in held[t]
    /\ held' = [held EXCEPT ![t] = @ \ {n}]
    /\ new_head' = [new_head EXCEPT ![t] = n]
    /\ pc' = [pc EXCEPT ![t] = "ret_load"]
    /\ UNCHANGED <<head, next, allocated, freed, destroyed, num_allocs,
                   num_available, previous_head>>

RetLoadHead(t) ==
    /\ pc[t] = "ret_load"
    /\ previous_head' = [previous_head EXCEPT ![t] = head]
    /\ pc' = [pc EXCEPT ![t] = "ret_store"]
    /\ UNCHANGED <<head, next, allocated, freed, destroyed, num_allocs,
                   num_available, new_head, held>>

\* new_head->next = previous_head, an atomic store.
RetStoreNext(t) ==
    /\ pc[t] = "ret_store"
    /\ next' = [next EXCEPT ![new_head[t]] = previous_head[t]]
    /\ pc' = [pc EXCEPT ![t] = "ret_cas"]
    /\ UNCHANGED <<head, allocated, freed, destroyed, num_allocs,
                   num_available, previous_head, new_head, held>>

RetCAS(t) ==
    /\ pc[t] = "ret_cas"
    /\ \/ /\ head = previous_head[t]
          /\ head' = new_head[t]
          /\ pc' = [pc EXCEPT ![t] = "ret_track"]
       \/ /\ pc' = [pc EXCEPT ![t] = "ret_load"]
          /\ UNCHANGED head
    /\ UNCHANGED <<next, allocated, freed, destroyed, num_allocs,
                   num_available, previous_head, new_head, held>>

\* track_pool_usage_returned after the node is already published.
RetTrack(t) ==
    /\ pc[t] = "ret_track"
    /\ num_available' = (num_available + 1) % CounterModulus
    /\ pc' = [pc EXCEPT ![t] = "idle"]
    /\ UNCHANGED <<head, next, allocated, freed, destroyed, num_allocs,
                   previous_head, new_head, held>>

(***************************************************************************)
(* free_mem_pool: pool_mem_free_all walks the free list, freeing every     *)
(* node and decrementing num_available once per node, then the pool        *)
(* itself is freed.  The function is documented as not thread safe: the    *)
(* caller must have quiesced every thread, so the walk is one step.        *)
(* Blocks still held by callers are not on the list and are not freed.     *)
(***************************************************************************)
FreeMemPool ==
    /\ ~destroyed
    /\ Quiescent
    /\ freed' = FreeSet
    /\ head' = NULL
    /\ num_available' = (num_available - FreeLen) % CounterModulus
    /\ destroyed' = TRUE
    /\ UNCHANGED <<next, allocated, num_allocs, pc, previous_head, new_head,
                   held>>

\* After teardown no operation on the pool is legal; the system stops.
Finished ==
    /\ destroyed
    /\ UNCHANGED vars

Next ==
    \/ \E t \in Threads :
          \/ AcqLoadHead(t) \/ AcqAllocOk(t) \/ AcqAllocFail(t)
          \/ AcqLoadNext(t) \/ AcqCAS(t) \/ AcqTrack(t)
          \/ RetLoadHead(t) \/ RetStoreNext(t) \/ RetCAS(t) \/ RetTrack(t)
          \/ \E n \in Nodes : RetBegin(t, n)
    \/ FreeMemPool
    \/ Finished

Spec == Init /\ [][Next]_vars

(***************************************************************************)
(* Scheduling.  A thread inside pool_mem_acquire or pool_mem_return keeps  *)
(* being scheduled (weak fairness of its steps); starting a call is the    *)
(* caller's choice and is not fair.  A weak compare-and-swap may fail      *)
(* spuriously, but not for ever: a CAS that could succeed again and again  *)
(* eventually does (strong fairness of its successful outcome).            *)
(***************************************************************************)
InCall(t) ==
    pc[t] \notin {"idle"}

ThreadStep(t) ==
    /\ InCall(t)
    /\ \/ AcqLoadHead(t) \/ AcqAllocOk(t) \/ AcqAllocFail(t)
       \/ AcqLoadNext(t) \/ AcqCAS(t) \/ AcqTrack(t)
       \/ RetLoadHead(t) \/ RetStoreNext(t) \/ RetCAS(t) \/ RetTrack(t)

CASSucceeds(t) ==
    \/ AcqCAS(t) /\ pc'[t] = "acq_track"
    \/ RetCAS(t) /\ pc'[t] = "ret_track"

FairSpec ==
    /\ Spec
    /\ \A t \in Threads : WF_vars(ThreadStep(t)) /\ SF_vars(CASSucceeds(t))

-----------------------------------------------------------------------------

\* Lock freedom of the two CAS loops: however the threads' loads and CASes
\* interleave, calls keep returning, unless from some point on no thread
\* is inside pool_mem_acquire or pool_mem_return at all.  (A single thread
\* may still starve while others keep winning; the design admits that.)
CallCompletes ==
    \E t \in Threads : InCall(t) /\ ~InCall(t)'

LockFree ==
    \/ []<><<CallCompletes>>_vars
    \/ <>[](\A t \in Threads : ~InCall(t))

\* Every variable has its type, and no pointer anywhere in the pool or in a
\* thread's locals refers to a node malloc has not returned.
TypeOK ==
    /\ head \in allocated \cup {NULL}
    /\ next \in [Nodes -> Ptr]
    /\ \A n \in allocated : next[n] \in allocated \cup {NULL}
    /\ allocated \subseteq Nodes
    /\ freed \subseteq Nodes
    /\ destroyed \in BOOLEAN
    /\ num_allocs \in 0 .. CounterModulus - 1
    /\ num_available \in 0 .. CounterModulus - 1
    /\ pc \in [Threads -> PC]
    /\ previous_head \in [Threads -> allocated \cup {NULL}]
    /\ new_head \in [Threads -> allocated \cup {NULL}]
    /\ held \in [Threads -> SUBSET allocated]
    /\ \A t \in Threads :
          pc[t] \in {"acq_next", "acq_cas", "acq_track"}
             => previous_head[t] \in allocated
    /\ \A t \in Threads :
          pc[t] \in {"ret_load", "ret_store", "ret_cas", "ret_track"}
             => new_head[t] \in allocated

\* No double issue (spec section 8): a block belongs to at most one thread,
\* and a block a thread owns is never on the free list (or freed).
NoDoubleIssue ==
    /\ \A t, u \in Threads : t # u => Owned(t) \cap Owned(u) = {}
    /\ \A t \in Threads : Owned(t) \cap Pooled = {}

\* No block is lost: every node alloc_poolable_mem created is owned by a
\* thread or is in the free list; after free_mem_pool it has been freed
\* unless a caller still holds it.
NoLostBlock ==
    allocated = Pooled \cup UNION {Owned(t) : t \in Threads}

\* The free list pool_mem_free_all walks always ends in NULL.
FreeListAcyclic == Walk[MaxNodes] = NULL

\* Whenever no call is in progress, num_available equals the length of the
\* free list (zero after teardown).
CounterMatchesFreeList ==
    Quiescent =>
        num_available = (IF destroyed THEN 0 ELSE FreeLen) % CounterModulus

-----------------------------------------------------------------------------

(***************************************************************************)
(* Refinement: MemPool implements PoolStack.  The abstract free stack is   *)
(* the list from head, and a thread holds the blocks it owns, so a pop     *)
(* takes effect at its successful CAS and a push at its successful CAS.    *)
(***************************************************************************)
FreeSeq == [i \in 1 .. FreeLen |-> Walk[i - 1]]

Abstract == INSTANCE PoolStack WITH
    free <- FreeSeq,
    held <- [t \in Threads |-> Owned(t)]

\* Every behaviour of the pool is one of the atomic LIFO pool: blocks are
\* reused most-recently-returned first, and each call takes effect at one
\* instant between its invocation and its return.
ImplementsPoolStack == Abstract!PSpec

=============================================================================
