---------------------------- MODULE MC_MultiPool ----------------------------
(* Model-checking instance of MultiPool with the constants of             *)
(* dyn_mem_pool.h and request sizes at the class boundaries.               *)
EXTENDS MultiPool, MC_SizeClass, TLC

\* size_t requests that fit in 32 bits, as every caller inside gozlib.c
\* passes them: zero, the first boundary, the last class and one past it.
Requests32 ==
    {[hi |-> 0, lo |-> s] : s \in {0, 512, 513, 4194304, 4194305}}

\* A request of 2^32 + 512 bytes, which only the exported pool_alloc can get.
Requests64 == Requests32 \cup {[hi |-> 1, lo |-> 512]}

\* Whenever the global multipool is live, multipool_mem_acquire routes every
\* request size around every power of two (class boundaries, zero and the
\* uint32_t wrap of size - 1) to the smallest class that holds it, and
\* rejects zero and oversize requests.
IndexMatchesReference ==
    global = "live" => \A size \in RequestSizes : ClassChoiceCorrect(size)

MCSymmetry == Permutations(Threads) \cup Permutations(Nodes)
=============================================================================
