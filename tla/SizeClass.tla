------------------------------ MODULE SizeClass ------------------------------
(***************************************************************************)
(* The size-class arithmetic of the multipool in dyn_mem_pool.h: the block *)
(* size of each pool multipool_create builds, and                          *)
(* find_multipool_index_for_size, which maps a requested uint32_t size to  *)
(* the index of the pool that serves it.                                   *)
(***************************************************************************)
EXTENDS Naturals

CONSTANTS
    MinBits,     \* DynPoolMinMultiPoolMemNodeSizeBits (9)
    EntryCount,  \* MULTIPOOL_ENTRY_COUNT (14)
    WordBits     \* width of uint32_t (32)

ASSUME SizeClassAssumption ==
    /\ MinBits \in Nat \ {0}
    /\ EntryCount \in Nat \ {0}
    /\ WordBits \in Nat
    /\ MinBits + EntryCount <= WordBits

\* 1 << (DynPoolMinMultiPoolMemNodeSizeBits + i): the block size of pool i.
ClassSize(i) == 2 ^ (MinBits + i)

\* The number of significant bits of x, which is what
\* int32bitcount - __builtin_clz(x) computes for x > 0.
BitLength[x \in Nat] == IF x = 0 THEN 0 ELSE 1 + BitLength[x \div 2]

\* (size - 1) >> DynPoolMinMultiPoolMemNodeSizeBits in uint32_t arithmetic:
\* for size = 0 the subtraction wraps to 2^WordBits - 1.
SizeValue(size) ==
    IF size = 0 THEN 2 ^ (WordBits - MinBits) - 1
    ELSE (size - 1) \div 2 ^ MinBits

\* Faulty variant for the mutation run: the "- 1" of line 315 dropped, so
\* a size equal to a class's block size is sent to the next class.
FindIndexNoDecrement(size) ==
    IF size \div 2 ^ MinBits = 0 THEN 0 ELSE BitLength[size \div 2 ^ MinBits]

\* Faulty variant for the mutation run: 31 - clz in place of 32 - clz,
\* so every size above the first class goes one class too low.
FindIndexOffByOne(size) ==
    IF SizeValue(size) = 0 THEN 0 ELSE BitLength[SizeValue(size)] - 1

\* find_multipool_index_for_size.
FindIndex(size) ==
    IF SizeValue(size) = 0 THEN 0 ELSE BitLength[SizeValue(size)]

\* multipool_mem_acquire rejects an index outside the pool table.
InRange(size) == FindIndex(size) < EntryCount

=============================================================================
