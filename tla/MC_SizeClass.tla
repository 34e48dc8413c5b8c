---------------------------- MODULE MC_SizeClass ----------------------------
(* Checks find_multipool_index_for_size against a reference definition for *)
(* every request size in RequestSizes.                                     *)
EXTENDS SizeClass, Integers

\* Every size around each power of two that TLC's integers can represent,
\* which includes every class boundary, zero and the uint32_t wrap-around.
RequestSizes ==
    {s \in {2 ^ k + d : k \in 0 .. 30, d \in {-2, -1, 0, 1, 2}} : s >= 0}
        \cup {2 ^ 30 + (2 ^ 30 - 1)}

\* The reference: the smallest class whose block holds size bytes.
RefIndex(s) ==
    IF \E i \in 0 .. EntryCount - 1 : s <= ClassSize(i)
    THEN CHOOSE i \in 0 .. EntryCount - 1 :
             /\ s <= ClassSize(i)
             /\ \A j \in 0 .. i - 1 : s > ClassSize(j)
    ELSE EntryCount

\* multipool_mem_acquire serves a non-zero request that fits the largest
\* class from the smallest class whose block holds it, and rejects every
\* other request (a zero size included) as out of range.
ClassChoiceCorrect(size) ==
    IF size # 0 /\ size <= ClassSize(EntryCount - 1)
    THEN FindIndex(size) = RefIndex(size)
    ELSE ~InRange(size)
=============================================================================
