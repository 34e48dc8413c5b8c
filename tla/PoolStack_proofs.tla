-------------------------- MODULE PoolStack_proofs --------------------------
(***************************************************************************)
(* Proofs about PoolStack, the atomic contract of one MemPool, for every   *)
(* set of threads and block addresses: the free stack never holds a block  *)
(* twice, no block is issued twice, and no block is lost.                  *)
(***************************************************************************)
EXTENDS PoolStack, SeqLemmas, TLAPS

\* The elements of a sequence are its range.
LEMMA RangeElems ==
    ASSUME NEW S, NEW s \in Seq(S)
    PROVE  Range(s) = {s[i] : i \in 1 .. Len(s)}
BY DEF Range

\* FreeDistinct is the injectivity of the free stack.
LEMMA DistinctInjective ==
    ASSUME NEW S, NEW s \in Seq(S)
    PROVE  (\A i, j \in 1 .. Len(s) : i # j => s[i] # s[j]) <=> InjectiveSeq(s)
BY DEF InjectiveSeq

\* The elements of the free stack are blocks the pool created.
LEMMA RangeInAllocated ==
    ASSUME PTypeOK
    PROVE  Range(free) \subseteq allocated
BY DEF PTypeOK, Range

-----------------------------------------------------------------------------

LEMMA InitPInv == PInit => PInv
<1> SUFFICES ASSUME PInit PROVE PInv
  OBVIOUS
<1>1. free \in Seq(allocated) /\ Range(free) = {}
  BY DEF PInit, Range
<1>2. PTypeOK
  BY <1>1 DEF PInit, PTypeOK
<1>3. QED
  BY <1>1, <1>2 DEF PInit, PInv, FreeDistinct, PNoDoubleIssue, PNoLostBlock,
                    PTeardown

\* pool_mem_acquire from the free list: the top block leaves the stack and
\* joins the thread's blocks.
LEMMA ReuseKeeps ==
    ASSUME PInv, NEW t \in Threads, AcquireReuse(t)
    PROVE  PInv'
<1> DEFINE h == Head(free)
           T == Range(Tail(free))
<1>1. free \in Seq(allocated) /\ free # <<>>
  BY DEF PInv, PTypeOK, AcquireReuse
<1>2. Range(free) = {h} \cup T /\ h \notin T /\ InjectiveSeq(Tail(free))
  <2>1. InjectiveSeq(free)
    BY <1>1, DistinctInjective DEF PInv, FreeDistinct
  <2>2. Tail(free) \in Seq(allocated)
    BY <1>1, TailElems
  <2>3. QED
    BY <1>1, <2>1, <2>2, TailSplit, RangeElems
<1>3. h \in allocated /\ Tail(free) \in Seq(allocated)
  BY <1>1, HeadElem, TailElems
<1>4. PTypeOK'
  BY <1>3 DEF PInv, PTypeOK, AcquireReuse
<1>5. FreeDistinct'
  BY <1>2, <1>3, DistinctInjective DEF AcquireReuse, FreeDistinct
<1>6. PNoDoubleIssue'
  <2>1. \A u \in Threads : held[u] \cap Range(free) = {} /\ held[u] \cap freed = {}
    BY DEF PInv, PNoDoubleIssue
  <2>2. \A u \in Threads : h \notin held[u]
    BY <1>2, <2>1
  <2>3. held' = [held EXCEPT ![t] = held[t] \cup {h}] /\ held \in [Threads -> SUBSET allocated]
    BY DEF PInv, PTypeOK, AcquireReuse
  <2>4. \A u, v \in Threads : u # v => held'[u] \cap held'[v] = {}
    BY <2>2, <2>3 DEF PInv, PNoDoubleIssue
  <2>5. Range(free') = T /\ freed' = {}
    BY DEF PInv, PTeardown, AcquireReuse
  <2>6. \A u \in Threads : held'[u] \cap (Range(free') \cup freed') = {}
    BY <1>2, <2>1, <2>3, <2>5
  <2>7. QED
    BY <2>4, <2>6 DEF PNoDoubleIssue
<1>7. PNoLostBlock'
  <2>1. h \in held'[t] /\ \A u \in Threads : held'[u] \subseteq held[u] \cup {h}
    BY DEF PInv, PTypeOK, AcquireReuse
  <2>2. \A u \in Threads : held[u] \subseteq held'[u]
    BY DEF PInv, PTypeOK, AcquireReuse
  <2>3. QED
    BY <1>2, <2>1, <2>2 DEF PInv, PNoLostBlock, AcquireReuse
<1>8. PTeardown'
  BY DEF PInv, PTeardown, AcquireReuse
<1>9. QED
  BY <1>4, <1>5, <1>6, <1>7, <1>8 DEF PInv

\* pool_mem_acquire allocating: a block the pool never created joins the
\* thread's blocks.
LEMMA FreshKeeps ==
    ASSUME PInv, NEW t \in Threads, AcquireFresh(t)
    PROVE  PInv'
<1>1. PICK n \in Nodes \ allocated :
          /\ allocated' = allocated \cup {n}
          /\ held' = [held EXCEPT ![t] = @ \cup {n}]
  BY DEF AcquireFresh
<1>2. UNCHANGED <<free, freed, destroyed>>
  BY DEF AcquireFresh
<1>3. n \notin Range(free) /\ n \notin freed
      /\ \A u \in Threads : n \notin held[u]
  BY RangeInAllocated DEF PInv, PTypeOK
<1>4. free \in Seq(allocated')
  <2>1. free \in Seq(allocated)
    BY DEF PInv, PTypeOK
  <2>2. allocated \subseteq allocated'
    BY <1>1
  <2>3. QED
    BY <2>1, <2>2, SMT
<1>5. PTypeOK'
  BY <1>1, <1>2, <1>4 DEF PInv, PTypeOK
<1>6. FreeDistinct'
  BY <1>2 DEF PInv, FreeDistinct
<1>7. PNoDoubleIssue'
  BY <1>1, <1>2, <1>3 DEF PInv, PNoDoubleIssue, PTypeOK
<1>8. PNoLostBlock'
  BY <1>1, <1>2 DEF PInv, PNoLostBlock, PTypeOK
<1>9. PTeardown'
  BY <1>2 DEF PInv, PTeardown
<1>10. QED
  BY <1>5, <1>6, <1>7, <1>8, <1>9 DEF PInv

\* pool_mem_return: a block the thread held becomes the top of the stack.
LEMMA ReleaseKeeps ==
    ASSUME PInv, NEW t \in Threads, NEW n \in Nodes, Release(t, n)
    PROVE  PInv'
<1>1. free \in Seq(allocated) /\ n \in allocated /\ n \in held[t]
  BY DEF PInv, PTypeOK, Release
<1>2. n \notin Range(free) /\ InjectiveSeq(free)
  BY <1>1, DistinctInjective DEF PInv, PNoDoubleIssue, FreeDistinct
<1>3. /\ Range(<<n>> \o free) = {n} \cup Range(free)
      /\ InjectiveSeq(<<n>> \o free)
      /\ <<n>> \o free \in Seq(allocated)
  <2>1. <<n>> \o free \in Seq(allocated)
    BY <1>1, ConsElems
  <2>2. Range(<<n>> \o free) = {(<<n>> \o free)[i] : i \in 1 .. Len(<<n>> \o free)}
    BY <2>1, RangeElems
  <2>3. Range(free) = {free[i] : i \in 1 .. Len(free)}
    BY <1>1, RangeElems
  <2>4. /\ {(<<n>> \o free)[i] : i \in 1 .. Len(<<n>> \o free)}
            = {n} \cup {free[i] : i \in 1 .. Len(free)}
        /\ (InjectiveSeq(free) /\ n \notin {free[i] : i \in 1 .. Len(free)})
              => InjectiveSeq(<<n>> \o free)
    BY <1>1, ConsSplit
  <2>5. QED
    BY <1>2, <2>1, <2>2, <2>3, <2>4
<1>4. PTypeOK'
  BY <1>3 DEF PInv, PTypeOK, Release
<1>5. FreeDistinct'
  BY <1>3, DistinctInjective DEF Release, FreeDistinct
<1>6. PNoDoubleIssue'
  BY <1>1, <1>3 DEF PInv, PNoDoubleIssue, PTypeOK, Release
<1>7. PNoLostBlock'
  <2>1. allocated' = Range(free') \cup freed' \cup UNION {held'[u] : u \in Threads}
    <3>1. \A x \in allocated' :
             x \in Range(free') \cup freed' \cup UNION {held'[u] : u \in Threads}
      BY <1>3 DEF PInv, PNoLostBlock, PTypeOK, Release
    <3>2. Range(free') \cup freed' \cup UNION {held'[u] : u \in Threads}
            \subseteq allocated'
      BY <1>1, <1>3 DEF PInv, PNoLostBlock, PTypeOK, Release
    <3>3. QED
      BY <3>1, <3>2
  <2>2. QED
    BY <2>1 DEF PNoLostBlock
<1>8. PTeardown'
  BY DEF PInv, PTeardown, Release
<1>9. QED
  BY <1>4, <1>5, <1>6, <1>7, <1>8 DEF PInv

\* free_mem_pool: the free blocks become the freed ones.
LEMMA DestroyKeeps ==
    ASSUME PInv, Destroy
    PROVE  PInv'
<1>1. freed = {} /\ Range(free) \subseteq allocated
  BY RangeInAllocated DEF PInv, PTeardown, Destroy
<1>2. Range(<<>>) = {}
  BY DEF Range
<1>3. PTypeOK'
  BY <1>1 DEF PInv, PTypeOK, Destroy
<1>4. FreeDistinct'
  BY DEF Destroy, FreeDistinct
<1>5. PNoDoubleIssue'
  BY <1>1, <1>2 DEF PInv, PNoDoubleIssue, Destroy
<1>6. PNoLostBlock'
  BY <1>1, <1>2 DEF PInv, PNoLostBlock, Destroy
<1>7. PTeardown'
  BY DEF PTeardown, Destroy
<1>8. QED
  BY <1>3, <1>4, <1>5, <1>6, <1>7 DEF PInv

LEMMA StepPInv == PInv /\ [PNext]_pvars => PInv'
<1> SUFFICES ASSUME PInv, [PNext]_pvars PROVE PInv'
  OBVIOUS
<1>1. CASE \E t \in Threads : AcquireReuse(t)
  BY <1>1, ReuseKeeps
<1>2. CASE \E t \in Threads : AcquireFresh(t)
  BY <1>2, FreshKeeps
<1>3. CASE \E t \in Threads, n \in Nodes : Release(t, n)
  BY <1>3, ReleaseKeeps
<1>4. CASE Destroy
  BY <1>4, DestroyKeeps
<1>5. CASE UNCHANGED pvars
  BY <1>5 DEF pvars, PInv, PTypeOK, FreeDistinct, PNoDoubleIssue,
              PNoLostBlock, PTeardown, Range
<1>6. QED
  BY <1>1, <1>2, <1>3, <1>4, <1>5 DEF PNext

\* For every set of threads and block addresses, the contract MemPool is
\* shown to implement keeps its free stack without duplicates, never issues
\* a block to two threads or while it is free or freed, loses no block,
\* and frees nothing before teardown.
THEOREM PoolStackCorrect == PSpec => []PInv
BY InitPInv, StepPInv, PTL DEF PSpec

=============================================================================
