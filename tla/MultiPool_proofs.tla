-------------------------- MODULE MultiPool_proofs --------------------------
(***************************************************************************)
(* Proofs about the MultiPool model that hold for every set of threads,    *)
(* node addresses and requests, and every size-class configuration.       *)
(***************************************************************************)
EXTENDS MultiPool, SeqLemmas, TLAPS

\* Every block a caller holds was made by one of the pools and is a node
\* malloc returned.
HeldOwned ==
    \A t \in Threads : \A b \in held[t] :
        b.node \in allocated /\ owner[b.node] \in Classes

\* The inductive invariant of the routing theorem.
RoutingInv ==
    /\ MTypeOK
    /\ HeldOwned
    /\ FreeListsHomogeneous
    /\ ServedFromItsClass

\* No class's free list holds a block twice.
FreeListsInjective == \A c \in Classes : InjectiveSeq(free[c])

\* free_poolable_mem runs only in the destructor's multipool_free.
FreedOnlyAtTeardown == global # "freed" => freed = {}

\* The inductive invariant of the accounting theorem.
AccountingInv ==
    /\ RoutingInv
    /\ FreeListsInjective
    /\ FreedOnlyAtTeardown
    /\ MNoDoubleIssue
    /\ MNoLostBlock

-----------------------------------------------------------------------------

LEMMA InitRouting == Init => RoutingInv
BY MultiPoolAssumption
DEF Init, RoutingInv, MTypeOK, HeldOwned, FreeListsHomogeneous,
    ServedFromItsClass, FreeNodes, Classes

\* Under the invariant, a block in a free list or held by a caller is a node
\* malloc returned and has its owner's class.
LEMMA FreeNodesAllocated ==
    ASSUME MTypeOK, NEW c \in Classes
    PROVE  \A n \in FreeNodes(c) : n \in allocated
BY DEF MTypeOK, FreeNodes

LEMMA StepRouting == RoutingInv /\ [Next]_mvars => RoutingInv'
<1> SUFFICES ASSUME RoutingInv, [Next]_mvars PROVE RoutingInv'
  OBVIOUS
<1> USE MultiPoolAssumption
<1>1. CASE Create
  <2>1. UNCHANGED <<free, owner, allocated, freed, held, fault>>
    BY <1>1 DEF Create
  <2>2. table' \in [Classes -> BOOLEAN] /\ global' \in {"null", "live"}
    BY <1>1 DEF Create, RoutingInv, MTypeOK
  <2>3. QED
    BY <2>1, <2>2 DEF RoutingInv, MTypeOK, HeldOwned, FreeListsHomogeneous,
                      ServedFromItsClass, FreeNodes
<1>2. ASSUME NEW t \in Threads, NEW r \in Requests, PoolAlloc(t, r)
      PROVE  RoutingInv'
  <2> DEFINE c == FindIndex(AsUint32(r))
  <2>1. CASE /\ fault' \in {"none", "null_multipool", "null_pool"}
             /\ UNCHANGED <<global, table, free, owner, allocated, freed, held>>
    BY <2>1 DEF RoutingInv, MTypeOK, HeldOwned, FreeListsHomogeneous,
                ServedFromItsClass, FreeNodes
  <2>2. CASE c \in Classes /\ ReuseBlock(t, r, c)
    <3> DEFINE n == Head(free[c])
    <3>1. n \in FreeNodes(c) /\ n \in allocated
      BY <2>2, HeadElem DEF ReuseBlock, RoutingInv, MTypeOK, FreeNodes
    <3>2. owner[n] = c
      BY <2>2, <3>1 DEF RoutingInv, FreeListsHomogeneous
    <3>3. \A i \in 1 .. Len(Tail(free[c])) : Tail(free[c])[i] \in FreeNodes(c)
      BY <2>2, TailElems DEF ReuseBlock, RoutingInv, MTypeOK, FreeNodes
    <3>4. Tail(free[c]) \in Seq(allocated)
      BY <2>2, TailElems DEF ReuseBlock, RoutingInv, MTypeOK
    <3>5. MTypeOK'
      BY <2>2, <3>1, <3>4 DEF ReuseBlock, RoutingInv, MTypeOK, Block
    <3>6. HeldOwned'
      BY <2>2, <3>1, <3>2 DEF ReuseBlock, RoutingInv, HeldOwned
    <3>7. FreeListsHomogeneous'
      BY <2>2, <3>3 DEF ReuseBlock, RoutingInv, FreeListsHomogeneous, FreeNodes
    <3>8. ServedFromItsClass'
      BY <2>2, <3>2 DEF ReuseBlock, RoutingInv, ServedFromItsClass
    <3>9. QED
      BY <3>5, <3>6, <3>7, <3>8 DEF RoutingInv
  <2>3. CASE c \in Classes /\ FreshBlock(t, r, c)
    <3>1. PICK n \in Nodes \ allocated :
              /\ allocated' = allocated \cup {n}
              /\ owner' = [owner EXCEPT ![n] = c]
              /\ held' = [held EXCEPT ![t] = @ \cup {[node |-> n, req |-> r]}]
      BY <2>3 DEF FreshBlock
    <3>2. \A m \in allocated : owner'[m] = owner[m]
      BY <3>1, <2>3 DEF RoutingInv, MTypeOK
    <3>3. MTypeOK'
      BY <2>3, <3>1 DEF FreshBlock, RoutingInv, MTypeOK, Block
    <3>4. HeldOwned'
      BY <2>3, <3>1, <3>2 DEF FreshBlock, RoutingInv, MTypeOK, HeldOwned
    <3>5. FreeListsHomogeneous'
      BY <2>3, <3>2, FreeNodesAllocated
      DEF FreshBlock, RoutingInv, FreeListsHomogeneous, FreeNodes
    <3>6. ServedFromItsClass'
      BY <2>3, <3>1, <3>2 DEF FreshBlock, RoutingInv, HeldOwned,
                              ServedFromItsClass, MTypeOK
    <3>7. QED
      BY <3>3, <3>4, <3>5, <3>6 DEF RoutingInv
  <2>4. QED
    BY <1>2, <2>1, <2>2, <2>3 DEF PoolAlloc, AcquireNullPool, mvars
<1>3. ASSUME NEW t \in Threads, NEW b \in Block, PoolFree(t, b)
      PROVE  RoutingInv'
  <2> DEFINE d == owner[b.node]
  <2>1. d \in Classes /\ b.node \in allocated
    BY <1>3 DEF PoolFree, RoutingInv, HeldOwned
  <2>2. free[d] \in Seq(allocated)
    BY <2>1 DEF RoutingInv, MTypeOK
  <2>3. free' = [free EXCEPT ![d] = <<b.node>> \o free[d]]
    BY <1>3 DEF PoolFree
  <2>4. <<b.node>> \o free[d] \in Seq(allocated)
    BY <2>1, <2>2, ConsElems
  <2>5. \A i \in 1 .. Len(<<b.node>> \o free[d]) :
           (<<b.node>> \o free[d])[i] \in {b.node} \cup FreeNodes(d)
    BY <2>1, <2>2, ConsElems DEF FreeNodes
  <2>6. MTypeOK'
    BY <1>3, <2>1, <2>3, <2>4 DEF PoolFree, RoutingInv, MTypeOK
  <2>7. HeldOwned'
    BY <1>3 DEF PoolFree, RoutingInv, HeldOwned
  <2>8. FreeListsHomogeneous'
    BY <1>3, <2>1, <2>3, <2>5 DEF PoolFree, RoutingInv, MTypeOK,
                                FreeListsHomogeneous, FreeNodes
  <2>9. ServedFromItsClass'
    BY <1>3 DEF PoolFree, RoutingInv, ServedFromItsClass
  <2>10. QED
    BY <2>6, <2>7, <2>8, <2>9 DEF RoutingInv
<1>4. CASE FreeAll
  <2>1. CASE ReleaseAll
    <3>1. freed' \subseteq allocated
      BY <2>1 DEF ReleaseAll, RoutingInv, MTypeOK
    <3>2. QED
      BY <2>1, <3>1 DEF ReleaseAll, RoutingInv, MTypeOK, HeldOwned,
                        FreeListsHomogeneous, ServedFromItsClass, FreeNodes
  <2>2. CASE /\ fault' \in {"null_multipool", "null_pool"}
             /\ UNCHANGED <<global, table, free, owner, allocated, freed, held>>
    BY <2>2 DEF RoutingInv, MTypeOK, HeldOwned,
                FreeListsHomogeneous, ServedFromItsClass, FreeNodes
  <2>3. QED
    BY <1>4, <2>1, <2>2 DEF FreeAll
<1>5. CASE Stopped \/ UNCHANGED mvars
  BY <1>5 DEF Stopped, mvars, RoutingInv, MTypeOK, HeldOwned,
              FreeListsHomogeneous, ServedFromItsClass, FreeNodes
<1>6. QED
  BY <1>1, <1>2, <1>3, <1>4, <1>5 DEF Next

LEMMA InitAccounting == Init => AccountingInv
BY InitRouting
DEF Init, AccountingInv, FreeListsInjective, InjectiveSeq, FreedOnlyAtTeardown,
    MNoDoubleIssue, MNoLostBlock, HeldNodes, FreeNodes

\* The conjuncts of AccountingInv that RoutingInv does not give.
Accounting ==
    FreeListsInjective /\ FreedOnlyAtTeardown /\ MNoDoubleIssue /\ MNoLostBlock

\* pool_mem_acquire popping the head of class c's list for thread t.
LEMMA ReuseAccounting ==
    ASSUME AccountingInv, NEW t \in Threads, NEW r \in Requests,
           NEW c \in Classes, ReuseBlock(t, r, c)
    PROVE  Accounting'
<1> DEFINE n == Head(free[c])
           nb == [node |-> n, req |-> r]
<1>1. /\ free[c] \in Seq(allocated) /\ free[c] # <<>>
      /\ free \in [Classes -> Seq(allocated)]
      /\ held \in [Threads -> SUBSET Block]
      /\ free' = [free EXCEPT ![c] = Tail(free[c])]
      /\ held' = [held EXCEPT ![t] = held[t] \cup {nb}]
      /\ UNCHANGED <<global, allocated, freed>>
  BY DEF AccountingInv, RoutingInv, MTypeOK, ReuseBlock
<1>2. /\ FreeNodes(c) = {n} \cup FreeNodes(c)'
      /\ InjectiveSeq(free'[c])
      /\ n \notin FreeNodes(c)'
  <2>1. free'[c] = Tail(free[c])
    BY <1>1
  <2>2. InjectiveSeq(free[c])
    BY DEF AccountingInv, FreeListsInjective
  <2>3. /\ {free[c][i] : i \in 1 .. Len(free[c])}
             = {n} \cup {Tail(free[c])[i] : i \in 1 .. Len(Tail(free[c]))}
        /\ InjectiveSeq(Tail(free[c]))
        /\ n \notin {Tail(free[c])[i] : i \in 1 .. Len(Tail(free[c]))}
    BY <1>1, <2>2, TailSplit
  <2>4. QED
    BY <2>1, <2>3 DEF FreeNodes
<1>3. \A d \in Classes \ {c} : free'[d] = free[d] /\ FreeNodes(d)' = FreeNodes(d)
  BY <1>1 DEF FreeNodes
<1>4. n \notin HeldNodes
  BY <1>2 DEF AccountingInv, MNoDoubleIssue
<1>5. HeldNodes' = HeldNodes \cup {n}
  <2>1. UNION {held'[u] : u \in Threads} = (UNION {held[u] : u \in Threads}) \cup {nb}
    BY <1>1
  <2>2. nb.node = n
    OBVIOUS
  <2>3. \A X : {b.node : b \in X \cup {nb}} = {b.node : b \in X} \cup {n}
    BY <2>2
  <2>4. QED
    BY <2>1, <2>3 DEF HeldNodes
<1>6. \A u \in Threads : held'[u] = IF u = t THEN held[u] \cup {nb} ELSE held[u]
  BY <1>1
<1>7. \A u \in Threads : nb \notin held[u]
  BY <1>4 DEF HeldNodes
<1>8. FreeListsInjective'
  BY <1>2, <1>3 DEF AccountingInv, FreeListsInjective
<1>9. FreedOnlyAtTeardown'
  BY <1>1 DEF AccountingInv, FreedOnlyAtTeardown
<1>10. MNoDoubleIssue'
  <2>1. \A u, v \in Threads : \A b \in held'[u], d \in held'[v] :
           b.node = d.node => u = v /\ b = d
    <3> SUFFICES ASSUME NEW u \in Threads, NEW v \in Threads,
                        NEW b \in held'[u], NEW d \in held'[v], b.node = d.node
                 PROVE  u = v /\ b = d
      OBVIOUS
    <3>1. CASE b \in held[u] /\ d \in held[v]
      BY <3>1 DEF AccountingInv, MNoDoubleIssue
    <3>2. CASE b = nb /\ d \in held[v]
      BY <3>2, <1>4 DEF HeldNodes
    <3>3. CASE b \in held[u] /\ d = nb
      BY <3>3, <1>4 DEF HeldNodes
    <3>4. CASE b = nb /\ d = nb
      BY <3>4, <1>6, <1>7
    <3>5. QED
      BY <1>6, <3>1, <3>2, <3>3, <3>4
  <2>2. \A d, e \in Classes : d # e => FreeNodes(d)' \cap FreeNodes(e)' = {}
    BY <1>2, <1>3 DEF AccountingInv, MNoDoubleIssue
  <2>3. \A d \in Classes : FreeNodes(d)' \cap HeldNodes' = {}
    BY <1>2, <1>3, <1>5 DEF AccountingInv, MNoDoubleIssue
  <2>4. QED
    BY <2>1, <2>2, <2>3 DEF MNoDoubleIssue
<1>11. MNoLostBlock'
  <2>1. (UNION {FreeNodes(d)' : d \in Classes}) \cup {n}
          = UNION {FreeNodes(d) : d \in Classes}
    <3>1. \A d \in Classes : FreeNodes(d)' \subseteq FreeNodes(d)
      BY <1>2, <1>3
    <3>2. \A d \in Classes : FreeNodes(d) \subseteq FreeNodes(d)' \cup {n}
      BY <1>2, <1>3
    <3>3. n \in FreeNodes(c)
      BY <1>2
    <3>4. QED
      BY <3>1, <3>2, <3>3
  <2>2. QED
    BY <1>1, <1>5, <2>1 DEF AccountingInv, MNoLostBlock
<1>12. QED
  BY <1>8, <1>9, <1>10, <1>11 DEF Accounting

\* A step that changes none of the accounted state keeps the accounting.
LEMMA UnchangedAccounting ==
    ASSUME AccountingInv, UNCHANGED <<global, free, allocated, freed, held>>
    PROVE  Accounting'
<1>1. FreeListsInjective'
  BY DEF AccountingInv, FreeListsInjective, InjectiveSeq
<1>2. FreedOnlyAtTeardown'
  BY DEF AccountingInv, FreedOnlyAtTeardown
<1>3. HeldNodes' = HeldNodes /\ \A c \in Classes : FreeNodes(c)' = FreeNodes(c)
  BY DEF HeldNodes, FreeNodes
<1>4. MNoDoubleIssue'
  BY <1>3 DEF AccountingInv, MNoDoubleIssue
<1>5. MNoLostBlock'
  BY <1>3 DEF AccountingInv, MNoLostBlock
<1>6. QED
  BY <1>1, <1>2, <1>4, <1>5 DEF Accounting

\* multipool_create runs before any block exists.
LEMMA CreateAccounting ==
    ASSUME AccountingInv, Create
    PROVE  Accounting'
<1>1. freed = {} /\ global' # "freed"
  BY DEF Create, AccountingInv, FreedOnlyAtTeardown
<1>2. UNCHANGED <<free, allocated, freed, held>>
  BY DEF Create
<1>3. FreeListsInjective'
  BY <1>2 DEF AccountingInv, FreeListsInjective, InjectiveSeq
<1>4. HeldNodes' = HeldNodes /\ \A c \in Classes : FreeNodes(c)' = FreeNodes(c)
  BY <1>2 DEF HeldNodes, FreeNodes
<1>5. MNoDoubleIssue' /\ MNoLostBlock'
  BY <1>2, <1>4 DEF AccountingInv, MNoDoubleIssue, MNoLostBlock
<1>6. QED
  BY <1>1, <1>2, <1>3, <1>5 DEF Accounting, FreedOnlyAtTeardown

\* A thread given a block whose node no one holds: no two callers hold
\* the same node, and the held nodes grow by that one.
LEMMA AddHeldBlock ==
    ASSUME MNoDoubleIssue, held \in [Threads -> SUBSET Block],
           NEW t \in Threads, NEW nb, nb.node \notin HeldNodes,
           held' = [held EXCEPT ![t] = held[t] \cup {nb}]
    PROVE  /\ HeldNodes' = HeldNodes \cup {nb.node}
           /\ \A u, v \in Threads : \A b \in held'[u], d \in held'[v] :
                 b.node = d.node => u = v /\ b = d
<1>1. \A u \in Threads : held'[u] = IF u = t THEN held[u] \cup {nb} ELSE held[u]
  OBVIOUS
<1>2. \A u \in Threads : nb \notin held[u]
  BY DEF HeldNodes
<1>3. HeldNodes' = HeldNodes \cup {nb.node}
  <2>1. UNION {held'[u] : u \in Threads} = (UNION {held[u] : u \in Threads}) \cup {nb}
    OBVIOUS
  <2>2. \A X : {b.node : b \in X \cup {nb}} = {b.node : b \in X} \cup {nb.node}
    OBVIOUS
  <2>3. QED
    BY <2>1, <2>2 DEF HeldNodes
<1>4. ASSUME NEW u \in Threads, NEW v \in Threads,
             NEW b \in held'[u], NEW d \in held'[v], b.node = d.node
      PROVE  u = v /\ b = d
  <2>1. CASE b \in held[u] /\ d \in held[v]
    BY <1>4, <2>1 DEF MNoDoubleIssue
  <2>2. CASE b = nb /\ d \in held[v]
    BY <1>4, <2>2 DEF HeldNodes
  <2>3. CASE b \in held[u] /\ d = nb
    BY <1>4, <2>3 DEF HeldNodes
  <2>4. CASE b = nb /\ d = nb
    BY <1>1, <1>2, <2>4
  <2>5. QED
    BY <1>1, <2>1, <2>2, <2>3, <2>4
<1>5. QED
  BY <1>3, <1>4

\* pool_mem_acquire mallocing a fresh node for thread t.
LEMMA FreshAccounting ==
    ASSUME AccountingInv, NEW t \in Threads, NEW r \in Requests,
           NEW c \in Classes, FreshBlock(t, r, c)
    PROVE  Accounting'
<1>1. PICK n \in Nodes \ allocated :
          /\ allocated' = allocated \cup {n}
          /\ held' = [held EXCEPT ![t] = held[t] \cup {[node |-> n, req |-> r]}]
  BY DEF FreshBlock
<1>2. UNCHANGED <<global, free, freed>>
  BY DEF FreshBlock
<1>3. /\ held \in [Threads -> SUBSET Block]
      /\ \A d \in Classes : FreeNodes(d) \subseteq allocated
  BY DEF AccountingInv, RoutingInv, MTypeOK, FreeNodes
<1> DEFINE nb == [node |-> n, req |-> r]
<1>4. nb.node \notin HeldNodes /\ nb.node = n
  BY <1>1 DEF AccountingInv, MNoLostBlock
<1>5. /\ HeldNodes' = HeldNodes \cup {nb.node}
      /\ \A u, v \in Threads : \A b \in held'[u], d \in held'[v] :
            b.node = d.node => u = v /\ b = d
  <2>1. MNoDoubleIssue
    BY DEF AccountingInv
  <2>2. held' = [held EXCEPT ![t] = held[t] \cup {nb}]
    BY <1>1
  <2>3. QED
    BY <1>3, <1>4, <2>1, <2>2, AddHeldBlock
<1>6. \A d \in Classes : FreeNodes(d)' = FreeNodes(d) /\ n \notin FreeNodes(d)
  BY <1>2, <1>3 DEF FreeNodes
<1>7. QED
  BY <1>1, <1>2, <1>5, <1>6
  DEF AccountingInv, Accounting, FreeListsInjective, FreedOnlyAtTeardown,
      MNoDoubleIssue, MNoLostBlock

\* pool_mem_return pushing a held block onto the free list of its owner.
LEMMA ReturnAccounting ==
    ASSUME AccountingInv, NEW t \in Threads, NEW b \in Block, PoolFree(t, b)
    PROVE  Accounting'
<1> DEFINE m == b.node
<1>0. PICK d \in Classes : d = owner[m]
  BY DEF PoolFree, AccountingInv, RoutingInv, HeldOwned
<1>1. /\ b \in held[t]
      /\ free[d] \in Seq(allocated) /\ m \in allocated
      /\ free \in [Classes -> Seq(allocated)]
      /\ held \in [Threads -> SUBSET Block]
      /\ free' = [free EXCEPT ![d] = <<m>> \o free[d]]
      /\ held' = [held EXCEPT ![t] = held[t] \ {b}]
      /\ UNCHANGED <<global, allocated, freed>>
  BY <1>0 DEF PoolFree, AccountingInv, RoutingInv, MTypeOK, HeldOwned
<1>2. m \in HeldNodes
  BY <1>1 DEF HeldNodes
<1>3. \A e \in Classes : m \notin FreeNodes(e)
  BY <1>2 DEF AccountingInv, MNoDoubleIssue
<1>4. /\ FreeNodes(d)' = {m} \cup FreeNodes(d)
      /\ InjectiveSeq(free'[d])
  <2>1. free'[d] = <<m>> \o free[d]
    BY <1>1
  <2>2. InjectiveSeq(free[d])
    BY <1>1 DEF AccountingInv, FreeListsInjective
  <2>3. /\ {(<<m>> \o free[d])[i] : i \in 1 .. Len(<<m>> \o free[d])}
             = {m} \cup {free[d][i] : i \in 1 .. Len(free[d])}
        /\ InjectiveSeq(<<m>> \o free[d])
    <3>1. m \notin {free[d][i] : i \in 1 .. Len(free[d])}
      BY <1>1, <1>3 DEF FreeNodes
    <3>2. free[d] \in Seq(allocated) /\ m \in allocated
      BY <1>1
    <3>3. /\ {(<<m>> \o free[d])[i] : i \in 1 .. Len(<<m>> \o free[d])}
             = {m} \cup {free[d][i] : i \in 1 .. Len(free[d])}
          /\ (InjectiveSeq(free[d])
                /\ m \notin {free[d][i] : i \in 1 .. Len(free[d])})
                 => InjectiveSeq(<<m>> \o free[d])
      BY <3>2, ConsSplit
    <3>4. QED
      BY <2>2, <3>1, <3>3
  <2>4. QED
    BY <2>1, <2>3 DEF FreeNodes
<1>5. \A e \in Classes \ {d} : free'[e] = free[e] /\ FreeNodes(e)' = FreeNodes(e)
  BY <1>1 DEF FreeNodes
<1>6. HeldNodes' = HeldNodes \ {m}
  <2>1. \A u \in Threads : held'[u] = IF u = t THEN held[u] \ {b} ELSE held[u]
    BY <1>1
  <2>2. \A u \in Threads : \A x \in held[u] : x.node = m => u = t /\ x = b
    BY <1>1 DEF AccountingInv, MNoDoubleIssue
  <2>3. HeldNodes' \subseteq HeldNodes \ {m}
    <3> SUFFICES ASSUME NEW u \in Threads, NEW x \in held'[u]
                 PROVE  x.node \in HeldNodes \ {m}
      BY DEF HeldNodes
    <3>1. x \in held[u] /\ (u = t => x # b)
      BY <2>1
    <3>2. x.node # m
      BY <2>2, <3>1
    <3>3. QED
      BY <3>1, <3>2 DEF HeldNodes
  <2>4. HeldNodes \ {m} \subseteq HeldNodes'
    BY <2>1 DEF HeldNodes
  <2>5. QED
    BY <2>3, <2>4
<1>7. FreeListsInjective'
  BY <1>4, <1>5 DEF AccountingInv, FreeListsInjective
<1>8. FreedOnlyAtTeardown'
  BY <1>1 DEF AccountingInv, FreedOnlyAtTeardown
<1>9. MNoDoubleIssue'
  <2>1. \A u, v \in Threads : \A x \in held'[u], y \in held'[v] :
           x.node = y.node => u = v /\ x = y
    BY <1>1 DEF AccountingInv, MNoDoubleIssue
  <2>2. \A e, f \in Classes : e # f => FreeNodes(e)' \cap FreeNodes(f)' = {}
    BY <1>3, <1>4, <1>5 DEF AccountingInv, MNoDoubleIssue
  <2>3. \A e \in Classes : FreeNodes(e)' \cap HeldNodes' = {}
    BY <1>4, <1>5, <1>6 DEF AccountingInv, MNoDoubleIssue
  <2>4. QED
    BY <2>1, <2>2, <2>3 DEF MNoDoubleIssue
<1>10. MNoLostBlock'
  <2>1. UNION {FreeNodes(e)' : e \in Classes}
          = (UNION {FreeNodes(e) : e \in Classes}) \cup {m}
    <3>1. \A e \in Classes : FreeNodes(e)' \subseteq FreeNodes(e) \cup {m}
      BY <1>4, <1>5
    <3>2. \A e \in Classes : FreeNodes(e) \subseteq FreeNodes(e)'
      BY <1>4, <1>5
    <3>3. m \in FreeNodes(d)'
      BY <1>4
    <3>4. QED
      BY <1>1, <3>1, <3>2, <3>3
  <2>2. QED
    BY <1>1, <1>2, <1>6, <2>1 DEF AccountingInv, MNoLostBlock
<1>11. QED
  BY <1>7, <1>8, <1>9, <1>10 DEF Accounting

\* multipool_free: every free block of every class is released.
LEMMA ReleaseAllAccounting ==
    ASSUME AccountingInv, ReleaseAll
    PROVE  Accounting'
<1>1. /\ freed = {}
      /\ free \in [Classes -> Seq(allocated)]
      /\ allocated \subseteq Nodes
  BY DEF ReleaseAll, AccountingInv, FreedOnlyAtTeardown, RoutingInv, MTypeOK
<1>2. freed' = UNION {FreeNodes(c) : c \in Classes}
  BY <1>1 DEF ReleaseAll, FreeNodes
<1>3. \A c \in Classes : FreeNodes(c)' = {} /\ InjectiveSeq(free'[c])
  BY DEF ReleaseAll, FreeNodes, InjectiveSeq
<1>4. HeldNodes' = HeldNodes /\ UNCHANGED allocated
  BY DEF ReleaseAll, HeldNodes
<1>5. MNoDoubleIssue'
  <2>1. UNCHANGED held
    BY DEF ReleaseAll
  <2>2. QED
    BY <1>3, <2>1 DEF AccountingInv, MNoDoubleIssue
<1>6. MNoLostBlock'
  BY <1>1, <1>2, <1>3, <1>4 DEF AccountingInv, MNoLostBlock
<1>7. QED
  BY <1>3, <1>5, <1>6 DEF Accounting, FreeListsInjective, FreedOnlyAtTeardown,
                          ReleaseAll

LEMMA StepAccounting == AccountingInv /\ [Next]_mvars => AccountingInv'
<1> SUFFICES ASSUME AccountingInv, [Next]_mvars PROVE AccountingInv'
  OBVIOUS
<1>1. RoutingInv'
  BY StepRouting DEF AccountingInv
<1>2. Accounting'
  <2>1. CASE Create
    BY <2>1, CreateAccounting
  <2>2. ASSUME NEW t \in Threads, NEW r \in Requests, PoolAlloc(t, r)
        PROVE  Accounting'
    <3> DEFINE c == FindIndex(AsUint32(r))
    <3>1. CASE UNCHANGED <<global, free, allocated, freed, held>>
      BY <3>1, UnchangedAccounting
    <3>2. CASE c \in Classes /\ ReuseBlock(t, r, c)
      BY <3>2, ReuseAccounting
    <3>3. CASE c \in Classes /\ FreshBlock(t, r, c)
      BY <3>3, FreshAccounting
    <3>4. QED
      BY <2>2, <3>1, <3>2, <3>3 DEF PoolAlloc, AcquireNullPool, mvars
  <2>3. CASE \E t \in Threads, b \in Block : PoolFree(t, b)
    BY <2>3, ReturnAccounting
  <2>4. CASE FreeAll
    <3>1. CASE ReleaseAll
      BY <3>1, ReleaseAllAccounting
    <3>2. CASE UNCHANGED <<global, free, allocated, freed, held>>
      BY <3>2, UnchangedAccounting
    <3>3. QED
      BY <2>4, <3>1, <3>2 DEF FreeAll
  <2>5. CASE Stopped \/ UNCHANGED mvars
    BY <2>5, UnchangedAccounting DEF Stopped, mvars
  <2>6. QED
    BY <2>1, <2>2, <2>3, <2>4, <2>5 DEF Next
<1>3. QED
  BY <1>1, <1>2 DEF AccountingInv, Accounting

-----------------------------------------------------------------------------

\* Routing: for every number of threads, nodes and size classes, a block a
\* caller holds always comes from the pool find_multipool_index_for_size
\* chooses for its request, and pool_mem_return, guided by the block's
\* back-reference, only ever puts a block on its own class's free list.
THEOREM RoutingCorrect == Spec => [](ServedFromItsClass /\ FreeListsHomogeneous)
<1>1. Init => RoutingInv
  BY InitRouting
<1>2. RoutingInv /\ [Next]_mvars => RoutingInv'
  BY StepRouting
<1>3. RoutingInv => ServedFromItsClass /\ FreeListsHomogeneous
  BY DEF RoutingInv
<1>4. QED
  BY <1>1, <1>2, <1>3, PTL DEF Spec

\* Type correctness of the multipool model.
THEOREM MultiPoolTypeCorrect == Spec => []MTypeOK
<1>1. RoutingInv => MTypeOK
  BY DEF RoutingInv
<1>2. QED
  BY InitRouting, StepRouting, <1>1, PTL DEF Spec

\* Accounting: for every number of threads, nodes and size classes, no
\* block is ever held by two callers or on two free lists, none is both
\* free and held, and every node alloc_poolable_mem made is held, free in
\* its pool or released by multipool_free.  With the pools taken as atomic
\* stacks, pool_alloc, pool_free and teardown neither duplicate nor leak a
\* block; the ABA double issue of MemPool is the only way to one.
THEOREM MultiPoolAccounting == Spec => [](MNoDoubleIssue /\ MNoLostBlock)
<1>1. AccountingInv => MNoDoubleIssue /\ MNoLostBlock
  BY DEF AccountingInv
<1>2. QED
  BY InitAccounting, StepAccounting, <1>1, PTL DEF Spec


\* pool_mem_return only ever pushes a block onto the free list of the class
\* it was allocated for, whatever the size-class configuration
\* (FreeListsHomogeneous, a corollary of RoutingCorrect).
THEOREM FreeListsHomogeneousHolds == Spec => []FreeListsHomogeneous
BY RoutingCorrect, PTL

\* Every node alloc_poolable_mem made is held by one caller, free in its
\* class's pool, or released by the destructor (MNoLostBlock, a corollary of
\* MultiPoolAccounting).
THEOREM NoLostBlockHolds == Spec => []MNoLostBlock
BY MultiPoolAccounting, PTL


-----------------------------------------------------------------------------

(***************************************************************************)
(* Refinement: every class's pool implements PoolStack.                    *)
(***************************************************************************)
\* The blocks a thread holds from class c's pool, requests forgotten.
HeldC(c, t) == {b.node : b \in held[t]} \cap ClassNodes(c)

\* The abstract state of class c's pool.
Mapped(c) == <<free[c], ClassNodes(c), freed \cap ClassNodes(c),
               global = "freed", [t \in Threads |-> HeldC(c, t)]>>

LEMMA MappedIsPvars ==
    ASSUME NEW c \in Classes
    PROVE  ClassPool(c)!pvars = Mapped(c)
BY DEF ClassPool!pvars, Mapped, HeldC

\* A step that leaves class c's abstract state alone is a stutter of it.
LEMMA ClassStutter ==
    ASSUME NEW c \in Classes, Mapped(c)' = Mapped(c)
    PROVE  [ClassPool(c)!PNext]_(ClassPool(c)!pvars)
<1>1. (ClassPool(c)!pvars)' = ClassPool(c)!pvars
  BY DEF ClassPool!pvars, Mapped, HeldC
<1>2. QED
  BY <1>1


\* Initially every class's pool is empty and has made no block.
LEMMA InitRefines == Init => \A c \in Classes : ClassPool(c)!PInit
BY DEF Init, ClassPool!PInit, ClassNodes

\* The nodes of a set of held blocks, one block added or removed.
LEMMA NodesAdd ==
    ASSUME NEW S, NEW x
    PROVE  {b.node : b \in S \cup {x}} = {b.node : b \in S} \cup {x.node}
OBVIOUS

LEMMA NodesRemove ==
    ASSUME NEW S, NEW x \in S, \A d \in S : d.node = x.node => d = x
    PROVE  {b.node : b \in S \ {x}} = {b.node : b \in S} \ {x.node}
OBVIOUS

\* The abstract held sets of class c as a function of the threads.
HeldMap(c) == [u \in Threads |-> HeldC(c, u)]

LEMMA HeldMapIsHeld ==
    ASSUME NEW c \in Classes
    PROVE  /\ HeldMap(c) = [u \in Threads |-> {b.node : b \in held[u]} \cap ClassNodes(c)]
           /\ HeldMap(c)' = [u \in Threads |-> {b.node : b \in held'[u]} \cap ClassNodes(c)']
BY DEF HeldMap, HeldC

\* pool_mem_acquire popping class cc's list: class cc's pool reuses its
\* top block, every other class's pool stutters.
LEMMA ReuseRefines ==
    ASSUME AccountingInv, NEW t \in Threads, NEW r \in Requests,
           NEW cc \in Classes, ReuseBlock(t, r, cc), global = "live",
           NEW c \in Classes
    PROVE  [ClassPool(c)!PNext]_(ClassPool(c)!pvars)
<1> DEFINE h == Head(free[cc])
<1>1. h \in allocated /\ owner[h] = cc
  <2>1. free[cc] \in Seq(allocated) /\ free[cc] # <<>>
    BY DEF AccountingInv, RoutingInv, MTypeOK, ReuseBlock
  <2>2. h \in FreeNodes(cc) /\ h \in allocated
    BY <2>1, HeadElem DEF FreeNodes
  <2>3. QED
    BY <2>2 DEF AccountingInv, RoutingInv, FreeListsHomogeneous
<1>2. held \in [Threads -> SUBSET Block]
      /\ held' = [held EXCEPT ![t] = @ \cup {[node |-> h, req |-> r]}]
      /\ UNCHANGED <<global, owner, allocated, freed>>
  BY DEF AccountingInv, RoutingInv, MTypeOK, ReuseBlock
<1>3. ClassNodes(c)' = ClassNodes(c)
  BY <1>2 DEF ClassNodes
<1>4. \A u \in Threads : HeldC(c, u)' =
         IF u = t /\ cc = c THEN HeldC(c, u) \cup {h} ELSE HeldC(c, u)
  <2> SUFFICES ASSUME NEW u \in Threads
               PROVE  HeldC(c, u)' =
                        IF u = t /\ cc = c THEN HeldC(c, u) \cup {h} ELSE HeldC(c, u)
    OBVIOUS
  <2>1. {b.node : b \in held'[u]} =
          IF u = t THEN {b.node : b \in held[u]} \cup {h} ELSE {b.node : b \in held[u]}
    <3>1. CASE u = t
      <4>1. held'[u] = held[t] \cup {[node |-> h, req |-> r]}
        BY <1>2, <3>1
      <4>2. {b.node : b \in held[t] \cup {[node |-> h, req |-> r]}}
              = {b.node : b \in held[t]} \cup {h}
        BY NodesAdd
      <4>3. QED
        BY <4>1, <4>2, <3>1
    <3>2. CASE u # t
      BY <1>2, <3>2
    <3>3. QED
      BY <3>1, <3>2
  <2>2. h \in ClassNodes(c) <=> cc = c
    BY <1>1 DEF ClassNodes
  <2>3. QED
    BY <1>3, <2>1, <2>2 DEF HeldC
<1>5. CASE cc = c
  <2>1. HeldMap(c)' = [HeldMap(c) EXCEPT ![t] = @ \cup {h}]
    BY <1>4, <1>5 DEF HeldMap
  <2>2. free'[c] = Tail(free[c]) /\ free[c] # <<>>
    BY <1>5 DEF ReuseBlock, AccountingInv, RoutingInv, MTypeOK
  <2>3. ClassPool(c)!AcquireReuse(t)
    BY <1>2, <1>3, <1>5, <2>1, <2>2, HeldMapIsHeld DEF ClassPool!AcquireReuse
  <2>4. QED
    BY <2>3 DEF ClassPool!PNext
<1>6. CASE cc # c
  <2>1. HeldMap(c)' = HeldMap(c)
    BY <1>4, <1>6 DEF HeldMap
  <2>2. free'[c] = free[c]
    BY <1>6 DEF ReuseBlock, AccountingInv, RoutingInv, MTypeOK
  <2>3. Mapped(c)' = Mapped(c)
    BY <1>2, <1>3, <2>1, <2>2 DEF Mapped, HeldMap
  <2>4. QED
    BY <2>3, ClassStutter
<1>7. QED
  BY <1>5, <1>6


\* pool_mem_acquire allocating for class cc: class cc's pool makes a fresh
\* block, every other class's pool stutters.
LEMMA FreshRefines ==
    ASSUME AccountingInv, NEW t \in Threads, NEW r \in Requests,
           NEW cc \in Classes, FreshBlock(t, r, cc), global = "live",
           NEW c \in Classes
    PROVE  [ClassPool(c)!PNext]_(ClassPool(c)!pvars)
<1>1. PICK n \in Nodes \ allocated :
          /\ allocated' = allocated \cup {n}
          /\ owner' = [owner EXCEPT ![n] = cc]
          /\ held' = [held EXCEPT ![t] = @ \cup {[node |-> n, req |-> r]}]
  BY DEF FreshBlock
<1>2. /\ UNCHANGED <<global, free, freed>>
      /\ owner \in [Nodes -> Classes \cup {NoClass}]
      /\ held \in [Threads -> SUBSET Block]
      /\ freed \subseteq allocated
      /\ \A u \in Threads : n \notin {b.node : b \in held[u]}
  BY DEF FreshBlock, AccountingInv, RoutingInv, MTypeOK, HeldOwned
<1>3. ClassNodes(c)' = IF cc = c THEN ClassNodes(c) \cup {n} ELSE ClassNodes(c)
  BY <1>1, <1>2 DEF ClassNodes
<1>4. (freed \cap ClassNodes(c))' = freed \cap ClassNodes(c)
  BY <1>2, <1>3
<1>5. \A u \in Threads : HeldC(c, u)' =
         IF u = t /\ cc = c THEN HeldC(c, u) \cup {n} ELSE HeldC(c, u)
  <2> SUFFICES ASSUME NEW u \in Threads
               PROVE  HeldC(c, u)' =
                        IF u = t /\ cc = c THEN HeldC(c, u) \cup {n} ELSE HeldC(c, u)
    OBVIOUS
  <2>1. {b.node : b \in held'[u]} =
          IF u = t THEN {b.node : b \in held[u]} \cup {n} ELSE {b.node : b \in held[u]}
    <3>1. CASE u = t
      <4>1. held'[u] = held[t] \cup {[node |-> n, req |-> r]}
        BY <1>1, <1>2, <3>1
      <4>2. {b.node : b \in held[t] \cup {[node |-> n, req |-> r]}}
              = {b.node : b \in held[t]} \cup {n}
        BY NodesAdd
      <4>3. QED
        BY <4>1, <4>2, <3>1
    <3>2. CASE u # t
      BY <1>1, <1>2, <3>2
    <3>3. QED
      BY <3>1, <3>2
  <2>2. n \notin {b.node : b \in held[u]}
    BY <1>2
  <2>3. CASE cc = c
    <3>1. ClassNodes(c)' = ClassNodes(c) \cup {n}
      BY <1>3, <2>3
    <3>2. QED
      BY <2>1, <2>2, <2>3, <3>1 DEF HeldC
  <2>4. CASE cc # c
    <3>1. ClassNodes(c)' = ClassNodes(c) /\ n \notin ClassNodes(c)
      BY <1>1, <1>3, <2>4 DEF ClassNodes
    <3>2. QED
      BY <2>1, <2>4, <3>1 DEF HeldC
  <2>5. QED
    BY <2>3, <2>4
<1>6. CASE cc = c
  <2>1. HeldMap(c)' = [HeldMap(c) EXCEPT ![t] = @ \cup {n}]
    BY <1>5, <1>6 DEF HeldMap
  <2>2. n \in Nodes \ ClassNodes(c) /\ ClassNodes(c)' = ClassNodes(c) \cup {n}
    BY <1>3, <1>6 DEF ClassNodes
  <2>3. ClassPool(c)!AcquireFresh(t)
    BY <1>2, <1>4, <2>1, <2>2, HeldMapIsHeld DEF ClassPool!AcquireFresh
  <2>4. QED
    BY <2>3 DEF ClassPool!PNext
<1>7. CASE cc # c
  <2>1. HeldMap(c)' = HeldMap(c)
    BY <1>5, <1>7 DEF HeldMap
  <2>2. Mapped(c)' = Mapped(c)
    BY <1>2, <1>3, <1>4, <1>7, <2>1 DEF Mapped, HeldMap
  <2>3. QED
    BY <2>2, ClassStutter
<1>8. QED
  BY <1>6, <1>7

\* pool_free of a block: the pool its back-reference names takes it back,
\* every other class's pool stutters.
LEMMA ReturnRefines ==
    ASSUME AccountingInv, NEW t \in Threads, NEW b \in Block, PoolFree(t, b),
           NEW c \in Classes
    PROVE  [ClassPool(c)!PNext]_(ClassPool(c)!pvars)
<1> DEFINE n == b.node
           oc == owner[b.node]
<1>1. /\ b \in held[t] /\ n \in allocated /\ oc \in Classes /\ n \in Nodes
      /\ \A d \in held[t] : d.node = n => d = b
  BY DEF PoolFree, AccountingInv, RoutingInv, HeldOwned, MNoDoubleIssue, Block
<1>2. /\ held \in [Threads -> SUBSET Block]
      /\ free \in [Classes -> Seq(allocated)]
      /\ held' = [held EXCEPT ![t] = @ \ {b}]
      /\ free' = [free EXCEPT ![oc] = <<n>> \o @]
      /\ UNCHANGED <<global, owner, allocated, freed>>
      /\ global = "live"
  BY DEF PoolFree, Live, AccountingInv, RoutingInv, MTypeOK
<1>3. ClassNodes(c)' = ClassNodes(c) /\ (freed \cap ClassNodes(c))' = freed \cap ClassNodes(c)
  BY <1>2 DEF ClassNodes
<1>4. \A u \in Threads : HeldC(c, u)' =
         IF u = t THEN HeldC(c, u) \ {n} ELSE HeldC(c, u)
  <2> SUFFICES ASSUME NEW u \in Threads
               PROVE  HeldC(c, u)' = IF u = t THEN HeldC(c, u) \ {n} ELSE HeldC(c, u)
    OBVIOUS
  <2>1. CASE u = t
    <3>1. held'[u] = held[t] \ {b}
      BY <1>2, <2>1
    <3>2. {d.node : d \in held[t] \ {b}} = {d.node : d \in held[t]} \ {n}
      BY <1>1, NodesRemove
    <3>3. QED
      BY <1>3, <2>1, <3>1, <3>2 DEF HeldC
  <2>2. CASE u # t
    BY <1>2, <1>3, <2>2 DEF HeldC
  <2>3. QED
    BY <2>1, <2>2
<1>5. CASE oc = c
  <2>1. n \in HeldC(c, t)
    BY <1>1, <1>5 DEF HeldC, ClassNodes
  <2>2. HeldMap(c)' = [HeldMap(c) EXCEPT ![t] = @ \ {n}]
    BY <1>4 DEF HeldMap
  <2>3. free'[c] = <<n>> \o free[c]
    BY <1>2, <1>5
  <2>4. n \in HeldMap(c)[t]
    BY <2>1 DEF HeldMap
  <2>5. ClassPool(c)!Release(t, n)
    BY <1>2, <1>3, <2>2, <2>3, <2>4, HeldMapIsHeld DEF ClassPool!Release
  <2>6. QED
    BY <1>1, <2>5 DEF ClassPool!PNext
<1>6. CASE oc # c
  <2>1. n \notin ClassNodes(c)
    BY <1>6 DEF ClassNodes
  <2>2. HeldMap(c)' = HeldMap(c)
    BY <1>4, <2>1 DEF HeldMap, HeldC
  <2>3. free'[c] = free[c]
    BY <1>2, <1>6
  <2>4. Mapped(c)' = Mapped(c)
    BY <1>2, <1>3, <2>2, <2>3 DEF Mapped, HeldMap
  <2>5. QED
    BY <2>4, ClassStutter
<1>7. QED
  BY <1>5, <1>6


\* multipool_free: every class's pool releases exactly its own free blocks.
LEMMA ReleaseAllRefines ==
    ASSUME AccountingInv, ReleaseAll, NEW c \in Classes
    PROVE  [ClassPool(c)!PNext]_(ClassPool(c)!pvars)
<1>1. /\ free \in [Classes -> Seq(allocated)]
      /\ allocated \subseteq Nodes
      /\ UNCHANGED <<owner, allocated, held>>
      /\ global = "live" /\ global' = "freed"
      /\ free' = [d \in Classes |-> <<>>]
  BY DEF ReleaseAll, AccountingInv, RoutingInv, MTypeOK
<1>2. ClassNodes(c)' = ClassNodes(c) /\ HeldMap(c)' = HeldMap(c)
  BY <1>1 DEF ClassNodes, HeldMap, HeldC
<1>3. freed' \cap ClassNodes(c) = FreeNodes(c)
  <2>1. freed' = {n \in Nodes : \E d \in Classes :
                                  \E i \in 1 .. Len(free[d]) : free[d][i] = n}
    BY DEF ReleaseAll
  <2>2. \A d \in Classes : \A n \in FreeNodes(d) : owner[n] = d /\ n \in allocated
    BY <1>1 DEF AccountingInv, RoutingInv, FreeListsHomogeneous, FreeNodes
  <2>3. QED
    BY <1>1, <2>1, <2>2 DEF FreeNodes, ClassNodes
<1>4. ClassPool(c)!Range(free[c]) = FreeNodes(c)
  BY <1>1 DEF ClassPool!Range, FreeNodes
<1>5. ClassPool(c)!Destroy
  BY <1>1, <1>2, <1>3, <1>4, HeldMapIsHeld DEF ClassPool!Destroy
<1>6. QED
  BY <1>5 DEF ClassPool!PNext

\* A step that changes none of the variables the abstract pools read.
LEMMA UnchangedRefines ==
    ASSUME UNCHANGED <<global, free, owner, allocated, freed, held>>,
           NEW c \in Classes
    PROVE  [ClassPool(c)!PNext]_(ClassPool(c)!pvars)
<1>1. Mapped(c)' = Mapped(c)
  BY DEF Mapped, HeldC, ClassNodes
<1>2. QED
  BY <1>1, ClassStutter

\* Every step of the multipool is, for each class, a step of that class's
\* abstract pool or a stutter of it.
LEMMA StepRefines ==
    ASSUME AccountingInv, [Next]_mvars, NEW c \in Classes
    PROVE  [ClassPool(c)!PNext]_(ClassPool(c)!pvars)
<1>1. CASE Create
  <2>1. UNCHANGED <<free, owner, allocated, freed, held>>
        /\ global = "unset" /\ global' \in {"null", "live"}
    BY <1>1 DEF Create
  <2>2. Mapped(c)' = Mapped(c)
    BY <2>1 DEF Mapped, HeldC, ClassNodes
  <2>3. QED
    BY <2>2, ClassStutter
<1>2. ASSUME NEW t \in Threads, NEW r \in Requests, PoolAlloc(t, r)
      PROVE  [ClassPool(c)!PNext]_(ClassPool(c)!pvars)
  <2> DEFINE cc == FindIndex(AsUint32(r))
  <2>1. CASE UNCHANGED <<global, free, owner, allocated, freed, held>>
    BY <2>1, UnchangedRefines
  <2>2. CASE global = "live" /\ cc \in Classes /\ ReuseBlock(t, r, cc)
    BY <2>2, ReuseRefines
  <2>3. CASE global = "live" /\ cc \in Classes /\ FreshBlock(t, r, cc)
    BY <2>3, FreshRefines
  <2>4. QED
    BY <1>2, <2>1, <2>2, <2>3 DEF PoolAlloc, AcquireNullPool, mvars
<1>3. CASE \E t \in Threads, b \in Block : PoolFree(t, b)
  BY <1>3, ReturnRefines
<1>4. CASE FreeAll
  <2>1. CASE ReleaseAll
    BY <2>1, ReleaseAllRefines
  <2>2. CASE UNCHANGED <<global, free, owner, allocated, freed, held>>
    BY <2>2, UnchangedRefines
  <2>3. QED
    BY <1>4, <2>1, <2>2 DEF FreeAll
<1>5. CASE Stopped \/ UNCHANGED mvars
  BY <1>5, UnchangedRefines DEF Stopped, mvars
<1>6. QED
  BY <1>1, <1>2, <1>3, <1>4, <1>5 DEF Next

\* Refinement: for every number of threads, nodes and size classes, each
\* class's MemPool, as pool_alloc, pool_free and the destructor drive it
\* through the multipool, behaves as the atomic LIFO pool PoolStack: its
\* blocks are only ever the ones its back-reference names, a returned block
\* goes onto its own pool's stack, and multipool_free releases exactly
\* that pool's free blocks.
THEOREM ClassesRefinePoolStack == Spec => ClassesImplementPoolStack
<1>1. Init => \A c \in Classes : ClassPool(c)!PInit
  BY InitRefines
<1>2. AccountingInv /\ [Next]_mvars =>
        [\A c \in Classes : [ClassPool(c)!PNext]_(ClassPool(c)!pvars)]_mvars
  BY StepRefines
<1>3. QED
  BY <1>1, <1>2, InitAccounting, StepAccounting, PTL
  DEF Spec, ClassesImplementPoolStack

=============================================================================
