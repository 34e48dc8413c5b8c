--------------------------- MODULE MemPool_proofs ---------------------------
(***************************************************************************)
(* Proofs about the MemPool model that hold for every set of threads and   *)
(* node addresses and every counter width.                                 *)
(***************************************************************************)
EXTENDS MemPool, FiniteSetTheorems, TLAPS

\* The counter modulus 2^CounterBits is a positive natural.
LEMMA CounterModulusPositive == CounterModulus \in Nat \ {0}
BY ConstantsAssumption DEF CounterModulus

\* Reducing any integer modulo the counter width yields a counter value.
LEMMA ModInRange ==
    ASSUME NEW x \in Int
    PROVE  x % CounterModulus \in 0 .. CounterModulus - 1
BY CounterModulusPositive, SMT

\* pool_mem_free_all frees a finite number of nodes.
LEMMA FreeLenType == FreeLen \in Nat
<1>1. FreeSet \subseteq Nodes
  BY DEF FreeSet
<1>2. QED
  BY <1>1, ConstantsAssumption, FS_Subset, FS_CardinalityType DEF FreeLen

-----------------------------------------------------------------------------

\* Type correctness, including that every pointer of the pool and of the
\* threads' CAS loops refers to a node malloc returned: nodes are released
\* only by free_mem_pool, so the unsynchronised previous_head->next load
\* never reads memory that is not a MemNode.
THEOREM TypeCorrect == Spec => []TypeOK
<1>1. Init => TypeOK
  <2> SUFFICES ASSUME Init PROVE TypeOK
    OBVIOUS
  <2>1. 0 \in 0 .. CounterModulus - 1
    BY CounterModulusPositive
  <2>2. QED
    BY <2>1 DEF Init, TypeOK, Ptr, PC
<1>2. TypeOK /\ [Next]_vars => TypeOK'
  <2> SUFFICES ASSUME TypeOK, [Next]_vars PROVE TypeOK'
    OBVIOUS
  <2> USE DEF TypeOK, Ptr, PC
  <2>1. ASSUME NEW t \in Threads, AcqLoadHead(t) PROVE TypeOK'
    BY <2>1 DEF AcqLoadHead
  <2>2. ASSUME NEW t \in Threads, AcqAllocOk(t) PROVE TypeOK'
    <3>1. PICK n \in Nodes \ allocated :
              /\ allocated' = allocated \cup {n}
              /\ next' = [next EXCEPT ![n] = NULL]
              /\ held' = [held EXCEPT ![t] = @ \cup {n}]
      BY <2>2 DEF AcqAllocOk
    <3>2. num_allocs' \in 0 .. CounterModulus - 1
      BY <2>2, ModInRange DEF AcqAllocOk
    <3>3. \A m \in allocated' : next'[m] \in allocated' \cup {NULL}
      BY <3>1
    <3>4. QED
      BY <2>2, <3>1, <3>2, <3>3 DEF AcqAllocOk
  <2>3. ASSUME NEW t \in Threads, AcqAllocFail(t) PROVE TypeOK'
    BY <2>3 DEF AcqAllocFail
  <2>4. ASSUME NEW t \in Threads, AcqLoadNext(t) PROVE TypeOK'
    BY <2>4 DEF AcqLoadNext
  <2>5. ASSUME NEW t \in Threads, AcqCAS(t) PROVE TypeOK'
    BY <2>5 DEF AcqCAS
  <2>6. ASSUME NEW t \in Threads, AcqTrack(t) PROVE TypeOK'
    <3>1. num_available' \in 0 .. CounterModulus - 1
      BY <2>6, ModInRange DEF AcqTrack
    <3>2. QED
      BY <2>6, <3>1 DEF AcqTrack
  <2>7. ASSUME NEW t \in Threads, RetLoadHead(t) PROVE TypeOK'
    BY <2>7 DEF RetLoadHead
  <2>8. ASSUME NEW t \in Threads, RetStoreNext(t) PROVE TypeOK'
    BY <2>8 DEF RetStoreNext
  <2>9. ASSUME NEW t \in Threads, RetCAS(t) PROVE TypeOK'
    BY <2>9 DEF RetCAS
  <2>10. ASSUME NEW t \in Threads, RetTrack(t) PROVE TypeOK'
    <3>1. num_available' \in 0 .. CounterModulus - 1
      BY <2>10, ModInRange DEF RetTrack
    <3>2. QED
      BY <2>10, <3>1 DEF RetTrack
  <2>11. ASSUME NEW t \in Threads, NEW n \in Nodes, RetBegin(t, n)
         PROVE TypeOK'
    BY <2>11 DEF RetBegin
  <2>12. CASE FreeMemPool
    <3>1. num_available' \in 0 .. CounterModulus - 1
      BY <2>12, FreeLenType, ModInRange DEF FreeMemPool
    <3>2. freed' \subseteq Nodes
      BY <2>12 DEF FreeMemPool, FreeSet
    <3>3. QED
      BY <2>12, <3>1, <3>2 DEF FreeMemPool
  <2>13. CASE Finished
    BY <2>13 DEF Finished, vars
  <2>14. CASE UNCHANGED vars
    BY <2>14 DEF vars
  <2>15. QED
    BY <2>1, <2>2, <2>3, <2>4, <2>5, <2>6, <2>7, <2>8, <2>9, <2>10,
       <2>11, <2>12, <2>13, <2>14 DEF Next
<1>3. QED
  BY <1>1, <1>2, PTL DEF Spec

=============================================================================
