----------------------------- MODULE MC_MemPool -----------------------------
(* Model-checking instance of MemPool: thread and node addresses are model *)
(* values, and both sets are symmetric because the pool only compares      *)
(* pointers for equality.                                                  *)
EXTENDS MemPool, TLC

MCSymmetry == Permutations(Threads) \cup Permutations(Nodes)
=============================================================================
