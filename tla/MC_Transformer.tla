--------------------------- MODULE MC_Transformer ---------------------------
(* The transformer model on two Go handles and two addresses per pool, the *)
(* blocks the two can hold at once.                                        *)
EXTENDS Transformer, TLC

\* Every init result the environment can give.
MCInitCodes == {Z_OK, Z_MEM_ERROR, Z_STREAM_ERROR}

\* Only Z_OK, and a level zlib rejects (Z_STREAM_ERROR).
MCInitBadLevel == {Z_OK, Z_STREAM_ERROR}

\* Every init succeeds.
MCInitOk == {Z_OK}

\* Handles, and the addresses of one pool, are interchangeable.
MCSymmetry == Permutations(Handles) \cup Permutations(TransformerNodes)
                \cup Permutations(ZStreamNodes) \cup Permutations(StateNodes)
                \cup Permutations(WorkNodes)
=============================================================================
