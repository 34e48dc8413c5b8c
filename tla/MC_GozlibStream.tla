--------------------------- MODULE MC_GozlibStream ---------------------------
(* Model-checking instance of GozlibStream.                               *)
EXTENDS GozlibStream

\* deflateInit2 / inflateInit2 succeeding, or failing for lack of memory.
MCInitCodes == {Z_OK, Z_MEM_ERROR}
=============================================================================
