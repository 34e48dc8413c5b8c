--------------------------- MODULE MC_GozlibBuffer ---------------------------
(* Model-checking instance of GozlibBuffer: the init results are negative  *)
(* integers, which a TLC configuration cannot write, so they are given     *)
(* here.                                                                   *)
EXTENDS GozlibBuffer

MCInitCodes == {Z_OK, Z_MEM_ERROR, Z_STREAM_ERROR}
=============================================================================
