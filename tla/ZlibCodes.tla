------------------------------ MODULE ZlibCodes ------------------------------
(***************************************************************************)
(* The return codes of zlib.h the wrapper tests for, and gozlib.h's own    *)
(* codes.                                                                  *)
(***************************************************************************)
EXTENDS Integers

Z_OK == 0
Z_STREAM_END == 1
Z_NEED_DICT == 2
Z_STREAM_ERROR == -2
Z_DATA_ERROR == -3
Z_MEM_ERROR == -4
Z_BUF_ERROR == -5
Z_VERSION_ERROR == -6

\* GOZLIB_CUSTOM_CODE_BASE and the two codes built on it.
GOZLIB_CUSTOM_CODE_BASE == 1024
GOZLIB_STREAM_OUTPUT_WRITE_ERROR == -(GOZLIB_CUSTOM_CODE_BASE + 1)
GOZLIB_STREAM_OUTPUT_HAS_MORE_DATA == GOZLIB_CUSTOM_CODE_BASE + 1

=============================================================================
