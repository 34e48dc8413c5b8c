----------------------------- MODULE GozlibBuffer -----------------------------
(***************************************************************************)
(* One call of the one-shot functions of gozlib.c: compress_buffer (behind *)
(* zlib_compress_buffer and gzip_compress_buffer) and                      *)
(* uncompress_buffer_any, each a single deflate / inflate call with        *)
(* Z_FINISH between an init and an end.                                    *)
(*                                                                         *)
(* zlib is the environment.  Bytes are abstracted to lengths: the caller's *)
(* output capacity, the length of the complete compressed output           *)
(* (compression) and, for decompression, what the input is (a complete    *)
(* stream, a truncated one, one corrupt after some output, one asking for  *)
(* a dictionary) and how long its output is.  zlib's result is any one its *)
(* documentation allows for that input.                                    *)
(***************************************************************************)
EXTENDS ZlibCodes, Integers

CONSTANTS
    Ops,        \* the calls a run may make: "compress", "uncompress"
    MaxLen,     \* bound on every length (input, output, capacity)
    InitCodes   \* what deflateInit2 / inflateInit2 may return

ASSUME BufferAssumption ==
    /\ Ops \subseteq {"compress", "uncompress"}
    /\ MaxLen \in Nat \ {0}
    /\ Z_OK \in InitCodes
    /\ InitCodes \subseteq {Z_OK, Z_MEM_ERROR, Z_STREAM_ERROR, Z_VERSION_ERROR}

\* What the bytes given to uncompress_buffer_any are.
Kinds == {"valid", "truncated", "corrupt", "dict"}

VARIABLES
    op,          \* the call made
    pc,          \* "call" before it, "done" after it
    output_len,  \* the caller's output capacity
    need,        \* compression: length of the complete compressed output
    kind,        \* decompression: what the input is
    size,        \* decompression: output length of the stream's readable part
    input_len,   \* decompression: length of the compressed input
    init_res,    \* what the init call returned
    zs_avail_in, \* zs.avail_in after the zlib call
    error_code,  \* *error_code, which the caller set to Z_OK
    out_len      \* the value the function returned

bvars == <<op, pc, output_len, need, kind, size, input_len, init_res,
           zs_avail_in, error_code, out_len>>

Len1 == 1 .. MaxLen

Init ==
    /\ op \in Ops
    /\ pc = "call"
    /\ output_len \in 0 .. MaxLen
    /\ need \in Len1
    /\ kind \in Kinds
    /\ size \in Len1
    /\ input_len \in Len1
    /\ init_res = Z_OK
    /\ zs_avail_in = 0
    /\ error_code = Z_OK
    /\ out_len = 0

(***************************************************************************)
(* zlib's answers.  deflate with Z_FINISH ends the stream when the output  *)
(* fits; with some room it fills it and returns Z_OK; with none it cannot  *)
(* progress (Z_BUF_ERROR).  inflate with Z_FINISH ends a complete stream   *)
(* that fits; when the output fills first it returns Z_BUF_ERROR with      *)
(* input left (the trailer at least); on a truncated stream it consumes    *)
(* everything and returns Z_BUF_ERROR; on corrupt data Z_DATA_ERROR after  *)
(* the output before the corruption; on a dictionary request Z_NEED_DICT   *)
(* at once; and when it must keep a window and cannot allocate one,        *)
(* Z_MEM_ERROR.                                                            *)
(***************************************************************************)
DeflateResults ==
    IF need <= output_len THEN {[code |-> Z_STREAM_END, total_out |-> need]}
    ELSE IF output_len = 0 THEN {[code |-> Z_BUF_ERROR, total_out |-> 0]}
    ELSE {[code |-> Z_OK, total_out |-> output_len]}

\* The output stops at the capacity with input left over, or at produced.
Stopped(code, produced, left) ==
    IF produced <= output_len
    THEN {[code |-> code, total_out |-> produced, avail_in |-> a] : a \in left}
    ELSE {[code |-> Z_BUF_ERROR, total_out |-> output_len, avail_in |-> a] :
            a \in 1 .. input_len}

InflateResults ==
    LET ends == CASE kind = "valid" ->
                       IF size <= output_len
                       THEN {[code |-> Z_STREAM_END, total_out |-> size, avail_in |-> 0]}
                       ELSE Stopped(Z_BUF_ERROR, size, {})
                  [] kind = "truncated" ->
                       UNION {Stopped(Z_BUF_ERROR, p, {0}) : p \in 0 .. size}
                  [] kind = "corrupt" ->
                       UNION {Stopped(Z_DATA_ERROR, p, 0 .. input_len - 1) :
                                p \in 0 .. size}
                  [] kind = "dict" ->
                       {[code |-> Z_NEED_DICT, total_out |-> 0, avail_in |-> a] :
                          a \in 0 .. input_len - 1}
    IN  ends \cup {[r EXCEPT !.code = Z_MEM_ERROR] :
                     r \in {e \in ends : e.code = Z_BUF_ERROR}}

(***************************************************************************)
(* Faulty variants of the result mappings below, for the mutation runs.    *)
(***************************************************************************)
\* compress_buffer without the Z_OK to Z_MEM_ERROR mapping of line 99.
CompressResultNoMemError(code, total) ==
    IF code # Z_STREAM_END THEN [ec |-> code, len |-> 0]
    ELSE [ec |-> error_code, len |-> total]

\* uncompress_buffer_any testing only for negative codes, so that
\* Z_NEED_DICT (positive) passes as success.
UncompressResultNegativeOnly(code, total, avail) ==
    IF code < Z_OK
    THEN [ec |-> IF code = Z_OK THEN Z_MEM_ERROR ELSE code,
          len |-> IF code # Z_DATA_ERROR THEN avail ELSE total]
    ELSE [ec |-> error_code, len |-> total]

\* A failed init returning its code where the length is expected.
InitFailsReturnCode(code) ==
    /\ code # Z_OK
    /\ init_res' = code
    /\ error_code' = code
    /\ out_len' = code
    /\ UNCHANGED zs_avail_in

\* uncompress_buffer_any returning total_out on every error.
UncompressResultNoHint(code, total, avail) ==
    IF code # Z_STREAM_END
    THEN [ec |-> IF code = Z_OK THEN Z_MEM_ERROR ELSE code, len |-> total]
    ELSE [ec |-> error_code, len |-> total]

-----------------------------------------------------------------------------

\* compress_buffer after deflate: anything but Z_STREAM_END is an error,
\* Z_OK (output too small) reported as Z_MEM_ERROR, and the length is 0.
CompressResult(code, total) ==
    IF code # Z_STREAM_END
    THEN [ec |-> IF code = Z_OK THEN Z_MEM_ERROR ELSE code, len |-> 0]
    ELSE [ec |-> error_code, len |-> total]

\* uncompress_buffer_any after inflate: the same mapping, but the length is
\* total_out only on success and on Z_DATA_ERROR, and zs.avail_in (the
\* input still to decompress) otherwise.
UncompressResult(code, total, avail) ==
    IF code # Z_STREAM_END
    THEN [ec |-> IF code = Z_OK THEN Z_MEM_ERROR ELSE code,
          len |-> IF code # Z_DATA_ERROR THEN avail ELSE total]
    ELSE [ec |-> error_code, len |-> total]

\* deflateInit2 / inflateInit2 failing: the code is stored, 0 returned.
InitFails(code) ==
    /\ code # Z_OK
    /\ init_res' = code
    /\ error_code' = code
    /\ out_len' = 0
    /\ UNCHANGED zs_avail_in

CompressBuffer ==
    /\ pc = "call"
    /\ op = "compress"
    /\ \E code \in InitCodes :
          \/ InitFails(code)
          \/ /\ code = Z_OK
             /\ \E r \in DeflateResults :
                  LET res == CompressResult(r.code, r.total_out)
                  IN  /\ error_code' = res.ec
                      /\ out_len' = res.len
             /\ UNCHANGED <<init_res, zs_avail_in>>
    /\ pc' = "done"
    /\ UNCHANGED <<op, output_len, need, kind, size, input_len>>

UncompressBuffer ==
    /\ pc = "call"
    /\ op = "uncompress"
    /\ \E code \in InitCodes :
          \/ InitFails(code)
          \/ /\ code = Z_OK
             /\ \E r \in InflateResults :
                  LET res == UncompressResult(r.code, r.total_out, r.avail_in)
                  IN  /\ zs_avail_in' = r.avail_in
                      /\ error_code' = res.ec
                      /\ out_len' = res.len
             /\ UNCHANGED init_res
    /\ pc' = "done"
    /\ UNCHANGED <<op, output_len, need, kind, size, input_len>>

\* The call has returned.
Returned ==
    /\ pc = "done"
    /\ UNCHANGED bvars

Next == CompressBuffer \/ UncompressBuffer \/ Returned

BSpec == Init /\ [][Next]_bvars

-----------------------------------------------------------------------------

BTypeOK ==
    /\ op \in {"compress", "uncompress"}
    /\ pc \in {"call", "done"}
    /\ output_len \in 0 .. MaxLen
    /\ kind \in Kinds
    /\ zs_avail_in \in 0 .. MaxLen
    /\ error_code \in Int
    /\ out_len \in 0 .. MaxLen

\* A compression either succeeds, leaving *error_code Z_OK and returning the
\* whole compressed length, or fails with a non-zero code and returns 0: a
\* caller can tell an output buffer that was too small (test_direct.c's
\* small-buffer test) from a success by either result.
CompressFaithful ==
    (pc = "done" /\ op = "compress") =>
        \/ error_code = Z_OK /\ out_len = need /\ need <= output_len
        \/ error_code # Z_OK /\ out_len = 0

\* A decompression that leaves *error_code at Z_OK has decompressed a
\* complete stream into the caller's buffer and returns its whole length.
UncompressSuccessComplete ==
    (pc = "done" /\ op = "uncompress" /\ error_code = Z_OK) =>
        kind = "valid" /\ size <= output_len /\ out_len = size

\* gozlib.h: when the output buffer is too small, *error_code is zlib's
\* error and the result is the number of bytes still to be decompressed,
\* which is never 0 (test_direct.c checks it is more than one).
SmallOutputHint ==
    (pc = "done" /\ op = "uncompress" /\ init_res = Z_OK
       /\ kind = "valid" /\ size > output_len) =>
        /\ error_code \in {Z_BUF_ERROR, Z_MEM_ERROR}
        /\ out_len = zs_avail_in
        /\ out_len > 0

\* test_direct.c and the comment of line 142: invalid input gives
\* Z_DATA_ERROR and a result of 0.
InvalidInputReturnsZero ==
    (pc = "done" /\ error_code = Z_DATA_ERROR) => out_len = 0

=============================================================================
