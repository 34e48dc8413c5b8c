---------------------------- MODULE GozlibStream ----------------------------
(***************************************************************************)
(* One call of compress_stream (zlib_compress_stream / gzip_compress_stream)*)
(* or uncompress_stream_any in gozlib.c, with the loops it runs:           *)
(* compress_to_outstream, and uncompress_to_outstream around               *)
(* uncompress_to_outstream_step.                                           *)
(*                                                                         *)
(* zlib and the two StreamDataHandler callbacks are the environment.  The  *)
(* input handler hands out InputChunks non-empty chunks and then 0.  Each  *)
(* deflate / inflate call reports how much of the work output buffer it   *)
(* filled ("none", "part" or "full"), and the model restricts its return   *)
(* code to what zlib's documentation allows for that outcome.  The         *)
(* compressed input of a decompression ends in chunk endAt (0: the input   *)
(* is truncated) and may be invalid from chunk badAt on (0: it is valid).  *)
(* Bytes are abstracted away; only control and codes are kept.             *)
(***************************************************************************)
EXTENDS ZlibCodes, Integers, Sequences

CONSTANTS
    Ops,            \* the calls a run may make: "compress", "uncompress"
    InputChunks,    \* non-empty chunks the input handler returns before 0
    MaxFull,        \* bound on consecutive calls that fill the output buffer
    InitCodes,      \* what deflateInit2 / inflateInit2 may return
    AllocResults,   \* what pool_alloc of a work buffer may return
    OutputMayFail,  \* whether the output handler may return 0
    EndChunks,      \* the chunks in which the compressed input may end
    BadChunks       \* the chunks from which it may be invalid

ASSUME StreamAssumption ==
    /\ Ops \subseteq {"compress", "uncompress"}
    /\ InputChunks \in Nat
    /\ MaxFull \in Nat
    /\ Z_OK \in InitCodes
    /\ InitCodes \subseteq {Z_OK, Z_MEM_ERROR, Z_STREAM_ERROR, Z_VERSION_ERROR}
    /\ AllocResults \subseteq {"block", "null"}
    /\ OutputMayFail \in BOOLEAN
    /\ EndChunks \subseteq 0 .. InputChunks
    /\ BadChunks \subseteq 0 .. InputChunks

VARIABLES
    op,          \* the call being made
    pc,          \* where the call is
    inbuf,       \* input_buf: "unset" before pool_alloc, then its result
    outbuf,      \* output_buf
    released,    \* the pointers passed to pool_free, in order
    chunk,       \* how many chunks the input handler has returned
    avail_in,    \* zs.avail_in > 0
    full,        \* consecutive zlib calls of this inner loop that filled output_buf
    ret,         \* the code the inner function returned
    ended,       \* inflate has reported Z_STREAM_END
    endAt,       \* the chunk in which the compressed input ends (0: never)
    badAt,       \* the chunk from which it is invalid (0: never)
    failure,     \* the first failure zlib or a handler reported, as a code
    error_code   \* *error_code, which the caller set to Z_OK

svars == <<op, pc, inbuf, outbuf, released, chunk, avail_in, full, ret,
           ended, endAt, badAt, failure, error_code>>

PCs == {"init", "alloc", "read", "zlib", "after", "release", "done", "crashed"}

\* How much of the output buffer a zlib call fills; a full buffer makes the
\* loop call zlib again, which zlib's finite pending output bounds.
Outs == IF full < MaxFull THEN {"none", "part", "full"} ELSE {"none", "part"}

\* The first failure wins: zlib's or a handler's report, as the error code
\* the caller is documented (and tested) to see.
Fail(code) == IF failure = Z_OK THEN code ELSE failure

Init ==
    /\ op \in Ops
    /\ pc = "init"
    /\ inbuf = "unset"
    /\ outbuf = "unset"
    /\ released = <<>>
    /\ chunk = 0
    /\ avail_in = FALSE
    /\ full = 0
    /\ ret = Z_OK
    /\ ended = FALSE
    /\ endAt \in EndChunks
    /\ badAt \in BadChunks
    /\ failure = Z_OK
    /\ error_code = Z_OK

(***************************************************************************)
(* Faulty variants of the operations below, each a plausible slip in the   *)
(* C code; the mutation runs substitute one for its original.              *)
(***************************************************************************)
\* is_inflate_result_fatal without its Z_NEED_DICT case.
IsInflateResultFatalNoDict(code) ==
    code \in {Z_DATA_ERROR, Z_STREAM_ERROR, Z_MEM_ERROR}

\* A failed init going to the common cleanup, which frees the work buffers
\* before they were ever allocated.
InitStreamFailCleanup ==
    /\ pc = "init"
    /\ \E code \in InitCodes :
          IF code = Z_OK
          THEN /\ pc' = "alloc"
               /\ UNCHANGED <<failure, error_code>>
          ELSE /\ pc' = "release"
               /\ failure' = code
               /\ error_code' = code
    /\ UNCHANGED <<op, inbuf, outbuf, released, chunk, avail_in, full, ret,
                   ended, endAt, badAt>>

\* Only the input buffer handed back to the pool.
ReleaseInputOnly ==
    /\ pc = "release"
    /\ released' = <<inbuf>>
    /\ pc' = IF inbuf = "null" THEN "crashed" ELSE "done"
    /\ UNCHANGED <<op, inbuf, outbuf, chunk, avail_in, full, ret, ended,
                   endAt, badAt, failure, error_code>>

\* uncompress_stream_any's loop without its trailing input_handler call:
\* the same input is offered to inflate again and again.
UncompressAfterNoRead ==
    /\ pc = "after"
    /\ op = "uncompress"
    /\ \/ /\ ret < Z_OK
          /\ error_code' = ret
          /\ pc' = "release"
       \/ /\ ret = Z_STREAM_END
          /\ pc' = "release"
          /\ UNCHANGED error_code
       \/ /\ ret >= Z_OK
          /\ ret # Z_STREAM_END
          /\ pc' = "zlib"
          /\ UNCHANGED error_code
    /\ UNCHANGED <<op, inbuf, outbuf, released, chunk, avail_in, full, ret,
                   ended, endAt, badAt, failure>>

\* compress_stream recording an error but carrying on with the next input.
CompressAfterNoStop ==
    /\ pc = "after"
    /\ op = "compress"
    /\ error_code' = IF ret < Z_OK THEN ret ELSE error_code
    /\ pc' = IF avail_in THEN "read" ELSE "release"
    /\ UNCHANGED <<op, inbuf, outbuf, released, chunk, avail_in, full, ret,
                   ended, endAt, badAt, failure>>

-----------------------------------------------------------------------------

\* is_inflate_result_fatal.
IsInflateResultFatal(code) ==
    code \in {Z_DATA_ERROR, Z_STREAM_ERROR, Z_MEM_ERROR, Z_NEED_DICT}

\* deflateInit2 / inflateInit2; on failure the call returns 0 at once.
InitStream ==
    /\ pc = "init"
    /\ \E code \in InitCodes :
          IF code = Z_OK
          THEN /\ pc' = "alloc"
               /\ UNCHANGED <<failure, error_code>>
          ELSE /\ pc' = "done"
               /\ failure' = code
               /\ error_code' = code
    /\ UNCHANGED <<op, inbuf, outbuf, released, chunk, avail_in, full, ret,
                   ended, endAt, badAt>>

\* The two pool_alloc calls for the work buffers; neither result is checked.
AllocBuffers ==
    /\ pc = "alloc"
    /\ inbuf' \in AllocResults
    /\ outbuf' \in AllocResults
    /\ pc' = "read"
    /\ UNCHANGED <<op, released, chunk, avail_in, full, ret, ended, endAt,
                   badAt, failure, error_code>>

(***************************************************************************)
(* input_handler(state, input_buf, cap).  A handler with data to give      *)
(* copies it into input_buf, so a NULL buffer crashes the process.         *)
(* compress_stream then always calls compress_to_outstream (Z_FINISH once  *)
(* the input is exhausted); uncompress_stream_any's while test stops at    *)
(* avail_in == 0.                                                          *)
(***************************************************************************)
ReadInput ==
    /\ pc = "read"
    /\ IF chunk < InputChunks /\ inbuf = "null"
       THEN /\ pc' = "crashed"
            /\ UNCHANGED <<chunk, avail_in>>
       ELSE /\ avail_in' = (chunk < InputChunks)
            /\ chunk' = IF chunk < InputChunks THEN chunk + 1 ELSE chunk
            /\ pc' = IF op = "uncompress" /\ ~avail_in' THEN "release" ELSE "zlib"
    /\ full' = 0
    /\ UNCHANGED <<op, inbuf, outbuf, released, ret, ended, endAt, badAt,
                   failure, error_code>>

(***************************************************************************)
(* One iteration of compress_to_outstream: deflate(zs, flush) into the     *)
(* work output buffer, the output handler on what it produced, and the     *)
(* loop test avail_out > 0.  deflate refuses a NULL next_out (or a NULL    *)
(* next_in with input) with Z_STREAM_ERROR.  With Z_FINISH it returns      *)
(* Z_STREAM_END unless it filled the buffer; with Z_NO_FLUSH, Z_OK.        *)
(***************************************************************************)
CompressStep ==
    /\ pc = "zlib"
    /\ op = "compress"
    /\ IF outbuf = "null" \/ (avail_in /\ inbuf = "null")
       THEN /\ ret' = Z_STREAM_ERROR
            /\ failure' = Fail(Z_STREAM_ERROR)
            /\ pc' = "after"
            /\ UNCHANGED full
       ELSE \E out \in Outs, written \in IF OutputMayFail THEN BOOLEAN ELSE {TRUE} :
              LET code == IF ~avail_in /\ out # "full" THEN Z_STREAM_END ELSE Z_OK
              IN  IF out # "none" /\ ~written
                  THEN /\ ret' = GOZLIB_STREAM_OUTPUT_WRITE_ERROR
                       /\ failure' = Fail(GOZLIB_STREAM_OUTPUT_WRITE_ERROR)
                       /\ pc' = "after"
                       /\ UNCHANGED full
                  ELSE IF out = "full"
                  THEN /\ full' = full + 1
                       /\ UNCHANGED <<ret, failure, pc>>
                  ELSE /\ ret' = code
                       /\ pc' = "after"
                       /\ UNCHANGED <<full, failure>>
    /\ UNCHANGED <<op, inbuf, outbuf, released, chunk, avail_in, ended, endAt,
                   badAt, error_code>>

\* compress_stream after compress_to_outstream: an error ends the loop and
\* is stored; otherwise the loop goes on while there was input.
CompressAfter ==
    /\ pc = "after"
    /\ op = "compress"
    /\ IF ret < Z_OK
       THEN /\ error_code' = ret
            /\ pc' = "release"
       ELSE /\ pc' = IF avail_in THEN "read" ELSE "release"
            /\ UNCHANGED error_code
    /\ UNCHANGED <<op, inbuf, outbuf, released, chunk, avail_in, full, ret,
                   ended, endAt, badAt, failure>>

(***************************************************************************)
(* One call of uncompress_to_outstream_step, and the HAS_MORE_DATA loop of *)
(* uncompress_to_outstream around it.  inflate(zs, Z_NO_FLUSH) refuses     *)
(* NULL buffers with Z_STREAM_ERROR; once the stream has ended it returns  *)
(* Z_STREAM_END and produces nothing; on invalid input it returns          *)
(* Z_DATA_ERROR, or Z_NEED_DICT, again on every call, when the header in   *)
(* the first chunk asks for a dictionary;                                  *)
(* otherwise it returns Z_STREAM_END when it has drained the chunk holding *)
(* the end, or Z_OK / Z_BUF_ERROR (no progress).  A fatal code is returned *)
(* (Z_NEED_DICT as Z_DATA_ERROR); the output handler gets what was          *)
(* produced; the step returns Z_OK if the buffer has room left and         *)
(* HAS_MORE_DATA, which repeats the step, if it is full.                    *)
(***************************************************************************)
InflateOutcomes ==
    IF outbuf = "null" \/ (avail_in /\ inbuf = "null")
    THEN {[code |-> Z_STREAM_ERROR, out |-> "none"]}
    ELSE IF ended THEN {[code |-> Z_STREAM_END, out |-> "none"]}
    ELSE IF badAt # 0 /\ chunk >= badAt
    THEN {[code |-> c, out |-> "none"] :
            c \in {Z_DATA_ERROR} \cup (IF badAt = 1 THEN {Z_NEED_DICT} ELSE {})}
    ELSE {[code |-> IF chunk = endAt /\ o # "full" THEN Z_STREAM_END ELSE Z_OK,
           out |-> o] : o \in Outs}
         \cup (IF chunk = endAt THEN {} ELSE {[code |-> Z_BUF_ERROR, out |-> "none"]})

\* The results zlib.h documents as errors of inflate, and the code a caller
\* is to see for each (a missing dictionary counts as invalid data).
InflateErrors == {Z_NEED_DICT, Z_DATA_ERROR, Z_STREAM_ERROR, Z_MEM_ERROR}

Reported(code) == IF code = Z_NEED_DICT THEN Z_DATA_ERROR ELSE code

UncompressStep ==
    /\ pc = "zlib"
    /\ op = "uncompress"
    /\ \E r \in InflateOutcomes, written \in IF OutputMayFail THEN BOOLEAN ELSE {TRUE} :
         LET writeFails == ~IsInflateResultFatal(r.code) /\ r.out # "none" /\ ~written
         IN
         /\ ended' = (ended \/ r.code = Z_STREAM_END)
         /\ failure' = IF r.code \in InflateErrors THEN Fail(Reported(r.code))
                       ELSE IF writeFails THEN Fail(GOZLIB_STREAM_OUTPUT_WRITE_ERROR)
                       ELSE failure
         /\ IF IsInflateResultFatal(r.code)
            THEN /\ ret' = IF r.code = Z_NEED_DICT THEN Z_DATA_ERROR ELSE r.code
                 /\ pc' = "after"
                 /\ UNCHANGED full
            ELSE IF writeFails
            THEN /\ ret' = GOZLIB_STREAM_OUTPUT_WRITE_ERROR
                 /\ pc' = "after"
                 /\ UNCHANGED full
            ELSE IF r.out = "full"
            THEN /\ full' = full + 1
                 /\ UNCHANGED <<ret, pc>>
            ELSE /\ ret' = Z_OK
                 /\ pc' = "after"
                 /\ UNCHANGED full
    /\ UNCHANGED <<op, inbuf, outbuf, released, chunk, avail_in, endAt, badAt,
                   error_code>>

\* uncompress_stream_any after uncompress_to_outstream: an error is stored
\* and ends the loop, as does Z_STREAM_END; otherwise the input handler is
\* called again.
UncompressAfter ==
    /\ pc = "after"
    /\ op = "uncompress"
    /\ \/ /\ ret < Z_OK
          /\ error_code' = ret
          /\ pc' = "release"
       \/ /\ ret = Z_STREAM_END
          /\ pc' = "release"
          /\ UNCHANGED error_code
       \/ /\ ret >= Z_OK
          /\ ret # Z_STREAM_END
          /\ pc' = "read"
          /\ UNCHANGED error_code
    /\ UNCHANGED <<op, inbuf, outbuf, released, chunk, avail_in, full, ret,
                   ended, endAt, badAt, failure>>

\* deflateEnd / inflateEnd, then pool_free(input_buf) and
\* pool_free(output_buf); get_memnode_in_data dereferences a NULL pointer.
ReleaseBuffers ==
    /\ pc = "release"
    /\ released' = <<inbuf, outbuf>>
    /\ pc' = IF inbuf = "null" \/ outbuf = "null" THEN "crashed" ELSE "done"
    /\ UNCHANGED <<op, inbuf, outbuf, chunk, avail_in, full, ret, ended,
                   endAt, badAt, failure, error_code>>

\* The call has returned.
Returned ==
    /\ pc \in {"done", "crashed"}
    /\ UNCHANGED svars

Next ==
    \/ InitStream
    \/ AllocBuffers
    \/ ReadInput
    \/ CompressStep
    \/ CompressAfter
    \/ UncompressStep
    \/ UncompressAfter
    \/ ReleaseBuffers
    \/ Returned

\* The call runs on one thread that keeps being scheduled.
Spec == Init /\ [][Next]_svars /\ WF_svars(Next)

-----------------------------------------------------------------------------

GTypeOK ==
    /\ op \in {"compress", "uncompress"}
    /\ pc \in PCs
    /\ inbuf \in {"unset", "block", "null"}
    /\ outbuf \in {"unset", "block", "null"}
    /\ released \in Seq({"block", "null"})
    /\ chunk \in 0 .. InputChunks
    /\ avail_in \in BOOLEAN
    /\ full \in 0 .. MaxFull
    /\ ended \in BOOLEAN
    /\ failure \in Int
    /\ error_code \in Int

\* Whatever way the call ends (a failed init, a handler or zlib error, the
\* end of the input), it hands both work buffers back to the pool, once
\* each, and nothing before it is about to return.
BuffersReleasedOnce ==
    /\ pc \in {"done", "crashed"} =>
          released = IF inbuf = "unset" THEN <<>> ELSE <<inbuf, outbuf>>
    /\ pc \notin {"done", "crashed"} => released = <<>>

\* The caller's *error_code is the first failure zlib or the output handler
\* reported (Z_NEED_DICT as Z_DATA_ERROR, a handler's 0 as
\* GOZLIB_STREAM_OUTPUT_WRITE_ERROR), and stays Z_OK when there was none:
\* what test_stream.c asserts of the write-failure and invalid-input tests.
ErrorCodeFaithful == pc = "done" => error_code = failure

\* After zlib or a handler has failed, the call neither asks for more input
\* nor calls zlib again.
NoCallAfterFailure ==
    [][failure # Z_OK => ~ReadInput /\ ~CompressStep /\ ~UncompressStep]_svars

\* Every call returns: the loops of compress_to_outstream,
\* uncompress_to_outstream and both callers end.
Terminates == <>(pc \in {"done", "crashed"})

\* A decompression that reports success has seen the end of the compressed
\* stream: the Z_STREAM_END test of uncompress_stream_any's loop.
TruncationReported ==
    (pc = "done" /\ op = "uncompress" /\ error_code = Z_OK) => ended

\* No pointer pool_free is given, and no buffer a handler writes to, is NULL.
NoNullBuffer == pc # "crashed"

=============================================================================
