------------------------- MODULE GozlibStream_proofs -------------------------
(***************************************************************************)
(* Proofs about the GozlibStream model that hold for every number of input *)
(* chunks, every bound on full output buffers and every set of zlib,       *)
(* pool_alloc and handler results.                                         *)
(***************************************************************************)
EXTENDS GozlibStream, TLAPS

\* Where the call is determines what error_code and the recorded failure
\* can be: before a loop ends nothing has failed and nothing is reported;
\* when an inner function has returned, a failure has been recorded exactly
\* when it returned a negative code, and that code is the failure; from the
\* release on, error_code is the failure.
ErrorInv ==
    /\ ret \in Int
    /\ failure \in Int
    /\ error_code \in Int
    /\ pc \in {"init", "alloc", "read", "zlib"} =>
          failure = Z_OK /\ error_code = Z_OK
    /\ pc = "after" =>
          /\ error_code = Z_OK
          /\ failure = IF ret < Z_OK THEN ret ELSE Z_OK
    /\ pc \in {"release", "done"} => error_code = failure

\* From pool_alloc on, both work buffers hold pool_alloc's result.
BuffersSet ==
    pc \in {"read", "zlib", "after", "release"} =>
        inbuf \in {"block", "null"} /\ outbuf \in {"block", "null"}

\* GTypeOK without its two Boolean conjuncts, which are proved apart.
GTypeCore ==
    /\ op \in {"compress", "uncompress"}
    /\ pc \in PCs
    /\ inbuf \in {"unset", "block", "null"}
    /\ outbuf \in {"unset", "block", "null"}
    /\ released \in Seq({"block", "null"})
    /\ chunk \in 0 .. InputChunks
    /\ full \in 0 .. MaxFull
    /\ failure \in Int
    /\ error_code \in Int

BoolsOK == avail_in \in BOOLEAN /\ ended \in BOOLEAN

\* The inductive invariant of the stream theorems.
SInv == GTypeCore /\ BoolsOK /\ BuffersSet /\ ErrorInv

\* The part of the invariant the SMT steps work with.
Core == GTypeCore /\ BuffersSet /\ ErrorInv

-----------------------------------------------------------------------------

LEMMA SInvType == SInv => GTypeOK
BY Zenon DEF SInv, GTypeCore, BoolsOK, GTypeOK

LEMMA InitSInv == Init => SInv
<1> SUFFICES ASSUME Init PROVE SInv
  OBVIOUS
<1>1. Core
  BY StreamAssumption DEF Init, Core, GTypeCore, BuffersSet, ErrorInv, PCs, Z_OK
<1>2. BoolsOK
  BY Zenon DEF Init, BoolsOK
<1>3. QED
  BY <1>1, <1>2 DEF SInv, Core

\* Every outcome of an inflate call has one of zlib's codes, and it fills
\* the buffer only while the full count is below its bound.
LEMMA InflateOutcomeType ==
    ASSUME GTypeCore, NEW r \in InflateOutcomes
    PROVE  /\ r.code \in Int
           /\ r.out \in {"none", "part", "full"}
           /\ r.out = "full" => full < MaxFull
BY DEF InflateOutcomes, Outs, GTypeCore, Z_OK, Z_STREAM_END, Z_NEED_DICT,
       Z_STREAM_ERROR, Z_DATA_ERROR, Z_BUF_ERROR

\* A step that leaves avail_in and ended alone keeps BoolsOK.
LEMMA BoolsKept ==
    ASSUME BoolsOK, avail_in' = avail_in, ended' = ended
    PROVE  BoolsOK'
BY Zenon DEF BoolsOK

LEMMA StepSInv == SInv /\ [Next]_svars => SInv'
<1> SUFFICES ASSUME SInv, [Next]_svars PROVE SInv'
  OBVIOUS
<1> USE StreamAssumption
<1>0. Core /\ BoolsOK
  BY DEF SInv, Core
<1>1. CASE InitStream
  <2>1. Core'
    BY <1>0, <1>1 DEF InitStream, Core, GTypeCore, BuffersSet, ErrorInv, PCs,
                      Z_OK, Z_MEM_ERROR, Z_STREAM_ERROR, Z_VERSION_ERROR
  <2>2. BoolsOK'
    BY <1>0, <1>1, BoolsKept DEF InitStream
  <2>3. QED
    BY <2>1, <2>2 DEF SInv, Core
<1>2. CASE AllocBuffers
  <2>1. Core'
    BY <1>0, <1>2 DEF AllocBuffers, Core, GTypeCore, BuffersSet, ErrorInv, PCs
  <2>2. BoolsOK'
    BY <1>0, <1>2, BoolsKept DEF AllocBuffers
  <2>3. QED
    BY <2>1, <2>2 DEF SInv, Core
<1>3. CASE ReadInput
  <2>1. Core'
    BY <1>0, <1>3 DEF ReadInput, Core, GTypeCore, BuffersSet, ErrorInv, PCs
  <2>2. BoolsOK'
    <3>1. ended' = ended /\ (avail_in' = avail_in \/ avail_in' = (chunk < InputChunks))
      BY <1>3 DEF ReadInput
    <3>2. (chunk < InputChunks) \in BOOLEAN
      OBVIOUS
    <3>3. QED
      BY <1>0, <3>1, <3>2, Zenon DEF BoolsOK
  <2>3. QED
    BY <2>1, <2>2 DEF SInv, Core
<1>4. CASE CompressStep
  <2>1. /\ pc = "zlib"
        /\ UNCHANGED <<op, inbuf, outbuf, released, chunk, avail_in, ended,
                       error_code>>
    BY <1>4 DEF CompressStep
  <2>2. BoolsOK'
    BY <1>0, <2>1, BoolsKept
  <2>3. CASE outbuf = "null" \/ (avail_in /\ inbuf = "null")
    <3>1. ret' = Z_STREAM_ERROR /\ failure' = Z_STREAM_ERROR
          /\ pc' = "after" /\ UNCHANGED full
      BY <1>0, <1>4, <2>1, <2>3 DEF CompressStep, Fail, Core, ErrorInv
    <3>2. QED
      BY <1>0, <2>1, <2>2, <3>1 DEF SInv, Core, GTypeCore, BuffersSet,
                                    ErrorInv, PCs, Z_OK, Z_STREAM_ERROR
  <2>4. CASE ~(outbuf = "null" \/ (avail_in /\ inbuf = "null"))
    <3>1. PICK out \in Outs, written \in IF OutputMayFail THEN BOOLEAN ELSE {TRUE} :
            LET code == IF ~avail_in /\ out # "full" THEN Z_STREAM_END ELSE Z_OK
            IN  IF out # "none" /\ ~written
                THEN /\ ret' = GOZLIB_STREAM_OUTPUT_WRITE_ERROR
                     /\ failure' = Fail(GOZLIB_STREAM_OUTPUT_WRITE_ERROR)
                     /\ pc' = "after"
                     /\ UNCHANGED full
                ELSE IF out = "full"
                THEN /\ full' = full + 1
                     /\ UNCHANGED <<ret, failure, pc>>
                ELSE /\ ret' = code
                     /\ pc' = "after"
                     /\ UNCHANGED <<full, failure>>
      BY <1>4, <2>4 DEF CompressStep
    <3>2. CASE out # "none" /\ ~written
      <4>1. ret' = GOZLIB_STREAM_OUTPUT_WRITE_ERROR
            /\ failure' = GOZLIB_STREAM_OUTPUT_WRITE_ERROR
            /\ pc' = "after" /\ UNCHANGED full
        BY <1>0, <2>1, <3>1, <3>2 DEF Fail, Core, ErrorInv
      <4>2. QED
        BY <1>0, <2>1, <2>2, <4>1 DEF SInv, Core, GTypeCore, BuffersSet,
                                      ErrorInv, PCs, Z_OK,
                                      GOZLIB_STREAM_OUTPUT_WRITE_ERROR,
                                      GOZLIB_CUSTOM_CODE_BASE
    <3>3. CASE ~(out # "none" /\ ~written) /\ out = "full"
      <4>1. full' = full + 1 /\ UNCHANGED <<ret, failure, pc>>
        BY <3>1, <3>3
      <4>2. full < MaxFull
        BY <3>3 DEF Outs
      <4>3. QED
        BY <1>0, <2>1, <2>2, <4>1, <4>2 DEF SInv, Core, GTypeCore,
                                            BuffersSet, ErrorInv
    <3>4. CASE ~(out # "none" /\ ~written) /\ out # "full"
      <4>1. ret' \in {Z_OK, Z_STREAM_END} /\ pc' = "after"
            /\ UNCHANGED <<full, failure>>
        BY <3>1, <3>4
      <4>2. QED
        BY <1>0, <2>1, <2>2, <4>1 DEF SInv, Core, GTypeCore, BuffersSet,
                                      ErrorInv, PCs, Z_OK, Z_STREAM_END
    <3>5. QED
      BY <3>2, <3>3, <3>4
  <2>5. QED
    BY <2>3, <2>4
<1>5. CASE CompressAfter
  <2>1. Core'
    BY <1>0, <1>5 DEF CompressAfter, Core, GTypeCore, BuffersSet, ErrorInv,
                      PCs, Z_OK
  <2>2. BoolsOK'
    BY <1>0, <1>5, BoolsKept DEF CompressAfter
  <2>3. QED
    BY <2>1, <2>2 DEF SInv, Core
<1>6. CASE UncompressStep
  <2>1. PICK r \in InflateOutcomes,
             written \in IF OutputMayFail THEN BOOLEAN ELSE {TRUE} :
          LET writeFails == ~IsInflateResultFatal(r.code) /\ r.out # "none"
                            /\ ~written
          IN
          /\ ended' = (ended \/ r.code = Z_STREAM_END)
          /\ failure' = IF r.code \in InflateErrors THEN Fail(Reported(r.code))
                        ELSE IF writeFails THEN Fail(GOZLIB_STREAM_OUTPUT_WRITE_ERROR)
                        ELSE failure
          /\ IF IsInflateResultFatal(r.code)
             THEN /\ ret' = IF r.code = Z_NEED_DICT THEN Z_DATA_ERROR ELSE r.code
                  /\ pc' = "after"
                  /\ UNCHANGED full
             ELSE IF writeFails
             THEN /\ ret' = GOZLIB_STREAM_OUTPUT_WRITE_ERROR
                  /\ pc' = "after"
                  /\ UNCHANGED full
             ELSE IF r.out = "full"
             THEN /\ full' = full + 1
                  /\ UNCHANGED <<ret, pc>>
             ELSE /\ ret' = Z_OK
                  /\ pc' = "after"
                  /\ UNCHANGED full
    BY <1>6 DEF UncompressStep
  <2>2. /\ r.code \in Int
        /\ r.out \in {"none", "part", "full"}
        /\ r.out = "full" => full < MaxFull
    BY <1>0, <2>1, InflateOutcomeType DEF Core
  <2>3. pc = "zlib" /\ UNCHANGED <<op, inbuf, outbuf, released, chunk,
                                   avail_in, error_code>>
    BY <1>6 DEF UncompressStep
  <2>4. Core'
    BY <1>0, <2>1, <2>2, <2>3 DEF Core, GTypeCore, BuffersSet, ErrorInv, PCs,
                                  Fail, Reported, IsInflateResultFatal,
                                  InflateErrors, Z_OK, Z_NEED_DICT,
                                  Z_DATA_ERROR, Z_STREAM_ERROR, Z_MEM_ERROR,
                                  GOZLIB_STREAM_OUTPUT_WRITE_ERROR,
                                  GOZLIB_CUSTOM_CODE_BASE
  <2>5. BoolsOK'
    BY <1>0, <2>1, <2>3, Zenon DEF BoolsOK
  <2>6. QED
    BY <2>4, <2>5 DEF SInv, Core
<1>7. CASE UncompressAfter
  <2>1. Core'
    BY <1>0, <1>7 DEF UncompressAfter, Core, GTypeCore, BuffersSet, ErrorInv,
                      PCs, Z_OK, Z_STREAM_END
  <2>2. BoolsOK'
    BY <1>0, <1>7, BoolsKept DEF UncompressAfter
  <2>3. QED
    BY <2>1, <2>2 DEF SInv, Core
<1>8. CASE ReleaseBuffers
  <2>1. Core'
    BY <1>0, <1>8 DEF ReleaseBuffers, Core, GTypeCore, BuffersSet, ErrorInv,
                      PCs
  <2>2. BoolsOK'
    BY <1>0, <1>8, BoolsKept DEF ReleaseBuffers
  <2>3. QED
    BY <2>1, <2>2 DEF SInv, Core
<1>9. CASE Returned \/ UNCHANGED svars
  <2>1. UNCHANGED svars
    BY <1>9 DEF Returned
  <2>2. Core'
    BY <1>0, <2>1 DEF svars, Core, GTypeCore, BuffersSet, ErrorInv
  <2>3. BoolsOK'
    BY <1>0, <2>1, BoolsKept DEF svars
  <2>4. QED
    BY <2>2, <2>3 DEF SInv, Core
<1>10. QED
  BY <1>1, <1>2, <1>3, <1>4, <1>5, <1>6, <1>7, <1>8, <1>9 DEF Next

-----------------------------------------------------------------------------

\* Type correctness of the stream model, for every bound and result set.
THEOREM StreamTypeCorrect == Spec => []GTypeOK
<1>1. SInv => GTypeOK
  BY SInvType
<1>2. QED
  BY InitSInv, StepSInv, <1>1, PTL DEF Spec

\* For every number of input chunks and every result zlib, pool_alloc and
\* the handlers may give, compress_stream and uncompress_stream_any leave
\* in *error_code, when they return, the first failure reported to them
\* (Z_OK when there was none).
THEOREM ErrorCodeCorrect == Spec => []ErrorCodeFaithful
<1>1. SInv => ErrorCodeFaithful
  BY DEF SInv, ErrorInv, ErrorCodeFaithful
<1>2. QED
  BY InitSInv, StepSInv, <1>1, PTL DEF Spec

\* Once zlib or a handler has failed, neither loop calls the input handler
\* or zlib again.
THEOREM NoCallAfterFailureCorrect == Spec => NoCallAfterFailure
<1>1. SInv => (failure # Z_OK => ~ReadInput /\ ~CompressStep /\ ~UncompressStep)
  BY DEF SInv, ErrorInv, ReadInput, CompressStep, UncompressStep, PCs
<1>2. []SInv => NoCallAfterFailure
  BY <1>1, PTL DEF NoCallAfterFailure
<1>3. QED
  BY InitSInv, StepSInv, <1>2, PTL DEF Spec


-----------------------------------------------------------------------------

(***************************************************************************)
(* Buffer ownership when pool_alloc never returns NULL: where the call is  *)
(* determines what the two work buffers are and what has been handed back *)
(* to the pool.                                                            *)
(***************************************************************************)
NoNullAlloc == "null" \notin AllocResults

ReleaseInv ==
    /\ pc \in PCs
    /\ pc \in {"init", "alloc"} =>
          inbuf = "unset" /\ outbuf = "unset" /\ released = <<>>
    /\ pc \in {"read", "zlib", "after", "release"} =>
          released = <<>> /\ inbuf = "block" /\ outbuf = "block"
    /\ pc \in {"done", "crashed"} =>
          /\ inbuf = "unset" <=> outbuf = "unset"
          /\ released = IF inbuf = "unset" THEN <<>> ELSE <<inbuf, outbuf>>

LEMMA InitReleaseInv == Init => ReleaseInv
BY DEF Init, ReleaseInv, PCs

\* Every step keeps ReleaseInv when both pool_alloc calls return a block.
LEMMA StepReleaseInv ==
    ASSUME NoNullAlloc
    PROVE  ReleaseInv /\ [Next]_svars => ReleaseInv'
<1> SUFFICES ASSUME ReleaseInv, [Next]_svars PROVE ReleaseInv'
  OBVIOUS
<1>1. CASE InitStream
  BY <1>1 DEF InitStream, ReleaseInv, PCs
<1>2. CASE AllocBuffers
  <2>1. inbuf' = "block" /\ outbuf' = "block"
    BY <1>2, StreamAssumption DEF AllocBuffers, NoNullAlloc
  <2>2. QED
    BY <1>2, <2>1 DEF AllocBuffers, ReleaseInv, PCs
<1>3. CASE ReadInput
  <2>1. inbuf = "block"
    BY <1>3 DEF ReadInput, ReleaseInv
  <2>2. pc' \in {"zlib", "release"}
    BY <1>3, <2>1 DEF ReadInput
  <2>3. QED
    BY <1>3, <2>1, <2>2 DEF ReadInput, ReleaseInv, PCs
<1>4. CASE CompressStep
  <2>1. pc' \in {"zlib", "after"}
    BY <1>4 DEF CompressStep
  <2>2. QED
    BY <1>4, <2>1 DEF CompressStep, ReleaseInv, PCs
<1>5. CASE UncompressStep
  <2>1. pc' \in {"zlib", "after"}
    BY <1>5 DEF UncompressStep
  <2>2. pc = "zlib" /\ UNCHANGED <<inbuf, outbuf, released>>
    BY <1>5 DEF UncompressStep
  <2>3. QED
    BY <2>1, <2>2 DEF ReleaseInv, PCs
<1>6. CASE CompressAfter
  BY <1>6 DEF CompressAfter, ReleaseInv, PCs
<1>7. CASE UncompressAfter
  BY <1>7 DEF UncompressAfter, ReleaseInv, PCs
<1>8. CASE ReleaseBuffers
  BY <1>8 DEF ReleaseBuffers, ReleaseInv, PCs
<1>9. CASE Returned \/ UNCHANGED svars
  <2>1. UNCHANGED svars
    BY <1>9 DEF Returned
  <2>2. QED
    BY <2>1 DEF svars, ReleaseInv
<1>10. QED
  BY <1>1, <1>2, <1>3, <1>4, <1>5, <1>6, <1>7, <1>8, <1>9 DEF Next

\* When pool_alloc gives both work buffers, compress_stream and
\* uncompress_stream_any, however they end (a failed init, a zlib or
\* handler error, the end of the input), hand each buffer back to the pool
\* exactly once, and nothing before they are about to return.  (With a NULL
\* buffer they crash instead: the stream_null_work_buffer run.)
THEOREM BuffersReleasedOnceHolds ==
    ASSUME NoNullAlloc
    PROVE  Spec => []BuffersReleasedOnce
<1>1. ReleaseInv => BuffersReleasedOnce
  BY DEF ReleaseInv, BuffersReleasedOnce, PCs
<1>2. QED
  BY InitReleaseInv, StepReleaseInv, <1>1, PTL DEF Spec

=============================================================================
