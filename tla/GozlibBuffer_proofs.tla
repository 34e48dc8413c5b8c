-------------------------- MODULE GozlibBuffer_proofs --------------------------
(***************************************************************************)
(* Proofs about the one-shot calls of gozlib.c, for every MaxLen and every *)
(* set of init results: what compress_buffer and uncompress_buffer_any     *)
(* return agrees with what zlib did.                                       *)
(***************************************************************************)
EXTENDS GozlibBuffer, TLAPS

\* The type of every variable, the inputs' ranges included.
TypeCore ==
    /\ op \in Ops
    /\ pc \in {"call", "done"}
    /\ output_len \in 0 .. MaxLen
    /\ need \in Len1 /\ size \in Len1 /\ input_len \in Len1
    /\ kind \in Kinds
    /\ init_res \in InitCodes
    /\ zs_avail_in \in 0 .. MaxLen
    /\ error_code \in Int
    /\ out_len \in 0 .. MaxLen

\* Before the call, nothing has been written.
Untouched ==
    pc = "call" => /\ error_code = Z_OK /\ out_len = 0
                   /\ init_res = Z_OK /\ zs_avail_in = 0

IInv ==
    /\ TypeCore /\ Untouched
    /\ CompressFaithful /\ UncompressSuccessComplete /\ SmallOutputHint

\* The output stopped where it was produced, or at the capacity.
StoppedForm(c, p, left, r) ==
    \/ /\ p <= output_len
       /\ r = [code |-> c, total_out |-> p, avail_in |-> r.avail_in]
       /\ r.avail_in \in left
    \/ /\ p > output_len
       /\ r = [code |-> Z_BUF_ERROR, total_out |-> output_len,
               avail_in |-> r.avail_in]
       /\ r.avail_in \in 1 .. input_len

\* What a member of Stopped is.
LEMMA StoppedShape ==
    ASSUME output_len \in Int, NEW c, NEW p \in Int, NEW left,
           NEW r \in Stopped(c, p, left)
    PROVE  StoppedForm(c, p, left, r)
<1>1. CASE p <= output_len
  <2>1. PICK a \in left : r = [code |-> c, total_out |-> p, avail_in |-> a]
    BY <1>1 DEF Stopped
  <2>2. QED
    BY <1>1, <2>1 DEF StoppedForm
<1>2. CASE ~(p <= output_len)
  <2>1. PICK a \in 1 .. input_len :
            r = [code |-> Z_BUF_ERROR, total_out |-> output_len, avail_in |-> a]
    BY <1>2 DEF Stopped
  <2>2. QED
    BY <1>2, <2>1 DEF StoppedForm
<1>3. QED
  BY <1>1, <1>2

\* What inflate may have done, by input kind.
LEMMA InflateShape ==
    ASSUME TypeCore, NEW r \in InflateResults
    PROVE  /\ r.avail_in \in 0 .. input_len
           /\ r.total_out \in 0 .. MaxLen
           /\ r.code \in {Z_STREAM_END, Z_BUF_ERROR, Z_DATA_ERROR, Z_NEED_DICT,
                          Z_MEM_ERROR}
           /\ r.code = Z_STREAM_END =>
                 kind = "valid" /\ size <= output_len /\ r.total_out = size
           /\ (kind = "valid" /\ size > output_len) =>
                 r.code \in {Z_BUF_ERROR, Z_MEM_ERROR} /\ r.avail_in > 0
<1> DEFINE ends == CASE kind = "valid" ->
                          IF size <= output_len
                          THEN {[code |-> Z_STREAM_END, total_out |-> size, avail_in |-> 0]}
                          ELSE Stopped(Z_BUF_ERROR, size, {})
                     [] kind = "truncated" ->
                          UNION {Stopped(Z_BUF_ERROR, p, {0}) : p \in 0 .. size}
                     [] kind = "corrupt" ->
                          UNION {Stopped(Z_DATA_ERROR, p, 0 .. input_len - 1) :
                                   p \in 0 .. size}
                     [] kind = "dict" ->
                          {[code |-> Z_NEED_DICT, total_out |-> 0, avail_in |-> a] :
                             a \in 0 .. input_len - 1}
<1> DEFINE Shape(e) ==
      /\ e = [code |-> e.code, total_out |-> e.total_out, avail_in |-> e.avail_in]
      /\ e.avail_in \in 0 .. input_len
      /\ e.total_out \in 0 .. MaxLen
      /\ e.code \in {Z_STREAM_END, Z_BUF_ERROR, Z_DATA_ERROR, Z_NEED_DICT}
      /\ e.code = Z_STREAM_END =>
            kind = "valid" /\ size <= output_len /\ e.total_out = size
      /\ (kind = "valid" /\ size > output_len) =>
            e.code = Z_BUF_ERROR /\ e.avail_in > 0
<1>1. \A e \in ends : Shape(e)
  <2> TAKE e \in ends
  <2>1. CASE kind = "valid" /\ size <= output_len
    BY <2>1 DEF TypeCore, Len1, Z_STREAM_END, Z_BUF_ERROR, Z_DATA_ERROR,
                Z_NEED_DICT
  <2>2. CASE kind = "valid" /\ ~(size <= output_len)
    <3>1. e \in Stopped(Z_BUF_ERROR, size, {})
      BY <2>2
    <3>2. StoppedForm(Z_BUF_ERROR, size, {}, e)
      BY <3>1, StoppedShape DEF TypeCore, Len1
    <3>3. QED
      BY <2>2, <3>2 DEF StoppedForm, TypeCore, Len1, Z_STREAM_END,
         Z_BUF_ERROR, Z_DATA_ERROR, Z_NEED_DICT
  <2>3. CASE kind = "truncated"
    <3>1. PICK p \in 0 .. size : e \in Stopped(Z_BUF_ERROR, p, {0})
      BY <2>3 DEF Kinds
    <3>2. StoppedForm(Z_BUF_ERROR, p, {0}, e)
      BY <3>1, StoppedShape DEF TypeCore, Len1
    <3>3. e = [code |-> e.code, total_out |-> e.total_out, avail_in |-> e.avail_in]
      BY <3>2 DEF StoppedForm
    <3>4. e.avail_in \in 0 .. input_len
      BY <3>2, BufferAssumption DEF StoppedForm, TypeCore, Len1
    <3>5. e.total_out \in 0 .. MaxLen
      BY <3>2, BufferAssumption DEF StoppedForm, TypeCore, Len1
    <3>6. e.code = Z_BUF_ERROR
      BY <3>2 DEF StoppedForm
    <3>7. QED
      BY <2>3, <3>3, <3>4, <3>5, <3>6 DEF Z_STREAM_END, Z_BUF_ERROR, Z_DATA_ERROR, Z_NEED_DICT
  <2>4. CASE kind = "corrupt"
    <3>1. PICK p \in 0 .. size : e \in Stopped(Z_DATA_ERROR, p, 0 .. input_len - 1)
      BY <2>4 DEF Kinds
    <3>2. StoppedForm(Z_DATA_ERROR, p, 0 .. input_len - 1, e)
      BY <3>1, StoppedShape DEF TypeCore, Len1
    <3>3. QED
      BY <2>4, <3>2, BufferAssumption DEF StoppedForm, TypeCore, Len1, Z_STREAM_END,
         Z_BUF_ERROR, Z_DATA_ERROR, Z_NEED_DICT
  <2>5. CASE kind = "dict"
    <3>1. PICK a \in 0 .. input_len - 1 :
              e = [code |-> Z_NEED_DICT, total_out |-> 0, avail_in |-> a]
      BY <2>5 DEF Kinds
    <3>2. QED
      BY <2>5, <3>1, BufferAssumption DEF TypeCore, Len1, Kinds, Z_STREAM_END, Z_BUF_ERROR,
       Z_DATA_ERROR, Z_NEED_DICT
  <2>6. QED
    BY <2>1, <2>2, <2>3, <2>4, <2>5 DEF TypeCore, Kinds
<1>2. InflateResults = ends \cup {[e EXCEPT !.code = Z_MEM_ERROR] :
                                    e \in {x \in ends : x.code = Z_BUF_ERROR}}
  BY DEF InflateResults
<1>3. CASE r \in ends
  BY <1>1, <1>3 DEF Z_MEM_ERROR, Z_BUF_ERROR
<1>4. CASE r \notin ends
  <2>1. PICK e \in ends : e.code = Z_BUF_ERROR /\ r = [e EXCEPT !.code = Z_MEM_ERROR]
    BY <1>2, <1>4
  <2>2. Shape(e)
    BY <1>1
  <2>3. QED
    BY <2>1, <2>2 DEF Z_MEM_ERROR, Z_BUF_ERROR, Z_STREAM_END
<1>5. QED
  BY <1>3, <1>4

\* The invariant holds before the call.
LEMMA InitIInv == Init => IInv
BY BufferAssumption DEF Init, IInv, TypeCore, Untouched, Len1, CompressFaithful,
   UncompressSuccessComplete, SmallOutputHint, Z_OK

\* The results every step of Next computes keep the invariant.
LEMMA NextIInv == IInv /\ [Next]_bvars => IInv'
<1> SUFFICES ASSUME IInv, [Next]_bvars PROVE IInv'
  OBVIOUS
<1> USE BufferAssumption DEF IInv, TypeCore, Untouched, Len1, CompressFaithful,
        UncompressSuccessComplete, SmallOutputHint,
        Z_OK, Z_STREAM_END, Z_NEED_DICT, Z_STREAM_ERROR, Z_DATA_ERROR, Z_MEM_ERROR, Z_BUF_ERROR, Z_VERSION_ERROR
<1>1. CASE CompressBuffer
  <2>1. PICK code \in InitCodes :
            \/ InitFails(code)
            \/ /\ code = Z_OK
               /\ \E r \in DeflateResults :
                    LET res == CompressResult(r.code, r.total_out)
                    IN  /\ error_code' = res.ec
                        /\ out_len' = res.len
               /\ UNCHANGED <<init_res, zs_avail_in>>
    BY <1>1 DEF CompressBuffer
  <2>2. CASE InitFails(code)
    BY <1>1, <2>2 DEF CompressBuffer, InitFails
  <2>3. CASE ~InitFails(code)
    <3>1. PICK r \in DeflateResults :
              /\ error_code' = CompressResult(r.code, r.total_out).ec
              /\ out_len' = CompressResult(r.code, r.total_out).len
      BY <2>1, <2>3
    <3>2. UNCHANGED <<init_res, zs_avail_in>>
      BY <2>1, <2>3
    <3>3. QED
      BY <1>1, <2>1, <2>3, <3>1, <3>2 DEF CompressBuffer, DeflateResults,
         CompressResult, InitFails
  <2>4. QED
    BY <2>2, <2>3
<1>2. CASE UncompressBuffer
  <2>1. PICK code \in InitCodes :
            \/ InitFails(code)
            \/ /\ code = Z_OK
               /\ \E r \in InflateResults :
                    LET res == UncompressResult(r.code, r.total_out, r.avail_in)
                    IN  /\ zs_avail_in' = r.avail_in
                        /\ error_code' = res.ec
                        /\ out_len' = res.len
               /\ UNCHANGED init_res
    BY <1>2 DEF UncompressBuffer
  <2>2. CASE InitFails(code)
    BY <1>2, <2>2 DEF UncompressBuffer, InitFails
  <2>3. CASE ~InitFails(code)
    <3>1. PICK r \in InflateResults :
              /\ zs_avail_in' = r.avail_in
              /\ error_code' = UncompressResult(r.code, r.total_out, r.avail_in).ec
              /\ out_len' = UncompressResult(r.code, r.total_out, r.avail_in).len
      BY <2>1, <2>3
    <3>2. /\ r.avail_in \in 0 .. input_len
          /\ r.total_out \in 0 .. MaxLen
          /\ r.code \in {Z_STREAM_END, Z_BUF_ERROR, Z_DATA_ERROR, Z_NEED_DICT,
                         Z_MEM_ERROR}
          /\ r.code = Z_STREAM_END =>
                kind = "valid" /\ size <= output_len /\ r.total_out = size
          /\ (kind = "valid" /\ size > output_len) =>
                r.code \in {Z_BUF_ERROR, Z_MEM_ERROR} /\ r.avail_in > 0
      BY InflateShape
    <3>3. init_res' = init_res
      BY <2>1, <2>3
    <3>4. QED
      BY <1>2, <2>3, <3>1, <3>2, <3>3 DEF UncompressBuffer, UncompressResult,
         InitFails
  <2>4. QED
    BY <2>2, <2>3
<1>3. CASE Returned
  BY <1>3 DEF Returned, bvars
<1>4. CASE UNCHANGED bvars
  BY <1>4 DEF bvars
<1>5. QED
  BY <1>1, <1>2, <1>3, <1>4 DEF Next

\* For every MaxLen and every set of init results, compress_buffer reports
\* success exactly with the whole compressed length, uncompress_buffer_any
\* reports success only for a complete stream that fit, and a too-small
\* output buffer is reported with the non-zero count of input bytes left.
THEOREM OneShotResultsCorrect ==
    BSpec => [](CompressFaithful /\ UncompressSuccessComplete /\ SmallOutputHint)
<1>1. BSpec => []IInv
  BY InitIInv, NextIInv, PTL DEF BSpec
<1>2. IInv => CompressFaithful /\ UncompressSuccessComplete /\ SmallOutputHint
  BY DEF IInv
<1>3. QED
  BY <1>1, <1>2, PTL

\* Every variable of one compress_buffer or uncompress_buffer_any call keeps
\* its type, the returned length within the caller's capacity bound.
THEOREM BufferTypeCorrect == BSpec => []BTypeOK
<1>1. BSpec => []IInv
  BY InitIInv, NextIInv, PTL DEF BSpec
<1>2. IInv => BTypeOK
  BY BufferAssumption DEF IInv, TypeCore, BTypeOK
<1>3. QED
  BY <1>1, <1>2, PTL

=============================================================================
