------------------------- MODULE Transformer_proofs -------------------------
(***************************************************************************)
(* Proofs about the transformer model that hold for every number of        *)
(* handles, every set of block addresses of the four pools, every set of   *)
(* init results, and whether or not malloc and pool_alloc may fail.        *)
(***************************************************************************)
EXTENDS Transformer, SeqLemmas, FiniteSetTheorems, TLAPS

\* The four block pointers of a GoZLibTransformer.
Fields == {"self", "zs", "state", "work"}

\* What a handle holds: nothing, or the four pointers.
TrRecs == [self : Nodes, zs : Nodes, state : Nodes \cup {NULL},
           work : Nodes \cup {NULL}]

\* The blocks in pool p's free list.
FreeBlocks(p) == {free[p][i] : i \in 1 .. Len(free[p])}

\* The non-null blocks the live transformers point to.
HeldBlocks == {tr[h][f] : h \in Held, f \in Fields} \ {NULL}

\* The shape of the state that TTypeOK leaves implicit.
Shape ==
    /\ free \in [Pools -> Seq(Nodes)]
    /\ allocated \subseteq Nodes
    /\ owner \in [Nodes -> Pools \cup {"none"}]
    /\ tr \in [Handles -> TrRecs \cup {None}]

\* While the process runs: no free list holds a block twice, no free block
\* is also held, no two fields of live transformers share a block, and
\* every block malloc returned is free or held.
Accounted ==
    fault = "none" =>
        /\ \A p \in Pools : InjectiveSeq(free[p])
        /\ \A p \in Pools : FreeBlocks(p) \cap HeldBlocks = {}
        /\ \A h, g \in Held : \A f, e \in Fields :
              tr[h][f] = tr[g][e] /\ tr[h][f] # NULL => h = g /\ f = e
        /\ allocated = HeldBlocks \cup UNION {FreeBlocks(p) : p \in Pools}

\* The inductive invariant.
TInv == TTypeOK /\ Shape /\ Accounted /\ FreeStreamsEnded

-----------------------------------------------------------------------------

LEMMA InitTInv == Init => TInv
<1> SUFFICES ASSUME Init PROVE TInv
  OBVIOUS
<1>1. Held = {} /\ \A p \in Pools : FreeBlocks(p) = {} /\ free[p] = <<>>
  BY DEF Init, Held, None, FreeBlocks
<1>2. TTypeOK
  BY <1>1 DEF Init, TTypeOK, ZsStates
<1>3. Shape
  BY DEF Init, Shape, None
<1>4. Accounted
  BY <1>1 DEF Init, Accounted, HeldBlocks, InjectiveSeq
<1>5. FreeStreamsEnded
  BY <1>1 DEF Pools, FreeStreamsEnded
<1>6. QED
  BY <1>2, <1>3, <1>4, <1>5 DEF TInv

\* A step that only records a fault (or none) keeps the invariant.
LEMMA FaultOnlyTInv ==
    ASSUME TInv, UNCHANGED <<free, allocated, owner, zsmem, tr>>,
           fault' \in {"none", "null_deref", "null_free", "uninit_state"},
           fault' = "none" => fault = "none"
    PROVE  TInv'
<1>1. TTypeOK'
  BY DEF TInv, TTypeOK, PoolBlocks, Held
<1>2. Shape'
  BY DEF TInv, Shape
<1>3. Accounted'
  <2>1. Held' = Held /\ HeldBlocks' = HeldBlocks
        /\ \A p \in Pools : FreeBlocks(p)' = FreeBlocks(p)
    BY DEF Held, HeldBlocks, FreeBlocks
  <2>2. QED
    BY <2>1 DEF TInv, Accounted, InjectiveSeq
<1>4. FreeStreamsEnded'
  BY DEF TInv, FreeStreamsEnded
<1>5. QED
  BY <1>1, <1>2, <1>3, <1>4 DEF TInv

\* reset, compress and uncompress calls only decide whether the process
\* dies.
LEMMA CallTInv ==
    ASSUME TInv, NEW h \in Handles, Reset(h) \/ Compress(h) \/ UncompressStep(h)
    PROVE  TInv'
<1>1. \A t, wrote : ZlibCallFault(t, wrote) \in {"none", "null_deref", "uninit_state"}
  BY DEF ZlibCallFault
<1>2. QED
  BY <1>1, FaultOnlyTInv DEF Reset, Compress, UncompressStep

\* The field of a transformer that holds a block of pool p.
PoolField == [transformer |-> "self", zstream |-> "zs", state |-> "state",
              work |-> "work"]

\* What TInv says of the transformer a live handle holds.
LEMMA HeldFacts ==
    ASSUME TInv, NEW h \in Held
    PROVE  /\ tr[h] \in TrRecs
           /\ tr[h].self \in allocated /\ owner[tr[h].self] = "transformer"
           /\ tr[h].zs \in allocated /\ owner[tr[h].zs] = "zstream"
           /\ tr[h].state # NULL =>
                 tr[h].state \in allocated /\ owner[tr[h].state] = "state"
           /\ tr[h].work # NULL =>
                 tr[h].work \in allocated /\ owner[tr[h].work] = "work"
<1>1. tr[h] \in TrRecs
  BY DEF TInv, Shape, Held, None, TrRecs
<1>2. QED
  BY <1>1 DEF TInv, TTypeOK, PoolBlocks

\* Pushing a block of pool p onto p's free list keeps it a list of p's
\* blocks.
LEMMA PushTyped ==
    ASSUME NEW p, NEW x \in PoolBlocks(p), NEW s \in Seq(PoolBlocks(p))
    PROVE  <<x>> \o s \in Seq(PoolBlocks(p))
BY ConsElems

\* A z_stream pushed back onto its pool after deflateEnd / inflateEnd
\* keeps every free z_stream ended.
LEMMA PushEndedStream ==
    ASSUME TTypeOK, Shape, FreeStreamsEnded, NEW z \in Nodes,
           z \notin FreeBlocks("zstream"),
           free'["zstream"] = <<z>> \o free["zstream"],
           zsmem' = [zsmem EXCEPT ![z] = "ended"]
    PROVE  FreeStreamsEnded'
<1> DEFINE fl == free["zstream"]
<1>1. fl \in Seq(Nodes)
  <2>1. fl \in Seq(PoolBlocks("zstream")) /\ PoolBlocks("zstream") \subseteq Nodes
    BY DEF TTypeOK, Shape, PoolBlocks, Pools
  <2>2. QED
    BY <2>1
<1>2. \A i \in 1 .. Len(fl) : fl[i] # z
  BY DEF FreeBlocks
<1>3. /\ Len(free'["zstream"]) = Len(fl) + 1
      /\ free'["zstream"][1] = z
      /\ \A i \in 2 .. Len(fl) + 1 : free'["zstream"][i] = fl[i - 1]
  BY <1>1, SMT
<1>4. zsmem'[z] = "ended" /\ \A n \in Nodes \ {z} : zsmem'[n] = zsmem[n]
  BY DEF TTypeOK
<1>5. \A i \in 1 .. Len(fl) : fl[i] \in Nodes /\ zsmem[fl[i]] = "ended"
  BY <1>1 DEF FreeStreamsEnded
<1>6. QED
  <2> SUFFICES ASSUME NEW i \in 1 .. Len(free'["zstream"])
               PROVE  zsmem'[free'["zstream"][i]] = "ended"
    BY DEF FreeStreamsEnded
  <2>1. CASE i = 1
    BY <1>3, <1>4, <2>1
  <2>2. CASE i # 1
    <3>1. i - 1 \in 1 .. Len(fl) /\ free'["zstream"][i] = fl[i - 1]
      BY <1>3, <2>2, SMT
    <3>2. QED
      BY <3>1, <1>2, <1>4, <1>5
  <2>3. QED
    BY <2>1, <2>2

\* A step that keeps every block's pool, gives each pool a list of its own
\* blocks and only drops live transformers keeps the type invariant.
LEMMA TypeKept ==
    ASSUME TTypeOK, UNCHANGED <<allocated, owner>>,
           \A p \in Pools : free'[p] \in Seq(PoolBlocks(p)),
           \A h \in Handles : tr'[h] = tr[h] \/ tr'[h] = None,
           zsmem' \in [Nodes -> ZsStates],
           fault' \in {"none", "null_deref", "null_free", "uninit_state"}
    PROVE  TTypeOK'
<1>1. \A p \in Pools : PoolBlocks(p)' = PoolBlocks(p)
  BY DEF PoolBlocks
<1>2. Held' \subseteq Held /\ \A h \in Held' : tr'[h] = tr[h]
  BY DEF Held
<1>3. \A p \in Pools : free'[p] \in Seq(PoolBlocks(p)')
  BY <1>1
<1>4. \A h \in Held' :
         /\ tr'[h].self \in PoolBlocks("transformer")'
         /\ tr'[h].zs \in PoolBlocks("zstream")'
         /\ tr'[h].state \in PoolBlocks("state")' \cup {NULL}
         /\ tr'[h].work \in PoolBlocks("work")' \cup {NULL}
  <2>1. \A h \in Held :
           /\ tr[h].self \in PoolBlocks("transformer")
           /\ tr[h].zs \in PoolBlocks("zstream")
           /\ tr[h].state \in PoolBlocks("state") \cup {NULL}
           /\ tr[h].work \in PoolBlocks("work") \cup {NULL}
    BY DEF TTypeOK
  <2>2. QED
    BY <1>1, <1>2, <2>1 DEF Pools
<1>5. QED
  BY <1>3, <1>4 DEF TTypeOK, ZsStates

\* release_*_transformer: deflateEnd / inflateEnd, then the blocks go back
\* to their pools in pool_release_transformer's order.
LEMMA ReleaseTInv ==
    ASSUME TInv, NEW h \in Handles, Release(h)
    PROVE  TInv'
<1> DEFINE t == tr[h]
           z == t.zs
<1>0. /\ h \in Held /\ fault = "none"
      /\ UNCHANGED <<allocated, owner>>
  BY DEF Release, Held
<1>1. CASE ReadsGarbage(z)
  BY <1>0, <1>1, FaultOnlyTInv DEF Release
<1>2. CASE ~ReadsGarbage(z)
  <2>1. /\ zsmem' = [zsmem EXCEPT ![z] = "ended"]
        /\ free' = PoolReleaseTransformer(t).free
        /\ fault' = PoolReleaseTransformer(t).fault
        /\ tr' = IF fault' = "none" THEN [tr EXCEPT ![h] = None] ELSE tr
    BY <1>2 DEF Release, EndStream
  <2>2. /\ t \in TrRecs
        /\ t.self \in PoolBlocks("transformer") /\ t.zs \in PoolBlocks("zstream")
        /\ t.state # NULL => t.state \in PoolBlocks("state")
        /\ t.work # NULL => t.work \in PoolBlocks("work")
    BY <1>0, HeldFacts DEF PoolBlocks
  <2>3. \A p \in Pools : free[p] \in Seq(PoolBlocks(p))
    BY DEF TInv, TTypeOK
  <2>4. /\ free \in [Pools -> Seq(Nodes)] /\ zsmem \in [Nodes -> ZsStates]
        /\ z \in Nodes
    BY <2>2 DEF TInv, Shape, TTypeOK, TrRecs
  <2>5. \A p \in Pools : FreeBlocks(p) \cap HeldBlocks = {}
    BY <1>0 DEF TInv, Accounted
  <2>6. z \in HeldBlocks /\ z \notin FreeBlocks("zstream")
    <3>1. z \in Nodes /\ z # NULL
      BY <2>4, TransformerAssumption
    <3>2. z \in HeldBlocks
      BY <1>0, <3>1 DEF HeldBlocks, Fields
    <3>3. QED
      BY <2>5, <3>2 DEF Pools
  <2>7. ZsStates' = ZsStates /\ zsmem' \in [Nodes -> ZsStates]
    BY <2>1, <2>4 DEF ZsStates
  <2>20. /\ owner[z] = "zstream" /\ owner[t.self] = "transformer"
         /\ t.state # NULL => owner[t.state] = "state"
         /\ t.work # NULL => owner[t.work] = "work"
    BY <2>2 DEF PoolBlocks
  <2>21. \A p \in Pools : PoolBlocks(p) \subseteq Nodes
    BY DEF TInv, Shape, PoolBlocks
  <2>8. FreeStreamsEnded'
    <3>1. free'["zstream"] = <<z>> \o free["zstream"]
      <4> DEFINE f1 == ReturnTo(free, z)
      <4>1. f1 = [free EXCEPT !["zstream"] = <<z>> \o free["zstream"]]
        BY <2>20 DEF ReturnTo
      <4>2. f1["zstream"] = <<z>> \o free["zstream"] /\ f1 \in [Pools -> Seq(Nodes)]
        BY <4>1, <2>4, <2>3, <2>21, <2>2, PushTyped DEF Pools
      <4>3. CASE t.state = NULL
        BY <2>1, <4>2, <4>3 DEF PoolReleaseTransformer
      <4>4. CASE t.state # NULL /\ t.work = NULL
        BY <2>1, <2>20, <4>2, <4>4 DEF PoolReleaseTransformer, ReturnTo
      <4>5. CASE t.state # NULL /\ t.work # NULL
        <5> DEFINE f2 == ReturnTo(f1, t.state)
                   f3 == ReturnTo(f2, t.work)
        <5>1. f2["zstream"] = f1["zstream"] /\ DOMAIN f2 = Pools
          BY <2>20, <4>2, <4>5 DEF ReturnTo, Pools
        <5>2. f3["zstream"] = f1["zstream"] /\ DOMAIN f3 = Pools
          BY <2>20, <5>1, <4>5 DEF ReturnTo, Pools
        <5>3. ReturnTo(f3, t.self)["zstream"] = f1["zstream"]
          BY <2>20, <5>2 DEF ReturnTo, Pools
        <5>4. free' = ReturnTo(f3, t.self)
          BY <2>1, <4>5 DEF PoolReleaseTransformer
        <5>5. QED
          BY <4>2, <5>3, <5>4
      <4>6. QED
        BY <4>3, <4>4, <4>5
    <3>2. QED
      BY <2>1, <2>4, <2>6, <3>1, PushEndedStream DEF TInv
  <2>9. CASE t.state = NULL
    <3>1. free' = [free EXCEPT !["zstream"] = <<z>> \o free["zstream"]]
          /\ fault' = "null_free" /\ tr' = tr
      BY <2>1, <2>2, <2>9 DEF PoolReleaseTransformer, ReturnTo, PoolBlocks
    <3>2. PoolBlocks("zstream")' = PoolBlocks("zstream")
          /\ \A p \in Pools : PoolBlocks(p)' = PoolBlocks(p)
      BY <1>0 DEF PoolBlocks
    <3>3. <<z>> \o free["zstream"] \in Seq(PoolBlocks("zstream"))
      BY <2>2, <2>3, PushTyped DEF Pools
    <3>4. TTypeOK'
      <4>1. \A p \in Pools : free'[p] \in Seq(PoolBlocks(p))
        BY <2>3, <2>4, <3>1, <3>3
      <4>2. QED
        BY <1>0, <2>7, <3>1, <4>1, TypeKept DEF TInv
    <3>5. Shape'
      <4>1. <<z>> \o free["zstream"] \in Seq(Nodes)
        BY <3>3, <2>21 DEF Pools
      <4>2. QED
        BY <1>0, <2>4, <3>1, <4>1 DEF TInv, Shape
    <3>6. Accounted'
      BY <3>1 DEF Accounted
    <3>7. QED
      BY <2>8, <3>4, <3>5, <3>6 DEF TInv
  <2>10. CASE t.state # NULL /\ t.work = NULL
    <3> DEFINE st == t.state
    <3>1. /\ free' = [free EXCEPT !["zstream"] = <<z>> \o free["zstream"],
                                  !["state"] = <<st>> \o free["state"]]
          /\ fault' = "null_free" /\ tr' = tr
      BY <2>1, <2>10, <2>20 DEF PoolReleaseTransformer, ReturnTo
    <3>2. /\ <<z>> \o free["zstream"] \in Seq(PoolBlocks("zstream"))
          /\ <<st>> \o free["state"] \in Seq(PoolBlocks("state"))
      BY <2>2, <2>3, <2>10, PushTyped DEF Pools
    <3>3. \A p \in Pools : free'[p] \in Seq(PoolBlocks(p))
      BY <2>3, <2>4, <3>1, <3>2
    <3>4. TTypeOK'
      BY <1>0, <2>7, <3>1, <3>3, TypeKept DEF TInv
    <3>5. Shape'
      <4>1. free' \in [Pools -> Seq(Nodes)]
        <5>1. \A p \in Pools : free'[p] \in Seq(Nodes)
          BY <2>21, <3>3
        <5>2. QED
          BY <2>4, <3>1, <5>1
      <4>2. QED
        BY <1>0, <3>1, <4>1 DEF TInv, Shape
    <3>6. QED
      BY <2>8, <3>1, <3>4, <3>5 DEF TInv, Accounted
  <2>11. CASE t.state # NULL /\ t.work # NULL
    <3> DEFINE x(p) == t[PoolField[p]]
               B == {t.self, t.zs, t.state, t.work}
    <3>1. /\ \A p \in Pools : free'[p] = <<x(p)>> \o free[p]
          /\ free' = [p \in Pools |-> free'[p]]
          /\ fault' = "none" /\ tr' = [tr EXCEPT ![h] = None]
      <4>1. /\ free' = [free EXCEPT !["zstream"] = <<z>> \o free["zstream"],
                                    !["state"] = <<t.state>> \o free["state"],
                                    !["work"] = <<t.work>> \o free["work"],
                                    !["transformer"] =
                                       <<t.self>> \o free["transformer"]]
            /\ fault' = "none"
        BY <2>1, <2>11, <2>20 DEF PoolReleaseTransformer, ReturnTo
      <4>2. \A p \in Pools : free'[p] = <<x(p)>> \o free[p]
        <5> SUFFICES ASSUME NEW p \in Pools PROVE free'[p] = <<x(p)>> \o free[p]
          OBVIOUS
        <5>1. CASE p = "transformer"
          BY <2>4, <4>1, <5>1 DEF Pools, PoolField
        <5>2. CASE p = "zstream"
          BY <2>4, <4>1, <5>2 DEF Pools, PoolField
        <5>3. CASE p = "state"
          BY <2>4, <4>1, <5>3 DEF Pools, PoolField
        <5>4. CASE p = "work"
          BY <2>4, <4>1, <5>4 DEF Pools, PoolField
        <5>5. QED
          BY <5>1, <5>2, <5>3, <5>4 DEF Pools
      <4>3. free' = [p \in Pools |-> free'[p]]
        BY <2>4, <4>1
      <4>4. QED
        BY <2>1, <4>1, <4>2, <4>3
    <3>2. \A p \in Pools : /\ x(p) \in PoolBlocks(p) /\ x(p) \in Nodes
                           /\ x(p) \in HeldBlocks /\ x(p) \notin FreeBlocks(p)
      <4>1. \A p \in Pools : x(p) \in PoolBlocks(p) /\ x(p) \in Nodes
        BY <2>2, <2>11, <2>21 DEF Pools, PoolField
      <4>2. \A p \in Pools : x(p) \in HeldBlocks
        BY <1>0, <4>1, TransformerAssumption DEF HeldBlocks, Fields, Pools, PoolField
      <4>3. QED
        BY <2>5, <4>1, <4>2
    <3>3. \A p \in Pools : free'[p] \in Seq(PoolBlocks(p))
      BY <2>3, <3>1, <3>2, PushTyped
    <3>4. TTypeOK'
      <4>1. \A g \in Handles : tr'[g] = tr[g] \/ tr'[g] = None
        BY <3>1, <2>4 DEF TInv, Shape
      <4>2. QED
        BY <1>0, <2>7, <3>1, <3>3, <4>1, TypeKept DEF TInv
    <3>5. Shape'
      <4>1. \A p \in Pools : free'[p] \in Seq(Nodes)
        BY <2>21, <3>3
      <4>2. free' \in [Pools -> Seq(Nodes)]
        BY <3>1, <4>1
      <4>3. tr' \in [Handles -> TrRecs \cup {None}]
        BY <3>1 DEF TInv, Shape
      <4>4. QED
        BY <1>0, <4>2, <4>3 DEF TInv, Shape
    <3>6. Accounted'
      <4>1. Held' = Held \ {h} /\ \A g \in Held' : tr'[g] = tr[g]
        BY <3>1 DEF TInv, Shape, Held, None
      <4>2. B = {x(p) : p \in Pools} /\ B = {t[f] : f \in Fields}
        BY DEF Pools, PoolField, Fields
      <4>3. \A g \in Held, f, e \in Fields :
               tr[g][f] = t[e] /\ tr[g][f] # NULL => g = h
        BY <1>0 DEF TInv, Accounted
      <4>4. HeldBlocks' = HeldBlocks \ B
        <5>1. HeldBlocks' \subseteq HeldBlocks \ B
          BY <4>1, <4>2, <4>3 DEF HeldBlocks
        <5>2. HeldBlocks \ B \subseteq HeldBlocks'
          <6> SUFFICES ASSUME NEW g \in Held, NEW f \in Fields,
                              tr[g][f] # NULL, tr[g][f] \notin B
                       PROVE  tr[g][f] \in HeldBlocks'
            BY DEF HeldBlocks
          <6>1. g # h
            BY DEF Fields
          <6>2. g \in Held' /\ tr'[g] = tr[g]
            BY <4>1, <6>1 DEF Held
          <6>3. QED
            BY <6>2 DEF HeldBlocks
        <5>3. QED
          BY <5>1, <5>2
      <4>5. \A p \in Pools : /\ FreeBlocks(p)' = {x(p)} \cup FreeBlocks(p)
                             /\ InjectiveSeq(free'[p])
        <5> SUFFICES ASSUME NEW p \in Pools
                     PROVE  /\ FreeBlocks(p)' = {x(p)} \cup FreeBlocks(p)
                            /\ InjectiveSeq(free'[p])
          OBVIOUS
        <5>1. free[p] \in Seq(Nodes) /\ x(p) \in Nodes
          BY <2>4, <3>2
        <5>2. InjectiveSeq(free[p]) /\ x(p) \notin {free[p][i] : i \in 1 .. Len(free[p])}
          BY <1>0, <3>2 DEF TInv, Accounted, FreeBlocks
        <5>3. /\ {(<<x(p)>> \o free[p])[i] : i \in 1 .. Len(<<x(p)>> \o free[p])}
                   = {x(p)} \cup {free[p][i] : i \in 1 .. Len(free[p])}
              /\ (InjectiveSeq(free[p])
                    /\ x(p) \notin {free[p][i] : i \in 1 .. Len(free[p])})
                     => InjectiveSeq(<<x(p)>> \o free[p])
          BY <5>1, ConsSplit
        <5>4. FreeBlocks(p)' = {(<<x(p)>> \o free[p])[i] :
                                 i \in 1 .. Len(<<x(p)>> \o free[p])}
          <6>1. free'[p] = <<x(p)>> \o free[p]
            BY <3>1
          <6>2. QED
            BY <6>1 DEF FreeBlocks
        <5>5. QED
          BY <3>1, <5>2, <5>3, <5>4 DEF FreeBlocks
      <4>6. UNION {FreeBlocks(p)' : p \in Pools}
              = B \cup UNION {FreeBlocks(p) : p \in Pools}
        BY <4>2, <4>5
      <4>7. B \subseteq HeldBlocks
        BY <3>2, <4>2
      <4>8. QED
        BY <1>0, <3>1, <4>1, <4>4, <4>5, <4>6, <4>7 DEF TInv, Accounted
    <3>7. QED
      BY <2>8, <3>4, <3>5, <3>6 DEF TInv
  <2>12. QED
    BY <2>9, <2>10, <2>11
<1>3. QED
  BY <1>1, <1>2


\* A free list of pool p's blocks stays one when the pool gains blocks.
LEMMA SeqGrow ==
    ASSUME NEW S, NEW T, S \subseteq T, NEW s \in Seq(S)
    PROVE  s \in Seq(T)
OBVIOUS

\* Popping the head of an injective free list takes exactly the head out
\* of the list's blocks.
LEMMA PopFacts ==
    ASSUME NEW p, free[p] \in Seq(Nodes), free[p] # <<>>,
           InjectiveSeq(free[p]), free'[p] = Tail(free[p])
    PROVE  /\ FreeBlocks(p)' = FreeBlocks(p) \ {Head(free[p])}
           /\ Head(free[p]) \in FreeBlocks(p)
           /\ InjectiveSeq(free'[p])
<1>1. /\ {free[p][i] : i \in 1 .. Len(free[p])}
           = {Head(free[p])}
             \cup {Tail(free[p])[i] : i \in 1 .. Len(Tail(free[p]))}
      /\ InjectiveSeq(Tail(free[p]))
      /\ Head(free[p])
           \notin {Tail(free[p])[i] : i \in 1 .. Len(Tail(free[p]))}
  BY TailSplit
<1>2. FreeBlocks(p)' = {Tail(free[p])[i] : i \in 1 .. Len(Tail(free[p]))}
  BY DEF FreeBlocks
<1>3. QED
  BY <1>1, <1>2 DEF FreeBlocks

\* pool_mem_acquire on the four pools, each pool p giving y[p]: its free
\* list's head, a fresh block, or NULL (malloc or pool_alloc failed).
LEMMA AcquirePools ==
    ASSUME TInv, fault = "none",
           NEW y \in [Pools -> Nodes \cup {NULL}],
           \A p \in Pools : y[p] # NULL =>
              \/ free[p] # <<>> /\ y[p] = Head(free[p])
              \/ free[p] = <<>> /\ y[p] \in PoolNodes[p] \ allocated,
           \A p, q \in Pools : p # q /\ y[p] # NULL => y[p] # y[q],
           free' = [p \in Pools |-> IF free[p] # <<>> /\ y[p] # NULL
                                    THEN Tail(free[p]) ELSE free[p]],
           allocated' = allocated \cup ({y[p] : p \in Pools} \ {NULL}),
           \A n \in allocated : owner'[n] = owner[n],
           \A p \in Pools : y[p] # NULL /\ y[p] \notin allocated => owner'[y[p]] = p
    PROVE  /\ \A p \in Pools : PoolBlocks(p) \subseteq PoolBlocks(p)'
           /\ \A p \in Pools : y[p] # NULL => y[p] \in PoolBlocks(p)'
           /\ \A p \in Pools : free'[p] \in Seq(PoolBlocks(p)')
           /\ \A p \in Pools : InjectiveSeq(free'[p])
           /\ \A p \in Pools : FreeBlocks(p)' = FreeBlocks(p) \ {y[p]}
           /\ \A p \in Pools : y[p] # NULL =>
                 /\ y[p] \notin HeldBlocks
                 /\ \A q \in Pools : y[p] \notin FreeBlocks(q)'
<1>0. /\ \A p \in Pools : free[p] \in Seq(PoolBlocks(p))
      /\ \A p \in Pools : InjectiveSeq(free[p])
      /\ \A p \in Pools : FreeBlocks(p) \cap HeldBlocks = {}
      /\ HeldBlocks \subseteq allocated
      /\ \A p \in Pools : PoolBlocks(p) \subseteq allocated
      /\ NULL \notin allocated
  BY TransformerAssumption DEF TInv, TTypeOK, Accounted, Shape, PoolBlocks
<1>1. \A p \in Pools : PoolBlocks(p) \subseteq PoolBlocks(p)'
  BY DEF PoolBlocks
<1> SUFFICES ASSUME NEW p \in Pools
             PROVE  /\ y[p] # NULL => y[p] \in PoolBlocks(p)'
                    /\ free'[p] \in Seq(PoolBlocks(p)')
                    /\ InjectiveSeq(free'[p])
                    /\ FreeBlocks(p)' = FreeBlocks(p) \ {y[p]}
                    /\ y[p] # NULL =>
                          /\ y[p] \notin HeldBlocks
                          /\ \A q \in Pools : y[p] \notin FreeBlocks(q)'
  BY <1>1
<1>2. \A q \in Pools : FreeBlocks(q) \subseteq PoolBlocks(q)
  BY <1>0 DEF FreeBlocks
<1>3. CASE free[p] # <<>> /\ y[p] # NULL
  <2>1. y[p] = Head(free[p]) /\ free'[p] = Tail(free[p])
    BY <1>3
  <2>2. /\ FreeBlocks(p)' = FreeBlocks(p) \ {Head(free[p])}
        /\ Head(free[p]) \in FreeBlocks(p)
        /\ InjectiveSeq(free'[p])
    <3>1. free[p] \in Seq(Nodes) /\ free[p] # <<>> /\ InjectiveSeq(free[p])
      BY <1>0, <1>3 DEF TInv, Shape
    <3>2. QED
      BY <2>1, <3>1, PopFacts
  <2>3. y[p] \in FreeBlocks(p) /\ y[p] \in PoolBlocks(p)
    BY <1>2, <2>1, <2>2
  <2>4. free'[p] \in Seq(PoolBlocks(p)')
    <3>1. Tail(free[p]) \in Seq(PoolBlocks(p))
      BY <1>0, <1>3
    <3>2. QED
      BY <1>1, <2>1, <3>1, SeqGrow
  <2>5. \A q \in Pools : y[p] \notin FreeBlocks(q)'
    <3> SUFFICES ASSUME NEW q \in Pools, q # p PROVE y[p] \notin FreeBlocks(q)'
      BY <2>1, <2>2
    <3>1. FreeBlocks(q)' \subseteq FreeBlocks(q)
      BY <1>0 DEF FreeBlocks
    <3>2. QED
      BY <1>2, <2>3, <3>1 DEF PoolBlocks
  <2>6. QED
    BY <1>0, <1>1, <2>1, <2>2, <2>3, <2>4, <2>5
<1>4. CASE ~(free[p] # <<>> /\ y[p] # NULL)
  <2>1. free'[p] = free[p]
    BY <1>4
  <2>2. FreeBlocks(p)' = FreeBlocks(p) \ {y[p]}
    BY <1>0, <1>4, <2>1 DEF FreeBlocks
  <2>3. ASSUME y[p] # NULL
        PROVE  y[p] \notin allocated /\ y[p] \in PoolBlocks(p)'
    BY <1>4, <2>3 DEF PoolBlocks
  <2>4. QED
    BY <1>0, <1>1, <1>2, <2>1, <2>2, <2>3, SeqGrow DEF FreeBlocks, InjectiveSeq
<1>5. QED
  BY <1>3, <1>4


\* What pool_mem_acquire can return when it does not return NULL: the head
\* of a non-empty free list, or a block malloc never returned before.
LEMMA AvailFacts ==
    ASSUME TInv, NEW p \in Pools, NEW n \in Avail(p) \cup {NULL}, n # NULL
    PROVE  /\ n \in Nodes
           /\ \/ free[p] # <<>> /\ n = Head(free[p])
              \/ free[p] = <<>> /\ n \in PoolNodes[p] \ allocated
<1>1. PoolNodes[p] \subseteq Nodes
  BY DEF PoolNodes, Nodes, Pools
<1>2. CASE free[p] # <<>>
  <2>1. n = Head(free[p]) /\ free[p] \in Seq(Nodes)
    BY <1>2 DEF Avail, TInv, Shape
  <2>2. QED
    BY <1>2, <2>1, HeadElem
<1>3. CASE free[p] = <<>>
  BY <1>1, <1>3 DEF Avail, Fresh
<1>4. QED
  BY <1>2, <1>3

\* The free lists and the owners after the four acquires returned picks.
FreeAfter(picks) ==
    [p \in Pools |-> IF free[p] # <<>> /\ \E i \in 1 .. 4 :
                                          FieldPools[i] = p /\ picks[i] # NULL
                     THEN Tail(free[p]) ELSE free[p]]

OwnerAfter(picks) ==
    [n \in Nodes |-> IF \E i \in 1 .. 4 : /\ picks[i] # NULL
                                        /\ picks[i] \notin allocated
                                        /\ picks[i] = n
                     THEN FieldPools[CHOOSE i \in 1 .. 4 : picks[i] = n]
                     ELSE owner[n]]

\* What the four pool_mem_acquire calls did to the pools, each pool p
\* having returned y[p].
PoolsAfter(y) ==
    /\ y \in [Pools -> Nodes \cup {NULL}]
    /\ \A p, q \in Pools : p # q /\ y[p] # NULL => y[p] # y[q]
    /\ free' = [p \in Pools |-> free'[p]]
    /\ allocated' = allocated \cup ({y[p] : p \in Pools} \ {NULL})
    /\ owner' \in [Nodes -> Pools \cup {"none"}]
    /\ \A p \in Pools : PoolBlocks(p) \subseteq PoolBlocks(p)'
    /\ \A p \in Pools : y[p] # NULL => y[p] \in PoolBlocks(p)'
    /\ \A p \in Pools : free'[p] \in Seq(PoolBlocks(p)')
    /\ \A p \in Pools : InjectiveSeq(free'[p])
    /\ \A p \in Pools : FreeBlocks(p)' = FreeBlocks(p) \ {y[p]}
    /\ \A p \in Pools : y[p] # NULL =>
          /\ y[p] \notin HeldBlocks
          /\ \A q \in Pools : y[p] \notin FreeBlocks(q)'

\* Every free z_stream is ended, said of the free list's blocks.
LEMMA FreeStreamsEndedElems ==
    FreeStreamsEnded <=> \A n \in FreeBlocks("zstream") : zsmem[n] = "ended"
BY DEF FreeStreamsEnded, FreeBlocks

\* The pools after the acquires keep the free lists typed, and no block
\* leaves allocated.
LEMMA PoolsAfterShape ==
    ASSUME TInv, NEW y, PoolsAfter(y)
    PROVE  /\ allocated' \subseteq Nodes
           /\ \A p \in Pools : PoolBlocks(p)' \subseteq Nodes
           /\ free' \in [Pools -> Seq(Nodes)]
<1>1. allocated' \subseteq Nodes
  BY DEF PoolsAfter, TInv, Shape
<1>2. \A p \in Pools : PoolBlocks(p)' \subseteq Nodes
  BY <1>1 DEF PoolBlocks
<1>3. \A p \in Pools : free'[p] \in Seq(Nodes)
  BY <1>2, SeqGrow DEF PoolsAfter
<1>4. QED
  BY <1>1, <1>2, <1>3 DEF PoolsAfter

\* A NULL z_stream: init_default_zstream writes through it and the process
\* dies; the blocks taken before stay taken.
LEMMA AcquireNoStream ==
    ASSUME TInv, NEW y, PoolsAfter(y), y["zstream"] = NULL,
           fault' = "null_deref", UNCHANGED <<zsmem, tr>>
    PROVE  TInv'
<1>1. TTypeOK'
  <2>1. Held' = Held
    BY DEF Held
  <2>2. \A g \in Held :
           /\ tr[g].self \in PoolBlocks("transformer")'
           /\ tr[g].zs \in PoolBlocks("zstream")'
           /\ tr[g].state \in PoolBlocks("state")' \cup {NULL}
           /\ tr[g].work \in PoolBlocks("work")' \cup {NULL}
    <3>1. \A p \in Pools : PoolBlocks(p) \subseteq PoolBlocks(p)'
      BY DEF PoolsAfter
    <3>2. QED
      BY <3>1 DEF TInv, TTypeOK, Pools
  <2>3. QED
    BY <2>1, <2>2 DEF PoolsAfter, TInv, TTypeOK
<1>2. Shape'
  BY PoolsAfterShape DEF PoolsAfter, TInv, Shape
<1>3. Accounted'
  BY DEF Accounted
<1>4. FreeStreamsEnded'
  <2>1. FreeBlocks("zstream")' = FreeBlocks("zstream") \ {NULL}
    BY DEF PoolsAfter, Pools
  <2>2. \A n \in FreeBlocks("zstream")' : zsmem'[n] = "ended"
    BY <2>1, FreeStreamsEndedElems DEF TInv
  <2>3. QED
    BY <2>2 DEF FreeStreamsEnded, FreeBlocks
<1>5. QED
  BY <1>1, <1>2, <1>3, <1>4 DEF TInv


\* Taking NULL out of a union of two sets.
LEMMA NullOut ==
    ASSUME NEW A, NEW R, NEW N
    PROVE  (A \cup R) \ {N} = (A \ {N}) \cup (R \ {N})
OBVIOUS

\* A handle that starts holding rec adds rec's non-null blocks to the held
\* ones.
LEMMA HeldAfterAdd ==
    ASSUME NEW h, NEW rec, h \notin Held, Held' = Held \cup {h},
           \A g \in Held : tr'[g] = tr[g], tr'[h] = rec
    PROVE  HeldBlocks' = HeldBlocks \cup ({rec[f] : f \in Fields} \ {NULL})
<1>1. {tr'[g][f] : g \in Held', f \in Fields}
        = {tr[g][f] : g \in Held, f \in Fields} \cup {rec[f] : f \in Fields}
  OBVIOUS
<1>2. QED
  BY <1>1, NullOut DEF HeldBlocks

\* The pool each field of a transformer takes its block from.
FieldPool == [self |-> "transformer", zs |-> "zstream", state |-> "state",
              work |-> "work"]

\* The z_stream was allocated: the init call sets zs->state and the handle
\* holds the four blocks, the ZStreamState and the work buffer possibly NULL.
LEMMA AcquireLive ==
    ASSUME TInv, NEW h \in Handles, tr[h] = None, fault = "none",
           NEW y, PoolsAfter(y),
           y["transformer"] # NULL, y["zstream"] # NULL,
           NEW sv \in ZsStates, zsmem' = [zsmem EXCEPT ![y["zstream"]] = sv],
           tr' = [tr EXCEPT ![h] = [self |-> y["transformer"], zs |-> y["zstream"],
                                    state |-> y["state"], work |-> y["work"]]],
           fault' = fault
    PROVE  TInv'
<1> DEFINE rec == [self |-> y["transformer"], zs |-> y["zstream"],
                   state |-> y["state"], work |-> y["work"]]
           Y == {y[p] : p \in Pools} \ {NULL}
<1>0. /\ h \notin Held /\ Held' = Held \cup {h}
      /\ \A g \in Held : tr'[g] = tr[g]
      /\ tr'[h] = rec
      /\ \A f \in Fields : rec[f] = y[FieldPool[f]] /\ FieldPool[f] \in Pools
      /\ \A p \in Pools : \E f \in Fields : FieldPool[f] = p
      /\ \A f, e \in Fields : FieldPool[f] = FieldPool[e] => f = e
  BY DEF Held, None, TInv, Shape, Fields, FieldPool, Pools
<1>1. /\ y \in [Pools -> Nodes \cup {NULL}]
      /\ y["zstream"] \in Nodes /\ y["transformer"] \in Nodes
      /\ zsmem \in [Nodes -> ZsStates]
  BY DEF PoolsAfter, Pools, TInv, TTypeOK
<1>2. TTypeOK'
  <2>1. \A g \in Held' :
           /\ tr'[g].self \in PoolBlocks("transformer")'
           /\ tr'[g].zs \in PoolBlocks("zstream")'
           /\ tr'[g].state \in PoolBlocks("state")' \cup {NULL}
           /\ tr'[g].work \in PoolBlocks("work")' \cup {NULL}
    <3>1. \A p \in Pools : PoolBlocks(p) \subseteq PoolBlocks(p)'
      BY DEF PoolsAfter
    <3>2. \A g \in Held :
             /\ tr'[g].self \in PoolBlocks("transformer")'
             /\ tr'[g].zs \in PoolBlocks("zstream")'
             /\ tr'[g].state \in PoolBlocks("state")' \cup {NULL}
             /\ tr'[g].work \in PoolBlocks("work")' \cup {NULL}
      BY <1>0, <3>1 DEF TInv, TTypeOK, Pools
    <3>3. \A p \in Pools : y[p] # NULL => y[p] \in PoolBlocks(p)'
      BY DEF PoolsAfter
    <3>4. /\ rec.self \in PoolBlocks("transformer")'
          /\ rec.zs \in PoolBlocks("zstream")'
          /\ rec.state \in PoolBlocks("state")' \cup {NULL}
          /\ rec.work \in PoolBlocks("work")' \cup {NULL}
      BY <3>3 DEF Pools
    <3>5. QED
      BY <1>0, <3>2, <3>4
  <2>2. zsmem' \in [Nodes -> ZsStates]
    BY <1>1
  <2>3. QED
    BY <2>1, <2>2 DEF PoolsAfter, TInv, TTypeOK
<1>3. Shape'
  <2>1. rec \in TrRecs
    BY <1>1 DEF TrRecs, Pools
  <2>2. tr' \in [Handles -> TrRecs \cup {None}]
    BY <2>1 DEF TInv, Shape
  <2>3. QED
    BY <2>2, PoolsAfterShape DEF PoolsAfter, Shape
<1>4. HeldBlocks' = HeldBlocks \cup Y
  <2>1. {rec[f] : f \in Fields} = {y[p] : p \in Pools}
    BY <1>0
  <2>2. HeldBlocks' = HeldBlocks \cup ({rec[f] : f \in Fields} \ {NULL})
    BY <1>0, HeldAfterAdd
  <2>3. QED
    BY <2>1, <2>2
<1>5. Accounted'
  <2> USE DEF PoolsAfter
  <2>1. \A p \in Pools : FreeBlocks(p)' \cap HeldBlocks' = {}
    <3>1. \A p \in Pools : FreeBlocks(p)' \subseteq FreeBlocks(p)
      OBVIOUS
    <3>2. QED
      BY <1>4, <3>1 DEF TInv, Accounted
  <2>2. \A g1, g2 \in Held' : \A f, e \in Fields :
           tr'[g1][f] = tr'[g2][e] /\ tr'[g1][f] # NULL => g1 = g2 /\ f = e
    <3> SUFFICES ASSUME NEW g1 \in Held', NEW g2 \in Held', NEW f \in Fields,
                        NEW e \in Fields, tr'[g1][f] = tr'[g2][e], tr'[g1][f] # NULL
                 PROVE  g1 = g2 /\ f = e
      OBVIOUS
    <3>1. CASE g1 \in Held /\ g2 \in Held
      BY <1>0, <3>1 DEF TInv, Accounted
    <3>2. CASE g1 = h /\ g2 = h
      <4>1. y[FieldPool[f]] = y[FieldPool[e]] /\ y[FieldPool[f]] # NULL
            /\ FieldPool[f] \in Pools /\ FieldPool[e] \in Pools
        BY <1>0, <3>2
      <4>2. FieldPool[f] = FieldPool[e]
        BY <4>1
      <4>3. QED
        BY <1>0, <3>2, <4>2
    <3>3. CASE g1 = h /\ g2 \in Held
      <4>1. tr[g2][e] \in HeldBlocks /\ tr[g2][e] = y[FieldPool[f]]
        BY <1>0, <3>3 DEF HeldBlocks
      <4>2. y[FieldPool[f]] # NULL /\ FieldPool[f] \in Pools
        BY <1>0, <3>3
      <4>3. y[FieldPool[f]] \notin HeldBlocks
        BY <4>2
      <4>4. QED
        BY <4>1, <4>3
    <3>4. CASE g1 \in Held /\ g2 = h
      <4>1. tr[g1][f] \in HeldBlocks /\ tr[g1][f] = y[FieldPool[e]]
        BY <1>0, <3>4 DEF HeldBlocks
      <4>2. y[FieldPool[e]] # NULL /\ FieldPool[e] \in Pools
        BY <1>0, <3>4, <4>1
      <4>3. y[FieldPool[e]] \notin HeldBlocks
        BY <4>2
      <4>4. QED
        BY <4>1, <4>3
    <3>5. QED
      BY <1>0, <3>1, <3>2, <3>3, <3>4
  <2>3. allocated' = HeldBlocks' \cup UNION {FreeBlocks(p)' : p \in Pools}
    <3>1. allocated = HeldBlocks \cup UNION {FreeBlocks(p) : p \in Pools}
      BY DEF TInv, Accounted
    <3>2. \A p \in Pools : FreeBlocks(p) \subseteq FreeBlocks(p)' \cup Y
      <4>1. \A p \in Pools : NULL \notin FreeBlocks(p)
        BY TransformerAssumption DEF TInv, Shape, FreeBlocks
      <4>2. QED
        BY <4>1
    <3>3. QED
      BY <1>4, <3>1, <3>2
  <2>4. QED
    BY <2>1, <2>2, <2>3 DEF Accounted
<1>6. FreeStreamsEnded'
  <2>1. \A n \in FreeBlocks("zstream")' :
           n \in FreeBlocks("zstream") /\ n # y["zstream"] /\ n \in Nodes
    <3>1. FreeBlocks("zstream") \subseteq Nodes
      BY DEF TInv, Shape, FreeBlocks, Pools
    <3>2. QED
      BY <3>1 DEF PoolsAfter, Pools
  <2>2. \A n \in FreeBlocks("zstream")' : zsmem'[n] = "ended"
    BY <1>1, <2>1, FreeStreamsEndedElems DEF TInv
  <2>3. QED
    BY <2>2 DEF FreeStreamsEnded, FreeBlocks
<1>7. QED
  BY <1>2, <1>3, <1>5, <1>6 DEF TInv


\* acquire_*_transformer keeps the invariant.
LEMMA AcquireTInv ==
    ASSUME TInv, NEW h \in Handles, Acquire(h)
    PROVE  TInv'
<1>0. tr[h] = None /\ fault = "none"
  BY DEF Acquire
<1>1. PICK self \in Avail(FieldPools[1]) :
         IF self = NULL
         THEN /\ fault' = "null_deref"
              /\ UNCHANGED <<free, allocated, owner, zsmem, tr>>
         ELSE
         \E w \in AvailWork(FieldPools[2]), st \in Avail(FieldPools[3]),
            z \in Avail(FieldPools[4]), code \in InitCodes :
            LET picks == <<self, w, st, z>>
                isFresh(i) == picks[i] # NULL /\ picks[i] \notin allocated
            IN
            /\ \A i, j \in 1 .. 4 : i # j /\ picks[i] # NULL => picks[i] # picks[j]
            /\ free' = [p \in Pools |->
                          IF free[p] # <<>> /\ \E i \in 1 .. 4 :
                                                 FieldPools[i] = p /\ picks[i] # NULL
                          THEN Tail(free[p]) ELSE free[p]]
            /\ allocated' = allocated \cup ({self, w, st, z} \ {NULL})
            /\ owner' = [n \in Nodes |->
                           IF \E i \in 1 .. 4 : isFresh(i) /\ picks[i] = n
                           THEN FieldPools[CHOOSE i \in 1 .. 4 : picks[i] = n]
                           ELSE owner[n]]
            /\ IF z = NULL
               THEN /\ fault' = "null_deref"
                    /\ UNCHANGED <<zsmem, tr>>
               ELSE /\ zsmem' \in {[zsmem EXCEPT ![z] = s] :
                                     s \in InitEffect(code, IF z \in allocated
                                                            THEN zsmem[z]
                                                            ELSE "garbage")}
                    /\ tr' = [tr EXCEPT ![h] = [self |-> self, zs |-> z,
                                                state |-> st, work |-> w]]
                    /\ UNCHANGED fault
  BY DEF Acquire
<1>2. CASE self = NULL
  BY <1>1, <1>2, FaultOnlyTInv
<1>3. CASE self # NULL
  <2>1. PICK w \in AvailWork(FieldPools[2]), st \in Avail(FieldPools[3]),
             z \in Avail(FieldPools[4]), code \in InitCodes :
            LET picks == <<self, w, st, z>>
                isFresh(i) == picks[i] # NULL /\ picks[i] \notin allocated
            IN
            /\ \A i, j \in 1 .. 4 : i # j /\ picks[i] # NULL => picks[i] # picks[j]
            /\ free' = [p \in Pools |->
                          IF free[p] # <<>> /\ \E i \in 1 .. 4 :
                                                 FieldPools[i] = p /\ picks[i] # NULL
                          THEN Tail(free[p]) ELSE free[p]]
            /\ allocated' = allocated \cup ({self, w, st, z} \ {NULL})
            /\ owner' = [n \in Nodes |->
                           IF \E i \in 1 .. 4 : isFresh(i) /\ picks[i] = n
                           THEN FieldPools[CHOOSE i \in 1 .. 4 : picks[i] = n]
                           ELSE owner[n]]
            /\ IF z = NULL
               THEN /\ fault' = "null_deref"
                    /\ UNCHANGED <<zsmem, tr>>
               ELSE /\ zsmem' \in {[zsmem EXCEPT ![z] = s] :
                                     s \in InitEffect(code, IF z \in allocated
                                                            THEN zsmem[z]
                                                            ELSE "garbage")}
                    /\ tr' = [tr EXCEPT ![h] = [self |-> self, zs |-> z,
                                                state |-> st, work |-> w]]
                    /\ UNCHANGED fault
    BY <1>1, <1>3
  <2>0. PICK y : y = [transformer |-> self, zstream |-> z, state |-> st, work |-> w]
    OBVIOUS
  <2>2. /\ y \in [Pools -> Nodes \cup {NULL}]
        /\ \A p \in Pools : y[p] # NULL =>
              \/ free[p] # <<>> /\ y[p] = Head(free[p])
              \/ free[p] = <<>> /\ y[p] \in PoolNodes[p] \ allocated
        /\ \A p, q \in Pools : p # q /\ y[p] # NULL => y[p] # y[q]
        /\ free' = [p \in Pools |-> IF free[p] # <<>> /\ y[p] # NULL
                                    THEN Tail(free[p]) ELSE free[p]]
        /\ allocated' = allocated \cup ({y[p] : p \in Pools} \ {NULL})
        /\ \A n \in allocated : owner'[n] = owner[n]
        /\ \A p \in Pools : y[p] # NULL /\ y[p] \notin allocated =>
                              owner'[y[p]] = p
        /\ owner' \in [Nodes -> Pools \cup {"none"}]
    <3>1. /\ \A i, j \in 1 .. 4 : i # j /\ <<self, w, st, z>>[i] # NULL =>
                                     <<self, w, st, z>>[i] # <<self, w, st, z>>[j]
          /\ free' = FreeAfter(<<self, w, st, z>>)
          /\ allocated' = allocated \cup ({self, w, st, z} \ {NULL})
          /\ owner' = OwnerAfter(<<self, w, st, z>>)
      BY <2>1, Zenon DEF FreeAfter, OwnerAfter
    <3>2. /\ self \in Avail(FieldPools[1]) /\ self # NULL
          /\ w \in AvailWork(FieldPools[2]) /\ st \in Avail(FieldPools[3])
          /\ z \in Avail(FieldPools[4])
          /\ y = [transformer |-> self, zstream |-> z, state |-> st, work |-> w]
      BY <1>3, <2>0
    <3> DEFINE picks == <<self, w, st, z>>
    <3> USE <3>1, <3>2 DEF FreeAfter, OwnerAfter
    <3>11. /\ self \in Avail("transformer") \cup {NULL}
           /\ w \in Avail("work") \cup {NULL}
           /\ st \in Avail("state") \cup {NULL}
           /\ z \in Avail("zstream") \cup {NULL}
      BY DEF FieldPools, AvailWork
    <3>12. \A p \in Pools : y[p] \in Avail(p) \cup {NULL}
      BY <3>11 DEF Pools
    <3>13. \A p \in Pools : y[p] # NULL =>
              /\ y[p] \in Nodes
              /\ \/ free[p] # <<>> /\ y[p] = Head(free[p])
                 \/ free[p] = <<>> /\ y[p] \in PoolNodes[p] \ allocated
      BY <3>12, AvailFacts
    <3>14. y \in [Pools -> Nodes \cup {NULL}]
      BY <3>13 DEF Pools
    <3>15. \A p \in Pools : \E i \in 1 .. 4 : /\ FieldPools[i] = p /\ picks[i] = y[p]
                                             /\ \A j \in 1 .. 4 : FieldPools[j] = p => j = i
      BY DEF Pools, FieldPools
    <3>16. \A p, q \in Pools : p # q /\ y[p] # NULL => y[p] # y[q]
      BY DEF Pools
    <3>17. free' = [p \in Pools |-> IF free[p] # <<>> /\ y[p] # NULL
                                    THEN Tail(free[p]) ELSE free[p]]
      BY <3>15
    <3>18. {y[p] : p \in Pools} = {self, w, st, z}
      BY DEF Pools
    <3>19. \A n \in allocated : owner'[n] = owner[n]
      BY DEF TInv, Shape
    <3>110. \A p \in Pools : y[p] # NULL /\ y[p] \notin allocated => owner'[y[p]] = p
      <4> SUFFICES ASSUME NEW p \in Pools, y[p] # NULL, y[p] \notin allocated
                   PROVE  owner'[y[p]] = p
        OBVIOUS
      <4>11. PICK i \in 1 .. 4 : FieldPools[i] = p /\ picks[i] = y[p]
        BY <3>15
      <4>12. \A j \in 1 .. 4 : picks[j] = y[p] => j = i
        BY <4>11
      <4>13. (CHOOSE j \in 1 .. 4 : picks[j] = y[p]) = i
        BY <4>11, <4>12
      <4>14. QED
        BY <3>13, <4>11, <4>13
    <3>111. owner' \in [Nodes -> Pools \cup {"none"}]
      <4>11. owner \in [Nodes -> Pools \cup {"none"}]
        BY DEF TInv, Shape
      <4>12. \A i \in 1 .. 4 : FieldPools[i] \in Pools
        BY DEF FieldPools, Pools
      <4>13. QED
        BY <4>11, <4>12
    <3>112. QED
      BY <3>13, <3>14, <3>16, <3>17, <3>18, <3>19, <3>110, <3>111
  <2>3. PoolsAfter(y)
    <3>1. /\ \A p \in Pools : PoolBlocks(p) \subseteq PoolBlocks(p)'
          /\ \A p \in Pools : y[p] # NULL => y[p] \in PoolBlocks(p)'
          /\ \A p \in Pools : free'[p] \in Seq(PoolBlocks(p)')
          /\ \A p \in Pools : InjectiveSeq(free'[p])
          /\ \A p \in Pools : FreeBlocks(p)' = FreeBlocks(p) \ {y[p]}
          /\ \A p \in Pools : y[p] # NULL =>
                /\ y[p] \notin HeldBlocks
                /\ \A q \in Pools : y[p] \notin FreeBlocks(q)'
      BY <1>0, <2>2, AcquirePools
    <3>2. free' = [p \in Pools |-> free'[p]]
      BY <2>2
    <3>3. QED
      BY <2>2, <3>1, <3>2 DEF PoolsAfter
  <2>4. CASE z = NULL
    <3>1. fault' = "null_deref" /\ UNCHANGED <<zsmem, tr>> /\ y["zstream"] = NULL
      BY <2>0, <2>1, <2>4
    <3>2. QED
      BY <2>3, <3>1, AcquireNoStream
  <2>5. CASE z # NULL
    <3>1. /\ zsmem' \in {[zsmem EXCEPT ![z] = s] :
                           s \in InitEffect(code, IF z \in allocated
                                                  THEN zsmem[z] ELSE "garbage")}
          /\ tr' = [tr EXCEPT ![h] = [self |-> self, zs |-> z,
                                      state |-> st, work |-> w]]
          /\ fault' = fault
      BY <2>1, <2>5
    <3>2. PICK sv \in InitEffect(code, IF z \in allocated THEN zsmem[z] ELSE "garbage") :
             zsmem' = [zsmem EXCEPT ![z] = sv]
      BY <3>1
    <3>3. sv \in ZsStates
      <4>1. z \in Nodes /\ zsmem \in [Nodes -> ZsStates]
        BY <2>0, <2>2, <2>5 DEF TInv, TTypeOK, Pools
      <4>2. (IF z \in allocated THEN zsmem[z] ELSE "garbage") \in ZsStates
        BY <4>1 DEF ZsStates
      <4>3. QED
        BY <4>2 DEF InitEffect, ZsStates
    <3>4. /\ y["transformer"] # NULL /\ y["zstream"] # NULL
          /\ zsmem' = [zsmem EXCEPT ![y["zstream"]] = sv]
          /\ tr' = [tr EXCEPT ![h] = [self |-> y["transformer"],
                                      zs |-> y["zstream"],
                                      state |-> y["state"], work |-> y["work"]]]
      BY <1>3, <2>0, <2>5, <3>1, <3>2
    <3>5. QED
      BY <1>0, <2>3, <3>1, <3>3, <3>4, AcquireLive
  <2>6. QED
    BY <2>4, <2>5
<1>4. QED
  BY <1>2, <1>3


\* Every step of the transformer model keeps the invariant.
LEMMA StepTInv == TInv /\ [Next]_tvars => TInv'
<1> SUFFICES ASSUME TInv, [Next]_tvars PROVE TInv'
  OBVIOUS
<1>1. CASE \E h \in Handles : Acquire(h)
  BY <1>1, AcquireTInv
<1>2. CASE \E h \in Handles : Reset(h) \/ Compress(h) \/ UncompressStep(h)
  BY <1>2, CallTInv
<1>3. CASE \E h \in Handles : Release(h)
  BY <1>3, ReleaseTInv
<1>4. CASE Crashed \/ UNCHANGED tvars
  <2>1. fault' \in {"none", "null_deref", "null_free", "uninit_state"}
    BY <1>4 DEF Crashed, tvars, TInv, TTypeOK
  <2>2. QED
    BY <1>4, <2>1, FaultOnlyTInv DEF Crashed, tvars
<1>5. QED
  BY <1>1, <1>2, <1>3, <1>4 DEF Next

\* While the process runs, a block malloc returned has exactly one place:
\* a position in one free list, or a field of one live transformer.
LEMMA PlacesSingleton ==
    ASSUME TInv, fault = "none", NEW n \in allocated
    PROVE  \E x : Places(n) = {x}
<1> DEFINE FreePart == UNION {{<<p, i>> : i \in {j \in 1 .. Len(free[p]) :
                                                    free[p][j] = n}} : p \in Pools}
           HeldPart == {hf \in Held \X {"self", "zs", "state", "work"} :
                          tr[hf[1]][hf[2]] = n}
<1>0. /\ \A p \in Pools : InjectiveSeq(free[p])
      /\ \A p \in Pools : FreeBlocks(p) \cap HeldBlocks = {}
      /\ \A h, g \in Held : \A f, e \in Fields :
            tr[h][f] = tr[g][e] /\ tr[h][f] # NULL => h = g /\ f = e
      /\ allocated = HeldBlocks \cup UNION {FreeBlocks(p) : p \in Pools}
      /\ n # NULL
  BY TransformerAssumption DEF TInv, Accounted, Shape
<1>1. Places(n) = FreePart \cup HeldPart
  BY Zenon DEF Places
<1>2. CASE n \in HeldBlocks
  <2>1. PICK g \in Held, f \in Fields : tr[g][f] = n
    BY <1>2 DEF HeldBlocks
  <2>2. HeldPart = {<<g, f>>}
    <3>1. \A g2 \in Held, e \in Fields : tr[g2][e] = n => g2 = g /\ e = f
      BY <1>0, <2>1
    <3>2. QED
      BY <2>1, <3>1 DEF Fields
  <2>3. FreePart = {}
    <3>1. \A p \in Pools : \A i \in 1 .. Len(free[p]) : free[p][i] # n
      BY <1>0, <1>2 DEF FreeBlocks
    <3>2. QED
      BY <3>1
  <2>4. QED
    BY <1>1, <2>2, <2>3
<1>3. CASE n \notin HeldBlocks
  <2>0. PICK p \in Pools : \E i \in 1 .. Len(free[p]) : free[p][i] = n
    BY <1>0, <1>3 DEF FreeBlocks
  <2>1. PICK i \in 1 .. Len(free[p]) : free[p][i] = n
    BY <2>0
  <2>2. HeldPart = {}
    BY <1>0, <1>3 DEF HeldBlocks, Fields
  <2>3. FreePart = {<<p, i>>}
    <3>1. \A q \in Pools : free[q] \in Seq(PoolBlocks(q))
      BY DEF TInv, TTypeOK
    <3>2. \A q \in Pools : \A j \in 1 .. Len(free[q]) : free[q][j] = n => q = p
      <4>1. \A q \in Pools : \A j \in 1 .. Len(free[q]) : free[q][j] \in PoolBlocks(q)
        BY <3>1
      <4>2. QED
        BY <2>1, <4>1 DEF PoolBlocks
    <3>3. \A j \in 1 .. Len(free[p]) : free[p][j] = n => j = i
      BY <1>0, <2>1 DEF InjectiveSeq
    <3>4. QED
      BY <2>1, <3>2, <3>3
  <2>4. QED
    BY <1>1, <2>2, <2>3
<1>4. QED
  BY <1>2, <1>3

\* The invariant gives BlocksAccounted.
LEMMA TInvAccounted == TInv => BlocksAccounted
<1> SUFFICES ASSUME TInv, fault = "none", NEW n \in allocated
             PROVE  Cardinality(Places(n)) = 1
  BY DEF BlocksAccounted
<1>1. PICK x : Places(n) = {x}
  BY PlacesSingleton
<1>2. QED
  BY <1>1, FS_Singleton

\* TInv holds in every state of every behaviour of the transformer model.
THEOREM TransformerInvariant == TSpec => []TInv
BY InitTInv, StepTInv, PTL DEF TSpec

\* The handles' blocks come from the pools their fields name and every
\* free list holds blocks of its own pool, for every number of handles and
\* every set of block addresses (TTypeOK).
THEOREM TransformerTypeCorrect == TSpec => []TTypeOK
<1>1. TInv => TTypeOK
  BY DEF TInv
<1>2. QED
  BY TransformerInvariant, <1>1, PTL

\* No acquire reuses a z_stream whose zlib state is still allocated:
\* release_*_transformer ends the stream before pool_release_transformer
\* gives it back (FreeStreamsEnded).
THEOREM FreeStreamsEndedHolds == TSpec => []FreeStreamsEnded
<1>1. TInv => FreeStreamsEnded
  BY DEF TInv
<1>2. QED
  BY TransformerInvariant, <1>1, PTL

\* While the process runs, every block malloc returned is in exactly one
\* place: no block is shared by two transformers or given out twice by a
\* pool, and none is leaked by a release (BlocksAccounted).
THEOREM BlocksAccountedHolds == TSpec => []BlocksAccounted
BY TransformerInvariant, TInvAccounted, PTL

=============================================================================
