----------------------------- MODULE SeqLemmas -----------------------------
(***************************************************************************)
(* Facts about the free lists of the pool models: what popping the head    *)
(* (Tail) and pushing a block (<<x>> \o s) do to a sequence's elements and *)
(* to its having no element twice.                                         *)
(***************************************************************************)
EXTENDS Sequences, Naturals, TLAPS

\* A sequence with no element twice.
InjectiveSeq(s) == \A i, j \in 1 .. Len(s) : s[i] = s[j] => i = j

\* The elements of a non-empty sequence's tail are elements of the sequence.
LEMMA TailElems ==
    ASSUME NEW S, NEW s \in Seq(S), s # <<>>
    PROVE  /\ Tail(s) \in Seq(S)
           /\ \A i \in 1 .. Len(Tail(s)) : Tail(s)[i] \in {s[j] : j \in 1 .. Len(s)}
BY SMT

\* The elements of <<x>> \o s are x and the elements of s.
LEMMA ConsElems ==
    ASSUME NEW S, NEW s \in Seq(S), NEW x \in S
    PROVE  /\ <<x>> \o s \in Seq(S)
           /\ \A i \in 1 .. Len(<<x>> \o s) :
                 (<<x>> \o s)[i] \in {x} \cup {s[j] : j \in 1 .. Len(s)}
BY SMT

\* The head of a non-empty sequence is one of its elements.
LEMMA HeadElem ==
    ASSUME NEW S, NEW s \in Seq(S), s # <<>>
    PROVE  Head(s) \in {s[j] : j \in 1 .. Len(s)} /\ Head(s) \in S
BY SMT

\* A non-empty sequence's elements are its head and its tail's elements;
\* when it is injective, its head is not among its tail's.
LEMMA TailSplit ==
    ASSUME NEW S, NEW s \in Seq(S), s # <<>>
    PROVE  /\ {s[i] : i \in 1 .. Len(s)}
                = {Head(s)} \cup {Tail(s)[i] : i \in 1 .. Len(Tail(s))}
           /\ InjectiveSeq(s) =>
                 /\ InjectiveSeq(Tail(s))
                 /\ Head(s) \notin {Tail(s)[i] : i \in 1 .. Len(Tail(s))}
<1> DEFINE t == Tail(s)
<1>0. /\ Len(s) \in Nat \ {0}
      /\ Len(t) = Len(s) - 1
      /\ Head(s) = s[1]
      /\ \A i \in 1 .. Len(t) : t[i] = s[i + 1]
  BY SMT
<1>1. {s[i] : i \in 1 .. Len(s)} = {Head(s)} \cup {t[i] : i \in 1 .. Len(t)}
  <2>1. \A i \in 1 .. Len(s) : s[i] \in {Head(s)} \cup {t[j] : j \in 1 .. Len(t)}
    <3> SUFFICES ASSUME NEW i \in 1 .. Len(s)
                 PROVE  s[i] \in {Head(s)} \cup {t[j] : j \in 1 .. Len(t)}
      OBVIOUS
    <3>1. CASE i = 1
      BY <1>0, <3>1
    <3>2. CASE i # 1
      <4>1. i - 1 \in 1 .. Len(t) /\ t[i - 1] = s[i]
        BY <1>0, <3>2, SMT
      <4>2. QED
        BY <4>1
    <3>3. QED
      BY <3>1, <3>2
  <2>2. Head(s) \in {s[i] : i \in 1 .. Len(s)}
    BY <1>0, SMT
  <2>3. \A j \in 1 .. Len(t) : t[j] \in {s[i] : i \in 1 .. Len(s)}
    <3> SUFFICES ASSUME NEW j \in 1 .. Len(t)
                 PROVE  t[j] \in {s[i] : i \in 1 .. Len(s)}
      OBVIOUS
    <3>1. j + 1 \in 1 .. Len(s) /\ t[j] = s[j + 1]
      BY <1>0, SMT
    <3>2. QED
      BY <3>1
  <2>4. QED
    BY <2>1, <2>2, <2>3
<1>2. InjectiveSeq(s) => InjectiveSeq(Tail(s))
  BY SMT DEF InjectiveSeq
<1>3. InjectiveSeq(s) => Head(s) \notin {Tail(s)[i] : i \in 1 .. Len(Tail(s))}
  BY SMT DEF InjectiveSeq
<1>4. QED
  BY <1>1, <1>2, <1>3

\* The elements of <<x>> \o s are x and s's; it is injective when s is
\* and x is not in s.
LEMMA ConsSplit ==
    ASSUME NEW S, NEW s \in Seq(S), NEW x \in S
    PROVE  /\ {(<<x>> \o s)[i] : i \in 1 .. Len(<<x>> \o s)}
                = {x} \cup {s[i] : i \in 1 .. Len(s)}
           /\ (InjectiveSeq(s) /\ x \notin {s[i] : i \in 1 .. Len(s)})
                 => InjectiveSeq(<<x>> \o s)
<1> DEFINE c == <<x>> \o s
<1>0. /\ Len(c) = Len(s) + 1
      /\ c[1] = x
      /\ \A i \in 1 .. Len(s) : c[i + 1] = s[i]
      /\ \A i \in 2 .. Len(c) : c[i] = s[i - 1]
  BY SMT
<1>1. {c[i] : i \in 1 .. Len(c)} = {x} \cup {s[i] : i \in 1 .. Len(s)}
  <2>1. \A i \in 1 .. Len(c) : c[i] \in {x} \cup {s[j] : j \in 1 .. Len(s)}
    <3> SUFFICES ASSUME NEW i \in 1 .. Len(c)
                 PROVE  c[i] \in {x} \cup {s[j] : j \in 1 .. Len(s)}
      OBVIOUS
    <3>1. CASE i = 1
      BY <1>0, <3>1
    <3>2. CASE i # 1
      <4>1. i - 1 \in 1 .. Len(s) /\ c[i] = s[i - 1]
        BY <1>0, <3>2, SMT
      <4>2. QED
        BY <4>1
    <3>3. QED
      BY <3>1, <3>2
  <2>2. x \in {c[i] : i \in 1 .. Len(c)}
    BY <1>0, SMT
  <2>3. \A j \in 1 .. Len(s) : s[j] \in {c[i] : i \in 1 .. Len(c)}
    <3> SUFFICES ASSUME NEW j \in 1 .. Len(s)
                 PROVE  s[j] \in {c[i] : i \in 1 .. Len(c)}
      OBVIOUS
    <3>1. j + 1 \in 1 .. Len(c) /\ c[j + 1] = s[j]
      BY <1>0, SMT
    <3>2. QED
      BY <3>1
  <2>4. QED
    BY <2>1, <2>2, <2>3
<1>2. (InjectiveSeq(s) /\ x \notin {s[i] : i \in 1 .. Len(s)})
        => InjectiveSeq(<<x>> \o s)
  BY SMT DEF InjectiveSeq
<1>3. QED
  BY <1>1, <1>2

=============================================================================
